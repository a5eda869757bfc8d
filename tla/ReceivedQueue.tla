--------------------------- MODULE ReceivedQueue ---------------------------
(***************************************************************************)
(* Reordering and reassembly at the receiver: ReceivedQueue of             *)
(* src/src/receivedqueue.rs with the SplitPacketQueue of src/src/packet.rs *)
(* inside it, as a record and operators.                                   *)
(*                                                                         *)
(* A frame is a record with the fields that steer the queue; its `data` is *)
(* one opaque piece, and a packet is the sequence of the pieces it was put *)
(* together from (get_all concatenates their bytes).                       *)
(***************************************************************************)
EXTENDS Naturals, Sequences, FiniteSets, HashMap

NewReceivedQueue ==
    [ min          |-> 0,          \* the order index to hand over next
      max          |-> 0,          \* one above the highest order index seen
      packet_queue |-> EmptyMap,   \* order index -> packet that waits its turn
      pool         |-> EmptyMap,   \* split id -> message being put together
      delete       |-> {} ]        \* split ids whose entries are removed

NewSplit(f) ==
    [split_size |-> f.split_count, order_index |-> f.order_index, data |-> EmptyMap]

IsFull(split) == Cardinality(DOMAIN split.data) = split.split_size

-----------------------------------------------------------------------------
(* The mutated forms of the definitions below.                             *)

\* the pieces are put together from the last to the first
JoinBackwards(split) ==
    [k \in 1..split.split_size |-> split.data[split.split_size - k]]

\* no check that the order index has been handed over already
AddWholeNoMin(rq, f) ==
    IF f.order_index \in DOMAIN rq.packet_queue THEN rq
    ELSE [rq EXCEPT !.max = IF f.order_index >= @ THEN f.order_index + 1 ELSE @,
                    !.packet_queue = Put(@, f.order_index, <<f.data>>)]

\* the loop of get_all steps over a gap
AfterGetAllOverGap(rq) ==
    [rq EXCEPT !.packet_queue = EmptyMap, !.min = rq.max]

-----------------------------------------------------------------------------
(* The methods.                                                            *)

\* SplitPacket::get_all and get_frame
Join(split) == [k \in 1..split.split_size |-> split.data[k - 1]]

\* SplitPacketQueue::add, SplitPacket::add and the get_and_clear that follows
\* them.  Only the entry just touched can be full: the call that fills an entry
\* removes it.  Entries of `delete` are removed as well, full or not.
AddSplit(rq, f) ==
    LET entry  == IF f.split_id \in DOMAIN rq.pool THEN rq.pool[f.split_id] ELSE NewSplit(f)
        grown  == IF f.split_index < entry.split_size
                  THEN [entry EXCEPT !.data = Put(@, f.split_index, f.data)]
                  ELSE entry
        pool   == Put(rq.pool, f.split_id, grown)
        order  == grown.order_index
        delete == rq.delete \cup {f.split_id}
    IN  IF IsFull(grown)
        THEN [rq EXCEPT !.pool = Without(pool, delete),
                        !.delete = delete,
                        !.max = IF order >= @ THEN order + 1 ELSE @,
                        !.packet_queue = Put(@, order, Join(grown))]
        ELSE [rq EXCEPT !.pool = Without(pool, rq.delete)]

\* ReceivedQueue::add of a frame that is a whole packet
AddWhole(rq, f) ==
    IF f.order_index < rq.min \/ f.order_index \in DOMAIN rq.packet_queue THEN rq
    ELSE [rq EXCEPT !.max = IF f.order_index >= @ THEN f.order_index + 1 ELSE @,
                    !.packet_queue = Put(@, f.order_index, <<f.data>>)]

\* ReceivedQueue::add
AddReceived(rq, f) == IF f.split THEN AddSplit(rq, f) ELSE AddWhole(rq, f)

\* where the loop of get_all stops: the first index that does not wait, or max
FirstGap(rq) ==
    CHOOSE n \in rq.min..rq.max :
        /\ rq.min..(n - 1) \subseteq DOMAIN rq.packet_queue
        /\ n = rq.max \/ n \notin DOMAIN rq.packet_queue

\* get_all: the packets it returns ...
GetAll(rq) ==
    [k \in 1..(FirstGap(rq) - rq.min) |-> rq.packet_queue[rq.min + k - 1]]

\* ... and the queue after it
AfterGetAll(rq) ==
    [rq EXCEPT !.packet_queue = Without(@, rq.min..(FirstGap(rq) - 1)),
               !.min = FirstGap(rq)]
=============================================================================
