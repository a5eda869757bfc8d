----------------------------- MODULE Reassembly -----------------------------
(***************************************************************************)
(* The reliable ordered messages of one session, from Session::send_to to  *)
(* the packets Session::receive_packet hands on, over a link that delivers *)
(* every frame at least once, in any order and as often as it likes (which *)
(* is what Link's retransmissions under new numbers amount to).            *)
(***************************************************************************)
EXTENDS ReceivedQueue

CONSTANTS
    Parts,        \* Parts[n] is the number of frames message n needs
    SplitIds      \* 65536 in the code: how many split ids there are

\* A message that is split has two pieces at least (see Fragmentation).
ASSUME PartsAssumption ==
    /\ Parts \in [DOMAIN Parts -> Nat \ {0}]
    /\ \A n \in DOMAIN Parts : n \in Nat /\ 0..n \subseteq DOMAIN Parts
    /\ SplitIds \in Nat \ {0}

VARIABLES
    sent,        \* order_index: how many messages have been sent
    split_id,    \* the next split id
    frames,      \* the frames handed to the link so far
    rq,          \* the receiver's ReceivedQueue
    delivered,   \* history: the packets handed to handle_packet
    arrived      \* history: the frames that arrived at least once

vars == <<sent, split_id, frames, rq, delivered, arrived>>

\* the pieces of message n, and message n when it is whole
Piece(n, p) == <<n, p>>
Whole(n)    == [k \in 1..Parts[n] |-> Piece(n, k - 1)]

Init ==
    /\ sent = 0
    /\ split_id = 0
    /\ frames = {}
    /\ rq = NewReceivedQueue
    /\ delivered = << >>
    /\ arrived = {}

-----------------------------------------------------------------------------
(* The mutated forms of the definitions below.                             *)

\* every split message has the split id 0
FramesOfSameId(n, id) ==
    {[split |-> Parts[n] > 1, order_index |-> n, split_id |-> 0,
      split_count |-> Parts[n], split_index |-> p, data |-> Piece(n, p)]
        : p \in 0..(Parts[n] - 1)}

-----------------------------------------------------------------------------
(* The frames send_to makes of message n; what an unsplit frame has in its *)
(* split fields is never read.                                             *)
FramesFor(n, id) ==
    {[split |-> Parts[n] > 1, order_index |-> n, split_id |-> id,
      split_count |-> Parts[n], split_index |-> p, data |-> Piece(n, p)]
        : p \in 0..(Parts[n] - 1)}

\* Session::send_to
SendTo ==
    /\ sent \in DOMAIN Parts
    /\ frames' = frames \cup FramesFor(sent, split_id)
    /\ split_id' = IF Parts[sent] > 1 THEN (split_id + 1) % SplitIds ELSE split_id
    /\ sent' = sent + 1
    /\ UNCHANGED <<rq, delivered, arrived>>

\* Session::receive_packet of a sequenced or ordered frame
ReceivePacket(f) ==
    LET added == AddReceived(rq, f)
    IN  /\ f \in frames
        /\ rq' = AfterGetAll(added)
        /\ delivered' = delivered \o GetAll(added)
        /\ arrived' = arrived \cup {f}
        /\ UNCHANGED <<sent, split_id, frames>>

Next == SendTo \/ \E f \in frames : ReceivePacket(f)

Spec == Init /\ [][Next]_vars

\* The link delivers every frame at least once while both ends run (Transport).
AllFrames == UNION {FramesFor(n, id) : n \in DOMAIN Parts, id \in 0..(SplitIds - 1)}
FairSpec == Spec /\ \A f \in AllFrames : WF_vars(ReceivePacket(f))

-----------------------------------------------------------------------------
(* Properties.                                                             *)

\* The state stays well formed.
TypeOK ==
    /\ sent \in Nat
    /\ split_id \in 0..(SplitIds - 1)
    /\ rq.min \in Nat /\ rq.max \in Nat /\ rq.min <= rq.max
    /\ rq.packet_queue \in [DOMAIN rq.packet_queue -> {Whole(n) : n \in DOMAIN Parts}]
    /\ \A id \in DOMAIN rq.pool :
          /\ rq.pool[id].split_size \in Nat
          /\ rq.pool[id].order_index \in Nat
    /\ rq.delete \subseteq 0..(SplitIds - 1)
    /\ arrived \subseteq frames

\* What has been handed on is message 0, 1, ... min - 1, each once, in order and
\* with its own pieces in their order, whatever arrived late, twice or early.
InOrderIntact == delivered = [k \in 1..rq.min |-> Whole(k - 1)]

\* Late copies leave nothing behind.  What waits lies strictly between min and
\* max: get_all has taken out what it could, and nothing that was handed on comes
\* back to wait for ever.  The pool holds only messages that still lack a piece,
\* and none that was handed on.
NothingLeftBehind ==
    /\ \A o \in DOMAIN rq.packet_queue : rq.min < o /\ o < rq.max
    /\ DOMAIN rq.pool \cap rq.delete = {}
    /\ \A id \in DOMAIN rq.pool : /\ ~ IsFull(rq.pool[id])
                                  /\ rq.min <= rq.pool[id].order_index

\* The stream does not stall: once every frame of the messages up to n has
\* arrived, message n has been handed on.  This is what makes the delivery of
\* frames by the link enough; it needs split ids that are not used twice.
NoStall ==
    \A n \in 0..(sent - 1) :
        {f \in frames : f.order_index <= n} \subseteq arrived => n < rq.min

\* Reassembly implements the ordered channel, and over a link that delivers every
\* frame everything sent is delivered.
Channel == INSTANCE OrderedDelivery
               WITH Message <- {Whole(n) : n \in DOMAIN Parts},
                    sent    <- [k \in 1..sent |-> Whole(k - 1)],
                    closed  <- FALSE
ImplementsFairChannel == Channel!FairSpec
=============================================================================
