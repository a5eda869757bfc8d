---------------------------- MODULE PacketQueue ----------------------------
(***************************************************************************)
(* The sender's window, src/src/packetqueue.rs.  A PacketQueue is a record *)
(* with the fields of the Rust struct; every `&mut self` method is an      *)
(* operator from the record to the record after the call.                  *)
(*                                                                         *)
(* Abstracted: the header byte of a frame set; `resend`, the scratch list  *)
(* that tick fills and readd empties within one get_packet, is the         *)
(* argument `expired`; the Instant of a time_passed entry, of which only   *)
(* "is it more than one second old" is ever asked (see Expirable).         *)
(***************************************************************************)
EXTENDS Naturals, Sequences, HashMap

CONSTANTS
    Frame,        \* the frames a session can hand to its packet queue
    Length,       \* Length[f] is f.length(), the bytes of f in a datagram
    Split,        \* the frames with f.split set
    Capacity      \* mtu - 42, the bytes of frames a shared set stays below

ASSUME FrameAssumption ==
    /\ Length \in [Frame -> Nat]
    /\ Split \subseteq Frame
    /\ Capacity \in Nat

FrameSet == [sequence_number : Nat, datas : Seq(Frame)]

PacketQueueType(pq) ==
    /\ DOMAIN pq.queue \subseteq Nat
    /\ DOMAIN pq.time_passed \subseteq Nat
    /\ pq \in [ queue       : [DOMAIN pq.queue -> FrameSet],
                time_passed : [DOMAIN pq.time_passed -> BOOLEAN],
                max         : Nat,
                send_min    : Nat,
                set_size    : Nat,
                set_queue   : Seq(Frame) ]

NewPacketQueue ==
    [ queue       |-> EmptyMap,    \* sequence number -> frame set not yet acknowledged
      time_passed |-> EmptyMap,    \* sequence number -> has it been sent
      max         |-> 0,           \* the next sequence number
      send_min    |-> 0,           \* the first number never given to the socket
      set_size    |-> 0,           \* bytes waiting in set_queue
      set_queue   |-> << >> ]      \* frames waiting to share the next set

-----------------------------------------------------------------------------
(* The mutated forms of the definitions below.                             *)

\* readd forgets that the clone needs a number of its own
RenumberKeepsNumber(pq, order) ==
    LET number(s) == order[s + 1 - pq.max]
        next      == pq.max + Len(order)
        keys      == (DOMAIN pq.queue \ {order[i] : i \in DOMAIN order})
                         \cup pq.max..(next - 1)
    IN  [pq EXCEPT !.queue = [s \in keys |-> IF s < pq.max THEN @[s] ELSE @[number(s)]],
                   !.time_passed = [s \in keys |-> IF s < pq.max THEN @[s] ELSE FALSE],
                   !.max = next]

\* an acknowledgement removes the frame set and leaves its timer
ReceivedKeepsTimer(pq, sequences) == [pq EXCEPT !.queue = Without(@, sequences)]

\* no sent set is ever found late
ExpirableNever(pq, cutoff) == {}

-----------------------------------------------------------------------------
(* The methods.                                                            *)

\* add: the set takes the next number; a set with another number is dropped
AddSet(pq, set) ==
    IF set.sequence_number = pq.max
    THEN [pq EXCEPT !.queue = Put(@, pq.max, set),
                    !.time_passed = Put(@, pq.max, FALSE),
                    !.max = @ + 1]
    ELSE pq

\* (mutated form of AddFrame: a frame that fills the set to the last byte shares it)
AddFrameAtCapacity(pq, f) ==
    IF pq.set_size + Length[f] <= Capacity /\ f \notin Split
    THEN [pq EXCEPT !.set_size = @ + Length[f],
                    !.set_queue = Append(@, f)]
    ELSE AddSet(pq, [sequence_number |-> pq.max, datas |-> <<f>>])

\* add_frame: share the next set if the frame fits in it, else a set of its own
AddFrame(pq, f) ==
    IF pq.set_size + Length[f] < Capacity /\ f \notin Split
    THEN [pq EXCEPT !.set_size = @ + Length[f],
                    !.set_queue = Append(@, f)]
    ELSE AddSet(pq, [sequence_number |-> pq.max, datas |-> <<f>>])

\* received, for every number an ACK covers
Received(pq, sequences) ==
    [pq EXCEPT !.queue = Without(@, sequences),
               !.time_passed = Without(@, sequences \cap DOMAIN pq.queue)]

\* The loop of readd, and the body of resend: the frame sets numbered
\* order[1], order[2], ... leave the queue and come back, unsent, under the
\* next numbers.
Renumber(pq, order) ==
    LET number(s) == order[s + 1 - pq.max]
        next      == pq.max + Len(order)
        keys      == (DOMAIN pq.queue \ {order[i] : i \in DOMAIN order})
                         \cup pq.max..(next - 1)
    IN  [pq EXCEPT !.queue = [s \in keys |->
                        IF s < pq.max THEN @[s]
                        ELSE [sequence_number |-> s, datas |-> @[number(s)].datas]],
                   !.time_passed = [s \in keys |-> IF s < pq.max THEN @[s] ELSE FALSE],
                   !.max = next]

\* resend, for the number of a NACK
Resend(pq, index) ==
    IF index \in DOMAIN pq.time_passed THEN Renumber(pq, <<index>>) ELSE pq

\* tick, its first half: the shared set takes the next number
Tick(pq) ==
    IF pq.set_queue = << >> THEN pq
    ELSE [AddSet(pq, [sequence_number |-> pq.max, datas |-> pq.set_queue])
             EXCEPT !.set_size = 0,
                    !.set_queue = << >>]

\* tick, its second half, picks the numbers that were sent more than a second
\* ago and are still unacknowledged.  Numbers are given out in the order of
\* their Instants, so those are the sent numbers below some cutoff; the map
\* yields them in no particular order.
Expirable(pq, cutoff) ==
    {s \in DOMAIN pq.time_passed : pq.time_passed[s] /\ s < cutoff}

\* get_packet: what the queue is after it ...
AfterGetPacket(pq, expired) ==
    LET ready == Renumber(Tick(pq), expired)
    IN  [ready EXCEPT !.time_passed = [s \in DOMAIN @ |-> @[s] \/ s \in ready.send_min..(ready.max - 1)],
                      !.send_min = ready.max]

\* ... and the frame sets it returns
GetPacket(pq, expired) ==
    LET ready == Renumber(Tick(pq), expired)
    IN  {ready.queue[s] : s \in ready.send_min..(ready.max - 1)}

-----------------------------------------------------------------------------
(* What the properties say about a packet queue.                           *)

\* the frames of a frame set
FramesOf(set) == {set.datas[i] : i \in DOMAIN set.datas}

\* the frames a packet queue still answers for: not yet packed into a set, or
\* in a set not yet acknowledged
Held(pq) ==
    {pq.set_queue[i] : i \in DOMAIN pq.set_queue}
        \cup UNION {FramesOf(pq.queue[s]) : s \in DOMAIN pq.queue}
=============================================================================
