-------------------------------- MODULE Link --------------------------------
(***************************************************************************)
(* One direction of a session: the packet queue of the sending Session and *)
(* the ACK queue of the receiving one (src/src/session.rs), joined by UDP. *)
(* The network loses, duplicates and reorders; the sender's resend timer   *)
(* may fire early or late.                                                 *)
(***************************************************************************)
EXTENDS PacketQueue, AckQueue, FiniteSets

CONSTANTS
    MaxLosses,     \* bound: datagrams the network loses
    MaxCopies,     \* bound: datagrams the network delivers twice
    MaxSequence,   \* bound: the sender numbers no set at or above it
    PatientTimer   \* does the one-second timer outlast a round trip

ASSUME LinkAssumption ==
    /\ MaxLosses \in Nat
    /\ MaxCopies \in Nat
    /\ MaxSequence \in Nat
    /\ PatientTimer \in BOOLEAN

VARIABLES
    pq,         \* the sender's packet_queue
    aq,         \* the receiver's ack_queue
    net,        \* datagrams in flight, both ways
    losses,     \* datagrams lost so far
    copies,     \* datagrams duplicated so far
    offered,    \* history: the frames handed to add_frame
    arrived,    \* history: the frames the receiver's session has handled
    seen        \* history: the numbers of the frame sets it has handled

vars == <<pq, aq, net, losses, copies, offered, arrived, seen>>

\* the three kinds of datagram
Datagram == [kind : {"data"}, set : FrameSet]
                \cup [kind : {"ack"}, lo : Nat, hi : Nat]
                \cup [kind : {"nack"}, number : Nat]
Data(set)    == [kind |-> "data", set |-> set]
Ack(lo, hi)  == [kind |-> "ack", lo |-> lo, hi |-> hi]
Nack(number) == [kind |-> "nack", number |-> number]

Init ==
    /\ pq = NewPacketQueue
    /\ aq = NewACKQueue
    /\ net = {}
    /\ losses = 0
    /\ copies = 0
    /\ offered = {}
    /\ arrived = {}
    /\ seen = {}

-----------------------------------------------------------------------------
(* The network.                                                            *)

\* A datagram that is handled leaves the network, or stays for a second time.
Take(m, rest) ==
    \/ rest = net \ {m} /\ UNCHANGED copies
    \/ rest = net /\ copies < MaxCopies /\ copies' = copies + 1

Lose(m) ==
    /\ losses < MaxLosses
    /\ m \in net
    /\ net' = net \ {m}
    /\ losses' = losses + 1
    /\ UNCHANGED <<pq, aq, copies, offered, arrived, seen>>

-----------------------------------------------------------------------------
(* The sender.                                                             *)

\* Session::send.  Every frame is a new one: it carries a new message index.
Send(f) ==
    /\ f \notin offered
    /\ pq.max < MaxSequence
    /\ pq' = AddFrame(pq, f)
    /\ offered' = offered \cup {f}
    /\ UNCHANGED <<aq, net, losses, copies, arrived, seen>>

\* A patient timer gives up on a set only when neither the set nor a word
\* about it is on its way, and the receiver's next flush has none to send.
TimerMayFire(s) ==
    PatientTimer =>
        /\ s \notin Window(aq)
        /\ \A m \in net : CASE m.kind = "data" -> m.set.sequence_number # s
                            [] m.kind = "ack"  -> s \notin m.lo..m.hi
                            [] m.kind = "nack" -> m.number # s

\* the orders in which the resend list can name a set of numbers
Orders(S) == Bijection(1..Cardinality(S), S)

\* Session::flush_queue, from the tick and from force_flush
FlushQueue(cutoff) ==
    LET late == Expirable(pq, cutoff)
    IN  /\ \A s \in late : TimerMayFire(s)
        /\ \E expired \in Orders(late) :
              /\ AfterGetPacket(pq, expired).max <= MaxSequence
              /\ pq' = AfterGetPacket(pq, expired)
              /\ net' = net \cup {Data(set) : set \in GetPacket(pq, expired)}
        /\ UNCHANGED <<aq, losses, copies, offered, arrived, seen>>

\* Session::handle_ack
HandleAck(m) ==
    /\ m \in net /\ m.kind = "ack"
    /\ Take(m, net')
    /\ pq' = Received(pq, m.lo..m.hi)
    /\ UNCHANGED <<aq, losses, offered, arrived, seen>>

\* Session::handle_nack; the crate only sends NACKs of one number
HandleNack(m) ==
    /\ m \in net /\ m.kind = "nack"
    /\ Take(m, net')
    /\ pq.max < MaxSequence
    /\ pq' = Resend(pq, m.number)
    /\ UNCHANGED <<aq, losses, offered, arrived, seen>>

-----------------------------------------------------------------------------
(* The receiver.                                                           *)

\* Session::handle_datagram
HandleDatagram(m) ==
    /\ m \in net /\ m.kind = "data"
    /\ Take(m, net')
    /\ aq' = Add(aq, m.set.sequence_number)
    /\ arrived' = arrived \cup FramesOf(m.set)
    /\ seen' = seen \cup {m.set.sequence_number}
    /\ UNCHANGED <<pq, losses, offered>>

\* Session::flush_ack
FlushAck ==
    /\ net' = net \cup {Ack(r[1], r[2]) : r \in AckRanges(aq)}
                  \cup {Nack(s) : s \in Missing(aq)}
    /\ aq' = AfterClear(aq)
    /\ UNCHANGED <<pq, losses, copies, offered, arrived, seen>>

Next ==
    \/ \E f \in Frame : Send(f)
    \/ \E cutoff \in 0..pq.send_min : FlushQueue(cutoff)
    \/ FlushAck
    \/ \E m \in net : \/ Lose(m)
                      \/ HandleAck(m)
                      \/ HandleNack(m)
                      \/ HandleDatagram(m)

Spec == Init /\ [][Next]_vars

-----------------------------------------------------------------------------
(* Properties.                                                             *)

\* The state stays well formed: every field of the two records has the type
\* the struct declares, and net holds only the three kinds of datagram.
TypeOK ==
    /\ PacketQueueType(pq)
    /\ aq \in [lowest : Nat, highest : Nat, store_seq : SUBSET Nat]
    /\ net \subseteq Datagram
    /\ losses \in Nat
    /\ copies \in Nat
    /\ offered \subseteq Frame
    /\ arrived \subseteq Frame
    /\ seen \subseteq Nat

\* queue and time_passed are two maps over the same numbers: the unwrap of
\* resend (packetqueue.rs:102) and that of get_packet (:118) never fail.
QueueMatchesTimers == DOMAIN pq.queue = DOMAIN pq.time_passed

\* Every number between send_min and max is in the queue, so get_packet can
\* unwrap each of them (packetqueue.rs:117): no ACK or NACK that answers this
\* sender removes or renumbers a set that was never given to the socket.
WindowComplete == pq.send_min..(pq.max - 1) \subseteq DOMAIN pq.queue

\* An acknowledgement on its way covers only frame sets the receiver handled,
\* gaps excluded: the sender forgets nothing that has not arrived.
AckOnlySeen ==
    \A m \in net : m.kind = "ack" => m.lo..m.hi \subseteq seen

\* A frame handed to the session waits to be packed, waits for its
\* acknowledgement or has arrived: no loss, timer, NACK or renumbering drops it.
NoFrameLost == offered \subseteq Held(pq) \cup arrived

\* A number names one frame set for ever: the queue holds a set under the number
\* it carries, a set in flight is the set still held under its number, and two
\* sets in flight with a number are one.  With that an ACK can only release what
\* arrived.
OneSetPerNumber ==
    /\ \A s \in DOMAIN pq.queue : pq.queue[s].sequence_number = s
    /\ \A m \in net : m.kind = "data" =>
          LET s == m.set.sequence_number
          IN  /\ s \in DOMAIN pq.queue => pq.queue[s] = m.set
              /\ \A n \in net : n.kind = "data" /\ n.set.sequence_number = s => n = m

\* The book of the receiver holds no number its next clear will not take out:
\* lowest and highest close over the stored numbers, whatever arrives late.
BookInWindow == aq.store_seq \subseteq Window(aq)

\* set_size is the size of what waits in set_queue, and sets that several
\* frames share stay below what the MTU leaves (a set of one frame may not).
Total(frames) == FoldFunction(+, 0, [i \in DOMAIN frames |-> Length[frames[i]]])
SharedSetsFit ==
    /\ pq.set_size = Total(pq.set_queue)
    /\ \A s \in DOMAIN pq.queue :
          Len(pq.queue[s].datas) > 1 => Total(pq.queue[s].datas) < Capacity
=============================================================================
