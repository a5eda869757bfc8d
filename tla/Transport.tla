------------------------------ MODULE Transport ------------------------------
(***************************************************************************)
(* A session, one direction of it: messages go into send_to at one end,    *)
(* through the packet queue, the network and the ACK queue of Link,        *)
(* through the received queue and handle_packet at the other, to the       *)
(* parent of that session; and either end may end, in any of the ways it   *)
(* has.  What RakClient and ServerConn, the parents, make of what they are *)
(* told is in Client and Server.                                           *)
(*                                                                         *)
(* A message is [kind, parts]: how handle_packet takes it, by its first    *)
(* byte, and how many frames it needs.  The pings and pongs a session      *)
(* makes by itself are left out: no parent is told of them.  They keep the *)
(* other end from its 10 s of silence unless all of them are lost, so an   *)
(* end may fall silent whenever it likes; Handshake has the clock.         *)
(***************************************************************************)
EXTENDS Link, ReceivedQueue, SequencesExt

CONSTANTS
    Messages,      \* the messages users send
    MaxFrames,     \* bound: the frames of what users send, calls of disconnect included
    SplitIds       \* 65536 in the code

\* "data" is handed on; "ping" begins with 0x00 or 0x03 and "bye" with 0x15, as
\* the session's own packets do; "empty" has no first byte
Message == [kind : {"data", "ping", "bye", "empty"}, parts : Nat \ {0}]
Bye     == [kind |-> "bye", parts |-> 1]

ASSUME TransportAssumption ==
    /\ Messages \subseteq Message
    /\ MaxFrames \in Nat
    /\ SplitIds \in Nat \ {0}

VARIABLES
    sent,          \* history: the messages that were given an order_index
    split_id,      \* the sender's next split id
    disconnected,  \* the sender's session has ended
    rq,            \* the receiver's ReceivedQueue
    parent         \* what the receiver's parent was told until that session ended

ends     == <<sent, split_id, disconnected, rq, parent>>
allvars  == <<vars, ends>>

\* "over" tells how: "ended" by a bye, "left" by its own disconnect(), or "panicked"
NewParent == [told |-> << >>, over |-> "no"]

SessionInit ==
    /\ Init
    /\ sent = << >>
    /\ split_id = 0
    /\ disconnected = FALSE
    /\ rq = NewReceivedQueue
    /\ parent = NewParent

-----------------------------------------------------------------------------
(* The mutated forms of definitions below.                                 *)

\* a message of the session's own kind is handed on
HandlePacketToAll(p, packet) ==
    IF packet[1].kind = "bye" THEN [p EXCEPT !.over = "ended"]
                              ELSE [p EXCEPT !.told = Append(@, packet)]

-----------------------------------------------------------------------------
(* The sender.                                                             *)

\* the pieces of message m with order index n
Whole(m, n) == [k \in 1..m.parts |-> [order |-> n, kind |-> m.kind, piece |-> k - 1]]

\* the frames send_to makes of it
FramesFor(m, n, id) ==
    [k \in 1..m.parts |->
        [split |-> m.parts > 1, order_index |-> n, split_id |-> id,
         split_count |-> m.parts, split_index |-> k - 1, data |-> Whole(m, n)[k]]]

\* Frame has every frame of what users send
ASSUME FramesAssumption ==
    \A m \in Messages \cup {Bye}, n \in 0..MaxFrames, id \in 0..(SplitIds - 1) :
        ToSet(FramesFor(m, n, id)) \subseteq Frame

MayAdd(m) == Cardinality(offered) + m.parts <= MaxFrames

NextSplitId(m) == IF m.parts > 1 THEN (split_id + 1) % SplitIds ELSE split_id

\* Session::send_to, which asks nobody whether the session has ended
SendTo(m) ==
    LET frames == FramesFor(m, Len(sent), split_id)
    IN  /\ MayAdd(m)
        /\ pq' = FoldLeft(AddFrame, pq, frames)
        /\ pq'.max <= MaxSequence
        /\ sent' = Append(sent, m)
        /\ split_id' = NextSplitId(m)
        /\ offered' = offered \cup ToSet(frames)
        /\ UNCHANGED <<aq, net, losses, copies, arrived, seen, disconnected, rq, parent>>

\* Session::disconnect: the bye, one last flush, the end.  What is late by then
\* goes along; nothing is ever sent again.
DisconnectSession ==
    /\ \E added \in {AddFrame(pq, FramesFor(Bye, Len(sent), split_id)[1])} :
          \E cutoff \in 0..pq.send_min : \E expired \in Orders(Expirable(added, cutoff)) :
              /\ \A k \in DOMAIN expired : TimerMayFire(expired[k])
              /\ pq' = AfterGetPacket(added, expired)
              /\ net' = net \cup {Data(set) : set \in GetPacket(added, expired)}
    /\ pq'.max <= MaxSequence
    /\ sent' = Append(sent, Bye)
    /\ offered' = offered \cup {FramesFor(Bye, Len(sent), split_id)[1]}
    /\ disconnected' = TRUE
    /\ UNCHANGED <<aq, losses, copies, arrived, seen, split_id, rq, parent>>

\* called by the user, who may do so twice
Disconnect == MayAdd(Bye) /\ DisconnectSession

\* update, of a session that received nothing for more than 10 s
SenderSilent == ~ disconnected /\ DisconnectSession

\* handle_packet of a bye from the other side, or of a message of its user that
\* begins as one
SenderEnds ==
    /\ ~ disconnected
    /\ disconnected' = TRUE
    /\ UNCHANGED <<vars, sent, split_id, rq, parent>>

\* update, which does nothing for a session that has ended
SenderFlushes ==
    /\ ~ disconnected
    /\ \E cutoff \in 0..pq.send_min : FlushQueue(cutoff)
    /\ UNCHANGED ends

SenderHears(m) == (HandleAck(m) \/ HandleNack(m)) /\ UNCHANGED ends

-----------------------------------------------------------------------------
(* The receiver.                                                           *)

\* handle_packet: frame.data[0] of an empty frame panics.  The session runs on
\* behind its end; what is done with what it posts then is up to its parent.
HandlePacket(p, packet) ==
    IF p.over # "no" THEN p ELSE
    CASE packet[1].kind = "empty" -> [p EXCEPT !.over = "panicked"]
      [] packet[1].kind = "ping"  -> p
      [] packet[1].kind = "bye"   -> [p EXCEPT !.over = "ended"]
      [] packet[1].kind = "data"  -> [p EXCEPT !.told = Append(@, packet)]

\* receive_packet of a reliable ordered frame
ReceivePacket(r, f) ==
    LET added == AddReceived(r.rq, f)
    IN  [rq |-> AfterGetAll(added), parent |-> FoldLeft(HandlePacket, r.parent, GetAll(added))]

\* handle_datagram, the frames of the set in their order
SessionDatagram(m) ==
    /\ parent.over # "panicked"
    /\ HandleDatagram(m)
    /\ \E received \in {FoldLeft(ReceivePacket, [rq |-> rq, parent |-> parent], m.set.datas)} :
          rq' = received.rq /\ parent' = received.parent
    /\ UNCHANGED <<sent, split_id, disconnected>>

ReceiverFlushes == parent.over = "no" /\ FlushAck /\ UNCHANGED ends

\* disconnect() of the receiver's session, by its user or by update after more
\* than 10 s without a packet
ReceiverLeaves ==
    /\ parent.over = "no"
    /\ parent' = [parent EXCEPT !.over = "left"]
    /\ UNCHANGED <<vars, sent, split_id, disconnected, rq>>

-----------------------------------------------------------------------------
SessionNext ==
    \/ \E m \in Messages : SendTo(m)
    \/ Disconnect \/ SenderSilent \/ SenderEnds
    \/ SenderFlushes
    \/ ReceiverFlushes \/ ReceiverLeaves
    \/ \E m \in net : \/ Lose(m) /\ UNCHANGED ends
                      \/ SenderHears(m)
                      \/ SessionDatagram(m)

SessionSpec == SessionInit /\ [][SessionNext]_allvars

\* The timer of update comes round for ever on both sides, and the socket hands
\* over what the network keeps.  Users send and disconnect as they like, and an
\* end may fall silent or not; but a session that has ended flushes nothing any
\* more, no ping either, and then the silence of the other end comes.
SessionFairness ==
    /\ WF_allvars(SenderFlushes)
    /\ WF_allvars(ReceiverFlushes)
    /\ WF_allvars(parent.over # "no" /\ SenderSilent)
    /\ WF_allvars(disconnected /\ ReceiverLeaves)
    /\ WF_allvars(\E m \in net : SenderHears(m))
    /\ WF_vars(\E m \in net : parent.over # "panicked" /\ HandleDatagram(m))

FairSessionSpec == SessionSpec /\ SessionFairness

-----------------------------------------------------------------------------
(* Properties.                                                             *)

\* the packets of the user's own kind among the first n
AddData(packets, packet) ==
    IF packet[1].kind = "data" THEN Append(packets, packet) ELSE packets
Packets(n) == FoldLeft(AddData, << >>, [k \in 1..n |-> Whole(sent[k], k - 1)])

\* The parent of the receiving session is told the messages up to the first that
\* ends the session, each once, whole and in order, and none that begins as the
\* session's own packets do.  An empty message, and nothing else, panics the
\* receiver; a message that begins with 0x15 ends it as disconnect does
\* (session.rs:155-164).  A receiver that left by itself was told some of them.
ToldExactly ==
    LET first(kinds) == {k \in 1..rq.min : /\ sent[k].kind \in kinds
                                           /\ \A j \in 1..(k - 1) : sent[j].kind \notin kinds}
        stops == first({"bye", "empty"})
    IN  CASE parent.over = "no"   -> stops = {} /\ parent.told = Packets(rq.min)
          [] parent.over = "left" -> IsPrefix(parent.told, Packets(rq.min))
          [] OTHER -> \E k \in stops :
                         /\ sent[k].kind = IF parent.over = "ended" THEN "bye" ELSE "empty"
                         /\ parent.told = Packets(k)

\* The window of the sender drains, time and again, or the session ends: what
\* was offered is acknowledged, and is not resent for ever.
WindowDrains == []<>(Held(pq) = {} \/ disconnected)

\* The session implements the ordered channel for messages of the user's own
\* kind: everything sent is delivered unless an end closes the channel.
Channel == INSTANCE OrderedDelivery
               WITH Message   <- {Whole(m, n) : m \in Messages, n \in 0..MaxFrames},
                    sent      <- Packets(Len(sent)),
                    delivered <- parent.told,
                    closed    <- parent.over # "no"
ImplementsChannel == Channel!FairSpec
=============================================================================
