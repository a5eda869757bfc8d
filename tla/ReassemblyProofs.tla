------------------------- MODULE ReassemblyProofs -------------------------
(***************************************************************************)
(* What Reassembly guarantees for every length of a session and every way  *)
(* of cutting its messages, as long as no split id is used twice: the      *)
(* packets handed on are the messages sent, in order and whole; late       *)
(* copies leave nothing behind; the stream never stalls; and every step is *)
(* one of the ordered channel or none.  What the methods of ReceivedQueue  *)
(* preserve is in DataProofs.                                              *)
(***************************************************************************)
EXTENDS Reassembly, DataProofs, SequenceTheorems

-----------------------------------------------------------------------------
(* The assumption.  split_id is a u16 that wraps (session.rs:150), and a    *)
(* message that meets the id of an unfinished one would be mixed with it;   *)
(* the code does not exclude that, so the theorems name it.                 *)

SplitMessages(n) == {m \in 0..(n - 1) : Parts[m] > 1}

\* No more messages are split than there are ids.
SplitIdsSuffice ==
    \A n \in DOMAIN Parts : Cardinality(SplitMessages(n + 1)) <= SplitIds

-----------------------------------------------------------------------------
(* The inductive invariant.                                                 *)

\* The messages sent so far, as DataProofs has them.
SentLog == [count |-> sent,
            parts |-> Parts,
            piece |-> [n \in DOMAIN Parts |-> [p \in 0..(Parts[n] - 1) |-> Piece(n, p)]]]

\* What was handed to the link are all frames of the messages sent.
FramesOfMessages ==
    /\ sent \in Nat
    /\ 0..(sent - 1) \subseteq DOMAIN Parts
    /\ split_id \in 0..(SplitIds - 1)
    /\ \A f \in frames :
          /\ f.order_index \in 0..(sent - 1)
          /\ f.split_id \in 0..(SplitIds - 1)
          /\ f \in FramesFor(f.order_index, f.split_id)
          /\ FramesFor(f.order_index, f.split_id) \subseteq frames
    /\ \A n \in 0..(sent - 1) : \E f \in frames : f.order_index = n

\* Between two calls get_all has handed on all it could.
HandedOn ==
    /\ rq.min \notin DOMAIN rq.packet_queue
    /\ delivered = [k \in 1..rq.min |-> Whole(k - 1)]

IInv ==
    /\ FramesOfMessages
    /\ Supplied(SentLog, frames)
    /\ IdsInTurn(SentLog, frames, split_id, SplitIds)
    /\ Receiver(SentLog, frames, rq, arrived)
    /\ HandedOn

-----------------------------------------------------------------------------
(* The messages and their frames.                                           *)

LEMMA SentLogFields ==
    /\ SentLog.count = sent
    /\ SentLog.parts = Parts
    /\ \A n \in DOMAIN Parts : \A p \in 0..(Parts[n] - 1) : SentLog.piece[n][p] = Piece(n, p)
  BY DEF SentLog

LEMMA WholeOfSent ==
    ASSUME NEW n \in DOMAIN Parts
    PROVE  WholeOf(SentLog, n) = Whole(n)
<1>1. Parts[n] \in Nat
  BY PartsAssumption
<1>2. \A k \in 1..Parts[n] : SentLog.piece[n][k - 1] = Piece(n, k - 1)
  BY <1>1, SentLogFields
<1>. QED
  BY <1>2, SentLogFields DEF WholeOf, Whole

LEMMA FrameShape ==
    ASSUME sent \in Nat, NEW n \in DOMAIN Parts, n < sent, NEW id, NEW f \in FramesFor(n, id)
    PROVE  FrameOf(SentLog, f) /\ f.order_index = n /\ f.split_id = id
<1>1. n \in Nat /\ Parts[n] \in Nat \ {0}
  BY PartsAssumption
<1>2. PICK p \in 0..(Parts[n] - 1) :
         f = [split |-> Parts[n] > 1, order_index |-> n, split_id |-> id,
              split_count |-> Parts[n], split_index |-> p, data |-> Piece(n, p)]
  BY DEF FramesFor
<1>3. f.split = (Parts[n] > 1)
  BY <1>2
<1>4. f.split <=> Parts[n] > 1
  BY <1>3
<1>5. /\ f.order_index = n /\ f.split_id = id /\ f.split_count = Parts[n]
      /\ f.split_index = p /\ f.data = Piece(n, p)
  BY <1>2
<1>6. SentLog.count = sent /\ SentLog.parts = Parts /\ SentLog.piece[n][p] = Piece(n, p)
  BY SentLogFields
<1>. QED
  BY <1>1, <1>4, <1>5, <1>6 DEF FrameOf

LEMMA FrameOfPiece ==
    ASSUME NEW n \in DOMAIN Parts, NEW id, NEW p \in 0..(Parts[n] - 1)
    PROVE  \E f \in FramesFor(n, id) : f.split_index = p
<1> DEFINE f == [split |-> Parts[n] > 1, order_index |-> n, split_id |-> id,
                 split_count |-> Parts[n], split_index |-> p, data |-> Piece(n, p)]
<1>1. f \in FramesFor(n, id)
  BY DEF FramesFor
<1>2. f.split_index = p
  OBVIOUS
<1>. QED
  BY <1>1, <1>2

LEMMA SplitOfSent == SplitOf(SentLog) = SplitMessages(sent)
  BY SentLogFields DEF SplitOf, SplitMessages

\* What is handed on continues what was handed on.
LEMMA ConcatWholes ==
    ASSUME NEW a \in Nat, NEW b \in Nat, a <= b
    PROVE  [k \in 1..a |-> Whole(k - 1)] \o [k \in 1..(b - a) |-> Whole(a + k - 1)]
              = [k \in 1..b |-> Whole(k - 1)]
<1> DEFINE s == [k \in 1..a |-> Whole(k - 1)]
           t == [k \in 1..(b - a) |-> Whole(a + k - 1)]
           V == {Whole(k - 1) : k \in 1..b}
<1>1. PICK c \in Nat : c = b - a
  OBVIOUS
<1>2. s \in Seq(V) /\ Len(s) = a
  <2>1. s \in [1..a -> V] /\ DOMAIN s = 1..a
    OBVIOUS
  <2>. HIDE DEF s, V
  <2>2. s \in Seq(V)
    BY <2>1, SeqDef
  <2>. QED
    BY <2>1, <2>2, LenProperties
<1>3. t \in Seq(V) /\ Len(t) = c
  <2>1. \A k \in 1..c : a + k \in 1..b /\ (a + k) - 1 = a + k - 1
    BY <1>1
  <2>2. t \in [1..c -> V] /\ DOMAIN t = 1..c
    BY <1>1, <2>1
  <2>. HIDE DEF t, V
  <2>3. t \in Seq(V)
    BY <2>2, SeqDef
  <2>. QED
    BY <2>2, <2>3, LenProperties
<1>4. s \o t = [k \in 1..(Len(s) + Len(t)) |-> IF k <= Len(s) THEN s[k] ELSE t[k - Len(s)]]
  BY <1>2, <1>3
<1>5. Len(s) + Len(t) = b
  <2>. HIDE DEF s, t
  <2>. QED
    BY <1>1, <1>2, <1>3
<1>6. \A k \in 1..b : ~ (k <= a) => k - a \in 1..(b - a) /\ a + (k - a) - 1 = k - 1
  OBVIOUS
<1>7. \A k \in 1..b : (IF k <= a THEN s[k] ELSE t[k - a]) = Whole(k - 1)
  <2>. TAKE k \in 1..b
  <2>1. CASE k <= a
    BY <2>1
  <2>2. CASE ~ (k <= a)
    <3>1. t[k - a] = Whole(a + (k - a) - 1)
      BY <2>2, <1>6
    <3>. QED
      BY <3>1, <2>2, <1>6
  <2>. QED
    BY <2>1, <2>2
<1>. HIDE DEF s, t
<1>8. s \o t = [k \in 1..b |-> IF k <= a THEN s[k] ELSE t[k - a]]
  BY <1>2, <1>4, <1>5
<1>9. s \o t = [k \in 1..b |-> Whole(k - 1)]
  BY <1>7, <1>8
<1>. QED
  BY <1>9 DEF s, t

-----------------------------------------------------------------------------
(* The steps.                                                               *)

LEMMA InitIInv == Init => IInv
<1>. SUFFICES ASSUME Init PROVE IInv
  OBVIOUS
<1>1. /\ sent = 0 /\ split_id = 0 /\ frames = {} /\ delivered = << >> /\ arrived = {}
      /\ rq = NewReceivedQueue
  BY DEF Init
<1>2. SentLog.count = 0 /\ SentLog.parts = Parts
  BY <1>1, SentLogFields
<1>3. FramesOfMessages
  BY <1>1, PartsAssumption DEF FramesOfMessages
<1>4. Supplied(SentLog, frames)
  BY <1>1, <1>2 DEF Supplied, IdsStandForMessages
<1>5. IdsInTurn(SentLog, frames, split_id, SplitIds)
  <2>1. SplitOf(SentLog) = {}
    BY <1>2 DEF SplitOf
  <2>2. Cardinality(SplitOf(SentLog)) = 0
    BY <2>1, FS_EmptySet
  <2>. QED
    BY <2>2, <1>1, PartsAssumption DEF IdsInTurn
<1>6. /\ Receiver(SentLog, frames, rq, arrived)
      /\ rq.min = 0 /\ DOMAIN rq.packet_queue = {}
  BY <1>1, <1>2, NewReceiver
<1>7. HandedOn
  <2>1. [k \in 1..rq.min |-> Whole(k - 1)] = << >>
    BY <1>6
  <2>. QED
    BY <2>1, <1>1, <1>6 DEF HandedOn
<1>. QED
  BY <1>3, <1>4, <1>5, <1>6, <1>7 DEF IInv

\* send_to: the frames of a new message, under an id of its own if it is split.
LEMMA SendToKeeps ==
    ASSUME SplitIdsSuffice, IInv, SendTo PROVE IInv'
<1> DEFINE new == FramesFor(sent, split_id)
<1>1. /\ FramesOfMessages /\ Supplied(SentLog, frames)
      /\ IdsInTurn(SentLog, frames, split_id, SplitIds)
      /\ Receiver(SentLog, frames, rq, arrived) /\ HandedOn
  BY DEF IInv
<1>2. /\ sent \in DOMAIN Parts /\ frames' = frames \cup new /\ sent' = sent + 1
      /\ split_id' = IF Parts[sent] > 1 THEN (split_id + 1) % SplitIds ELSE split_id
      /\ rq' = rq /\ delivered' = delivered /\ arrived' = arrived
  BY DEF SendTo
<1>3. /\ sent \in Nat /\ split_id \in 0..(SplitIds - 1) /\ SplitIds \in Nat \ {0}
      /\ Parts[sent] \in Nat \ {0}
  BY <1>1, <1>2, PartsAssumption DEF FramesOfMessages
<1>4. /\ SentLog.count = sent /\ SentLog'.count = sent + 1
      /\ SentLog.parts = Parts /\ SentLog'.parts = Parts
      /\ SentLog'.piece = SentLog.piece
  BY <1>2 DEF SentLog
<1>5. \A f \in new : FrameOf(SentLog', f) /\ f.order_index = sent /\ f.split_id = split_id
  <2>1. \A f \in new : FrameOf(SentLog, f)' /\ f.order_index = sent /\ f.split_id = split_id
    <3>. TAKE f \in new
    <3>1. sent' \in Nat /\ sent < sent'
      BY <1>2, <1>3
    <3>2. PICK p \in 0..(Parts[sent] - 1) :
             f = [split |-> Parts[sent] > 1, order_index |-> sent, split_id |-> split_id,
                  split_count |-> Parts[sent], split_index |-> p, data |-> Piece(sent, p)]
      BY DEF FramesFor
    <3>3. f.split = (Parts[sent] > 1)
      BY <3>2
    <3>4. f.split <=> Parts[sent] > 1
      BY <3>3
    <3>5. /\ f.order_index = sent /\ f.split_id = split_id /\ f.split_count = Parts[sent]
          /\ f.split_index = p /\ f.data = Piece(sent, p)
      BY <3>2
    <3>6. SentLog.piece[sent][p] = Piece(sent, p)
      BY <1>2, SentLogFields
    <3>. QED
      BY <1>2, <1>3, <1>4, <3>1, <3>4, <3>5, <3>6 DEF FrameOf
  <2>. QED
    BY <2>1 DEF FrameOf
<1>6. OneMessageMore(SentLog, SentLog', new, split_id)
  BY <1>4, <1>5 DEF OneMessageMore
<1>7. Cardinality(SplitOf(SentLog')) <= SplitIds
  <2>1. SplitOf(SentLog') = SplitMessages(sent + 1)
    BY <1>4 DEF SplitOf, SplitMessages
  <2>. QED
    BY <2>1, <1>2 DEF SplitIdsSuffice
<1>. HIDE DEF new
<1>8. /\ Supplied(SentLog', frames')
      /\ IdsInTurn(SentLog', frames', split_id', SplitIds)
  BY <1>1, <1>2, <1>3, <1>4, <1>6, <1>7, SendSupplies
<1>9. Receiver(SentLog', frames', rq', arrived')
  BY <1>1, <1>2, <1>3, <1>6, <1>7, SendKeepsReceiver
<1>10. split_id' \in 0..(SplitIds - 1)
  BY <1>8 DEF IdsInTurn
<1>11. FramesOfMessages'
  <2>1. sent' \in Nat /\ 0..(sent' - 1) \subseteq DOMAIN Parts
    <3>1. 0..(sent' - 1) = 0..(sent - 1) \cup {sent}
      BY <1>2, <1>3
    <3>. QED
      BY <3>1, <1>1, <1>2, <1>3 DEF FramesOfMessages
  <2>2. ASSUME NEW f \in frames'
        PROVE  /\ f.order_index \in 0..(sent' - 1)
               /\ f.split_id \in 0..(SplitIds - 1)
               /\ f \in FramesFor(f.order_index, f.split_id)
               /\ FramesFor(f.order_index, f.split_id) \subseteq frames'
    <3>1. CASE f \in frames
      <4>1. /\ f.order_index \in 0..(sent - 1)
            /\ f.split_id \in 0..(SplitIds - 1)
            /\ f \in FramesFor(f.order_index, f.split_id)
            /\ FramesFor(f.order_index, f.split_id) \subseteq frames
        BY <1>1, <3>1 DEF FramesOfMessages
      <4>. QED
        BY <4>1, <1>2, <1>3
    <3>2. CASE f \in new
      <4>1. f.order_index = sent /\ f.split_id = split_id
        BY <3>2, <1>5
      <4>2. sent \in 0..(sent' - 1)
        BY <1>2, <1>3
      <4>. QED
        BY <4>1, <4>2, <3>2, <1>2, <1>3 DEF new
    <3>. QED
      BY <3>1, <3>2, <1>2
  <2>3. ASSUME NEW n \in 0..(sent' - 1) PROVE \E f \in frames' : f.order_index = n
    <3>1. CASE n \in 0..(sent - 1)
      BY <3>1, <1>1, <1>2 DEF FramesOfMessages
    <3>2. CASE n = sent
      <4>1. 0 \in 0..(Parts[sent] - 1)
        BY <1>3
      <4>2. PICK f \in new : f.split_index = 0
        BY <4>1, <1>2, FrameOfPiece DEF new
      <4>. QED
        BY <4>2, <3>2, <1>2, <1>5
    <3>. QED
      BY <3>1, <3>2, <1>2, <1>3
  <2>. QED
    BY <2>1, <2>2, <2>3, <1>10 DEF FramesOfMessages
<1>12. HandedOn'
  BY <1>1, <1>2 DEF HandedOn
<1>. QED
  BY <1>8, <1>9, <1>11, <1>12 DEF IInv

\* receive_packet: add, and then get_all hands on what is next.
LEMMA ReceivePacketKeeps ==
    ASSUME IInv, NEW f \in frames, ReceivePacket(f) PROVE IInv' /\ rq.min <= rq'.min
<1> DEFINE r == AddReceived(rq, f)
<1>1. /\ FramesOfMessages /\ Supplied(SentLog, frames)
      /\ IdsInTurn(SentLog, frames, split_id, SplitIds)
      /\ Receiver(SentLog, frames, rq, arrived) /\ HandedOn
  BY DEF IInv
<1>2. /\ rq' = AfterGetAll(r) /\ delivered' = delivered \o GetAll(r)
      /\ arrived' = arrived \cup {f}
      /\ sent' = sent /\ split_id' = split_id /\ frames' = frames /\ SentLog' = SentLog
  BY DEF ReceivePacket, SentLog
<1>3. Receiver(SentLog, frames, r, arrived \cup {f}) /\ r.min = rq.min
  BY <1>1, AddKeeps
<1> DEFINE came == arrived \cup {f}
<1>. HIDE DEF r, came
<1>4. /\ Receiver(SentLog, frames, AfterGetAll(r), came)
      /\ AfterGetAll(r).min \notin DOMAIN AfterGetAll(r).packet_queue
      /\ AfterGetAll(r).min \in Nat /\ r.min <= AfterGetAll(r).min
      /\ GetAll(r) = WholesOf(SentLog, r.min, AfterGetAll(r).min)
  <2>1. Receiver(SentLog, frames, r, came)
    BY <1>3 DEF came
  <2>. QED
    BY <1>1, <2>1, GetAllKeeps
<1>5. /\ Receiver(SentLog', frames', rq', arrived')
      /\ rq'.min \notin DOMAIN rq'.packet_queue
      /\ rq'.min \in Nat /\ rq.min <= rq'.min
      /\ GetAll(r) = WholesOf(SentLog, rq.min, rq'.min)
  BY <1>2, <1>3, <1>4 DEF came
<1>6. /\ FramesOfMessages' /\ Supplied(SentLog', frames')
      /\ IdsInTurn(SentLog', frames', split_id', SplitIds)
  BY <1>1, <1>2 DEF FramesOfMessages
<1>7. HandedOn'
  <2>1. delivered = [k \in 1..rq.min |-> Whole(k - 1)]
    BY <1>1 DEF HandedOn
  <2>2. rq.min \in Nat
    BY <1>1 DEF Receiver, QueueHoldsWholes
  <2>3. GetAll(r) = [k \in 1..(rq'.min - rq.min) |-> Whole(rq.min + k - 1)]
    <3>1. rq'.min <= sent /\ sent \in Nat
      BY <1>1, <1>2, <1>5, SentLogFields DEF Receiver, QueueHoldsWholes, FramesOfMessages
    <3>2. \A k \in 1..(rq'.min - rq.min) : rq.min + k - 1 \in DOMAIN Parts
      BY <1>1, <1>5, <2>2, <3>1 DEF FramesOfMessages
    <3>. QED
      BY <1>5, <3>2, WholeOfSent DEF WholesOf
  <2>4. delivered' = [k \in 1..rq'.min |-> Whole(k - 1)]
    BY <2>1, <2>2, <2>3, <1>2, <1>5, ConcatWholes
  <2>. QED
    BY <2>4, <1>5 DEF HandedOn
<1>. QED
  BY <1>5, <1>6, <1>7 DEF IInv

LEMMA NextIInv == SplitIdsSuffice /\ IInv /\ [Next]_vars => IInv'
<1>. SUFFICES ASSUME SplitIdsSuffice, IInv, [Next]_vars PROVE IInv'
  OBVIOUS
<1>1. CASE SendTo
  BY <1>1, SendToKeeps
<1>2. CASE \E f \in frames : ReceivePacket(f)
  BY <1>2, ReceivePacketKeeps
<1>3. CASE UNCHANGED vars
  <2>1. /\ sent' = sent /\ split_id' = split_id /\ frames' = frames /\ rq' = rq
        /\ delivered' = delivered /\ arrived' = arrived /\ SentLog' = SentLog
    BY <1>3 DEF vars, SentLog
  <2>. QED
    BY <2>1 DEF IInv, FramesOfMessages, HandedOn
<1>. QED
  BY <1>1, <1>2, <1>3 DEF Next

-----------------------------------------------------------------------------
(* The theorems.                                                            *)

\* The inductive invariant holds in every reachable state.
THEOREM Invariance == SplitIdsSuffice => (Spec => []IInv)
<1>. SUFFICES ASSUME SplitIdsSuffice PROVE Spec => []IInv
  OBVIOUS
<1>1. IInv /\ [Next]_vars => IInv'
  BY NextIInv
<1>. QED
  BY InitIInv, <1>1, PTL DEF Spec

\* The state stays well formed: what waits in packet_queue are whole messages, and
\* pool and delete are keyed by split ids (receivedqueue.rs:5, packet.rs:143).
THEOREM TypeCorrect == SplitIdsSuffice => (Spec => []TypeOK)
<1>. SUFFICES ASSUME SplitIdsSuffice PROVE Spec => []TypeOK
  OBVIOUS
<1>1. IInv => TypeOK
  <2>. SUFFICES ASSUME IInv PROVE TypeOK
    OBVIOUS
  <2>1. /\ FramesOfMessages /\ Supplied(SentLog, frames) /\ QueueHoldsWholes(SentLog, rq)
        /\ PoolHoldsUnfinished(SentLog, frames, rq) /\ DeleteIsHandled(frames, rq) /\ arrived \subseteq frames
    BY DEF IInv, Receiver
  <2>2. /\ sent \in Nat /\ split_id \in 0..(SplitIds - 1)
        /\ rq.min \in Nat /\ rq.max \in Nat /\ rq.min <= rq.max
    BY <2>1 DEF FramesOfMessages, QueueHoldsWholes
  <2>3. rq.packet_queue \in [DOMAIN rq.packet_queue -> {Whole(n) : n \in DOMAIN Parts}]
    <3>1. \A o \in DOMAIN rq.packet_queue : o \in DOMAIN Parts
      BY <2>1, <2>2, SentLogFields DEF QueueHoldsWholes, FramesOfMessages
    <3>2. rq.packet_queue = [o \in DOMAIN rq.packet_queue |-> Whole(o)]
      BY <2>1, <3>1, WholeOfSent DEF QueueHoldsWholes
    <3>. QED
      BY <3>1, <3>2
  <2>4. ASSUME NEW id \in DOMAIN rq.pool
        PROVE  rq.pool[id].split_size \in Nat /\ rq.pool[id].order_index \in Nat
    <3>1. PICK f \in frames : /\ rq.pool[id].order_index = f.order_index
                              /\ rq.pool[id].split_size = f.split_count
      BY <2>1 DEF PoolHoldsUnfinished, EntryOf
    <3>. QED
      BY <2>1, <3>1 DEF Supplied, FrameOf
  <2>5. rq.delete \subseteq 0..(SplitIds - 1)
    BY <2>1 DEF DeleteIsHandled, FramesOfMessages
  <2>. QED
    BY <2>1, <2>2, <2>3, <2>4, <2>5 DEF TypeOK
<1>. QED
  BY <1>1, Invariance, PTL

\* What is handed on is message 0, 1, ... min - 1, each once, in order and whole,
\* whatever arrived late, twice or early (get_all, receivedqueue.rs:61).
THEOREM MessagesInOrder == SplitIdsSuffice => (Spec => []InOrderIntact)
<1>. SUFFICES ASSUME SplitIdsSuffice PROVE Spec => []InOrderIntact
  OBVIOUS
<1>1. IInv => InOrderIntact
  BY DEF IInv, HandedOn, InOrderIntact
<1>. QED
  BY <1>1, Invariance, PTL

\* Late copies leave nothing behind, in packet_queue or in the pool (add,
\* receivedqueue.rs:20, and get_and_clear, packet.rs:177).
THEOREM LateCopiesLeaveNothing == SplitIdsSuffice => (Spec => []NothingLeftBehind)
<1>. SUFFICES ASSUME SplitIdsSuffice PROVE Spec => []NothingLeftBehind
  OBVIOUS
<1>1. IInv => NothingLeftBehind
  <2>. SUFFICES ASSUME IInv PROVE NothingLeftBehind
    OBVIOUS
  <2>1. /\ FramesOfMessages /\ Supplied(SentLog, frames) /\ QueueHoldsWholes(SentLog, rq)
        /\ PoolHoldsUnfinished(SentLog, frames, rq) /\ DeleteIsHandled(frames, rq) /\ HandedOn
    BY DEF IInv, Receiver
  <2>2. \A o \in DOMAIN rq.packet_queue : rq.min < o /\ o < rq.max
    BY <2>1 DEF QueueHoldsWholes, HandedOn
  <2>3. ASSUME NEW id \in DOMAIN rq.pool
        PROVE  ~ IsFull(rq.pool[id]) /\ rq.min <= rq.pool[id].order_index
    <3> DEFINE e == rq.pool[id]
    <3>1. EntryOf(SentLog, frames, e, id) /\ DOMAIN e.data # 0..(e.split_size - 1)
      BY <2>1 DEF PoolHoldsUnfinished
    <3>2. PICK f \in frames : /\ f.split /\ f.split_id = id
                              /\ e.order_index = f.order_index /\ e.split_size = f.split_count
      BY <3>1 DEF EntryOf
    <3>3. e.order_index \in Nat /\ e.split_size \in Nat
      BY <2>1, <3>2 DEF Supplied, FrameOf
    <3>4. ~ Handled(rq, e.order_index)
      BY <2>1, <3>2 DEF DeleteIsHandled
    <3>5. rq.min \in Nat
      BY <2>1 DEF QueueHoldsWholes
    <3>6. rq.min <= e.order_index
      BY <3>3, <3>4, <3>5 DEF Handled
    <3>7. DOMAIN e.data \subseteq 0..(e.split_size - 1)
      BY <3>1 DEF EntryOf
    <3>. HIDE DEF e
    <3>8. ~ IsFull(e)
      BY <3>1, <3>3, <3>7, FullIsAll
    <3>. QED
      BY <3>6, <3>8 DEF e
  <2>. QED
    BY <2>1, <2>2, <2>3 DEF NothingLeftBehind, DeleteIsHandled
<1>. QED
  BY <1>1, Invariance, PTL

\* Once every frame of the messages up to n arrived, message n has been handed on.
THEOREM StreamDoesNotStall == SplitIdsSuffice => (Spec => []NoStall)
<1>. SUFFICES ASSUME SplitIdsSuffice PROVE Spec => []NoStall
  OBVIOUS
<1>1. IInv => NoStall
  <2>. SUFFICES ASSUME IInv,
                       NEW n \in 0..(sent - 1),
                       {f \in frames : f.order_index <= n} \subseteq arrived
                PROVE  n < rq.min
    BY DEF NoStall
  <2>1. /\ FramesOfMessages /\ Supplied(SentLog, frames) /\ QueueHoldsWholes(SentLog, rq)
        /\ PoolHoldsUnfinished(SentLog, frames, rq) /\ DeleteIsHandled(frames, rq) /\ HandedOn /\ \A f \in arrived : Kept(rq, f)
    BY DEF IInv, Receiver
  <2>2. /\ rq.min \in Nat /\ sent \in Nat /\ n \in Nat
    BY <2>1 DEF QueueHoldsWholes, FramesOfMessages
  <2>3. ASSUME NEW m \in 0..n PROVE Handled(rq, m)
    <3>1. PICK f \in frames : f.order_index = m
      BY <2>1, <2>2 DEF FramesOfMessages
    <3>2. SUFFICES ASSUME ~ Handled(rq, m) PROVE FALSE
      OBVIOUS
    <3>3. /\ m \in DOMAIN Parts /\ m \in Nat /\ m < sent
          /\ FramesFor(m, f.split_id) \subseteq frames
      BY <2>1, <2>2, <3>1 DEF FramesOfMessages
    <3>4. ASSUME NEW g \in FramesFor(m, f.split_id)
          PROVE  /\ g.split_id = f.split_id
                 /\ f.split_id \in DOMAIN rq.pool
                 /\ g.split_index \in DOMAIN rq.pool[f.split_id].data
      <4>2. g.order_index = m /\ g.split_id = f.split_id
        BY <2>2, <3>3, FrameShape
      <4>3. g \in arrived
        BY <2>2, <3>3, <4>2
      <4>. QED
        BY <2>1, <3>2, <4>2, <4>3 DEF Kept
    <3> DEFINE e == rq.pool[f.split_id]
    <3>5. f \in FramesFor(m, f.split_id)
      BY <2>1, <3>1 DEF FramesOfMessages
    <3>6. f.split_id \in DOMAIN rq.pool
      BY <3>4, <3>5
    <3>7. \A p \in 0..(Parts[m] - 1) : p \in DOMAIN e.data
      <4>. TAKE p \in 0..(Parts[m] - 1)
      <4>2. PICK g \in FramesFor(m, f.split_id) : g.split_index = p
        BY <3>3, FrameOfPiece
      <4>. QED
        BY <3>4, <4>2
    <3>8. /\ e.split_size = Parts[m]
          /\ DOMAIN e.data \subseteq 0..(e.split_size - 1)
          /\ DOMAIN e.data # 0..(e.split_size - 1)
      <4>1. /\ EntryOf(SentLog, frames, e, f.split_id)
            /\ DOMAIN e.data # 0..(e.split_size - 1)
        BY <2>1, <3>6 DEF PoolHoldsUnfinished
      <4>2. PICK g \in frames : g.split /\ g.split_id = f.split_id /\ e.split_size = g.split_count
        BY <4>1 DEF EntryOf
      <4>3. f.split
        BY <2>1, <3>2, <3>4, <3>5, <3>1, <2>2 DEF Kept
      <4>4. g.order_index = m
        BY <2>1, <3>1, <4>2, <4>3 DEF Supplied, IdsStandForMessages
      <4>5. g.split_count = Parts[m]
        BY <2>1, <4>4, SentLogFields DEF Supplied, FrameOf
      <4>. QED
        BY <4>1, <4>2, <4>5 DEF EntryOf
    <3>. HIDE DEF e
    <3>. QED
      BY <3>7, <3>8
  <2>4. SUFFICES ASSUME rq.min <= n PROVE FALSE
    BY <2>2
  <2>5. Handled(rq, rq.min)
    BY <2>2, <2>3, <2>4
  <2>. QED
    BY <2>1, <2>2, <2>5 DEF Handled, HandedOn
<1>. QED
  BY <1>1, Invariance, PTL

-----------------------------------------------------------------------------
(* The refinement: the messages sent are a sequence that grows at its end,   *)
(* and those handed on are always the first of it.                           *)

SentMessages(n) == [k \in 1..n |-> Whole(k - 1)]

LEMMA SentIsSeq ==
    ASSUME NEW n \in Nat
    PROVE  /\ SentMessages(n) \in Seq({Whole(k - 1) : k \in 1..n})
           /\ Len(SentMessages(n)) = n
<1> DEFINE s == SentMessages(n)
           V == {Whole(k - 1) : k \in 1..n}
<1>1. s \in [1..n -> V] /\ DOMAIN s = 1..n
  BY DEF SentMessages
<1>. HIDE DEF s, V
<1>2. s \in Seq(V)
  BY <1>1, SeqDef
<1>3. Len(s) = n
  BY <1>1, <1>2, LenProperties
<1>. QED
  BY <1>2, <1>3 DEF s, V

\* Init of the channel.
LEMMA InitChannel == Init => Channel!Init
<1>. SUFFICES ASSUME Init PROVE Channel!Init
  OBVIOUS
<1>1. [k \in 1..sent |-> Whole(k - 1)] = << >>
  BY DEF Init
<1>. QED
  BY <1>1 DEF Init, Channel!Init

\* send_to sends one message more.
LEMMA SendToIsSend == IInv /\ SendTo => Channel!Send
<1>. SUFFICES ASSUME IInv, SendTo PROVE Channel!Send
  OBVIOUS
<1>1. sent \in Nat /\ sent \in DOMAIN Parts /\ sent' = sent + 1 /\ delivered' = delivered
  BY DEF IInv, FramesOfMessages, SendTo
<1>2. SentMessages(sent + 1) = Append(SentMessages(sent), Whole(sent))
  <2> DEFINE s == SentMessages(sent)
             t == SentMessages(sent + 1)
             w == Whole(sent)
             W == {Whole(k - 1) : k \in 1..(sent + 1)}
  <2>1. s \in Seq({Whole(k - 1) : k \in 1..sent}) /\ Len(s) = sent
    BY <1>1, SentIsSeq
  <2>2. {Whole(k - 1) : k \in 1..sent} \subseteq W
    BY <1>1
  <2>3. w \in W
    <3>1. /\ (sent + 1) - 1 = sent
          /\ sent + 1 \in 1..(sent + 1)
      BY <1>1
    <3>2. Whole((sent + 1) - 1) \in W
      BY <3>1
    <3>. QED
      BY <3>1, <3>2
  <2>4. t \in Seq(W) /\ Len(t) = sent + 1
    <3>1. sent + 1 \in Nat
      BY <1>1
    <3>. QED
      BY <3>1, SentIsSeq
  <2>5. \A k \in 1..sent : t[k] = s[k]
    BY <1>1 DEF SentMessages
  <2>6. t[sent + 1] = w
    BY <1>1 DEF SentMessages
  <2>. HIDE DEF s, t, w, W
  <2>7. s \in Seq(W)
    BY <2>1, <2>2, SeqMonotonic
  <2>8. /\ Append(s, w) \in Seq(W)
        /\ Len(Append(s, w)) = sent + 1
        /\ \A k \in 1..sent : Append(s, w)[k] = s[k]
        /\ Append(s, w)[sent + 1] = w
    BY <2>1, <2>3, <2>7, AppendProperties
  <2>9. \A k \in 1..(sent + 1) : t[k] = Append(s, w)[k]
    BY <1>1, <2>5, <2>6, <2>8
  <2>10. t = Append(s, w)
    BY <2>4, <2>8, <2>9, SeqEqual
  <2>. QED
    BY <2>10 DEF s, t, w
<1>3. \E m \in {Whole(n) : n \in DOMAIN Parts} :
         [k \in 1..sent' |-> Whole(k - 1)] = Append([k \in 1..sent |-> Whole(k - 1)], m)
  BY <1>1, <1>2 DEF SentMessages
<1>. QED
  BY <1>1, <1>3 DEF Channel!Send

\* receive_packet delivers what is next, or nothing.
LEMMA ReceivePacketIsDeliver ==
    ASSUME IInv, NEW f \in frames, ReceivePacket(f)
    PROVE  Channel!Deliver \/ UNCHANGED Channel!vars
<1>1. IInv' /\ rq.min <= rq'.min
  BY ReceivePacketKeeps
<1>2. /\ sent \in Nat /\ rq.min \in Nat /\ rq'.min \in Nat /\ rq'.min <= sent /\ sent' = sent
      /\ delivered = SentMessages(rq.min) /\ delivered' = SentMessages(rq'.min)
  <2>1. sent' = sent
    BY DEF ReceivePacket
  <2>2. /\ sent \in Nat /\ rq.min \in Nat /\ delivered = SentMessages(rq.min)
    BY DEF IInv, FramesOfMessages, Receiver, QueueHoldsWholes, HandedOn, SentMessages
  <2>3. /\ rq'.min \in Nat /\ rq'.max \in Nat /\ rq'.min <= rq'.max /\ rq'.max <= sent'
        /\ delivered' = SentMessages(rq'.min)
    <3>1. Receiver(SentLog', frames', rq', arrived') /\ HandedOn'
      BY <1>1 DEF IInv
    <3>2. SentLog'.count = sent'
      BY DEF SentLog
    <3>. QED
      BY <3>1, <3>2 DEF Receiver, QueueHoldsWholes, HandedOn, SentMessages
  <2>. QED
    BY <2>1, <2>2, <2>3
<1>3. CASE rq'.min = rq.min
  BY <1>2, <1>3 DEF Channel!vars
<1>4. CASE rq.min < rq'.min
  <2> DEFINE s == SentMessages(sent)
             c == rq'.min
  <2>1. /\ s \in Seq({Whole(k - 1) : k \in 1..sent}) /\ Len(s) = sent /\ Len(delivered) = rq.min
    BY <1>2, SentIsSeq
  <2>2. SubSeq(s, 1, c) = [k \in 1..c |-> s[k]]
    <3>1. c \in Nat
      BY <1>2
    <3>. HIDE DEF s, c
    <3>. QED
      BY <2>1, <3>1
  <2>3. \A k \in 1..c : s[k] = Whole(k - 1)
    BY <1>2 DEF SentMessages
  <2>4. delivered' = SubSeq(s, 1, c)
    BY <1>2, <2>2, <2>3 DEF SentMessages
  <2>5. c \in (Len(delivered) + 1)..Len(s)
    BY <1>2, <1>4, <2>1
  <2>6. Channel!Delivered
    BY <2>4, <2>5 DEF Channel!Delivered, SentMessages
  <2>. QED
    BY <1>2, <2>6 DEF Channel!Deliver
<1>. QED
  BY <1>1, <1>2, <1>3, <1>4

\* Every behaviour is one of the ordered channel: the safety of the refinement that
\* ImplementsFairChannel checks, for any session.
THEOREM ImplementsChannel == SplitIdsSuffice => (Spec => Channel!Spec)
<1>. SUFFICES ASSUME SplitIdsSuffice PROVE Spec => Channel!Spec
  OBVIOUS
<1>1. IInv /\ [Next]_vars => [Channel!Next]_(Channel!vars)
  <2>. SUFFICES ASSUME IInv, [Next]_vars PROVE [Channel!Next]_(Channel!vars)
    OBVIOUS
  <2>1. CASE SendTo
    BY <2>1, SendToIsSend DEF Channel!Next
  <2>2. CASE \E f \in frames : ReceivePacket(f)
    BY <2>2, ReceivePacketIsDeliver DEF Channel!Next
  <2>3. CASE UNCHANGED vars
    BY <2>3 DEF vars, Channel!vars
  <2>. QED
    BY <2>1, <2>2, <2>3 DEF Next
<1>. QED
  BY <1>1, InitChannel, Invariance, PTL DEF Spec, Channel!Spec
=============================================================================
