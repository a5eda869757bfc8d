--------------------------- MODULE TransportProofs ---------------------------
(***************************************************************************)
(* What Transport guarantees for any messages, any frames and any network, *)
(* as long as no split id is used twice: the receiver's parent is told the *)
(* messages sent and no other, up to the one that ends it, and every step  *)
(* is one of the ordered channel or none.  The link is as in LinkProofs,   *)
(* what the ReceivedQueue preserves is in DataProofs; here they meet.      *)
(***************************************************************************)
EXTENDS Transport, LinkProofs, SequenceTheorems

-----------------------------------------------------------------------------
(* The folds from left to right.  A fold takes its operator as a parameter, *)
(* so the four that Transport uses are told apart by a name.                *)

Step(op, a, x) ==
    CASE op = "frame"   -> AddFrame(a, x)
      [] op = "receive" -> ReceivePacket(a, x)
      [] op = "handle"  -> HandlePacket(a, x)
      [] op = "data"    -> AddData(a, x)

\* the fold over the positions t, given the folds over the smaller ones
IterStep(op, b, s, iter, t) ==
    IF t = {} THEN b ELSE Step(op, iter[t \ {Max(t)}], s[Max(t)])
Iter(op, b, s) ==
    CHOOSE iter : iter = [t \in SUBSET DOMAIN s |-> IterStep(op, b, s, iter, t)]
Folded(op, b, s) == Iter(op, b, s)[DOMAIN s]

\* the fold over the first k
FirstOf(s, k) == [i \in 1..k |-> s[i]]
FoldedTo(op, b, s, k) == Folded(op, b, FirstOf(s, k))

\* What holds of 0 and of the next holds up to n.
LEMMA UpTo ==
    ASSUME NEW n \in Nat, NEW T \in SUBSET Nat, 0 \in T,
           \A k \in 0..(n - 1) : k \in T => k + 1 \in T
    PROVE  \A k \in 0..n : k \in T
<1>. SUFFICES ASSUME NEW j \in 0..n, j \notin T PROVE FALSE
  OBVIOUS
<1> DEFINE F == {k \in 0..n : k \notin T}
<1>1. F \in SUBSET Nat /\ F # {}
  OBVIOUS
<1>. HIDE DEF F
<1>2. PICK k \in F : \A i \in F : k <= i
  BY <1>1, LeastNatural
<1>3. k \in 0..n /\ k \notin T
  BY DEF F
<1>4. k - 1 \in 0..(n - 1) /\ ~ (k <= k - 1)
  BY <1>3
<1>5. k - 1 \notin F
  BY <1>2, <1>4
<1>6. k - 1 \in T
  BY <1>4, <1>5 DEF F
<1>. QED
  BY <1>3, <1>4, <1>6

IsIter(op, b, s, n, iter) == iter = [t \in SUBSET (1..n) |-> IterStep(op, b, s, iter, t)]

\* Such a function exists: it is built from the numbers up to 0, to 1, ...
LEMMA IterExists ==
    ASSUME NEW op, NEW b, NEW s, NEW n \in Nat
    PROVE  \E iter : IsIter(op, b, s, n, iter)
<1> DEFINE Good(k, g) == \A t \in SUBSET (1..k) : g[t] = IterStep(op, b, s, g, t)
           T == {k \in Nat : \E g : Good(k, g)}
<1>1. 0 \in T
  <2>1. PICK g : g = [t \in {{}} |-> b]
    OBVIOUS
  <2>2. \A t \in SUBSET (1..0) : t = {}
    OBVIOUS
  <2>3. Good(0, g)
    BY <2>1, <2>2 DEF IterStep
  <2>. QED
    BY <2>3
<1>2. ASSUME NEW k \in 0..(n - 1), k \in T PROVE k + 1 \in T
  <2>1. PICK h : Good(k, h)
    BY <1>2
  <2>2. PICK g : g = [t \in SUBSET (1..(k + 1)) |->
                        IF k + 1 \in t THEN Step(op, h[t \ {k + 1}], s[k + 1]) ELSE h[t]]
    OBVIOUS
  <2>3. \A t \in SUBSET (1..k) : g[t] = h[t] /\ t \in SUBSET (1..(k + 1))
    <3>. TAKE t \in SUBSET (1..k)
    <3>1. t \in SUBSET (1..(k + 1)) /\ k + 1 \notin t
      OBVIOUS
    <3>. QED
      BY <2>2, <3>1
  <2>4. ASSUME NEW t \in SUBSET (1..(k + 1)) PROVE g[t] = IterStep(op, b, s, g, t)
    <3>1. CASE k + 1 \in t
      <4>1. Max(t) = k + 1 /\ t \ {k + 1} \in SUBSET (1..k) /\ t # {}
        BY <3>1, GreatestIs
      <4>2. g[t \ {k + 1}] = h[t \ {k + 1}]
        BY <4>1, <2>3
      <4>. QED
        BY <3>1, <4>1, <4>2, <2>2 DEF IterStep
    <3>2. CASE k + 1 \notin t
      <4>1. t \in SUBSET (1..k)
        BY <3>2, GreatestIs
      <4>2. g[t] = h[t] /\ h[t] = IterStep(op, b, s, h, t)
        BY <4>1, <2>1, <2>3
      <4>3. t \ {Max(t)} \in SUBSET (1..k)
        BY <4>1
      <4>4. g[t \ {Max(t)}] = h[t \ {Max(t)}]
        BY <4>3, <2>3
      <4>. QED
        BY <4>2, <4>4 DEF IterStep
    <3>. QED
      BY <3>1, <3>2
  <2>5. Good(k + 1, g)
    BY <2>4
  <2>6. k + 1 \in Nat
    OBVIOUS
  <2>. HIDE DEF Good
  <2>. QED
    BY <2>5, <2>6
<1>3. \A k \in 0..n : k \in T
  <2>1. T \in SUBSET Nat
    OBVIOUS
  <2>. HIDE DEF T
  <2>. QED
    BY <1>1, <1>2, <2>1, UpTo
<1>4. PICK h : Good(n, h)
  BY <1>3
<1>5. PICK g : g = [t \in SUBSET (1..n) |-> h[t]]
  OBVIOUS
<1>6. \A t \in SUBSET (1..n) : IterStep(op, b, s, h, t) = IterStep(op, b, s, g, t)
  <2>. TAKE t \in SUBSET (1..n)
  <2>1. g[t \ {Max(t)}] = h[t \ {Max(t)}]
    BY <1>5
  <2>. QED
    BY <2>1 DEF IterStep
<1>7. g = [t \in SUBSET (1..n) |-> IterStep(op, b, s, g, t)]
  BY <1>4, <1>5, <1>6
<1>. QED
  BY <1>7 DEF IsIter

LEMMA IterEquation ==
    ASSUME NEW op, NEW b, NEW s, NEW n \in Nat, DOMAIN s = 1..n,
           NEW t \in SUBSET (1..n)
    PROVE  Iter(op, b, s)[t] = IterStep(op, b, s, Iter(op, b, s), t)
<1>1. \E iter : iter = [u \in SUBSET DOMAIN s |-> IterStep(op, b, s, iter, u)]
  <2>1. PICK iter : IsIter(op, b, s, n, iter)
    BY IterExists
  <2>2. iter = [u \in SUBSET DOMAIN s |-> IterStep(op, b, s, iter, u)]
    BY <2>1 DEF IsIter
  <2>. QED
    BY <2>2
<1>2. Iter(op, b, s) = [u \in SUBSET DOMAIN s |-> IterStep(op, b, s, Iter(op, b, s), u)]
  BY <1>1 DEF Iter
<1>. QED
  BY <1>2

\* Folds of two sequences agree as far as the sequences do.
LEMMA FoldsAgree ==
    ASSUME NEW op, NEW b,
           NEW s, NEW n \in Nat, DOMAIN s = 1..n,
           NEW r, NEW m \in Nat, DOMAIN r = 1..m,
           NEW k \in Nat, k <= n, k <= m, \A i \in 1..k : s[i] = r[i]
    PROVE  Iter(op, b, s)[1..k] = Iter(op, b, r)[1..k]
<1> DEFINE f == Iter(op, b, s)
           g == Iter(op, b, r)
           T == {j \in Nat : j <= k => f[1..j] = g[1..j]}
<1>1. \A j \in Nat : j <= k => /\ f[1..j] = IterStep(op, b, s, f, 1..j)
                               /\ g[1..j] = IterStep(op, b, r, g, 1..j)
  <2>. SUFFICES ASSUME NEW j \in Nat, j <= k
                PROVE  /\ f[1..j] = IterStep(op, b, s, f, 1..j)
                       /\ g[1..j] = IterStep(op, b, r, g, 1..j)
    OBVIOUS
  <2>1. 1..j \in SUBSET (1..n) /\ 1..j \in SUBSET (1..m)
    OBVIOUS
  <2>. QED
    BY <2>1, IterEquation
<1>. HIDE DEF f, g
<1>2. 0 \in T
  <2>1. 1..0 = {}
    OBVIOUS
  <2>. QED
    BY <1>1, <2>1 DEF IterStep
<1>3. ASSUME NEW j \in 0..(k - 1), j \in T PROVE j + 1 \in T
  <2>1. /\ j + 1 \in Nat /\ j + 1 <= k /\ j <= k /\ j + 1 \in 1..k
        /\ (j + 1) - 1 = j
    OBVIOUS
  <2>2. Max(1..(j + 1)) = j + 1 /\ 1..(j + 1) # {} /\ (1..(j + 1)) \ {j + 1} = 1..j
    <3>1. 1..(j + 1) \in SUBSET (1..(j + 1)) /\ j + 1 \in 1..(j + 1) /\ j + 1 > 0
      OBVIOUS
    <3>2. Max(1..(j + 1)) = j + 1
      BY <2>1, <3>1, GreatestIs
    <3>3. (1..(j + 1)) \ {j + 1} = 1..j
      OBVIOUS
    <3>. QED
      BY <3>1, <3>2, <3>3
  <2>3. f[1..j] = g[1..j] /\ s[j + 1] = r[j + 1]
    BY <1>3, <2>1
  <2>4. /\ f[1..(j + 1)] = IterStep(op, b, s, f, 1..(j + 1))
        /\ g[1..(j + 1)] = IterStep(op, b, r, g, 1..(j + 1))
    BY <1>1, <2>1
  <2>5. f[1..(j + 1)] = g[1..(j + 1)]
    BY <2>2, <2>3, <2>4 DEF IterStep
  <2>. QED
    BY <2>1, <2>5
<1>4. \A j \in 0..k : j \in T
  <2>1. T \in SUBSET Nat
    OBVIOUS
  <2>. HIDE DEF T
  <2>. QED
    BY <1>2, <1>3, <2>1, UpTo
<1>. QED
  BY <1>4 DEF f, g

IsSequence(s, n) == DOMAIN s = 1..n /\ s = [i \in 1..n |-> s[i]]
FoldSteps(op, b, s, n) ==
    /\ FoldedTo(op, b, s, 0) = b
    /\ \A k \in 1..n : FoldedTo(op, b, s, k) = Step(op, FoldedTo(op, b, s, k - 1), s[k])

\* A fold, step by step.
LEMMA FoldedSteps ==
    ASSUME NEW op, NEW b, NEW s, NEW n \in Nat, IsSequence(s, n)
    PROVE  /\ FoldSteps(op, b, s, n)
           /\ Folded(op, b, s) = FoldedTo(op, b, s, n)
<1>1. \A k \in Nat : DOMAIN FirstOf(s, k) = 1..k /\ \A i \in 1..k : FirstOf(s, k)[i] = s[i]
  BY DEF FirstOf
<1>2. FoldedTo(op, b, s, 0) = b
  <2>1. 1..0 = {} /\ DOMAIN FirstOf(s, 0) = 1..0 /\ 1..0 \in SUBSET (1..0)
    BY <1>1
  <2>2. Iter(op, b, FirstOf(s, 0))[1..0] = IterStep(op, b, FirstOf(s, 0), Iter(op, b, FirstOf(s, 0)), 1..0)
    BY <2>1, IterEquation
  <2>. QED
    BY <2>1, <2>2 DEF FoldedTo, Folded, IterStep
<1>3. ASSUME NEW k \in 1..n
      PROVE  FoldedTo(op, b, s, k) = Step(op, FoldedTo(op, b, s, k - 1), s[k])
  <2>1. PICK r : r = FirstOf(s, k)
    OBVIOUS
  <2>2. PICK q : q = FirstOf(s, k - 1)
    OBVIOUS
  <2>3. /\ k \in Nat /\ k - 1 \in Nat /\ k - 1 <= k /\ k > 0
        /\ DOMAIN r = 1..k /\ DOMAIN q = 1..(k - 1) /\ r[k] = s[k]
        /\ \A i \in 1..(k - 1) : r[i] = q[i]
    BY <1>1, <2>1, <2>2
  <2>4. Iter(op, b, r)[1..k] = IterStep(op, b, r, Iter(op, b, r), 1..k)
    BY <2>3, IterEquation
  <2>5. Max(1..k) = k /\ 1..k # {} /\ (1..k) \ {k} = 1..(k - 1)
    <3>1. 1..k \in SUBSET (1..k) /\ k \in 1..k
      BY <2>3
    <3>2. Max(1..k) = k
      BY <2>3, <3>1, GreatestIs
    <3>3. (1..k) \ {k} = 1..(k - 1)
      BY <2>3
    <3>. QED
      BY <3>1, <3>2, <3>3
  <2>6. Iter(op, b, r)[1..(k - 1)] = Iter(op, b, q)[1..(k - 1)]
    BY <2>3, FoldsAgree
  <2>. QED
    BY <2>1, <2>2, <2>3, <2>4, <2>5, <2>6 DEF FoldedTo, Folded, IterStep
<1>4. FirstOf(s, n) = s
  BY DEF FirstOf, IsSequence
<1>. QED
  BY <1>2, <1>3, <1>4 DEF FoldedTo, FoldSteps

\* The four folds of Transport, with names of their own, and step by step.
AddFrames(q, fs)      == FoldLeft(AddFrame, q, fs)
ReceivePackets(r, fs) == FoldLeft(ReceivePacket, r, fs)
HandlePackets(p, ps)  == FoldLeft(HandlePacket, p, ps)
AddDatas(ps, more)    == FoldLeft(AddData, ps, more)

LEMMA FoldFrame ==
    ASSUME NEW op, op = "frame"
    PROVE  /\ \A b, s : AddFrames(b, s) = Folded(op, b, s)
           /\ \A a, x : Step(op, a, x) = AddFrame(a, x)
<1>1. \A b, s : AddFrames(b, s) = Folded(op, b, s)
  <2>. TAKE b, s
  <2>. QED
    BY DEF AddFrames, FoldLeft, MapThenFoldSet, Folded, Iter, IterStep, Step
<1>. QED
  BY <1>1 DEF Step

LEMMA FoldReceive ==
    ASSUME NEW op, op = "receive"
    PROVE  /\ \A b, s : ReceivePackets(b, s) = Folded(op, b, s)
           /\ \A a, x : Step(op, a, x) = ReceivePacket(a, x)
<1>1. \A b, s : ReceivePackets(b, s) = Folded(op, b, s)
  <2>. TAKE b, s
  <2>. QED
    BY DEF ReceivePackets, FoldLeft, MapThenFoldSet, Folded, Iter, IterStep, Step
<1>. QED
  BY <1>1 DEF Step

LEMMA FoldHandle ==
    ASSUME NEW op, op = "handle"
    PROVE  /\ \A b, s : HandlePackets(b, s) = Folded(op, b, s)
           /\ \A a, x : Step(op, a, x) = HandlePacket(a, x)
<1>1. \A b, s : HandlePackets(b, s) = Folded(op, b, s)
  <2>. TAKE b, s
  <2>. QED
    BY DEF HandlePackets, FoldLeft, MapThenFoldSet, Folded, Iter, IterStep, Step
<1>. QED
  BY <1>1 DEF Step

LEMMA FoldData ==
    ASSUME NEW op, op = "data"
    PROVE  /\ \A b, s : AddDatas(b, s) = Folded(op, b, s)
           /\ \A a, x : Step(op, a, x) = AddData(a, x)
<1>1. \A b, s : AddDatas(b, s) = Folded(op, b, s)
  <2>. TAKE b, s
  <2>. QED
    BY DEF AddDatas, FoldLeft, MapThenFoldSet, Folded, Iter, IterStep, Step
<1>. QED
  BY <1>1 DEF Step

\* Sequences that agree have the same folds.
LEMMA FirstOfFirst ==
    ASSUME NEW s, NEW r, NEW k \in Nat, \A i \in 1..k : s[i] = r[i]
    PROVE  FirstOf(s, k) = FirstOf(r, k)
  BY DEF FirstOf

-----------------------------------------------------------------------------
(* The frames the packet queue answers for.                                 *)

LEMMA AddFrameHolds ==
    ASSUME NEW q, Sound(q), NEW f \in Frame, NEW r, r = AddFrame(q, f)
    PROVE  Grows(q, r) /\ Held(r) = Held(q) \cup {f}
<1>1. /\ Grows(q, r) /\ f \in Held(r)
      /\ \/ /\ r.set_queue = Append(q.set_queue, f)
            /\ Datas(r) = Datas(q)
         \/ /\ r.set_queue = q.set_queue
            /\ Datas(r) = Datas(q) \cup {<<f>>}
  BY AddFrameGrows
<1>2. Held(q) \subseteq Held(r)
  BY <1>1 DEF Grows
<1>3. Held(r) \subseteq Held(q) \cup {f}
  <2>1. CASE r.set_queue = Append(q.set_queue, f) /\ Datas(r) = Datas(q)
    <3>1. q.set_queue \in Seq(Frame)
      BY FieldsOfType DEF Sound, TypedFields
    <3>2. InSequence(Append(q.set_queue, f)) \subseteq InSequence(q.set_queue) \cup {f}
      BY <3>1 DEF InSequence
    <3>. QED
      BY <2>1, <3>2, HeldIs
  <2>2. CASE r.set_queue = q.set_queue /\ Datas(r) = Datas(q) \cup {<<f>>}
    <3>1. InSequence(<<f>>) = {f}
      BY DEF InSequence
    <3>2. /\ Held(r) = InSequence(r.set_queue) \cup UNION {InSequence(v) : v \in Datas(r)}
          /\ Held(q) = InSequence(q.set_queue) \cup UNION {InSequence(v) : v \in Datas(q)}
      BY HeldIs
    <3>. QED
      BY <2>2, <3>1, <3>2
  <2>. QED
    BY <1>1, <2>1, <2>2
<1>. QED
  BY <1>1, <1>2, <1>3

\* add_frame, for every frame of a message.
LEMMA AddFramesHold ==
    ASSUME NEW q, Sound(q), NEW fs \in Seq(Frame), NEW r, r = AddFrames(q, fs)
    PROVE  Grows(q, r) /\ Held(r) = Held(q) \cup InSequence(fs)
<1>0. PICK op : op = "frame"
  OBVIOUS
<1> DEFINE h(k) == FoldedTo(op, q, fs, k)
           T == {k \in Nat : k <= Len(fs) =>
                    /\ Grows(q, h(k))
                    /\ Held(h(k)) = Held(q) \cup {fs[i] : i \in 1..k}}
<1>1. Len(fs) \in Nat /\ DOMAIN fs = 1..Len(fs) /\ fs = [i \in 1..Len(fs) |-> fs[i]]
  OBVIOUS
<1>2. /\ h(0) = q
      /\ \A k \in 1..Len(fs) : h(k) = AddFrame(h(k - 1), fs[k])
      /\ r = h(Len(fs))
  <2>1. PICK n \in Nat : n = Len(fs) /\ IsSequence(fs, n)
    BY <1>1 DEF IsSequence
  <2>2. FoldSteps(op, q, fs, n) /\ Folded(op, q, fs) = FoldedTo(op, q, fs, n)
    BY <2>1, FoldedSteps
  <2>. QED
    BY <1>0, <2>1, <2>2, FoldFrame DEF FoldSteps
<1>. HIDE DEF h
<1>3. 0 \in T
  <2>1. Grows(q, q)
    BY FieldsOfType DEF Sound, Grows, TypedFields
  <2>2. {fs[i] : i \in 1..0} = {}
    OBVIOUS
  <2>. QED
    BY <1>2, <2>1, <2>2
<1>4. ASSUME NEW k \in 0..(Len(fs) - 1), k \in T PROVE k + 1 \in T
  <2>1. k <= Len(fs) /\ k + 1 \in 1..Len(fs) /\ (k + 1) - 1 = k /\ k + 1 \in Nat
    BY <1>1
  <2>2. Grows(q, h(k)) /\ Held(h(k)) = Held(q) \cup {fs[i] : i \in 1..k}
    BY <1>4, <2>1
  <2>3. PICK f \in Frame : f = fs[k + 1]
    BY <2>1
  <2>4. PICK t : t = AddFrame(h(k), f)
    OBVIOUS
  <2>5. Sound(h(k))
    BY <2>2 DEF Grows
  <2>6. Grows(h(k), t) /\ Held(t) = Held(h(k)) \cup {f}
    BY <2>4, <2>5, AddFrameHolds
  <2>7. Grows(q, t)
    BY <2>2, <2>6, GrowsTransitive
  <2>8. {fs[i] : i \in 1..(k + 1)} = {fs[i] : i \in 1..k} \cup {fs[k + 1]}
    <3>1. 1..(k + 1) = 1..k \cup {k + 1}
      BY <2>1
    <3>. QED
      BY <3>1
  <2>9. t = h(k + 1)
    BY <1>2, <2>1, <2>3, <2>4
  <2>. QED
    BY <2>1, <2>2, <2>3, <2>6, <2>7, <2>8, <2>9
<1>5. \A k \in 0..Len(fs) : k \in T
  <2>1. T \in SUBSET Nat
    OBVIOUS
  <2>. HIDE DEF T
  <2>. QED
    BY <1>1, <1>3, <1>4, <2>1, UpTo
<1>6. Grows(q, h(Len(fs))) /\ Held(h(Len(fs))) = Held(q) \cup {fs[i] : i \in 1..Len(fs)}
  <2>1. Len(fs) \in T /\ Len(fs) <= Len(fs)
    BY <1>1, <1>5
  <2>. QED
    BY <2>1
<1>. QED
  BY <1>1, <1>2, <1>6 DEF InSequence

\* The other methods hold no frame that was not there, nor does what they send.
LEMMA ResendHolds ==
    ASSUME NEW q, Sound(q), NEW index \in Nat, index < q.send_min
    PROVE  Held(Resend(q, index)) \subseteq Held(q)
<1>1. PICK r : r = Resend(q, index)
  OBVIOUS
<1>2. r.set_queue = q.set_queue /\ Datas(r) \subseteq Datas(q)
  BY <1>1, ResendGrows
<1>. QED
  BY <1>1, <1>2, HeldIs

LEMMA ReceivedHolds ==
    ASSUME NEW q, Sound(q), NEW sequences, \A s \in sequences : s \in Nat /\ s < q.send_min
    PROVE  Held(Received(q, sequences)) \subseteq Held(q)
<1>1. PICK r : r = Received(q, sequences)
  OBVIOUS
<1>2. /\ r.set_queue = q.set_queue /\ DOMAIN r.queue = DOMAIN q.queue \ sequences
      /\ \A s \in DOMAIN r.queue : r.queue[s] = q.queue[s]
  BY <1>1, ReceivedSound
<1>. QED
  BY <1>1, <1>2 DEF Held

LEMMA GetPacketHolds ==
    ASSUME NEW q, Sound(q), NEW cutoff, NEW expired \in Orders(Expirable(q, cutoff))
    PROVE  /\ Held(AfterGetPacket(q, expired)) \subseteq Held(q)
           /\ \A set \in GetPacket(q, expired) : FramesOf(set) \subseteq Held(q)
<1>1. PICK r : r = AfterGetPacket(q, expired)
  OBVIOUS
<1>2. /\ expired \in Seq(DOMAIN q.queue)
      /\ \A i \in DOMAIN expired : expired[i] < q.send_min
  BY OrdersAreSequences
<1>3. /\ q.send_min..(r.max - 1) \subseteq DOMAIN r.queue
      /\ GetPacket(q, expired) = {r.queue[s] : s \in q.send_min..(r.max - 1)}
      /\ \/ r.set_queue = q.set_queue /\ Datas(r) \subseteq Datas(q)
         \/ r.set_queue = << >> /\ Datas(r) \subseteq Datas(q) \cup {q.set_queue}
  BY <1>1, <1>2, GetPacketSound
<1>4. /\ Held(r) = InSequence(r.set_queue) \cup UNION {InSequence(v) : v \in Datas(r)}
      /\ Held(q) = InSequence(q.set_queue) \cup UNION {InSequence(v) : v \in Datas(q)}
  BY HeldIs
<1>5. InSequence(<< >>) = {}
  BY DEF InSequence
<1>6. Held(r) \subseteq Held(q)
  BY <1>3, <1>4, <1>5
<1>7. \A set \in GetPacket(q, expired) : FramesOf(set) \subseteq Held(r)
  BY <1>3 DEF Held
<1>. QED
  BY <1>1, <1>6, <1>7

-----------------------------------------------------------------------------
(* The messages that were given an order index, and the packets they are    *)
(* put together to.                                                         *)

AllMessages == Messages \cup {Bye}

LEMMA MessageFields ==
    ASSUME NEW m \in AllMessages
    PROVE  m.parts \in Nat \ {0} /\ m.kind \in {"data", "ping", "bye", "empty"}
  BY TransportAssumption DEF AllMessages, Message, Bye

\* a message sequence, as DataProofs has it
PieceOf(m, n, p) == [order |-> n, kind |-> m.kind, piece |-> p]
LogOf(ms) ==
    [count |-> Len(ms),
     parts |-> [n \in 0..(Len(ms) - 1) |-> ms[n + 1].parts],
     piece |-> [n \in 0..(Len(ms) - 1) |->
                   [p \in 0..(ms[n + 1].parts - 1) |-> PieceOf(ms[n + 1], n, p)]]]

LEMMA LogFields ==
    ASSUME NEW ms
    PROVE  /\ LogOf(ms).count = Len(ms)
           /\ \A n \in 0..(Len(ms) - 1) :
                 /\ LogOf(ms).parts[n] = ms[n + 1].parts
                 /\ LogOf(ms).piece[n] = [p \in 0..(ms[n + 1].parts - 1) |-> PieceOf(ms[n + 1], n, p)]
  BY DEF LogOf

LEMMA WholeOfLog ==
    ASSUME NEW ms \in Seq(AllMessages), NEW n \in 0..(Len(ms) - 1)
    PROVE  WholeOf(LogOf(ms), n) = Whole(ms[n + 1], n)
<1>1. PICK m \in AllMessages : m = ms[n + 1]
  OBVIOUS
<1>2. m.parts \in Nat \ {0}
  BY MessageFields
<1>3. PICK s : s = LogOf(ms)
  OBVIOUS
<1>4. s.parts[n] = m.parts /\ s.piece[n] = [p \in 0..(m.parts - 1) |-> PieceOf(m, n, p)]
  BY <1>1, <1>3, LogFields
<1>5. \A k \in 1..m.parts : s.piece[n][k - 1] = PieceOf(m, n, k - 1)
  BY <1>2, <1>4
<1>6. WholeOf(s, n) = [k \in 1..m.parts |-> PieceOf(m, n, k - 1)]
  BY <1>4, <1>5 DEF WholeOf
<1>. QED
  BY <1>1, <1>3, <1>6 DEF Whole, PieceOf

\* The first frame of a packet tells its kind.
LEMMA KindOfWhole ==
    ASSUME NEW m \in AllMessages, NEW n
    PROVE  Whole(m, n)[1].kind = m.kind
<1>1. m.parts \in Nat \ {0}
  BY MessageFields
<1>2. 1 \in 1..m.parts
  BY <1>1
<1>. QED
  BY <1>2 DEF Whole

\* The packets of the user's own kind.
PacketsOf(ms)  == [k \in 1..Len(ms) |-> Whole(ms[k], k - 1)]
DataTo(ms, n)  == AddDatas(<< >>, FirstOf(PacketsOf(ms), n))

LEMMA PacketsAreData ==
    ASSUME NEW n \in Nat, n <= Len(sent), Len(sent) \in Nat
    PROVE  Packets(n) = DataTo(sent, n)
<1>1. [k \in 1..n |-> Whole(sent[k], k - 1)] = FirstOf(PacketsOf(sent), n)
  BY DEF FirstOf, PacketsOf
<1>2. Packets(n) = AddDatas(<< >>, [k \in 1..n |-> Whole(sent[k], k - 1)])
  BY DEF Packets, AddDatas
<1>. QED
  BY <1>1, <1>2 DEF DataTo

LEMMA DataSteps ==
    ASSUME NEW ms \in Seq(AllMessages)
    PROVE  /\ DataTo(ms, 0) = << >>
           /\ \A k \in 1..Len(ms) :
                 DataTo(ms, k) = AddData(DataTo(ms, k - 1), Whole(ms[k], k - 1))
<1>1. PICK s : s = PacketsOf(ms)
  OBVIOUS
<1>2. PICK n \in Nat : n = Len(ms)
  OBVIOUS
<1>3. s = [k \in 1..n |-> Whole(ms[k], k - 1)]
  BY <1>1, <1>2 DEF PacketsOf
<1>4. IsSequence(s, n)
  BY <1>3 DEF IsSequence
<1>5. PICK op : op = "data"
  OBVIOUS
<1>6. PICK b : b = << >>
  OBVIOUS
<1>7. FoldSteps(op, b, s, n)
  BY <1>4, FoldedSteps
<1>8. \A k : DataTo(ms, k) = FoldedTo(op, b, s, k)
  BY <1>1, <1>5, <1>6, FoldData DEF DataTo, FoldedTo
<1>9. \A k \in 1..n : s[k] = Whole(ms[k], k - 1)
  BY <1>3
<1>. QED
  BY <1>2, <1>5, <1>6, <1>7, <1>8, <1>9, FoldData DEF FoldSteps

\* It is made of the first messages only.
LEMMA DataOfFirst ==
    ASSUME NEW ms, NEW ns, NEW k \in Nat, Len(ms) \in Nat, Len(ns) \in Nat,
           k <= Len(ms), k <= Len(ns), \A i \in 1..k : ms[i] = ns[i]
    PROVE  DataTo(ms, k) = DataTo(ns, k)
<1>1. \A i \in 1..k : PacketsOf(ms)[i] = PacketsOf(ns)[i]
  BY DEF PacketsOf
<1>2. FirstOf(PacketsOf(ms), k) = FirstOf(PacketsOf(ns), k)
  BY <1>1, FirstOfFirst
<1>. QED
  BY <1>2 DEF DataTo

\* What one message more adds.
LEMMA DataOfOneMore ==
    ASSUME NEW ms \in Seq(AllMessages), NEW k \in 1..Len(ms)
    PROVE  DataTo(ms, k) = IF ms[k].kind = "data"
                           THEN Append(DataTo(ms, k - 1), Whole(ms[k], k - 1))
                           ELSE DataTo(ms, k - 1)
<1>1. ms[k] \in AllMessages
  OBVIOUS
<1>2. Whole(ms[k], k - 1)[1].kind = ms[k].kind
  BY <1>1, KindOfWhole
<1>3. DataTo(ms, k) = AddData(DataTo(ms, k - 1), Whole(ms[k], k - 1))
  BY DataSteps
<1>. QED
  BY <1>2, <1>3 DEF AddData

Wholes(ms) == {Whole(ms[i], i - 1) : i \in 1..Len(ms)}

LEMMA DataIsSequence ==
    ASSUME NEW ms \in Seq(AllMessages)
    PROVE  \A k \in 0..Len(ms) : DataTo(ms, k) \in Seq(Wholes(ms))
<1> DEFINE T == {k \in Nat : k <= Len(ms) => DataTo(ms, k) \in Seq(Wholes(ms))}
<1>1. 0 \in T
  <2>1. DataTo(ms, 0) = << >>
    BY DataSteps
  <2>2. << >> \in Seq(Wholes(ms))
    OBVIOUS
  <2>3. DataTo(ms, 0) \in Seq(Wholes(ms))
    BY <2>1, <2>2
  <2>. QED
    BY <2>3
<1>2. ASSUME NEW k \in 0..(Len(ms) - 1), k \in T PROVE k + 1 \in T
  <2>1. /\ k + 1 \in 1..Len(ms) /\ (k + 1) - 1 = k /\ k + 1 \in Nat /\ k <= Len(ms)
    OBVIOUS
  <2>2. PICK w \in Wholes(ms) : w = Whole(ms[k + 1], k)
    BY <2>1 DEF Wholes
  <2>3. PICK d \in Seq(Wholes(ms)) : d = DataTo(ms, k)
    BY <1>2, <2>1
  <2>4. DataTo(ms, k + 1) = d \/ DataTo(ms, k + 1) = Append(d, w)
    BY <2>1, <2>2, <2>3, DataOfOneMore
  <2>5. Append(d, w) \in Seq(Wholes(ms))
    OBVIOUS
  <2>6. DataTo(ms, k + 1) \in Seq(Wholes(ms))
    BY <2>4, <2>5
  <2>. QED
    BY <2>1, <2>6
<1>3. T \in SUBSET Nat
  OBVIOUS
<1>. HIDE DEF T
<1>4. \A k \in 0..Len(ms) : k \in T
  <2>1. PICK n \in Nat : n = Len(ms)
    OBVIOUS
  <2>. QED
    BY <1>1, <1>2, <1>3, <2>1, UpTo
<1>. QED
  BY <1>4 DEF T

\* What was put together first stays first.
LEMMA DataGrows ==
    ASSUME NEW ms \in Seq(AllMessages), NEW j \in Nat, NEW k \in Nat, j <= k, k <= Len(ms)
    PROVE  /\ Len(DataTo(ms, j)) <= Len(DataTo(ms, k))
           /\ \A i \in 1..Len(DataTo(ms, j)) : DataTo(ms, k)[i] = DataTo(ms, j)[i]
<1> DEFINE d(x) == DataTo(ms, x)
           First(x) == /\ Len(d(j)) <= Len(d(x))
                       /\ \A i \in 1..Len(d(j)) : d(x)[i] = d(j)[i]
           T == {x \in Nat : j + x <= k => First(j + x)}
<1>1. \A x \in 0..Len(ms) : d(x) \in Seq(Wholes(ms))
  BY DataIsSequence
<1>2. \A x \in 1..Len(ms) : d(x) = d(x - 1) \/ \E w \in Wholes(ms) : d(x) = Append(d(x - 1), w)
  <2>. TAKE x \in 1..Len(ms)
  <2>1. Whole(ms[x], x - 1) \in Wholes(ms)
    BY DEF Wholes
  <2>. QED
    BY <2>1, DataOfOneMore
<1>. HIDE DEF d
<1>3. 0 \in T
  <2>1. d(j) \in Seq(Wholes(ms))
    BY <1>1
  <2>2. Len(d(j)) <= Len(d(j)) /\ j + 0 = j
    BY <2>1
  <2>. QED
    BY <2>2
<1>4. ASSUME NEW x \in 0..((k - j) - 1), x \in T PROVE x + 1 \in T
  <2>1. PICK y \in Nat : y = j + x
    OBVIOUS
  <2>2. /\ y + 1 \in 1..Len(ms) /\ (y + 1) - 1 = y /\ j + (x + 1) = y + 1 /\ x + 1 \in Nat
        /\ y \in 0..Len(ms) /\ y <= k
    BY <2>1
  <2>3. First(y)
    BY <1>4, <2>1, <2>2
  <2>4. d(y) \in Seq(Wholes(ms)) /\ d(j) \in Seq(Wholes(ms))
    BY <1>1, <2>2
  <2>5. CASE d(y + 1) = d(y)
    BY <2>2, <2>3, <2>5
  <2>6. ASSUME NEW w \in Wholes(ms), d(y + 1) = Append(d(y), w) PROVE First(y + 1)
    <3>1. PICK v \in Seq(Wholes(ms)) : v = d(y)
      BY <2>4
    <3>2. Len(Append(v, w)) = Len(v) + 1 /\ \A i \in 1..Len(v) : Append(v, w)[i] = v[i]
      OBVIOUS
    <3>3. PICK a \in Nat : a = Len(d(j))
      BY <2>4
    <3>4. Len(v) \in Nat /\ a <= Len(v)
      BY <2>3, <3>1, <3>3
    <3>5. a <= Len(v) + 1 /\ \A i \in 1..a : i \in 1..Len(v)
      BY <3>4
    <3>. QED
      BY <2>3, <2>6, <3>1, <3>2, <3>3, <3>5
  <2>. QED
    BY <1>2, <2>2, <2>5, <2>6
<1>5. T \in SUBSET Nat
  OBVIOUS
<1>. HIDE DEF T
<1>6. k - j \in T
  <2>1. PICK n \in Nat : n = k - j
    OBVIOUS
  <2>2. \A x \in 0..n : x \in T
    BY <1>3, <1>4, <1>5, <2>1, UpTo
  <2>. QED
    BY <2>1, <2>2
<1>7. j + (k - j) <= k /\ j + (k - j) = k
  OBVIOUS
<1>8. First(k)
  BY <1>6, <1>7 DEF T
<1>. QED
  BY <1>8 DEF d

LEMMA DataIsPrefix ==
    ASSUME NEW ms \in Seq(AllMessages), NEW j \in Nat, NEW k \in Nat, j <= k, k <= Len(ms)
    PROVE  /\ Len(DataTo(ms, j)) \in Nat /\ Len(DataTo(ms, k)) \in Nat
           /\ Len(DataTo(ms, j)) <= Len(DataTo(ms, k))
           /\ DataTo(ms, j) = SubSeq(DataTo(ms, k), 1, Len(DataTo(ms, j)))
           /\ IsPrefix(DataTo(ms, j), DataTo(ms, k))
<1>1. PICK a \in Seq(Wholes(ms)), b \in Seq(Wholes(ms)) : a = DataTo(ms, j) /\ b = DataTo(ms, k)
  BY DataIsSequence
<1>2. Len(a) <= Len(b) /\ \A i \in 1..Len(a) : b[i] = a[i]
  BY <1>1, DataGrows
<1>3. PICK n \in Nat : n = Len(a)
  OBVIOUS
<1>4. a = [i \in 1..n |-> a[i]]
  BY <1>3
<1>5. SubSeq(b, 1, n) = [i \in 1..n |-> b[i]] /\ SubSeq(a, 1, n) = [i \in 1..n |-> a[i]]
  BY <1>2, <1>3
<1>6. SubSeq(b, 1, n) = a /\ SubSeq(a, 1, n) = a
  BY <1>2, <1>3, <1>4, <1>5
<1>7. Len(a) \in Nat /\ Len(b) \in Nat
  OBVIOUS
<1>. QED
  BY <1>1, <1>2, <1>3, <1>6, <1>7 DEF IsPrefix

-----------------------------------------------------------------------------
(* What the parent of the receiver was told when n packets were handed on.  *)

Stops == {"bye", "empty"}

\* Message k is the first to end the session, and is of this kind.
StopsAt(ms, k, kind) ==
    /\ ms[k].kind = kind
    /\ \A j \in 1..(k - 1) : ms[j].kind \notin Stops

ToldOf(ms, p, n) ==
    /\ p = [told |-> p.told, over |-> p.over]
    /\ \/ /\ p.over = "no"
          /\ p.told = DataTo(ms, n)
          /\ \A j \in 1..n : ms[j].kind \notin Stops
       \/ p.over = "left" /\ \E k \in 0..n : p.told = DataTo(ms, k)
       \/ p.over = "ended" /\ \E k \in 1..n : StopsAt(ms, k, "bye") /\ p.told = DataTo(ms, k)
       \/ p.over = "panicked" /\ \E k \in 1..n : StopsAt(ms, k, "empty") /\ p.told = DataTo(ms, k)

\* What is over stays as it is, and no packet makes a session leave.
MovesOn(p, q) ==
    /\ p.over # "no" => q = p
    /\ q.over = "left" => p.over = "left"

LEMMA MovesOnTransitive ==
    ASSUME NEW p, NEW q, NEW r, MovesOn(p, q), MovesOn(q, r)
    PROVE  MovesOn(p, r)
  BY DEF MovesOn

\* handle_packet of the next packet.
LEMMA HandleNext ==
    ASSUME NEW ms \in Seq(AllMessages), NEW n \in 0..(Len(ms) - 1),
           NEW p, ToldOf(ms, p, n),
           NEW q, q = HandlePacket(p, Whole(ms[n + 1], n))
    PROVE  ToldOf(ms, q, n + 1) /\ MovesOn(p, q)
<1>1. PICK m \in AllMessages : m = ms[n + 1]
  OBVIOUS
<1>2. PICK w : w = Whole(m, n)
  OBVIOUS
<1>3. m.kind \in {"data", "ping", "bye", "empty"} /\ w[1].kind = m.kind
  BY <1>2, MessageFields, KindOfWhole
<1>4. /\ n \in Nat /\ n + 1 \in 1..Len(ms) /\ (n + 1) - 1 = n /\ n + 1 \in 1..(n + 1)
      /\ 1..(n + 1) = 1..n \cup {n + 1} /\ 0..n \subseteq 0..(n + 1) /\ 1..n \subseteq 1..(n + 1)
  OBVIOUS
<1>5. DataTo(ms, n + 1) = IF m.kind = "data" THEN Append(DataTo(ms, n), w) ELSE DataTo(ms, n)
  BY <1>1, <1>2, <1>4, DataOfOneMore
<1>6. PICK d, e : d = DataTo(ms, n) /\ e = DataTo(ms, n + 1)
  OBVIOUS
<1>7. p = [told |-> p.told, over |-> p.over]
  BY DEF ToldOf
<1>8. CASE p.over # "no"
  <2>1. q = p
    BY <1>1, <1>2, <1>8 DEF HandlePacket
  <2>2. ToldOf(ms, p, n + 1)
    BY <1>4, <1>8 DEF ToldOf
  <2>. QED
    BY <2>1, <2>2 DEF MovesOn
<1>9. CASE p.over = "no"
  <2>1. p.told = d /\ \A j \in 1..n : ms[j].kind \notin Stops
    BY <1>6, <1>9 DEF ToldOf
  <2>2. MovesOn(p, q)
    <3>1. q.over # "left"
      BY <1>1, <1>2, <1>3, <1>7, <1>9 DEF HandlePacket
    <3>. QED
      BY <3>1, <1>9 DEF MovesOn
  <2>3. CASE m.kind = "empty"
    <3>1. q = [told |-> d, over |-> "panicked"]
      BY <1>1, <1>2, <1>3, <1>7, <1>9, <2>1, <2>3 DEF HandlePacket
    <3>2. e = d
      BY <1>5, <1>6, <2>3
    <3>3. StopsAt(ms, n + 1, "empty")
      BY <1>1, <1>4, <2>1, <2>3 DEF StopsAt
    <3>. QED
      BY <1>4, <1>6, <2>2, <3>1, <3>2, <3>3 DEF ToldOf
  <2>4. CASE m.kind = "bye"
    <3>1. q = [told |-> d, over |-> "ended"]
      BY <1>1, <1>2, <1>3, <1>7, <1>9, <2>1, <2>4 DEF HandlePacket
    <3>2. e = d
      BY <1>5, <1>6, <2>4
    <3>3. StopsAt(ms, n + 1, "bye")
      BY <1>1, <1>4, <2>1, <2>4 DEF StopsAt
    <3>. QED
      BY <1>4, <1>6, <2>2, <3>1, <3>2, <3>3 DEF ToldOf
  <2>5. CASE m.kind = "ping" \/ m.kind = "data"
    <3>1. q = [told |-> e, over |-> "no"]
      <4>1. CASE m.kind = "ping"
        BY <1>1, <1>2, <1>3, <1>5, <1>6, <1>7, <1>9, <2>1, <4>1 DEF HandlePacket
      <4>2. CASE m.kind = "data"
        BY <1>1, <1>2, <1>3, <1>5, <1>6, <1>7, <1>9, <2>1, <4>2 DEF HandlePacket
      <4>. QED
        BY <2>5, <4>1, <4>2
    <3>2. \A j \in 1..(n + 1) : ms[j].kind \notin Stops
      BY <1>1, <1>4, <2>1, <2>5 DEF Stops
    <3>. QED
      BY <1>6, <2>2, <3>1, <3>2 DEF ToldOf
  <2>. QED
    BY <1>3, <2>3, <2>4, <2>5
<1>. QED
  BY <1>8, <1>9

\* ps is n packets, those of the messages behind the first a.
InTurn(ms, a, ps, n) == IsSequence(ps, n) /\ \A k \in 1..n : ps[k] = Whole(ms[a + k], a + k - 1)

LEMMA PacketsInTurn ==
    ASSUME NEW ms \in Seq(AllMessages), NEW a \in Nat, NEW b \in Nat, a <= b, b <= Len(ms),
           NEW ps, ps = WholesOf(LogOf(ms), a, b)
    PROVE  InTurn(ms, a, ps, b - a)
<1>1. PICK s : s = LogOf(ms)
  OBVIOUS
<1>2. ps = [k \in 1..(b - a) |-> WholeOf(s, a + k - 1)]
  BY <1>1 DEF WholesOf
<1>3. ASSUME NEW k \in 1..(b - a) PROVE ps[k] = Whole(ms[a + k], a + k - 1)
  <2>1. a + k - 1 \in 0..(Len(ms) - 1) /\ (a + k - 1) + 1 = a + k
    OBVIOUS
  <2>2. PICK i \in 0..(Len(ms) - 1) : i = a + k - 1
    BY <2>1
  <2>3. WholeOf(s, i) = Whole(ms[i + 1], i) /\ i + 1 = a + k
    BY <1>1, <2>1, <2>2, WholeOfLog
  <2>. QED
    BY <1>2, <2>2, <2>3
<1>4. IsSequence(ps, b - a)
  BY <1>2 DEF IsSequence
<1>. QED
  BY <1>3, <1>4 DEF InTurn

\* handle_packet, for every packet of get_all.
LEMMA HandleAll ==
    ASSUME NEW ms \in Seq(AllMessages), NEW a \in Nat, NEW b \in Nat, a <= b, b <= Len(ms),
           NEW p, ToldOf(ms, p, a),
           NEW ps, ps = WholesOf(LogOf(ms), a, b),
           NEW q, q = HandlePackets(p, ps)
    PROVE  ToldOf(ms, q, b) /\ MovesOn(p, q)
<1>0. PICK op : op = "handle"
  OBVIOUS
<1>1. PICK n \in Nat : n = b - a
  OBVIOUS
<1> DEFINE h(k) == FoldedTo(op, p, ps, k)
           T == {k \in Nat : k <= n => ToldOf(ms, h(k), a + k) /\ MovesOn(p, h(k))}
<1>2. /\ h(0) = p
      /\ \A k \in 1..n : h(k) = HandlePacket(h(k - 1), ps[k])
      /\ q = h(n)
  <2>1. IsSequence(ps, n)
    BY <1>1, PacketsInTurn DEF InTurn
  <2>2. FoldSteps(op, p, ps, n) /\ Folded(op, p, ps) = FoldedTo(op, p, ps, n)
    BY <2>1, FoldedSteps
  <2>. QED
    BY <1>0, <2>2, FoldHandle DEF FoldSteps
<1>3. \A k \in 1..n : ps[k] = Whole(ms[a + k], a + k - 1)
  <2>1. InTurn(ms, a, ps, n)
    BY <1>1, PacketsInTurn
  <2>. QED
    BY <2>1 DEF InTurn
<1>. HIDE DEF h
<1>4. 0 \in T
  <2>1. a + 0 = a
    OBVIOUS
  <2>2. MovesOn(p, p)
    BY DEF MovesOn
  <2>. QED
    BY <1>2, <2>1, <2>2
<1>5. ASSUME NEW k \in 0..(n - 1), k \in T PROVE k + 1 \in T
  <2>1. /\ k <= n /\ k + 1 \in 1..n /\ (k + 1) - 1 = k /\ k + 1 \in Nat
        /\ a + (k + 1) = (a + k) + 1 /\ a + (k + 1) - 1 = a + k
        /\ a + k \in 0..(Len(ms) - 1)
    BY <1>1
  <2>2. ToldOf(ms, h(k), a + k) /\ MovesOn(p, h(k))
    BY <1>5, <2>1
  <2>3. PICK i \in 0..(Len(ms) - 1) : i = a + k
    BY <2>1
  <2>4. PICK x, y : x = h(k) /\ y = h(k + 1)
    OBVIOUS
  <2>5. ps[k + 1] = Whole(ms[i + 1], i)
    BY <1>3, <2>1, <2>3
  <2>6. y = HandlePacket(x, Whole(ms[i + 1], i))
    BY <1>2, <2>1, <2>4, <2>5
  <2>7. ToldOf(ms, x, i)
    BY <2>2, <2>3, <2>4
  <2>8. ToldOf(ms, y, i + 1) /\ MovesOn(x, y)
    BY <2>6, <2>7, HandleNext
  <2>9. MovesOn(p, y)
    BY <2>2, <2>4, <2>8, MovesOnTransitive
  <2>. QED
    BY <2>1, <2>3, <2>4, <2>8, <2>9
<1>6. T \in SUBSET Nat
  OBVIOUS
<1>. HIDE DEF T
<1>7. n \in T
  <2>1. \A k \in 0..n : k \in T
    BY <1>4, <1>5, <1>6, UpTo
  <2>. QED
    BY <2>1
<1>. QED
  BY <1>1, <1>2, <1>7 DEF T

-----------------------------------------------------------------------------
(* receive_packet.                                                          *)

\* The two ends of the receiving session: its queue, and what its parent heard.
\* ms were sent, as the frames fs.
Ends(ms, fs, a) ==
    /\ a = [rq |-> a.rq, parent |-> a.parent]
    /\ Receiver(LogOf(ms), fs, a.rq, {})
    /\ ToldOf(ms, a.parent, a.rq.min)

\* One frame: the whole messages it completes, and those that waited for them.
LEMMA ReceiveOne ==
    ASSUME NEW ms \in Seq(AllMessages), NEW fs, Supplied(LogOf(ms), fs),
           NEW a, Ends(ms, fs, a), NEW f \in fs, NEW b, b = ReceivePacket(a, f)
    PROVE  /\ Ends(ms, fs, b) /\ MovesOn(a.parent, b.parent)
           /\ a.rq.min <= b.rq.min
<1>1. PICK s : s = LogOf(ms)
  OBVIOUS
<1>2. PICK r, none : r = a.rq /\ none = {}
  OBVIOUS
<1>3. PICK added : added = AddReceived(r, f)
  OBVIOUS
<1>4. PICK last : last = AfterGetAll(added)
  OBVIOUS
<1>5. Receiver(s, fs, r, none) /\ Supplied(s, fs)
  BY <1>1, <1>2 DEF Ends
<1>6. Receiver(s, fs, added, none \cup {f}) /\ added.min = r.min
  BY <1>3, <1>5, AddKeeps
<1>7. /\ Receiver(s, fs, last, none \cup {f}) /\ last.min \in Nat /\ r.min <= last.min
      /\ GetAll(added) = WholesOf(s, r.min, last.min)
  BY <1>4, <1>5, <1>6, GetAllKeeps
<1>8. Receiver(s, fs, last, {})
  BY <1>7 DEF Receiver
<1>9. r.min \in Nat
  BY <1>5 DEF Receiver, QueueHoldsWholes
<1>10. last.min <= Len(ms)
  <2>1. /\ last.min \in Nat /\ last.max \in Nat /\ last.min <= last.max /\ last.max <= s.count
    BY <1>8 DEF Receiver, QueueHoldsWholes
  <2>2. s.count = Len(ms) /\ Len(ms) \in Nat
    BY <1>1, LogFields
  <2>. QED
    BY <2>1, <2>2
<1>11. PICK ps : ps = GetAll(added)
  OBVIOUS
<1>12. PICK q : q = HandlePackets(a.parent, ps)
  OBVIOUS
<1>13. ToldOf(ms, q, last.min) /\ MovesOn(a.parent, q)
  <2>1. ToldOf(ms, a.parent, r.min)
    BY <1>2 DEF Ends
  <2>2. PICK p, lo, hi : p = a.parent /\ lo = r.min /\ hi = last.min
    OBVIOUS
  <2>3. ps = WholesOf(LogOf(ms), lo, hi)
    BY <1>1, <1>7, <1>11, <2>2
  <2>4. lo \in Nat /\ hi \in Nat /\ lo <= hi /\ hi <= Len(ms) /\ ToldOf(ms, p, lo)
    BY <1>7, <1>9, <1>10, <2>1, <2>2
  <2>5. q = HandlePackets(p, ps)
    BY <1>12, <2>2
  <2>6. ToldOf(ms, q, hi) /\ MovesOn(p, q)
    BY <2>3, <2>4, <2>5, HandleAll
  <2>. QED
    BY <2>2, <2>6
<1>14. b = [rq |-> last, parent |-> q]
  BY <1>2, <1>3, <1>4, <1>11, <1>12 DEF ReceivePacket, HandlePackets
<1>. QED
  BY <1>1, <1>2, <1>7, <1>8, <1>13, <1>14 DEF Ends

\* Every frame of a set.
LEMMA ReceiveAll ==
    ASSUME NEW ms \in Seq(AllMessages), NEW fs, Supplied(LogOf(ms), fs),
           NEW a, Ends(ms, fs, a), NEW s \in Seq(fs), NEW b, b = ReceivePackets(a, s)
    PROVE  /\ Ends(ms, fs, b) /\ MovesOn(a.parent, b.parent)
           /\ a.rq.min <= b.rq.min
<1>0. PICK op : op = "receive"
  OBVIOUS
<1>1. PICK n \in Nat : n = Len(s)
  OBVIOUS
<1> DEFINE h(k)  == FoldedTo(op, a, s, k)
           OK(c) == /\ Ends(ms, fs, c) /\ MovesOn(a.parent, c.parent)
                    /\ a.rq.min <= c.rq.min
           T == {k \in Nat : k <= n => OK(h(k))}
<1>2. /\ h(0) = a
      /\ \A k \in 1..n : h(k) = ReceivePacket(h(k - 1), s[k])
      /\ b = h(n)
  <2>1. IsSequence(s, n)
    BY <1>1 DEF IsSequence
  <2>2. FoldSteps(op, a, s, n) /\ Folded(op, a, s) = FoldedTo(op, a, s, n)
    BY <2>1, FoldedSteps
  <2>. QED
    BY <1>0, <2>2, FoldReceive DEF FoldSteps
<1>3. \A k \in 1..n : s[k] \in fs
  BY <1>1
<1>. HIDE DEF h
<1>4. \A c : Ends(ms, fs, c) => c.rq.min \in Nat
  BY DEF Ends, Receiver, QueueHoldsWholes
<1>5. 0 \in T
  <2>1. MovesOn(a.parent, a.parent)
    BY DEF MovesOn
  <2>2. a.rq.min <= a.rq.min
    BY <1>4
  <2>. QED
    BY <1>2, <2>1, <2>2
<1>6. ASSUME NEW k \in 0..(n - 1), k \in T PROVE k + 1 \in T
  <2>1. k <= n /\ k + 1 \in 1..n /\ (k + 1) - 1 = k /\ k + 1 \in Nat
    BY <1>1
  <2>2. PICK x, y : x = h(k) /\ y = h(k + 1)
    OBVIOUS
  <2>3. OK(x)
    BY <1>6, <2>1, <2>2
  <2>4. PICK f \in fs : f = s[k + 1]
    BY <1>3, <2>1
  <2>5. y = ReceivePacket(x, f)
    BY <1>2, <2>1, <2>2, <2>4
  <2>6. Ends(ms, fs, y) /\ MovesOn(x.parent, y.parent) /\ x.rq.min <= y.rq.min
    BY <2>3, <2>5, ReceiveOne
  <2>7. MovesOn(a.parent, y.parent)
    BY <2>3, <2>6, MovesOnTransitive
  <2>8. a.rq.min <= y.rq.min
    <3>1. a.rq.min \in Nat /\ x.rq.min \in Nat /\ y.rq.min \in Nat
      BY <1>4, <2>3, <2>6
    <3>. QED
      BY <2>3, <2>6, <3>1
  <2>9. OK(y)
    BY <2>6, <2>7, <2>8
  <2>. QED
    BY <2>1, <2>2, <2>9
<1>7. T \in SUBSET Nat
  OBVIOUS
<1>. HIDE DEF T
<1>8. n \in T
  <2>1. \A k \in 0..n : k \in T
    BY <1>5, <1>6, <1>7, UpTo
  <2>. QED
    BY <2>1
<1>. QED
  BY <1>1, <1>2, <1>8 DEF T

-----------------------------------------------------------------------------
(* A message more: its number, its frames and its split id.                 *)

\* The order indices of the split messages.
SplitNumbers(ms) == {n \in 0..(Len(ms) - 1) : ms[n + 1].parts > 1}

\* Every split message has an id of its own: 65536 in the code, given out in turn,
\* so that the next one would meet an id that the receiver has put into delete.
SplitIdsSuffice == Cardinality(SplitNumbers(sent)) <= SplitIds

LEMMA SplitIdsCount ==
    ASSUME NEW ms
    PROVE  SplitOf(LogOf(ms)) = SplitNumbers(ms)
  BY LogFields DEF SplitOf, SplitNumbers

\* What send_to makes of a message.
LEMMA FramesForFields ==
    ASSUME NEW m \in AllMessages, NEW n, NEW id, NEW s, s = FramesFor(m, n, id)
    PROVE  /\ IsSequence(s, m.parts) /\ s \in Seq(ToSet(s))
           /\ m.parts \in Nat \ {0} /\ s[1] \in ToSet(s)
           /\ InSequence(s) = ToSet(s)
           /\ IsFiniteSet(ToSet(s)) /\ Cardinality(ToSet(s)) <= m.parts
           /\ \A f \in ToSet(s) :
                 /\ f.order_index = n /\ f.split_id = id
                 /\ f.split <=> m.parts > 1
                 /\ f.split_count = m.parts
                 /\ f.split_index \in 0..(m.parts - 1)
                 /\ f.data = PieceOf(m, n, f.split_index)
<1>1. m.parts \in Nat \ {0}
  BY MessageFields
<1>2. PICK p \in Nat \ {0} : p = m.parts
  BY <1>1
<1>3. s = [k \in 1..p |->
              [split |-> p > 1, order_index |-> n, split_id |-> id,
               split_count |-> p, split_index |-> k - 1, data |-> Whole(m, n)[k]]]
  BY <1>2 DEF FramesFor
<1>4. \A k \in 1..p : /\ s[k].order_index = n /\ s[k].split_id = id
                      /\ s[k].split <=> p > 1
                      /\ s[k].split_count = p
                      /\ s[k].split_index = k - 1
                      /\ s[k].data = Whole(m, n)[k]
  <2>. TAKE k \in 1..p
  <2>1. s[k] = [split |-> p > 1, order_index |-> n, split_id |-> id,
                split_count |-> p, split_index |-> k - 1, data |-> Whole(m, n)[k]]
    BY <1>3, Zenon
  <2>2. s[k].split = (p > 1)
    BY <2>1
  <2>3. s[k].split <=> p > 1
    BY <2>2
  <2>4. /\ s[k].order_index = n /\ s[k].split_id = id /\ s[k].split_count = p
        /\ s[k].split_index = k - 1 /\ s[k].data = Whole(m, n)[k]
    BY <2>1
  <2>. QED
    BY <2>3, <2>4
<1>5. \A k \in 1..p : Whole(m, n)[k] = PieceOf(m, n, k - 1)
  BY <1>2 DEF Whole, PieceOf
<1>6. DOMAIN s = 1..p
  BY <1>3
<1>7. ToSet(s) = {s[k] : k \in 1..p}
  BY <1>6 DEF ToSet
<1>8. \A f \in ToSet(s) :
         /\ f.order_index = n /\ f.split_id = id
         /\ f.split <=> p > 1
         /\ f.split_count = p
         /\ f.split_index \in 0..(p - 1)
         /\ f.data = PieceOf(m, n, f.split_index)
  <2>. TAKE f \in ToSet(s)
  <2>1. PICK k \in 1..p : f = s[k]
    BY <1>7
  <2>2. k - 1 \in 0..(p - 1)
    OBVIOUS
  <2>3. f.split <=> p > 1
    BY <1>4, <2>1, Zenon
  <2>. QED
    BY <1>4, <1>5, <2>1, <2>2, <2>3
<1>9. IsSequence(s, p)
  BY <1>3 DEF IsSequence
<1>10. s \in Seq(ToSet(s)) /\ s[1] \in ToSet(s) /\ InSequence(s) = ToSet(s)
  <2>1. s \in [1..p -> ToSet(s)]
    BY <1>7, <1>9 DEF IsSequence
  <2>. QED
    BY <1>6, <1>7, <2>1 DEF InSequence
<1>11. IsFiniteSet(ToSet(s)) /\ Cardinality(ToSet(s)) <= p
  <2>1. s \in Surjection(1..p, ToSet(s))
    BY <1>7, <1>9 DEF IsSequence, Surjection
  <2>2. IsFiniteSet(1..p) /\ Cardinality(1..p) = p
    BY FS_Interval
  <2>3. IsFiniteSet(ToSet(s)) /\ Cardinality(ToSet(s)) <= Cardinality(1..p)
    BY <2>1, <2>2, FS_Surjection
  <2>. QED
    BY <2>2, <2>3
<1>. QED
  BY <1>1, <1>2, <1>8, <1>9, <1>10, <1>11

\* Message m is the next one, whoever sends it.
NewMessage(m) ==
    /\ sent' = Append(sent, m)
    /\ offered' = offered \cup ToSet(FramesFor(m, Len(sent), split_id))

LEMMA SendToIsNew ==
    ASSUME NEW m, SendTo(m) PROVE NewMessage(m) /\ split_id' = NextSplitId(m)
  BY DEF SendTo, NewMessage

LEMMA DisconnectIsNew ==
    ASSUME DisconnectSession PROVE NewMessage(Bye) /\ split_id' = NextSplitId(Bye)
<1>1. PICK s : s = FramesFor(Bye, Len(sent), split_id)
  OBVIOUS
<1>2. Bye.parts = 1
  BY DEF Bye
<1>3. ToSet(s) = {s[1]}
  <2>1. DOMAIN s = 1..1
    BY <1>1, <1>2 DEF FramesFor
  <2>2. ToSet(s) = {s[k] : k \in 1..1}
    BY <2>1 DEF ToSet
  <2>3. 1..1 = {1}
    OBVIOUS
  <2>. QED
    BY <2>2, <2>3
<1>. QED
  BY <1>1, <1>2, <1>3 DEF DisconnectSession, NewMessage, NextSplitId

\* Every message has a frame of its own, and users send up to MaxFrames.
Counted ==
    /\ sent \in Seq(AllMessages)
    /\ IsFiniteSet(offered)
    /\ \A f \in offered : f.order_index \in Nat /\ f.order_index < Len(sent)
    /\ Len(sent) <= Cardinality(offered)
    /\ ~ disconnected => Cardinality(offered) <= MaxFrames

LEMMA NewMessageCounts ==
    ASSUME Counted, NEW m \in AllMessages, NewMessage(m)
    PROVE  /\ sent' \in Seq(AllMessages)
           /\ Len(sent') = Len(sent) + 1 /\ sent'[Len(sent) + 1] = m
           /\ \A k \in 1..Len(sent) : sent'[k] = sent[k]
           /\ IsFiniteSet(offered')
           /\ \A f \in offered' : f.order_index \in Nat /\ f.order_index < Len(sent')
           /\ Len(sent') <= Cardinality(offered')
           /\ Cardinality(offered) \in Nat /\ Cardinality(offered') \in Nat
           /\ Cardinality(offered') <= Cardinality(offered) + m.parts
<1>1. PICK n \in Nat : n = Len(sent)
  BY DEF Counted
<1>2. PICK s : s = FramesFor(m, n, split_id)
  OBVIOUS
<1>3. sent \in Seq(AllMessages) /\ sent' = Append(sent, m) /\ offered' = offered \cup ToSet(s)
  BY <1>1, <1>2 DEF Counted, NewMessage
<1>4. /\ IsFiniteSet(ToSet(s)) /\ Cardinality(ToSet(s)) <= m.parts /\ s[1] \in ToSet(s)
      /\ m.parts \in Nat
      /\ \A f \in ToSet(s) : f.order_index = n
  BY <1>2, FramesForFields
<1>5. /\ sent' \in Seq(AllMessages) /\ Len(sent') = n + 1 /\ sent'[n + 1] = m
      /\ \A k \in 1..n : sent'[k] = sent[k]
  BY <1>1, <1>3
<1>6. IsFiniteSet(offered) /\ \A f \in offered : f.order_index \in Nat /\ f.order_index < n
  BY <1>1 DEF Counted
<1>7. \A f \in offered' : f.order_index \in Nat /\ f.order_index < n + 1
  BY <1>1, <1>3, <1>4, <1>6
<1>8. /\ IsFiniteSet(offered') /\ Cardinality(offered') \in Nat /\ Cardinality(offered) \in Nat
      /\ Cardinality(offered') <= Cardinality(offered) + m.parts
  <2>1. /\ Cardinality(offered) \in Nat /\ Cardinality(ToSet(s)) \in Nat
        /\ IsFiniteSet(offered \cap ToSet(s)) /\ Cardinality(offered \cap ToSet(s)) \in Nat
    BY <1>4, <1>6, FS_Subset, FS_CardinalityType
  <2>2. /\ IsFiniteSet(offered \cup ToSet(s))
        /\ Cardinality(offered \cup ToSet(s)) =
              Cardinality(offered) + Cardinality(ToSet(s)) - Cardinality(offered \cap ToSet(s))
    BY <1>4, <1>6, FS_Union
  <2>3. Cardinality(offered \cup ToSet(s)) \in Nat
    BY <2>2, FS_CardinalityType
  <2>. QED
    BY <1>3, <1>4, <2>1, <2>2, <2>3
<1>9. n + 1 <= Cardinality(offered')
  <2>1. s[1] \notin offered
    BY <1>4, <1>6
  <2>2. Cardinality(offered \cup {s[1]}) = Cardinality(offered) + 1
    BY <1>6, <2>1, FS_AddElement
  <2>3. offered \cup {s[1]} \in SUBSET offered'
    BY <1>3, <1>4
  <2>4. Cardinality(offered \cup {s[1]}) <= Cardinality(offered')
    BY <1>8, <2>3, FS_Subset
  <2>5. n <= Cardinality(offered)
    BY <1>1 DEF Counted
  <2>. QED
    BY <1>8, <2>2, <2>4, <2>5
<1>. QED
  BY <1>1, <1>5, <1>7, <1>8, <1>9

\* What was told stays true when more is sent.
LEMMA ToldOfMore ==
    ASSUME NEW ms, NEW ns, Len(ms) \in Nat, Len(ns) \in Nat, Len(ms) <= Len(ns),
           \A i \in 1..Len(ms) : ms[i] = ns[i],
           NEW n \in Nat, n <= Len(ms), NEW p, ToldOf(ms, p, n)
    PROVE  ToldOf(ns, p, n)
<1>1. \A k \in 0..n : DataTo(ms, k) = DataTo(ns, k)
  <2>. TAKE k \in 0..n
  <2>1. k \in Nat /\ k <= Len(ms) /\ k <= Len(ns) /\ \A i \in 1..k : ms[i] = ns[i]
    OBVIOUS
  <2>. QED
    BY <2>1, DataOfFirst
<1>2. \A k \in 1..n : ms[k] = ns[k]
  OBVIOUS
<1>3. \A k \in 1..n : \A kind : StopsAt(ms, k, kind) => StopsAt(ns, k, kind)
  <2>. TAKE k \in 1..n
  <2>1. k \in 1..n /\ \A j \in 1..(k - 1) : j \in 1..n
    OBVIOUS
  <2>. QED
    BY <1>2, <2>1 DEF StopsAt
<1>4. n \in 0..n /\ 1..n \subseteq 0..n
  OBVIOUS
<1>. QED
  BY <1>1, <1>2, <1>3, <1>4 DEF ToldOf

\* The message is one more for the receiver, which has none of its frames yet.
LEMMA NewMessageSupplies ==
    ASSUME Counted, NEW m \in AllMessages, NewMessage(m), split_id' = NextSplitId(m),
           UNCHANGED <<rq, parent>>, SplitIdsSuffice',
           Supplied(LogOf(sent), offered),
           IdsInTurn(LogOf(sent), offered, split_id, SplitIds),
           Ends(sent, offered, [rq |-> rq, parent |-> parent])
    PROVE  /\ Supplied(LogOf(sent'), offered')
           /\ IdsInTurn(LogOf(sent'), offered', split_id', SplitIds)
           /\ Ends(sent', offered', [rq |-> rq', parent |-> parent'])
<1>1. PICK n \in Nat : n = Len(sent)
  BY DEF Counted
<1>2. PICK frames : frames = FramesFor(m, n, split_id)
  OBVIOUS
<1>3. PICK s : s = LogOf(sent)
  OBVIOUS
<1>4. PICK t : t = LogOf(sent')
  OBVIOUS
<1>5. PICK new : new = ToSet(frames)
  OBVIOUS
<1>6. /\ Len(sent') = n + 1 /\ sent'[n + 1] = m
      /\ \A k \in 1..n : sent'[k] = sent[k]
  BY <1>1, NewMessageCounts
<1>7. offered' = offered \cup new
  BY <1>1, <1>2, <1>5 DEF NewMessage
<1>8. /\ s.count = n /\ t.count = n + 1
      /\ \A i \in 0..(n - 1) : t.parts[i] = s.parts[i] /\ t.piece[i] = s.piece[i]
      /\ t.parts[n] = m.parts
      /\ t.piece[n] = [p \in 0..(m.parts - 1) |-> PieceOf(m, n, p)]
  <2>1. s.count = n /\ t.count = n + 1
    BY <1>1, <1>3, <1>4, <1>6, LogFields
  <2>2. \A i \in 0..n : /\ t.parts[i] = sent'[i + 1].parts
                        /\ t.piece[i] = [p \in 0..(sent'[i + 1].parts - 1) |->
                                            PieceOf(sent'[i + 1], i, p)]
    BY <1>4, <1>6 DEF LogOf
  <2>3. \A i \in 0..(n - 1) : /\ s.parts[i] = sent[i + 1].parts
                              /\ s.piece[i] = [p \in 0..(sent[i + 1].parts - 1) |->
                                                  PieceOf(sent[i + 1], i, p)]
    BY <1>1, <1>3 DEF LogOf
  <2>4. \A i \in 0..(n - 1) : i \in 0..n /\ sent'[i + 1] = sent[i + 1]
    <3>. TAKE i \in 0..(n - 1)
    <3>1. i \in 0..n /\ i + 1 \in 1..n
      OBVIOUS
    <3>. QED
      BY <1>6, <3>1
  <2>5. n \in 0..n
    OBVIOUS
  <2>6. t.parts[n] = m.parts /\ t.piece[n] = [p \in 0..(m.parts - 1) |-> PieceOf(m, n, p)]
    BY <1>6, <2>2, <2>5
  <2>7. ASSUME NEW i \in 0..(n - 1)
        PROVE  t.parts[i] = s.parts[i] /\ t.piece[i] = s.piece[i]
    <3>1. PICK x : x = sent[i + 1] /\ x = sent'[i + 1]
      BY <2>4
    <3>2. t.parts[i] = x.parts /\ t.piece[i] = [p \in 0..(x.parts - 1) |-> PieceOf(x, i, p)]
      BY <2>2, <2>4, <3>1
    <3>3. s.parts[i] = x.parts /\ s.piece[i] = [p \in 0..(x.parts - 1) |-> PieceOf(x, i, p)]
      BY <2>3, <3>1
    <3>. QED
      BY <3>2, <3>3
  <2>. QED
    BY <2>1, <2>6, <2>7
<1>9. OneMessageMore(s, t, new, split_id)
  <2>1. /\ m.parts \in Nat \ {0}
        /\ \A f \in new :
              /\ f.order_index = n /\ f.split_id = split_id
              /\ f.split <=> m.parts > 1
              /\ f.split_count = m.parts
              /\ f.split_index \in 0..(m.parts - 1)
              /\ f.data = PieceOf(m, n, f.split_index)
    BY <1>2, <1>5, FramesForFields
  <2>2. n < n + 1 /\ n + 1 \in Nat
    OBVIOUS
  <2>3. \A f \in new : FrameOf(t, f)
    <3>. TAKE f \in new
    <3>1. f.split <=> t.parts[f.order_index] > 1
      BY <1>8, <2>1
    <3>2. f.data = t.piece[f.order_index][f.split_index]
      BY <1>8, <2>1
    <3>. QED
      BY <1>8, <2>1, <2>2, <3>1, <3>2 DEF FrameOf
  <2>. QED
    BY <1>8, <2>1, <2>3 DEF OneMessageMore
<1>10. Cardinality(SplitOf(t)) <= SplitIds
  BY <1>4, SplitIdsCount DEF SplitIdsSuffice
<1>11. SplitIds \in Nat \ {0}
  BY TransportAssumption
<1>12. split_id' = IF t.parts[s.count] > 1 THEN (split_id + 1) % SplitIds ELSE split_id
  BY <1>8 DEF NextSplitId
<1>13. Supplied(s, offered) /\ IdsInTurn(s, offered, split_id, SplitIds)
  BY <1>3
<1>14. /\ Supplied(t, offered \cup new)
       /\ IdsInTurn(t, offered \cup new, split_id', SplitIds)
  BY <1>9, <1>10, <1>11, <1>12, <1>13, SendSupplies
<1>15. PICK r, none : r = rq /\ none = {}
  OBVIOUS
<1>16. Receiver(s, offered, r, none)
  BY <1>3, <1>15 DEF Ends
<1>17. Receiver(t, offered \cup new, r, none)
  BY <1>9, <1>10, <1>11, <1>13, <1>16, SendKeepsReceiver
<1>18. ToldOf(sent', parent, r.min)
  <2>1. ToldOf(sent, parent, r.min)
    BY <1>15 DEF Ends
  <2>2. /\ r.min \in Nat /\ r.max \in Nat /\ r.min <= r.max /\ r.max <= s.count
    BY <1>16 DEF Receiver, QueueHoldsWholes
  <2>3. r.min \in Nat /\ r.min <= n
    BY <1>8, <2>2
  <2>4. PICK ms, ns : ms = sent /\ ns = sent'
    OBVIOUS
  <2>5. PICK p, k : p = parent /\ k = r.min
    OBVIOUS
  <2>6. /\ Len(ms) \in Nat /\ Len(ns) \in Nat /\ Len(ms) <= Len(ns)
        /\ \A i \in 1..Len(ms) : ms[i] = ns[i]
        /\ k \in Nat /\ k <= Len(ms) /\ ToldOf(ms, p, k)
    BY <1>1, <1>6, <2>1, <2>3, <2>4, <2>5
  <2>7. ToldOf(ns, p, k)
    BY <2>6, ToldOfMore
  <2>. QED
    BY <2>4, <2>5, <2>7
<1>. QED
  BY <1>4, <1>7, <1>14, <1>15, <1>17, <1>18 DEF Ends

-----------------------------------------------------------------------------
(* The inductive invariant of the session.                                  *)

\* No frame is under way that was not handed to add_frame.
Known ==
    /\ Held(pq) \subseteq offered
    /\ \A m \in net : m.kind = "data" => FramesOf(m.set) \subseteq offered

\* ToldExactly needs that the receiver's queue holds whole messages under their own
\* index (Ends); that the pool mixes no two messages, hence that ids stand for one
\* (Supplied) and are given out in turn (IdsInTurn); that only frames of the sender
\* arrive (Known), hence the invariant of the link; and that every frame is one the
\* link has a type for (Counted).
SInv ==
    /\ IInv
    /\ Counted
    /\ Known
    /\ Supplied(LogOf(sent), offered)
    /\ IdsInTurn(LogOf(sent), offered, split_id, SplitIds)
    /\ Ends(sent, offered, [rq |-> rq, parent |-> parent])

LEMMA InitSInv == SessionInit => SInv
<1>. SUFFICES ASSUME SessionInit PROVE SInv
  OBVIOUS
<1>1. /\ Init /\ sent = << >> /\ split_id = 0 /\ disconnected = FALSE /\ offered = {}
      /\ net = {} /\ pq = NewPacketQueue /\ rq = NewReceivedQueue
      /\ parent = [told |-> << >>, over |-> "no"]
  BY DEF SessionInit, Init, NewParent
<1>2. IInv
  BY <1>1, InitIInv
<1>3. sent \in Seq(AllMessages) /\ Len(sent) = 0
  BY <1>1
<1>4. Counted
  <2>1. IsFiniteSet(offered) /\ Cardinality(offered) = 0
    BY <1>1, FS_EmptySet
  <2>. QED
    BY <1>1, <1>3, <2>1, TransportAssumption DEF Counted
<1>5. Known
  <2>1. pq.set_queue = << >> /\ DOMAIN pq.queue = {}
    BY <1>1 DEF NewPacketQueue, EmptyMap
  <2>2. Held(pq) = {}
    BY <2>1 DEF Held
  <2>. QED
    BY <1>1, <2>2 DEF Known
<1>6. PICK s : s = LogOf(sent)
  OBVIOUS
<1>7. s.count = 0
  BY <1>3, <1>6, LogFields
<1>8. Supplied(s, offered)
  BY <1>1, <1>7 DEF Supplied, IdsStandForMessages
<1>9. IdsInTurn(s, offered, split_id, SplitIds)
  <2>1. SplitOf(s) = {}
    BY <1>7 DEF SplitOf
  <2>2. Cardinality(SplitOf(s)) = 0
    BY <2>1, FS_EmptySet
  <2>. QED
    BY <1>1, <2>2, TransportAssumption DEF IdsInTurn
<1>10. Receiver(s, offered, rq, {}) /\ rq.min = 0
  <2>1. s.count \in Nat /\ offered = {}
    BY <1>1, <1>7
  <2>2. PICK r : r = rq
    OBVIOUS
  <2>3. Receiver(s, {}, r, {}) /\ r.min = 0
    BY <1>1, <2>1, <2>2, NewReceiver
  <2>. QED
    BY <2>1, <2>2, <2>3
<1>11. ToldOf(sent, parent, rq.min)
  <2>1. DataTo(sent, 0) = << >>
    BY <1>3, DataSteps
  <2>2. parent.told = << >> /\ parent.over = "no" /\ parent = [told |-> parent.told, over |-> parent.over]
    BY <1>1
  <2>3. 1..0 = {}
    OBVIOUS
  <2>. QED
    BY <1>10, <2>1, <2>2, <2>3 DEF ToldOf
<1>. QED
  BY <1>2, <1>4, <1>5, <1>6, <1>8, <1>9, <1>10, <1>11 DEF SInv, Ends

\* A step of the link alone.
LEMMA LinkStepSInv ==
    ASSUME SInv, IInv', Known', UNCHANGED ends, UNCHANGED offered
    PROVE  SInv'
<1>1. /\ sent' = sent /\ split_id' = split_id /\ disconnected' = disconnected /\ rq' = rq
      /\ parent' = parent /\ offered' = offered
  BY DEF ends
<1>. QED
  BY <1>1 DEF SInv, Counted

\* A message more, of whoever sends it.
LEMMA NewMessageSInv ==
    ASSUME SInv, SplitIdsSuffice', IInv', Known',
           NEW m \in AllMessages, NewMessage(m), split_id' = NextSplitId(m),
           UNCHANGED <<rq, parent>>,
           ~ disconnected' => Cardinality(offered) + m.parts <= MaxFrames
    PROVE  SInv'
<1>1. Counted
  BY DEF SInv
<1>2. Counted'
  <2>1. /\ sent' \in Seq(AllMessages)
        /\ IsFiniteSet(offered')
        /\ \A f \in offered' : f.order_index \in Nat /\ f.order_index < Len(sent')
        /\ Len(sent') <= Cardinality(offered')
        /\ Cardinality(offered) \in Nat /\ Cardinality(offered') \in Nat
        /\ Cardinality(offered') <= Cardinality(offered) + m.parts
    BY <1>1, NewMessageCounts
  <2>2. m.parts \in Nat /\ MaxFrames \in Nat
    BY MessageFields, TransportAssumption
  <2>3. ~ disconnected' => Cardinality(offered') <= MaxFrames
    BY <2>1, <2>2
  <2>. QED
    BY <2>1, <2>3 DEF Counted
<1>3. /\ Supplied(LogOf(sent'), offered')
      /\ IdsInTurn(LogOf(sent'), offered', split_id', SplitIds)
      /\ Ends(sent', offered', [rq |-> rq', parent |-> parent'])
  BY <1>1, NewMessageSupplies DEF SInv
<1>. QED
  BY <1>2, <1>3 DEF SInv

\* The frames of the next message are of the link's type.
LEMMA FramesOfType ==
    ASSUME SInv, NEW m \in AllMessages, Len(sent) <= MaxFrames,
           NEW s, s = FramesFor(m, Len(sent), split_id)
    PROVE  s \in Seq(Frame) /\ ToSet(s) \subseteq Frame
<1>1. PICK n \in Nat : n = Len(sent) /\ n <= MaxFrames
  BY DEF SInv, Counted
<1>2. n \in 0..MaxFrames /\ split_id \in 0..(SplitIds - 1)
  BY <1>1, TransportAssumption DEF SInv, IdsInTurn
<1>3. ToSet(s) \subseteq Frame
  BY <1>1, <1>2, FramesAssumption DEF AllMessages
<1>4. s \in Seq(ToSet(s))
  BY FramesForFields
<1>. QED
  BY <1>3, <1>4

LEMMA RoomFor ==
    ASSUME SInv, NEW m \in AllMessages, MayAdd(m)
    PROVE  Len(sent) <= MaxFrames /\ Cardinality(offered) + m.parts <= MaxFrames
<1>1. /\ Len(sent) \in Nat /\ Cardinality(offered) \in Nat /\ Len(sent) <= Cardinality(offered)
  BY FS_CardinalityType DEF SInv, Counted
<1>2. m.parts \in Nat \ {0} /\ MaxFrames \in Nat
  BY MessageFields, TransportAssumption
<1>3. Cardinality(offered) + m.parts <= MaxFrames
  BY DEF MayAdd
<1>. QED
  BY <1>1, <1>2, <1>3

-----------------------------------------------------------------------------
(* One lemma per action.                                                    *)

LEMMA SendToSInv ==
    ASSUME SInv, SplitIdsSuffice', NEW m \in Messages, SendTo(m)
    PROVE  SInv'
<1>1. m \in AllMessages
  BY DEF AllMessages
<1>2. Len(sent) <= MaxFrames /\ Cardinality(offered) + m.parts <= MaxFrames
  BY <1>1, RoomFor DEF SendTo
<1>3. PICK frames : frames = FramesFor(m, Len(sent), split_id)
  OBVIOUS
<1>4. frames \in Seq(Frame) /\ ToSet(frames) \subseteq Frame /\ InSequence(frames) = ToSet(frames)
  BY <1>1, <1>2, <1>3, FramesOfType, FramesForFields
<1>5. /\ pq' = AddFrames(pq, frames) /\ offered' = offered \cup ToSet(frames)
      /\ UNCHANGED <<aq, net, losses, copies, arrived, seen, disconnected, rq, parent>>
  BY <1>3 DEF SendTo, AddFrames
<1>6. Grows(pq, pq') /\ Held(pq') = Held(pq) \cup ToSet(frames)
  <2>1. Sound(pq)
    BY DEF SInv, IInv
  <2>2. PICK q, r : q = pq /\ r = pq'
    OBVIOUS
  <2>3. Grows(q, r) /\ Held(r) = Held(q) \cup InSequence(frames)
    BY <1>4, <1>5, <2>1, <2>2, AddFramesHold
  <2>. QED
    BY <1>4, <2>2, <2>3
<1>7. IInv'
  <2>1. IInv /\ offered \subseteq Frame /\ losses \in Nat /\ copies \in Nat
        /\ offered \subseteq Held(pq) \cup arrived
    BY DEF SInv, IInv, TypeOK, NoFrameLost
  <2>2. offered' \subseteq Frame /\ offered' \subseteq Held(pq') \cup arrived
    BY <1>4, <1>5, <1>6, <2>1
  <2>3. net' \subseteq net /\ losses' \in Nat /\ copies' \in Nat
    BY <1>5, <2>1
  <2>. QED
    BY <1>5, <1>6, <2>1, <2>2, <2>3, GrowthKeepsIInv
<1>8. Known'
  BY <1>5, <1>6 DEF SInv, Known
<1>9. NewMessage(m) /\ split_id' = NextSplitId(m)
  BY SendToIsNew
<1>. QED
  BY <1>1, <1>2, <1>5, <1>7, <1>8, <1>9, NewMessageSInv

LEMMA DisconnectSessionSInv ==
    ASSUME SInv, SplitIdsSuffice', DisconnectSession, Len(sent) <= MaxFrames
    PROVE  SInv'
<1>1. Bye \in AllMessages /\ Bye.parts = 1
  BY DEF AllMessages, Bye
<1>2. PICK frames : frames = FramesFor(Bye, Len(sent), split_id)
  OBVIOUS
<1>3. frames \in Seq(Frame) /\ frames[1] \in Frame
  <2>1. ToSet(frames) \subseteq Frame /\ frames \in Seq(Frame) /\ frames[1] \in ToSet(frames)
    BY <1>1, <1>2, FramesOfType, FramesForFields
  <2>. QED
    BY <2>1
<1>4. PICK f \in Frame : f = frames[1]
  BY <1>3
<1>5. PICK added : added = AddFrame(pq, f)
  OBVIOUS
<1>6. PICK cutoff : \E expired \in Orders(Expirable(added, cutoff)) :
         /\ pq' = AfterGetPacket(added, expired)
         /\ net' = net \cup {Data(set) : set \in GetPacket(added, expired)}
  BY <1>2, <1>4, <1>5 DEF DisconnectSession
<1>7. PICK expired \in Orders(Expirable(added, cutoff)) :
         /\ pq' = AfterGetPacket(added, expired)
         /\ net' = net \cup {Data(set) : set \in GetPacket(added, expired)}
  BY <1>6
<1>8. /\ offered' = offered \cup {f} /\ disconnected' = TRUE
      /\ UNCHANGED <<aq, losses, copies, arrived, seen, rq, parent>>
  BY <1>2, <1>4 DEF DisconnectSession
<1>9. Grows(pq, added) /\ Held(added) = Held(pq) \cup {f}
  BY <1>5, AddFrameHolds DEF SInv, IInv
<1>10. IInv'
  <2>1. IInv /\ offered \subseteq Frame /\ offered \subseteq Held(pq) \cup arrived
    BY DEF SInv, IInv, TypeOK, NoFrameLost
  <2>2. offered' \subseteq Frame /\ offered' \subseteq Held(added) \cup arrived
    BY <1>8, <1>9, <2>1
  <2>. QED
    BY <1>7, <1>8, <1>9, <2>1, <2>2, FlushKeepsIInv
<1>11. Known'
  <2>1. /\ Held(pq') \subseteq Held(added)
        /\ \A set \in GetPacket(added, expired) : FramesOf(set) \subseteq Held(added)
    BY <1>7, <1>9, GetPacketHolds DEF Grows
  <2>2. Held(added) \subseteq offered'
    BY <1>8, <1>9 DEF SInv, Known
  <2>3. ASSUME NEW n \in net', n.kind = "data" PROVE FramesOf(n.set) \subseteq offered'
    <3>1. CASE n \in net
      BY <1>8, <2>3, <3>1 DEF SInv, Known
    <3>2. ASSUME NEW set \in GetPacket(added, expired), n = Data(set)
          PROVE  FramesOf(n.set) \subseteq offered'
      <4>1. n.set = set
        BY <3>2 DEF Data
      <4>. QED
        BY <2>1, <2>2, <4>1
    <3>. QED
      BY <1>7, <3>1, <3>2
  <2>. QED
    BY <2>1, <2>2, <2>3 DEF Known
<1>12. NewMessage(Bye) /\ split_id' = NextSplitId(Bye)
  BY DisconnectIsNew
<1>. QED
  BY <1>1, <1>8, <1>10, <1>11, <1>12, NewMessageSInv

LEMMA DisconnectSInv == ASSUME SInv, SplitIdsSuffice', Disconnect PROVE SInv'
<1>1. Len(sent) <= MaxFrames
  BY RoomFor DEF Disconnect, AllMessages
<1>. QED
  BY <1>1, DisconnectSessionSInv DEF Disconnect

LEMMA SenderSilentSInv == ASSUME SInv, SplitIdsSuffice', SenderSilent PROVE SInv'
<1>1. Len(sent) <= Cardinality(offered) /\ Cardinality(offered) <= MaxFrames
  BY DEF SInv, Counted, SenderSilent
<1>2. Len(sent) \in Nat /\ Cardinality(offered) \in Nat /\ MaxFrames \in Nat
  BY FS_CardinalityType, TransportAssumption DEF SInv, Counted
<1>3. Len(sent) <= MaxFrames
  BY <1>1, <1>2
<1>. QED
  BY <1>3, DisconnectSessionSInv DEF SenderSilent

\* The sender's session ends by itself.
LEMMA SenderEndsSInv == ASSUME SInv, SenderEnds PROVE SInv'
<1>1. UNCHANGED <<vars, sent, split_id, rq, parent>> /\ disconnected' = TRUE
  BY DEF SenderEnds
<1>2. IInv'
  BY <1>1, NextIInv DEF SInv
<1>3. Known'
  BY <1>1 DEF SInv, Known, vars
<1>4. Counted'
  BY <1>1 DEF SInv, Counted, vars
<1>. QED
  BY <1>1, <1>2, <1>3, <1>4 DEF SInv, vars

LEMMA SenderFlushesSInv == ASSUME SInv, SenderFlushes PROVE SInv'
<1>1. PICK cutoff : FlushQueue(cutoff)
  BY DEF SenderFlushes
<1>2. UNCHANGED ends /\ UNCHANGED offered
  BY <1>1 DEF SenderFlushes, FlushQueue
<1>3. IInv'
  BY <1>1, FlushQueueIInv DEF SInv
<1>4. PICK expired \in Orders(Expirable(pq, cutoff)) :
         /\ pq' = AfterGetPacket(pq, expired)
         /\ net' = net \cup {Data(set) : set \in GetPacket(pq, expired)}
  BY <1>1 DEF FlushQueue
<1>5. Known'
  <2>1. /\ Held(pq') \subseteq Held(pq)
        /\ \A set \in GetPacket(pq, expired) : FramesOf(set) \subseteq Held(pq)
    BY <1>4, GetPacketHolds DEF SInv, IInv
  <2>2. Held(pq) \subseteq offered'
    BY <1>2 DEF SInv, Known
  <2>3. ASSUME NEW n \in net', n.kind = "data" PROVE FramesOf(n.set) \subseteq offered'
    <3>1. CASE n \in net
      BY <1>2, <2>3, <3>1 DEF SInv, Known
    <3>2. ASSUME NEW set \in GetPacket(pq, expired), n = Data(set)
          PROVE  FramesOf(n.set) \subseteq offered'
      <4>1. n.set = set
        BY <3>2 DEF Data
      <4>. QED
        BY <2>1, <2>2, <4>1
    <3>. QED
      BY <1>4, <3>1, <3>2
  <2>. QED
    BY <2>1, <2>2, <2>3 DEF Known
<1>. QED
  BY <1>2, <1>3, <1>5, LinkStepSInv

\* Nothing new is under way.
LEMMA KnownShrinks ==
    ASSUME Known, Held(pq') \subseteq Held(pq), net' \subseteq net, UNCHANGED offered
    PROVE  Known'
  BY DEF Known

LEMMA SenderHearsSInv == ASSUME SInv, NEW m \in net, SenderHears(m) PROVE SInv'
<1>1. UNCHANGED ends /\ UNCHANGED offered
  BY DEF SenderHears, HandleAck, HandleNack
<1>2. IInv'
  BY HandleAckIInv, HandleNackIInv DEF SInv, SenderHears
<1>3. net' \subseteq net
  BY TakeShrinks DEF SInv, IInv, SenderHears, HandleAck, HandleNack
<1>4. Held(pq') \subseteq Held(pq)
  <2>0. Sound(pq) /\ m \in Datagram
    BY DEF SInv, IInv, TypeOK
  <2>1. CASE HandleAck(m)
    <3>1. PICK sequences : sequences = m.lo..m.hi
      OBVIOUS
    <3>2. m.lo \in Nat /\ m.hi \in Nat /\ sequences \subseteq seen
      BY <2>0, <2>1, <3>1, DatagramFields DEF SInv, IInv, DatagramOK, HandleAck
    <3>3. \A s \in sequences : s \in Nat /\ s < pq.send_min
      BY <3>1, <3>2 DEF SInv, IInv
    <3>4. pq' = Received(pq, sequences)
      BY <2>1, <3>1 DEF HandleAck
    <3>. QED
      BY <2>0, <3>3, <3>4, ReceivedHolds
  <2>2. CASE HandleNack(m)
    <3>1. m.number \in Nat /\ m.number < pq.send_min
      BY <2>0, <2>2, DatagramFields DEF SInv, IInv, DatagramOK, HandleNack
    <3>2. pq' = Resend(pq, m.number)
      BY <2>2 DEF HandleNack
    <3>. QED
      BY <2>0, <3>1, <3>2, ResendHolds
  <2>. QED
    BY <2>1, <2>2 DEF SenderHears
<1>5. Known'
  BY <1>1, <1>3, <1>4, KnownShrinks DEF SInv
<1>. QED
  BY <1>1, <1>2, <1>5, LinkStepSInv

LEMMA LoseSInv == ASSUME SInv, NEW m \in net, Lose(m), UNCHANGED ends PROVE SInv'
<1>1. IInv'
  BY LoseIInv DEF SInv
<1>2. net' \subseteq net /\ pq' = pq /\ offered' = offered
  BY DEF Lose
<1>3. Known'
  BY <1>2, KnownShrinks DEF SInv
<1>. QED
  BY <1>1, <1>2, <1>3, LinkStepSInv

LEMMA ReceiverFlushesSInv == ASSUME SInv, ReceiverFlushes PROVE SInv'
<1>1. FlushAck /\ UNCHANGED ends
  BY DEF ReceiverFlushes
<1>2. IInv'
  BY <1>1, FlushAckIInv DEF SInv
<1>3. Known'
  <2>1. /\ pq' = pq /\ offered' = offered
        /\ net' = net \cup {Ack(r[1], r[2]) : r \in AckRanges(aq)} \cup {Nack(s) : s \in Missing(aq)}
    BY <1>1 DEF FlushAck
  <2>2. ASSUME NEW n \in net', n.kind = "data" PROVE n \in net
    <3>1. \A lo, hi : Ack(lo, hi).kind # "data" /\ Nack(lo).kind # "data"
      BY DEF Ack, Nack
    <3>. QED
      BY <2>1, <2>2, <3>1
  <2>. QED
    BY <2>1, <2>2 DEF SInv, Known
<1>. QED
  BY <1>1, <1>2, <1>3, LinkStepSInv DEF FlushAck

\* A set that arrives moves the two ends on.
LEMMA SessionDatagramKeeps ==
    ASSUME SInv, NEW m \in net, SessionDatagram(m)
    PROVE  SInv' /\ MovesOn(parent, parent') /\ rq.min <= rq'.min
<1>1. HandleDatagram(m) /\ UNCHANGED <<sent, split_id, disconnected>>
  BY DEF SessionDatagram
<1>2. /\ pq' = pq /\ offered' = offered /\ net' \subseteq net /\ m.kind = "data"
  BY <1>1, TakeShrinks DEF HandleDatagram, SInv, IInv
<1>3. IInv'
  BY <1>1, HandleDatagramIInv DEF SInv
<1>4. Known'
  BY <1>2, KnownShrinks DEF SInv
<1>5. PICK s : s = m.set.datas
  OBVIOUS
<1>6. s \in Seq(offered)
  <2>1. m.set \in FrameSet
    BY <1>2, DatagramFields DEF SInv, IInv, TypeOK
  <2>2. s \in Seq(Frame)
    BY <1>5, <2>1 DEF FrameSet
  <2>3. \A i \in DOMAIN s : s[i] \in offered
    BY <1>2, <1>5 DEF SInv, Known, FramesOf
  <2>. QED
    BY <2>2, <2>3
<1>7. PICK a : a = [rq |-> rq, parent |-> parent]
  OBVIOUS
<1>8. PICK b : b = ReceivePackets(a, s)
  OBVIOUS
<1>9. rq' = b.rq /\ parent' = b.parent
  BY <1>5, <1>7, <1>8 DEF SessionDatagram, ReceivePackets
<1>10. /\ Ends(sent, offered, b) /\ MovesOn(a.parent, b.parent)
       /\ a.rq.min <= b.rq.min
  <2>1. PICK ms, fs : ms \in Seq(AllMessages) /\ ms = sent /\ fs = offered
    BY DEF SInv, Counted
  <2>2. Supplied(LogOf(ms), fs) /\ Ends(ms, fs, a) /\ s \in Seq(fs)
    BY <1>6, <1>7, <2>1 DEF SInv
  <2>3. Ends(ms, fs, b) /\ MovesOn(a.parent, b.parent) /\ a.rq.min <= b.rq.min
    BY <1>8, <2>1, <2>2, ReceiveAll
  <2>. QED
    BY <2>1, <2>3
<1>11. Ends(sent', offered', [rq |-> rq', parent |-> parent'])
  <2>1. b = [rq |-> rq', parent |-> parent']
    BY <1>9, <1>10 DEF Ends
  <2>2. sent' = sent
    BY <1>1
  <2>. QED
    BY <1>2, <1>10, <2>1, <2>2
<1>12. SInv'
  <2>1. /\ sent' = sent /\ split_id' = split_id /\ disconnected' = disconnected
        /\ offered' = offered
    BY <1>1, <1>2
  <2>. QED
    BY <1>3, <1>4, <1>11, <2>1 DEF SInv, Counted
<1>. QED
  BY <1>7, <1>9, <1>10, <1>12

LEMMA ReceiverLeavesSInv == ASSUME SInv, ReceiverLeaves PROVE SInv'
<1>1. /\ UNCHANGED <<vars, sent, split_id, disconnected, rq>> /\ parent.over = "no"
      /\ parent' = [parent EXCEPT !.over = "left"]
  BY DEF ReceiverLeaves
<1>2. /\ sent' = sent /\ split_id' = split_id /\ disconnected' = disconnected /\ rq' = rq
      /\ offered' = offered
  BY <1>1 DEF vars
<1>3. IInv'
  BY <1>1, NextIInv DEF SInv
<1>4. Known'
  BY <1>1 DEF SInv, Known, vars
<1>5. ToldOf(sent, parent, rq.min) /\ rq.min \in Nat
  BY DEF SInv, Ends, Receiver, QueueHoldsWholes
<1>6. /\ parent = [told |-> parent.told, over |-> parent.over]
      /\ parent.told = DataTo(sent, rq.min)
  BY <1>1, <1>5 DEF ToldOf
<1>7. parent' = [told |-> parent.told, over |-> "left"]
  BY <1>1, <1>6
<1>8. parent'.told = parent.told /\ parent'.over = "left"
  BY <1>7
<1>9. rq.min \in 0..rq.min
  BY <1>5
<1>10. ToldOf(sent, parent', rq.min)
  BY <1>6, <1>7, <1>8, <1>9 DEF ToldOf
<1>11. Ends(sent', offered', [rq |-> rq', parent |-> parent'])
  BY <1>2, <1>10 DEF SInv, Ends
<1>. QED
  BY <1>2, <1>3, <1>4, <1>11 DEF SInv, Counted

-----------------------------------------------------------------------------
LEMMA NextSInv == SInv /\ SplitIdsSuffice' /\ [SessionNext]_allvars => SInv'
<1> SUFFICES ASSUME SInv, SplitIdsSuffice', [SessionNext]_allvars PROVE SInv'
  OBVIOUS
<1>1. ASSUME NEW m \in Messages, SendTo(m) PROVE SInv'
  BY <1>1, SendToSInv
<1>2. CASE Disconnect
  BY <1>2, DisconnectSInv
<1>3. CASE SenderSilent
  BY <1>3, SenderSilentSInv
<1>4. CASE SenderFlushes
  BY <1>4, SenderFlushesSInv
<1>5. CASE ReceiverFlushes
  BY <1>5, ReceiverFlushesSInv
<1>6. CASE ReceiverLeaves
  BY <1>6, ReceiverLeavesSInv
<1>7. ASSUME NEW m \in net, Lose(m), UNCHANGED ends PROVE SInv'
  BY <1>7, LoseSInv
<1>8. ASSUME NEW m \in net, SenderHears(m) PROVE SInv'
  BY <1>8, SenderHearsSInv
<1>9. ASSUME NEW m \in net, SessionDatagram(m) PROVE SInv'
  BY <1>9, SessionDatagramKeeps
<1>10. CASE SenderEnds
  BY <1>10, SenderEndsSInv
<1>11. CASE UNCHANGED allvars
  <2>1. UNCHANGED vars /\ UNCHANGED ends
    BY <1>11 DEF allvars
  <2>2. IInv'
    BY <2>1, NextIInv DEF SInv
  <2>3. Known' /\ UNCHANGED offered
    BY <2>1 DEF SInv, Known, vars
  <2>. QED
    BY <2>1, <2>2, <2>3, LinkStepSInv
<1>. QED
  BY <1>1, <1>2, <1>3, <1>4, <1>5, <1>6, <1>7, <1>8, <1>9, <1>10, <1>11 DEF SessionNext

\* The inductive invariant of the session holds in every reachable state, for any
\* messages, any frames, any MTU and any network, while no split id comes round.
THEOREM SessionInvariance == SessionSpec /\ []SplitIdsSuffice => []SInv
<1>. QED
  BY InitSInv, NextSInv, PTL DEF SessionSpec

\* The receiver's parent is told the messages up to the first that ends the session,
\* each once, whole and in order (session.rs:155, receivedqueue.rs:61), whatever is lost,
\* repeated, late or renumbered.
THEOREM ToldExactlyWhatWasSent == SessionSpec /\ []SplitIdsSuffice => []ToldExactly
<1>1. SInv => ToldExactly
  <2>. SUFFICES ASSUME SInv PROVE ToldExactly
    OBVIOUS
  <2> DEFINE n == rq.min
             first(kinds) == {k \in 1..rq.min : /\ sent[k].kind \in kinds
                                                /\ \A j \in 1..(k - 1) : sent[j].kind \notin kinds}
             stops == first({"bye", "empty"})
  <2>1. /\ ToldOf(sent, parent, rq.min) /\ rq.min \in Nat /\ rq.min <= Len(sent)
        /\ sent \in Seq(AllMessages) /\ Len(sent) \in Nat
    <3>1. /\ rq.min \in Nat /\ rq.max \in Nat /\ rq.min <= rq.max /\ rq.max <= LogOf(sent).count
          /\ ToldOf(sent, parent, rq.min) /\ sent \in Seq(AllMessages)
      BY DEF SInv, Counted, Ends, Receiver, QueueHoldsWholes
    <3>2. LogOf(sent).count = Len(sent) /\ Len(sent) \in Nat
      BY <3>1, LogFields
    <3>. QED
      BY <3>1, <3>2
  <2>2. \A k \in 0..rq.min : Packets(k) = DataTo(sent, k)
    <3>. TAKE k \in 0..rq.min
    <3>1. k \in Nat /\ k <= Len(sent)
      BY <2>1
    <3>. QED
      BY <2>1, <3>1, PacketsAreData
  <2>3. rq.min \in 0..rq.min /\ 1..rq.min \subseteq 0..rq.min
    BY <2>1
  <2>4. CASE parent.over = "no"
    <3>1. parent.told = Packets(rq.min) /\ \A j \in 1..rq.min : sent[j].kind \notin Stops
      BY <2>1, <2>2, <2>3, <2>4 DEF ToldOf
    <3>2. stops = {}
      BY <3>1 DEF Stops
    <3>. QED
      BY <2>4, <3>1, <3>2 DEF ToldExactly
  <2>5. CASE parent.over = "left"
    <3>1. PICK k \in 0..rq.min : parent.told = DataTo(sent, k)
      BY <2>1, <2>5 DEF ToldOf
    <3>2. IsPrefix(parent.told, Packets(rq.min))
      <4>1. PICK ms \in Seq(AllMessages), j \in Nat, l \in Nat : ms = sent /\ j = k /\ l = rq.min
        BY <2>1
      <4>2. j <= l /\ l <= Len(ms)
        BY <2>1, <4>1
      <4>3. IsPrefix(DataTo(ms, j), DataTo(ms, l))
        BY <4>2, DataIsPrefix
      <4>. QED
        BY <2>2, <2>3, <3>1, <4>1, <4>3
    <3>. QED
      BY <2>5, <3>2 DEF ToldExactly
  <2>6. CASE parent.over = "ended"
    <3>1. PICK k \in 1..rq.min : StopsAt(sent, k, "bye") /\ parent.told = DataTo(sent, k)
      BY <2>1, <2>6 DEF ToldOf
    <3>2. k \in stops /\ sent[k].kind = "bye" /\ parent.told = Packets(k)
      BY <2>2, <2>3, <3>1 DEF StopsAt, Stops
    <3>. QED
      BY <2>6, <3>2 DEF ToldExactly
  <2>7. CASE parent.over = "panicked"
    <3>1. PICK k \in 1..rq.min : StopsAt(sent, k, "empty") /\ parent.told = DataTo(sent, k)
      BY <2>1, <2>7 DEF ToldOf
    <3>2. k \in stops /\ sent[k].kind = "empty" /\ parent.told = Packets(k)
      BY <2>2, <2>3, <3>1 DEF StopsAt, Stops
    <3>. QED
      BY <2>7, <3>2 DEF ToldExactly
  <2>. QED
    BY <2>1, <2>4, <2>5, <2>6, <2>7 DEF ToldOf
<1>. QED
  BY <1>1, SessionInvariance, PTL

-----------------------------------------------------------------------------
(* The session implements the ordered channel.                              *)

\* The channel's messages, before and after a step.
LEMMA SentIsData ==
    ASSUME Counted
    PROVE  Packets(Len(sent)) = DataTo(sent, Len(sent))
<1>1. Len(sent) \in Nat /\ Len(sent) <= Len(sent)
  BY DEF Counted
<1>. QED
  BY <1>1, PacketsAreData

LEMMA SentIsDataThen ==
    ASSUME Counted'
    PROVE  Packets(Len(sent))' = DataTo(sent', Len(sent'))
<1>1. [k \in 1..Len(sent') |-> Whole(sent'[k], k - 1)] = FirstOf(PacketsOf(sent'), Len(sent'))
  BY DEF FirstOf, PacketsOf
<1>2. Packets(Len(sent))' = AddDatas(<< >>, [k \in 1..Len(sent') |-> Whole(sent'[k], k - 1)])
  BY DEF Packets, AddDatas
<1>. QED
  BY <1>1, <1>2 DEF DataTo

LEMMA InitChannel == SessionInit => Channel!Init
<1>. SUFFICES ASSUME SessionInit PROVE Channel!Init
  OBVIOUS
<1>1. sent = << >> /\ parent.told = << >> /\ parent.over = "no"
  BY DEF SessionInit, NewParent
<1>2. Counted
  BY InitSInv DEF SInv
<1>3. Packets(Len(sent)) = << >>
  <2>1. Len(sent) = 0 /\ sent \in Seq(AllMessages)
    BY <1>1
  <2>2. DataTo(sent, 0) = << >>
    BY <2>1, DataSteps
  <2>. QED
    BY <1>2, <2>1, <2>2, SentIsData
<1>. QED
  BY <1>1, <1>3 DEF Channel!Init

\* Nobody is told of it: the channel stays as it is.
LEMMA OthersStutter ==
    ASSUME sent' = sent, parent' = parent
    PROVE  UNCHANGED Channel!vars
  BY DEF Channel!vars, Packets

\* A message more is one of the channel's, or none that the parent is told of.
LEMMA NewMessageIsSend ==
    ASSUME SInv, SInv', NEW m \in AllMessages, NewMessage(m), parent' = parent,
           m.kind = "data" => m \in Messages /\ Len(sent) <= MaxFrames
    PROVE  Channel!Send \/ UNCHANGED Channel!vars
<1>1. PICK n \in Nat : n = Len(sent)
  BY DEF SInv, Counted
<1>2. /\ sent' \in Seq(AllMessages) /\ sent \in Seq(AllMessages)
      /\ Len(sent') = n + 1 /\ sent'[n + 1] = m
      /\ \A k \in 1..n : sent'[k] = sent[k]
  BY <1>1, NewMessageCounts DEF SInv, Counted
<1>3. PICK ms \in Seq(AllMessages), ns \in Seq(AllMessages) : ms = sent /\ ns = sent'
  BY <1>2
<1>4. DataTo(ns, n) = DataTo(ms, n)
  <2>1. /\ n <= Len(ms) /\ n <= Len(ns) /\ Len(ms) \in Nat /\ Len(ns) \in Nat
        /\ \A i \in 1..n : ns[i] = ms[i]
    BY <1>1, <1>2, <1>3
  <2>. QED
    BY <2>1, DataOfFirst
<1>5. DataTo(ns, n + 1) = IF m.kind = "data" THEN Append(DataTo(ns, n), Whole(m, n)) ELSE DataTo(ns, n)
  <2>1. n + 1 \in 1..Len(ns) /\ (n + 1) - 1 = n /\ ns[n + 1] = m
    BY <1>2, <1>3
  <2>. QED
    BY <2>1, DataOfOneMore
<1>6. /\ Packets(Len(sent)) = DataTo(ms, n)
      /\ Packets(Len(sent))' = DataTo(ns, n + 1)
  BY <1>1, <1>2, <1>3, SentIsData, SentIsDataThen DEF SInv
<1>7. CASE m.kind = "data"
  <2>1. n \in 0..MaxFrames /\ m \in Messages
    BY <1>1, <1>7, TransportAssumption
  <2>2. Whole(m, n) \in {Whole(x, i) : x \in Messages, i \in 0..MaxFrames}
    BY <2>1
  <2>3. Packets(Len(sent))' = Append(Packets(Len(sent)), Whole(m, n))
    BY <1>4, <1>5, <1>6, <1>7
  <2>. QED
    BY <2>2, <2>3 DEF Channel!Send
<1>8. CASE m.kind # "data"
  <2>1. Packets(Len(sent))' = Packets(Len(sent))
    BY <1>4, <1>5, <1>6, <1>8
  <2>. QED
    BY <2>1 DEF Channel!vars
<1>. QED
  BY <1>7, <1>8

\* What is told more is next in line.
LEMMA ToldMoreIsNext ==
    ASSUME SInv, NEW j \in Nat, NEW k \in Nat, j <= k, k <= Len(sent),
           parent.told = DataTo(sent, j), parent'.told = DataTo(sent, k)
    PROVE  Channel!Delivered \/ parent'.told = parent.told
<1>1. PICK ms \in Seq(AllMessages), l \in Nat : ms = sent /\ l = Len(sent) /\ l <= Len(ms)
  BY DEF SInv, Counted
<1>2. PICK d, e, s : d = DataTo(ms, j) /\ e = DataTo(ms, k) /\ s = DataTo(ms, l)
  OBVIOUS
<1>3. k <= l
  BY <1>1
<1>4. /\ Len(d) \in Nat /\ Len(e) \in Nat /\ Len(d) <= Len(e)
      /\ d = SubSeq(e, 1, Len(d))
  BY <1>1, <1>2, <1>3, DataIsPrefix
<1>5. /\ Len(s) \in Nat /\ Len(e) <= Len(s)
      /\ e = SubSeq(s, 1, Len(e))
  BY <1>1, <1>2, <1>3, DataIsPrefix
<1>6. CASE Len(d) = Len(e)
  <2>1. e \in Seq(Wholes(ms))
    BY <1>1, <1>2, <1>3, DataIsSequence
  <2>2. SubSeq(e, 1, Len(e)) = e
    <3>1. PICK n \in Nat : n = Len(e)
      BY <1>4
    <3>2. e = [i \in 1..n |-> e[i]] /\ SubSeq(e, 1, n) = [i \in 1..n |-> e[i]]
      BY <2>1, <3>1
    <3>. QED
      BY <3>1, <3>2
  <2>3. d = e
    BY <1>4, <1>6, <2>2
  <2>. QED
    BY <1>1, <1>2, <2>3
<1>7. CASE Len(d) # Len(e)
  <2>1. Len(e) \in (Len(d) + 1)..Len(s)
    <3>1. PICK x \in Nat, y \in Nat, z \in Nat : x = Len(d) /\ y = Len(e) /\ z = Len(s)
      BY <1>4, <1>5
    <3>2. x <= y /\ y <= z /\ x # y
      BY <1>4, <1>5, <1>7, <3>1
    <3>3. y \in (x + 1)..z
      BY <3>2
    <3>. QED
      BY <3>1, <3>3
  <2>2. Packets(Len(sent)) = s /\ parent.told = d /\ parent'.told = e
    BY <1>1, <1>2, SentIsData DEF SInv
  <2>3. parent'.told = SubSeq(Packets(Len(sent)), 1, Len(e))
    BY <1>5, <2>2
  <2>4. Len(e) \in (Len(parent.told) + 1)..Len(Packets(Len(sent)))
    BY <2>1, <2>2
  <2>. QED
    BY <2>3, <2>4 DEF Channel!Delivered
<1>. QED
  BY <1>6, <1>7

\* A datagram delivers what is next, closes, or does nothing.
LEMMA SessionDatagramIsDeliver ==
    ASSUME SInv, NEW m \in net, SessionDatagram(m)
    PROVE  Channel!Deliver \/ Channel!Close \/ UNCHANGED Channel!vars
<1>1. SInv' /\ MovesOn(parent, parent') /\ rq.min <= rq'.min /\ sent' = sent
  BY SessionDatagramKeeps DEF SessionDatagram
<1>2. /\ ToldOf(sent, parent, rq.min) /\ rq.min \in Nat
      /\ ToldOf(sent, parent', rq'.min) /\ rq'.min \in Nat /\ rq'.min <= Len(sent)
      /\ Len(sent) \in Nat
  <2>1. ToldOf(sent, parent, rq.min) /\ rq.min \in Nat /\ Len(sent) \in Nat
    BY DEF SInv, Counted, Ends, Receiver, QueueHoldsWholes
  <2>2. Ends(sent', offered', [rq |-> rq', parent |-> parent'])
    BY <1>1 DEF SInv
  <2>3. /\ ToldOf(sent, parent', rq'.min) /\ rq'.min \in Nat /\ rq'.max \in Nat
        /\ rq'.min <= rq'.max /\ rq'.max <= LogOf(sent).count
    BY <1>1, <2>2 DEF Ends, Receiver, QueueHoldsWholes
  <2>. QED
    BY <2>1, <2>3, LogFields
<1>3. Packets(Len(sent))' = Packets(Len(sent))
  BY <1>1 DEF Packets
<1>4. CASE parent.over # "no"
  <2>1. parent' = parent
    BY <1>1, <1>4 DEF MovesOn
  <2>. QED
    BY <1>1, <2>1, OthersStutter
<1>5. CASE parent.over = "no"
  <2>1. parent.told = DataTo(sent, rq.min) /\ \A j \in 1..rq.min : sent[j].kind \notin Stops
    BY <1>2, <1>5 DEF ToldOf
  <2>2. CASE parent'.over = "no"
    <3>1. parent'.told = DataTo(sent, rq'.min)
      BY <1>2, <2>2 DEF ToldOf
    <3>2. PICK j \in Nat, k \in Nat : j = rq.min /\ k = rq'.min
      BY <1>2
    <3>3. Channel!Delivered \/ parent'.told = parent.told
      BY <1>1, <1>2, <2>1, <3>1, <3>2, ToldMoreIsNext
    <3>4. (parent.over # "no")' = (parent.over # "no")
      BY <1>5, <2>2
    <3>5. CASE Channel!Delivered
      BY <1>3, <1>5, <3>4, <3>5 DEF Channel!Deliver
    <3>6. CASE parent'.told = parent.told
      BY <1>3, <3>4, <3>6 DEF Channel!vars
    <3>. QED
      BY <3>3, <3>5, <3>6
  <2>3. CASE parent'.over # "no"
    <3>1. parent'.over \in {"ended", "panicked"}
      BY <1>1, <1>2, <1>5, <2>3 DEF ToldOf, MovesOn
    <3>2. PICK k \in 1..rq'.min : /\ sent[k].kind \in Stops
                                  /\ parent'.told = DataTo(sent, k)
      BY <1>2, <3>1 DEF ToldOf, StopsAt, Stops
    <3>3. k \in Nat /\ rq.min <= k /\ k <= Len(sent)
      BY <1>2, <2>1, <3>2
    <3>4. PICK j \in Nat, i \in Nat : j = rq.min /\ i = k
      BY <1>2, <3>3
    <3>5. Channel!Delivered \/ parent'.told = parent.told
      BY <2>1, <3>2, <3>3, <3>4, ToldMoreIsNext
    <3>. QED
      BY <1>3, <1>5, <2>3, <3>5 DEF Channel!Close
  <2>. QED
    BY <2>2, <2>3
<1>. QED
  BY <1>4, <1>5

\* A receiver that leaves by itself closes the channel.
LEMMA ReceiverLeavesIsClose ==
    ASSUME SInv, ReceiverLeaves
    PROVE  Channel!Close
<1>1. parent.over = "no" /\ parent' = [parent EXCEPT !.over = "left"] /\ sent' = sent
  BY DEF ReceiverLeaves
<1>2. parent = [told |-> parent.told, over |-> parent.over]
  BY DEF SInv, Ends, ToldOf
<1>3. parent' = [told |-> parent.told, over |-> "left"]
  BY <1>1, <1>2
<1>4. parent'.told = parent.told /\ parent'.over # "no"
  BY <1>3
<1>5. Packets(Len(sent))' = Packets(Len(sent))
  BY <1>1 DEF Packets
<1>. QED
  BY <1>1, <1>4, <1>5 DEF Channel!Close

LEMMA NextIsChannels ==
    SInv /\ SplitIdsSuffice' /\ [SessionNext]_allvars => [Channel!Next]_(Channel!vars)
<1>. SUFFICES ASSUME SInv, SplitIdsSuffice', [SessionNext]_allvars
              PROVE  [Channel!Next]_(Channel!vars)
  OBVIOUS
<1>1. SInv'
  BY NextSInv
<1>2. ASSUME NEW m \in Messages, SendTo(m) PROVE Channel!Send \/ UNCHANGED Channel!vars
  <2>1. m \in AllMessages /\ parent' = parent /\ NewMessage(m)
    BY <1>2, SendToIsNew DEF AllMessages, SendTo
  <2>2. Len(sent) <= MaxFrames
    BY <1>2, <2>1, RoomFor DEF SendTo
  <2>. QED
    BY <1>1, <2>1, <2>2, NewMessageIsSend
<1>3. ASSUME DisconnectSession PROVE Channel!Send \/ UNCHANGED Channel!vars
  <2>1. Bye \in AllMessages /\ Bye.kind = "bye" /\ parent' = parent /\ NewMessage(Bye)
    BY <1>3, DisconnectIsNew DEF AllMessages, Bye, DisconnectSession
  <2>. QED
    BY <1>1, <2>1, NewMessageIsSend
<1>4. CASE Disconnect \/ SenderSilent
  BY <1>3, <1>4 DEF Disconnect, SenderSilent, Channel!Next
<1>5. CASE SenderEnds \/ SenderFlushes \/ ReceiverFlushes \/ UNCHANGED allvars
  BY <1>5, OthersStutter DEF SenderEnds, SenderFlushes, ReceiverFlushes, ends, allvars
<1>6. CASE ReceiverLeaves
  BY <1>6, ReceiverLeavesIsClose DEF Channel!Next
<1>7. ASSUME NEW m \in net, (Lose(m) /\ UNCHANGED ends) \/ SenderHears(m)
      PROVE  UNCHANGED Channel!vars
  BY <1>7, OthersStutter DEF SenderHears, ends
<1>8. ASSUME NEW m \in net, SessionDatagram(m) PROVE [Channel!Next]_(Channel!vars)
  BY <1>8, SessionDatagramIsDeliver DEF Channel!Next
<1>. QED
  BY <1>2, <1>4, <1>5, <1>6, <1>7, <1>8 DEF SessionNext, Channel!Next

\* Every behaviour of a session is one of the ordered channel: the safety of the
\* refinement that ImplementsChannel checks, for any messages and any network.
THEOREM SessionIsOrderedChannel == SessionSpec /\ []SplitIdsSuffice => Channel!Spec
<1>. QED
  BY InitChannel, NextIsChannels, InitSInv, NextSInv, PTL DEF SessionSpec, Channel!Spec

-----------------------------------------------------------------------------
(* When the split ids suffice, and what else the session keeps.             *)

LEMMA CountedStep == Counted /\ [SessionNext]_allvars => Counted'
<1>. SUFFICES ASSUME Counted, [SessionNext]_allvars PROVE Counted'
  OBVIOUS
<1>1. /\ Len(sent) \in Nat /\ Cardinality(offered) \in Nat /\ MaxFrames \in Nat
      /\ Len(sent) <= Cardinality(offered)
  BY FS_CardinalityType, TransportAssumption DEF Counted
<1>2. ASSUME NEW m \in AllMessages, NewMessage(m),
             ~ disconnected' => Cardinality(offered) + m.parts <= MaxFrames
      PROVE  Counted'
  <2>1. m.parts \in Nat
    BY MessageFields
  <2>. QED
    BY <1>1, <1>2, <2>1, NewMessageCounts DEF Counted
<1>3. ASSUME NEW m \in Messages, SendTo(m) PROVE Counted'
  BY <1>2, <1>3, SendToIsNew DEF AllMessages, SendTo, MayAdd
<1>4. ASSUME DisconnectSession PROVE Counted'
  <2>1. Bye \in AllMessages /\ disconnected' = TRUE
    BY <1>4 DEF AllMessages, DisconnectSession
  <2>. QED
    BY <1>2, <1>4, <2>1, DisconnectIsNew
<1>5. ASSUME UNCHANGED <<sent, disconnected, offered>> PROVE Counted'
  BY <1>5 DEF Counted
<1>6. CASE SenderFlushes \/ ReceiverFlushes \/ ReceiverLeaves \/ UNCHANGED allvars
  BY <1>5, <1>6 DEF SenderFlushes, FlushQueue, ReceiverFlushes, FlushAck, ReceiverLeaves,
                    ends, vars, allvars
<1>7. ASSUME NEW m \in net, (Lose(m) /\ UNCHANGED ends) \/ SenderHears(m) \/ SessionDatagram(m)
      PROVE  Counted'
  BY <1>5, <1>7 DEF SenderHears, HandleAck, HandleNack, Lose, SessionDatagram, HandleDatagram, ends
<1>8. CASE SenderEnds
  BY <1>8 DEF SenderEnds, Counted, vars
<1>. QED
  BY <1>3, <1>4, <1>6, <1>7, <1>8 DEF SessionNext, Disconnect, SenderSilent

LEMMA SplitAreFew ==
    ASSUME NEW ms \in Seq(AllMessages)
    PROVE  /\ IsFiniteSet(SplitNumbers(ms)) /\ Cardinality(SplitNumbers(ms)) \in Nat
           /\ Cardinality(SplitNumbers(ms)) <= Len(ms)
<1>1. PICK n \in Nat : n = Len(ms)
  OBVIOUS
<1>2. IsFiniteSet(0..(n - 1)) /\ Cardinality(0..(n - 1)) = n
  BY FS_Interval
<1>3. SplitNumbers(ms) \in SUBSET (0..(n - 1))
  BY <1>1 DEF SplitNumbers
<1>. QED
  BY <1>1, <1>2, <1>3, FS_Subset, FS_CardinalityType

\* As every message has a frame of its own, few are split.
FewSplit == Counted /\ Cardinality(SplitNumbers(sent)) <= MaxFrames

LEMMA FewSplitStep == FewSplit /\ [SessionNext]_allvars => FewSplit'
<1>. SUFFICES ASSUME FewSplit, [SessionNext]_allvars PROVE FewSplit'
  OBVIOUS
<1>1. Counted /\ Counted'
  BY CountedStep DEF FewSplit
<1>2. /\ Len(sent) \in Nat /\ Cardinality(offered) \in Nat /\ MaxFrames \in Nat
      /\ Len(sent) <= Cardinality(offered)
  BY <1>1, FS_CardinalityType, TransportAssumption DEF Counted
<1>3. ASSUME NEW m \in Messages, SendTo(m) PROVE Cardinality(SplitNumbers(sent')) <= MaxFrames
  <2>1. m \in AllMessages /\ m.parts \in Nat \ {0}
    BY MessageFields DEF AllMessages
  <2>2. Len(sent') = Len(sent) + 1 /\ sent' \in Seq(AllMessages)
    BY <1>1, <1>3, <2>1, SendToIsNew, NewMessageCounts
  <2>3. Cardinality(offered) + m.parts <= MaxFrames
    BY <1>3 DEF SendTo, MayAdd
  <2>4. Len(sent') <= MaxFrames
    BY <1>2, <2>1, <2>2, <2>3
  <2>5. PICK ms \in Seq(AllMessages) : ms = sent'
    BY <2>2
  <2>6. Cardinality(SplitNumbers(ms)) <= Len(ms) /\ Cardinality(SplitNumbers(ms)) \in Nat /\ Len(ms) \in Nat
    BY SplitAreFew
  <2>. QED
    BY <1>2, <2>4, <2>5, <2>6
<1>4. ASSUME DisconnectSession PROVE SplitNumbers(sent') = SplitNumbers(sent)
  <2>1. sent' = Append(sent, Bye) /\ Bye.parts = 1
    BY <1>4 DEF DisconnectSession, Bye
  <2>2. PICK ms \in Seq(AllMessages), n \in Nat : ms = sent /\ n = Len(ms)
    BY <1>1 DEF Counted
  <2>3. PICK ns : ns = Append(ms, Bye)
    OBVIOUS
  <2>4. Len(ns) = n + 1 /\ ns[n + 1].parts = 1 /\ \A i \in 1..n : ns[i] = ms[i]
    BY <2>1, <2>2, <2>3
  <2>5. ~ (1 > 1) /\ 0..((n + 1) - 1) = 0..(n - 1) \cup {n}
    OBVIOUS
  <2>6. \A i \in 0..(n - 1) : ns[i + 1] = ms[i + 1]
    <3>. TAKE i \in 0..(n - 1)
    <3>1. i + 1 \in 1..n
      OBVIOUS
    <3>. QED
      BY <2>4, <3>1
  <2>7. SplitNumbers(ns) = SplitNumbers(ms)
    BY <2>2, <2>4, <2>5, <2>6 DEF SplitNumbers
  <2>. QED
    BY <2>1, <2>2, <2>3, <2>7
<1>5. CASE sent' = sent
  BY <1>1, <1>5 DEF FewSplit
<1>6. CASE SenderEnds \/ SenderFlushes \/ ReceiverFlushes \/ ReceiverLeaves \/ UNCHANGED allvars
  BY <1>5, <1>6 DEF SenderEnds, SenderFlushes, ReceiverFlushes, ReceiverLeaves, ends, allvars
<1>7. ASSUME NEW m \in net, (Lose(m) /\ UNCHANGED ends) \/ SenderHears(m) \/ SessionDatagram(m)
      PROVE  FewSplit'
  BY <1>5, <1>7 DEF SenderHears, SessionDatagram, ends
<1>. QED
  BY <1>1, <1>3, <1>4, <1>6, <1>7 DEF FewSplit, SessionNext, Disconnect, SenderSilent

\* In a session of no more frames than there are split ids the condition holds: the
\* theorems above are about every one of its behaviours.
THEOREM ShortSessionsSuffice == MaxFrames <= SplitIds => (SessionSpec => []SplitIdsSuffice)
<1>. SUFFICES ASSUME MaxFrames <= SplitIds PROVE SessionSpec => []SplitIdsSuffice
  OBVIOUS
<1>1. SessionInit => FewSplit
  <2>. SUFFICES ASSUME SessionInit PROVE FewSplit
    OBVIOUS
  <2>1. Counted
    BY InitSInv DEF SInv
  <2>2. sent = << >>
    BY DEF SessionInit
  <2>3. PICK ms \in Seq(AllMessages) : ms = sent /\ Len(ms) = 0
    <3>1. sent \in Seq(AllMessages) /\ Len(sent) = 0
      BY <2>2
    <3>. QED
      BY <3>1
  <2>4. Cardinality(SplitNumbers(ms)) \in Nat /\ Cardinality(SplitNumbers(ms)) <= 0
    BY <2>3, SplitAreFew
  <2>. QED
    BY <2>1, <2>3, <2>4, TransportAssumption DEF FewSplit
<1>2. FewSplit => SplitIdsSuffice
  <2>. SUFFICES ASSUME FewSplit PROVE SplitIdsSuffice
    OBVIOUS
  <2>1. PICK ms \in Seq(AllMessages) : ms = sent
    BY DEF FewSplit, Counted
  <2>2. Cardinality(SplitNumbers(ms)) \in Nat /\ Cardinality(SplitNumbers(ms)) <= MaxFrames
    BY <2>1, SplitAreFew DEF FewSplit
  <2>3. Cardinality(SplitNumbers(ms)) <= SplitIds
    BY <2>2, TransportAssumption
  <2>. QED
    BY <2>1, <2>3 DEF SplitIdsSuffice
<1>. QED
  BY <1>1, <1>2, FewSplitStep, PTL DEF SessionSpec

\* What LinkProofs shows of the link stays true inside a session, with its bye, the
\* flush of its end and the frames of split messages: no frame is dropped, a number
\* names one set, an ACK covers what arrived, and no unwrap of get_packet fails.
THEOREM LinkInSession ==
    SessionSpec /\ []SplitIdsSuffice =>
        [](/\ NoFrameLost /\ OneSetPerNumber /\ AckOnlySeen
           /\ QueueMatchesTimers /\ WindowComplete)
<1>1. SInv => /\ NoFrameLost /\ OneSetPerNumber /\ AckOnlySeen
              /\ QueueMatchesTimers /\ WindowComplete
  <2>. SUFFICES ASSUME SInv PROVE /\ NoFrameLost /\ OneSetPerNumber /\ AckOnlySeen
                                  /\ QueueMatchesTimers /\ WindowComplete
    OBVIOUS
  <2>1. IInv
    BY DEF SInv
  <2>2. NoFrameLost /\ AckOnlySeen
    BY <2>1 DEF IInv, DatagramOK, AckOnlySeen
  <2>3. QueueMatchesTimers /\ WindowComplete
    BY <2>1 DEF IInv, Sound, QueueMatchesTimers, WindowComplete
  <2>4. OneSetPerNumber
    BY <2>1 DEF IInv, Sound, DatagramOK, OneSetInFlight, OneSetPerNumber
  <2>. QED
    BY <2>2, <2>3, <2>4
<1>. QED
  BY <1>1, SessionInvariance, PTL
=============================================================================
