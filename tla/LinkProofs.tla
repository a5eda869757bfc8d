---------------------------- MODULE LinkProofs ----------------------------
(***************************************************************************)
(* The safety of Link for any frames, any MTU and any bounds: the unwraps  *)
(* of the packet queue never fail and no frame is lost.                    *)
(***************************************************************************)
EXTENDS Link, DataProofs

-----------------------------------------------------------------------------
(* What the methods of PacketQueue preserve, whatever the frames and the    *)
(* MTU.                                                                     *)

\* The invariant of the struct: both maps have the same keys, all below max;
\* a set carries its key; whatever was never sent is still there.
Sound(q) ==
    /\ PacketQueueType(q)
    /\ DOMAIN q.queue = DOMAIN q.time_passed
    /\ \A s \in DOMAIN q.queue : s < q.max /\ q.queue[s].sequence_number = s
    /\ \A s \in DOMAIN q.queue : q.time_passed[s] => s < q.send_min
    /\ q.send_min <= q.max
    /\ q.send_min..(q.max - 1) \subseteq DOMAIN q.queue

\* PacketQueueType, field by field.
TypedFields(q) ==
    /\ q.queue \in [DOMAIN q.queue -> FrameSet]
    /\ q.time_passed \in [DOMAIN q.time_passed -> BOOLEAN]
    /\ DOMAIN q.queue \subseteq Nat
    /\ DOMAIN q.time_passed \subseteq Nat
    /\ q.max \in Nat
    /\ q.send_min \in Nat
    /\ q.set_size \in Nat
    /\ q.set_queue \in Seq(Frame)

LEMMA FieldsOfType ==
    ASSUME NEW q, PacketQueueType(q)
    PROVE  TypedFields(q)
<1> DEFINE Q == [DOMAIN q.queue -> FrameSet]
           T == [DOMAIN q.time_passed -> BOOLEAN]
<1>1. /\ q \in [queue : Q, time_passed : T, max : Nat, send_min : Nat, set_size : Nat,
                set_queue : Seq(Frame)]
      /\ DOMAIN q.queue \subseteq Nat
      /\ DOMAIN q.time_passed \subseteq Nat
  BY DEF PacketQueueType
<1>2. /\ q.queue \in Q
      /\ q.time_passed \in T
      /\ q.max \in Nat
      /\ q.send_min \in Nat
      /\ q.set_size \in Nat
      /\ q.set_queue \in Seq(Frame)
  <2>. HIDE DEF Q, T
  <2>. QED
    BY <1>1
<1>. QED
  BY <1>1, <1>2 DEF TypedFields

\* A step that changes only the two maps and max.
WithMaps(q, a, b, c) == [q EXCEPT !.queue = a, !.time_passed = b, !.max = c]

LEMMA NewMaps ==
    ASSUME NEW q, PacketQueueType(q),
           NEW a, a \in [DOMAIN a -> FrameSet], DOMAIN a \subseteq Nat,
           NEW b, b \in [DOMAIN b -> BOOLEAN], DOMAIN b \subseteq Nat,
           NEW c \in Nat,
           NEW r, r = WithMaps(q, a, b, c)
    PROVE  /\ PacketQueueType(r)
           /\ r.queue = a
           /\ r.time_passed = b
           /\ r.max = c
           /\ r.send_min = q.send_min
           /\ r.set_size = q.set_size
           /\ r.set_queue = q.set_queue
<1> DEFINE Q  == [DOMAIN q.queue -> FrameSet]
           T  == [DOMAIN q.time_passed -> BOOLEAN]
           Qa == [DOMAIN a -> FrameSet]
           Tb == [DOMAIN b -> BOOLEAN]
<1>1. q \in [queue : Q, time_passed : T, max : Nat, send_min : Nat, set_size : Nat,
             set_queue : Seq(Frame)]
  BY DEF PacketQueueType
<1>2. a \in Qa /\ b \in Tb
  OBVIOUS
<1>3. /\ r.queue = a
      /\ r.time_passed = b
      /\ r.max = c
      /\ r.send_min = q.send_min
      /\ r.set_size = q.set_size
      /\ r.set_queue = q.set_queue
  <2>. HIDE DEF Q, T
  <2>. QED
    BY <1>1 DEF WithMaps
<1>4. r \in [queue : Qa, time_passed : Tb, max : Nat, send_min : Nat, set_size : Nat,
             set_queue : Seq(Frame)]
  <2>. HIDE DEF Q, T, Qa, Tb
  <2>. QED
    BY <1>1, <1>2 DEF WithMaps
<1>5. PacketQueueType(r)
  BY <1>3, <1>4 DEF PacketQueueType
<1>. QED
  BY <1>3, <1>5

\* A step that changes only the frames that wait to be packed.
WithWaiting(q, z, w) == [q EXCEPT !.set_size = z, !.set_queue = w]

LEMMA NewWaiting ==
    ASSUME NEW q, Sound(q), NEW z \in Nat, NEW w \in Seq(Frame),
           NEW r, r = WithWaiting(q, z, w)
    PROVE  /\ Sound(r)
           /\ r.queue = q.queue
           /\ r.max = q.max
           /\ r.send_min = q.send_min
           /\ r.set_size = z
           /\ r.set_queue = w
<1> DEFINE Q == [DOMAIN q.queue -> FrameSet]
           T == [DOMAIN q.time_passed -> BOOLEAN]
<1>1. q \in [queue : Q, time_passed : T, max : Nat, send_min : Nat, set_size : Nat,
             set_queue : Seq(Frame)]
  BY DEF Sound, PacketQueueType
<1>2. /\ r \in [queue : Q, time_passed : T, max : Nat, send_min : Nat, set_size : Nat,
                set_queue : Seq(Frame)]
      /\ r.queue = q.queue
      /\ r.time_passed = q.time_passed
      /\ r.max = q.max
      /\ r.send_min = q.send_min
      /\ r.set_size = z
      /\ r.set_queue = w
  <2>. HIDE DEF Q, T
  <2>. QED
    BY <1>1 DEF WithWaiting
<1>3. PacketQueueType(r)
  BY <1>2 DEF Sound, PacketQueueType
<1>. QED
  BY <1>2, <1>3 DEF Sound

\* add_frame and tick give a set the number max.  The queue is sound after it,
\* send_min and every other set are as before.
LEMMA AddSetSound ==
    ASSUME NEW q, Sound(q), NEW set \in FrameSet, set.sequence_number = q.max,
           NEW r, r = AddSet(q, set)
    PROVE  /\ Sound(r)
           /\ r.send_min = q.send_min
           /\ r.max = q.max + 1
           /\ r.set_size = q.set_size
           /\ r.set_queue = q.set_queue
           /\ DOMAIN r.queue = DOMAIN q.queue \cup {q.max}
           /\ r.queue[q.max] = set
           /\ \A s \in DOMAIN q.queue : r.queue[s] = q.queue[s]
<1>1. /\ PacketQueueType(q)
      /\ TypedFields(q)
  BY FieldsOfType DEF Sound
<1>2. /\ q.max \in Nat
      /\ q.max \notin DOMAIN q.queue
      /\ q.max \notin DOMAIN q.time_passed
  BY <1>1 DEF Sound, TypedFields
<1>3. PICK a : a = Put(q.queue, q.max, set)
  OBVIOUS
<1>4. PICK b : b = Put(q.time_passed, q.max, FALSE)
  OBVIOUS
<1>5. /\ a \in [DOMAIN a -> FrameSet]
      /\ DOMAIN a = DOMAIN q.queue \cup {q.max}
      /\ a[q.max] = set
      /\ \A s \in DOMAIN q.queue : a[s] = q.queue[s]
      /\ DOMAIN a \subseteq Nat
  BY <1>1, <1>2, <1>3 DEF TypedFields, Put
<1>6. /\ b \in [DOMAIN b -> BOOLEAN]
      /\ DOMAIN b = DOMAIN q.time_passed \cup {q.max}
      /\ b[q.max] = FALSE
      /\ \A s \in DOMAIN q.time_passed : b[s] = q.time_passed[s]
      /\ DOMAIN b \subseteq Nat
  BY <1>1, <1>2, <1>4 DEF TypedFields, Put
<1>7. PICK c \in Nat : c = q.max + 1
  BY <1>2
<1>8. r = WithMaps(q, a, b, c)
  BY <1>3, <1>4, <1>7 DEF AddSet, WithMaps
<1>9. /\ PacketQueueType(r)
      /\ r.queue = a
      /\ r.time_passed = b
      /\ r.max = c
      /\ r.send_min = q.send_min
      /\ r.set_size = q.set_size
      /\ r.set_queue = q.set_queue
  BY <1>1, <1>5, <1>6, <1>7, <1>8, NewMaps
<1>10. \A s \in DOMAIN r.queue : r.queue[s].sequence_number = s
  BY <1>5, <1>9 DEF Sound
<1>11. /\ DOMAIN r.queue = DOMAIN r.time_passed
       /\ \A s \in DOMAIN r.queue : s < r.max
       /\ \A s \in DOMAIN r.queue : r.time_passed[s] => s < r.send_min
       /\ r.send_min <= r.max
       /\ r.send_min..(r.max - 1) \subseteq DOMAIN r.queue
  BY <1>1, <1>2, <1>5, <1>6, <1>7, <1>9 DEF Sound, TypedFields
<1>12. Sound(r)
  BY <1>9, <1>10, <1>11 DEF Sound
<1>. QED
  BY <1>5, <1>7, <1>9, <1>12

-----------------------------------------------------------------------------
\* What add_frame, tick, readd and resend have in common: the queue stays
\* sound, nothing is given to the socket, old numbers keep their sets or lose
\* them, other numbers are new, and no frame is dropped.
Grows(q, r) ==
    /\ Sound(r)
    /\ r.send_min = q.send_min
    /\ q.max <= r.max
    /\ \A s \in DOMAIN r.queue : \/ s \in DOMAIN q.queue /\ r.queue[s] = q.queue[s]
                                 \/ q.max <= s
    /\ Held(q) \subseteq Held(r)

\* The frames that share a set, for every set in the queue.
Datas(q) == {q.queue[s].datas : s \in DOMAIN q.queue}

\* A frame is held in set_queue or in a numbered set.
LEMMA HeldBy ==
    ASSUME NEW q, NEW f
    PROVE  f \in Held(q) <=> \/ \E i \in DOMAIN q.set_queue : f = q.set_queue[i]
                             \/ \E s \in DOMAIN q.queue : f \in FramesOf(q.queue[s])
  BY DEF Held

\* What a queue holds, by the frames that wait and those that share a set.
InSequence(v) == {v[i] : i \in DOMAIN v}

LEMMA HeldIs ==
    ASSUME NEW q
    PROVE  Held(q) = InSequence(q.set_queue) \cup UNION {InSequence(v) : v \in Datas(q)}
  BY DEF Held, InSequence, Datas, FramesOf

\* Two such steps make one.
LEMMA GrowsTransitive ==
    ASSUME NEW q, Sound(q), NEW r, Grows(q, r), NEW t, Grows(r, t)
    PROVE  Grows(q, t)
<1>1. TypedFields(q) /\ TypedFields(r) /\ TypedFields(t)
  BY FieldsOfType DEF Sound, Grows
<1>. QED
  BY <1>1 DEF Grows, TypedFields

\* add_frame keeps every frame and the new one, which waits to share a set or has
\* one of its own.
LEMMA AddFrameGrows ==
    ASSUME NEW q, Sound(q), NEW f \in Frame, NEW r, r = AddFrame(q, f)
    PROVE  /\ Grows(q, r) /\ f \in Held(r)
           /\ \/ /\ q.set_size + Length[f] < Capacity
                 /\ r.set_size = q.set_size + Length[f]
                 /\ r.set_queue = Append(q.set_queue, f)
                 /\ Datas(r) = Datas(q)
              \/ /\ r.set_size = q.set_size
                 /\ r.set_queue = q.set_queue
                 /\ Datas(r) = Datas(q) \cup {<<f>>}
<1>1. /\ PacketQueueType(q)
      /\ TypedFields(q)
  BY FieldsOfType DEF Sound
<1>2. CASE q.set_size + Length[f] < Capacity /\ f \notin Split
  <2>1. PICK z \in Nat : z = q.set_size + Length[f]
    BY <1>1, FrameAssumption DEF TypedFields
  <2>2. PICK w \in Seq(Frame) : w = Append(q.set_queue, f)
    <3>1. \A v \in Seq(Frame) : Append(v, f) \in Seq(Frame)
      OBVIOUS
    <3>. QED
      BY <1>1, <3>1 DEF TypedFields
  <2>3. r = WithWaiting(q, z, w)
    BY <1>2, <2>1, <2>2 DEF AddFrame, WithWaiting
  <2>4. /\ Sound(r)
        /\ r.queue = q.queue
        /\ r.max = q.max
        /\ r.send_min = q.send_min
        /\ r.set_size = z
        /\ r.set_queue = w
    BY <2>3, NewWaiting
  <2>6. /\ \A i \in DOMAIN q.set_queue : i \in DOMAIN w /\ w[i] = q.set_queue[i]
        /\ \E i \in DOMAIN w : w[i] = f
    BY <1>1, <2>2 DEF TypedFields
  <2>7. Held(q) \subseteq Held(r) /\ f \in Held(r)
    BY <2>4, <2>6, HeldBy
  <2>8. Datas(r) = Datas(q)
    BY <2>4 DEF Datas
  <2>9. Grows(q, r)
    BY <1>1, <2>4, <2>7 DEF Grows, TypedFields
  <2>. QED
    BY <1>2, <2>1, <2>2, <2>4, <2>7, <2>8, <2>9
<1>3. CASE ~(q.set_size + Length[f] < Capacity /\ f \notin Split)
  <2>1. PICK set : set = [sequence_number |-> q.max, datas |-> <<f>>]
    OBVIOUS
  <2>2. /\ set \in FrameSet
        /\ set.sequence_number = q.max
        /\ f \in FramesOf(set)
    BY <1>1, <2>1 DEF FrameSet, TypedFields, FramesOf
  <2>3. r = AddSet(q, set)
    BY <1>3, <2>1 DEF AddFrame
  <2>4. /\ Sound(r)
        /\ r.send_min = q.send_min
        /\ r.max = q.max + 1
        /\ r.set_size = q.set_size
        /\ r.set_queue = q.set_queue
        /\ DOMAIN r.queue = DOMAIN q.queue \cup {q.max}
        /\ r.queue[q.max] = set
        /\ \A s \in DOMAIN q.queue : r.queue[s] = q.queue[s]
    BY <2>2, <2>3, AddSetSound
  <2>5. Held(q) \subseteq Held(r) /\ f \in Held(r)
    BY <2>2, <2>4, HeldBy
  <2>6. Grows(q, r)
    BY <1>1, <2>4, <2>5 DEF Grows, TypedFields
  <2>7. Datas(r) = Datas(q) \cup {<<f>>}
    BY <2>1, <2>4 DEF Datas
  <2>. QED
    BY <2>4, <2>5, <2>6, <2>7
<1>. QED
  BY <1>2, <1>3

\* tick packs what waits in set_queue, if anything does, and drops none of it.
LEMMA TickGrows ==
    ASSUME NEW q, Sound(q), NEW r, r = Tick(q)
    PROVE  /\ Grows(q, r) /\ DOMAIN q.queue \subseteq DOMAIN r.queue
           /\ \/ r = q
              \/ /\ q.set_queue # << >>
                 /\ r.set_size = 0
                 /\ r.set_queue = << >>
                 /\ Datas(r) = Datas(q) \cup {q.set_queue}
<1>1. /\ PacketQueueType(q)
      /\ TypedFields(q)
  BY FieldsOfType DEF Sound
<1>2. CASE q.set_queue = << >>
  BY <1>1, <1>2 DEF Tick, Grows, TypedFields
<1>3. CASE q.set_queue # << >>
  <2>1. PICK set : set = [sequence_number |-> q.max, datas |-> q.set_queue]
    OBVIOUS
  <2>2. /\ set \in FrameSet
        /\ set.sequence_number = q.max
        /\ \A i \in DOMAIN q.set_queue : q.set_queue[i] \in FramesOf(set)
    BY <1>1, <2>1 DEF FrameSet, TypedFields, FramesOf
  <2>3. PICK t : t = AddSet(q, set)
    OBVIOUS
  <2>4. /\ Sound(t)
        /\ t.send_min = q.send_min
        /\ t.max = q.max + 1
        /\ DOMAIN t.queue = DOMAIN q.queue \cup {q.max}
        /\ t.queue[q.max] = set
        /\ \A s \in DOMAIN q.queue : t.queue[s] = q.queue[s]
    BY <2>2, <2>3, AddSetSound
  <2>5. PICK z \in Nat, w \in Seq(Frame) : z = 0 /\ w = << >>
    <3>1. 0 \in Nat /\ << >> \in Seq(Frame)
      OBVIOUS
    <3>. QED
      BY <3>1, Zenon
  <2>6. r = WithWaiting(t, z, w)
    BY <1>3, <2>1, <2>3, <2>5 DEF Tick, WithWaiting
  <2>7. /\ Sound(r)
        /\ r.queue = t.queue
        /\ r.max = t.max
        /\ r.send_min = t.send_min
        /\ r.set_size = z
        /\ r.set_queue = w
    <3>1. Sound(t)
      BY <2>4
    <3>. QED
      BY <3>1, <2>6, NewWaiting
  <2>8. Held(q) \subseteq Held(r)
    BY <2>2, <2>4, <2>7, HeldBy
  <2>9. Datas(r) = Datas(q) \cup {q.set_queue}
    BY <2>1, <2>4, <2>7 DEF Datas
  <2>10. Grows(q, r) /\ DOMAIN q.queue \subseteq DOMAIN r.queue
    BY <1>1, <2>4, <2>7, <2>8 DEF Grows, TypedFields
  <2>. QED
    BY <1>3, <2>5, <2>7, <2>9, <2>10
<1>. QED
  BY <1>2, <1>3

\* readd and resend give sent sets new numbers, drop none of their frames and pack
\* none anew.
LEMMA RenumberGrows ==
    ASSUME NEW q, Sound(q), NEW order \in Seq(DOMAIN q.queue),
           \A i \in DOMAIN order : order[i] < q.send_min,
           NEW r, r = Renumber(q, order)
    PROVE  /\ Grows(q, r)
           /\ r.set_size = q.set_size
           /\ r.set_queue = q.set_queue
           /\ Datas(r) \subseteq Datas(q)
<1>1. /\ PacketQueueType(q)
      /\ TypedFields(q)
  BY FieldsOfType DEF Sound
<1>2. PICK n \in Nat : n = Len(order) /\ DOMAIN order = 1..n
  OBVIOUS
<1>3. PICK c \in Nat : c = q.max + n
  BY <1>1, <1>2 DEF TypedFields
<1>4. PICK keys : keys = (DOMAIN q.queue \ {order[i] : i \in DOMAIN order}) \cup q.max..(c - 1)
  OBVIOUS
<1>5. PICK a : a = [s \in keys |->
                      IF s < q.max THEN q.queue[s]
                      ELSE [sequence_number |-> s, datas |-> q.queue[order[s + 1 - q.max]].datas]]
  OBVIOUS
<1>6. PICK b : b = [s \in keys |-> IF s < q.max THEN q.time_passed[s] ELSE FALSE]
  OBVIOUS
<1>7. r = WithMaps(q, a, b, c)
  BY <1>2, <1>3, <1>4, <1>5, <1>6 DEF Renumber, WithMaps
\* where the keys come from
<1>8. /\ keys \subseteq Nat
      /\ \A s \in keys : s < c
      /\ \A s \in keys : s < q.max => s \in DOMAIN q.queue
      /\ \A s \in keys : ~(s < q.max) => /\ s + 1 - q.max \in DOMAIN order
                                         /\ order[s + 1 - q.max] \in DOMAIN q.queue
  <2>1. PICK m \in Nat : m = q.max
    BY <1>1 DEF TypedFields
  <2>2. \A s \in m..(c - 1) : s \in Nat /\ s < c /\ ~(s < m) /\ s + 1 - m \in 1..n
    <3>1. c = m + n
      BY <1>3, <2>1
    <3>. QED
      BY <3>1
  <2>3. \A s \in DOMAIN q.queue : s \in Nat /\ s < m /\ s < c
    BY <1>1, <1>2, <1>3, <2>1 DEF Sound, TypedFields
  <2>4. keys \subseteq DOMAIN q.queue \cup m..(c - 1)
    BY <1>4, <2>1
  <2>5. \A i \in 1..n : order[i] \in DOMAIN q.queue
    BY <1>2
  <2>. QED
    BY <1>2, <2>1, <2>2, <2>3, <2>4, <2>5
<1>9. /\ a \in [DOMAIN a -> FrameSet]
      /\ DOMAIN a = keys
      /\ \A s \in keys : s < q.max => a[s] = q.queue[s]
      /\ \A s \in keys : ~(s < q.max) =>
            /\ a[s].sequence_number = s
            /\ a[s].datas = q.queue[order[s + 1 - q.max]].datas
  <2>1. \A s \in DOMAIN q.queue : /\ q.queue[s] \in FrameSet
                                 /\ q.queue[s].datas \in Seq(Frame)
    BY <1>1 DEF TypedFields, FrameSet
  <2>2. \A s \in keys : /\ a[s] = IF s < q.max THEN q.queue[s]
                                  ELSE [sequence_number |-> s,
                                        datas |-> q.queue[order[s + 1 - q.max]].datas]
                       /\ a[s] \in FrameSet
    BY <1>5, <1>8, <2>1 DEF FrameSet
  <2>. QED
    BY <1>5, <2>2
<1>10. /\ b \in [DOMAIN b -> BOOLEAN]
       /\ DOMAIN b = keys
       /\ \A s \in keys : s < q.max => b[s] = q.time_passed[s]
       /\ \A s \in keys : ~(s < q.max) => b[s] = FALSE
  BY <1>1, <1>6, <1>8 DEF TypedFields, Sound
<1>11. /\ PacketQueueType(r)
       /\ r.queue = a
       /\ r.time_passed = b
       /\ r.max = c
       /\ r.send_min = q.send_min
       /\ r.set_size = q.set_size
       /\ r.set_queue = q.set_queue
  BY <1>1, <1>3, <1>7, <1>8, <1>9, <1>10, NewMaps
<1>12. Sound(r)
  <2>1. \A s \in keys : a[s].sequence_number = s
    BY <1>8, <1>9 DEF Sound
  <2>2. \A s \in keys : b[s] => s < q.send_min
    BY <1>8, <1>10 DEF Sound
  <2>3. q.send_min <= c
    BY <1>1, <1>2, <1>3 DEF Sound, TypedFields
  <2>4. q.send_min..(c - 1) \subseteq keys
    BY <1>1, <1>2, <1>3, <1>4 DEF Sound, TypedFields
  <2>. QED
    BY <1>8, <1>9, <1>10, <1>11, <2>1, <2>2, <2>3, <2>4 DEF Sound
<1>13. Held(q) \subseteq Held(r)
  <2> SUFFICES ASSUME NEW f \in Held(q)
               PROVE  f \in Held(r)
    OBVIOUS
  <2>1. CASE \E i \in DOMAIN q.set_queue : f = q.set_queue[i]
    BY <1>11, <2>1, HeldBy
  <2>2. ASSUME NEW s \in DOMAIN q.queue, f \in FramesOf(q.queue[s])
        PROVE  \E t \in DOMAIN r.queue : f \in FramesOf(r.queue[t])
    <3>1. CASE s \in keys
      BY <1>1, <1>9, <1>11, <2>2, <3>1 DEF Sound
    <3>2. CASE s \notin keys
      <4>1. PICK i \in 1..n : order[i] = s
        BY <1>2, <1>4, <3>2
      <4>2. PICK t : t = q.max + i - 1
        OBVIOUS
      <4>3. /\ t \in keys
            /\ ~(t < q.max)
            /\ t + 1 - q.max = i
        <5>1. PICK m \in Nat : m = q.max
          BY <1>1 DEF TypedFields
        <5>2. t \in m..(c - 1) /\ ~(t < m) /\ t + 1 - m = i
          BY <1>2, <1>3, <4>2, <5>1
        <5>. QED
          BY <1>4, <5>1, <5>2
      <4>4. r.queue[t].datas = q.queue[s].datas
        BY <1>9, <1>11, <4>1, <4>3
      <4>. QED
        BY <1>9, <1>11, <2>2, <4>3, <4>4 DEF FramesOf
    <3>. QED
      BY <3>1, <3>2
  <2>. QED
    BY <2>1, <2>2, HeldBy
<1>14. Datas(r) \subseteq Datas(q)
  BY <1>8, <1>9, <1>11 DEF Datas
<1>15. Grows(q, r)
  BY <1>1, <1>2, <1>3, <1>8, <1>9, <1>11, <1>12, <1>13 DEF Grows, TypedFields
<1>. QED
  BY <1>11, <1>14, <1>15

\* A NACK for a number that was sent drops no frame and packs none anew.
LEMMA ResendGrows ==
    ASSUME NEW q, Sound(q), NEW index \in Nat, index < q.send_min,
           NEW r, r = Resend(q, index)
    PROVE  /\ Grows(q, r)
           /\ r.set_size = q.set_size
           /\ r.set_queue = q.set_queue
           /\ Datas(r) \subseteq Datas(q)
<1>1. TypedFields(q)
  BY FieldsOfType DEF Sound
<1>2. CASE index \in DOMAIN q.time_passed
  <2>1. PICK order : order = <<index>>
    OBVIOUS
  <2>2. /\ order \in Seq(DOMAIN q.queue)
        /\ \A i \in DOMAIN order : order[i] < q.send_min
    <3>1. PICK S : S = DOMAIN q.queue
      OBVIOUS
    <3>2. index \in S
      BY <1>2, <3>1 DEF Sound
    <3>3. order \in Seq(S) /\ \A i \in DOMAIN order : order[i] = index
      BY <2>1, <3>2
    <3>. QED
      BY <3>1, <3>3
  <2>3. r = Renumber(q, order)
    BY <1>2, <2>1 DEF Resend
  <2>. QED
    BY <2>2, <2>3, RenumberGrows
<1>3. CASE index \notin DOMAIN q.time_passed
  BY <1>1, <1>3 DEF Resend, Grows, TypedFields
<1>. QED
  BY <1>2, <1>3

\* An ACK for numbers that were sent removes their sets and nothing else.
LEMMA ReceivedSound ==
    ASSUME NEW q, Sound(q), NEW sequences, \A s \in sequences : s \in Nat /\ s < q.send_min,
           NEW r, r = Received(q, sequences)
    PROVE  /\ Sound(r)
           /\ r.send_min = q.send_min
           /\ r.max = q.max
           /\ r.set_size = q.set_size
           /\ r.set_queue = q.set_queue
           /\ DOMAIN r.queue = DOMAIN q.queue \ sequences
           /\ \A s \in DOMAIN r.queue : r.queue[s] = q.queue[s]
<1>1. /\ PacketQueueType(q)
      /\ TypedFields(q)
  BY FieldsOfType DEF Sound
<1>2. PICK a : a = Without(q.queue, sequences)
  OBVIOUS
<1>3. PICK b : b = Without(q.time_passed, sequences \cap DOMAIN q.queue)
  OBVIOUS
<1>4. PICK c \in Nat : c = q.max
  BY <1>1 DEF TypedFields
<1>5. /\ a \in [DOMAIN a -> FrameSet]
      /\ DOMAIN a = DOMAIN q.queue \ sequences
      /\ DOMAIN a \subseteq Nat
      /\ \A s \in DOMAIN a : a[s] = q.queue[s]
  BY <1>1, <1>2 DEF TypedFields, Without, Restrict
<1>6. /\ b \in [DOMAIN b -> BOOLEAN]
      /\ DOMAIN b = DOMAIN q.queue \ sequences
      /\ DOMAIN b \subseteq Nat
      /\ \A s \in DOMAIN b : b[s] = q.time_passed[s]
  BY <1>1, <1>3 DEF TypedFields, Without, Restrict, Sound
<1>7. r = WithMaps(q, a, b, c)
  <2>1. r = [q EXCEPT !.queue = a, !.time_passed = b]
    BY <1>2, <1>3 DEF Received
  <2> DEFINE Q == [DOMAIN q.queue -> FrameSet]
             T == [DOMAIN q.time_passed -> BOOLEAN]
  <2>2. q \in [queue : Q, time_passed : T, max : Nat, send_min : Nat, set_size : Nat,
               set_queue : Seq(Frame)]
    BY <1>1 DEF PacketQueueType
  <2>. HIDE DEF Q, T
  <2>. QED
    BY <1>4, <2>1, <2>2 DEF WithMaps
<1>8. /\ PacketQueueType(r)
      /\ r.queue = a
      /\ r.time_passed = b
      /\ r.max = c
      /\ r.send_min = q.send_min
      /\ r.set_size = q.set_size
      /\ r.set_queue = q.set_queue
  BY <1>1, <1>5, <1>6, <1>7, NewMaps
<1>9. q.send_min..(q.max - 1) \subseteq DOMAIN a
  BY <1>1, <1>5 DEF Sound, TypedFields
<1>10. Sound(r)
  BY <1>4, <1>5, <1>6, <1>8, <1>9 DEF Sound
<1>. QED
  BY <1>4, <1>5, <1>8, <1>10

\* get_packet packs, renumbers and gives to the socket.  Every set it returns
\* is the one its queue holds under a number that was never sent before.
LEMMA GetPacketSound ==
    ASSUME NEW q, Sound(q), NEW expired \in Seq(DOMAIN q.queue),
           \A i \in DOMAIN expired : expired[i] < q.send_min,
           NEW r, r = AfterGetPacket(q, expired)
    PROVE  /\ Sound(r)
           /\ r.send_min = r.max
           /\ q.max <= r.max
           /\ \A s \in DOMAIN r.queue : \/ s \in DOMAIN q.queue /\ r.queue[s] = q.queue[s]
                                        \/ q.max <= s
           /\ Held(q) \subseteq Held(r)
           /\ q.send_min..(r.max - 1) \subseteq DOMAIN r.queue
           /\ GetPacket(q, expired) = {r.queue[s] : s \in q.send_min..(r.max - 1)}
           /\ \/ /\ r.set_size = q.set_size
                 /\ r.set_queue = q.set_queue
                 /\ Datas(r) \subseteq Datas(q)
              \/ /\ q.set_queue # << >>
                 /\ r.set_size = 0
                 /\ r.set_queue = << >>
                 /\ Datas(r) \subseteq Datas(q) \cup {q.set_queue}
<1>1. PICK t : t = Tick(q)
  OBVIOUS
<1>2. Grows(q, t) /\ TypedFields(q)
  BY <1>1, TickGrows, FieldsOfType DEF Sound
<1>3. PICK u : u = Renumber(t, expired)
  OBVIOUS
<1>4. /\ Grows(t, u)
      /\ u.set_size = t.set_size
      /\ u.set_queue = t.set_queue
      /\ Datas(u) \subseteq Datas(t)
  <2>1. Sound(t) /\ TypedFields(t) /\ t.send_min = q.send_min
    BY <1>2, FieldsOfType DEF Grows, Sound
  <2>2. DOMAIN q.queue \subseteq DOMAIN t.queue
    BY <1>1, TickGrows
  <2>3. expired \in Seq(DOMAIN t.queue)
    BY <2>2
  <2>. QED
    BY <1>3, <2>1, <2>3, RenumberGrows
<1>5. Grows(q, u)
  BY <1>2, <1>4, GrowsTransitive
<1>6. /\ PacketQueueType(u)
      /\ TypedFields(u)
  BY <1>5, FieldsOfType DEF Grows, Sound
<1>7. PICK b : b = [s \in DOMAIN u.time_passed |->
                      u.time_passed[s] \/ s \in u.send_min..(u.max - 1)]
  OBVIOUS
<1>8. PICK m \in Nat : m = u.max
  BY <1>6 DEF TypedFields
<1>9. r = [u EXCEPT !.time_passed = b, !.send_min = m]
  BY <1>3, <1>1, <1>7, <1>8 DEF AfterGetPacket
<1>10. /\ b \in [DOMAIN b -> BOOLEAN]
       /\ DOMAIN b = DOMAIN u.queue
  BY <1>5, <1>6, <1>7 DEF Grows, Sound, TypedFields
<1>11. /\ PacketQueueType(r)
       /\ r.queue = u.queue
       /\ r.time_passed = b
       /\ r.max = m
       /\ r.send_min = m
       /\ r.set_size = u.set_size
       /\ r.set_queue = u.set_queue
  <2> DEFINE Q == [DOMAIN u.queue -> FrameSet]
             T == [DOMAIN u.time_passed -> BOOLEAN]
             B == [DOMAIN b -> BOOLEAN]
  <2>1. u \in [queue : Q, time_passed : T, max : Nat, send_min : Nat, set_size : Nat,
               set_queue : Seq(Frame)]
    BY <1>6 DEF PacketQueueType
  <2>2. b \in B
    BY <1>10
  <2>3. /\ r \in [queue : Q, time_passed : B, max : Nat, send_min : Nat, set_size : Nat,
                  set_queue : Seq(Frame)]
        /\ r.queue = u.queue
        /\ r.time_passed = b
        /\ r.max = m
        /\ r.send_min = m
        /\ r.set_size = u.set_size
        /\ r.set_queue = u.set_queue
    <3>. HIDE DEF Q, T, B
    <3>. QED
      BY <1>8, <1>9, <2>1, <2>2
  <2>. QED
    BY <1>6, <1>10, <2>3 DEF PacketQueueType, TypedFields
<1>12. Sound(r)
  BY <1>5, <1>6, <1>8, <1>10, <1>11 DEF Grows, Sound, TypedFields
<1>13. GetPacket(q, expired) = {r.queue[s] : s \in q.send_min..(r.max - 1)}
  BY <1>1, <1>3, <1>5, <1>8, <1>11 DEF GetPacket, Grows
<1>14. Held(q) \subseteq Held(r)
  BY <1>5, <1>11, HeldBy DEF Grows
<1>15. q.send_min..(r.max - 1) \subseteq DOMAIN r.queue
  BY <1>5, <1>8, <1>11 DEF Grows, Sound
<1>16. Datas(r) = Datas(u)
  BY <1>11 DEF Datas
<1>17. \/ t = q
       \/ /\ q.set_queue # << >>
          /\ t.set_size = 0
          /\ t.set_queue = << >>
          /\ Datas(t) = Datas(q) \cup {q.set_queue}
  BY <1>1, TickGrows
<1>18. \/ /\ r.set_size = q.set_size
          /\ r.set_queue = q.set_queue
          /\ Datas(r) \subseteq Datas(q)
       \/ /\ q.set_queue # << >>
          /\ r.set_size = 0
          /\ r.set_queue = << >>
          /\ Datas(r) \subseteq Datas(q) \cup {q.set_queue}
  BY <1>4, <1>11, <1>16, <1>17
<1>. QED
  BY <1>5, <1>8, <1>11, <1>12, <1>13, <1>14, <1>15, <1>18 DEF Grows

-----------------------------------------------------------------------------
(* The inductive invariant of Link.                                         *)

\* What is known of a datagram in flight: a set has been given to the socket,
\* an ACK covers numbers that were handled, a NACK a number that was sent.
DatagramOK(m) ==
    /\ m.kind = "data" => /\ m.set.sequence_number < pq.send_min
                          /\ m.set.sequence_number \in DOMAIN pq.queue =>
                                pq.queue[m.set.sequence_number] = m.set
    /\ m.kind = "ack" => m.lo..m.hi \subseteq seen
    /\ m.kind = "nack" => m.number < pq.send_min

\* No two sets in flight carry the same number.
OneSetInFlight ==
    \A m, n \in net : /\ m.kind = "data"
                      /\ n.kind = "data"
                      /\ m.set.sequence_number = n.set.sequence_number
                      => m = n

\* The receiver's book mentions only numbers that were sent, and stores only
\* numbers it handled, inside its window.
BookOK ==
    /\ aq.highest <= pq.send_min
    /\ aq.store_seq \subseteq seen
    /\ aq.store_seq \subseteq Window(aq)

\* The inductive invariant.  NoFrameLost needs that a set acknowledged has
\* arrived, hence that a number names one set and that ACKs cover seen numbers
\* only; WindowComplete needs that both ACKs and NACKs name sent numbers only.
IInv ==
    /\ TypeOK
    /\ Sound(pq)
    /\ BookOK
    /\ \A m \in net : DatagramOK(m)
    /\ OneSetInFlight
    /\ \A s \in seen : s < pq.send_min
    /\ \A s \in seen : s \in DOMAIN pq.queue => FramesOf(pq.queue[s]) \subseteq arrived
    /\ NoFrameLost

-----------------------------------------------------------------------------
\* What a datagram of each kind carries.
LEMMA DatagramFields ==
    ASSUME NEW m \in Datagram
    PROVE  /\ m.kind \in {"data", "ack", "nack"}
           /\ m.kind = "data" => m.set \in FrameSet /\ m.set.sequence_number \in Nat
           /\ m.kind = "ack" => m.lo \in Nat /\ m.hi \in Nat
           /\ m.kind = "nack" => m.number \in Nat
  BY DEF Datagram, FrameSet

LEMMA InitIInv == Init => IInv
<1> SUFFICES ASSUME Init PROVE IInv
  OBVIOUS
<1> USE DEF Init, NewPacketQueue, NewACKQueue, EmptyMap
<1>1. /\ pq.queue = [k \in {} |-> k]
      /\ pq.time_passed = [k \in {} |-> k]
      /\ pq.max = 0
      /\ pq.send_min = 0
      /\ pq.set_size = 0
      /\ pq.set_queue = << >>
      /\ pq = [queue |-> pq.queue, time_passed |-> pq.time_passed, max |-> 0,
               send_min |-> 0, set_size |-> 0, set_queue |-> << >>]
  OBVIOUS
<1>2. PacketQueueType(pq)
  BY <1>1 DEF PacketQueueType
<1>3. Sound(pq)
  BY <1>1, <1>2 DEF Sound
<1>4. BookOK
  BY <1>1 DEF BookOK
<1>5. TypeOK
  BY <1>2 DEF TypeOK
<1>. QED
  BY <1>3, <1>4, <1>5 DEF IInv, NoFrameLost, OneSetInFlight

\* A step of the sender that only adds sets, and gives none to the socket,
\* keeps the invariant.
LEMMA GrowthKeepsIInv ==
    ASSUME IInv, Grows(pq, pq'),
           net' \subseteq net, UNCHANGED <<aq, arrived, seen>>,
           losses' \in Nat, copies' \in Nat,
           offered' \subseteq Frame, offered' \subseteq Held(pq') \cup arrived
    PROVE  IInv'
<1>1. /\ TypedFields(pq)
      /\ pq'.send_min = pq.send_min
      /\ pq.send_min <= pq.max
      /\ TypeOK
  BY FieldsOfType DEF IInv, Grows, Sound
<1>2. TypeOK'
  BY <1>1 DEF TypeOK, Grows, Sound
<1>3. BookOK'
  BY <1>1 DEF IInv, BookOK, Window
<1>4. ASSUME NEW s \in Nat, s < pq.send_min, s \in DOMAIN pq'.queue
      PROVE  s \in DOMAIN pq.queue /\ pq'.queue[s] = pq.queue[s]
  BY <1>1, <1>4 DEF Grows, TypedFields
<1>5. ASSUME NEW m \in net' PROVE DatagramOK(m)'
  <2>1. m \in net /\ m \in Datagram /\ DatagramOK(m)
    BY <1>1 DEF IInv, TypeOK
  <2>. QED
    BY <1>1, <1>4, <2>1, DatagramFields DEF DatagramOK
<1>6. \A s \in seen' : s < pq'.send_min
  BY <1>1 DEF IInv
<1>7. \A s \in seen' : s \in DOMAIN pq'.queue => FramesOf(pq'.queue[s]) \subseteq arrived'
  BY <1>1, <1>4 DEF IInv, TypeOK
<1>8. OneSetInFlight'
  BY DEF IInv, OneSetInFlight
<1>. QED
  BY <1>2, <1>3, <1>5, <1>6, <1>7, <1>8 DEF IInv, Grows, NoFrameLost

\* Whatever Take leaves in the network was there.
LEMMA TakeShrinks ==
    ASSUME TypeOK, NEW m, Take(m, net')
    PROVE  net' \subseteq net /\ copies' \in Nat
  BY DEF Take, TypeOK

-----------------------------------------------------------------------------
(* One lemma per action.                                                   *)

LEMMA LoseIInv == ASSUME IInv, NEW m \in net, Lose(m) PROVE IInv'
<1>1. Grows(pq, pq')
  <2>1. TypedFields(pq) /\ pq' = pq
    BY FieldsOfType DEF IInv, Sound, Lose
  <2>. QED
    BY <2>1 DEF Grows, IInv, TypedFields
<1>2. net' \subseteq net /\ losses' \in Nat /\ copies' \in Nat
  BY DEF Lose, IInv, TypeOK
<1>3. offered' \subseteq Frame /\ offered' \subseteq Held(pq') \cup arrived
  BY DEF Lose, IInv, TypeOK, NoFrameLost
<1>. QED
  BY <1>1, <1>2, <1>3, GrowthKeepsIInv DEF Lose

LEMMA SendIInv == ASSUME IInv, NEW f \in Frame, Send(f) PROVE IInv'
<1>1. Grows(pq, pq') /\ f \in Held(pq')
  BY AddFrameGrows DEF IInv, Send
<1>2. offered' \subseteq Frame /\ offered' \subseteq Held(pq') \cup arrived
  BY <1>1 DEF Send, IInv, TypeOK, NoFrameLost, Grows
<1>3. net' \subseteq net /\ losses' \in Nat /\ copies' \in Nat
  BY DEF Send, IInv, TypeOK
<1>. QED
  BY <1>1, <1>2, <1>3, GrowthKeepsIInv DEF Send

LEMMA HandleNackIInv == ASSUME IInv, NEW m \in net, HandleNack(m) PROVE IInv'
<1>1. Grows(pq, pq')
  <2>1. m.number \in Nat /\ m.number < pq.send_min
    BY DatagramFields DEF IInv, DatagramOK, TypeOK, HandleNack
  <2>. QED
    BY <2>1, ResendGrows DEF IInv, HandleNack
<1>2. offered' \subseteq Frame /\ offered' \subseteq Held(pq') \cup arrived
  BY <1>1 DEF HandleNack, IInv, TypeOK, NoFrameLost, Grows
<1>3. net' \subseteq net /\ losses' \in Nat /\ copies' \in Nat
  BY TakeShrinks DEF HandleNack, IInv, TypeOK
<1>. QED
  BY <1>1, <1>2, <1>3, GrowthKeepsIInv DEF HandleNack

LEMMA HandleAckIInv == ASSUME IInv, NEW m \in net, HandleAck(m) PROVE IInv'
<1>1. /\ m \in Datagram
      /\ m.lo \in Nat /\ m.hi \in Nat
      /\ m.lo..m.hi \subseteq seen
  BY DatagramFields DEF IInv, DatagramOK, TypeOK, HandleAck
<1>2. PICK sequences : sequences = m.lo..m.hi
  OBVIOUS
<1>3. \A s \in sequences : s \in Nat /\ s < pq.send_min /\ s \in seen
  BY <1>1, <1>2 DEF IInv, TypeOK
<1>4. pq' = Received(pq, sequences)
  BY <1>2 DEF HandleAck
<1>5. /\ Sound(pq')
      /\ pq'.send_min = pq.send_min
      /\ pq'.set_queue = pq.set_queue
      /\ DOMAIN pq'.queue = DOMAIN pq.queue \ sequences
      /\ \A s \in DOMAIN pq'.queue : pq'.queue[s] = pq.queue[s]
  BY <1>3, <1>4, ReceivedSound DEF IInv
<1>6. net' \subseteq net /\ copies' \in Nat
  BY TakeShrinks DEF HandleAck, IInv
<1>7. UNCHANGED <<aq, losses, offered, arrived, seen>>
  BY DEF HandleAck
<1>8. TypeOK'
  BY <1>5, <1>6, <1>7 DEF IInv, TypeOK, Sound
<1>9. BookOK'
  BY <1>5, <1>7 DEF IInv, BookOK, Window
<1>10. ASSUME NEW n \in net' PROVE DatagramOK(n)'
  BY <1>5, <1>6, <1>7 DEF IInv, DatagramOK
<1>11. NoFrameLost'
  <2> SUFFICES ASSUME NEW f \in offered, f \in Held(pq), f \notin arrived
               PROVE  f \in Held(pq')
    BY <1>7 DEF IInv, NoFrameLost
  <2>1. CASE \E i \in DOMAIN pq.set_queue : f = pq.set_queue[i]
    BY <1>5, <2>1, HeldBy
  <2>2. ASSUME NEW s \in DOMAIN pq.queue, f \in FramesOf(pq.queue[s])
        PROVE  s \notin sequences
    BY <1>3, <2>2 DEF IInv
  <2>. QED
    BY <1>5, <2>1, <2>2, HeldBy
<1>12. \A s \in seen' : s < pq'.send_min
  BY <1>5, <1>7 DEF IInv
<1>13. \A s \in seen' : s \in DOMAIN pq'.queue => FramesOf(pq'.queue[s]) \subseteq arrived'
  BY <1>5, <1>7 DEF IInv
<1>14. OneSetInFlight'
  BY <1>6 DEF IInv, OneSetInFlight
<1>. QED
  BY <1>5, <1>8, <1>9, <1>10, <1>11, <1>12, <1>13, <1>14 DEF IInv

LEMMA HandleDatagramIInv == ASSUME IInv, NEW m \in net, HandleDatagram(m) PROVE IInv'
<1>1. PICK s \in Nat : s = m.set.sequence_number
  BY DatagramFields DEF IInv, TypeOK, HandleDatagram
<1>2. PICK set \in FrameSet : set = m.set
  BY DatagramFields DEF IInv, TypeOK, HandleDatagram
<1>3. /\ s < pq.send_min
      /\ s \in DOMAIN pq.queue => pq.queue[s] = set
      /\ UNCHANGED <<pq, losses, offered>>
      /\ arrived' = arrived \cup FramesOf(set)
      /\ seen' = seen \cup {s}
      /\ aq' = Add(aq, s)
  BY <1>1, <1>2 DEF IInv, DatagramOK, HandleDatagram
<1>4. net' \subseteq net /\ copies' \in Nat
  BY TakeShrinks DEF HandleDatagram, IInv
<1>5. /\ aq \in [lowest : Nat, highest : Nat, store_seq : SUBSET Nat]
      /\ aq' \in [lowest : Nat, highest : Nat, store_seq : SUBSET Nat]
      /\ BookOK'
  <2>1. PICK l \in Nat, h \in Nat, S \in SUBSET Nat :
           /\ l = aq.lowest /\ h = aq.highest /\ S = aq.store_seq
           /\ aq = [lowest |-> l, highest |-> h, store_seq |-> S]
    BY DEF IInv, TypeOK
  <2>2. PICK n \in Nat : n = pq.send_min
    BY FieldsOfType DEF IInv, Sound, TypedFields
  <2>3. h <= n /\ s < n /\ S \subseteq seen /\ S \subseteq l..(h - 1)
    BY <1>3, <2>1, <2>2 DEF IInv, BookOK, Window
  <2>4. CASE l <= s /\ s \notin S
    <3>1. PICK g \in Nat : g = IF h <= s THEN s + 1 ELSE h
      OBVIOUS
    <3>2. aq' = [lowest |-> l, highest |-> g, store_seq |-> S \cup {s}]
      BY <1>3, <2>1, <2>4, <3>1 DEF Add
    <3>3. aq'.lowest = l /\ aq'.highest = g /\ aq'.store_seq = S \cup {s}
      BY <3>2
    <3>4. g <= n /\ S \cup {s} \subseteq seen' /\ S \cup {s} \subseteq l..(g - 1)
      <4>1. seen' = seen \cup {s} /\ S \subseteq seen /\ S \subseteq l..(h - 1)
        BY <1>3, <2>3
      <4>2. h <= g /\ s < g /\ g <= n
        BY <2>3, <3>1
      <4>3. S \subseteq l..(g - 1) /\ s \in l..(g - 1)
        BY <2>4, <4>1, <4>2
      <4>. QED
        BY <4>1, <4>2, <4>3
    <3>5. pq'.send_min = n
      BY <1>3, <2>2
    <3>. QED
      BY <2>1, <3>2, <3>3, <3>4, <3>5 DEF BookOK, Window
  <2>5. CASE ~(l <= s /\ s \notin S)
    BY <1>3, <2>1, <2>2, <2>3, <2>5 DEF Add, BookOK, Window
  <2>. QED
    BY <2>1, <2>4, <2>5 DEF Add
<1>6. FramesOf(set) \subseteq Frame
  <2>1. set.datas \in Seq(Frame)
    BY DEF FrameSet
  <2>. QED
    BY <2>1 DEF FramesOf
<1>7. TypeOK'
  BY <1>3, <1>4, <1>5, <1>6 DEF IInv, TypeOK
<1>8. ASSUME NEW n \in net' PROVE DatagramOK(n)'
  BY <1>3, <1>4 DEF IInv, DatagramOK
<1>9. \A t \in seen' : t \in DOMAIN pq'.queue => FramesOf(pq'.queue[t]) \subseteq arrived'
  BY <1>3 DEF IInv
<1>10. OneSetInFlight'
  BY <1>4 DEF IInv, OneSetInFlight
<1>. QED
  BY <1>3, <1>5, <1>7, <1>8, <1>9, <1>10 DEF IInv, NoFrameLost

LEMMA FlushAckIInv == ASSUME IInv, FlushAck PROVE IInv'
<1>1. PICK l \in Nat, h \in Nat, S \in SUBSET Nat :
         /\ l = aq.lowest /\ h = aq.highest /\ S = aq.store_seq
         /\ aq = [lowest |-> l, highest |-> h, store_seq |-> S]
  BY DEF IInv, TypeOK
<1>2. /\ Window(aq) = l..(h - 1)
      /\ h <= pq.send_min
      /\ pq.send_min \in Nat
      /\ S \subseteq seen
      /\ S \subseteq l..(h - 1)
  BY <1>1, FieldsOfType DEF IInv, BookOK, Window, Sound, TypedFields
<1>3. UNCHANGED <<pq, losses, copies, offered, arrived, seen>>
  BY DEF FlushAck
<1>4. /\ aq' = [lowest |-> h, highest |-> h, store_seq |-> {}]
      /\ aq'.highest = h
      /\ aq'.store_seq = {}
  BY <1>1, <1>2 DEF FlushAck, AfterClear
<1>5. ASSUME NEW r \in AckRanges(aq)
      PROVE  /\ r[1] \in Nat
             /\ r[2] \in Nat
             /\ r[1]..r[2] \subseteq seen
  BY <1>1, <1>2 DEF AckRanges
<1>6. ASSUME NEW s \in Missing(aq)
      PROVE  s \in Nat /\ s < pq.send_min
  BY <1>1, <1>2 DEF Missing
<1>7. ASSUME NEW m \in net'
      PROVE  m \in Datagram /\ DatagramOK(m)'
  <2>1. CASE m \in net
    BY <1>3, <2>1 DEF IInv, TypeOK, DatagramOK
  <2>2. ASSUME NEW r \in AckRanges(aq), m = Ack(r[1], r[2])
        PROVE  m \in Datagram /\ DatagramOK(m)'
    BY <1>3, <1>5, <2>2 DEF Ack, Datagram, DatagramOK
  <2>3. ASSUME NEW s \in Missing(aq), m = Nack(s)
        PROVE  m \in Datagram /\ DatagramOK(m)'
    BY <1>3, <1>6, <2>3 DEF Nack, Datagram, DatagramOK
  <2>. QED
    BY <2>1, <2>2, <2>3 DEF FlushAck
<1>8. BookOK'
  BY <1>2, <1>3, <1>4 DEF BookOK
<1>9. TypeOK'
  BY <1>3, <1>4, <1>7 DEF IInv, TypeOK
<1>10. ASSUME NEW m \in net', m.kind = "data" PROVE m \in net
  BY <1>10 DEF FlushAck, Ack, Nack
<1>11. OneSetInFlight'
  BY <1>10 DEF IInv, OneSetInFlight
<1>. QED
  BY <1>3, <1>7, <1>8, <1>9, <1>11 DEF IInv, NoFrameLost

\* The numbers that can expire are finitely many, so an order of them is a
\* sequence of sent numbers.
LEMMA OrdersAreSequences ==
    ASSUME NEW q, Sound(q), NEW cutoff,
           NEW expired \in Orders(Expirable(q, cutoff))
    PROVE  /\ expired \in Seq(DOMAIN q.queue)
           /\ \A i \in DOMAIN expired : expired[i] < q.send_min
<1>1. PICK late : late = Expirable(q, cutoff)
  OBVIOUS
<1>2. TypedFields(q)
  BY FieldsOfType DEF Sound
<1>3. late \subseteq DOMAIN q.queue /\ \A s \in late : s < q.send_min
  BY <1>1 DEF Expirable, Sound
<1>4. late \subseteq 0..(q.max - 1)
  BY <1>2, <1>3 DEF Sound, TypedFields
<1>5. Cardinality(late) \in Nat
  <2>1. IsFiniteSet(0..(q.max - 1))
    <3>1. q.max - 1 \in Int
      BY <1>2 DEF TypedFields
    <3>. QED
      BY <3>1, FS_Interval
  <2>. QED
    BY <1>4, <2>1, FS_Subset, FS_CardinalityType
<1>6. expired \in [1..Cardinality(late) -> late]
  BY <1>1 DEF Orders, Bijection, Injection
<1>. QED
  BY <1>3, <1>5, <1>6

\* get_packet of a queue that has grown, and is given to the socket.
LEMMA FlushKeepsIInv ==
    ASSUME IInv, NEW q, Grows(pq, q),
           NEW cutoff, NEW expired \in Orders(Expirable(q, cutoff)),
           pq' = AfterGetPacket(q, expired),
           net' = net \cup {Data(set) : set \in GetPacket(q, expired)},
           offered' \subseteq Frame, offered' \subseteq Held(q) \cup arrived,
           UNCHANGED <<aq, losses, copies, arrived, seen>>
    PROVE  IInv'
<1>1. net' = net \cup {Data(set) : set \in GetPacket(q, expired)}
  OBVIOUS
<1>2. /\ Sound(q) /\ expired \in Seq(DOMAIN q.queue)
      /\ \A i \in DOMAIN expired : expired[i] < q.send_min
  BY OrdersAreSequences DEF Grows
<1>3. /\ Sound(pq')
      /\ pq'.send_min = pq'.max
      /\ pq.max <= pq'.max
      /\ \A s \in DOMAIN pq'.queue : \/ s \in DOMAIN pq.queue /\ pq'.queue[s] = pq.queue[s]
                                    \/ pq.max <= s
      /\ Held(q) \subseteq Held(pq')
      /\ pq.send_min..(pq'.max - 1) \subseteq DOMAIN pq'.queue
      /\ GetPacket(q, expired) = {pq'.queue[s] : s \in pq.send_min..(pq'.max - 1)}
  <2>1. TypedFields(pq) /\ TypedFields(q)
    BY <1>2, FieldsOfType DEF IInv, Sound
  <2>2. /\ q.send_min = pq.send_min /\ pq.max <= q.max
        /\ \A s \in DOMAIN q.queue : \/ s \in DOMAIN pq.queue /\ q.queue[s] = pq.queue[s]
                                     \/ pq.max <= s
    BY DEF Grows
  <2>3. PICK r : r = AfterGetPacket(q, expired)
    OBVIOUS
  <2>4. /\ Sound(r)
        /\ r.send_min = r.max
        /\ q.max <= r.max
        /\ \A s \in DOMAIN r.queue : \/ s \in DOMAIN q.queue /\ r.queue[s] = q.queue[s]
                                     \/ q.max <= s
        /\ Held(q) \subseteq Held(r)
        /\ q.send_min..(r.max - 1) \subseteq DOMAIN r.queue
        /\ GetPacket(q, expired) = {r.queue[s] : s \in q.send_min..(r.max - 1)}
    BY <1>2, <2>3, GetPacketSound
  <2>5. TypedFields(r) /\ pq' = r
    BY <2>3, <2>4, FieldsOfType DEF Sound
  <2>6. \A s \in DOMAIN r.queue : \/ s \in DOMAIN pq.queue /\ r.queue[s] = pq.queue[s]
                                 \/ pq.max <= s
    BY <2>1, <2>2, <2>4, <2>5 DEF TypedFields
  <2>7. pq.max <= r.max
    BY <2>1, <2>2, <2>4, <2>5 DEF TypedFields
  <2>. QED
    BY <2>2, <2>4, <2>5, <2>6, <2>7
<1>4. /\ TypedFields(pq)
      /\ TypedFields(pq')
      /\ pq.send_min <= pq.max
  BY <1>3, FieldsOfType DEF IInv, Sound
<1>5. UNCHANGED <<aq, losses, copies, arrived, seen>>
  OBVIOUS
<1>6. pq.send_min <= pq'.send_min
  BY <1>3, <1>4 DEF TypedFields
<1>7. ASSUME NEW s \in Nat, s < pq.send_min, s \in DOMAIN pq'.queue
      PROVE  s \in DOMAIN pq.queue /\ pq'.queue[s] = pq.queue[s]
  BY <1>3, <1>4, <1>7 DEF TypedFields
<1>8. ASSUME NEW m \in net'
      PROVE  m \in Datagram /\ DatagramOK(m)'
  <2>1. CASE m \in net
    <3>1. m \in Datagram /\ DatagramOK(m)
      BY <2>1 DEF IInv, TypeOK
    <3>. QED
      BY <1>4, <1>5, <1>6, <1>7, <3>1, DatagramFields DEF DatagramOK, TypedFields
  <2>2. ASSUME NEW s \in pq.send_min..(pq'.max - 1), m = Data(pq'.queue[s])
        PROVE  m \in Datagram /\ DatagramOK(m)'
    <3>1. /\ s \in DOMAIN pq'.queue
          /\ s < pq'.send_min
          /\ pq'.queue[s] \in FrameSet
          /\ pq'.queue[s].sequence_number = s
      <4>1. s \in Nat /\ s < pq'.max
        BY <1>4 DEF TypedFields
      <4>2. s \in DOMAIN pq'.queue
        BY <1>3
      <4>. QED
        BY <1>3, <1>4, <4>1, <4>2 DEF Sound, TypedFields
    <3>. QED
      BY <2>2, <3>1 DEF Data, Datagram, DatagramOK
  <2>. QED
    BY <1>1, <1>3, <2>1, <2>2
<1>9. BookOK'
  BY <1>4, <1>5, <1>6 DEF IInv, TypeOK, BookOK, Window, TypedFields
<1>10. TypeOK'
  BY <1>3, <1>5, <1>8 DEF IInv, TypeOK, Sound
<1>11. \A s \in seen' : s < pq'.send_min
  BY <1>4, <1>5, <1>6 DEF IInv, TypeOK, TypedFields
<1>12. \A s \in seen' : s \in DOMAIN pq'.queue => FramesOf(pq'.queue[s]) \subseteq arrived'
  BY <1>5, <1>7 DEF IInv, TypeOK
<1>13. NoFrameLost'
  BY <1>3, <1>5 DEF IInv, NoFrameLost
<1>14. OneSetInFlight'
  <2>1. ASSUME NEW m \in net', m.kind = "data"
        PROVE  \/ m \in net /\ m.set.sequence_number < pq.send_min
               \/ \E s \in Nat : /\ m = Data(pq'.queue[s])
                                /\ m.set.sequence_number = s
                                /\ pq.send_min <= s
    <3>1. CASE m \in net
      BY <2>1, <3>1 DEF IInv, DatagramOK
    <3>2. ASSUME NEW s \in pq.send_min..(pq'.max - 1), m = Data(pq'.queue[s])
          PROVE  /\ s \in Nat
                 /\ pq.send_min <= s
                 /\ m.set.sequence_number = s
      <4>1. s \in DOMAIN pq'.queue
        BY <1>3, <3>2
      <4>2. m.set.sequence_number = s
        BY <1>3, <3>2, <4>1 DEF Data, Sound
      <4>. QED
        BY <1>4, <3>2, <4>2 DEF TypedFields
    <3>. QED
      BY <1>1, <1>3, <3>1, <3>2
  <2>2. pq.send_min \in Nat
    BY <1>4 DEF TypedFields
  <2>3. OneSetInFlight
    BY DEF IInv
  <2>. QED
    BY <2>1, <2>2, <2>3 DEF OneSetInFlight
<1>. QED
  BY <1>3, <1>8, <1>9, <1>10, <1>11, <1>12, <1>13, <1>14 DEF IInv

LEMMA FlushQueueIInv == ASSUME IInv, NEW cutoff, FlushQueue(cutoff) PROVE IInv'
<1>1. PICK expired \in Orders(Expirable(pq, cutoff)) :
         /\ pq' = AfterGetPacket(pq, expired)
         /\ net' = net \cup {Data(set) : set \in GetPacket(pq, expired)}
  BY DEF FlushQueue
<1>2. Grows(pq, pq)
  BY FieldsOfType DEF IInv, Sound, Grows, TypedFields
<1>3. offered' \subseteq Frame /\ offered' \subseteq Held(pq) \cup arrived
  BY DEF FlushQueue, IInv, TypeOK, NoFrameLost
<1>. QED
  BY <1>1, <1>2, <1>3, FlushKeepsIInv DEF FlushQueue

-----------------------------------------------------------------------------
\* Every step keeps the inductive invariant.
LEMMA NextIInv == IInv /\ [Next]_vars => IInv'
<1> SUFFICES ASSUME IInv, [Next]_vars PROVE IInv'
  OBVIOUS
<1>1. ASSUME NEW f \in Frame, Send(f) PROVE IInv'
  BY <1>1, SendIInv
<1>2. ASSUME NEW cutoff \in 0..pq.send_min, FlushQueue(cutoff) PROVE IInv'
  BY <1>2, FlushQueueIInv
<1>3. CASE FlushAck
  BY <1>3, FlushAckIInv
<1>4. ASSUME NEW m \in net, Lose(m) PROVE IInv'
  BY <1>4, LoseIInv
<1>5. ASSUME NEW m \in net, HandleAck(m) PROVE IInv'
  BY <1>5, HandleAckIInv
<1>6. ASSUME NEW m \in net, HandleNack(m) PROVE IInv'
  BY <1>6, HandleNackIInv
<1>7. ASSUME NEW m \in net, HandleDatagram(m) PROVE IInv'
  BY <1>7, HandleDatagramIInv
<1>8. CASE UNCHANGED vars
  BY <1>8 DEF vars, IInv, TypeOK, BookOK, Window, DatagramOK, OneSetInFlight, NoFrameLost
<1>. QED
  BY <1>1, <1>2, <1>3, <1>4, <1>5, <1>6, <1>7, <1>8 DEF Next

\* The inductive invariant holds in every reachable state.
THEOREM Invariance == Spec => []IInv
<1>. QED
  BY InitIInv, NextIInv, PTL DEF Spec

\* The state stays well formed (the fields of packetqueue.rs:11-20 and
\* packet.rs:10-14, the three kinds of datagram).
THEOREM TypeCorrect == Spec => []TypeOK
<1>1. IInv => TypeOK
  BY DEF IInv
<1>. QED
  BY <1>1, Invariance, PTL

\* The two maps of the packet queue keep the same keys, so the unwrap of resend
\* (packetqueue.rs:102) and that of time_passed in get_packet (:118) never fail,
\* with any MTU, any frames and any loss, duplication or reordering.
THEOREM NoFailedUnwrap == Spec => []QueueMatchesTimers
<1>1. IInv => QueueMatchesTimers
  BY DEF IInv, Sound, QueueMatchesTimers
<1>. QED
  BY <1>1, Invariance, PTL

\* get_packet finds every number from send_min to max in the queue
\* (packetqueue.rs:117): no ACK or NACK takes one away before it was sent.
THEOREM WindowStaysComplete == Spec => []WindowComplete
<1>1. IInv => WindowComplete
  BY DEF IInv, Sound, WindowComplete
<1>. QED
  BY <1>1, Invariance, PTL

\* A sequence number is never given to two frame sets: resend and readd take a
\* new one (packetqueue.rs:80-110), so what is in flight is what is held.
THEOREM NumbersAreNotReused == Spec => []OneSetPerNumber
<1>1. IInv => OneSetPerNumber
  BY DEF IInv, Sound, DatagramOK, OneSetInFlight, OneSetPerNumber
<1>. QED
  BY <1>1, Invariance, PTL

\* An ACK in flight covers only frame sets that were handled (packet.rs:34-52).
THEOREM AcksAreTrue == Spec => []AckOnlySeen
<1>1. IInv => AckOnlySeen
  BY DEF IInv, DatagramOK, AckOnlySeen
<1>. QED
  BY <1>1, Invariance, PTL

\* No frame handed to a session is dropped before it arrives, whatever the
\* network does and however early the resend timer fires.
THEOREM FramesAreKept == Spec => []NoFrameLost
<1>1. IInv => NoFrameLost
  BY DEF IInv
<1>. QED
  BY <1>1, Invariance, PTL

\* clear leaves no number behind in the receiver's book (packet.rs:34-52).
THEOREM BookStaysInWindow == Spec => []BookInWindow
<1>1. IInv => BookInWindow
  BY DEF IInv, BookOK, BookInWindow
<1>. QED
  BY <1>1, Invariance, PTL

-----------------------------------------------------------------------------
(* The bytes of shared sets.  What waits is counted in set_size and stays  *)
(* below what the MTU leaves; tick makes a set of it.                      *)

SharesFit(q) ==
    /\ q.set_size = Total(q.set_queue)
    /\ q.set_queue # << >> => q.set_size < Capacity
    /\ \A datas \in Datas(q) : Len(datas) > 1 => Total(datas) < Capacity

LEMMA TotalOfNone == Total(<< >>) = 0
<1>1. PICK g : g = [i \in DOMAIN << >> |-> Length[<< >>[i]]]
  OBVIOUS
<1>2. DOMAIN g = {}
  BY <1>1
<1>3. Sum(g) = 0
  BY <1>2, SumOfNone
<1>. QED
  BY <1>1, <1>3 DEF Total, Sum

LEMMA TotalOfOneMore ==
    ASSUME NEW frames \in Seq(Frame), NEW f \in Frame
    PROVE  Total(Append(frames, f)) = Total(frames) + Length[f]
<1>1. PICK n \in Nat : n = Len(frames) /\ DOMAIN frames = 1..n
  OBVIOUS
<1>2. PICK more : more = Append(frames, f)
  OBVIOUS
<1>3. /\ DOMAIN more = 1..(n + 1)
      /\ \A k \in 1..n : more[k] = frames[k] /\ frames[k] \in Frame
      /\ more[n + 1] = f
  BY <1>1, <1>2
<1>4. PICK g : g = [i \in DOMAIN frames |-> Length[frames[i]]]
  OBVIOUS
<1>5. PICK h : h = [i \in DOMAIN more |-> Length[more[i]]]
  OBVIOUS
<1>6. /\ DOMAIN g = 1..n
      /\ DOMAIN h = 1..(n + 1)
      /\ \A k \in 1..n : g[k] \in Nat /\ h[k] = g[k]
      /\ h[n + 1] = Length[f]
      /\ h[n + 1] \in Nat
  BY <1>1, <1>3, <1>4, <1>5, FrameAssumption
<1>7. Sum(h) = Sum(g) + h[n + 1]
  BY <1>6, SumOfOneMore
<1>. QED
  BY <1>2, <1>4, <1>5, <1>6, <1>7 DEF Total, Sum

\* add_frame counts the frame it lets wait, and asks for room first.
LEMMA AddFrameFits ==
    ASSUME NEW q, Sound(q), SharesFit(q), NEW f \in Frame, NEW r, r = AddFrame(q, f)
    PROVE  SharesFit(r)
<1>1. q.set_queue \in Seq(Frame)
  BY FieldsOfType DEF Sound, TypedFields
<1>2. CASE /\ q.set_size + Length[f] < Capacity
           /\ r.set_size = q.set_size + Length[f]
           /\ r.set_queue = Append(q.set_queue, f)
           /\ Datas(r) = Datas(q)
  BY <1>1, <1>2, TotalOfOneMore DEF SharesFit
<1>3. CASE /\ r.set_size = q.set_size
           /\ r.set_queue = q.set_queue
           /\ Datas(r) = Datas(q) \cup {<<f>>}
  <2>1. PICK alone : alone = <<f>>
    OBVIOUS
  <2>2. ~ (Len(alone) > 1)
    BY <2>1
  <2>3. Datas(r) = Datas(q) \cup {alone}
    BY <1>3, <2>1
  <2>. QED
    BY <1>3, <2>2, <2>3 DEF SharesFit
<1>. QED
  BY <1>2, <1>3, AddFrameGrows

\* A method that packs nothing anew, or packs what waits, keeps that.
LEMMA RepackingFits ==
    ASSUME NEW q, SharesFit(q), NEW r,
           \/ /\ r.set_size = q.set_size
              /\ r.set_queue = q.set_queue
              /\ Datas(r) \subseteq Datas(q)
           \/ /\ q.set_queue # << >>
              /\ r.set_size = 0
              /\ r.set_queue = << >>
              /\ Datas(r) \subseteq Datas(q) \cup {q.set_queue}
    PROVE  SharesFit(r)
  BY TotalOfNone DEF SharesFit

LEMMA NextSharesFit ==
    ASSUME IInv, SharesFit(pq), [Next]_vars
    PROVE  SharesFit(pq)'
<1>1. ASSUME NEW f \in Frame, Send(f) PROVE SharesFit(pq')
  BY <1>1, AddFrameFits DEF IInv, Send
<1>2. ASSUME NEW cutoff \in 0..pq.send_min, FlushQueue(cutoff) PROVE SharesFit(pq')
  <2>1. PICK expired \in Orders(Expirable(pq, cutoff)) : pq' = AfterGetPacket(pq, expired)
    BY <1>2 DEF FlushQueue
  <2>2. /\ expired \in Seq(DOMAIN pq.queue)
        /\ \A i \in DOMAIN expired : expired[i] < pq.send_min
    BY OrdersAreSequences DEF IInv
  <2>3. \/ /\ pq'.set_size = pq.set_size
           /\ pq'.set_queue = pq.set_queue
           /\ Datas(pq') \subseteq Datas(pq)
        \/ /\ pq.set_queue # << >>
           /\ pq'.set_size = 0
           /\ pq'.set_queue = << >>
           /\ Datas(pq') \subseteq Datas(pq) \cup {pq.set_queue}
    BY <2>1, <2>2, GetPacketSound DEF IInv
  <2>. QED
    BY <2>3, RepackingFits
<1>3. ASSUME NEW m \in net, HandleAck(m) PROVE SharesFit(pq')
  <2>1. m \in Datagram /\ m.lo \in Nat /\ m.hi \in Nat /\ m.lo..m.hi \subseteq seen
    BY <1>3, DatagramFields DEF IInv, DatagramOK, TypeOK, HandleAck
  <2>2. PICK sequences : sequences = m.lo..m.hi
    OBVIOUS
  <2>3. \A s \in sequences : s \in Nat /\ s < pq.send_min
    BY <2>1, <2>2 DEF IInv, TypeOK
  <2>4. pq' = Received(pq, sequences)
    BY <1>3, <2>2 DEF HandleAck
  <2>5. /\ pq'.set_size = pq.set_size
        /\ pq'.set_queue = pq.set_queue
        /\ DOMAIN pq'.queue = DOMAIN pq.queue \ sequences
        /\ \A s \in DOMAIN pq'.queue : pq'.queue[s] = pq.queue[s]
    BY <2>3, <2>4, ReceivedSound DEF IInv
  <2>6. Datas(pq') \subseteq Datas(pq)
    BY <2>5 DEF Datas
  <2>. QED
    BY <2>5, <2>6, RepackingFits
<1>4. ASSUME NEW m \in net, HandleNack(m) PROVE SharesFit(pq')
  <2>1. m.number \in Nat /\ m.number < pq.send_min
    BY <1>4, DatagramFields DEF IInv, DatagramOK, TypeOK, HandleNack
  <2>2. /\ pq'.set_size = pq.set_size
        /\ pq'.set_queue = pq.set_queue
        /\ Datas(pq') \subseteq Datas(pq)
    BY <1>4, <2>1, ResendGrows DEF IInv, HandleNack
  <2>. QED
    BY <2>2, RepackingFits
<1>5. CASE UNCHANGED pq
  BY <1>5
<1>6. ASSUME NEW m \in net, Lose(m) \/ HandleDatagram(m) PROVE UNCHANGED pq
  BY <1>6 DEF Lose, HandleDatagram
<1>7. FlushAck => UNCHANGED pq
  BY DEF FlushAck
<1>8. UNCHANGED vars => UNCHANGED pq
  BY DEF vars
<1>. QED
  BY <1>1, <1>2, <1>3, <1>4, <1>5, <1>6, <1>7, <1>8 DEF Next

\* set_size is the size of what waits, and several frames share a set only below
\* mtu - 42 bytes (add_frame, packetqueue.rs:35-38), however often the sets are
\* renumbered.
THEOREM SharedSetsStayBelow == Spec => []SharedSetsFit
<1>1. Init => SharesFit(pq)
  <2> SUFFICES ASSUME Init PROVE SharesFit(pq)
    OBVIOUS
  <2>1. pq.queue = [k \in {} |-> k] /\ pq.set_size = 0 /\ pq.set_queue = << >>
    BY DEF Init, NewPacketQueue, EmptyMap
  <2>2. Datas(pq) = {}
    BY <2>1 DEF Datas
  <2>. QED
    BY <2>1, <2>2, TotalOfNone DEF SharesFit
<1>2. IInv /\ SharesFit(pq) /\ [Next]_vars => SharesFit(pq)'
  BY NextSharesFit
<1>3. SharesFit(pq) => SharedSetsFit
  BY DEF SharesFit, SharedSetsFit, Datas
<1>. QED
  BY <1>1, <1>2, <1>3, Invariance, PTL DEF Spec
=============================================================================
