--------------------------- MODULE AckClearProofs ---------------------------
(***************************************************************************)
(* The loop of ACKQueue::clear computes what AckQueue says of clear, from  *)
(* every book there can be: a loop invariant, kept by one iteration.  And  *)
(* what is sent of it comes out of the bytes of Ack and Nack as it went    *)
(* in: the fields, byte by byte, through the Writer and the Reader.        *)
(***************************************************************************)
EXTENDS AckClear, DataProofs

-----------------------------------------------------------------------------
(* The loop invariant.                                                      *)

\* The book is one a session can have: add stores only numbers of the window.
BookTyped ==
    /\ book = [lowest |-> book.lowest, highest |-> book.highest, store_seq |-> book.store_seq]
    /\ book.lowest \in Nat /\ book.highest \in Nat /\ book.lowest <= book.highest
    /\ book.store_seq \subseteq book.lowest..(book.highest - 1)

\* The numbers visited so far, and those of them that were seen.
Visited == book.lowest..(i - 1)
Seen    == book.store_seq \cap Visited

\* A range of the loop is a run of numbers seen that goes no further down, nor up
\* unless it ends with the number visited last.
IsRun(r) ==
    /\ r[1] <= r[2]
    /\ r[1]..r[2] \subseteq Seen
    /\ r[1] - 1 \notin book.store_seq
    /\ r[2] = i - 1 \/ r[2] + 1 \notin book.store_seq

RangesAreRuns ==
    /\ received \in Seq(Nat \X Nat)
    /\ \A k \in 1..Len(received) : IsRun(received[k])

\* They follow each other ...
RangesFollow == \A k, l \in 1..Len(received) : k < l => received[k][2] < received[l][1]

\* ... and leave no number seen out, not the last one either, which is in the last.
RangesCover ==
    /\ \A s \in Seen : \E k \in 1..Len(received) : received[k][1] <= s /\ s <= received[k][2]
    /\ i - 1 \in Seen => received # << >> /\ received[Len(received)][2] = i - 1

\* The other numbers visited are missing.
RestIsMissing ==
    /\ missing \in Seq(Nat)
    /\ Range(missing) = Visited \ book.store_seq

IInv ==
    /\ BookTyped
    /\ i \in book.lowest..book.highest
    /\ store_seq = book.store_seq \ Visited
    /\ RangesAreRuns
    /\ RangesFollow
    /\ RangesCover
    /\ RestIsMissing

LEMMA RangeOfAppend ==
    ASSUME NEW S, NEW s \in Seq(S), NEW x \in S
    PROVE  Range(Append(s, x)) = Range(s) \cup {x}
<1>1. /\ Append(s, x) \in Seq(S) /\ Len(Append(s, x)) = Len(s) + 1
      /\ \A k \in 1..Len(s) : Append(s, x)[k] = s[k]
      /\ Append(s, x)[Len(s) + 1] = x
  BY AppendProperties
<1>2. Len(s) \in Nat /\ DOMAIN s = 1..Len(s) /\ DOMAIN Append(s, x) = 1..(Len(s) + 1)
  BY <1>1, LenProperties
<1>3. \A k \in 1..(Len(s) + 1) : k \in 1..Len(s) \/ k = Len(s) + 1
  BY <1>2
<1>. QED
  BY <1>1, <1>2, <1>3 DEF Range

-----------------------------------------------------------------------------
(* One iteration, for each of the three things it can do (packet.rs:42-57). *)

LEMMA InitIInv == Init => IInv
<1>. SUFFICES ASSUME Init PROVE IInv
  OBVIOUS
<1>1. PICK base \in Bases : \E lowest, highest \in base..(base + MaxNumber) :
         /\ lowest <= highest
         /\ \E stored \in SUBSET (lowest..(highest - 1)) :
              book = [lowest |-> lowest, highest |-> highest, store_seq |-> stored]
  BY DEF Init
<1>2. PICK lowest \in base..(base + MaxNumber), highest \in base..(base + MaxNumber) :
         /\ lowest <= highest
         /\ \E stored \in SUBSET (lowest..(highest - 1)) :
              book = [lowest |-> lowest, highest |-> highest, store_seq |-> stored]
  BY <1>1
<1>3. base \in Nat /\ MaxNumber \in Nat
  BY AckClearAssumption
<1>4. BookTyped
  BY <1>2, <1>3 DEF BookTyped
<1>5. i = book.lowest /\ store_seq = book.store_seq /\ received = << >> /\ missing = << >>
  BY DEF Init
<1>6. Visited = {}
  BY <1>4, <1>5 DEF Visited, BookTyped
<1>7. Range(<< >>) = {}
  BY DEF Range
<1>. QED
  BY <1>4, <1>5, <1>6, <1>7 DEF IInv, BookTyped, Seen, RangesAreRuns, RangesFollow, RangesCover,
                                RestIsMissing

\* What one iteration does to the numbers visited.
Numbers ==
    /\ BookTyped /\ book' = book
    /\ i \in Nat /\ i' = i + 1 /\ book.lowest <= i /\ i < book.highest
    /\ Visited' = Visited \cup {i} /\ i \notin Visited
    /\ Seen' = IF i \in book.store_seq THEN Seen \cup {i} ELSE Seen
    /\ store_seq' = book.store_seq \ Visited'
    /\ \A n \in Seen : n \in Nat /\ n < i

LEMMA NumbersVisited == IInv /\ Iterate => Numbers
<1>. SUFFICES ASSUME IInv, Iterate PROVE Numbers
  OBVIOUS
<1>1. /\ BookTyped /\ i \in book.lowest..book.highest
      /\ store_seq = book.store_seq \ Visited
      /\ book.lowest \in Nat /\ book.highest \in Nat
  BY DEF IInv, BookTyped
<1>2. book' = book /\ i' = i + 1 /\ i < book.highest
  BY DEF Iterate
<1>3. Visited' = Visited \cup {i} /\ i \notin Visited
  BY <1>1, <1>2 DEF Visited
<1>4. Seen' = IF i \in book.store_seq THEN Seen \cup {i} ELSE Seen
  BY <1>2, <1>3 DEF Seen
<1>5. store_seq' = IF i \in store_seq THEN store_seq \ {i} ELSE store_seq
  BY DEF Iterate
<1>6. store_seq' = book.store_seq \ Visited'
  BY <1>1, <1>3, <1>5
<1>7. \A n \in Seen : n \in Nat /\ n < i
  BY <1>1 DEF Seen, Visited
<1>. QED
  BY <1>1, <1>2, <1>3, <1>4, <1>6, <1>7 DEF Numbers

\* The fields of a range, and the last one of received.
LEMMA RangeFields ==
    ASSUME RangesAreRuns, NEW k \in 1..Len(received)
    PROVE  /\ received[k] \in Nat \X Nat
           /\ received[k][1] \in Nat /\ received[k][2] \in Nat
           /\ IsRun(received[k])
<1>1. received[k] \in Nat \X Nat
  BY ElementOfSeq DEF RangesAreRuns
<1>. QED
  BY <1>1 DEF RangesAreRuns

\* A number that was not seen: it is missing, and no range goes up to it.
LEMMA MissedKeeps ==
    ASSUME IInv, Numbers, i \notin book.store_seq,
           missing' = Append(missing, i), received' = received
    PROVE  IInv'
<1>1. /\ RangesAreRuns /\ RangesFollow /\ RangesCover /\ RestIsMissing
  BY DEF IInv
<1>2. /\ BookTyped /\ book' = book /\ i \in Nat /\ i' = i + 1
      /\ book.lowest <= i /\ i < book.highest
      /\ Visited' = Visited \cup {i} /\ i \notin Visited /\ Seen' = Seen
      /\ store_seq' = book.store_seq \ Visited'
  BY DEF Numbers
<1>3. ASSUME NEW k \in 1..Len(received) PROVE IsRun(received[k])'
  <2>1. /\ received[k][2] \in Nat /\ IsRun(received[k])
    BY <1>1, RangeFields
  <2>2. received[k][2] + 1 \notin book.store_seq
    BY <1>2, <2>1 DEF IsRun
  <2>. QED
    BY <1>2, <2>1, <2>2 DEF IsRun
<1>4. RangesAreRuns'
  BY <1>1, <1>3 DEF RangesAreRuns
<1>5. RangesFollow'
  BY <1>1 DEF RangesFollow
<1>6. RangesCover'
  <2>1. i' - 1 = i /\ i \notin Seen
    BY <1>2 DEF Seen
  <2>. QED
    BY <1>1, <1>2, <2>1 DEF RangesCover
<1>7. RestIsMissing'
  <2>1. missing \in Seq(Nat) /\ Range(missing) = Visited \ book.store_seq
    BY <1>1 DEF RestIsMissing
  <2>2. Range(missing') = Range(missing) \cup {i}
    BY <1>2, <2>1, RangeOfAppend
  <2>3. missing' \in Seq(Nat)
    BY <1>2, <2>1, AppendProperties
  <2>. QED
    BY <1>2, <2>1, <2>2, <2>3 DEF RestIsMissing
<1>8. (i \in book.lowest..book.highest)' /\ BookTyped'
  BY <1>2 DEF BookTyped
<1>. QED
  BY <1>2, <1>4, <1>5, <1>6, <1>7, <1>8 DEF IInv

\* The number behind the last range extends it.
LEMMA ExtendedKeeps ==
    ASSUME IInv, Numbers, i \in book.store_seq, received # << >>,
           received[Len(received)][2] + 1 = i,
           received' = [received EXCEPT ![Len(received)] = <<received[Len(received)][1], i>>],
           missing' = missing
    PROVE  IInv'
<1> DEFINE last == Len(received)
           a    == received[last][1]
<1>1. /\ RangesAreRuns /\ RangesFollow /\ RangesCover /\ RestIsMissing
      /\ received \in Seq(Nat \X Nat)
  BY DEF IInv, RangesAreRuns
<1>2. /\ BookTyped /\ book' = book /\ i \in Nat /\ i' = i + 1
      /\ book.lowest <= i /\ i < book.highest
      /\ Visited' = Visited \cup {i} /\ i \notin Visited /\ Seen' = Seen \cup {i}
      /\ store_seq' = book.store_seq \ Visited'
      /\ \A n \in Seen : n \in Nat /\ n < i
  BY DEF Numbers
<1>3. last \in Nat /\ last \in 1..last /\ DOMAIN received = 1..last
  BY <1>1, EmptySeq, LenProperties
<1>4. /\ a \in Nat /\ received[last][2] \in Nat /\ IsRun(received[last])
  BY <1>1, <1>3, RangeFields
<1>5. /\ received' \in Seq(Nat \X Nat) /\ Len(received') = last
      /\ received'[last] = <<a, i>>
      /\ \A k \in 1..last : k # last => received'[k] = received[k]
  <2>1. <<a, i>> \in Nat \X Nat
    BY <1>2, <1>4
  <2>. QED
    BY <2>1, <1>1, <1>3, ExceptSeq
<1>6. ASSUME NEW k \in 1..last, k # last
      PROVE  /\ received[k][1] \in Nat /\ received[k][2] \in Nat /\ IsRun(received[k])
             /\ received[k][2] < a
  <2>1. k < last
    BY <1>3, <1>6
  <2>. QED
    BY <2>1, <1>1, <1>3, RangeFields DEF RangesFollow
<1>7. ASSUME NEW k \in 1..last PROVE IsRun(received[k])'
  <2>1. CASE k # last
    <3>1. /\ received[k][1] \in Nat /\ received[k][2] \in Nat /\ IsRun(received[k])
          /\ received[k][2] < a
      BY <1>6, <2>1
    <3>2. received[k][2] + 1 \notin book.store_seq
      BY <3>1, <1>2, <1>4 DEF IsRun
    <3>3. received'[k] = received[k]
      BY <1>5, <2>1
    <3>. QED
      BY <3>1, <3>2, <3>3, <1>2 DEF IsRun
  <2>2. CASE k = last
    <3>1. /\ a <= i - 1 /\ a..(i - 1) \subseteq Seen /\ a - 1 \notin book.store_seq
      BY <1>2, <1>4 DEF IsRun
    <3>2. a <= i /\ a..i \subseteq Seen \cup {i} /\ i = i' - 1
      BY <3>1, <1>2, <1>4
    <3>3. received'[k][1] = a /\ received'[k][2] = i
      BY <1>5, <2>2
    <3>. QED
      BY <3>1, <3>2, <3>3, <1>2 DEF IsRun
  <2>. QED
    BY <2>1, <2>2
<1>8. RangesAreRuns'
  BY <1>5, <1>7 DEF RangesAreRuns
<1>9. RangesFollow'
  <2>1. ASSUME NEW k \in 1..last, NEW l \in 1..last, k < l
        PROVE  received'[k][2] < received'[l][1]
    <3>1. k # last /\ received'[k] = received[k]
      BY <2>1, <1>3, <1>5
    <3>2. received[k][2] < received[l][1]
      BY <2>1, <1>1 DEF RangesFollow
    <3>3. received'[l][1] = received[l][1]
      BY <1>5
    <3>. QED
      BY <3>1, <3>2, <3>3
  <2>. QED
    BY <2>1, <1>5 DEF RangesFollow
<1>10. RangesCover'
  <2>1. ASSUME NEW s \in Seen
        PROVE  \E k \in 1..last : received'[k][1] <= s /\ s <= received'[k][2]
    <3>1. PICK k \in 1..last : received[k][1] <= s /\ s <= received[k][2]
      BY <1>1 DEF RangesCover
    <3>2. CASE k # last
      BY <3>1, <3>2, <1>5
    <3>3. CASE k = last
      <4>1. received'[last][1] = a /\ received'[last][2] = i /\ s < i /\ s \in Nat
        BY <1>2, <1>5
      <4>. QED
        BY <3>1, <3>3, <4>1, <1>2, <1>3
    <3>. QED
      BY <3>2, <3>3
  <2>2. \E k \in 1..last : received'[k][1] <= i /\ i <= received'[k][2]
    <3>1. received'[last][1] = a /\ received'[last][2] = i /\ a <= i
      BY <1>2, <1>4, <1>5 DEF IsRun
    <3>. QED
      BY <3>1, <1>2, <1>3
  <2>3. received' # << >> /\ received'[Len(received')][2] = i' - 1
    <3>1. received'[last][2] = i /\ i' - 1 = i
      BY <1>2, <1>5
    <3>2. Len(received') # 0
      BY <1>3, <1>5
    <3>. QED
      BY <3>1, <3>2, <1>5, EmptySeq
  <2>. QED
    BY <2>1, <2>2, <2>3, <1>2, <1>5 DEF RangesCover
<1>11. RestIsMissing'
  BY <1>1, <1>2 DEF RestIsMissing
<1>12. (i \in book.lowest..book.highest)' /\ BookTyped'
  BY <1>2 DEF BookTyped
<1>. QED
  BY <1>2, <1>8, <1>9, <1>10, <1>11, <1>12 DEF IInv

\* Any other number seen opens a range: no range ended just below it.
LEMMA OpenedKeeps ==
    ASSUME IInv, Numbers, i \in book.store_seq,
           ~ (received # << >> /\ received[Len(received)][2] + 1 = i),
           received' = Append(received, <<i, i>>),
           missing' = missing
    PROVE  IInv'
<1> DEFINE last == Len(received)
<1>1. /\ RangesAreRuns /\ RangesFollow /\ RangesCover /\ RestIsMissing
      /\ received \in Seq(Nat \X Nat)
  BY DEF IInv, RangesAreRuns
<1>2. /\ BookTyped /\ book' = book /\ i \in Nat /\ i' = i + 1
      /\ book.lowest <= i /\ i < book.highest
      /\ Visited' = Visited \cup {i} /\ i \notin Visited /\ Seen' = Seen \cup {i}
      /\ store_seq' = book.store_seq \ Visited'
      /\ \A n \in Seen : n \in Nat /\ n < i
  BY DEF Numbers
<1>3. last \in Nat /\ DOMAIN received = 1..last /\ (last # 0 => received # << >>)
  BY <1>1, EmptySeq, LenProperties
<1>4. /\ received' \in Seq(Nat \X Nat) /\ Len(received') = last + 1
      /\ received'[last + 1] = <<i, i>>
      /\ \A k \in 1..last : received'[k] = received[k]
  <2>1. <<i, i>> \in Nat \X Nat
    BY <1>2
  <2>. QED
    BY <2>1, <1>1, AppendProperties
<1>5. ASSUME NEW k \in 1..last
      PROVE  /\ received[k][1] \in Nat /\ received[k][2] \in Nat /\ IsRun(received[k])
             /\ received[k][2] < i
  <2>1. /\ received[k][1] \in Nat /\ received[k][2] \in Nat /\ IsRun(received[k])
    BY <1>1, RangeFields
  <2>2. received[k][2] \in Seen
    BY <2>1 DEF IsRun
  <2>. QED
    BY <2>1, <2>2, <1>2
<1>6. ASSUME NEW k \in 1..last PROVE received[k][2] # i - 1
  <2>1. SUFFICES ASSUME received[k][2] = i - 1 PROVE FALSE
    OBVIOUS
  <2>2. CASE k = last
    <3>1. received # << >>
      BY <2>2, <1>3
    <3>2. received[last][2] + 1 = i
      BY <2>1, <2>2, <1>2
    <3>. QED
      BY <3>1, <3>2
  <2>3. CASE k # last
    <3>1. last \in 1..last /\ k < last
      <4>. HIDE DEF last
      <4>. QED
        BY <2>3, <1>3
    <3>2. /\ received[last][1] \in Nat /\ received[last][2] \in Nat /\ received[last][2] < i
          /\ received[last][1] <= received[last][2]
      BY <3>1, <1>5 DEF IsRun
    <3>3. received[k][2] < received[last][1]
      BY <3>1, <1>1 DEF RangesFollow
    <3>. QED
      BY <2>1, <3>2, <3>3, <1>2
  <2>. QED
    BY <2>2, <2>3
<1>7. i - 1 \notin book.store_seq
  <2>1. SUFFICES ASSUME i - 1 \in book.store_seq PROVE FALSE
    OBVIOUS
  <2>2. i - 1 \in Seen
    BY <2>1, <1>2 DEF Seen, Visited, BookTyped
  <2>3. received # << >> /\ received[last][2] = i - 1
    BY <2>2, <1>1 DEF RangesCover
  <2>. QED
    BY <2>3, <1>2
<1>8. ASSUME NEW k \in 1..(last + 1) PROVE IsRun(received[k])'
  <2>1. CASE k \in 1..last
    <3>1. /\ received[k][1] \in Nat /\ received[k][2] \in Nat /\ IsRun(received[k])
          /\ received[k][2] # i - 1
      BY <1>5, <1>6, <2>1
    <3>2. received[k][2] + 1 \notin book.store_seq
      BY <3>1 DEF IsRun
    <3>3. received'[k] = received[k]
      BY <1>4, <2>1
    <3>. QED
      BY <3>1, <3>2, <3>3, <1>2 DEF IsRun
  <2>2. CASE k = last + 1
    <3>1. received'[k][1] = i /\ received'[k][2] = i /\ i = i' - 1
      BY <1>2, <1>4, <2>2
    <3>2. i <= i /\ i..i \subseteq Seen \cup {i}
      BY <1>2
    <3>. QED
      BY <3>1, <3>2, <1>2, <1>7 DEF IsRun
  <2>. QED
    BY <2>1, <2>2, <1>3
<1>9. RangesAreRuns'
  BY <1>4, <1>8 DEF RangesAreRuns
<1>10. RangesFollow'
  <2>1. ASSUME NEW k \in 1..(last + 1), NEW l \in 1..(last + 1), k < l
        PROVE  received'[k][2] < received'[l][1]
    <3>0. k \in 1..last
      BY <2>1, <1>3
    <3>1. k \in 1..last /\ received'[k] = received[k] /\ received[k][2] < i
      BY <3>0, <1>4, <1>5
    <3>2. CASE l \in 1..last
      <4>1. received[k][2] < received[l][1]
        BY <3>1, <3>2, <2>1, <1>1 DEF RangesFollow
      <4>. QED
        BY <3>1, <3>2, <4>1, <1>4
    <3>3. CASE l = last + 1
      BY <3>1, <3>3, <1>4
    <3>. QED
      BY <3>2, <3>3, <1>3
  <2>. QED
    BY <2>1, <1>4 DEF RangesFollow
<1>11. RangesCover'
  <2>0. last + 1 \in 1..(last + 1) /\ 1..last \subseteq 1..(last + 1)
    BY <1>3
  <2>1. ASSUME NEW s \in Seen
        PROVE  \E k \in 1..(last + 1) : received'[k][1] <= s /\ s <= received'[k][2]
    <3>1. PICK k \in 1..last : received[k][1] <= s /\ s <= received[k][2]
      BY <1>1 DEF RangesCover
    <3>2. received'[k] = received[k]
      BY <1>4
    <3>. QED
      BY <2>0, <3>1, <3>2
  <2>2. \E k \in 1..(last + 1) : received'[k][1] <= i /\ i <= received'[k][2]
    <3>1. received'[last + 1][1] = i /\ received'[last + 1][2] = i
      BY <1>4
    <3>. QED
      BY <2>0, <3>1, <1>2
  <2>3. received' # << >> /\ received'[Len(received')][2] = i' - 1
    <3>1. received'[last + 1][2] = i /\ i' - 1 = i
      BY <1>2, <1>4
    <3>2. Len(received') # 0
      BY <1>3, <1>4
    <3>. QED
      BY <3>1, <3>2, <1>4, EmptySeq
  <2>. QED
    BY <2>1, <2>2, <2>3, <1>2, <1>4 DEF RangesCover
<1>12. RestIsMissing'
  BY <1>1, <1>2 DEF RestIsMissing
<1>13. (i \in book.lowest..book.highest)' /\ BookTyped'
  BY <1>2 DEF BookTyped
<1>. QED
  BY <1>2, <1>9, <1>10, <1>11, <1>12, <1>13 DEF IInv

LEMMA NextIInv == IInv /\ [Next]_vars => IInv'
<1>. SUFFICES ASSUME IInv, [Next]_vars PROVE IInv'
  OBVIOUS
<1>1. CASE Iterate
  <2>1. Numbers
    BY <1>1, NumbersVisited
  <2>2. i \in store_seq <=> i \in book.store_seq
    BY <2>1 DEF IInv, Numbers
  <2>3. CASE i \notin book.store_seq
    <3>1. missing' = Append(missing, i) /\ received' = received
      BY <1>1, <2>2, <2>3 DEF Iterate
    <3>. QED
      BY <3>1, <2>1, <2>3, MissedKeeps
  <2>4. CASE i \in book.store_seq
    <3>1. missing' = missing /\ received' = Extend(received, i)
      BY <1>1, <2>2, <2>4 DEF Iterate
    <3>2. CASE received # << >> /\ received[Len(received)][2] + 1 = i
      <4>1. received' = [received EXCEPT ![Len(received)] = <<received[Len(received)][1], i>>]
        BY <3>1, <3>2 DEF Extend
      <4>. QED
        BY <4>1, <3>1, <3>2, <2>1, <2>4, ExtendedKeeps
    <3>3. CASE ~ (received # << >> /\ received[Len(received)][2] + 1 = i)
      <4>1. received' = Append(received, <<i, i>>)
        BY <3>1, <3>3 DEF Extend
      <4>. QED
        BY <4>1, <3>1, <3>3, <2>1, <2>4, OpenedKeeps
    <3>. QED
      BY <3>2, <3>3
  <2>. QED
    BY <2>3, <2>4
<1>2. CASE UNCHANGED vars
  BY <1>2 DEF vars, IInv, BookTyped, Visited, Seen, RangesAreRuns, IsRun, RangesFollow,
              RangesCover, RestIsMissing
<1>. QED
  BY <1>1, <1>2 DEF Next

-----------------------------------------------------------------------------
(* The theorems.                                                            *)

\* The loop invariant holds in every reachable state.
THEOREM Invariance == Spec => []IInv
BY InitIInv, NextIInv, PTL DEF Spec

\* At the end the ranges are the longest runs of the numbers seen.
LEMMA DoneRanges ==
    ASSUME IInv, Done
    PROVE  /\ \A k \in 1..Len(received) : received[k] \in AckRanges(book)
           /\ \A r \in AckRanges(book) : \E k \in 1..Len(received) : received[k] = r
<1>1. /\ RangesAreRuns /\ RangesFollow /\ RangesCover /\ BookTyped /\ i = book.highest
      /\ book.highest \in Nat
  BY DEF IInv, Done, BookTyped
<1>2. Seen = book.store_seq \cap Window(book) /\ Seen = book.store_seq
  BY <1>1 DEF Seen, Visited, Window, BookTyped
<1>3. \A n \in book.store_seq : n \in Nat /\ n < book.highest
  BY <1>1 DEF BookTyped
<1>4. ASSUME NEW k \in 1..Len(received)
      PROVE  /\ received[k] = <<received[k][1], received[k][2]>>
             /\ received[k][1] \in Nat /\ received[k][2] \in Nat
             /\ received[k][1] <= received[k][2]
             /\ received[k][1]..received[k][2] \subseteq Seen
             /\ received[k][1] - 1 \notin Seen
             /\ received[k][2] + 1 \notin Seen
  <2>1. /\ received[k] \in Nat \X Nat
        /\ received[k][1] \in Nat /\ received[k][2] \in Nat /\ IsRun(received[k])
    BY <1>1, RangeFields
  <2>2. received[k][2] + 1 \notin Seen
    BY <2>1, <1>1, <1>2, <1>3 DEF IsRun
  <2>. QED
    BY <2>1, <2>2, <1>2 DEF IsRun
<1>5. ASSUME NEW k \in 1..Len(received) PROVE received[k] \in AckRanges(book)
  <2>1. received[k][1] \in Seen /\ received[k][2] \in Seen
    <3> DEFINE a == received[k][1]
               b == received[k][2]
    <3>1. a \in Nat /\ b \in Nat /\ a <= b /\ a..b \subseteq Seen
      BY <1>4
    <3>. HIDE DEF a, b
    <3>2. a \in Seen /\ b \in Seen
      BY <3>1
    <3>. QED
      BY <3>2 DEF a, b
  <2>2. received[k] \in Seen \X Seen
    <3> DEFINE a == received[k][1]
               b == received[k][2]
    <3>1. received[k] = <<a, b>> /\ a \in Seen /\ b \in Seen
      BY <2>1, <1>4
    <3>. HIDE DEF a, b
    <3>. QED
      BY <3>1
  <2> DEFINE r == received[k]
  <2>3. /\ r \in Seen \X Seen /\ r[1] <= r[2] /\ r[1]..r[2] \subseteq Seen
        /\ r[1] - 1 \notin Seen /\ r[2] + 1 \notin Seen
    BY <2>2, <1>4
  <2>. HIDE DEF r
  <2>4. r \in AckRanges(book)
    BY <2>3, <1>2 DEF AckRanges
  <2>. QED
    BY <2>4 DEF r
<1>6. ASSUME NEW r \in AckRanges(book) PROVE \E k \in 1..Len(received) : received[k] = r
  <2>1. /\ r \in Seen \X Seen /\ r[1] <= r[2] /\ r[1]..r[2] \subseteq Seen
        /\ r[1] - 1 \notin Seen /\ r[2] + 1 \notin Seen
    BY <1>2 DEF AckRanges
  <2>2. r = <<r[1], r[2]>> /\ r[1] \in Seen /\ r[1] \in Nat /\ r[2] \in Nat
    BY <2>1, <1>2, <1>3
  <2>3. PICK k \in 1..Len(received) : received[k][1] <= r[1] /\ r[1] <= received[k][2]
    BY <2>2, <1>1 DEF RangesCover
  <2> DEFINE a == received[k][1]
             b == received[k][2]
  <2>4. /\ received[k] = <<a, b>> /\ a \in Nat /\ b \in Nat
        /\ a..b \subseteq Seen /\ a - 1 \notin Seen /\ b + 1 \notin Seen
        /\ a <= r[1] /\ r[1] <= b
    BY <1>4, <2>3
  <2>. HIDE DEF a, b
  <2>5. a = r[1]
    <3>1. a < r[1] => r[1] - 1 \in a..b
      BY <2>2, <2>4
    <3>. QED
      BY <3>1, <2>1, <2>2, <2>4
  <2>6. b = r[2]
    <3>1. b < r[2] => b + 1 \in r[1]..r[2]
      BY <2>2, <2>4
    <3>2. r[2] < b => r[2] + 1 \in a..b
      BY <2>1, <2>2, <2>4
    <3>. QED
      BY <3>1, <3>2, <2>1, <2>2, <2>4
  <2>. QED
    BY <2>2, <2>4, <2>5, <2>6
<1>. QED
  BY <1>5, <1>6

\* When the loop ends it has reported the longest runs of the numbers seen, each
\* once, and the numbers missing between them, and has emptied the store: what
\* AckRanges, Missing and AfterClear say of clear (packet.rs:37).
THEOREM LoopComputesClear == Spec => []ComputesClear
<1>1. IInv => ComputesClear
  <2>. SUFFICES ASSUME IInv, Done
                PROVE  /\ Range(received) = AckRanges(book)
                       /\ Len(received) = Cardinality(AckRanges(book))
                       /\ Range(missing) = Missing(book)
                       /\ store_seq = AfterClear(book).store_seq
    BY DEF ComputesClear
  <2>1. /\ RangesAreRuns /\ RangesFollow /\ RestIsMissing /\ received \in Seq(Nat \X Nat)
        /\ i = book.highest /\ Visited = Window(book)
        /\ store_seq = book.store_seq \ Visited
    BY DEF IInv, Done, RangesAreRuns, Visited, Window
  <2>2. Len(received) \in Nat /\ DOMAIN received = 1..Len(received)
    BY <2>1, LenProperties
  <2>3. /\ \A k \in 1..Len(received) : received[k] \in AckRanges(book)
        /\ \A r \in AckRanges(book) : \E k \in 1..Len(received) : received[k] = r
    BY DoneRanges
  <2>4. Range(received) = AckRanges(book)
    BY <2>2, <2>3 DEF Range
  <2>5. Len(received) = Cardinality(AckRanges(book))
    <3> DEFINE S == 1..Len(received)
               T == AckRanges(book)
    <3>1. IsFiniteSet(S) /\ Cardinality(S) = Len(received)
      <4>1. /\ 1 \in Int /\ Len(received) \in Int
            /\ (Len(received) - 1) + 1 = Len(received)
            /\ 1 > Len(received) <=> Len(received) = 0
        BY <2>2
      <4>. QED
        BY <4>1, FS_Interval
    <3>2. received \in [S -> T]
      <4>1. received = [k \in S |-> received[k]]
        BY <2>1, LenProperties
      <4>. QED
        BY <4>1, <2>3
    <3>3. ASSUME NEW k \in S, NEW l \in S, received[k] = received[l] PROVE k = l
      <4>1. /\ received[k][1] \in Nat /\ received[k][2] \in Nat
            /\ received[k][1] <= received[k][2]
        BY <2>1, RangeFields DEF IsRun
      <4>2. ~ (k < l) /\ ~ (l < k)
        BY <4>1, <3>3, <2>1 DEF RangesFollow
      <4>. QED
        BY <4>2, <2>2
    <3>4. received \in Surjection(S, T)
      BY <3>2, <2>3 DEF Surjection
    <3>5. received \in Injection(S, T)
      <4>1. IsInjective(received)
        BY <2>2, <3>3 DEF IsInjective
      <4>. QED
        BY <4>1, <3>2 DEF Injection
    <3>. HIDE DEF S, T
    <3>6. Cardinality(T) = Cardinality(S)
      BY <3>1, <3>4, <3>5, FS_Surjection
    <3>. QED
      BY <3>1, <3>6 DEF T
  <2>6. Range(missing) = Missing(book)
    BY <2>1 DEF RestIsMissing, Missing
  <2>7. store_seq = AfterClear(book).store_seq
    <3>1. book = [lowest |-> book.lowest, highest |-> book.highest, store_seq |-> book.store_seq]
      BY DEF IInv, BookTyped
    <3>. QED
      BY <2>1, <3>1 DEF AfterClear
  <2>. QED
    BY <2>4, <2>5, <2>6, <2>7
<1>. QED
  BY <1>1, Invariance, PTL
-----------------------------------------------------------------------------
(* An ACK, or a NACK, through the Writer and the Reader.                    *)

Field1 == <<"record_count", "u16">>
Field2 == <<"max_equals_min", "u8">>
Field3 == <<"first", "u24">>
Field4 == <<"last", "u24">>

\* The fields of one number, and of more.
LEMMA AckFieldsAre ==
    ASSUME NEW r, NEW fields, fields = AckFields(r)
    PROVE  /\ fields[1] = Field1 /\ fields[2] = Field2 /\ fields[3] = Field3
           /\ r[1] = r[2] => OfLength(fields, 3)
           /\ r[1] # r[2] => OfLength(fields, 4) /\ fields[4] = Field4
<1> DEFINE S == {Field1, Field2, Field3, Field4}
<1>1. PICK s, t : s = <<Field1, Field2, Field3>> /\ t = <<Field4>>
  OBVIOUS
<1>2. s \in Seq(S) /\ Len(s) = 3 /\ s[1] = Field1 /\ s[2] = Field2 /\ s[3] = Field3
      /\ OfLength(s, 3)
  BY <1>1 DEF OfLength
<1>3. t \in Seq(S) /\ Len(t) = 1 /\ t[1] = Field4
  BY <1>1
<1>. HIDE DEF S
<1>4. ASSUME r[1] = r[2] PROVE fields = s
  <2>1. fields = s \o << >>
    BY <1>1, <1>4 DEF AckFields, Field1, Field2, Field3
  <2>. QED
    BY <1>2, <2>1, ConcatEmptySeq
<1>5. ASSUME r[1] # r[2]
      PROVE  /\ OfLength(fields, 4)
             /\ fields[1] = Field1 /\ fields[2] = Field2 /\ fields[3] = Field3 /\ fields[4] = Field4
  <2>1. fields = s \o t
    BY <1>1, <1>5 DEF AckFields, Field1, Field2, Field3, Field4
  <2>2. /\ s \o t \in Seq(S) /\ Len(s \o t) = Len(s) + Len(t)
        /\ \A k \in 1..(Len(s) + Len(t)) : (s \o t)[k] = IF k <= Len(s) THEN s[k] ELSE t[k - Len(s)]
    BY <1>2, <1>3, ConcatProperties
  <2>3. /\ fields \in Seq(S) /\ Len(fields) = 4
        /\ \A k \in 1..4 : fields[k] = IF k <= 3 THEN s[k] ELSE t[k - 3]
    BY <1>2, <1>3, <2>1, <2>2
  <2>4. OfLength(fields, 4)
    BY <2>3, LenProperties DEF OfLength
  <2>5. 4 - 3 = 1 /\ 1 \in 1..4 /\ 2 \in 1..4 /\ 3 \in 1..4 /\ 4 \in 1..4
    OBVIOUS
  <2>6. fields[4] = t[4 - 3]
    BY <2>3, <2>5
  <2>. QED
    BY <1>2, <1>3, <2>3, <2>4, <2>5, <2>6
<1>. QED
  BY <1>2, <1>4, <1>5

AckValues(r) == [record_count |-> 1, max_equals_min |-> IF r[1] = r[2] THEN 1 ELSE 0,
                 first |-> r[1], last |-> r[2]]

IsRange(r, a, b) == r = <<a, b>> /\ a \in Nat /\ b \in Nat /\ a < U24 /\ b < U24

LEMMA FieldNames ==
    /\ Field1[1] = "record_count" /\ Field1[2] = "u16"
    /\ Field2[1] = "max_equals_min" /\ Field2[2] = "u8"
    /\ Field3[1] = "first" /\ Field3[2] = "u24"
    /\ Field4[1] = "last" /\ Field4[2] = "u24"
  BY DEF Field1, Field2, Field3, Field4

\* Each value fits in the bytes of its field.
LEMMA AckValuesFit ==
    ASSUME NEW r, NEW a, NEW b, IsRange(r, a, b), NEW v, v = AckValues(r)
    PROVE  /\ Fits("u16", v["record_count"], 2)
           /\ Fits("u8", v["max_equals_min"], 1)
           /\ Fits("u24", v["first"], 3)
           /\ Fits("u24", v["last"], 3)
<1>1. r[1] = a /\ r[2] = b /\ a \in Nat /\ b \in Nat /\ a < U24 /\ b < U24
  BY DEF IsRange
<1>2. /\ v["record_count"] = 1 /\ v["first"] = a /\ v["last"] = b
      /\ v["max_equals_min"] \in Nat
  BY <1>1 DEF AckValues
<1>3. 1 \in Nat /\ 1 < U16
  BY SMT DEF U16
<1>. QED
  BY <1>1, <1>2, <1>3 DEF Fits

AckFine(fields, v, n) == \A k \in 1..n : Fine(fields, v, v, n, k)

LEMMA AckIsFine ==
    ASSUME NEW r, NEW a, NEW b, IsRange(r, a, b), NEW v, v = AckValues(r),
           NEW fields, fields = AckFields(r)
    PROVE  \E n : /\ n = (IF a = b THEN 3 ELSE 4)
                  /\ OfLength(fields, n) /\ AckFine(fields, v, n)
<1>1. r[1] = a /\ r[2] = b
  BY DEF IsRange
<1>2. PICK n : n = IF a = b THEN 3 ELSE 4
  OBVIOUS
<1>3. /\ fields[1] = Field1 /\ fields[2] = Field2 /\ fields[3] = Field3
      /\ r[1] = r[2] => OfLength(fields, 3)
      /\ r[1] # r[2] => OfLength(fields, 4) /\ fields[4] = Field4
  BY AckFieldsAre
<1>4. OfLength(fields, n) /\ (n = 3 \/ (n = 4 /\ fields[4] = Field4))
  BY <1>1, <1>2, <1>3
<1>5. /\ Fits("u16", v["record_count"], 2) /\ Fits("u8", v["max_equals_min"], 1)
      /\ Fits("u24", v["first"], 3) /\ Fits("u24", v["last"], 3)
  BY AckValuesFit
<1>6. /\ \E w : Fits(Field1[2], v[Field1[1]], w)
      /\ \E w : Fits(Field2[2], v[Field2[1]], w)
      /\ \E w : Fits(Field3[2], v[Field3[1]], w)
      /\ \E w : Fits(Field4[2], v[Field4[1]], w)
  BY <1>5, FieldNames
<1>7. Field1[2] # "zero" /\ Field2[2] # "zero" /\ Field3[2] # "zero" /\ Field4[2] # "zero"
  BY FieldNames
<1>8. ASSUME NEW k \in 1..n PROVE Fine(fields, v, v, n, k)
  <2>1. k = 1 \/ k = 2 \/ k = 3 \/ (k = 4 /\ n = 4)
    BY <1>4
  <2>2. \/ fields[k] = Field1 \/ fields[k] = Field2 \/ fields[k] = Field3 \/ fields[k] = Field4
    BY <1>3, <1>4, <2>1
  <2>3. (\E w : Fits(fields[k][2], v[fields[k][1]], w)) /\ fields[k][2] # "zero"
    BY <1>6, <1>7, <2>2
  <2>. QED
    BY <2>3 DEF Fine, Fitting
<1>. QED
  BY <1>2, <1>4, <1>8 DEF AckFine

\* The name of a field is among the names.
LEMMA NameOf ==
    ASSUME NEW fields, NEW n, NEW k \in 1..n, NEW name, fields[k][1] = name, name # "_"
    PROVE  name \in Names(fields, n)
  BY Zenon DEF Names

\* What is read of the first fields of an ACK.
LEMMA AckRead ==
    ASSUME NEW v, NEW fields, NEW n, OfLength(fields, n), AckFine(fields, v, n),
           NEW part, NEW l \in 3..4, l <= n, IsFirst(part, fields, l)
    PROVE  /\ WriteAll(fields, v) \in Seq(Nat)
           /\ \E w : /\ w = ReadAll(part, WriteAll(fields, v)).values
                     /\ \A name \in Names(part, l) : w[name] = v[name]
<1>1. n \in Nat /\ n > 0 /\ l \in 1..n
  BY DEF OfLength
<1>2. \A k \in 1..n : Fine(fields, v, v, n, k)
  BY DEF AckFine
<1>3. ReadsFirst(part, fields, v, v, n, l)
  BY <1>1, <1>2, FirstRead
<1>4. WriteAll(fields, v) \in Seq(Nat) /\ \E p : ReadAll(part, WriteAll(fields, v)) = At(p, Names(part, l), v)
  BY <1>3 DEF ReadsFirst
<1>5. ReadAll(part, WriteAll(fields, v)).values = [x \in Names(part, l) |-> v[x]]
  BY <1>4 DEF At
<1>. QED
  BY <1>4, <1>5

\* An ACK, or a NACK, is read as the range it was written from.
LEMMA AckRoundTrip ==
    ASSUME NEW a \in Nat, NEW b \in Nat, a < U24, b < U24, NEW id \in Nat,
           NEW r, r = <<a, b>>
    PROVE  ReadAck(WriteAck(id, r)) = r
<1>1. IsRange(r, a, b) /\ r[1] = a /\ r[2] = b
  BY DEF IsRange
<1>2. PICK v, fields : v = AckValues(r) /\ fields = AckFields(r)
  OBVIOUS
<1>3. PICK n : n = (IF a = b THEN 3 ELSE 4) /\ OfLength(fields, n) /\ AckFine(fields, v, n)
  BY <1>1, <1>2, AckIsFine
<1>4. PICK buf : buf = WriteAll(fields, v)
  OBVIOUS
<1>5. PICK one, both : one = AckFields(<<0, 0>>) /\ both = AckFields(<<0, 1>>)
  OBVIOUS
<1>6. /\ OfLength(one, 3) /\ one[1] = Field1 /\ one[2] = Field2 /\ one[3] = Field3
      /\ OfLength(both, 4)
      /\ both[1] = Field1 /\ both[2] = Field2 /\ both[3] = Field3 /\ both[4] = Field4
  <2>1. PICK x, y : x = <<0, 0>> /\ y = <<0, 1>>
    OBVIOUS
  <2>2. x[1] = x[2] /\ y[1] # y[2]
    BY <2>1
  <2>. QED
    BY <1>5, <2>1, <2>2, AckFieldsAre
<1>7. /\ fields[1] = Field1 /\ fields[2] = Field2 /\ fields[3] = Field3
      /\ a # b => fields[4] = Field4
  BY <1>1, <1>2, AckFieldsAre
<1>8. 3 \in 3..4 /\ 4 \in 3..4 /\ 3 <= n /\ (a # b => 4 <= n)
  BY <1>3
<1>9. \A k \in 1..3 : one[k] = fields[k]
  <2>1. \A k \in 1..3 : k = 1 \/ k = 2 \/ k = 3
    OBVIOUS
  <2>. QED
    BY <1>6, <1>7, <2>1
<1>10. ASSUME a # b PROVE \A k \in 1..4 : both[k] = fields[k]
  <2>1. \A k \in 1..4 : k = 1 \/ k = 2 \/ k = 3 \/ k = 4
    OBVIOUS
  <2>. QED
    BY <1>6, <1>7, <1>10, <2>1
<1>11. /\ buf \in Seq(Nat)
       /\ \E w : /\ w = ReadAll(one, buf).values
                 /\ \A name \in Names(one, 3) : w[name] = v[name]
  <2>1. /\ WriteAll(fields, v) \in Seq(Nat)
        /\ \E w : /\ w = ReadAll(one, WriteAll(fields, v)).values
                  /\ \A name \in Names(one, 3) : w[name] = v[name]
    BY <1>3, <1>6, <1>8, <1>9, AckRead DEF IsFirst
  <2>. QED
    BY <1>4, <2>1
<1>12. a # b => \E w : /\ w = ReadAll(both, buf).values
                       /\ \A name \in Names(both, 4) : w[name] = v[name]
  <2>. SUFFICES ASSUME a # b
                PROVE  \E w : /\ w = ReadAll(both, buf).values
                              /\ \A name \in Names(both, 4) : w[name] = v[name]
    OBVIOUS
  <2>1. \A k \in 1..4 : both[k] = fields[k]
    BY <1>10
  <2>2. /\ WriteAll(fields, v) \in Seq(Nat)
        /\ \E w : /\ w = ReadAll(both, WriteAll(fields, v)).values
                  /\ \A name \in Names(both, 4) : w[name] = v[name]
    BY <1>3, <1>6, <1>8, <2>1, AckRead DEF IsFirst
  <2>. QED
    BY <1>4, <2>2
<1>13. "first" \in Names(one, 3) /\ "max_equals_min" \in Names(one, 3)
  <2>1. 2 \in 1..3 /\ 3 \in 1..3
    OBVIOUS
  <2>2. one[2][1] = "max_equals_min" /\ one[3][1] = "first"
    BY <1>6, FieldNames
  <2>3. "first" # "_" /\ "max_equals_min" # "_"
    BY Zenon
  <2>. QED
    BY <2>1, <2>2, <2>3, NameOf, Zenon
<1>14. "first" \in Names(both, 4) /\ "last" \in Names(both, 4)
  <2>1. 3 \in 1..4 /\ 4 \in 1..4
    OBVIOUS
  <2>2. both[3][1] = "first" /\ both[4][1] = "last"
    BY <1>6, FieldNames
  <2>3. "first" # "_" /\ "last" # "_"
    BY Zenon
  <2>. QED
    BY <2>1, <2>2, <2>3, NameOf, Zenon
<1>15. /\ v["max_equals_min"] = (IF a = b THEN 1 ELSE 0)
       /\ v["first"] = a /\ v["last"] = b
  BY <1>1, <1>2 DEF AckValues
<1>16. PICK x, y : x = ReadAll(one, buf).values /\ y = ReadAll(both, buf).values
  OBVIOUS
<1>17. PICK bytes : bytes = WriteAck(id, r)
  OBVIOUS
<1>18. bytes = <<id>> \o buf
  BY <1>2, <1>4, <1>17 DEF WriteAck, AckValues
<1>19. Tail(bytes) = buf
  BY <1>11, <1>18
<1>20. ReadAck(bytes) = IF x["max_equals_min"] # 0 THEN <<x["first"], x["first"]>>
                        ELSE <<y["first"], y["last"]>>
  BY <1>5, <1>16, <1>19 DEF ReadAck
<1>21. x["max_equals_min"] = (IF a = b THEN 1 ELSE 0) /\ x["first"] = a
  BY <1>11, <1>13, <1>15, <1>16
<1>22. a # b => y["first"] = a /\ y["last"] = b
  BY <1>12, <1>14, <1>15, <1>16
<1>23. ReadAck(bytes) = r
  <2>1. CASE a = b
    BY <1>20, <1>21, <2>1
  <2>2. CASE a # b
    BY <1>20, <1>21, <1>22, <2>2
  <2>. QED
    BY <2>1, <2>2
<1>. QED
  BY <1>17, <1>23
-----------------------------------------------------------------------------
(* What the sender hears.                                                   *)

\* The numbers of the book fit in the three bytes they are sent in.
BookFits == book.highest <= U24

LEMMA U24IsNat == U24 \in Nat
  BY SMT DEF U24

LEMMA InitFits == Init => BookFits
<1>. SUFFICES ASSUME Init PROVE BookFits
  OBVIOUS
<1>1. PICK base \in Bases : \E lowest, highest \in base..(base + MaxNumber) :
         /\ lowest <= highest
         /\ \E stored \in SUBSET (lowest..(highest - 1)) :
              book = [lowest |-> lowest, highest |-> highest, store_seq |-> stored]
  BY DEF Init
<1>2. PICK lowest \in base..(base + MaxNumber), highest \in base..(base + MaxNumber) :
         \E stored \in SUBSET (lowest..(highest - 1)) :
              book = [lowest |-> lowest, highest |-> highest, store_seq |-> stored]
  BY <1>1
<1>3. PICK u \in Nat : u = U24
  BY U24IsNat
<1>4. MaxNumber \in Nat /\ base \in 0..(u - MaxNumber)
  BY <1>3, AckClearAssumption
<1>5. highest <= u
  BY <1>2, <1>4
<1>6. book.highest = highest
  BY <1>2
<1>. QED
  BY <1>3, <1>5, <1>6 DEF BookFits

LEMMA FitsAlways == Spec => []BookFits
<1>1. BookFits /\ [Next]_vars => BookFits'
  BY DEF BookFits, Next, Iterate, vars
<1>. QED
  BY <1>1, InitFits, PTL DEF Spec

\* What is sent of a range is heard as the numbers of the range.
LEMMA HeardRange ==
    ASSUME NEW a \in Nat, NEW b \in Nat, a < U24, b < U24, NEW id \in Nat, NEW r, r = <<a, b>>
    PROVE  Hears(id, r) = a..b
<1>1. ReadAck(WriteAck(id, r)) = r
  BY AckRoundTrip
<1>2. r[1] = a /\ r[2] = b
  OBVIOUS
<1>. QED
  BY <1>1, <1>2 DEF Hears, AckGetAll

\* What flush_ack sends has the sender go through the numbers seen and the numbers
\* missing, each once: the ranges of clear do not overlap, and their ends come out
\* of the bytes of Ack and Nack as they went in (packet.rs:37, packets/ack.rs).
THEOREM SenderHearsWhatWasSeen == Spec => []SenderHears
<1>1. IInv /\ BookFits => SenderHears
  <2>. SUFFICES ASSUME IInv, BookFits, Done
                PROVE  /\ UNION {Hears(192, received[k]) : k \in DOMAIN received}
                              = Window(book) \ Missing(book)
                       /\ UNION {Hears(160, <<missing[k], missing[k]>>) : k \in DOMAIN missing}
                              = Missing(book)
                       /\ \A k, l \in DOMAIN received :
                             k # l => Hears(192, received[k]) \cap Hears(192, received[l]) = {}
    BY DEF SenderHears
  <2>1. /\ RangesAreRuns /\ RangesFollow /\ RangesCover /\ RestIsMissing
        /\ received \in Seq(Nat \X Nat) /\ missing \in Seq(Nat)
        /\ i = book.highest /\ Visited = Window(book) /\ BookTyped
    BY DEF IInv, Done, RangesAreRuns, RestIsMissing, Visited, Window
  <2>2. Len(received) \in Nat /\ DOMAIN received = 1..Len(received)
    BY <2>1, LenProperties
  <2>3. PICK u \in Nat : u = U24
    BY U24IsNat
  <2>4. /\ Seen = Window(book) \ Missing(book)
        /\ \A n \in Window(book) : n \in Nat /\ n < u
    <3>1. book.lowest \in Nat /\ book.highest \in Nat /\ book.highest <= u
      BY <2>1, <2>3 DEF BookTyped, BookFits
    <3>2. \A n \in Window(book) : n \in Nat /\ n < u
      BY <3>1 DEF Window
    <3>3. Seen = Window(book) \ Missing(book)
      BY <2>1 DEF Seen, Missing
    <3>. QED
      BY <3>2, <3>3
  <2>5. ASSUME NEW k \in DOMAIN received
        PROVE  \E a \in Nat, b \in Nat :
                  /\ received[k][1] = a /\ received[k][2] = b
                  /\ Hears(192, received[k]) = a..b
                  /\ a..b \subseteq Seen
    <3>1. PICK a \in Nat, b \in Nat : received[k] = <<a, b>> /\ IsRun(received[k])
      <4>1. received[k] \in Nat \X Nat /\ IsRun(received[k])
        BY <2>1, <2>2, RangeFields
      <4>. QED
        BY <4>1
    <3>2. received[k][1] = a /\ received[k][2] = b
      BY <3>1
    <3>3. a <= b /\ a..b \subseteq Seen
      BY <3>1, <3>2 DEF IsRun
    <3>4. a \in a..b /\ b \in a..b
      BY <3>3
    <3>5. a < u /\ b < u
      BY <2>4, <3>3, <3>4
    <3>6. 192 \in Nat
      OBVIOUS
    <3>7. Hears(192, received[k]) = a..b
      BY <2>3, <3>1, <3>5, <3>6, HeardRange
    <3>. QED
      BY <3>2, <3>3, <3>7
  <2>6. UNION {Hears(192, received[k]) : k \in DOMAIN received} = Seen
    <3>1. ASSUME NEW k \in DOMAIN received PROVE Hears(192, received[k]) \subseteq Seen
      BY <2>5
    <3>2. ASSUME NEW s \in Seen PROVE \E k \in DOMAIN received : s \in Hears(192, received[k])
      <4>1. PICK k \in DOMAIN received : received[k][1] <= s /\ s <= received[k][2]
        BY <2>1, <2>2 DEF RangesCover
      <4>2. PICK a \in Nat, b \in Nat : /\ received[k][1] = a /\ received[k][2] = b
                                        /\ Hears(192, received[k]) = a..b
        BY <2>5
      <4>3. s \in Nat
        BY <2>4
      <4>4. s \in a..b
        BY <4>1, <4>2, <4>3
      <4>. QED
        BY <4>2, <4>4
    <3>. QED
      BY <3>1, <3>2
  <2>7. UNION {Hears(160, <<missing[k], missing[k]>>) : k \in DOMAIN missing} = Missing(book)
    <3>1. Range(missing) = Missing(book)
      BY <2>1 DEF RestIsMissing, Missing
    <3>2. ASSUME NEW k \in DOMAIN missing
          PROVE  Hears(160, <<missing[k], missing[k]>>) = {missing[k]}
      <4>1. PICK m : m = missing[k]
        OBVIOUS
      <4>2. m \in Missing(book)
        BY <3>1, <4>1 DEF Range
      <4>3. m \in Nat /\ m < u
        BY <2>4, <4>2 DEF Missing
      <4>4. 160 \in Nat
        OBVIOUS
      <4>5. Hears(160, <<m, m>>) = m..m
        BY <2>3, <4>3, <4>4, HeardRange
      <4>6. m..m = {m}
        BY <4>3
      <4>. QED
        BY <4>1, <4>5, <4>6
    <3>3. \A m \in Missing(book) : \E k \in DOMAIN missing : missing[k] = m
      BY <3>1 DEF Range
    <3>4. \A k \in DOMAIN missing : missing[k] \in Missing(book)
      BY <3>1 DEF Range
    <3>5. ASSUME NEW k \in DOMAIN missing
          PROVE  Hears(160, <<missing[k], missing[k]>>) \subseteq Missing(book)
      BY <3>2, <3>4
    <3>6. ASSUME NEW m \in Missing(book)
          PROVE  \E k \in DOMAIN missing : m \in Hears(160, <<missing[k], missing[k]>>)
      BY <3>2, <3>3
    <3>. QED
      BY <3>5, <3>6
  <2>8. ASSUME NEW k \in DOMAIN received, NEW l \in DOMAIN received, k # l
        PROVE  Hears(192, received[k]) \cap Hears(192, received[l]) = {}
    <3>1. PICK a \in Nat, b \in Nat : /\ received[k][1] = a /\ received[k][2] = b
                                      /\ Hears(192, received[k]) = a..b
      BY <2>5
    <3>2. PICK c \in Nat, d \in Nat : /\ received[l][1] = c /\ received[l][2] = d
                                      /\ Hears(192, received[l]) = c..d
      BY <2>5
    <3>3. k < l \/ l < k
      BY <2>2, <2>8
    <3>4. b < c \/ d < a
      BY <2>1, <2>2, <3>1, <3>2, <3>3 DEF RangesFollow
    <3>5. (a..b) \cap (c..d) = {}
      BY <3>4
    <3>. QED
      BY <3>1, <3>2, <3>5
  <2>. QED
    BY <2>4, <2>6, <2>7, <2>8
<1>. QED
  BY <1>1, Invariance, FitsAlways, PTL
=============================================================================
