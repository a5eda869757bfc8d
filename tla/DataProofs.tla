------------------------------ MODULE DataProofs -----------------------------
(***************************************************************************)
(* What several of the proofs need about data.  Sums over functions,       *)
(* FoldFunction(+, 0, f): the empty sum is 0, and one more argument adds   *)
(* its value, in whatever order the fold goes through them (the bytes of a *)
(* frame set, those of a split message).  And ReceivedQueue: what its two  *)
(* methods preserve, whatever messages its frames come from (Reassembly    *)
(* and Transport use the same struct).  And the codec: what the Reader     *)
(* makes of the bytes the Writer made of a list of fields.                 *)
(***************************************************************************)
EXTENDS ReceivedQueue, Codec, SequenceTheorems, FiniteSetTheorems, WellFoundedInduction, TLAPS

\* A set of naturals that is not empty has a least element: the way to prove by
\* induction what a formula says of every natural.
LEMMA LeastNatural ==
    ASSUME NEW T \in SUBSET Nat, T # {}
    PROVE  \E x \in T : \A y \in T : x <= y
<1> DEFINE R == OpToRel(<, Nat)
<1>1. IsWellFoundedOn(R, Nat)
  BY NatLessThanWellFounded
<1>2. \A x, y \in Nat : x < y => <<x, y>> \in R
  BY DEF OpToRel
<1>. HIDE DEF R
<1>3. PICK x \in T : \A y \in T : <<y, x>> \notin R
  BY <1>1, WFMin
<1>4. ASSUME NEW y \in T PROVE x <= y
  <2>1. x \in Nat /\ y \in Nat
    OBVIOUS
  <2>2. ~ (y < x)
    BY <1>2, <1>3, <2>1
  <2>. QED
    BY <2>1, <2>2
<1>. QED
  BY <1>3, <1>4

\* A finite set without one of its elements has one element fewer.
LEMMA OneFewer ==
    ASSUME NEW S, IsFiniteSet(S), NEW s \in SUBSET S, NEW x \in s
    PROVE  /\ s \ {x} \in SUBSET S
           /\ Cardinality(s) \in Nat
           /\ Cardinality(s \ {x}) \in Nat
           /\ Cardinality(s \ {x}) = Cardinality(s) - 1
           /\ ~ (Cardinality(s) <= Cardinality(s) - 1)
<1>1. s \ {x} \in SUBSET S
  OBVIOUS
<1>2. IsFiniteSet(s) /\ IsFiniteSet(s \ {x})
  BY <1>1, FS_Subset
<1>3. Cardinality(s) \in Nat /\ Cardinality(s \ {x}) \in Nat
  BY <1>2, FS_CardinalityType
<1>4. Cardinality(s \ {x}) = Cardinality(s) - 1
  BY <1>2, FS_RemoveElement
<1>. QED
  BY <1>1, <1>3, <1>4
-----------------------------------------------------------------------------
(* The function the fold is defined by: the sum over each set of arguments. *)

Chosen(s) == CHOOSE x \in s : TRUE

SumStep(f, g, s) == IF s = {} THEN 0 ELSE f[Chosen(s)] + g[s \ {Chosen(s)}]

Sums(f) == CHOOSE g : g = [s \in SUBSET DOMAIN f |-> SumStep(f, g, s)]

Sum(f) == FoldFunction(+, 0, f)

LEMMA SumIsSums ==
    ASSUME NEW f
    PROVE  Sum(f) = Sums(f)[DOMAIN f]
  BY DEF Sum, Sums, SumStep, Chosen, FoldFunction, FoldFunctionOnSet, MapThenFoldSet

LEMMA ChosenIn ==
    ASSUME NEW s, s # {}
    PROVE  Chosen(s) \in s
  BY DEF Chosen

\* Such a function exists: it is built from the small sets to the large ones.
LEMMA SumsExist ==
    ASSUME NEW f, IsFiniteSet(DOMAIN f), \A x \in DOMAIN f : f[x] \in Nat
    PROVE  \E g : /\ g = [s \in SUBSET DOMAIN f |-> SumStep(f, g, s)]
                  /\ \A s \in SUBSET DOMAIN f : g[s] \in Nat
<1> DEFINE Small(n) == {s \in SUBSET DOMAIN f : Cardinality(s) <= n}
           Good(g, n) == \A s \in Small(n) : g[s] = SumStep(f, g, s) /\ g[s] \in Nat
           T == {n \in Nat : ~ \E g : Good(g, n)}
<1>1. \A s \in SUBSET DOMAIN f : IsFiniteSet(s) /\ Cardinality(s) \in Nat
  BY FS_Subset, FS_CardinalityType
<1>2. ASSUME NEW n \in Nat, n = 0 \/ \E g : Good(g, n - 1)
      PROVE  \E g : Good(g, n)
  <2>1. CASE n = 0
    <3>1. PICK g : g = [s \in {{}} |-> 0]
      OBVIOUS
    <3>2. \A s \in Small(n) : s = {}
      BY <1>1, <2>1, FS_EmptySet
    <3>3. Good(g, n)
      BY <3>1, <3>2 DEF SumStep
    <3>. QED
      BY <3>3
  <2>2. CASE n # 0
    <3>1. PICK h : Good(h, n - 1)
      BY <1>2, <2>2
    <3>2. PICK g : g = [s \in Small(n) |-> SumStep(f, h, s)]
      OBVIOUS
    <3>3. ASSUME NEW s \in Small(n), s # {}
          PROVE  /\ s \ {Chosen(s)} \in Small(n - 1)
                 /\ s \ {Chosen(s)} \in Small(n)
                 /\ Chosen(s) \in DOMAIN f
      <4>1. PICK x : x = Chosen(s)
        OBVIOUS
      <4>2. x \in s
        BY <3>3, <4>1, ChosenIn
      <4>3. /\ s \ {x} \in SUBSET DOMAIN f
            /\ Cardinality(s \ {x}) = Cardinality(s) - 1
        BY <1>1, <4>2, FS_RemoveElement
      <4>4. Cardinality(s) \in Nat /\ Cardinality(s) <= n
        BY <1>1
      <4>5. Cardinality(s \ {x}) <= n - 1 /\ Cardinality(s \ {x}) <= n
        BY <4>3, <4>4
      <4>. QED
        BY <4>1, <4>2, <4>3, <4>5
    <3>4. ASSUME NEW s \in Small(n - 1) PROVE s \in Small(n) /\ g[s] = h[s]
      <4>1. Cardinality(s) \in Nat /\ Cardinality(s) <= n - 1
        BY <1>1
      <4>2. s \in Small(n)
        BY <4>1
      <4>. HIDE DEF Small
      <4>3. g[s] = SumStep(f, h, s) /\ h[s] = SumStep(f, h, s)
        BY <3>1, <3>2, <4>2
      <4>. QED
        BY <4>2, <4>3
    <3>5. ASSUME NEW s \in Small(n) PROVE g[s] = SumStep(f, g, s) /\ g[s] \in Nat
      <4>1. g[s] = SumStep(f, h, s)
        <5>. HIDE DEF Small
        <5>. QED
          BY <3>2
      <4>2. CASE s = {}
        BY <4>1, <4>2 DEF SumStep
      <4>3. CASE s # {}
        <5>1. PICK x : x = Chosen(s)
          OBVIOUS
        <5>2. x \in DOMAIN f /\ s \ {x} \in Small(n - 1)
          BY <3>3, <4>3, <5>1
        <5>3. g[s \ {x}] = h[s \ {x}] /\ h[s \ {x}] \in Nat
          <6>. HIDE DEF Small
          <6>. QED
            BY <3>1, <3>4, <5>2
        <5>4. f[x] + h[s \ {x}] \in Nat
          BY <5>2, <5>3
        <5>. QED
          BY <4>1, <4>3, <5>1, <5>3, <5>4 DEF SumStep
      <4>. QED
        BY <4>2, <4>3
    <3>. QED
      BY <3>5
  <2>. QED
    BY <2>1, <2>2
<1>3. T = {}
  <2> SUFFICES ASSUME T # {} PROVE FALSE
    OBVIOUS
  <2>1. PICK n \in T : \A m \in T : n <= m
    <3>1. T \in SUBSET Nat
      OBVIOUS
    <3>. HIDE DEF T
    <3>. QED
      BY <3>1, LeastNatural
  <2>2. n \in Nat /\ ~ \E g : Good(g, n)
    OBVIOUS
  <2>3. n = 0 \/ \E g : Good(g, n - 1)
    <3> SUFFICES ASSUME n # 0 PROVE \E g : Good(g, n - 1)
      OBVIOUS
    <3>1. n - 1 \in Nat /\ ~ (n <= n - 1)
      BY <2>2
    <3>2. n - 1 \notin T
      <4>. HIDE DEF T
      <4>. QED
        BY <2>1, <3>1
    <3>. QED
      BY <3>1, <3>2
  <2>. HIDE DEF Good
  <2>. QED
    BY <1>2, <2>2, <2>3
<1>4. PICK n \in Nat : n = Cardinality(DOMAIN f)
  BY FS_CardinalityType
<1>5. PICK h : Good(h, n)
  BY <1>3
<1>6. SUBSET DOMAIN f = Small(n)
  BY <1>4, FS_Subset
<1>7. PICK g : g = [s \in SUBSET DOMAIN f |-> h[s]]
  OBVIOUS
<1>8. ASSUME NEW s \in SUBSET DOMAIN f
      PROVE  g[s] = h[s] /\ h[s] = SumStep(f, h, s) /\ h[s] \in Nat
  BY <1>5, <1>6, <1>7
<1>9. ASSUME NEW s \in SUBSET DOMAIN f PROVE SumStep(f, h, s) = SumStep(f, g, s)
  <2>1. CASE s = {}
    BY <2>1 DEF SumStep
  <2>2. CASE s # {}
    BY <1>7, <2>2, ChosenIn DEF SumStep
  <2>. QED
    BY <2>1, <2>2
<1>10. g = [s \in SUBSET DOMAIN f |-> SumStep(f, g, s)]
  BY <1>7, <1>8, <1>9
<1>. QED
  BY <1>8, <1>10

LEMMA SumsEquation ==
    ASSUME NEW f, IsFiniteSet(DOMAIN f), \A x \in DOMAIN f : f[x] \in Nat
    PROVE  \A s \in SUBSET DOMAIN f : /\ Sums(f)[s] = SumStep(f, Sums(f), s)
                                      /\ Sums(f)[s] \in Nat
<1>1. PICK g : /\ g = [s \in SUBSET DOMAIN f |-> SumStep(f, g, s)]
               /\ \A s \in SUBSET DOMAIN f : g[s] \in Nat
  BY SumsExist
<1>2. Sums(f) = [s \in SUBSET DOMAIN f |-> SumStep(f, Sums(f), s)]
  <2> DEFINE Is(h) == h = [s \in SUBSET DOMAIN f |-> SumStep(f, h, s)]
  <2>1. Is(g)
    BY <1>1
  <2>2. Sums(f) = CHOOSE h : Is(h)
    BY DEF Sums
  <2>3. Is(Sums(f))
    <3>. HIDE DEF Is
    <3>. QED
      BY <2>1, <2>2
  <2>. QED
    BY <2>3
<1>3. \A s \in SUBSET DOMAIN f : Sums(f)[s] = SumStep(f, Sums(f), s)
  <2>1. PICK h : h = Sums(f)
    OBVIOUS
  <2>2. h = [s \in SUBSET DOMAIN f |-> SumStep(f, h, s)]
    BY <1>2, <2>1
  <2>3. \A s \in SUBSET DOMAIN f : h[s] = SumStep(f, h, s)
    BY <2>2
  <2>. QED
    BY <2>1, <2>3
\* two such functions are equal, set by set
<1>4. \A s \in SUBSET DOMAIN f : Sums(f)[s] = g[s]
  <2>1. PICK h : h = Sums(f)
    OBVIOUS
  <2> DEFINE T == {n \in Nat : \E s \in SUBSET DOMAIN f : Cardinality(s) = n /\ h[s] # g[s]}
  <2>2. \A s \in SUBSET DOMAIN f : IsFiniteSet(s) /\ Cardinality(s) \in Nat
    BY FS_Subset, FS_CardinalityType
  <2>3. T = {}
    <3> SUFFICES ASSUME T # {} PROVE FALSE
      OBVIOUS
    <3>1. PICK n \in T : \A m \in T : n <= m
      <4>1. T \in SUBSET Nat
        OBVIOUS
      <4>. HIDE DEF T
      <4>. QED
        BY <4>1, LeastNatural
    <3>2. PICK s \in SUBSET DOMAIN f : Cardinality(s) = n /\ h[s] # g[s]
      OBVIOUS
    <3>3. h[s] = SumStep(f, h, s) /\ g[s] = SumStep(f, g, s)
      BY <1>1, <1>3, <2>1
    <3>4. s # {}
      BY <3>2, <3>3 DEF SumStep
    <3>5. PICK x : x = Chosen(s)
      OBVIOUS
    <3>6. x \in s
      BY <3>4, <3>5, ChosenIn
    <3>7. /\ s \ {x} \in SUBSET DOMAIN f
          /\ Cardinality(s \ {x}) = n - 1
          /\ n \in Nat
          /\ n - 1 \in Nat
      <4>1. /\ s \ {x} \in SUBSET DOMAIN f
            /\ Cardinality(s) \in Nat
            /\ Cardinality(s \ {x}) \in Nat
            /\ Cardinality(s \ {x}) = Cardinality(s) - 1
        BY <3>6, OneFewer
      <4>. QED
        BY <3>2, <4>1
    <3>8. h[s \ {x}] # g[s \ {x}]
      BY <3>2, <3>3, <3>4, <3>5 DEF SumStep
    <3>9. n - 1 \in T
      BY <3>7, <3>8
    <3>10. ~ (n <= n - 1)
      BY <3>7
    <3>. HIDE DEF T
    <3>. QED
      BY <3>1, <3>9, <3>10
  <2>. QED
    BY <2>1, <2>2, <2>3
<1>. QED
  BY <1>1, <1>3, <1>4

\* The sum over a set is that of the set without any one of its elements, and
\* the value there.
LEMMA SumsInsert ==
    ASSUME NEW f, IsFiniteSet(DOMAIN f), \A x \in DOMAIN f : f[x] \in Nat,
           NEW s \in SUBSET DOMAIN f, NEW x \in s
    PROVE  Sums(f)[s] = f[x] + Sums(f)[s \ {x}]
<1>1. PICK g : g = Sums(f)
  OBVIOUS
<1>2. \A t \in SUBSET DOMAIN f : g[t] = SumStep(f, g, t) /\ g[t] \in Nat
  BY <1>1, SumsEquation
<1>3. \A t \in SUBSET DOMAIN f : IsFiniteSet(t) /\ Cardinality(t) \in Nat
  BY FS_Subset, FS_CardinalityType
<1> DEFINE T == {n \in Nat : \E t \in SUBSET DOMAIN f : \E y \in t :
                                Cardinality(t) = n /\ g[t] # f[y] + g[t \ {y}]}
<1>4. T = {}
  <2> SUFFICES ASSUME T # {} PROVE FALSE
    OBVIOUS
  <2>1. PICK n \in T : \A m \in T : n <= m
    <3>1. T \in SUBSET Nat
      OBVIOUS
    <3>. HIDE DEF T
    <3>. QED
      BY <3>1, LeastNatural
  <2>2. PICK t \in SUBSET DOMAIN f : \E y \in t : /\ Cardinality(t) = n
                                               /\ g[t] # f[y] + g[t \ {y}]
    OBVIOUS
  <2>3. PICK y \in t : Cardinality(t) = n /\ g[t] # f[y] + g[t \ {y}]
    BY <2>2
  <2>4. PICK z : z = Chosen(t)
    OBVIOUS
  <2>5. z \in t /\ g[t] = f[z] + g[t \ {z}]
    BY <1>2, <2>2, <2>4, ChosenIn DEF SumStep
  <2>6. z # y
    BY <2>3, <2>5
  <2>7. /\ n \in Nat /\ n - 1 \in Nat /\ ~ (n <= n - 1)
        /\ Cardinality(t \ {z}) = n - 1
        /\ Cardinality(t \ {y}) = n - 1
    <3>1. /\ Cardinality(t) \in Nat
          /\ Cardinality(t \ {z}) \in Nat
          /\ Cardinality(t \ {z}) = Cardinality(t) - 1
          /\ Cardinality(t \ {y}) = Cardinality(t) - 1
      BY <2>5, OneFewer
    <3>. QED
      BY <2>3, <3>1
  <2>8. n - 1 \notin T
    <3>. HIDE DEF T
    <3>. QED
      BY <2>1, <2>7
  <2>9. \A u \in SUBSET DOMAIN f : \A v \in u :
            Cardinality(u) = n - 1 => g[u] = f[v] + g[u \ {v}]
    BY <2>7, <2>8
  <2>10. g[t \ {z}] = f[y] + g[(t \ {z}) \ {y}]
    <3>1. t \ {z} \in SUBSET DOMAIN f /\ y \in t \ {z}
      BY <2>6
    <3>. QED
      BY <2>7, <2>9, <3>1
  <2>11. g[t \ {y}] = f[z] + g[(t \ {y}) \ {z}]
    <3>1. t \ {y} \in SUBSET DOMAIN f /\ z \in t \ {y}
      BY <2>5, <2>6
    <3>. QED
      BY <2>7, <2>9, <3>1
  <2>12. PICK u : u = (t \ {y}) \ {z}
    OBVIOUS
  <2>13. (t \ {z}) \ {y} = u /\ u \in SUBSET DOMAIN f
    BY <2>12
  <2>14. f[y] \in Nat /\ f[z] \in Nat /\ g[u] \in Nat
    BY <1>2, <2>5, <2>13
  <2>15. g[t] = f[z] + (f[y] + g[u]) /\ g[t \ {y}] = f[z] + g[u]
    BY <2>5, <2>10, <2>11, <2>12, <2>13
  <2>. QED
    BY <2>3, <2>14, <2>15
<1>5. Cardinality(s) \in Nat
  BY <1>3
<1>. QED
  BY <1>1, <1>4, <1>5

\* A sum over some of the arguments does not depend on the others.
LEMMA SumsAgree ==
    ASSUME NEW f, IsFiniteSet(DOMAIN f), \A x \in DOMAIN f : f[x] \in Nat,
           NEW h, IsFiniteSet(DOMAIN h), \A x \in DOMAIN h : h[x] \in Nat,
           DOMAIN f \subseteq DOMAIN h, \A x \in DOMAIN f : h[x] = f[x]
    PROVE  \A s \in SUBSET DOMAIN f : Sums(f)[s] = Sums(h)[s]
<1>1. PICK a, b : a = Sums(f) /\ b = Sums(h)
  OBVIOUS
<1>2. \A t \in SUBSET DOMAIN f : a[t] = SumStep(f, a, t) /\ b[t] = SumStep(h, b, t)
  BY <1>1, SumsEquation
<1>3. \A t \in SUBSET DOMAIN f : IsFiniteSet(t) /\ Cardinality(t) \in Nat
  BY FS_Subset, FS_CardinalityType
<1> DEFINE T == {n \in Nat : \E t \in SUBSET DOMAIN f : Cardinality(t) = n /\ a[t] # b[t]}
<1>4. T = {}
  <2> SUFFICES ASSUME T # {} PROVE FALSE
    OBVIOUS
  <2>1. PICK n \in T : \A m \in T : n <= m
    <3>1. T \in SUBSET Nat
      OBVIOUS
    <3>. HIDE DEF T
    <3>. QED
      BY <3>1, LeastNatural
  <2>2. PICK t \in SUBSET DOMAIN f : Cardinality(t) = n /\ a[t] # b[t]
    OBVIOUS
  <2>3. a[t] = SumStep(f, a, t) /\ b[t] = SumStep(h, b, t)
    BY <1>2
  <2>4. t # {}
    BY <2>2, <2>3 DEF SumStep
  <2>5. PICK z : z = Chosen(t)
    OBVIOUS
  <2>6. z \in t /\ a[t] = f[z] + a[t \ {z}] /\ b[t] = h[z] + b[t \ {z}]
    BY <2>3, <2>4, <2>5, ChosenIn DEF SumStep
  <2>7. h[z] = f[z] /\ a[t \ {z}] # b[t \ {z}]
    BY <2>2, <2>6
  <2>8. /\ n \in Nat /\ n - 1 \in Nat /\ ~ (n <= n - 1)
        /\ Cardinality(t \ {z}) = n - 1
        /\ t \ {z} \in SUBSET DOMAIN f
    BY <2>2, <2>6, OneFewer
  <2>9. n - 1 \in T
    BY <2>7, <2>8
  <2>. HIDE DEF T
  <2>. QED
    BY <2>1, <2>8, <2>9
<1>. QED
  BY <1>1, <1>3, <1>4
-----------------------------------------------------------------------------
(* What the proofs about frames and pieces use.                            *)

LEMMA SumOfNone ==
    ASSUME NEW f, DOMAIN f = {}
    PROVE  Sum(f) = 0
<1>1. IsFiniteSet(DOMAIN f)
  BY FS_EmptySet
<1>2. Sums(f)[DOMAIN f] = SumStep(f, Sums(f), DOMAIN f)
  BY <1>1, SumsEquation
<1>. QED
  BY <1>2, SumIsSums DEF SumStep

LEMMA SumIsNatural ==
    ASSUME NEW f, IsFiniteSet(DOMAIN f), \A x \in DOMAIN f : f[x] \in Nat
    PROVE  Sum(f) \in Nat
  BY SumsEquation, SumIsSums

\* A sequence of numbers that is one longer adds its last.
LEMMA SumOfOneMore ==
    ASSUME NEW f, NEW n \in Nat, DOMAIN f = 1..n, \A k \in 1..n : f[k] \in Nat,
           NEW h, DOMAIN h = 1..(n + 1), \A k \in 1..n : h[k] = f[k], h[n + 1] \in Nat
    PROVE  Sum(h) = Sum(f) + h[n + 1]
<1>1. IsFiniteSet(DOMAIN f) /\ IsFiniteSet(DOMAIN h)
  BY FS_Interval
<1>2. \A k \in DOMAIN h : h[k] \in Nat
  <2> SUFFICES ASSUME NEW k \in 1..(n + 1) PROVE h[k] \in Nat
    OBVIOUS
  <2>1. k \in 1..n \/ k = n + 1
    OBVIOUS
  <2>. QED
    BY <2>1
<1>3. /\ n + 1 \in 1..(n + 1)
      /\ (1..(n + 1)) \ {n + 1} = 1..n
      /\ 1..n \subseteq 1..(n + 1)
  OBVIOUS
<1>4. Sums(h)[1..(n + 1)] = h[n + 1] + Sums(h)[(1..(n + 1)) \ {n + 1}]
  <2>1. PICK s : s = 1..(n + 1)
    OBVIOUS
  <2>2. s \in SUBSET DOMAIN h /\ n + 1 \in s
    BY <1>3, <2>1
  <2>3. Sums(h)[s] = h[n + 1] + Sums(h)[s \ {n + 1}]
    BY <1>1, <1>2, <2>2, SumsInsert
  <2>. QED
    BY <2>1, <2>3
<1>5. Sums(f)[1..n] = Sums(h)[1..n]
  BY <1>1, <1>2, <1>3, SumsAgree
<1>6. Sum(f) = Sums(f)[1..n] /\ Sum(h) = Sums(h)[1..(n + 1)] /\ Sum(f) \in Nat
  BY <1>1, SumIsSums, SumIsNatural
<1>7. Sum(h) = h[n + 1] + Sum(f)
  BY <1>3, <1>4, <1>5, <1>6
<1>. QED
  BY <1>6, <1>7
-----------------------------------------------------------------------------
(* The ReceivedQueue, whatever is sent to it.  A session that has sent      *)
(* s.count messages cut message n into s.parts[n] pieces, of which          *)
(* s.piece[n][p] is the p-th; fs are the frames it handed to the link.      *)

\* Message n, put together.
WholeOf(s, n) == [k \in 1..s.parts[n] |-> s.piece[n][k - 1]]

\* The messages from a on, short of b.
WholesOf(s, a, b) == [k \in 1..(b - a) |-> WholeOf(s, a + k - 1)]

\* A frame of one of the messages.
FrameOf(s, f) ==
    /\ s.count \in Nat
    /\ f.order_index \in Nat /\ f.order_index < s.count
    /\ s.parts[f.order_index] \in Nat \ {0}
    /\ f.split <=> s.parts[f.order_index] > 1
    /\ f.split_count = s.parts[f.order_index]
    /\ f.split_index \in 0..(s.parts[f.order_index] - 1)
    /\ f.data = s.piece[f.order_index][f.split_index]

\* A split id stands for one message.
IdsStandForMessages(fs) ==
    /\ \A f, g \in fs : f.order_index = g.order_index => f.split_id = g.split_id
    /\ \A f, g \in fs :
          f.split /\ g.split /\ f.split_id = g.split_id => f.order_index = g.order_index

Supplied(s, fs) ==
    /\ s.count \in Nat
    /\ \A f \in fs : FrameOf(s, f)
    /\ IdsStandForMessages(fs)

\* The ids are given out in turn, and id is the next one of `ids`.
SplitOf(s) == {n \in 0..(s.count - 1) : s.parts[n] > 1}
IdsInTurn(s, fs, id, ids) ==
    /\ id \in 0..(ids - 1)
    /\ \A f \in fs : f.split => f.split_id \in Nat /\ f.split_id < Cardinality(SplitOf(s))
    /\ Cardinality(SplitOf(s)) < ids => id = Cardinality(SplitOf(s))

\* Message n has been put together: it was handed on, or waits its turn.
Handled(r, n) == n < r.min \/ n \in DOMAIN r.packet_queue

\* The queue r is a ReceivedQueue and holds whole messages from min on.
QueueHoldsWholes(s, r) ==
    /\ r = [min |-> r.min, max |-> r.max, packet_queue |-> r.packet_queue,
            pool |-> r.pool, delete |-> r.delete]
    /\ r.min \in Nat /\ r.max \in Nat
    /\ r.min <= r.max /\ r.max <= s.count
    /\ r.packet_queue = [o \in DOMAIN r.packet_queue |-> WholeOf(s, o)]
    /\ \A o \in DOMAIN r.packet_queue : o \in r.min..(r.max - 1)

\* An entry of the pool holds some, not all, pieces of the message of its id.
EntryOf(s, fs, e, id) ==
    /\ e = [split_size |-> e.split_size, order_index |-> e.order_index, data |-> e.data]
    /\ \E f \in fs : /\ f.split /\ f.split_id = id
                     /\ e.order_index = f.order_index
                     /\ e.split_size = f.split_count
    /\ DOMAIN e.data \subseteq 0..(e.split_size - 1)
    /\ e.data = [p \in DOMAIN e.data |-> s.piece[e.order_index][p]]

PoolHoldsUnfinished(s, fs, r) ==
    \A id \in DOMAIN r.pool :
        /\ EntryOf(s, fs, r.pool[id], id)
        /\ DOMAIN r.pool[id].data # 0..(r.pool[id].split_size - 1)

\* The ids in delete are those of the split messages put together.
DeleteIsHandled(fs, r) ==
    /\ DOMAIN r.pool \cap r.delete = {}
    /\ \A id \in r.delete : \E f \in fs : f.split /\ f.split_id = id
    /\ \A f \in fs : f.split => (f.split_id \in r.delete <=> Handled(r, f.order_index))

\* A frame is not lost: its message was put together, or the pool has it.
Kept(r, f) ==
    \/ Handled(r, f.order_index)
    \/ /\ f.split
       /\ f.split_id \in DOMAIN r.pool
       /\ f.split_index \in DOMAIN r.pool[f.split_id].data

\* The invariant of the struct, when the frames of `came` were added.
Receiver(s, fs, r, came) ==
    /\ QueueHoldsWholes(s, r)
    /\ PoolHoldsUnfinished(s, fs, r)
    /\ DeleteIsHandled(fs, r)
    /\ came \subseteq fs
    /\ \A f \in came : Kept(r, f)

LEMMA PutFacts ==
    ASSUME NEW map, NEW key, NEW value
    PROVE  /\ DOMAIN Put(map, key, value) = DOMAIN map \cup {key}
           /\ Put(map, key, value)[key] = value
           /\ \A k \in DOMAIN map : k # key => Put(map, key, value)[k] = map[k]
           /\ Put(map, key, value) = [k \in DOMAIN Put(map, key, value) |-> Put(map, key, value)[k]]
BY DEF Put

LEMMA WithoutFacts ==
    ASSUME NEW map, NEW keys
    PROVE  /\ DOMAIN Without(map, keys) = DOMAIN map \ keys
           /\ \A k \in DOMAIN map \ keys : Without(map, keys)[k] = map[k]
           /\ Without(map, keys) = [k \in DOMAIN Without(map, keys) |-> Without(map, keys)[k]]
BY DEF Without, Restrict

\* IsFull compares a number of keys with a size: the keys are all numbers below it.
LEMMA FullIsAll ==
    ASSUME NEW e, e.split_size \in Nat, DOMAIN e.data \subseteq 0..(e.split_size - 1)
    PROVE  IsFull(e) <=> DOMAIN e.data = 0..(e.split_size - 1)
<1> DEFINE all == 0..(e.split_size - 1)
<1>1. IsFiniteSet(all) /\ Cardinality(all) = e.split_size
  <2>1. /\ 0 \in Int /\ e.split_size - 1 \in Int
        /\ (e.split_size - 1) - 0 + 1 = e.split_size
        /\ 0 > e.split_size - 1 <=> e.split_size = 0
    OBVIOUS
  <2>. QED
    BY <2>1, FS_Interval
<1>2. DOMAIN e.data \in SUBSET all
  OBVIOUS
<1>3. Cardinality(all) = Cardinality(DOMAIN e.data) => all = DOMAIN e.data
  BY <1>1, <1>2, FS_Subset
<1>. QED
  BY <1>1, <1>3 DEF IsFull
-----------------------------------------------------------------------------
(* ReceivedQueue::add (receivedqueue.rs:20).  It keeps Receiver, whatever   *)
(* frame arrives, for the first time or again.                              *)

\* The entry a frame of id goes to: the one there is, or a new one.
EntryFor(r, f) == IF f.split_id \in DOMAIN r.pool THEN r.pool[f.split_id] ELSE NewSplit(f)

Grown(r, f) ==
    IF f.split_index < EntryFor(r, f).split_size
    THEN [EntryFor(r, f) EXCEPT !.data = Put(@, f.split_index, f.data)]
    ELSE EntryFor(r, f)

\* The entry is of the message of the frame, which the frames of its id agree on.
LEMMA EntryForFrame ==
    ASSUME NEW s, NEW fs, Supplied(s, fs),
           NEW r, PoolHoldsUnfinished(s, fs, r),
           NEW f \in fs, f.split
    PROVE  /\ EntryOf(s, fs, EntryFor(r, f), f.split_id)
           /\ EntryFor(r, f).order_index = f.order_index
           /\ EntryFor(r, f).split_size = f.split_count
           /\ f.split_id \notin DOMAIN r.pool => DOMAIN EntryFor(r, f).data = {}
<1>1. CASE f.split_id \in DOMAIN r.pool
  <2>1. EntryFor(r, f) = r.pool[f.split_id]
    BY <1>1 DEF EntryFor
  <2>2. EntryOf(s, fs, EntryFor(r, f), f.split_id)
    BY <1>1, <2>1 DEF PoolHoldsUnfinished
  <2>3. PICK g \in fs : /\ g.split /\ g.split_id = f.split_id
                            /\ EntryFor(r, f).order_index = g.order_index
                            /\ EntryFor(r, f).split_size = g.split_count
    BY <2>2 DEF EntryOf
  <2>4. g.order_index = f.order_index
    BY <2>3 DEF Supplied, IdsStandForMessages
  <2>5. g.split_count = f.split_count
    <3>1. FrameOf(s, f) /\ FrameOf(s, g)
      BY DEF Supplied, FrameOf
    <3>. QED
      BY <3>1, <2>4 DEF FrameOf
  <2>. QED
    BY <1>1, <2>2, <2>3, <2>4, <2>5
<1>2. CASE f.split_id \notin DOMAIN r.pool
  <2>1. EntryFor(r, f) = [split_size |-> f.split_count, order_index |-> f.order_index,
                          data |-> EmptyMap]
    BY <1>2 DEF EntryFor, NewSplit
  <2>2. DOMAIN EmptyMap = {} /\ EmptyMap = [p \in {} |-> s.piece[f.order_index][p]]
    BY DEF EmptyMap
  <2>3. EntryOf(s, fs, EntryFor(r, f), f.split_id)
    BY <2>1, <2>2 DEF EntryOf
  <2>. QED
    BY <1>2, <2>1, <2>2, <2>3
<1>. QED
  BY <1>1, <1>2

\* The entry with the piece in it.
LEMMA GrownEntry ==
    ASSUME NEW s, NEW fs, Supplied(s, fs),
           NEW r, PoolHoldsUnfinished(s, fs, r),
           NEW f \in fs, f.split
    PROVE  /\ EntryOf(s, fs, Grown(r, f), f.split_id)
           /\ Grown(r, f).order_index = f.order_index
           /\ Grown(r, f).split_size = f.split_count
           /\ DOMAIN Grown(r, f).data = DOMAIN EntryFor(r, f).data \cup {f.split_index}
<1> DEFINE e == EntryFor(r, f)
           g == Grown(r, f)
<1>1. /\ EntryOf(s, fs, e, f.split_id) /\ e.order_index = f.order_index
      /\ e.split_size = f.split_count
  BY EntryForFrame
<1>2. FrameOf(s, f)
  BY DEF Supplied, FrameOf
<1>3. f.split_index < e.split_size
  BY <1>1, <1>2 DEF FrameOf
<1>4. g = [e EXCEPT !.data = Put(@, f.split_index, f.data)]
  BY <1>3 DEF Grown
<1>5. e = [split_size |-> e.split_size, order_index |-> e.order_index, data |-> e.data]
  BY <1>1 DEF EntryOf
<1>. HIDE DEF e, g
<1>6. g = [split_size |-> e.split_size, order_index |-> e.order_index,
           data |-> Put(e.data, f.split_index, f.data)]
  BY <1>4, <1>5
<1>7. /\ g.split_size = e.split_size /\ g.order_index = e.order_index
      /\ g.data = Put(e.data, f.split_index, f.data)
  BY <1>6
<1>8. g = [split_size |-> g.split_size, order_index |-> g.order_index, data |-> g.data]
  BY <1>6, <1>7
<1>9. DOMAIN g.data = DOMAIN e.data \cup {f.split_index}
  BY <1>7 DEF Put
<1>10. g.data = [p \in DOMAIN g.data |-> s.piece[g.order_index][p]]
  <2>1. e.data = [p \in DOMAIN e.data |-> s.piece[e.order_index][p]]
    BY <1>1 DEF EntryOf
  <2>2. f.data = s.piece[f.order_index][f.split_index]
    BY <1>2 DEF FrameOf
  <2>3. g.data = [p \in DOMAIN e.data \cup {f.split_index} |->
                     IF p = f.split_index THEN f.data ELSE e.data[p]]
    BY <1>7 DEF Put
  <2>4. \A p \in DOMAIN e.data \cup {f.split_index} : g.data[p] = s.piece[g.order_index][p]
    BY <2>1, <2>2, <2>3, <1>1, <1>7
  <2>. QED
    BY <2>3, <2>4, <1>9
<1>11. DOMAIN g.data \subseteq 0..(g.split_size - 1)
  <2>1. DOMAIN e.data \subseteq 0..(e.split_size - 1)
    BY <1>1 DEF EntryOf
  <2>2. f.split_index \in 0..(e.split_size - 1)
    BY <1>1, <1>2 DEF FrameOf
  <2>. QED
    BY <2>1, <2>2, <1>7, <1>9
<1>12. EntryOf(s, fs, g, f.split_id)
  <2>1. \E h \in fs : /\ h.split /\ h.split_id = f.split_id
                          /\ g.order_index = h.order_index
                          /\ g.split_size = h.split_count
    BY <1>1, <1>7
  <2>. QED
    BY <2>1, <1>8, <1>10, <1>11 DEF EntryOf
<1>. QED
  BY <1>1, <1>7, <1>9, <1>12 DEF g, e

\* Put together, the pieces are the message.
LEMMA JoinIsWhole ==
    ASSUME NEW s, NEW fs, NEW e, NEW id, EntryOf(s, fs, e, id), NEW n, e.order_index = n, s.parts[n] \in Nat,
           e.split_size = s.parts[n], DOMAIN e.data = 0..(e.split_size - 1)
    PROVE  Join(e) = WholeOf(s, n)
<1>1. s.parts[n] \in Nat
  OBVIOUS
<1>2. \A k \in 1..s.parts[n] : k - 1 \in 0..(s.parts[n] - 1)
  BY <1>1
<1>3. \A p \in DOMAIN e.data : e.data[p] = s.piece[n][p]
  BY DEF EntryOf
<1>4. \A k \in 1..s.parts[n] : e.data[k - 1] = s.piece[n][k - 1]
  BY <1>2, <1>3
<1>. QED
  BY <1>4 DEF Join, WholeOf

\* The fields after add of a piece, which completes a message or does not.
SplitAdded(r, f, N, g) ==
    /\ N = [min |-> N.min, max |-> N.max, packet_queue |-> N.packet_queue,
            pool |-> N.pool, delete |-> N.delete]
    /\ N.min = r.min
    /\ IF IsFull(g)
       THEN /\ N.max = IF g.order_index >= r.max THEN g.order_index + 1 ELSE r.max
            /\ N.packet_queue = Put(r.packet_queue, g.order_index, Join(g))
            /\ N.pool = Without(Put(r.pool, f.split_id, g), r.delete \cup {f.split_id})
            /\ N.delete = r.delete \cup {f.split_id}
       ELSE /\ N.max = r.max
            /\ N.packet_queue = r.packet_queue
            /\ N.pool = Without(Put(r.pool, f.split_id, g), r.delete)
            /\ N.delete = r.delete

LEMMA AddSplitFields ==
    ASSUME NEW s, NEW r, QueueHoldsWholes(s, r), NEW f
    PROVE  SplitAdded(r, f, AddSplit(r, f), Grown(r, f))
<1> DEFINE N == AddSplit(r, f)
           g == Grown(r, f)
           n == g.order_index
<1>1. r = [min |-> r.min, max |-> r.max, packet_queue |-> r.packet_queue,
           pool |-> r.pool, delete |-> r.delete]
  BY DEF QueueHoldsWholes
<1>2. N = IF IsFull(g)
          THEN [r EXCEPT !.pool = Without(Put(r.pool, f.split_id, g), r.delete \cup {f.split_id}),
                         !.delete = r.delete \cup {f.split_id},
                         !.max = IF n >= @ THEN n + 1 ELSE @,
                         !.packet_queue = Put(@, n, Join(g))]
          ELSE [r EXCEPT !.pool = Without(Put(r.pool, f.split_id, g), r.delete)]
  BY DEF AddSplit, Grown, EntryFor
<1> HIDE DEF g, N
<1>3. ASSUME IsFull(g) PROVE SplitAdded(r, f, N, g)
  <2>1. N = [min |-> r.min, max |-> IF n >= r.max THEN n + 1 ELSE r.max,
             packet_queue |-> Put(r.packet_queue, n, Join(g)),
             pool |-> Without(Put(r.pool, f.split_id, g), r.delete \cup {f.split_id}),
             delete |-> r.delete \cup {f.split_id}]
    BY <1>1, <1>2, <1>3
  <2>. QED
    BY <2>1, <1>3 DEF SplitAdded
<1>4. ASSUME ~ IsFull(g) PROVE SplitAdded(r, f, N, g)
  <2>1. N = [min |-> r.min, max |-> r.max, packet_queue |-> r.packet_queue,
             pool |-> Without(Put(r.pool, f.split_id, g), r.delete), delete |-> r.delete]
    BY <1>1, <1>2, <1>4
  <2>. QED
    BY <2>1, <1>4 DEF SplitAdded
<1>5. SplitAdded(r, f, N, g)
  BY <1>3, <1>4
<1>. QED
  BY <1>5 DEF N, g

\* A piece that does not complete its message: the entry stays, unless the
\* message was put together before.
LEMMA PieceKeeps ==
    ASSUME NEW s, NEW fs, Supplied(s, fs),
           NEW r, NEW came, Receiver(s, fs, r, came),
           NEW f \in fs, f.split, ~ IsFull(Grown(r, f))
    PROVE  Receiver(s, fs, AddSplit(r, f), came \cup {f}) /\ AddSplit(r, f).min = r.min
<1> DEFINE N  == AddSplit(r, f)
           g  == Grown(r, f)
           id == f.split_id
           pool == Put(r.pool, id, g)
<1>1. /\ QueueHoldsWholes(s, r) /\ PoolHoldsUnfinished(s, fs, r) /\ DeleteIsHandled(fs, r)
      /\ came \subseteq fs /\ \A h \in came : Kept(r, h)
  BY DEF Receiver
<1>2. /\ N = [min |-> N.min, max |-> N.max, packet_queue |-> N.packet_queue,
              pool |-> N.pool, delete |-> N.delete]
      /\ N.min = r.min /\ N.max = r.max /\ N.packet_queue = r.packet_queue
      /\ N.pool = Without(pool, r.delete) /\ N.delete = r.delete
  <2>1. SplitAdded(r, f, N, g) /\ ~ IsFull(g)
    BY <1>1, AddSplitFields
  <2>. HIDE DEF N, g
  <2>. QED
    BY <2>1 DEF SplitAdded
<1>3. /\ EntryOf(s, fs, g, id) /\ g.order_index = f.order_index /\ g.split_size = f.split_count
      /\ DOMAIN g.data = DOMAIN EntryFor(r, f).data \cup {f.split_index}
  BY <1>1, GrownEntry
<1>4. FrameOf(s, f)
  BY DEF Supplied, FrameOf
<1>5. DOMAIN g.data # 0..(g.split_size - 1)
  <2>1. g.split_size \in Nat /\ DOMAIN g.data \subseteq 0..(g.split_size - 1)
    BY <1>3, <1>4 DEF EntryOf, FrameOf
  <2>2. ~ IsFull(g)
    OBVIOUS
  <2>. HIDE DEF g
  <2>. QED
    BY <2>1, <2>2, FullIsAll
<1>6. /\ DOMAIN N.pool = (DOMAIN r.pool \cup {id}) \ r.delete
      /\ \A x \in DOMAIN N.pool : N.pool[x] = IF x = id THEN g ELSE r.pool[x]
  BY <1>2 DEF Put, Without, Restrict
<1>7. QueueHoldsWholes(s, N)
  BY <1>1, <1>2 DEF QueueHoldsWholes
<1>. HIDE DEF N, g
<1>8. PoolHoldsUnfinished(s, fs, N)
  <2>. SUFFICES ASSUME NEW x \in DOMAIN N.pool
                PROVE  /\ EntryOf(s, fs, N.pool[x], x)
                       /\ DOMAIN N.pool[x].data # 0..(N.pool[x].split_size - 1)
    BY DEF PoolHoldsUnfinished
  <2>1. CASE x = id
    BY <1>3, <1>5, <1>6, <2>1
  <2>2. CASE x # id
    BY <1>1, <1>6, <2>2 DEF PoolHoldsUnfinished
  <2>. QED
    BY <2>1, <2>2
<1>9. \A n : Handled(N, n) <=> Handled(r, n)
  BY <1>2 DEF Handled
<1>10. DeleteIsHandled(fs, N)
  BY <1>1, <1>2, <1>6, <1>9 DEF DeleteIsHandled
<1>11. ASSUME NEW h \in came \cup {f} PROVE Kept(N, h)
  <2>1. CASE h = f
    <3>1. f.split_id \in r.delete => Handled(r, f.order_index)
      BY <1>1 DEF DeleteIsHandled
    <3>2. f.split_id \notin r.delete => /\ f.split_id \in DOMAIN N.pool
                                        /\ f.split_index \in DOMAIN N.pool[f.split_id].data
      BY <1>3, <1>6
    <3>. QED
      BY <2>1, <3>1, <3>2, <1>9 DEF Kept
  <2>2. CASE h \in came /\ Handled(r, h.order_index)
    BY <2>2, <1>9 DEF Kept
  <2>3. CASE h \in came /\ ~ Handled(r, h.order_index)
    <3>1. /\ h.split /\ h.split_id \in DOMAIN r.pool
          /\ h.split_index \in DOMAIN r.pool[h.split_id].data
      BY <1>1, <2>3 DEF Kept
    <3>2. h.split_id \in DOMAIN N.pool
      BY <1>1, <1>6, <3>1 DEF DeleteIsHandled
    <3>3. h.split_index \in DOMAIN N.pool[h.split_id].data
      <4>1. CASE h.split_id = id
        <5>1. EntryFor(r, f) = r.pool[id]
          BY <3>1, <4>1 DEF EntryFor
        <5>2. h.split_index \in DOMAIN g.data
          BY <3>1, <4>1, <5>1, <1>3
        <5>. QED
          BY <3>2, <4>1, <5>2, <1>6
      <4>2. CASE h.split_id # id
        BY <3>1, <3>2, <4>2, <1>6
      <4>. QED
        BY <4>1, <4>2
    <3>. QED
      BY <3>1, <3>2, <3>3 DEF Kept
  <2>. QED
    BY <2>1, <2>2, <2>3
<1>12. came \cup {f} \subseteq fs
  BY <1>1
<1>. QED
  BY <1>2, <1>7, <1>8, <1>10, <1>11, <1>12 DEF Receiver, N

\* The piece that completes its message: it waits from now on, once and whole.
LEMMA LastPieceKeeps ==
    ASSUME NEW s, NEW fs, Supplied(s, fs),
           NEW r, NEW came, Receiver(s, fs, r, came),
           NEW f \in fs, f.split, IsFull(Grown(r, f))
    PROVE  Receiver(s, fs, AddSplit(r, f), came \cup {f}) /\ AddSplit(r, f).min = r.min
<1> DEFINE N  == AddSplit(r, f)
           g  == Grown(r, f)
           id == f.split_id
           n  == f.order_index
           pool == Put(r.pool, id, g)
<1>1. /\ QueueHoldsWholes(s, r) /\ PoolHoldsUnfinished(s, fs, r) /\ DeleteIsHandled(fs, r)
      /\ came \subseteq fs /\ \A h \in came : Kept(r, h)
  BY DEF Receiver
<1>2. /\ EntryOf(s, fs, g, id) /\ g.order_index = n /\ g.split_size = f.split_count
      /\ DOMAIN g.data = DOMAIN EntryFor(r, f).data \cup {f.split_index}
  BY <1>1, GrownEntry
<1>3. /\ N = [min |-> N.min, max |-> N.max, packet_queue |-> N.packet_queue,
              pool |-> N.pool, delete |-> N.delete]
      /\ N.min = r.min
      /\ N.max = IF n >= r.max THEN n + 1 ELSE r.max
      /\ N.packet_queue = Put(r.packet_queue, n, Join(g))
      /\ N.pool = Without(pool, r.delete \cup {id})
      /\ N.delete = r.delete \cup {id}
  <2>1. SplitAdded(r, f, N, g) /\ IsFull(g)
    BY <1>1, AddSplitFields
  <2>. HIDE DEF N, g
  <2>. QED
    BY <2>1, <1>2 DEF SplitAdded
<1>4. FrameOf(s, f) /\ n < s.count
  BY DEF Supplied, FrameOf
<1>5. DOMAIN g.data = 0..(g.split_size - 1)
  <2>1. g.split_size \in Nat /\ DOMAIN g.data \subseteq 0..(g.split_size - 1)
    BY <1>2, <1>4 DEF EntryOf, FrameOf
  <2>2. IsFull(g)
    OBVIOUS
  <2>. HIDE DEF g
  <2>. QED
    BY <2>1, <2>2, FullIsAll
<1>6. id \notin r.delete
  <2>. SUFFICES ASSUME id \in r.delete PROVE FALSE
    OBVIOUS
  <2>1. DOMAIN EntryFor(r, f).data = {}
    BY <1>1, EntryForFrame DEF DeleteIsHandled
  <2>2. 0 \in DOMAIN g.data /\ 1 \in DOMAIN g.data
    <3>1. g.split_size \in Nat /\ g.split_size > 1
      BY <1>2, <1>4 DEF FrameOf
    <3>. QED
      BY <1>5, <3>1
  <2>. QED
    BY <1>2, <2>1, <2>2
<1>7. ~ Handled(r, n)
  BY <1>1, <1>6 DEF DeleteIsHandled
<1>8. Join(g) = WholeOf(s, n)
  <2>1. s.parts[n] \in Nat /\ g.split_size = s.parts[n]
    BY <1>2, <1>4 DEF FrameOf
  <2>. HIDE DEF g
  <2>. QED
    BY <2>1, <1>2, <1>5, JoinIsWhole
<1>9. /\ DOMAIN N.pool = DOMAIN r.pool \ {id}
      /\ \A x \in DOMAIN N.pool : N.pool[x] = r.pool[x]
  BY <1>1, <1>3 DEF Put, Without, Restrict, DeleteIsHandled
<1>. HIDE DEF N, g
<1>10. \A m : Handled(N, m) <=> Handled(r, m) \/ m = n
  BY <1>3 DEF Handled, Put
<1>11. QueueHoldsWholes(s, N)
  <2>1. /\ r.min \in Nat /\ r.max \in Nat /\ r.min <= r.max /\ r.max <= s.count /\ s.count \in Nat
        /\ n \in Nat /\ n < s.count
    BY <1>1, <1>4 DEF QueueHoldsWholes, FrameOf
  <2>2. r.min <= n
    BY <1>7, <2>1 DEF Handled
  <2>3. N.max \in Nat /\ r.max <= N.max /\ N.max <= s.count /\ n < N.max
    BY <1>3, <2>1
  <2>4. \A o \in DOMAIN r.packet_queue : o \in r.min..(r.max - 1) /\ r.packet_queue[o] = WholeOf(s, o)
    BY <1>1 DEF QueueHoldsWholes
  <2>5. N.packet_queue = [o \in DOMAIN N.packet_queue |-> WholeOf(s, o)]
    BY <1>3, <1>8, <2>4 DEF Put
  <2>6. \A o \in DOMAIN N.packet_queue : o \in r.min..(N.max - 1)
    BY <1>3, <2>1, <2>2, <2>3, <2>4 DEF Put
  <2>. QED
    BY <1>3, <2>1, <2>3, <2>5, <2>6 DEF QueueHoldsWholes
<1>12. PoolHoldsUnfinished(s, fs, N)
  BY <1>1, <1>9 DEF PoolHoldsUnfinished
<1>13. DeleteIsHandled(fs, N)
  <2>1. DOMAIN N.pool \cap N.delete = {}
    BY <1>1, <1>3, <1>9 DEF DeleteIsHandled
  <2>2. \A x \in N.delete : \E h \in fs : h.split /\ h.split_id = x
    BY <1>1, <1>3 DEF DeleteIsHandled
  <2>3. ASSUME NEW h \in fs, h.split
        PROVE  h.split_id \in N.delete <=> Handled(N, h.order_index)
    <3>1. h.split_id = id <=> h.order_index = n
      BY <2>3 DEF Supplied, IdsStandForMessages
    <3>2. h.split_id \in r.delete <=> Handled(r, h.order_index)
      BY <1>1, <2>3 DEF DeleteIsHandled
    <3>. QED
      BY <3>1, <3>2, <1>3, <1>10
  <2>. QED
    BY <2>1, <2>2, <2>3 DEF DeleteIsHandled
<1>14. ASSUME NEW h \in came \cup {f} PROVE Kept(N, h)
  <2>1. CASE h.order_index = n \/ Handled(r, h.order_index)
    BY <2>1, <1>10 DEF Kept
  <2>2. CASE h.order_index # n /\ ~ Handled(r, h.order_index)
    <3>1. h \in came
      BY <2>2
    <3>2. /\ h.split /\ h.split_id \in DOMAIN r.pool
          /\ h.split_index \in DOMAIN r.pool[h.split_id].data
      BY <1>1, <2>2, <3>1 DEF Kept
    <3>3. h.split_id # id
      BY <1>1, <2>2, <3>1, <3>2 DEF Supplied, IdsStandForMessages
    <3>. QED
      BY <3>2, <3>3, <1>9 DEF Kept
  <2>. QED
    BY <2>1, <2>2
<1>15. came \cup {f} \subseteq fs
  BY <1>1
<1>. QED
  BY <1>3, <1>11, <1>12, <1>13, <1>14, <1>15 DEF Receiver, N

\* A frame that is a whole packet waits from now on, unless it came before.
LEMMA WholeKeeps ==
    ASSUME NEW s, NEW fs, Supplied(s, fs),
           NEW r, NEW came, Receiver(s, fs, r, came),
           NEW f \in fs, ~ f.split
    PROVE  Receiver(s, fs, AddWhole(r, f), came \cup {f}) /\ AddWhole(r, f).min = r.min
<1> DEFINE N == AddWhole(r, f)
           n == f.order_index
<1>1. /\ QueueHoldsWholes(s, r) /\ PoolHoldsUnfinished(s, fs, r) /\ DeleteIsHandled(fs, r)
      /\ came \subseteq fs /\ \A h \in came : Kept(r, h)
  BY DEF Receiver
<1>2. came \cup {f} \subseteq fs
  BY <1>1
<1>3. CASE Handled(r, n)
  <2>1. N = r
    BY <1>3 DEF Handled, AddWhole
  <2>2. \A h \in came \cup {f} : Kept(r, h)
    BY <1>1, <1>3 DEF Kept
  <2>. QED
    BY <1>1, <1>2, <2>1, <2>2 DEF Receiver
<1>4. CASE ~ Handled(r, n)
  <2>1. FrameOf(s, f) /\ n < s.count
    BY DEF Supplied, FrameOf
  <2>2. <<f.data>> = WholeOf(s, n)
    <3>1. s.parts[n] = 1 /\ f.split_index = 0
      <4>1. /\ f.split <=> s.parts[n] > 1
            /\ s.parts[n] \in Nat \ {0} /\ f.split_index \in 0..(s.parts[n] - 1)
        BY <2>1 DEF FrameOf
      <4>2. ~ (s.parts[n] > 1)
        BY <4>1, Zenon
      <4>. QED
        BY <4>1, <4>2
    <3>2. f.data = s.piece[n][0]
      BY <2>1, <3>1 DEF FrameOf
    <3>3. WholeOf(s, n) = [k \in 1..1 |-> s.piece[n][k - 1]]
      BY <3>1 DEF WholeOf
    <3>. QED
      BY <3>2, <3>3
  <2>3. N = [r EXCEPT !.max = IF n >= @ THEN n + 1 ELSE @,
                      !.packet_queue = Put(@, n, <<f.data>>)]
    BY <1>4 DEF Handled, AddWhole
  <2>4. r = [min |-> r.min, max |-> r.max, packet_queue |-> r.packet_queue,
             pool |-> r.pool, delete |-> r.delete]
    BY <1>1 DEF QueueHoldsWholes
  <2>5. N = [min |-> r.min, max |-> IF n >= r.max THEN n + 1 ELSE r.max,
             packet_queue |-> Put(r.packet_queue, n, WholeOf(s, n)),
             pool |-> r.pool, delete |-> r.delete]
    <3>. HIDE DEF N, n
    <3>. QED
      BY <2>2, <2>3, <2>4
  <2>6. /\ N = [min |-> N.min, max |-> N.max, packet_queue |-> N.packet_queue,
                pool |-> N.pool, delete |-> N.delete]
        /\ N.min = r.min
        /\ N.max = IF n >= r.max THEN n + 1 ELSE r.max
        /\ N.packet_queue = Put(r.packet_queue, n, WholeOf(s, n))
        /\ N.pool = r.pool /\ N.delete = r.delete
    <3>. HIDE DEF N, n
    <3>. QED
      BY <2>5
  <2>. HIDE DEF N
  <2>7. \A m : Handled(N, m) <=> Handled(r, m) \/ m = n
    BY <2>6 DEF Handled, Put
  <2>8. QueueHoldsWholes(s, N)
    <3>1. /\ r.min \in Nat /\ r.max \in Nat /\ r.min <= r.max /\ r.max <= s.count /\ s.count \in Nat
          /\ n \in Nat /\ n < s.count
      BY <1>1, <2>1 DEF QueueHoldsWholes, FrameOf
    <3>2. r.min <= n
      BY <1>4, <3>1 DEF Handled
    <3>3. N.max \in Nat /\ r.max <= N.max /\ N.max <= s.count /\ n < N.max
      BY <2>6, <3>1
    <3>4. \A o \in DOMAIN r.packet_queue :
             o \in r.min..(r.max - 1) /\ r.packet_queue[o] = WholeOf(s, o)
      BY <1>1 DEF QueueHoldsWholes
    <3>5. N.packet_queue = [o \in DOMAIN N.packet_queue |-> WholeOf(s, o)]
      BY <2>6, <3>4 DEF Put
    <3>6. \A o \in DOMAIN N.packet_queue : o \in r.min..(N.max - 1)
      BY <2>6, <3>1, <3>2, <3>3, <3>4 DEF Put
    <3>. QED
      BY <2>6, <3>1, <3>3, <3>5, <3>6 DEF QueueHoldsWholes
  <2>9. PoolHoldsUnfinished(s, fs, N)
    BY <1>1, <2>6 DEF PoolHoldsUnfinished
  <2>10. DeleteIsHandled(fs, N)
    <3>1. ASSUME NEW h \in fs, h.split PROVE h.order_index # n
      <4>1. FrameOf(s, h)
        BY DEF Supplied, FrameOf
      <4>. QED
        BY <3>1, <4>1, <2>1 DEF FrameOf
    <3>. QED
      BY <1>1, <2>6, <2>7, <3>1 DEF DeleteIsHandled
  <2>11. \A h \in came \cup {f} : Kept(N, h)
    BY <1>1, <2>6, <2>7 DEF Kept
  <2>. QED
    BY <1>2, <2>6, <2>8, <2>9, <2>10, <2>11 DEF Receiver, N
<1>. QED
  BY <1>3, <1>4

LEMMA AddKeeps ==
    ASSUME NEW s, NEW fs, Supplied(s, fs),
           NEW r, NEW came, Receiver(s, fs, r, came), NEW f \in fs
    PROVE  Receiver(s, fs, AddReceived(r, f), came \cup {f}) /\ AddReceived(r, f).min = r.min
<1>2. CASE f.split
  <2>1. AddReceived(r, f) = AddSplit(r, f)
    BY <1>2 DEF AddReceived
  <2>. QED
    BY <1>2, <2>1, PieceKeeps, LastPieceKeeps
<1>3. CASE ~ f.split
  <2>1. AddReceived(r, f) = AddWhole(r, f)
    BY <1>3 DEF AddReceived
  <2>. QED
    BY <1>3, <2>1, WholeKeeps
<1>. QED
  BY <1>2, <1>3
-----------------------------------------------------------------------------
(* ReceivedQueue::get_all (receivedqueue.rs:61).                            *)

\* The loop stops: there is a first index that does not wait, or max.
LEMMA FirstGapStops ==
    ASSUME NEW s, NEW r, QueueHoldsWholes(s, r)
    PROVE  /\ FirstGap(r) \in r.min..r.max
           /\ r.min..(FirstGap(r) - 1) \subseteq DOMAIN r.packet_queue
           /\ FirstGap(r) = r.max \/ FirstGap(r) \notin DOMAIN r.packet_queue
<1> DEFINE Stops(n) == n = r.max \/ n \notin DOMAIN r.packet_queue
           T == {n \in r.min..r.max : Stops(n)}
<1>1. r.min \in Nat /\ r.max \in Nat /\ r.min <= r.max
  BY DEF QueueHoldsWholes
<1>2. T \in SUBSET Nat /\ r.max \in T
  BY <1>1
<1>3. PICK x \in T : \A y \in T : x <= y
  <2>. HIDE DEF T
  <2>. QED
    BY <1>2, LeastNatural
<1>4. x \in r.min..r.max /\ Stops(x)
  BY <1>3
<1>5. ASSUME NEW m \in r.min..(x - 1) PROVE m \in DOMAIN r.packet_queue
  <2>1. m \in r.min..r.max /\ m \notin T
    BY <1>1, <1>3, <1>4
  <2>. QED
    BY <2>1
<1>6. \E n \in r.min..r.max :
         /\ r.min..(n - 1) \subseteq DOMAIN r.packet_queue
         /\ n = r.max \/ n \notin DOMAIN r.packet_queue
  BY <1>4, <1>5
<1>. QED
  BY <1>6 DEF FirstGap

LEMMA GetAllKeeps ==
    ASSUME NEW s, NEW fs, Supplied(s, fs),
           NEW r, NEW came, Receiver(s, fs, r, came)
    PROVE  /\ Receiver(s, fs, AfterGetAll(r), came)
           /\ AfterGetAll(r).min \notin DOMAIN AfterGetAll(r).packet_queue
           /\ AfterGetAll(r).min \in Nat /\ r.min <= AfterGetAll(r).min
           /\ GetAll(r) = WholesOf(s, r.min, AfterGetAll(r).min)
<1> DEFINE N   == AfterGetAll(r)
           gap == FirstGap(r)
<1>1. /\ QueueHoldsWholes(s, r) /\ PoolHoldsUnfinished(s, fs, r) /\ DeleteIsHandled(fs, r)
      /\ came \subseteq fs /\ \A h \in came : Kept(r, h)
  BY DEF Receiver
<1>2. /\ r = [min |-> r.min, max |-> r.max, packet_queue |-> r.packet_queue,
              pool |-> r.pool, delete |-> r.delete]
      /\ r.min \in Nat /\ r.max \in Nat /\ r.min <= r.max /\ r.max <= s.count
      /\ r.packet_queue = [o \in DOMAIN r.packet_queue |-> WholeOf(s, o)]
      /\ \A o \in DOMAIN r.packet_queue : o \in r.min..(r.max - 1)
  BY <1>1 DEF QueueHoldsWholes
<1>3. /\ gap \in r.min..r.max
      /\ r.min..(gap - 1) \subseteq DOMAIN r.packet_queue
      /\ gap = r.max \/ gap \notin DOMAIN r.packet_queue
  BY <1>1, FirstGapStops
<1>4. N = [r EXCEPT !.packet_queue = Without(@, r.min..(gap - 1)), !.min = gap]
  BY DEF AfterGetAll
<1>5. GetAll(r) = [k \in 1..(gap - r.min) |-> r.packet_queue[r.min + k - 1]]
  BY DEF GetAll
<1>. HIDE DEF N, gap
<1>6. /\ N = [min |-> N.min, max |-> N.max, packet_queue |-> N.packet_queue,
              pool |-> N.pool, delete |-> N.delete]
      /\ N.min = gap /\ N.max = r.max /\ N.pool = r.pool /\ N.delete = r.delete
      /\ N.packet_queue = Without(r.packet_queue, r.min..(gap - 1))
  <2>1. N = [min |-> gap, max |-> r.max,
             packet_queue |-> Without(r.packet_queue, r.min..(gap - 1)),
             pool |-> r.pool, delete |-> r.delete]
    BY <1>2, <1>4
  <2>. QED
    BY <2>1
<1>7. /\ DOMAIN N.packet_queue = DOMAIN r.packet_queue \ (r.min..(gap - 1))
      /\ N.packet_queue = [o \in DOMAIN N.packet_queue |-> r.packet_queue[o]]
  BY <1>6 DEF Without, Restrict
<1>8. gap \in Nat /\ r.min <= gap /\ gap <= r.max
  BY <1>2, <1>3
<1>9. gap \notin DOMAIN N.packet_queue
  BY <1>2, <1>3, <1>7, <1>8
<1>10. QueueHoldsWholes(s, N)
  <2>1. N.packet_queue = [o \in DOMAIN N.packet_queue |-> WholeOf(s, o)]
    BY <1>2, <1>7
  <2>2. \A o \in DOMAIN N.packet_queue : o \in gap..(r.max - 1)
    BY <1>2, <1>7, <1>8
  <2>. QED
    BY <2>1, <2>2, <1>2, <1>6, <1>8 DEF QueueHoldsWholes
<1>11. \A n \in Nat : Handled(N, n) <=> Handled(r, n)
  BY <1>2, <1>3, <1>6, <1>7, <1>8 DEF Handled
<1>12. \A h \in fs : h.order_index \in Nat
  BY DEF Supplied, FrameOf
<1>13. PoolHoldsUnfinished(s, fs, N)
  BY <1>1, <1>6 DEF PoolHoldsUnfinished
<1>14. DeleteIsHandled(fs, N)
  BY <1>1, <1>6, <1>11, <1>12 DEF DeleteIsHandled
<1>15. \A h \in came : Kept(N, h)
  BY <1>1, <1>6, <1>11, <1>12 DEF Kept
<1>16. GetAll(r) = [k \in 1..(gap - r.min) |-> WholeOf(s, r.min + k - 1)]
  <2>1. \A k \in 1..(gap - r.min) : r.min + k - 1 \in r.min..(gap - 1)
    BY <1>2, <1>8
  <2>2. \A k \in 1..(gap - r.min) : r.packet_queue[r.min + k - 1] = WholeOf(s, r.min + k - 1)
    BY <1>2, <1>3, <2>1
  <2>. QED
    BY <1>5, <2>2
<1>17. GetAll(r) = WholesOf(s, r.min, N.min)
  BY <1>6, <1>16 DEF WholesOf
<1>. QED
  BY <1>1, <1>6, <1>8, <1>9, <1>10, <1>13, <1>14, <1>15, <1>17 DEF Receiver, N
-----------------------------------------------------------------------------
(* send_to, as the receiver sees it: one message more.                      *)

\* t is s and a message more, in the frames `new`, under the id `id`.
OneMessageMore(s, t, new, id) ==
    /\ t.count = s.count + 1
    /\ \A n \in 0..(s.count - 1) : t.parts[n] = s.parts[n] /\ t.piece[n] = s.piece[n]
    /\ \A f \in new : FrameOf(t, f) /\ f.order_index = s.count /\ f.split_id = id

\* How many messages are split, with one more.
LEMMA CountSplit ==
    ASSUME NEW s, NEW t, NEW new, NEW id, s.count \in Nat, OneMessageMore(s, t, new, id)
    PROVE  /\ IsFiniteSet(SplitOf(s)) /\ IsFiniteSet(SplitOf(t))
           /\ Cardinality(SplitOf(s)) \in Nat
           /\ Cardinality(SplitOf(t)) \in Nat
           /\ t.parts[s.count] > 1 => Cardinality(SplitOf(t)) = Cardinality(SplitOf(s)) + 1
           /\ ~ (t.parts[s.count] > 1) => SplitOf(t) = SplitOf(s)
<1>1. IsFiniteSet(SplitOf(s))
  <2>1. IsFiniteSet(0..(s.count - 1))
    BY FS_Interval
  <2>2. SplitOf(s) \in SUBSET (0..(s.count - 1))
    BY DEF SplitOf
  <2>. QED
    BY <2>1, <2>2, FS_Subset
<1>2. s.count \notin SplitOf(s)
  BY DEF SplitOf
<1>3. 0..(t.count - 1) = 0..(s.count - 1) \cup {s.count}
  BY DEF OneMessageMore
<1>4. t.parts[s.count] > 1 => SplitOf(t) = SplitOf(s) \cup {s.count}
  BY <1>3 DEF SplitOf, OneMessageMore
<1>5. ~ (t.parts[s.count] > 1) => SplitOf(t) = SplitOf(s)
  BY <1>3 DEF SplitOf, OneMessageMore
<1>6. Cardinality(SplitOf(s)) \in Nat
  BY <1>1, FS_CardinalityType
<1>7. t.parts[s.count] > 1 => /\ Cardinality(SplitOf(t)) = Cardinality(SplitOf(s)) + 1
                              /\ IsFiniteSet(SplitOf(t))
  BY <1>1, <1>2, <1>4, FS_AddElement
<1>. QED
  BY <1>1, <1>5, <1>6, <1>7

\* The new frames are those of one message with an id of its own, if it needs one.
LEMMA SendSupplies ==
    ASSUME NEW s, NEW fs, Supplied(s, fs),
           NEW ids \in Nat \ {0}, NEW id, IdsInTurn(s, fs, id, ids),
           NEW t, NEW new, OneMessageMore(s, t, new, id), Cardinality(SplitOf(t)) <= ids
    PROVE  /\ Supplied(t, fs \cup new)
           /\ IdsInTurn(t, fs \cup new, IF t.parts[s.count] > 1 THEN (id + 1) % ids ELSE id, ids)
           /\ \A f \in new, g \in fs : f.split /\ g.split => f.split_id # g.split_id
<1> DEFINE count == Cardinality(SplitOf(s))
           more  == Cardinality(SplitOf(t))
           next  == IF t.parts[s.count] > 1 THEN (id + 1) % ids ELSE id
<1>1. /\ s.count \in Nat /\ \A f \in fs : FrameOf(s, f)
      /\ IdsStandForMessages(fs)
  BY DEF Supplied
<1>2. /\ count \in Nat /\ more \in Nat /\ more <= ids
      /\ t.parts[s.count] > 1 => more = count + 1
      /\ ~ (t.parts[s.count] > 1) => more = count
  BY <1>1, CountSplit
<1>3. /\ id \in 0..(ids - 1)
      /\ \A f \in fs : f.split => f.split_id \in Nat /\ f.split_id < count
      /\ count < ids => id = count
  BY DEF IdsInTurn
<1>. HIDE DEF count, more
<1>4. t.parts[s.count] > 1 => id = count /\ count < ids
  BY <1>2, <1>3
<1>5. \A f \in new : /\ FrameOf(t, f) /\ f.order_index = s.count /\ f.split_id = id
                     /\ f.split <=> t.parts[s.count] > 1
  BY DEF OneMessageMore, FrameOf
<1>6. \A f \in fs : FrameOf(t, f) /\ f.order_index < s.count /\ f.order_index \in Nat
  BY <1>1 DEF OneMessageMore, FrameOf
<1>7. \A f \in new, g \in fs : f.split /\ g.split => f.split_id # g.split_id
  BY <1>2, <1>3, <1>4, <1>5
<1>8. IdsStandForMessages(fs \cup new)
  <2>1. ASSUME NEW f \in fs \cup new, NEW g \in fs \cup new, f.order_index = g.order_index
        PROVE  f.split_id = g.split_id
    <3>1. CASE f \in fs /\ g \in fs
      BY <3>1, <2>1, <1>1 DEF IdsStandForMessages
    <3>2. CASE f \in new /\ g \in new
      BY <3>2, <1>5
    <3>3. CASE (f \in new /\ g \in fs) \/ (f \in fs /\ g \in new)
      BY <3>3, <2>1, <1>1, <1>5, <1>6
    <3>. QED
      BY <3>1, <3>2, <3>3
  <2>2. ASSUME NEW f \in fs \cup new, NEW g \in fs \cup new,
               f.split, g.split, f.split_id = g.split_id
        PROVE  f.order_index = g.order_index
    <3>1. CASE f \in fs /\ g \in fs
      BY <3>1, <2>2, <1>1 DEF IdsStandForMessages
    <3>2. CASE f \in new /\ g \in new
      BY <3>2, <1>5
    <3>3. CASE (f \in new /\ g \in fs) \/ (f \in fs /\ g \in new)
      BY <3>3, <2>2, <1>7
    <3>. QED
      BY <3>1, <3>2, <3>3
  <2>. QED
    BY <2>1, <2>2 DEF IdsStandForMessages
<1>9. Supplied(t, fs \cup new)
  <2>1. t.count \in Nat
    BY <1>1 DEF OneMessageMore
  <2>. QED
    BY <2>1, <1>5, <1>6, <1>8 DEF Supplied
<1>10. \A f \in fs \cup new : f.split => f.split_id \in Nat /\ f.split_id < more
  <2>1. \A f \in fs : f.split => f.split_id \in Nat /\ f.split_id < more
    BY <1>2, <1>3
  <2>2. \A f \in new : f.split => f.split_id \in Nat /\ f.split_id < more
    BY <1>2, <1>4, <1>5
  <2>. QED
    BY <2>1, <2>2
<1>11. next \in 0..(ids - 1) /\ (more < ids => next = more)
  <2>1. CASE t.parts[s.count] > 1
    <3>1. (id + 1) % ids \in 0..(ids - 1)
      BY <1>3
    <3>2. count + 1 < ids => (count + 1) % ids = count + 1
      BY <1>2
    <3>. QED
      BY <2>1, <3>1, <3>2, <1>2, <1>4
  <2>2. CASE ~ (t.parts[s.count] > 1)
    BY <2>2, <1>2, <1>3
  <2>. QED
    BY <2>1, <2>2
<1>12. IdsInTurn(t, fs \cup new, next, ids)
  BY <1>10, <1>11 DEF IdsInTurn, more
<1>. QED
  BY <1>7, <1>9, <1>12

\* The receiver knows nothing of it yet.
LEMMA SendKeepsReceiver ==
    ASSUME NEW s, NEW fs, Supplied(s, fs),
           NEW ids \in Nat \ {0}, NEW id, IdsInTurn(s, fs, id, ids),
           NEW t, NEW new, OneMessageMore(s, t, new, id), Cardinality(SplitOf(t)) <= ids,
           NEW r, NEW came, Receiver(s, fs, r, came)
    PROVE  Receiver(t, fs \cup new, r, came)
<1>1. /\ QueueHoldsWholes(s, r) /\ PoolHoldsUnfinished(s, fs, r) /\ DeleteIsHandled(fs, r)
      /\ came \subseteq fs /\ \A f \in came : Kept(r, f)
  BY DEF Receiver
<1>2. /\ r.min \in Nat /\ r.max \in Nat /\ s.count \in Nat
      /\ r.min <= r.max /\ r.max <= s.count /\ t.count = s.count + 1
      /\ \A n \in 0..(s.count - 1) : t.parts[n] = s.parts[n] /\ t.piece[n] = s.piece[n]
  BY <1>1 DEF QueueHoldsWholes, Supplied, OneMessageMore
<1>3. \A n \in 0..(s.count - 1) : WholeOf(t, n) = WholeOf(s, n)
  BY <1>2 DEF WholeOf
<1>4. QueueHoldsWholes(t, r)
  <2>1. \A o \in DOMAIN r.packet_queue : o \in 0..(s.count - 1)
    BY <1>1, <1>2 DEF QueueHoldsWholes
  <2>2. r.packet_queue = [o \in DOMAIN r.packet_queue |-> WholeOf(s, o)]
    BY <1>1 DEF QueueHoldsWholes
  <2>3. r.packet_queue = [o \in DOMAIN r.packet_queue |-> WholeOf(t, o)]
    BY <2>1, <2>2, <1>3
  <2>4. r.max <= t.count
    BY <1>2
  <2>. QED
    BY <2>3, <2>4, <1>1 DEF QueueHoldsWholes
<1>5. PoolHoldsUnfinished(t, fs \cup new, r)
  <2>1. ASSUME NEW e, NEW x, EntryOf(s, fs, e, x) PROVE EntryOf(t, fs \cup new, e, x)
    <3>1. e.order_index \in 0..(s.count - 1)
      BY <2>1 DEF EntryOf, Supplied, FrameOf
    <3>2. t.piece[e.order_index] = s.piece[e.order_index]
      BY <3>1, <1>2
    <3>. QED
      BY <2>1, <3>2 DEF EntryOf
  <2>. QED
    BY <2>1, <1>1 DEF PoolHoldsUnfinished
<1>6. DeleteIsHandled(fs \cup new, r)
  <2>1. \A x \in r.delete : \E f \in fs : f.split /\ f.split_id = x
    BY <1>1 DEF DeleteIsHandled
  <2>2. ASSUME NEW f \in new, f.split
        PROVE  f.split_id \notin r.delete /\ ~ Handled(r, f.order_index)
    <3>1. f.split_id \notin r.delete
      <4>1. \A g \in fs : g.split => f.split_id # g.split_id
        <5>1. \A h \in new, g \in fs : h.split /\ g.split => h.split_id # g.split_id
          BY SendSupplies
        <5>. QED
          BY <5>1, <2>2
      <4>. QED
        BY <2>1, <4>1
    <3>2. f.order_index = s.count
      BY DEF OneMessageMore
    <3>3. ~ Handled(r, s.count)
      BY <1>1, <1>2 DEF Handled, QueueHoldsWholes
    <3>. QED
      BY <3>1, <3>2, <3>3
  <2>3. \A f \in fs : f.split => (f.split_id \in r.delete <=> Handled(r, f.order_index))
    BY <1>1 DEF DeleteIsHandled
  <2>4. \A f \in fs \cup new : f.split => (f.split_id \in r.delete <=> Handled(r, f.order_index))
    BY <2>2, <2>3
  <2>. QED
    BY <2>1, <2>4, <1>1 DEF DeleteIsHandled
<1>. QED
  BY <1>1, <1>4, <1>5, <1>6 DEF Receiver

\* ReceivedQueue::new, when nothing was sent.
LEMMA NewReceiver ==
    ASSUME NEW s, s.count \in Nat, NEW r, r = NewReceivedQueue
    PROVE  Receiver(s, {}, r, {}) /\ r.min = 0 /\ DOMAIN r.packet_queue = {}
<1>1. /\ r = [min |-> r.min, max |-> r.max, packet_queue |-> r.packet_queue,
              pool |-> r.pool, delete |-> r.delete]
      /\ r.min = 0 /\ r.max = 0 /\ r.packet_queue = EmptyMap /\ r.pool = EmptyMap
      /\ r.delete = {}
  BY DEF NewReceivedQueue
<1>2. DOMAIN EmptyMap = {} /\ EmptyMap = [o \in {} |-> WholeOf(s, o)]
  BY DEF EmptyMap
<1>3. QueueHoldsWholes(s, r)
  BY <1>1, <1>2 DEF QueueHoldsWholes
<1>4. PoolHoldsUnfinished(s, {}, r) /\ DeleteIsHandled({}, r)
  BY <1>1, <1>2 DEF PoolHoldsUnfinished, DeleteIsHandled
<1>. QED
  BY <1>1, <1>2, <1>3, <1>4 DEF Receiver
-----------------------------------------------------------------------------
(* Induction, in the form the proofs of the codec use.                      *)

\* A set of naturals with 0, and with the successor of each, is all of them.
LEMMA Induction ==
    ASSUME NEW S \in SUBSET Nat, 0 \in S, \A n \in S : n + 1 \in S
    PROVE  S = Nat
<1>1. SUFFICES ASSUME Nat \ S # {} PROVE FALSE
  OBVIOUS
<1>2. PICK x \in Nat \ S : \A y \in Nat \ S : x <= y
  BY <1>1, LeastNatural
<1>3. x # 0 /\ x - 1 \in Nat /\ (x - 1) + 1 = x /\ ~ (x <= x - 1)
  BY <1>2
<1>4. x - 1 \in S
  BY <1>2, <1>3
<1>. QED
  BY <1>2, <1>3, <1>4
-----------------------------------------------------------------------------
(* The folds of the codec.  A fold takes its operator as a parameter, so    *)
(* the two of it are told apart by a name.                                  *)

\* one field, in front of which the Reader is as r says (reader.rs)
ReadStep(buf, r, field) ==
    IF ~ r.ok \/ r.pos >= Len(buf) THEN [r EXCEPT !.ok = FALSE]
    ELSE LET next == r.pos + Size(field[2], buf, r.pos)
         IN  IF next > Len(buf) THEN [r EXCEPT !.ok = FALSE]
             ELSE [ok |-> TRUE, pos |-> next,
                   values |-> IF field[1] = "_" THEN r.values
                              ELSE Put(r.values, field[1],
                                       Read(field[2], SubSeq(buf, r.pos + 1, next)))]

Byte(n, byte) == 256 * n + byte

ByteStep(op, buf, a, x) == IF op = "read" THEN ReadStep(buf, a, x) ELSE Byte(a, x)

\* the fold over the positions t, given the folds over the smaller ones
BytesIterStep(op, buf, b, s, iter, t) ==
    IF t = {} THEN b ELSE ByteStep(op, buf, iter[t \ {Max(t)}], s[Max(t)])
BytesIter(op, buf, b, s) ==
    CHOOSE iter : iter = [t \in SUBSET DOMAIN s |-> BytesIterStep(op, buf, b, s, iter, t)]
BytesFolded(op, buf, b, s) == BytesIter(op, buf, b, s)[DOMAIN s]
IsBytesIter(op, buf, b, s, n, iter) ==
    iter = [t \in SUBSET (1..n) |-> BytesIterStep(op, buf, b, s, iter, t)]

\* The greatest of the numbers up to n is n, if it is there.
LEMMA GreatestIs ==
    ASSUME NEW n \in Nat, n > 0, NEW t \in SUBSET (1..n)
    PROVE  /\ n \in t => Max(t) = n /\ t \ {n} \in SUBSET (1..(n - 1))
           /\ n \notin t => t \in SUBSET (1..(n - 1))
<1>1. ASSUME n \in t PROVE Max(t) = n
  <2>1. \A y \in t : y \in Nat /\ n >= y
    OBVIOUS
  <2>2. \A x \in t : (\A y \in t : x >= y) => x = n
    BY <1>1, <2>1
  <2>. QED
    BY <1>1, <2>1, <2>2 DEF Max
<1>. QED
  BY <1>1

\* The fold of one position more.
LEMMA BytesIterNext ==
    ASSUME NEW op, NEW buf, NEW b, NEW s, NEW n \in Nat, NEW h, IsBytesIter(op, buf, b, s, n, h)
    PROVE  \E g : IsBytesIter(op, buf, b, s, n + 1, g)
<1>0. \A t \in SUBSET (1..n) : h[t] = BytesIterStep(op, buf, b, s, h, t)
  BY DEF IsBytesIter
<1>1. PICK g : g = [t \in SUBSET (1..(n + 1)) |->
                      IF n + 1 \in t THEN ByteStep(op, buf, h[t \ {n + 1}], s[n + 1]) ELSE h[t]]
  OBVIOUS
<1>2. \A t \in SUBSET (1..n) : g[t] = h[t]
  <2>. TAKE t \in SUBSET (1..n)
  <2>1. t \in SUBSET (1..(n + 1)) /\ n + 1 \notin t
    OBVIOUS
  <2>. QED
    BY <1>1, <2>1
<1>3. ASSUME NEW t \in SUBSET (1..(n + 1)) PROVE g[t] = BytesIterStep(op, buf, b, s, g, t)
  <2>1. CASE n + 1 \in t
    <3>1. Max(t) = n + 1 /\ t \ {n + 1} \in SUBSET (1..n) /\ t # {}
      BY <2>1, GreatestIs
    <3>2. g[t \ {n + 1}] = h[t \ {n + 1}]
      BY <3>1, <1>2
    <3>. QED
      BY <2>1, <3>1, <3>2, <1>1 DEF BytesIterStep
  <2>2. CASE n + 1 \notin t
    <3>1. t \in SUBSET (1..n)
      BY <2>2, GreatestIs
    <3>2. g[t] = h[t] /\ h[t] = BytesIterStep(op, buf, b, s, h, t)
      BY <3>1, <1>0, <1>2
    <3>3. t \ {Max(t)} \in SUBSET (1..n)
      BY <3>1
    <3>4. g[t \ {Max(t)}] = h[t \ {Max(t)}]
      BY <3>3, <1>2
    <3>. QED
      BY <3>2, <3>4 DEF BytesIterStep
  <2>. QED
    BY <2>1, <2>2
<1>4. g = [t \in SUBSET (1..(n + 1)) |-> BytesIterStep(op, buf, b, s, g, t)]
  BY <1>1, <1>3
<1>. QED
  BY <1>4 DEF IsBytesIter

\* A fold, step by step: g[k] is the fold of the first k.
IsFold(op, buf, b, s, n, g) ==
    /\ g[0] = b
    /\ \A k \in 1..n : g[k] = ByteStep(op, buf, g[k - 1], s[k])

OfLength(s, n) == n \in Nat /\ DOMAIN s = 1..n

LEMMA BytesFoldedSteps ==
    ASSUME NEW op, NEW buf, NEW b, NEW s, NEW n, OfLength(s, n)
    PROVE  \E g : IsFold(op, buf, b, s, n, g) /\ BytesFolded(op, buf, b, s) = g[n]
<1>0. n \in Nat /\ DOMAIN s = 1..n
  BY DEF OfLength
<1>1. \E h : IsBytesIter(op, buf, b, s, 0, h)
  <2>1. PICK h : h = [t \in {{}} |-> b]
    OBVIOUS
  <2>2. \A t \in SUBSET (1..0) : t = {}
    OBVIOUS
  <2>3. SUBSET (1..0) = {{}}
    BY <2>2
  <2>4. \A t \in {{}} : BytesIterStep(op, buf, b, s, h, t) = b
    BY DEF BytesIterStep
  <2>5. h = [t \in SUBSET (1..0) |-> BytesIterStep(op, buf, b, s, h, t)]
    BY <2>1, <2>3, <2>4
  <2>. QED
    BY <2>5 DEF IsBytesIter
<1>2. PICK S : S = {m \in Nat : \E h : IsBytesIter(op, buf, b, s, m, h)}
  OBVIOUS
<1>3. S \in SUBSET Nat /\ 0 \in S
  BY <1>1, <1>2
<1>4. \A m \in S : m + 1 \in S
  <2>. TAKE m \in S
  <2>1. m \in Nat /\ m + 1 \in Nat /\ \E h : IsBytesIter(op, buf, b, s, m, h)
    BY <1>2
  <2>2. \E h : IsBytesIter(op, buf, b, s, m + 1, h)
    BY <2>1, BytesIterNext
  <2>. QED
    BY <1>2, <2>1, <2>2
<1>5. S = Nat
  BY <1>3, <1>4, Induction
<1>6. \E h : IsBytesIter(op, buf, b, s, n, h)
  BY <1>0, <1>2, <1>5
<1>7. \E h : h = [t \in SUBSET DOMAIN s |-> BytesIterStep(op, buf, b, s, h, t)]
  BY <1>0, <1>6 DEF IsBytesIter
<1>8. PICK h : h = BytesIter(op, buf, b, s)
  OBVIOUS
<1>9. h = [t \in SUBSET (1..n) |-> BytesIterStep(op, buf, b, s, h, t)]
  BY <1>0, <1>7, <1>8 DEF BytesIter
<1>10. h[1..0] = b
  <2>1. 1..0 = {} /\ 1..0 \in SUBSET (1..n)
    BY <1>0
  <2>2. h[1..0] = BytesIterStep(op, buf, b, s, h, 1..0)
    BY <1>9, <2>1
  <2>. QED
    BY <2>1, <2>2 DEF BytesIterStep
<1>11. ASSUME NEW k \in 1..n PROVE h[1..k] = ByteStep(op, buf, h[1..(k - 1)], s[k])
  <2>1. 1..k \in SUBSET (1..n) /\ 1..k \in SUBSET (1..k) /\ k \in 1..k /\ k \in Nat /\ k > 0
    BY <1>0
  <2>2. Max(1..k) = k /\ (1..k) \ {k} = 1..(k - 1) /\ 1..k # {}
    <3>1. Max(1..k) = k
      BY <2>1, GreatestIs
    <3>2. (1..k) \ {k} = 1..(k - 1)
      BY <2>1
    <3>. QED
      BY <2>1, <3>1, <3>2
  <2>3. h[1..k] = BytesIterStep(op, buf, b, s, h, 1..k)
    BY <1>9, <2>1
  <2>. QED
    BY <2>2, <2>3 DEF BytesIterStep
<1>12. PICK g : g = [k \in 0..n |-> h[1..k]]
  OBVIOUS
<1>13. \A k \in 1..n : k \in 0..n /\ k - 1 \in 0..n
  BY <1>0
<1>14. IsFold(op, buf, b, s, n, g)
  <2>1. g[0] = b
    BY <1>0, <1>10, <1>12
  <2>2. ASSUME NEW k \in 1..n PROVE g[k] = ByteStep(op, buf, g[k - 1], s[k])
    <3>1. g[k] = h[1..k] /\ g[k - 1] = h[1..(k - 1)]
      BY <1>12, <1>13
    <3>. QED
      BY <3>1, <1>11
  <2>. QED
    BY <2>1, <2>2 DEF IsFold
<1>15. BytesFolded(op, buf, b, s) = g[n]
  BY <1>0, <1>8, <1>12 DEF BytesFolded
<1>. QED
  BY <1>14, <1>15

\* The two folds.
Start == [ok |-> TRUE, pos |-> 0, values |-> EmptyMap]
LEMMA FoldRead ==
    ASSUME NEW op, op = "read", NEW buf, NEW fields
    PROVE  /\ ReadAll(fields, buf) = BytesFolded(op, buf, Start, fields)
           /\ \A a, x : ByteStep(op, buf, a, x) = ReadStep(buf, a, x)
<1>1. ReadAll(fields, buf) = BytesFolded(op, buf, Start, fields)
  BY DEF ReadAll, Start, FoldLeft, MapThenFoldSet, BytesFolded, BytesIter, BytesIterStep, ByteStep, ReadStep
<1>. QED
  BY <1>1 DEF ByteStep

LEMMA FoldBytes ==
    ASSUME NEW op, op = "bytes", NEW buf, NEW bytes
    PROVE  /\ FromBig(bytes) = BytesFolded(op, buf, 0, bytes)
           /\ \A a, x : ByteStep(op, buf, a, x) = 256 * a + x
<1>1. FromBig(bytes) = BytesFolded(op, buf, 0, bytes)
  BY DEF FromBig, FoldLeft, MapThenFoldSet, BytesFolded, BytesIter, BytesIterStep, ByteStep, Byte
<1>. QED
  BY <1>1 DEF ByteStep, Byte
-----------------------------------------------------------------------------
(* Numbers in bytes.                                                        *)

LEMMA OneByte ==
    ASSUME NEW bytes, DOMAIN bytes = 1..1, bytes[1] \in Nat
    PROVE  FromBig(bytes) = bytes[1]
<1>1. PICK op, buf : op = "bytes" /\ buf = 0
  OBVIOUS
<1>2. PICK g : IsFold(op, buf, 0, bytes, 1, g) /\ BytesFolded(op, buf, 0, bytes) = g[1]
  <2>1. OfLength(bytes, 1)
    BY DEF OfLength
  <2>. QED
    BY <2>1, BytesFoldedSteps
<1>3. g[0] = 0 /\ g[1] = 256 * g[0] + bytes[1]
  <2>1. g[1] = ByteStep(op, buf, g[1 - 1], bytes[1]) /\ g[0] = 0
    BY <1>2 DEF IsFold
  <2>2. \A a, x : ByteStep(op, buf, a, x) = 256 * a + x
    BY <1>1 DEF ByteStep, Byte
  <2>3. 1 - 1 = 0 /\ 2 - 1 = 1 /\ 3 - 1 = 2
    OBVIOUS
  <2>. QED
    BY <2>1, <2>2, <2>3
<1>. QED
  BY <1>1, <1>2, <1>3, FoldBytes

LEMMA TwoBytes ==
    ASSUME NEW bytes, DOMAIN bytes = 1..2, bytes[1] \in Nat, bytes[2] \in Nat
    PROVE  FromBig(bytes) = 256 * bytes[1] + bytes[2]
<1>1. PICK op, buf : op = "bytes" /\ buf = 0
  OBVIOUS
<1>2. PICK g : IsFold(op, buf, 0, bytes, 2, g) /\ BytesFolded(op, buf, 0, bytes) = g[2]
  <2>1. OfLength(bytes, 2)
    BY DEF OfLength
  <2>. QED
    BY <2>1, BytesFoldedSteps
<1>3. g[0] = 0 /\ g[1] = 256 * g[0] + bytes[1] /\ g[2] = 256 * g[1] + bytes[2]
  <2>1. g[1] = ByteStep(op, buf, g[1 - 1], bytes[1]) /\ g[0] = 0
        /\ g[2] = ByteStep(op, buf, g[2 - 1], bytes[2])
    BY <1>2 DEF IsFold
  <2>2. \A a, x : ByteStep(op, buf, a, x) = 256 * a + x
    BY <1>1 DEF ByteStep, Byte
  <2>3. 1 - 1 = 0 /\ 2 - 1 = 1 /\ 3 - 1 = 2
    OBVIOUS
  <2>. QED
    BY <2>1, <2>2, <2>3
<1>. QED
  BY <1>1, <1>2, <1>3, FoldBytes

LEMMA ThreeBytes ==
    ASSUME NEW bytes, DOMAIN bytes = 1..3,
           bytes[1] \in Nat, bytes[2] \in Nat, bytes[3] \in Nat
    PROVE  FromBig(bytes) = 256 * (256 * bytes[1] + bytes[2]) + bytes[3]
<1>1. PICK op, buf : op = "bytes" /\ buf = 0
  OBVIOUS
<1>2. PICK g : IsFold(op, buf, 0, bytes, 3, g) /\ BytesFolded(op, buf, 0, bytes) = g[3]
  <2>1. OfLength(bytes, 3)
    BY DEF OfLength
  <2>. QED
    BY <2>1, BytesFoldedSteps
<1>3. /\ g[0] = 0 /\ g[1] = 256 * g[0] + bytes[1] /\ g[2] = 256 * g[1] + bytes[2]
      /\ g[3] = 256 * g[2] + bytes[3]
  <2>1. g[1] = ByteStep(op, buf, g[1 - 1], bytes[1]) /\ g[0] = 0
        /\ g[2] = ByteStep(op, buf, g[2 - 1], bytes[2])
        /\ g[3] = ByteStep(op, buf, g[3 - 1], bytes[3])
    BY <1>2 DEF IsFold
  <2>2. \A a, x : ByteStep(op, buf, a, x) = 256 * a + x
    BY <1>1 DEF ByteStep, Byte
  <2>3. 1 - 1 = 0 /\ 2 - 1 = 1 /\ 3 - 1 = 2
    OBVIOUS
  <2>. QED
    BY <2>1, <2>2, <2>3
<1>. QED
  BY <1>1, <1>2, <1>3, FoldBytes

\* A number from its last byte and the rest.
LEMMA LastByte ==
    ASSUME NEW n \in Nat
    PROVE  \E q \in Nat, a \in 0..255 : n = 256 * q + a /\ q = n \div 256 /\ a = n % 256
  BY SMT

LEMMA TwoBytesAway ==
    ASSUME NEW n \in Nat, NEW p \in Nat, NEW d \in Nat, d < 65536, n = 65536 * p + d
    PROVE  n \div 65536 = p
  BY SMT

\* The bytes of a number below 2^24.
Low(n)  == n % 256
Mid(n)  == (n \div 256) % 256
High(n) == (n \div 65536) % 256

LEMMA BytesAreNat ==
    ASSUME NEW n \in Nat
    PROVE  Low(n) \in Nat /\ Mid(n) \in Nat /\ High(n) \in Nat
  BY SMT DEF Low, Mid, High

LEMMA BytesOfNumber ==
    ASSUME NEW n \in Nat, n < U24
    PROVE  256 * (256 * High(n) + Mid(n)) + Low(n) = n
<1>1. PICK q \in Nat, a \in 0..255 : n = 256 * q + a /\ q = n \div 256 /\ a = n % 256
  BY LastByte
<1>2. PICK p \in Nat, c \in 0..255 : q = 256 * p + c /\ p = q \div 256 /\ c = q % 256
  BY LastByte
<1>3. n = 256 * q + a /\ q = 256 * p + c
  BY <1>1, <1>2
<1>4. /\ 256 * c + a \in Nat /\ 256 * c + a < 65536
      /\ n = 65536 * p + (256 * c + a)
  <2>1. n = 65536 * p + (256 * c + a)
    BY <1>3, SMT
  <2>2. 256 * c + a < 65536
    BY SMT
  <2>. QED
    BY <2>1, <2>2, SMT
<1>5. p < 256
  BY <1>3, SMT DEF U24
<1>6. n \div 65536 = p
  BY <1>4, TwoBytesAway, SMT
<1>7. p % 256 = p
  BY <1>5, SMT
<1>8. High(n) = p
  BY <1>6, <1>7, SMT DEF High
<1>9. Mid(n) = c /\ Low(n) = a
  <2>1. n \div 256 = q /\ q % 256 = c /\ n % 256 = a
    BY <1>1, <1>2
  <2>. QED
    BY <2>1 DEF Mid, Low
<1>10. 256 * (256 * p + c) + a = n
  BY <1>3
<1>. QED
  BY <1>8, <1>9, <1>10

\* Three bytes, the least significant first, are the number they were made of.
LEMMA ThreeBytesSurvive ==
    ASSUME NEW n \in Nat, n < U24, NEW bytes, DOMAIN bytes = 1..3,
           bytes[1] = Low(n), bytes[2] = Mid(n), bytes[3] = High(n)
    PROVE  FromLittle(bytes) = n
<1>1. PICK r : r = Reverse(bytes)
  OBVIOUS
<1>2. Len(bytes) = 3
  OBVIOUS
<1>3. r = [k \in 1..3 |-> bytes[(3 - k) + 1]]
  BY <1>1, <1>2 DEF Reverse
<1>4. DOMAIN r = 1..3 /\ r[1] = bytes[3] /\ r[2] = bytes[2] /\ r[3] = bytes[1]
  BY <1>3
<1>5. bytes[1] \in Nat /\ bytes[2] \in Nat /\ bytes[3] \in Nat
  BY BytesAreNat
<1>6. FromBig(r) = 256 * (256 * bytes[3] + bytes[2]) + bytes[1]
  BY <1>4, <1>5, ThreeBytes
<1>. QED
  BY <1>1, <1>6, BytesOfNumber DEF FromLittle

LEMMA BigBytes ==
    ASSUME NEW n \in Nat, NEW b, b = Big(n, 2)
    PROVE  b = [k \in 1..2 |-> b[k]] /\ b[1] = Mid(n) /\ b[2] = Low(n)
<1>1. 256 ^ (2 - 1) = 256 /\ 256 ^ (2 - 2) = 1
  <2>1. 256 ^ 1 = 256
    OBVIOUS
  <2>2. 256 ^ 0 = 1
    OBVIOUS
  <2>3. 2 - 1 = 1 /\ 2 - 2 = 0
    OBVIOUS
  <2>. QED
    BY <2>1, <2>2, <2>3
<1>2. b = [k \in 1..2 |-> (n \div 256 ^ (2 - k)) % 256]
  BY DEF Big
<1>3. b[1] = (n \div 256) % 256 /\ b[2] = (n \div 1) % 256
  BY <1>1, <1>2
<1>4. n \div 1 = n
  OBVIOUS
<1>5. b = [k \in 1..2 |-> b[k]]
  BY <1>2
<1>. QED
  BY <1>3, <1>4, <1>5 DEF Mid, Low

LEMMA LittleBytes ==
    ASSUME NEW n \in Nat, NEW l, l = Little(n, 3)
    PROVE  l = [k \in 1..3 |-> l[k]] /\ l[1] = Low(n) /\ l[2] = Mid(n) /\ l[3] = High(n)
<1>1. 256 ^ (3 - 1) = 65536 /\ 256 ^ (3 - 2) = 256 /\ 256 ^ (3 - 3) = 1
  <2>1. 256 ^ 2 = 65536
    BY SMT
  <2>2. 256 ^ 1 = 256
    OBVIOUS
  <2>3. 256 ^ 0 = 1
    OBVIOUS
  <2>4. 3 - 1 = 2 /\ 3 - 2 = 1 /\ 3 - 3 = 0
    OBVIOUS
  <2>. QED
    BY <2>1, <2>2, <2>3, <2>4, SMT
<1>2. PICK b : b = Big(n, 3)
  OBVIOUS
<1>3. b = [k \in 1..3 |-> (n \div 256 ^ (3 - k)) % 256]
  BY <1>2 DEF Big
<1>4. b[1] = High(n)
  <2>1. b[1] = (n \div 256 ^ (3 - 1)) % 256
    BY <1>3
  <2>. QED
    BY <2>1, <1>1, SMT DEF High
<1>5. b[2] = Mid(n)
  <2>1. b[2] = (n \div 256 ^ (3 - 2)) % 256
    BY <1>3
  <2>2. 256 ^ (3 - 2) = 256
    BY <1>1, SMT
  <2>. QED
    BY <2>1, <2>2 DEF Mid
<1>6. b[3] = Low(n)
  <2>1. b[3] = (n \div 256 ^ (3 - 3)) % 256
    BY <1>3
  <2>2. 256 ^ (3 - 3) = 1 /\ n \div 1 = n
    BY <1>1, SMT
  <2>. QED
    BY <2>1, <2>2 DEF Low
<1>7. Len(b) = 3
  BY <1>3
<1>8. l = Reverse(b)
  BY <1>2 DEF Little
<1>9. l = [k \in 1..3 |-> b[(3 - k) + 1]]
  BY <1>7, <1>8 DEF Reverse
<1>10. l[1] = b[3] /\ l[2] = b[2] /\ l[3] = b[1]
  BY <1>9
<1>11. l = [k \in 1..3 |-> l[k]]
  BY <1>9
<1>. QED
  BY <1>4, <1>5, <1>6, <1>10, <1>11
-----------------------------------------------------------------------------
(* What the Writer makes of a list of fields.                               *)

IsFlat(seqs, n, f) == f = [k \in 1..n |-> IF k = 1 THEN seqs[k] ELSE f[k - 1] \o seqs[k]]

LEMMA FlatNext ==
    ASSUME NEW seqs, NEW n \in Nat, n > 0, NEW h, IsFlat(seqs, n, h)
    PROVE  \E f : IsFlat(seqs, n + 1, f)
<1>1. PICK f : f = [k \in 1..(n + 1) |-> IF k = n + 1 THEN h[n] \o seqs[n + 1] ELSE h[k]]
  OBVIOUS
<1>2. \A k \in 1..n : f[k] = h[k]
  BY <1>1
<1>3. ASSUME NEW k \in 1..(n + 1)
      PROVE  f[k] = IF k = 1 THEN seqs[k] ELSE f[k - 1] \o seqs[k]
  <2>1. CASE k = n + 1
    <3>1. k # 1 /\ k - 1 = n /\ n \in 1..n
      BY <2>1
    <3>2. f[n + 1] = h[n] \o seqs[n + 1]
      <4>1. n + 1 \in 1..(n + 1)
        OBVIOUS
      <4>. QED
        BY <1>1, <4>1
    <3>3. f[k - 1] = h[n]
      BY <3>1, <1>2
    <3>. QED
      BY <2>1, <3>1, <3>2, <3>3
  <2>2. CASE k # n + 1
    <3>1. k \in 1..n /\ f[k] = h[k]
      BY <1>2, <2>2
    <3>2. h[k] = IF k = 1 THEN seqs[k] ELSE h[k - 1] \o seqs[k]
      BY <3>1 DEF IsFlat
    <3>3. CASE k = 1
      BY <3>1, <3>2, <3>3
    <3>4. CASE k # 1
      <4>1. k - 1 \in 1..n
        BY <3>1, <3>4
      <4>2. f[k - 1] = h[k - 1]
        BY <4>1, <1>2
      <4>. QED
        BY <3>1, <3>2, <3>4, <4>2
    <3>. QED
      BY <3>3, <3>4
  <2>. QED
    BY <2>1, <2>2
<1>4. f = [k \in 1..(n + 1) |-> IF k = 1 THEN seqs[k] ELSE f[k - 1] \o seqs[k]]
  BY <1>1, <1>3
<1>. QED
  BY <1>4 DEF IsFlat

\* Sequences one behind the other, step by step.
LEMMA Flattened ==
    ASSUME NEW seqs, NEW n \in Nat, n > 0, Len(seqs) = n
    PROVE  \E f : /\ f[1] = seqs[1]
                  /\ \A k \in 2..n : f[k] = f[k - 1] \o seqs[k]
                  /\ FlattenSeq(seqs) = f[n]
<1>1. \E f : IsFlat(seqs, 1, f)
  <2>1. PICK f : f = [k \in 1..1 |-> seqs[1]]
    OBVIOUS
  <2>2. f = [k \in 1..1 |-> IF k = 1 THEN seqs[k] ELSE f[k - 1] \o seqs[k]]
    BY <2>1
  <2>. QED
    BY <2>2 DEF IsFlat
<1>2. PICK S : S = {m \in Nat : \E f : IsFlat(seqs, m + 1, f)}
  OBVIOUS
<1>3. S \in SUBSET Nat /\ 0 \in S
  <2>1. 0 + 1 = 1
    OBVIOUS
  <2>. QED
    BY <1>1, <1>2, <2>1
<1>4. \A m \in S : m + 1 \in S
  <2>. TAKE m \in S
  <2>1. m + 1 \in Nat /\ m + 1 > 0 /\ \E f : IsFlat(seqs, m + 1, f)
    BY <1>2
  <2>2. \E f : IsFlat(seqs, (m + 1) + 1, f)
    BY <2>1, FlatNext
  <2>. QED
    BY <1>2, <2>1, <2>2
<1>13. S = Nat
  BY <1>3, <1>4, Induction
<1>5. \E f : IsFlat(seqs, n, f)
  <2>1. n - 1 \in Nat /\ (n - 1) + 1 = n
    OBVIOUS
  <2>. QED
    BY <1>2, <1>13, <2>1
<1> DEFINE flatten == CHOOSE f : f = [k \in 1..Len(seqs) |-> IF k = 1 THEN seqs[k] ELSE f[k - 1] \o seqs[k]]
<1>6. FlattenSeq(seqs) = flatten[n]
  <2>1. Len(seqs) # 0
    OBVIOUS
  <2>. QED
    BY <2>1 DEF FlattenSeq
<1>7. flatten = [k \in 1..n |-> IF k = 1 THEN seqs[k] ELSE flatten[k - 1] \o seqs[k]]
  BY <1>5 DEF IsFlat
<1>8. PICK f : f = flatten
  OBVIOUS
<1>. HIDE DEF flatten
<1>9. f = [k \in 1..n |-> IF k = 1 THEN seqs[k] ELSE f[k - 1] \o seqs[k]]
  BY <1>7, <1>8
<1>10. f[1] = seqs[1]
  BY <1>9
<1>11. ASSUME NEW k \in 2..n PROVE f[k] = f[k - 1] \o seqs[k]
  <2>1. k \in 1..n /\ k # 1
    OBVIOUS
  <2>. QED
    BY <1>9, <2>1
<1>. QED
  BY <1>6, <1>8, <1>10, <1>11

\* What the Writer makes of field k.
FieldBytes(fields, values, k) == Write(fields[k][2], values[fields[k][1]])

\* b[k] is what it makes of the first k fields.
Written(fields, values, n, b) ==
    /\ b[0] = << >>
    /\ \A k \in 1..n : b[k] = b[k - 1] \o FieldBytes(fields, values, k)

LEMMA WriteSteps ==
    ASSUME NEW fields, NEW values, NEW n, OfLength(fields, n), n > 0,
           \A k \in 1..n : FieldBytes(fields, values, k) \in Seq(Nat)
    PROVE  \E b : Written(fields, values, n, b) /\ WriteAll(fields, values) = b[n]
<1>1. n \in Nat /\ n > 0 /\ DOMAIN fields = 1..n
  BY DEF OfLength
<1>2. PICK seqs : seqs = [k \in DOMAIN fields |-> FieldBytes(fields, values, k)]
  OBVIOUS
<1>3. WriteAll(fields, values) = FlattenSeq(seqs)
  BY <1>2 DEF WriteAll, FieldBytes
<1>4. DOMAIN seqs = 1..n /\ \A k \in 1..n : seqs[k] = FieldBytes(fields, values, k)
  BY <1>1, <1>2
<1>5. Len(seqs) = n
  BY <1>1, <1>2, <1>4
<1>6. PICK f : /\ f[1] = seqs[1]
               /\ \A k \in 2..n : f[k] = f[k - 1] \o seqs[k]
               /\ FlattenSeq(seqs) = f[n]
  BY <1>1, <1>5, Flattened
<1>7. PICK b : b = [k \in 0..n |-> IF k = 0 THEN << >> ELSE f[k]]
  OBVIOUS
<1>8. b[0] = << >> /\ \A k \in 1..n : b[k] = f[k]
  BY <1>1, <1>7
<1>9. ASSUME NEW k \in 1..n PROVE b[k] = b[k - 1] \o FieldBytes(fields, values, k)
  <2>1. CASE k = 1
    <3>1. b[k] = FieldBytes(fields, values, k) /\ k - 1 = 0
      <4>1. 1 \in 1..n /\ 1 - 1 = 0
        BY <1>1
      <4>2. b[1] = FieldBytes(fields, values, 1)
        BY <1>4, <1>6, <1>8, <4>1
      <4>. QED
        BY <2>1, <4>1, <4>2
    <3>2. << >> \o FieldBytes(fields, values, k) = FieldBytes(fields, values, k)
      BY ConcatEmptySeq
    <3>. QED
      BY <1>8, <3>1, <3>2
  <2>2. CASE k # 1
    <3>1. k \in 2..n /\ k - 1 \in 1..n
      BY <1>1, <2>2
    <3>. QED
      BY <1>4, <1>6, <1>8, <3>1
  <2>. QED
    BY <2>1, <2>2
<1>10. WriteAll(fields, values) = b[n]
  BY <1>1, <1>3, <1>6, <1>8
<1>. QED
  BY <1>8, <1>9, <1>10 DEF Written

\* s is how t begins.
Begins(s, t) == Len(s) <= Len(t) /\ \A i \in 1..Len(s) : t[i] = s[i]

\* u is s and t behind it.
IsJoin(u, s, t) == u = s \o t

LEMMA JoinedBehind ==
    ASSUME NEW s \in Seq(Nat), NEW t \in Seq(Nat), NEW u, IsJoin(u, s, t)
    PROVE  /\ u \in Seq(Nat) /\ Len(u) = Len(s) + Len(t)
           /\ Begins(s, u)
           /\ \A i \in 1..Len(t) : u[Len(s) + i] = t[i]
<1>1. /\ u \in Seq(Nat) /\ Len(u) = Len(s) + Len(t)
      /\ \A i \in 1..(Len(s) + Len(t)) : u[i] = IF i <= Len(s) THEN s[i] ELSE t[i - Len(s)]
  BY ConcatProperties DEF IsJoin
<1>2. PICK a \in Nat, b \in Nat : a = Len(s) /\ b = Len(t)
  BY LenProperties
<1>3. Begins(s, u)
  <2>1. a <= a + b /\ \A i \in 1..a : i \in 1..(a + b) /\ i <= a
    OBVIOUS
  <2>. QED
    BY <1>1, <1>2, <2>1 DEF Begins
<1>4. \A i \in 1..b : u[a + i] = t[i]
  <2>. TAKE i \in 1..b
  <2>1. a + i \in 1..(a + b) /\ ~ (a + i <= a) /\ (a + i) - a = i
    OBVIOUS
  <2>. QED
    BY <1>1, <1>2, <2>1
<1>. QED
  BY <1>1, <1>2, <1>3, <1>4

LEMMA BeginsOn ==
    ASSUME NEW s \in Seq(Nat), NEW t \in Seq(Nat), NEW u \in Seq(Nat), Begins(s, t), Begins(t, u)
    PROVE  Begins(s, u)
<1>1. PICK a \in Nat, b \in Nat, c \in Nat : a = Len(s) /\ b = Len(t) /\ c = Len(u)
  BY LenProperties
<1>2. a <= b /\ b <= c /\ \A i \in 1..a : i \in 1..b
  BY <1>1 DEF Begins
<1>. QED
  BY <1>1, <1>2 DEF Begins

\* All that is written begins with what is written of the first fields.
LEMMA WrittenGrows ==
    ASSUME NEW fields, NEW values, NEW n \in Nat, NEW b, Written(fields, values, n, b),
           \A k \in 1..n : FieldBytes(fields, values, k) \in Seq(Nat)
    PROVE  \A k \in 0..n : \A j \in 0..k : b[j] \in Seq(Nat) /\ Begins(b[j], b[k])
<1>1. PICK S : S = {k \in Nat : k <= n => \A j \in 0..k : b[j] \in Seq(Nat) /\ Begins(b[j], b[k])}
  OBVIOUS
<1>2. S \in SUBSET Nat /\ 0 \in S
  <2>1. b[0] = << >> /\ b[0] \in Seq(Nat) /\ Len(b[0]) = 0
    BY DEF Written
  <2>2. Begins(b[0], b[0])
    BY <2>1 DEF Begins
  <2>3. \A j \in 0..0 : j = 0
    OBVIOUS
  <2>. QED
    BY <1>1, <2>1, <2>2, <2>3
<1>3. ASSUME NEW k \in S PROVE k + 1 \in S
  <2>1. k \in Nat /\ k + 1 \in Nat
    BY <1>1
  <2>2. SUFFICES ASSUME k + 1 <= n
                 PROVE  \A j \in 0..(k + 1) : b[j] \in Seq(Nat) /\ Begins(b[j], b[k + 1])
    BY <1>1, <2>1
  <2>3. k <= n /\ k + 1 \in 1..n /\ (k + 1) - 1 = k
    BY <2>1, <2>2
  <2>4. \A j \in 0..k : b[j] \in Seq(Nat) /\ Begins(b[j], b[k])
    BY <1>1, <2>3
  <2>8. b[k] \in Seq(Nat)
    BY <2>1, <2>4
  <2>5. b[k + 1] = b[k] \o FieldBytes(fields, values, k + 1)
    BY <2>3 DEF Written
  <2>6. b[k + 1] \in Seq(Nat) /\ Begins(b[k], b[k + 1])
    BY <2>3, <2>5, <2>8, JoinedBehind DEF IsJoin
  <2>7. ASSUME NEW j \in 0..(k + 1) PROVE b[j] \in Seq(Nat) /\ Begins(b[j], b[k + 1])
    <3>1. CASE j = k + 1
      BY <2>6, <3>1 DEF Begins
    <3>2. CASE j \in 0..k
      <4>1. b[j] \in Seq(Nat) /\ Begins(b[j], b[k])
        BY <2>4, <3>2
      <4>. QED
        BY <2>6, <2>8, <4>1, BeginsOn
    <3>. QED
      BY <2>1, <3>1, <3>2
  <2>. QED
    BY <2>7
<1>4. S = Nat
  BY <1>2, <1>3, Induction
<1>. QED
  <2>. TAKE k \in 0..n
  <2>1. k \in Nat /\ k <= n
    OBVIOUS
  <2>2. k \in S
    BY <1>4, <2>1
  <2>. QED
    BY <1>1, <2>1, <2>2

\* x is at the positions p + 1 to q of buf.
Stands(buf, p, q, x) == q = p + Len(x) /\ q <= Len(buf) /\ SubSeq(buf, p + 1, q) = x

\* A part is found where it was written.
LEMMA FieldStands ==
    ASSUME NEW fields, NEW values, NEW n \in Nat, NEW b, Written(fields, values, n, b),
           \A k \in 1..n : FieldBytes(fields, values, k) \in Seq(Nat),
           NEW k \in 1..n
    PROVE  /\ Len(b[k - 1]) \in Nat /\ Len(b[k]) \in Nat
           /\ Stands(b[n], Len(b[k - 1]), Len(b[k]), FieldBytes(fields, values, k))
<1>1. n \in 0..n /\ k \in 0..n /\ k - 1 \in 0..n
  OBVIOUS
<1>2. b[k - 1] \in Seq(Nat) /\ b[k] \in Seq(Nat) /\ b[n] \in Seq(Nat) /\ Begins(b[k], b[n])
  BY <1>1, WrittenGrows
<1>3. PICK x, buf, s : x = FieldBytes(fields, values, k) /\ buf = b[n] /\ s = b[k - 1]
  OBVIOUS
<1>4. x \in Seq(Nat) /\ b[k] = s \o x /\ s \in Seq(Nat) /\ buf \in Seq(Nat)
  BY <1>2, <1>3 DEF Written
<1>5. /\ Len(b[k]) = Len(s) + Len(x)
      /\ \A i \in 1..Len(x) : b[k][Len(s) + i] = x[i]
  BY <1>4, JoinedBehind DEF IsJoin
<1>6. PICK p \in Nat, q \in Nat, w \in Nat, c \in Nat :
         p = Len(s) /\ q = Len(b[k]) /\ w = Len(x) /\ c = Len(buf)
  BY <1>2, <1>4, LenProperties
<1>7. q = p + w /\ q <= c
  BY <1>2, <1>3, <1>5, <1>6 DEF Begins
<1>8. \A i \in 1..w : buf[(p + 1 + i) - 1] = x[i]
  <2>. TAKE i \in 1..w
  <2>1. p + i \in 1..q /\ (p + 1 + i) - 1 = p + i
    BY <1>7
  <2>2. buf[p + i] = b[k][p + i]
    BY <1>2, <1>3, <1>6, <2>1 DEF Begins
  <2>. QED
    BY <1>5, <1>6, <2>1, <2>2
<1>9. SubSeq(buf, p + 1, q) = x
  <2>1. SubSeq(buf, p + 1, q) = [i \in 1..((q - (p + 1)) + 1) |-> buf[(p + 1 + i) - 1]]
    OBVIOUS
  <2>2. (q - (p + 1)) + 1 = w
    BY <1>7
  <2>3. x = [i \in 1..w |-> x[i]]
    BY <1>4, <1>6, LenProperties
  <2>. QED
    BY <1>8, <2>1, <2>2, <2>3
<1>. QED
  BY <1>3, <1>6, <1>7, <1>9 DEF Stands
-----------------------------------------------------------------------------
(* What the Reader makes of it.                                             *)

\* The Reader at position p, having read the fields named as m says.
At(p, names, m) == [ok |-> TRUE, pos |-> p, values |-> [x \in names |-> m[x]]]

IsAt(r, p, names, m) == r = At(p, names, m)

\* The field of buf at the positions p + 1 to q is read as m says.
FieldReads(buf, p, q, field, m) ==
    /\ p < q
    /\ Size(field[2], buf, p) = q - p
    /\ field[1] # "_" => Read(field[2], SubSeq(buf, p + 1, q)) = m[field[1]]

LEMMA Within ==
    ASSUME NEW p \in Nat, NEW q \in Nat, NEW c \in Nat, p < q, q <= c
    PROVE  ~ (p >= c) /\ p + (q - p) = q /\ ~ (q > c)
  OBVIOUS

LEMMA ReadField ==
    ASSUME NEW buf, NEW p \in Nat, NEW q \in Nat, Len(buf) \in Nat, q <= Len(buf),
           NEW names, NEW m, NEW field, FieldReads(buf, p, q, field, m),
           NEW r, IsAt(r, p, names, m)
    PROVE  IsAt(ReadStep(buf, r, field), q, names \cup ({field[1]} \ {"_"}), m)
<1>0. PICK c \in Nat : c = Len(buf) /\ q <= c
  OBVIOUS
<1>1. /\ p < q /\ Size(field[2], buf, p) = q - p
      /\ field[1] # "_" => Read(field[2], SubSeq(buf, p + 1, q)) = m[field[1]]
  BY DEF FieldReads
<1>2. r.ok /\ r.pos = p /\ r.values = [x \in names |-> m[x]]
  BY DEF IsAt, At
<1>3. ~ (p >= c) /\ p + (q - p) = q /\ ~ (q > c)
  BY <1>0, <1>1, Within
<1>4. ReadStep(buf, r, field) =
         [ok |-> TRUE, pos |-> q,
          values |-> IF field[1] = "_" THEN r.values
                     ELSE Put(r.values, field[1], Read(field[2], SubSeq(buf, p + 1, q)))]
  BY <1>0, <1>1, <1>2, <1>3 DEF ReadStep
<1>5. CASE field[1] = "_"
  <2>1. names \cup ({field[1]} \ {"_"}) = names
    BY <1>5
  <2>. QED
    BY <1>2, <1>4, <1>5, <2>1 DEF IsAt, At
<1>6. CASE field[1] # "_"
  <2>1. names \cup ({field[1]} \ {"_"}) = names \cup {field[1]}
    BY <1>6
  <2>2. Put(r.values, field[1], Read(field[2], SubSeq(buf, p + 1, q)))
            = [x \in names \cup {field[1]} |-> m[x]]
    <3>1. Put([x \in names |-> m[x]], field[1], m[field[1]]) = [x \in names \cup {field[1]} |-> m[x]]
      <4>1. PICK key : key = field[1]
        OBVIOUS
      <4>2. Put([x \in names |-> m[x]], key, m[key]) = [x \in names \cup {key} |-> m[x]]
        BY DEF Put
      <4>. QED
        BY <4>1, <4>2
    <3>. QED
      BY <1>1, <1>2, <1>6, <3>1
  <2>. QED
    BY <1>4, <1>6, <2>1, <2>2 DEF IsAt, At
<1>. QED
  BY <1>5, <1>6

\* The names of the first n fields.
Names(fields, n) == {fields[k][1] : k \in 1..n} \ {"_"}

LEMMA ReadSteps ==
    ASSUME NEW buf, NEW fields, NEW n, OfLength(fields, n)
    PROVE  \E g : /\ g[0] = Start
                  /\ \A k \in 1..n : g[k] = ReadStep(buf, g[k - 1], fields[k])
                  /\ ReadAll(fields, buf) = g[n]
<1>1. PICK op : op = "read"
  OBVIOUS
<1>2. PICK g : IsFold(op, buf, Start, fields, n, g) /\ BytesFolded(op, buf, Start, fields) = g[n]
  BY BytesFoldedSteps
<1>3. ReadAll(fields, buf) = g[n]
  BY <1>1, <1>2, FoldRead
<1>. QED
  BY <1>1, <1>2, <1>3 DEF IsFold, ByteStep

\* A buffer that holds the fields one behind the other is read as they say.
LEMMA FieldsRead ==
    ASSUME NEW buf, NEW fields, NEW n, OfLength(fields, n), NEW m, NEW e,
           Len(buf) \in Nat, e[0] = 0,
           \A k \in 0..n : e[k] \in Nat /\ e[k] <= Len(buf),
           \A k \in 1..n : FieldReads(buf, e[k - 1], e[k], fields[k], m)
    PROVE  ReadAll(fields, buf) = At(e[n], Names(fields, n), m)
<1>1. n \in Nat
  BY DEF OfLength
<1>2. PICK g : /\ g[0] = Start
               /\ \A k \in 1..n : g[k] = ReadStep(buf, g[k - 1], fields[k])
               /\ ReadAll(fields, buf) = g[n]
  BY ReadSteps
<1>3. PICK S : S = {k \in Nat : k <= n => g[k] = At(e[k], Names(fields, k), m)}
  OBVIOUS
<1>4. S \in SUBSET Nat /\ 0 \in S
  <2>1. Names(fields, 0) = {}
    BY DEF Names
  <2>2. [x \in {} |-> m[x]] = EmptyMap
    BY DEF EmptyMap
  <2>3. g[0] = At(e[0], Names(fields, 0), m)
    BY <1>2, <2>1, <2>2 DEF Start, At
  <2>. QED
    BY <1>3, <2>3
<1>5. \A k \in S : k + 1 \in S
  <2>. TAKE k \in S
  <2>1. k \in Nat /\ k + 1 \in Nat
    BY <1>3
  <2>2. SUFFICES ASSUME k + 1 <= n
                 PROVE  g[k + 1] = At(e[k + 1], Names(fields, k + 1), m)
    BY <1>3, <2>1
  <2>3. k <= n /\ k \in 0..n /\ k + 1 \in 0..n /\ k + 1 \in 1..n /\ (k + 1) - 1 = k
    BY <1>1, <2>1, <2>2
  <2>4. g[k] = At(e[k], Names(fields, k), m)
    BY <1>3, <2>3
  <2>5. FieldReads(buf, e[k], e[k + 1], fields[k + 1], m)
    BY <2>3
  <2>6. g[k + 1] = At(e[k + 1], Names(fields, k) \cup ({fields[k + 1][1]} \ {"_"}), m)
    <3>1. ReadStep(buf, g[k], fields[k + 1])
              = At(e[k + 1], Names(fields, k) \cup ({fields[k + 1][1]} \ {"_"}), m)
      <4>1. e[k] \in Nat /\ e[k + 1] \in Nat /\ e[k + 1] <= Len(buf)
        BY <2>3
      <4>2. IsAt(g[k], e[k], Names(fields, k), m)
        BY <2>4 DEF IsAt
      <4>3. IsAt(ReadStep(buf, g[k], fields[k + 1]), e[k + 1],
                 Names(fields, k) \cup ({fields[k + 1][1]} \ {"_"}), m)
        BY <2>5, <4>1, <4>2, ReadField
      <4>. QED
        BY <4>3 DEF IsAt
    <3>. QED
      BY <1>2, <2>3, <3>1
  <2>7. Names(fields, k) \cup ({fields[k + 1][1]} \ {"_"}) = Names(fields, k + 1)
    <3>1. 1..(k + 1) = (1..k) \cup {k + 1}
      BY <2>1
    <3>. QED
      BY <3>1 DEF Names
  <2>. QED
    BY <2>6, <2>7
<1>6. n \in S
  BY <1>1, <1>4, <1>5, Induction
<1>. QED
  BY <1>1, <1>2, <1>3, <1>6
-----------------------------------------------------------------------------
(* The kinds of fields.                                                     *)

LEMMA SeqOfNat ==
    ASSUME NEW s, NEW n \in Nat, s = [k \in 1..n |-> s[k]], \A k \in 1..n : s[k] \in Nat
    PROVE  s \in Seq(Nat) /\ Len(s) = n
<1>1. s \in [1..n -> Nat]
  OBVIOUS
<1>2. s \in Seq(Nat)
  BY <1>1, SeqDef
<1>. QED
  BY <1>1, <1>2, LenProperties

LEMMA LittleIs ==
    ASSUME NEW n \in Nat, NEW l, l = Little(n, 3)
    PROVE  /\ l \in Seq(Nat) /\ Len(l) = 3 /\ DOMAIN l = 1..3
           /\ l[1] = Low(n) /\ l[2] = Mid(n) /\ l[3] = High(n)
<1>1. l = [k \in 1..3 |-> l[k]] /\ l[1] = Low(n) /\ l[2] = Mid(n) /\ l[3] = High(n)
  BY LittleBytes
<1>2. \A k \in 1..3 : k = 1 \/ k = 2 \/ k = 3
  OBVIOUS
<1>3. \A k \in 1..3 : l[k] \in Nat
  BY <1>1, <1>2, BytesAreNat
<1>4. DOMAIN l = 1..3
  BY <1>1
<1>. QED
  BY <1>1, <1>3, <1>4, SeqOfNat

LEMMA BigIs ==
    ASSUME NEW n \in Nat, NEW b, b = Big(n, 2)
    PROVE  /\ b \in Seq(Nat) /\ Len(b) = 2 /\ DOMAIN b = 1..2
           /\ b[1] = Mid(n) /\ b[2] = Low(n)
<1>1. b = [k \in 1..2 |-> b[k]] /\ b[1] = Mid(n) /\ b[2] = Low(n)
  BY BigBytes
<1>2. \A k \in 1..2 : k = 1 \/ k = 2
  OBVIOUS
<1>3. \A k \in 1..2 : b[k] \in Nat
  BY <1>1, <1>2, BytesAreNat
<1>4. DOMAIN b = 1..2
  BY <1>1
<1>. QED
  BY <1>1, <1>3, <1>4, SeqOfNat

\* A number below 2^16 is its two bytes ...
LEMMA TwoBytesSurvive ==
    ASSUME NEW n \in Nat, n < U16
    PROVE  FromBig(Big(n, 2)) = n
<1>1. PICK b : b = Big(n, 2)
  OBVIOUS
<1>2. DOMAIN b = 1..2 /\ b[1] = Mid(n) /\ b[2] = Low(n)
  BY <1>1, BigIs
<1>3. FromBig(b) = 256 * Mid(n) + Low(n)
  <2>1. b[1] \in Nat /\ b[2] \in Nat
    BY <1>2, BytesAreNat
  <2>2. FromBig(b) = 256 * b[1] + b[2]
    BY <1>2, <2>1, TwoBytes
  <2>. QED
    BY <1>2, <2>2
<1>4. PICK q \in Nat, a \in 0..255 : n = 256 * q + a /\ q = n \div 256 /\ a = n % 256
  BY LastByte
<1>5. q < 256
  BY <1>4, SMT DEF U16
<1>6. q % 256 = q
  BY <1>5, SMT
<1>7. Mid(n) = q /\ Low(n) = a
  BY <1>4, <1>6 DEF Mid, Low
<1>. QED
  BY <1>1, <1>3, <1>4, <1>7

\* ... and one below 2^24 also four, the first of them 0.
LEMMA FourBytes ==
    ASSUME NEW n \in Nat, n < U24, NEW b, b = Big(n, 4)
    PROVE  /\ b = [k \in 1..4 |-> b[k]]
           /\ b[1] = 0 /\ b[2] = High(n) /\ b[3] = Mid(n) /\ b[4] = Low(n)
<1>1. b = [k \in 1..4 |-> (n \div 256 ^ (4 - k)) % 256]
  BY DEF Big
<1>2. b[1] = 0
  <2>1. b[1] = (n \div 256 ^ (4 - 1)) % 256
    BY <1>1
  <2>2. 256 ^ (4 - 1) = U24
    BY SMT DEF U24
  <2>3. n \div U24 = 0
    BY SMT DEF U24
  <2>4. 0 % 256 = 0
    OBVIOUS
  <2>. QED
    BY <2>1, <2>2, <2>3, <2>4, SMT
<1>3. b[2] = High(n)
  <2>1. b[2] = (n \div 256 ^ (4 - 2)) % 256
    BY <1>1
  <2>2. 256 ^ (4 - 2) = 65536
    BY SMT
  <2>. QED
    BY <2>1, <2>2, SMT DEF High
<1>4. b[3] = Mid(n)
  <2>1. b[3] = (n \div 256 ^ (4 - 3)) % 256
    BY <1>1
  <2>2. 256 ^ (4 - 3) = 256
    BY SMT
  <2>. QED
    BY <2>1, <2>2 DEF Mid
<1>5. b[4] = Low(n)
  <2>1. b[4] = (n \div 256 ^ (4 - 4)) % 256
    BY <1>1
  <2>2. 256 ^ (4 - 4) = 1 /\ n \div 1 = n
    BY SMT
  <2>. QED
    BY <2>1, <2>2 DEF Low
<1>6. b = [k \in 1..4 |-> b[k]]
  BY <1>1
<1>. QED
  BY <1>2, <1>3, <1>4, <1>5, <1>6

LEMMA FourBytesSurvive ==
    ASSUME NEW n \in Nat, n < U24
    PROVE  Big(n, 4) \in Seq(Nat) /\ Len(Big(n, 4)) = 4 /\ FromBig(Big(n, 4)) = n
<1>1. PICK b : b = Big(n, 4)
  OBVIOUS
<1>2. b = [k \in 1..4 |-> b[k]]
  BY <1>1, FourBytes
<1>3. b[1] = 0 /\ b[2] = High(n) /\ b[3] = Mid(n) /\ b[4] = Low(n)
  BY <1>1, FourBytes
<1>4. DOMAIN b = 1..4
  BY <1>2
<1>5. \A k \in 1..4 : k = 1 \/ k = 2 \/ k = 3 \/ k = 4
  OBVIOUS
<1>6. \A k \in 1..4 : b[k] \in Nat
  BY <1>3, <1>5, BytesAreNat
<1>7. b \in Seq(Nat) /\ Len(b) = 4
  BY <1>2, <1>6, SeqOfNat
<1>8. FromBig(b) = 256 * (256 * (256 * b[1] + b[2]) + b[3]) + b[4]
  <2>1. PICK op, buf : op = "bytes" /\ buf = 0
    OBVIOUS
  <2>2. OfLength(b, 4)
    BY <1>4 DEF OfLength
  <2>3. PICK g : IsFold(op, buf, 0, b, 4, g) /\ BytesFolded(op, buf, 0, b) = g[4]
    BY <2>2, BytesFoldedSteps
  <2>4. FromBig(b) = g[4] /\ \A a, x : ByteStep(op, buf, a, x) = 256 * a + x
    BY <2>1, <2>3, FoldBytes
  <2>5. /\ g[0] = 0 /\ g[1] = 256 * g[1 - 1] + b[1] /\ g[2] = 256 * g[2 - 1] + b[2]
        /\ g[3] = 256 * g[3 - 1] + b[3] /\ g[4] = 256 * g[4 - 1] + b[4]
    <3>1. 1 \in 1..4 /\ 2 \in 1..4 /\ 3 \in 1..4 /\ 4 \in 1..4
      OBVIOUS
    <3>. QED
      BY <2>3, <2>4, <3>1 DEF IsFold
  <2>6. g[1] = b[1]
    BY <1>3, <2>5
  <2>. QED
    BY <2>4, <2>5, <2>6
<1>9. 256 * (256 * High(n) + Mid(n)) + Low(n) = n
  BY BytesOfNumber
<1>. QED
  BY <1>1, <1>3, <1>7, <1>8, <1>9

\* An IPv4 address and a port.
Ipv4(a) ==
    /\ a = [ip |-> a.ip, port |-> a.port]
    /\ a.ip \in Seq(0..255) /\ Len(a.ip) = 4
    /\ a.port \in Nat /\ a.port < U16

\* A value that w bytes of its kind hold.  No u32 of the crate goes beyond 2^24.
Fits(kind, v, w) ==
    \/ kind = "u8" /\ v \in Nat /\ w = 1
    \/ kind = "u16" /\ v \in Nat /\ v < U16 /\ w = 2
    \/ kind = "u24" /\ v \in Nat /\ v < U24 /\ w = 3
    \/ kind = "u32" /\ v \in Nat /\ v < U24 /\ w = 4
    \/ kind = "u64" /\ v \in Seq(Nat) /\ Len(v) = 8 /\ w = 8
    \/ kind = "magic" /\ v = TRUE /\ w = 16
    \/ kind = "zero" /\ w = 1
    \/ kind = "address" /\ Ipv4(v) /\ w = 7

\* Its bytes are read as the value.
Survives(kind, v, w) ==
    /\ w \in Nat /\ w > 0
    /\ Write(kind, v) \in Seq(Nat) /\ Len(Write(kind, v)) = w
    /\ kind # "zero" => Read(kind, Write(kind, v)) = v
    /\ kind # "address" => \A buf, p : Size(kind, buf, p) = w

LEMMA U8Survives == ASSUME NEW v \in Nat PROVE Survives("u8", v, 1)
<1>1. PICK x : x = <<v>>
  OBVIOUS
<1>2. x \in Seq(Nat) /\ Len(x) = 1 /\ DOMAIN x = 1..1 /\ x[1] = v
  BY <1>1
<1>3. FromBig(x) = v
  BY <1>2, OneByte
<1>4. Write("u8", v) = x /\ Read("u8", x) = FromBig(x) /\ \A buf, p : Size("u8", buf, p) = 1
  BY <1>1 DEF Write, Read, Size
<1>. QED
  BY <1>2, <1>3, <1>4 DEF Survives

LEMMA U16Survives == ASSUME NEW v \in Nat, v < U16 PROVE Survives("u16", v, 2)
<1>1. PICK x : x = Big(v, 2)
  OBVIOUS
<1>2. x \in Seq(Nat) /\ Len(x) = 2
  BY <1>1, BigIs
<1>3. FromBig(x) = v
  BY <1>1, TwoBytesSurvive
<1>4. Write("u16", v) = x /\ Read("u16", x) = FromBig(x) /\ \A buf, p : Size("u16", buf, p) = 2
  BY <1>1 DEF Write, Read, Size
<1>. QED
  BY <1>2, <1>3, <1>4 DEF Survives

LEMMA U24Survives == ASSUME NEW v \in Nat, v < U24 PROVE Survives("u24", v, 3)
<1>1. PICK x : x = Little(v, 3)
  OBVIOUS
<1>2. /\ x \in Seq(Nat) /\ Len(x) = 3 /\ DOMAIN x = 1..3
      /\ x[1] = Low(v) /\ x[2] = Mid(v) /\ x[3] = High(v)
  BY <1>1, LittleIs
<1>3. FromLittle(x) = v
  BY <1>2, ThreeBytesSurvive
<1>4. Write("u24", v) = x /\ Read("u24", x) = FromLittle(x) /\ \A buf, p : Size("u24", buf, p) = 3
  BY <1>1 DEF Write, Read, Size
<1>. QED
  BY <1>2, <1>3, <1>4 DEF Survives

LEMMA U32Survives == ASSUME NEW v \in Nat, v < U24 PROVE Survives("u32", v, 4)
<1>1. PICK x : x = Big(v, 4)
  OBVIOUS
<1>2. x \in Seq(Nat) /\ Len(x) = 4 /\ FromBig(x) = v
  BY <1>1, FourBytesSurvive
<1>3. Write("u32", v) = x /\ Read("u32", x) = FromBig(x) /\ \A buf, p : Size("u32", buf, p) = 4
  BY <1>1 DEF Write, Read, Size
<1>. QED
  BY <1>2, <1>3 DEF Survives

LEMMA U64Survives == ASSUME NEW v \in Seq(Nat), Len(v) = 8 PROVE Survives("u64", v, 8)
<1>1. Write("u64", v) = v /\ Read("u64", v) = v /\ \A buf, p : Size("u64", buf, p) = 8
  BY DEF Write, Read, Size
<1>. QED
  BY <1>1 DEF Survives

LEMMA MagicIs == MAGIC \in Seq(Nat) /\ Len(MAGIC) = 16
  BY DEF MAGIC

LEMMA MagicSurvives == Survives("magic", TRUE, 16)
<1>1. /\ Write("magic", TRUE) = MAGIC /\ Read("magic", MAGIC) = (MAGIC = MAGIC)
      /\ \A buf, p : Size("magic", buf, p) = 16
  BY DEF Write, Read, Size
<1>2. Read("magic", Write("magic", TRUE)) = TRUE
  BY <1>1, Zenon
<1>3. Write("magic", TRUE) \in Seq(Nat) /\ Len(Write("magic", TRUE)) = 16
  BY <1>1, MagicIs
<1>4. 16 \in Nat /\ 16 > 0
  OBVIOUS
<1>. QED
  BY <1>1, <1>2, <1>3, <1>4, Zenon DEF Survives

LEMMA ZeroSurvives == ASSUME NEW v PROVE Survives("zero", v, 1)
<1>1. PICK x : x = <<0>>
  OBVIOUS
<1>2. x \in Seq(Nat) /\ Len(x) = 1
  BY <1>1
<1>3. Write("zero", v) = x /\ \A buf, p : Size("zero", buf, p) = 1
  BY <1>1 DEF Write, Size
<1>. QED
  BY <1>2, <1>3 DEF Survives

LEMMA BytesGiven ==
    ASSUME NEW b \in Seq(0..255), NEW n, n = Len(b)
    PROVE  DOMAIN b = 1..n /\ b = [k \in 1..n |-> b[k]] /\ \A k \in 1..n : b[k] \in 0..255
  BY ElementOfSeq, LenProperties

\* An address goes out complemented, behind the version of IP.
IsAddress(x, a) == x = WriteAddress(a)

LEMMA AddressIs ==
    ASSUME NEW a, Ipv4(a), NEW x, IsAddress(x, a)
    PROVE  x \in Seq(Nat) /\ Len(x) = 7 /\ x[1] = 4 /\ AddressRead(x) = a
<1>1. PICK c, d, h : c = Complement(a.ip) /\ d = Big(a.port, 2) /\ h = <<4>>
  OBVIOUS
<1>2. /\ a.ip \in Seq(0..255) /\ Len(a.ip) = 4 /\ a.port \in Nat /\ a.port < U16
      /\ a = [ip |-> a.ip, port |-> a.port]
  BY DEF Ipv4
<1>3. PICK ip : ip = a.ip
  OBVIOUS
<1>4. DOMAIN ip = 1..4 /\ ip = [k \in 1..4 |-> ip[k]] /\ \A k \in 1..4 : ip[k] \in 0..255
  <2>1. ip \in Seq(0..255) /\ Len(ip) = 4
    BY <1>2, <1>3
  <2>. QED
    BY <2>1, BytesGiven
<1>5. c = [k \in 1..4 |-> 255 - ip[k]]
  BY <1>1, <1>3, <1>4 DEF Complement
<1>20. \A k \in 1..4 : c[k] \in Nat /\ 255 - c[k] = ip[k]
  <2>1. \A n \in 0..255 : 255 - n \in Nat /\ 255 - (255 - n) = n
    OBVIOUS
  <2>. QED
    BY <1>4, <1>5, <2>1
<1>6. c \in Seq(Nat) /\ Len(c) = 4
  <2>1. c = [k \in 1..4 |-> c[k]]
    BY <1>5
  <2>. QED
    BY <1>20, <2>1, SeqOfNat
<1>7. d \in Seq(Nat) /\ Len(d) = 2 /\ FromBig(d) = a.port
  BY <1>1, <1>2, BigIs, TwoBytesSurvive
<1>8. h \in Seq(Nat) /\ Len(h) = 1 /\ h[1] = 4
  BY <1>1
<1>9. x = (h \o c) \o d
  BY <1>1, <1>2 DEF IsAddress, WriteAddress, IsIpv4
<1>10. PICK u : u = h \o c
  OBVIOUS
<1>11. /\ u \in Seq(Nat) /\ Len(u) = 5 /\ u[1] = 4
       /\ \A k \in 1..4 : u[1 + k] = c[k]
  <2>1. /\ u \in Seq(Nat) /\ Len(u) = Len(h) + Len(c) /\ Begins(h, u)
        /\ \A k \in 1..Len(c) : u[Len(h) + k] = c[k]
    <3>1. IsJoin(u, h, c)
      BY <1>10 DEF IsJoin
    <3>2. h \in Seq(Nat) /\ c \in Seq(Nat)
      BY <1>6, <1>8
    <3>. QED
      BY <3>1, <3>2, JoinedBehind
  <2>. QED
    BY <1>6, <1>8, <2>1 DEF Begins
<1>12. /\ x \in Seq(Nat) /\ Len(x) = 7 /\ Begins(u, x)
       /\ \A k \in 1..2 : x[5 + k] = d[k]
  <2>1. /\ x \in Seq(Nat) /\ Len(x) = Len(u) + Len(d) /\ Begins(u, x)
        /\ \A k \in 1..Len(d) : x[Len(u) + k] = d[k]
    <3>1. IsJoin(x, u, d)
      BY <1>9, <1>10 DEF IsJoin
    <3>2. u \in Seq(Nat) /\ d \in Seq(Nat)
      BY <1>7, <1>11
    <3>. QED
      BY <3>1, <3>2, JoinedBehind
  <2>. QED
    BY <1>7, <1>11, <2>1
<1>13. \A k \in 1..5 : x[k] = u[k]
  BY <1>11, <1>12 DEF Begins
<1>14. x[1] = 4 /\ \A k \in 1..4 : x[1 + k] = c[k]
  <2>1. 1 \in 1..5 /\ \A k \in 1..4 : 1 + k \in 1..5
    OBVIOUS
  <2>. QED
    BY <1>11, <1>13, <2>1
<1>15. PICK s, t : s = SubSeq(x, 2, 5) /\ t = SubSeq(x, 6, 7)
  OBVIOUS
<1>16. s = c
  <2>1. s = [k \in 1..((5 - 2) + 1) |-> x[(2 + k) - 1]]
    BY <1>15
  <2>2. (5 - 2) + 1 = 4 /\ \A k \in 1..4 : (2 + k) - 1 = 1 + k
    OBVIOUS
  <2>3. s = [k \in 1..4 |-> x[1 + k]]
    BY <2>1, <2>2
  <2>4. c = [k \in 1..4 |-> c[k]]
    BY <1>5
  <2>. QED
    BY <1>14, <2>3, <2>4
<1>17. t = d
  <2>1. t = [k \in 1..((7 - 6) + 1) |-> x[(6 + k) - 1]]
    BY <1>15
  <2>2. (7 - 6) + 1 = 2 /\ \A k \in 1..2 : (6 + k) - 1 = 5 + k
    OBVIOUS
  <2>3. t = [k \in 1..2 |-> x[5 + k]]
    BY <2>1, <2>2
  <2>4. d = [k \in 1..2 |-> d[k]]
    BY <1>7, LenProperties
  <2>. QED
    BY <1>12, <2>3, <2>4
<1>18. Complement(c) = ip
  <2>1. Complement(c) = [k \in 1..4 |-> 255 - c[k]]
    BY <1>5 DEF Complement
  <2>. QED
    BY <1>4, <1>20, <2>1
<1>19. AddressRead(x) = [ip |-> a.ip, port |-> a.port]
  BY <1>3, <1>7, <1>14, <1>15, <1>16, <1>17, <1>18 DEF AddressRead
<1>. QED
  BY <1>2, <1>12, <1>14, <1>19

LEMMA AddressWritten ==
    ASSUME NEW v, Ipv4(v), NEW x, x = Write("address", v)
    PROVE  x \in Seq(Nat) /\ Len(x) = 7 /\ x[1] = 4 /\ Read("address", x) = v
<1>1. IsAddress(x, v) /\ Read("address", x) = AddressRead(x)
  BY DEF IsAddress, Write, Read
<1>. QED
  BY <1>1, AddressIs

\* Of every kind.
LEMMA FitSurvives ==
    ASSUME NEW kind, NEW v, NEW w, Fits(kind, v, w)
    PROVE  Survives(kind, v, w)
<1>1. CASE kind = "u8" /\ v \in Nat /\ w = 1
  BY <1>1, U8Survives
<1>2. CASE kind = "u16" /\ v \in Nat /\ v < U16 /\ w = 2
  BY <1>2, U16Survives
<1>3. CASE kind = "u24" /\ v \in Nat /\ v < U24 /\ w = 3
  BY <1>3, U24Survives
<1>4. CASE kind = "u32" /\ v \in Nat /\ v < U24 /\ w = 4
  BY <1>4, U32Survives
<1>5. CASE kind = "u64" /\ v \in Seq(Nat) /\ Len(v) = 8 /\ w = 8
  BY <1>5, U64Survives
<1>6. CASE kind = "magic" /\ v = TRUE /\ w = 16
  BY <1>6, MagicSurvives
<1>7. CASE kind = "zero" /\ w = 1
  BY <1>7, ZeroSurvives
<1>8. CASE kind = "address" /\ Ipv4(v) /\ w = 7
  <2>1. PICK x : x = Write("address", v)
    OBVIOUS
  <2>2. x \in Seq(Nat) /\ Len(x) = 7 /\ Read("address", x) = v
    BY <1>8, <2>1, AddressWritten
  <2>3. Survives("address", v, 7)
    BY <2>1, <2>2 DEF Survives
  <2>. QED
    BY <1>8, <2>3
<1>. QED
  BY <1>1, <1>2, <1>3, <1>4, <1>5, <1>6, <1>7, <1>8 DEF Fits

\* The first byte of what is at p + 1 to q.
LEMMA StandsFirst ==
    ASSUME NEW buf, NEW p \in Nat, NEW q \in Nat, NEW x, Stands(buf, p, q, x),
           Len(x) \in Nat, Len(x) > 0
    PROVE  p < q /\ q - p = Len(x) /\ buf[p + 1] = x[1]
<1>1. PICK w \in Nat : w = Len(x) /\ w > 0
  OBVIOUS
<1>2. q = p + w /\ SubSeq(buf, p + 1, q) = x
  BY <1>1 DEF Stands
<1>3. p < q /\ q - p = w
  BY <1>1, <1>2
<1>4. x[1] = buf[p + 1]
  <2>1. SubSeq(buf, p + 1, q) = [i \in 1..((q - (p + 1)) + 1) |-> buf[(p + 1 + i) - 1]]
    OBVIOUS
  <2>2. 1 \in 1..((q - (p + 1)) + 1) /\ (p + 1 + 1) - 1 = p + 1
    BY <1>1, <1>2
  <2>. QED
    BY <1>2, <2>1, <2>2
<1>. QED
  BY <1>1, <1>3, <1>4

LEMMA SizeOfIpv4 == AddressSize(4) = 7
<1>1. PICK version : version = 4
  OBVIOUS
<1>2. AddressSize(version) = 1 + 4 + 2
  BY <1>1 DEF AddressSize
<1>. QED
  BY <1>1, <1>2

\* What fits is read where it was written.
LEMMA StandsRead ==
    ASSUME NEW buf, NEW p \in Nat, NEW q \in Nat, NEW kind, NEW v, NEW w,
           Fits(kind, v, w), Stands(buf, p, q, Write(kind, v))
    PROVE  /\ p < q /\ Size(kind, buf, p) = q - p
           /\ kind # "zero" => Read(kind, SubSeq(buf, p + 1, q)) = v
<1>1. Survives(kind, v, w)
  BY FitSurvives
<1>2. /\ w \in Nat /\ w > 0
      /\ Write(kind, v) \in Seq(Nat) /\ Len(Write(kind, v)) = w
      /\ kind # "zero" => Read(kind, Write(kind, v)) = v
      /\ kind # "address" => Size(kind, buf, p) = w
  BY <1>1 DEF Survives
<1>3. p < q /\ q - p = Len(Write(kind, v)) /\ buf[p + 1] = Write(kind, v)[1]
  <2>1. Len(Write(kind, v)) \in Nat /\ Len(Write(kind, v)) > 0
    BY <1>2
  <2>. QED
    BY <2>1, StandsFirst
<1>4. Size(kind, buf, p) = w
  <2>1. CASE kind = "address"
    <3>1. Ipv4(v) /\ w = 7
      BY <2>1 DEF Fits
    <3>2. Write(kind, v)[1] = 4
      BY <2>1, <3>1, AddressWritten
    <3>3. Size(kind, buf, p) = AddressSize(buf[p + 1])
      BY <2>1 DEF Size
    <3>. QED
      BY <1>3, <3>1, <3>2, <3>3, SizeOfIpv4
  <2>. QED
    BY <1>2, <2>1
<1>5. SubSeq(buf, p + 1, q) = Write(kind, v)
  BY DEF Stands
<1>. QED
  BY <1>2, <1>3, <1>4, <1>5

LEMMA FitReads ==
    ASSUME NEW buf, NEW p \in Nat, NEW q \in Nat, NEW field, NEW values, NEW w, NEW m,
           Fits(field[2], values[field[1]], w),
           Stands(buf, p, q, Write(field[2], values[field[1]])),
           field[1] # "_" => field[2] # "zero" /\ m[field[1]] = values[field[1]]
    PROVE  FieldReads(buf, p, q, field, m)
<1>1. /\ p < q /\ Size(field[2], buf, p) = q - p
      /\ field[2] # "zero" => Read(field[2], SubSeq(buf, p + 1, q)) = values[field[1]]
  BY StandsRead
<1>. QED
  BY <1>1 DEF FieldReads

LEMMA TimesIs ==
    ASSUME NEW byte \in Nat, NEW n \in Nat
    PROVE  Times(byte, n) \in Seq(Nat) /\ Len(Times(byte, n)) = n
<1>1. PICK t : t = Times(byte, n)
  OBVIOUS
<1>2. t = [k \in 1..n |-> byte]
  BY <1>1 DEF Times
<1>3. t = [k \in 1..n |-> t[k]] /\ \A k \in 1..n : t[k] \in Nat
  BY <1>2
<1>. QED
  BY <1>1, <1>3, SeqOfNat

\* A padding in front of the end of the packet is one byte shorter to its reader.
IsEnd(q, buf) == q = Len(buf)

LEMMA PaddingRead ==
    ASSUME NEW buf, NEW p \in Nat, NEW q \in Nat, IsEnd(q, buf),
           NEW v \in Nat, v > Probe + 32, Stands(buf, p, q, Write("padding", v))
    PROVE  /\ p < q /\ Size("padding", buf, p) = q - p
           /\ Read("padding", SubSeq(buf, p + 1, q)) = v - 1
           /\ Write("padding", v) \in Seq(Nat) /\ q - p = v - (Probe + 32)
<1>1. PICK w \in Nat : w = v - (Probe + 32) /\ w > 0
  BY DEF Probe
<1>2. PICK x : x = Write("padding", v)
  OBVIOUS
<1>3. x = Times(0, w)
  BY <1>1, <1>2 DEF Write
<1>4. x \in Seq(Nat) /\ Len(x) = w
  BY <1>3, TimesIs
<1>5. q = p + w /\ SubSeq(buf, p + 1, q) = x
  BY <1>2, <1>4 DEF Stands
<1>6. Read("padding", x) = (Probe - 1) + w + 32
  BY <1>4 DEF Read
<1>7. (Probe - 1) + w + 32 = v - 1 /\ p < q /\ q - p = w
  BY <1>1, <1>5 DEF Probe
<1>8. Size("padding", buf, p) = q - p
  BY DEF Size, IsEnd
<1>. QED
  BY <1>1, <1>2, <1>4, <1>5, <1>6, <1>7, <1>8

\* The ten sixes are in front of sixteen bytes.
LEMMA SixesRead ==
    ASSUME NEW buf, NEW p \in Nat, NEW q \in Nat, Len(buf) = q + 16,
           NEW v, Stands(buf, p, q, Write("sixes", v))
    PROVE  /\ p < q /\ Size("sixes", buf, p) = q - p
<1>1. PICK x : x = Write("sixes", v)
  OBVIOUS
<1>2. x = Times(6, 10)
  BY <1>1 DEF Write
<1>3. Len(x) = 10
  BY <1>2, TimesIs
<1>4. q = p + 10
  BY <1>1, <1>3 DEF Stands
<1>5. Size("sixes", buf, p) = Len(buf) - 16 - p
  BY DEF Size
<1>. QED
  BY <1>4, <1>5

LEMMA SixesWritten == ASSUME NEW v PROVE Write("sixes", v) \in Seq(Nat)
<1>1. Write("sixes", v) = Times(6, 10)
  BY DEF Write
<1>. QED
  BY <1>1, TimesIs

LEMMA PaddingWritten ==
    ASSUME NEW v \in Nat, v > Probe + 32
    PROVE  Write("padding", v) \in Seq(Nat) /\ Len(Write("padding", v)) = v - (Probe + 32)
<1>1. PICK w \in Nat : w = v - (Probe + 32)
  BY DEF Probe
<1>2. Write("padding", v) = Times(0, w)
  BY <1>1 DEF Write
<1>. QED
  BY <1>1, <1>2, TimesIs

\* A string goes out behind its length.
LEMMA StringWritten ==
    ASSUME NEW v \in Seq(Nat), Len(v) < U16, NEW d, d = Big(Len(v), 2)
    PROVE  IsJoin(Write("string", v), d, v)
<1>1. PICK n \in Nat : n = Len(v) /\ n < U16
  BY LenProperties
<1>2. n % U16 = n
  BY <1>1, SMT DEF U16
<1>3. Write("string", v) = Big(n, 2) \o v
  BY <1>1, <1>2 DEF Write
<1>. QED
  BY <1>1, <1>3 DEF IsJoin

LEMMA StringIs ==
    ASSUME NEW v \in Seq(Nat), NEW d \in Seq(Nat), NEW x, IsJoin(x, d, v), Len(d) = 2
    PROVE  /\ x \in Seq(Nat) /\ Len(x) = Len(v) + 2
           /\ SubSeq(x, 3, Len(v) + 2) = v
           /\ x[1] = d[1] /\ x[2] = d[2]
<1>5. PICK n \in Nat : n = Len(v)
  BY LenProperties
<1>1. /\ x \in Seq(Nat) /\ Len(x) = Len(d) + Len(v)
      /\ Begins(d, x)
      /\ \A i \in 1..Len(v) : x[Len(d) + i] = v[i]
  BY JoinedBehind
<1>2. Len(x) = n + 2 /\ \A i \in 1..n : x[2 + i] = v[i]
  BY <1>1, <1>5
<1>3. x[1] = d[1] /\ x[2] = d[2]
  BY <1>1 DEF Begins
<1>4. SubSeq(x, 3, n + 2) = v
  <2>1. SubSeq(x, 3, n + 2) = [k \in 1..(((n + 2) - 3) + 1) |-> x[(3 + k) - 1]]
    OBVIOUS
  <2>2. ((n + 2) - 3) + 1 = n /\ \A k \in 1..n : (3 + k) - 1 = 2 + k
    OBVIOUS
  <2>3. SubSeq(x, 3, n + 2) = [k \in 1..n |-> x[2 + k]]
    BY <2>1, <2>2
  <2>4. v = [k \in 1..n |-> v[k]]
    BY <1>5, LenProperties
  <2>. QED
    BY <1>2, <2>3, <2>4
<1>. QED
  BY <1>1, <1>2, <1>3, <1>4, <1>5

\* What is at the first two positions behind p.
LEMMA SubSeqIs ==
    ASSUME NEW buf, NEW p \in Nat, NEW q \in Nat
    PROVE  SubSeq(buf, p + 1, q) = [i \in 1..((q - (p + 1)) + 1) |-> buf[(p + 1 + i) - 1]]
  OBVIOUS

LEMMA StandsTwo ==
    ASSUME NEW buf, NEW p \in Nat, NEW q \in Nat, NEW x, Stands(buf, p, q, x),
           Len(x) \in Nat, Len(x) > 1, NEW d \in Seq(Nat), Len(d) = 2, x[1] = d[1], x[2] = d[2]
    PROVE  SubSeq(buf, p + 1, p + 2) = d
<1>1. PICK w \in Nat : w = Len(x) /\ w > 1
  OBVIOUS
<1>2. q = p + w /\ SubSeq(buf, p + 1, q) = x
  BY <1>1 DEF Stands
<1>3. SubSeq(buf, p + 1, q) = [i \in 1..((q - (p + 1)) + 1) |-> buf[(p + 1 + i) - 1]]
  BY SubSeqIs
<1>4. x[1] = buf[p + 1] /\ x[2] = buf[p + 2]
  <2>1. /\ 1 \in 1..((q - (p + 1)) + 1) /\ 2 \in 1..((q - (p + 1)) + 1)
        /\ (p + 1 + 1) - 1 = p + 1 /\ (p + 1 + 2) - 1 = p + 2
    BY <1>1, <1>2
  <2>. QED
    BY <1>2, <1>3, <2>1
<1>5. SubSeq(buf, p + 1, p + 2) = [i \in 1..(((p + 2) - (p + 1)) + 1) |-> buf[(p + 1 + i) - 1]]
  BY p + 2 \in Nat, SubSeqIs
<1>6. ((p + 2) - (p + 1)) + 1 = 2 /\ \A i \in 1..2 : (i = 1 \/ i = 2) /\ (p + 1 + i) - 1 = p + i
  OBVIOUS
<1>7. d = [i \in 1..2 |-> d[i]]
  BY LenProperties
<1>8. \A i \in 1..2 : buf[(p + 1 + i) - 1] = d[i]
  BY <1>4, <1>6
<1>. QED
  BY <1>5, <1>6, <1>7, <1>8

LEMMA StringRead ==
    ASSUME NEW buf, NEW p \in Nat, NEW q \in Nat, NEW v \in Seq(Nat), Len(v) < U16,
           Stands(buf, p, q, Write("string", v))
    PROVE  /\ p < q /\ Size("string", buf, p) = q - p
           /\ Read("string", SubSeq(buf, p + 1, q)) = v
<1>1. PICK n \in Nat : n = Len(v) /\ n < U16
  BY LenProperties
<1>2. PICK d : d = Big(n, 2)
  OBVIOUS
<1>3. d \in Seq(Nat) /\ Len(d) = 2 /\ FromBig(d) = n
  BY <1>1, <1>2, BigIs, TwoBytesSurvive
<1>4. PICK x : x = Write("string", v)
  OBVIOUS
<1>5. IsJoin(x, d, v)
  BY <1>1, <1>2, <1>4, StringWritten
<1>6. x \in Seq(Nat) /\ Len(x) = n + 2 /\ SubSeq(x, 3, n + 2) = v /\ x[1] = d[1] /\ x[2] = d[2]
  <2>1. /\ x \in Seq(Nat) /\ Len(x) = Len(v) + 2 /\ SubSeq(x, 3, Len(v) + 2) = v
        /\ x[1] = d[1] /\ x[2] = d[2]
    BY <1>3, <1>5, StringIs
  <2>. QED
    BY <1>1, <2>1
<1>7. Stands(buf, p, q, x)
  BY <1>4
<1>8. q = p + (n + 2) /\ SubSeq(buf, p + 1, q) = x
  BY <1>6, <1>7 DEF Stands
<1>9. SubSeq(buf, p + 1, p + 2) = d
  <2>1. Len(x) \in Nat /\ Len(x) > 1
    BY <1>6
  <2>. QED
    BY <1>3, <1>6, <1>7, <2>1, StandsTwo
<1>10. Size("string", buf, p) = 2 + n
  <2>1. Size("string", buf, p) = 2 + FromBig(SubSeq(buf, p + 1, p + 2))
    BY DEF Size
  <2>. QED
    BY <1>3, <1>9, <2>1
<1>11. Read("string", x) = v
  <2>1. Read("string", x) = SubSeq(x, 3, Len(x))
    BY DEF Read
  <2>. QED
    BY <1>6, <2>1
<1>12. p < q /\ 2 + n = q - p
  BY <1>8
<1>. QED
  BY <1>8, <1>10, <1>11, <1>12

\* Field k of n goes through the bytes, and comes out as m says.
Fitting(fields, values, m, k) ==
    /\ \E w : Fits(fields[k][2], values[fields[k][1]], w)
    /\ fields[k][1] # "_" =>
          fields[k][2] # "zero" /\ m[fields[k][1]] = values[fields[k][1]]

StringField(fields, values, m, k) ==
    /\ fields[k][2] = "string"
    /\ values[fields[k][1]] \in Seq(Nat) /\ Len(values[fields[k][1]]) < U16
    /\ m[fields[k][1]] = values[fields[k][1]]

PaddingField(fields, values, m, n, k) ==
    /\ fields[k][2] = "padding" /\ k = n
    /\ values[fields[k][1]] \in Nat /\ values[fields[k][1]] > Probe + 32
    /\ m[fields[k][1]] = values[fields[k][1]] - 1

SixesField(fields, values, n, k) ==
    /\ fields[k][2] = "sixes" /\ fields[k][1] = "_" /\ k + 2 = n
    /\ fields[k + 1][2] = "u64" /\ fields[k + 2][2] = "u64"
    /\ \E w : Fits("u64", values[fields[k + 1][1]], w)
    /\ \E w : Fits("u64", values[fields[k + 2][1]], w)

Fine(fields, values, m, n, k) ==
    \/ Fitting(fields, values, m, k)
    \/ StringField(fields, values, m, k)
    \/ PaddingField(fields, values, m, n, k)
    \/ SixesField(fields, values, n, k)

LEMMA FineBytes ==
    ASSUME NEW fields, NEW values, NEW m, NEW n, NEW k, Fine(fields, values, m, n, k)
    PROVE  FieldBytes(fields, values, k) \in Seq(Nat)
<1>1. CASE Fitting(fields, values, m, k)
  <2>1. PICK w : Fits(fields[k][2], values[fields[k][1]], w)
    BY <1>1 DEF Fitting
  <2>2. Survives(fields[k][2], values[fields[k][1]], w)
    BY <2>1, FitSurvives
  <2>. QED
    BY <2>2 DEF Survives, FieldBytes
<1>2. CASE StringField(fields, values, m, k)
  <2>1. PICK v : v = values[fields[k][1]]
    OBVIOUS
  <2>2. v \in Seq(Nat) /\ Len(v) < U16 /\ FieldBytes(fields, values, k) = Write("string", v)
    BY <1>2, <2>1 DEF StringField, FieldBytes
  <2>3. PICK d : d = Big(Len(v), 2)
    OBVIOUS
  <2>4. IsJoin(Write("string", v), d, v)
    BY <2>2, <2>3, StringWritten
  <2>5. d \in Seq(Nat)
    <3>1. Len(v) \in Nat
      BY <2>2, LenProperties
    <3>. QED
      BY <2>3, <3>1, BigIs
  <2>6. Write("string", v) \in Seq(Nat)
    BY <2>2, <2>4, <2>5, JoinedBehind
  <2>. QED
    BY <2>2, <2>6
<1>3. CASE PaddingField(fields, values, m, n, k)
  BY <1>3, PaddingWritten DEF PaddingField, FieldBytes
<1>4. CASE SixesField(fields, values, n, k)
  BY <1>4, SixesWritten DEF SixesField, FieldBytes
<1>. QED
  BY <1>1, <1>2, <1>3, <1>4 DEF Fine

LEMMA EightBytes ==
    ASSUME NEW v, NEW w, Fits("u64", v, w)
    PROVE  Len(Write("u64", v)) = 8
<1>1. v \in Seq(Nat) /\ Len(v) = 8
  BY DEF Fits
<1>2. Write("u64", v) = v
  BY DEF Write
<1>. QED
  BY <1>1, <1>2

LEMMA SixteenMore ==
    ASSUME NEW buf, NEW p \in Nat, NEW q \in Nat, NEW c \in Nat, NEW x, NEW y,
           Stands(buf, p, q, x), Stands(buf, q, c, y), Len(x) = 8, Len(y) = 8
    PROVE  c = p + 16
<1>1. q = p + 8
  BY DEF Stands
<1>2. c = q + 8
  BY DEF Stands
<1>. QED
  BY <1>1, <1>2

LEMMA TwoBehind ==
    ASSUME NEW n \in Nat, NEW k \in 1..n, k + 2 = n
    PROVE  /\ k + 1 \in 1..n /\ k + 2 \in 1..n /\ (k + 1) - 1 = k /\ (k + 2) - 1 = k + 1
  OBVIOUS

LEMMA FineReads ==
    ASSUME NEW fields, NEW values, NEW m, NEW n \in Nat, NEW b,
           Written(fields, values, n, b),
           \A k \in 1..n : Fine(fields, values, m, n, k),
           NEW k \in 1..n
    PROVE  /\ Len(b[k - 1]) \in Nat /\ Len(b[k]) \in Nat /\ Len(b[k]) <= Len(b[n])
           /\ FieldReads(b[n], Len(b[k - 1]), Len(b[k]), fields[k], m)
<1>1. \A j \in 1..n : FieldBytes(fields, values, j) \in Seq(Nat)
  BY FineBytes
<1>2. ASSUME NEW j \in 1..n
      PROVE  /\ Len(b[j - 1]) \in Nat /\ Len(b[j]) \in Nat
             /\ Stands(b[n], Len(b[j - 1]), Len(b[j]), FieldBytes(fields, values, j))
  BY <1>1, FieldStands
<1>3. PICK buf : buf = b[n]
  OBVIOUS
<1>0. PICK p \in Nat, q \in Nat : p = Len(b[k - 1]) /\ q = Len(b[k])
  BY <1>2
<1>4. Stands(buf, p, q, FieldBytes(fields, values, k))
  BY <1>2, <1>0, <1>3
<1>5. q <= Len(buf)
  BY <1>4 DEF Stands
<1>6. Fine(fields, values, m, n, k)
  OBVIOUS
<1>7. CASE Fitting(fields, values, m, k)
  <2>1. PICK w : Fits(fields[k][2], values[fields[k][1]], w)
    BY <1>7 DEF Fitting
  <2>2. Stands(buf, p, q, Write(fields[k][2], values[fields[k][1]]))
    BY <1>4 DEF FieldBytes
  <2>3. fields[k][1] # "_" => fields[k][2] # "zero" /\ m[fields[k][1]] = values[fields[k][1]]
    BY <1>7 DEF Fitting
  <2>4. FieldReads(buf, p, q, fields[k], m)
    BY <2>1, <2>2, <2>3, FitReads
  <2>. QED
    BY <1>2, <1>0, <1>3, <1>5, <2>4
<1>8. CASE StringField(fields, values, m, k)
  <2>1. PICK v : v = values[fields[k][1]]
    OBVIOUS
  <2>2. /\ fields[k][2] = "string" /\ v \in Seq(Nat) /\ Len(v) < U16 /\ m[fields[k][1]] = v
        /\ Stands(buf, p, q, Write("string", v))
    BY <1>4, <1>8, <2>1 DEF StringField, FieldBytes
  <2>3. /\ p < q /\ Size("string", buf, p) = q - p
        /\ Read("string", SubSeq(buf, p + 1, q)) = v
    BY <2>2, StringRead
  <2>4. FieldReads(buf, p, q, fields[k], m)
    BY <2>2, <2>3 DEF FieldReads
  <2>. QED
    BY <1>2, <1>0, <1>3, <1>5, <2>4
<1>9. CASE PaddingField(fields, values, m, n, k)
  <2>1. PICK v : v = values[fields[k][1]]
    OBVIOUS
  <2>2. /\ fields[k][2] = "padding" /\ v \in Nat /\ v > Probe + 32 /\ m[fields[k][1]] = v - 1
        /\ Stands(buf, p, q, Write("padding", v))
    BY <1>4, <1>9, <2>1 DEF PaddingField, FieldBytes
  <2>3. IsEnd(q, buf)
    BY <1>0, <1>3, <1>9 DEF IsEnd, PaddingField
  <2>4. /\ p < q /\ Size("padding", buf, p) = q - p
        /\ Read("padding", SubSeq(buf, p + 1, q)) = v - 1
    BY <2>2, <2>3, PaddingRead
  <2>5. FieldReads(buf, p, q, fields[k], m)
    BY <2>2, <2>4 DEF FieldReads
  <2>. QED
    BY <1>2, <1>0, <1>3, <1>5, <2>5
<1>10. CASE SixesField(fields, values, n, k)
  <2>1. /\ fields[k][2] = "sixes" /\ fields[k][1] = "_" /\ k + 2 = n
        /\ fields[k + 1][2] = "u64" /\ fields[k + 2][2] = "u64"
    BY <1>10 DEF SixesField
  <2>2. /\ k + 1 \in 1..n /\ k + 2 \in 1..n /\ (k + 1) - 1 = k /\ (k + 2) - 1 = k + 1
    BY <2>1, TwoBehind
  <2>3. PICK r \in Nat, c \in Nat : r = Len(b[k + 1]) /\ c = Len(b[k + 2])
    BY <1>2, <2>2
  <2>4. /\ Stands(buf, q, r, FieldBytes(fields, values, k + 1))
        /\ Stands(buf, r, c, FieldBytes(fields, values, k + 2))
    BY <1>2, <1>0, <1>3, <2>2, <2>3
  <2>5. Len(FieldBytes(fields, values, k + 1)) = 8 /\ Len(FieldBytes(fields, values, k + 2)) = 8
    BY <1>10, <2>1, EightBytes DEF SixesField, FieldBytes
  <2>6. Len(buf) = q + 16
    <3>1. c = q + 16
      BY <2>4, <2>5, SixteenMore
    <3>. QED
      BY <1>0, <1>3, <2>1, <2>3, <3>1
  <2>7. Stands(buf, p, q, Write("sixes", values[fields[k][1]]))
    BY <1>4, <2>1 DEF FieldBytes
  <2>8. p < q /\ Size("sixes", buf, p) = q - p
    BY <2>6, <2>7, SixesRead
  <2>9. FieldReads(buf, p, q, fields[k], m)
    BY <2>1, <2>8 DEF FieldReads
  <2>. QED
    BY <1>2, <1>0, <1>3, <1>5, <2>9
<1>. QED
  BY <1>6, <1>7, <1>8, <1>9, <1>10 DEF Fine

\* part is the first l of the fields.
IsFirst(part, fields, l) == OfLength(part, l) /\ \A k \in 1..l : part[k] = fields[k]

ReadsFirst(part, fields, values, m, n, l) ==
    /\ WriteAll(fields, values) \in Seq(Nat)
    /\ \E p : /\ ReadAll(part, WriteAll(fields, values)) = At(p, Names(part, l), m)
              /\ l = n => p = Len(WriteAll(fields, values))

\* The Reader makes of the first l fields, as m says, what the Writer made of all of them.
LEMMA FirstRead ==
    ASSUME NEW fields, NEW values, NEW m, NEW n, OfLength(fields, n), n > 0,
           \A k \in 1..n : Fine(fields, values, m, n, k),
           NEW part, NEW l \in 1..n, IsFirst(part, fields, l)
    PROVE  ReadsFirst(part, fields, values, m, n, l)
<1>1. n \in Nat
  BY DEF OfLength
<1>2. \A k \in 1..n : FieldBytes(fields, values, k) \in Seq(Nat)
  BY FineBytes
<1>3. PICK b : Written(fields, values, n, b) /\ WriteAll(fields, values) = b[n]
  BY <1>2, WriteSteps
<1>4. ASSUME NEW k \in 1..n
      PROVE  /\ Len(b[k - 1]) \in Nat /\ Len(b[k]) \in Nat /\ Len(b[k]) <= Len(b[n])
             /\ FieldReads(b[n], Len(b[k - 1]), Len(b[k]), fields[k], m)
  BY <1>1, <1>3, FineReads
<1>5. PICK buf : buf = b[n]
  OBVIOUS
<1>6. PICK e : e = [k \in 0..n |-> Len(b[k])]
  OBVIOUS
<1>7. b[0] = << >> /\ Len(b[0]) = 0
  BY <1>3 DEF Written
<1>8. e[0] = 0
  BY <1>1, <1>6, <1>7
<1>9. n \in 0..n /\ \A k \in 1..n : k \in 0..n /\ k - 1 \in 0..n
  BY <1>1
<1>10. buf \in Seq(Nat)
  <2>1. \A k \in 0..n : \A j \in 0..k : b[j] \in Seq(Nat) /\ Begins(b[j], b[k])
    BY <1>1, <1>2, <1>3, WrittenGrows
  <2>. QED
    BY <1>1, <1>5, <1>9, <2>1
<1>11. Len(buf) \in Nat
  BY <1>10, LenProperties
<1>12. \A k \in 0..n : e[k] \in Nat /\ e[k] <= Len(buf)
  <2>. TAKE k \in 0..n
  <2>1. CASE k = 0
    BY <1>8, <1>11, <2>1
  <2>2. CASE k # 0
    <3>1. k \in 1..n
      BY <2>2
    <3>. QED
      BY <1>4, <1>5, <1>6, <3>1
  <2>. QED
    BY <2>1, <2>2
<1>13. \A k \in 1..n : FieldReads(buf, e[k - 1], e[k], fields[k], m)
  BY <1>4, <1>5, <1>6, <1>9
<1>14. \A k \in 0..l : e[k] \in Nat /\ e[k] <= Len(buf)
  BY <1>1, <1>12
<1>15. \A k \in 1..l : FieldReads(buf, e[k - 1], e[k], part[k], m)
  <2>. TAKE k \in 1..l
  <2>1. k \in 1..n
    BY <1>1
  <2>2. part[k] = fields[k]
    BY DEF IsFirst
  <2>3. FieldReads(buf, e[k - 1], e[k], fields[k], m)
    BY <1>13, <2>1
  <2>. QED
    BY <2>2, <2>3
<1>16. ReadAll(part, buf) = At(e[l], Names(part, l), m)
  <2>1. OfLength(part, l)
    BY DEF IsFirst
  <2>. QED
    BY <1>8, <1>11, <1>14, <1>15, <2>1, FieldsRead
<1>17. e[n] = Len(buf)
  BY <1>5, <1>6, <1>9
<1>. QED
  BY <1>3, <1>5, <1>10, <1>16, <1>17 DEF ReadsFirst

\* What the Writer made of the fields the Reader reads as m says.
LEMMA RoundTrip ==
    ASSUME NEW fields, NEW values, NEW m, NEW n, OfLength(fields, n), n > 0,
           \A k \in 1..n : Fine(fields, values, m, n, k)
    PROVE  /\ WriteAll(fields, values) \in Seq(Nat)
           /\ ReadAll(fields, WriteAll(fields, values))
                = At(Len(WriteAll(fields, values)), Names(fields, n), m)
<1>1. n \in 1..n
  BY DEF OfLength
<1>2. PICK part : part = fields
  OBVIOUS
<1>3. IsFirst(part, fields, n)
  BY <1>2 DEF IsFirst
<1>4. ReadsFirst(part, fields, values, m, n, n)
  BY <1>1, <1>3, FirstRead
<1>. QED
  BY <1>2, <1>4 DEF ReadsFirst
=============================================================================
