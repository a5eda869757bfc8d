-------------------------- MODULE NegotiationProofs --------------------------
(***************************************************************************)
(* What send_to carries, for a message of any length and any mtu that      *)
(* leaves room for a piece.  That the frames it makes, and every packet    *)
(* that client and server exchange over IPv4 before it, come out of their  *)
(* bytes as they went in.  And that what a session may send fits the path  *)
(* the probes found.                                                       *)
(***************************************************************************)
EXTENDS Negotiation, DataProofs

\* the numbers of a session, and what a frame of a message looks like
Numbers == [message_index : Nat, order_index : Nat, split_id : 0..(U16 - 1)]
FrameRecord ==
    [ reliability : Nat, message_index : Nat, sequence_index : Nat, order_index : Nat,
      split : BOOLEAN, split_count : Nat, split_id : Nat, split_index : Nat, data : Nat ]

\* A frame of a message, and one that a session makes whose mtu is m.
MessageFrame ==
    [ reliability : {3}, message_index : Nat, sequence_index : {0}, order_index : Nat,
      split : BOOLEAN, split_count : 0..(U16 - 1), split_id : 0..(U16 - 1),
      split_index : 0..(U16 - 1), data : Nat ]

IsSent(f, m) ==
    /\ f \in MessageFrame
    /\ ~ f.split => f.split_count = 0 /\ f.split_id = 0 /\ f.split_index = 0
    /\ f.data + (IF f.split THEN 10 ELSE 0) <= m - 47

\* `max` of send_to is positive.  The mtus that are probed are 584 at least; with
\* one below 61 the code's u16 underflows, with 61 it divides by zero.
LeavesRoom(m) == m \in Nat /\ m > 24 + 32 + 5

\* A session that sends one message after the other.
SendInit ==
    /\ LeavesRoom(mtu)
    /\ counters \in Numbers
    /\ length \in Nat
    /\ rest = length
    /\ frames = << >>
    /\ pc = "called"

SendNext ==
    \/ SendTo
    \/ pc = "done" /\ \E n \in Nat : Call(mtu, counters, n)

SendSpec == SendInit /\ [][SendNext]_<<sending, pc>>
-----------------------------------------------------------------------------
(* Arithmetic.                                                             *)

LEMMA OneMore ==
    ASSUME NEW i \in Nat, NEW p \in Nat
    PROVE  (i + 1) * p = i * p + p /\ i * p \in Nat
  OBVIOUS

LEMMA TimesGrows ==
    ASSUME NEW i \in Nat, NEW j \in Nat, i <= j, NEW p \in Nat
    PROVE  i * p <= j * p
  OBVIOUS

LEMMA Division ==
    ASSUME NEW n \in Nat, NEW p \in Nat, p > 0
    PROVE  \E q, r \in Nat : q = n \div p /\ r = n % p /\ r < p /\ n = q * p + r
<1>1. PICK q \in Int : q = n \div p
  OBVIOUS
<1>2. PICK r \in Int : r = n % p
  OBVIOUS
<1>3. q >= 0 /\ r >= 0 /\ r < p
  BY <1>1, <1>2
<1>4. n = p * q + r
  BY <1>1, <1>2
<1>5. p * q = q * p
  OBVIOUS
<1>. QED
  BY <1>1, <1>2, <1>3, <1>4, <1>5

\* q full pieces of p bytes and r bytes more are c pieces.
LEMMA PiecesOf ==
    ASSUME NEW p \in Nat, p > 0, NEW q \in Nat, NEW r \in Nat, r < p,
           NEW len \in Nat, len = q * p + r,
           NEW c \in Nat, c = IF r # 0 THEN q + 1 ELSE q
    PROVE  /\ c = 0 <=> len = 0
           /\ c > 0 => /\ r # 0 => (c - 1) * p + r = len
                       /\ r = 0 => (c - 1) * p + p = len
           /\ c <= len
<1>1. ASSUME c = 0 PROVE len = 0
  <2>1. q = 0 /\ r = 0
    BY <1>1
  <2>. QED
    BY <2>1
<1>2. ASSUME c # 0 PROVE len # 0
  <2>1. q * p \in Nat
    OBVIOUS
  <2>2. CASE r # 0
    BY <2>1, <2>2
  <2>3. CASE q > 0
    <3>1. q * p > 0
      BY <2>3
    <3>. QED
      BY <3>1
  <2>. QED
    BY <1>2, <2>2, <2>3
<1>3. ASSUME r # 0 PROVE (c - 1) * p + r = len
  <2>1. c - 1 = q
    BY <1>3
  <2>. QED
    BY <2>1
<1>4. ASSUME r = 0, c > 0 PROVE (c - 1) * p + p = len
  <2>1. PICK d \in Nat : d = c - 1
    BY <1>4
  <2>2. (d + 1) * p = d * p + p
    BY OneMore
  <2>3. d + 1 = q
    BY <1>4, <2>1
  <2>. QED
    BY <1>4, <2>1, <2>2, <2>3
<1>5. c <= len
  <2>1. q <= q * p
    <3>1. q * 1 <= q * p
      OBVIOUS
    <3>. QED
      BY <3>1
  <2>2. PICK t \in Nat : t = q * p
    OBVIOUS
  <2>. QED
    BY <2>1, <2>2
<1>. QED
  BY <1>1, <1>2, <1>3, <1>4, <1>5

\* The pieces of a length that was cut to a u16: the full ones and the last reach
\* its end, unless the last is empty.
LEMMA PiecesReach ==
    ASSUME NEW n \in Nat, NEW m, LeavesRoom(m),
           NEW p, p = MaxPiece(m), NEW len, len = n % U16,
           NEW c, c = PieceCount(n, m), NEW r, r = len % p
    PROVE  /\ p \in Nat /\ p > 0
           /\ len \in Nat /\ len <= n /\ (len = n <=> n < U16)
           /\ r \in Nat /\ r < p
           /\ c \in 0..(U16 - 1)
           /\ c = 0 <=> len = 0
           /\ c > 0 => /\ r # 0 => (c - 1) * p + r = len
                       /\ r = 0 => (c - 1) * p + p = len
<1>1. p \in Nat /\ p > 0
  BY DEF LeavesRoom, MaxPiece
<1>2. len \in Nat /\ len <= n /\ (len = n <=> n < U16) /\ len < U16
  BY DEF U16
<1>3. PICK P \in Nat, L \in Nat : P = p /\ L = len /\ P > 0
  BY <1>1, <1>2
<1>4. PICK q \in Nat, s \in Nat : q = L \div P /\ s = L % P /\ s < P /\ L = q * P + s
  BY <1>3, Division
<1>5. s = r
  BY <1>3, <1>4
<1>6. c = IF s # 0 THEN q + 1 ELSE q
  BY <1>3, <1>4 DEF PieceCount
<1>7. PICK C \in Nat : C = c
  BY <1>6
<1>8. /\ C = 0 <=> L = 0
      /\ C > 0 => /\ s # 0 => (C - 1) * P + s = L
                  /\ s = 0 => (C - 1) * P + P = L
      /\ C <= L
  <2>1. C = IF s # 0 THEN q + 1 ELSE q
    BY <1>6, <1>7
  <2>2. P > 0 /\ s < P /\ L = q * P + s
    BY <1>3, <1>4
  <2>. QED
    BY <2>1, <2>2, PiecesOf
<1>9. /\ s \in Nat /\ s < p
      /\ c \in Nat /\ c <= len
      /\ c = 0 <=> len = 0
      /\ c > 0 => /\ s # 0 => (c - 1) * p + s = len
                  /\ s = 0 => (c - 1) * p + p = len
  BY <1>3, <1>4, <1>7, <1>8
<1>10. c \in 0..(U16 - 1)
  <2>1. U16 \in Nat
    BY DEF U16
  <2>. QED
    BY <1>2, <1>9, <2>1
<1>. QED
  BY <1>1, <1>2, <1>5, <1>9, <1>10
-----------------------------------------------------------------------------
(* The bytes in the frames made so far.                                    *)

CarriedBy(fs) == Sum([k \in DOMAIN fs |-> fs[k].data])

LEMMA CarriedIs ==
    Carried = CarriedBy(frames) /\ Carried' = CarriedBy(frames')
<1>1. Carried = CarriedBy(frames)
  BY DEF Carried, CarriedBy, Sum
<1>2. (Carried = CarriedBy(frames))'
  BY <1>1, PTL
<1>. QED
  BY <1>1, <1>2

LEMMA CarriedByNone == CarriedBy(<< >>) = 0
<1>1. PICK g : g = [k \in DOMAIN << >> |-> << >>[k].data]
  OBVIOUS
<1>2. DOMAIN g = {}
  BY <1>1
<1>3. Sum(g) = 0
  BY <1>2, SumOfNone
<1>. QED
  BY <1>1, <1>3 DEF CarriedBy

LEMMA CarriedByOneMore ==
    ASSUME NEW fs \in Seq(FrameRecord), NEW f \in FrameRecord
    PROVE  /\ CarriedBy(Append(fs, f)) = CarriedBy(fs) + f.data
           /\ CarriedBy(fs) \in Nat
<1>1. PICK n \in Nat : n = Len(fs) /\ DOMAIN fs = 1..n
  OBVIOUS
<1>2. PICK more : more = Append(fs, f)
  OBVIOUS
<1>3. /\ DOMAIN more = 1..(n + 1)
      /\ \A k \in 1..n : more[k] = fs[k] /\ fs[k] \in FrameRecord
      /\ more[n + 1] = f
  BY <1>1, <1>2
<1>4. \A x \in FrameRecord : x.data \in Nat
  BY DEF FrameRecord
<1>5. PICK g : g = [k \in DOMAIN fs |-> fs[k].data]
  OBVIOUS
<1>6. PICK h : h = [k \in DOMAIN more |-> more[k].data]
  OBVIOUS
<1>7. /\ DOMAIN g = 1..n
      /\ DOMAIN h = 1..(n + 1)
      /\ \A k \in 1..n : g[k] \in Nat /\ h[k] = g[k]
      /\ h[n + 1] = f.data
      /\ h[n + 1] \in Nat
  BY <1>1, <1>3, <1>4, <1>5, <1>6
<1>8. Sum(h) = Sum(g) + h[n + 1]
  BY <1>7, SumOfOneMore
<1>9. Sum(g) \in Nat
  <2>1. IsFiniteSet(DOMAIN g)
    BY <1>7, FS_Interval
  <2>. QED
    BY <1>7, <2>1, SumIsNatural
<1>. QED
  BY <1>2, <1>5, <1>6, <1>7, <1>8, <1>9 DEF CarriedBy

LEMMA U16IsNat == U16 \in Nat /\ 0 \in 0..(U16 - 1)
  BY DEF U16

LEMMA NewFrameIs ==
    ASSUME NEW n \in Nat
    PROVE  /\ NewFrame(3, n) \in MessageFrame
           /\ NewFrame(3, n) \in FrameRecord
           /\ NewFrame(3, n).data = n /\ NewFrame(3, n).split = FALSE
           /\ NewFrame(3, n).split_count = 0 /\ NewFrame(3, n).split_id = 0
           /\ NewFrame(3, n).split_index = 0
  BY U16IsNat DEF NewFrame, MessageFrame, FrameRecord

LEMMA FrameIsRecord ==
    ASSUME counters \in Numbers, NEW n \in Nat
    PROVE  /\ Frame(n) \in FrameRecord /\ Frame(n) \in MessageFrame /\ Frame(n).data = n
           /\ \A m \in Nat : n <= m - 47 => IsSent(Frame(n), m)
<1>1. PICK a \in Nat, b \in Nat : a = counters.message_index /\ b = counters.order_index
  BY DEF Numbers
<1>2. PICK x, y : /\ x = NewFrame(3, n)
                  /\ y = [x EXCEPT !.message_index = a, !.order_index = b]
  OBVIOUS
<1>3. Frame(n) = y
  BY <1>1, <1>2 DEF Frame
<1>4. x \in MessageFrame /\ x \in FrameRecord
  BY <1>2, NewFrameIs
<1>5. /\ x.data = n /\ x.split = FALSE /\ x.split_count = 0 /\ x.split_id = 0
      /\ x.split_index = 0
  BY <1>2, NewFrameIs
<1>6. /\ y.data = x.data /\ y.split = x.split /\ y.split_count = x.split_count
      /\ y.split_id = x.split_id /\ y.split_index = x.split_index
  BY <1>2, <1>4 DEF MessageFrame
<1>7. y \in MessageFrame
  BY <1>2, <1>4 DEF MessageFrame
<1>8. y \in FrameRecord
  BY <1>2, <1>4 DEF FrameRecord
<1>9. ASSUME NEW m \in Nat, n <= m - 47 PROVE IsSent(y, m)
  BY <1>5, <1>6, <1>7, <1>9 DEF IsSent
<1>. QED
  BY <1>3, <1>5, <1>6, <1>7, <1>8, <1>9

\* ... and one of its pieces.
LEMMA PieceIsSent ==
    ASSUME NEW x \in MessageFrame, NEW m \in Nat, x.data + 10 <= m - 47,
           NEW c \in 0..(U16 - 1), NEW s \in 0..(U16 - 1), NEW i \in 0..(U16 - 1)
    PROVE  LET f == [x EXCEPT !.split = TRUE, !.split_count = c, !.split_id = s,
                              !.split_index = i]
           IN  f.data = x.data /\ IsSent(f, m)
<1>1. PICK f : f = [x EXCEPT !.split = TRUE, !.split_count = c, !.split_id = s,
                             !.split_index = i]
  OBVIOUS
<1>2. f.split = TRUE /\ f.data = x.data
  BY <1>1 DEF MessageFrame
<1>3. f \in MessageFrame
  BY <1>1 DEF MessageFrame
<1>4. IsSent(f, m)
  BY <1>2, <1>3 DEF IsSent
<1>. QED
  BY <1>1, <1>2, <1>4
-----------------------------------------------------------------------------
(* The loop.                                                               *)

\* the bytes in the first i of c pieces, the last of r bytes
UpTo(i, p, c, r) == IF i < c \/ i = 0 THEN i * p ELSE (i - 1) * p + r

\* The loop has cut off its pieces so far and nothing else.
LoopKeeps ==
    LET p == MaxPiece(mtu)
        c == PieceCount(length, mtu)
    IN  /\ ~ GoesWhole(length, mtu)
        /\ Len(frames) <= c
        /\ Carried = UpTo(Len(frames), p, c, (length % U16) % p)
        /\ Carried + rest = length

IInv ==
    /\ LeavesRoom(mtu)
    /\ counters \in Numbers
    /\ length \in Nat
    /\ rest \in Nat
    /\ frames \in Seq(FrameRecord)
    /\ \A k \in 1..Len(frames) : IsSent(frames[k], mtu)
    /\ pc \in {"called", "loop", "done"}
    /\ pc = "called" => frames = << >> /\ rest = length
    /\ pc = "loop" => LoopKeeps
    /\ CarriesAll

LEMMA InitIInv == SendInit => IInv
  BY DEF SendInit, IInv, CarriesAll

LEMMA CallIInv ==
    ASSUME NEW m, LeavesRoom(m), NEW c \in Numbers, NEW n \in Nat, Call(m, c, n)
    PROVE  IInv'
  BY DEF IInv, Call, CarriesAll

LEMMA SendWholeIInv == ASSUME IInv, SendWhole PROVE IInv'
<1>1. PICK f : f = Frame(rest)
  OBVIOUS
<1>2. f \in FrameRecord /\ f.data = rest /\ IsSent(f, mtu)
  <2>1. rest \in Nat /\ mtu \in Nat /\ rest <= mtu - 47
    BY DEF IInv, SendWhole, GoesWhole, LeavesRoom
  <2>. QED
    BY <1>1, <2>1, FrameIsRecord DEF IInv
<1>3. /\ frames' = Append(<< >>, f)
      /\ frames' \in Seq(FrameRecord)
      /\ Len(frames') = 1 /\ frames'[1] = f
  BY <1>1, <1>2 DEF SendWhole
<1>4. CarriedBy(frames') = length
  <2>1. << >> \in Seq(FrameRecord)
    OBVIOUS
  <2>2. CarriedBy(Append(<< >>, f)) = CarriedBy(<< >>) + f.data
    BY <1>2, <2>1, CarriedByOneMore
  <2>3. rest = length /\ length \in Nat
    BY DEF IInv, SendWhole
  <2>. QED
    BY <1>2, <1>3, <2>2, <2>3, CarriedByNone
<1>5. Carried' = length
  BY <1>4, CarriedIs
<1>6. counters' \in Numbers
  <2>1. /\ counters \in Numbers
        /\ counters' = [counters EXCEPT !.message_index = @ + 1, !.order_index = @ + 1]
    BY DEF IInv, SendWhole
  <2>2. counters.message_index + 1 \in Nat /\ counters.order_index + 1 \in Nat
    BY <2>1 DEF Numbers
  <2>3. \A a, b \in Nat : [counters EXCEPT !.message_index = a, !.order_index = b] \in Numbers
    BY <2>1 DEF Numbers
  <2>. QED
    BY <2>1, <2>2, <2>3
<1>7. /\ GoesWhole(length, mtu) /\ pc' = "done" /\ rest' = 0
      /\ UNCHANGED <<mtu, length>>
  BY DEF SendWhole
<1>8. CarriesAll'
  BY <1>5, <1>7 DEF CarriesAll
<1>9. \A k \in 1..Len(frames') : IsSent(frames'[k], mtu')
  BY <1>2, <1>3, <1>7
<1>. QED
  BY <1>3, <1>6, <1>7, <1>8, <1>9 DEF IInv

LEMMA SendPiecesIInv == ASSUME IInv, SendPieces PROVE IInv'
<1>1. /\ frames = << >> /\ rest = length /\ length \in Nat
      /\ LeavesRoom(mtu)
      /\ ~ GoesWhole(length, mtu)
      /\ pc' = "loop"
      /\ UNCHANGED <<mtu, counters, length, rest, frames>>
  BY DEF IInv, SendPieces, sending
<1>2. Carried = 0 /\ Carried' = Carried
  BY <1>1, CarriedIs, CarriedByNone
<1>3. LoopKeeps
  <2>1. PICK c \in Nat, p \in Nat : c = PieceCount(length, mtu) /\ p = MaxPiece(mtu)
    BY <1>1, PiecesReach
  <2>2. UpTo(0, p, c, (length % U16) % p) = 0
    BY DEF UpTo
  <2>3. Len(frames) = 0
    BY <1>1
  <2>. QED
    BY <1>1, <1>2, <2>1, <2>2, <2>3 DEF LoopKeeps
<1>4. LoopKeeps'
  BY <1>1, <1>2, <1>3 DEF LoopKeeps
<1>5. CarriesAll'
  BY <1>1 DEF CarriesAll
<1>. QED
  BY <1>1, <1>4, <1>5 DEF IInv

\* One piece more than i of them, and what is left allows it.
LEMMA NextPiece ==
    ASSUME NEW p \in Nat, p > 0, NEW c \in Nat, NEW r \in Nat, r < p,
           NEW len \in Nat, NEW i \in Nat, i < c,
           NEW pos \in Nat, i = c - 1 => pos = r, i # c - 1 => pos = p,
           r # 0 => (c - 1) * p + r = len,
           r = 0 => (c - 1) * p + p = len
    PROVE  /\ UpTo(i, p, c, r) \in Nat
           /\ UpTo(i + 1, p, c, r) = UpTo(i, p, c, r) + pos
           /\ UpTo(i + 1, p, c, r) <= len
<1>1. PICK d \in Nat : d = c - 1 /\ i <= d
  OBVIOUS
<1>2. /\ (i + 1) * p = i * p + p
      /\ i * p \in Nat /\ d * p \in Nat
  BY OneMore
<1>3. d * p <= len
  BY <1>1, <1>2
<1>4. UpTo(i, p, c, r) = i * p
  BY DEF UpTo
<1>5. CASE i = d
  <2>1. UpTo(i + 1, p, c, r) = (i + 1 - 1) * p + r
    BY <1>1, <1>5 DEF UpTo
  <2>2. i + 1 - 1 = i
    OBVIOUS
  <2>3. UpTo(i + 1, p, c, r) = i * p + r
    BY <2>1, <2>2
  <2>4. pos = r
    BY <1>1, <1>5
  <2>5. d * p + r <= len
    BY <1>1, <1>2
  <2>. QED
    BY <1>2, <1>4, <1>5, <2>3, <2>4, <2>5
<1>6. CASE i < d
  <2>1. UpTo(i + 1, p, c, r) = (i + 1) * p
    BY <1>1, <1>6 DEF UpTo
  <2>2. (i + 1) * p <= d * p
    <3>1. i + 1 <= d /\ i + 1 \in Nat
      BY <1>6, <1>1
    <3>. QED
      BY <3>1, TimesGrows
  <2>3. pos = p
    BY <1>1, <1>6
  <2>4. UpTo(i + 1, p, c, r) <= len
    <3>1. PICK u \in Nat, v \in Nat : u = (i + 1) * p /\ v = d * p
      BY <1>2
    <3>. QED
      BY <1>3, <2>1, <2>2, <3>1
  <2>. QED
    BY <1>2, <1>4, <2>1, <2>3, <2>4
<1>. QED
  BY <1>1, <1>5, <1>6

\* An iteration: `split_to` finds the bytes it asks for.
LEMMA SendPieceIInv == ASSUME IInv, SendPiece PROVE IInv'
<1>1. PICK i \in Nat : i = Len(frames)
  BY DEF IInv
<1>2. PICK p, len, c, r : /\ p = MaxPiece(mtu) /\ len = length % U16
                          /\ c = PieceCount(length, mtu) /\ r = len % p
  OBVIOUS
<1>3. /\ p \in Nat /\ p > 0
      /\ len \in Nat /\ len <= length
      /\ r \in Nat /\ r < p
      /\ c \in Nat /\ c \in 0..(U16 - 1)
      /\ c > 0 => /\ r # 0 => (c - 1) * p + r = len
                  /\ r = 0 => (c - 1) * p + p = len
  <2>1. length \in Nat /\ LeavesRoom(mtu)
    BY DEF IInv
  <2>. QED
    BY <1>2, <2>1, PiecesReach
<1>4. i < c
  BY <1>1, <1>2 DEF SendPiece
<1>5. PICK pos : pos = PieceLength(i, length, mtu)
  OBVIOUS
<1>6. pos = IF i = c - 1 THEN r ELSE p
  BY <1>2, <1>5 DEF PieceLength
<1>7. /\ pos \in Nat
      /\ UpTo(i, p, c, r) \in Nat
      /\ UpTo(i + 1, p, c, r) = UpTo(i, p, c, r) + pos
      /\ UpTo(i + 1, p, c, r) <= len
      /\ pos <= p
  <2>1. PICK P \in Nat, C \in Nat, R \in Nat, L \in Nat :
           P = p /\ C = c /\ R = r /\ L = len
    BY <1>3
  <2>2. P > 0 /\ R < P /\ i < C
    BY <1>3, <1>4, <2>1
  <2>3. R # 0 => (C - 1) * P + R = L
    BY <1>3, <2>1, <2>2
  <2>4. R = 0 => (C - 1) * P + P = L
    BY <1>3, <2>1, <2>2
  <2>5. PICK n \in Nat : n = pos
    BY <1>6, <2>1
  <2>6. (i = C - 1 => n = R) /\ (i # C - 1 => n = P)
    BY <1>6, <2>1, <2>5
  <2>7. /\ UpTo(i, P, C, R) \in Nat
        /\ UpTo(i + 1, P, C, R) = UpTo(i, P, C, R) + n
        /\ UpTo(i + 1, P, C, R) <= L
    BY <2>2, <2>3, <2>4, <2>6, NextPiece
  <2>8. n <= P
    BY <2>2, <2>6
  <2>. QED
    BY <2>1, <2>5, <2>7, <2>8
<1>8. PICK f : f = [Frame(pos) EXCEPT !.split = TRUE, !.split_count = c,
                                      !.split_id = counters.split_id, !.split_index = i]
  OBVIOUS
<1>9. f \in FrameRecord /\ f.data = pos /\ IsSent(f, mtu)
  <2>1. Frame(pos) \in FrameRecord /\ Frame(pos).data = pos
    BY <1>7, FrameIsRecord DEF IInv
  <2>2. counters.split_id \in 0..(U16 - 1)
    BY DEF IInv, Numbers
  <2>3. PICK x \in FrameRecord : x = Frame(pos)
    BY <2>1
  <2>4. PICK s \in 0..(U16 - 1) : s = counters.split_id
    BY <2>2
  <2>5. f = [x EXCEPT !.split = TRUE, !.split_count = c, !.split_id = s, !.split_index = i]
    BY <1>8, <2>3, <2>4
  <2>6. c \in Nat /\ s \in Nat
    BY <1>3, U16IsNat
  <2>10. f \in FrameRecord
    BY <2>5, <2>6 DEF FrameRecord
  <2>7. mtu \in Nat /\ pos + 10 <= mtu - 47
    BY <1>2, <1>3, <1>7 DEF IInv, LeavesRoom, MaxPiece
  <2>8. i \in 0..(U16 - 1)
    BY <1>3, <1>4, U16IsNat
  <2>9. f.data = x.data /\ IsSent(f, mtu)
    <3>1. x \in MessageFrame
      BY <1>7, <2>3, FrameIsRecord DEF IInv
    <3>2. x.data + 10 <= mtu - 47 /\ mtu \in Nat
      BY <2>1, <2>3, <2>7
    <3>3. LET y == [x EXCEPT !.split = TRUE, !.split_count = c, !.split_id = s,
                             !.split_index = i]
          IN  y.data = x.data /\ IsSent(y, mtu)
      BY <1>3, <2>8, <3>1, <3>2, PieceIsSent
    <3>. QED
      BY <2>5, <3>3
  <2>. QED
    BY <2>1, <2>3, <2>9, <2>10
<1>10. frames' = Append(frames, f)
  BY <1>1, <1>2, <1>5, <1>8 DEF SendPiece
<1>11. frames' \in Seq(FrameRecord) /\ Len(frames') = i + 1
  BY <1>1, <1>9, <1>10 DEF IInv
<1>12. /\ pc = "loop" /\ rest' = rest - pos
       /\ counters' = [counters EXCEPT !.message_index = @ + 1]
       /\ pc' = IF pos <= rest THEN "loop" ELSE "panicked"
       /\ mtu' = mtu /\ length' = length
  BY <1>1, <1>5 DEF SendPiece
<1>13. /\ ~ GoesWhole(length, mtu)
       /\ Carried = UpTo(i, p, c, r)
       /\ Carried + rest = length
  BY <1>1, <1>2, <1>12 DEF IInv, LoopKeeps
<1>14. Carried' = Carried + pos
  <2>1. frames \in Seq(FrameRecord)
    BY DEF IInv
  <2>2. CarriedBy(Append(frames, f)) = CarriedBy(frames) + pos
    BY <1>9, <2>1, CarriedByOneMore
  <2>. QED
    BY <1>10, <2>2, CarriedIs
<1>15. rest \in Nat /\ length \in Nat
  BY DEF IInv
<1>16. pos <= rest /\ rest' \in Nat
  BY <1>3, <1>7, <1>12, <1>13, <1>15
<1>17. Carried' = UpTo(i + 1, p, c, r) /\ Carried' + rest' = length
  BY <1>7, <1>12, <1>13, <1>14, <1>15
<1>18. counters' \in Numbers
  <2>1. counters \in Numbers /\ counters.message_index + 1 \in Nat
    BY DEF IInv, Numbers
  <2>2. \A a \in Nat : [counters EXCEPT !.message_index = a] \in Numbers
    BY <2>1 DEF Numbers
  <2>. QED
    BY <1>12, <2>1, <2>2
<1>19. LoopKeeps'
  <2>1. /\ MaxPiece(mtu') = p /\ PieceCount(length', mtu') = c
        /\ (length' % U16) % p = r
    BY <1>2, <1>12
  <2>2. i + 1 <= c
    BY <1>3, <1>4
  <2>3. ~ GoesWhole(length', mtu')
    BY <1>12, <1>13
  <2>. QED
    BY <1>11, <1>12, <1>17, <2>1, <2>2, <2>3 DEF LoopKeeps
<1>20. pc' = "loop"
  BY <1>12, <1>16
<1>21. CarriesAll'
  BY <1>20 DEF CarriesAll
<1>22. \A k \in 1..Len(frames') : IsSent(frames'[k], mtu')
  <2>1. frames \in Seq(FrameRecord) /\ \A k \in 1..i : IsSent(frames[k], mtu)
    BY <1>1 DEF IInv
  <2>2. \A k \in 1..i : frames'[k] = frames[k]
    BY <1>1, <1>9, <1>10, <2>1
  <2>3. frames'[i + 1] = f
    BY <1>1, <1>9, <1>10, <2>1
  <2>4. \A k \in 1..(i + 1) : k \in 1..i \/ k = i + 1
    OBVIOUS
  <2>. QED
    BY <1>9, <1>11, <1>12, <2>1, <2>2, <2>3, <2>4
<1>. QED
  BY <1>11, <1>12, <1>16, <1>18, <1>19, <1>20, <1>21, <1>22 DEF IInv

\* What c pieces carry of n bytes that were cut to len.
LEMMA PiecesCarry ==
    ASSUME NEW p \in Nat, p > 0, NEW c \in Nat, NEW r \in Nat, r < p,
           NEW len \in Nat, NEW n \in Nat, len <= n, n > p,
           c = 0 <=> len = 0,
           c > 0 /\ r # 0 => (c - 1) * p + r = len,
           c > 0 /\ r = 0 => (c - 1) * p + p = len
    PROVE  /\ UpTo(c, p, c, r) = n <=> len = n /\ r # 0
           /\ len = n => c >= 2
<1>1. CASE c = 0
  <2>1. UpTo(c, p, c, r) = 0
    BY <1>1 DEF UpTo
  <2>. QED
    BY <1>1, <2>1
<1>2. CASE c > 0
  <2>1. PICK d \in Nat : d = c - 1
    BY <1>2
  <2>2. PICK m \in Nat : m = d * p
    OBVIOUS
  <2>3. UpTo(c, p, c, r) = m + r
    BY <1>2, <2>1, <2>2 DEF UpTo
  <2>4. IF r # 0 THEN m + r = len ELSE m + p = len
    BY <1>2, <2>1, <2>2
  <2>5. UpTo(c, p, c, r) = n <=> len = n /\ r # 0
    BY <2>3, <2>4
  <2>6. ASSUME len = n PROVE d # 0
    <3>1. SUFFICES ASSUME d = 0 PROVE FALSE
      OBVIOUS
    <3>2. m = 0
      BY <2>2, <3>1
    <3>. QED
      BY <2>4, <2>6, <3>2
  <2>7. d # 0 => c >= 2
    BY <2>1
  <2>. QED
    BY <2>5, <2>6, <2>7
<1>. QED
  BY <1>1, <1>2

\* The loop is over.
LEMMA SendDoneIInv == ASSUME IInv, SendDone PROVE IInv'
<1>1. PICK p, len, c, r : /\ p = MaxPiece(mtu) /\ len = length % U16
                          /\ c = PieceCount(length, mtu) /\ r = len % p
  OBVIOUS
<1>2. length \in Nat /\ LeavesRoom(mtu)
  BY DEF IInv
<1>3. /\ p \in Nat /\ p > 0
      /\ len \in Nat /\ len <= length /\ (len = length <=> length < U16)
      /\ r \in Nat /\ r < p
      /\ c \in Nat
      /\ c = 0 <=> len = 0
      /\ c > 0 /\ r # 0 => (c - 1) * p + r = len
      /\ c > 0 /\ r = 0 => (c - 1) * p + p = len
  BY <1>1, <1>2, PiecesReach
<1>4. /\ pc = "loop" /\ Len(frames) = c
      /\ counters' = [counters EXCEPT !.split_id = (@ + 1) % U16, !.order_index = @ + 1]
      /\ pc' = "done"
      /\ mtu' = mtu /\ length' = length /\ rest' = rest /\ frames' = frames
  BY <1>1 DEF SendDone
<1>5. ~ GoesWhole(length, mtu) /\ Carried = UpTo(c, p, c, r)
  BY <1>1, <1>4 DEF IInv, LoopKeeps
<1>6. length > p
  BY <1>1, <1>2, <1>5 DEF GoesWhole, MaxPiece, LeavesRoom
<1>7. /\ UpTo(c, p, c, r) = length <=> len = length /\ r # 0
      /\ len = length => c >= 2
  BY <1>2, <1>3, <1>6, PiecesCarry
<1>8. Carried' = Carried
  BY <1>4, CarriedIs
<1>9. Carried' = length' <=> length' < U16 /\ length' % MaxPiece(mtu') # 0
  <2>1. length < U16 => length % p = r
    BY <1>1, <1>3
  <2>2. Carried = length <=> len = length /\ r # 0
    BY <1>5, <1>7
  <2>3. Carried = length <=> length < U16 /\ length % p # 0
    BY <1>3, <2>1, <2>2
  <2>. QED
    BY <1>1, <1>4, <1>8, <2>3
<1>10. ~ GoesWhole(length', mtu') /\ (length' < U16 => Len(frames') >= 2)
  <2>1. length < U16 => Len(frames) >= 2
    BY <1>3, <1>4, <1>7
  <2>. QED
    BY <1>4, <1>5, <2>1
<1>11. CarriesAll'
  BY <1>4, <1>9, <1>10 DEF CarriesAll
<1>12. counters' \in Numbers
  <2>1. counters \in Numbers /\ counters.split_id + 1 \in Nat /\ counters.order_index + 1 \in Nat
    BY U16IsNat DEF IInv, Numbers
  <2>2. \A a \in 0..(U16 - 1), b \in Nat :
           [counters EXCEPT !.split_id = a, !.order_index = b] \in Numbers
    BY <2>1 DEF Numbers
  <2>3. (counters.split_id + 1) % U16 \in 0..(U16 - 1)
    <3>1. PICK n \in Nat : n = counters.split_id + 1
      BY <2>1
    <3>2. n % U16 \in 0..(U16 - 1)
      <4>1. \A w \in Nat : w > 0 => n % w \in 0..(w - 1)
        OBVIOUS
      <4>2. U16 \in Nat /\ U16 > 0
        BY U16IsNat
      <4>. QED
        BY <4>1, <4>2
    <3>. QED
      BY <3>1, <3>2
  <2>. QED
    BY <1>4, <2>1, <2>2, <2>3
<1>13. /\ LeavesRoom(mtu') /\ length' \in Nat /\ rest' \in Nat /\ frames' \in Seq(FrameRecord)
  BY <1>4 DEF IInv
<1>. QED
  BY <1>4, <1>11, <1>12, <1>13 DEF IInv

LEMMA NextIInv == ASSUME IInv, [SendNext]_<<sending, pc>> PROVE IInv'
<1>1. CASE SendTo
  BY <1>1, SendWholeIInv, SendPiecesIInv, SendPieceIInv, SendDoneIInv DEF SendTo
<1>2. ASSUME NEW n \in Nat, Call(mtu, counters, n) PROVE IInv'
  BY <1>2, CallIInv DEF IInv
<1>3. CASE UNCHANGED <<sending, pc>>
  <2>1. /\ mtu' = mtu /\ counters' = counters /\ length' = length
        /\ rest' = rest /\ frames' = frames /\ pc' = pc
    BY <1>3 DEF sending
  <2>2. Carried' = Carried
    BY <2>1, CarriedIs
  <2>3. LoopKeeps' = LoopKeeps
    BY <2>1, <2>2 DEF LoopKeeps
  <2>4. CarriesAll' = CarriesAll
    BY <2>1, <2>2 DEF CarriesAll
  <2>. QED
    BY <2>1, <2>3, <2>4 DEF IInv
<1>. QED
  BY <1>1, <1>2, <1>3 DEF SendNext

LEMMA SendInvariance == SendSpec => []IInv
  BY InitIInv, NextIInv, PTL DEF SendSpec
-----------------------------------------------------------------------------
\* Session::send_to (session.rs:220-255) never panics on the bytes it cuts off; it
\* carries a message whole exactly if that goes in one frame, or is shorter than a
\* u16 counts and no multiple of the piece length; and a split message that a u16
\* counts has two pieces at least.  For messages of any length and every mtu that
\* leaves room for a piece, in a session that sends one message after the other.
THEOREM WhatIsCarried == SendSpec => []CarriesAll
<1>1. IInv => CarriesAll
  BY DEF IInv
<1>. QED
  BY <1>1, SendInvariance, PTL

\* e[k] is the length of the first k parts.
Adds(fields, values, n, e) ==
    /\ e[0] = 0
    /\ \A k \in 1..n : e[k] = e[k - 1] + Len(FieldBytes(fields, values, k))

\* What is written is as long as its parts.
LEMMA WrittenLength ==
    ASSUME NEW fields, NEW values, NEW n, OfLength(fields, n), n > 0, NEW e, Adds(fields, values, n, e),
           \A k \in 1..n : FieldBytes(fields, values, k) \in Seq(Nat)
    PROVE  /\ WriteAll(fields, values) \in Seq(Nat)
           /\ Len(WriteAll(fields, values)) = e[n]
<1>1. n \in Nat
  BY DEF OfLength
<1>2. PICK b : Written(fields, values, n, b) /\ WriteAll(fields, values) = b[n]
  BY WriteSteps
<1>3. PICK S : S = {k \in Nat : k <= n => Len(b[k]) = e[k]}
  OBVIOUS
<1>4. S \in SUBSET Nat /\ 0 \in S
  <2>1. b[0] = << >> /\ Len(b[0]) = 0
    BY <1>2 DEF Written
  <2>. QED
    BY <1>3, <2>1 DEF Adds
<1>5. \A k \in S : k + 1 \in S
  <2>. TAKE k \in S
  <2>1. k \in Nat /\ k + 1 \in Nat
    BY <1>3
  <2>2. SUFFICES ASSUME k + 1 <= n PROVE Len(b[k + 1]) = e[k + 1]
    BY <1>3, <2>1
  <2>3. k <= n /\ k + 1 \in 1..n /\ (k + 1) - 1 = k
    BY <1>1, <2>1, <2>2
  <2>4. Len(b[k]) = e[k]
    BY <1>3, <2>3
  <2>5. Stands(b[n], Len(b[k]), Len(b[k + 1]), FieldBytes(fields, values, k + 1))
    <3>1. Stands(b[n], Len(b[(k + 1) - 1]), Len(b[k + 1]), FieldBytes(fields, values, k + 1))
      BY <1>1, <1>2, <2>3, FieldStands
    <3>. QED
      BY <2>3, <3>1
  <2>6. e[k + 1] = e[k] + Len(FieldBytes(fields, values, k + 1))
    <3>1. e[k + 1] = e[(k + 1) - 1] + Len(FieldBytes(fields, values, k + 1))
      BY <2>3 DEF Adds
    <3>. QED
      BY <2>3, <3>1
  <2>. QED
    BY <2>4, <2>5, <2>6 DEF Stands
<1>6. S = Nat
  BY <1>4, <1>5, Induction
<1>7. Len(b[n]) = e[n]
  <2>1. n \in S /\ n <= n
    BY <1>1, <1>6
  <2>. QED
    BY <1>3, <2>1
<1>8. b[n] \in Seq(Nat)
  BY <1>1, <1>2, WrittenGrows
<1>. QED
  BY <1>2, <1>7, <1>8
-----------------------------------------------------------------------------
(* Frames.                                                                  *)

FieldM == <<"message_index", "u24">>
FieldO == <<"order_index", "u24">>
FieldZ == <<"_", "zero">>
FieldC == <<"split_count", "u32">>
FieldD == <<"split_id", "u16">>
FieldX == <<"split_index", "u32">>

Plus(a, b) == a + b

\* u is the a elements of s and the b of t behind them.
Laid(u, s, t, a, b) ==
    /\ OfLength(u, Plus(a, b))
    /\ \A i \in 1..a : u[i] = s[i]
    /\ \A i \in 1..b : u[Plus(a, i)] = t[i]

LEMMA JoinedOf ==
    ASSUME NEW S, NEW s \in Seq(S), NEW t \in Seq(S), NEW u, IsJoin(u, s, t),
           NEW a, NEW b, OfLength(s, a), OfLength(t, b)
    PROVE  u \in Seq(S) /\ Laid(u, s, t, a, b)
<1>1. /\ s \o t \in Seq(S) /\ Len(s \o t) = Len(s) + Len(t)
      /\ \A i \in 1..(Len(s) + Len(t)) : (s \o t)[i] = IF i <= Len(s) THEN s[i] ELSE t[i - Len(s)]
  BY ConcatProperties
<1>0. a \in Nat /\ b \in Nat /\ Len(s) = a /\ Len(t) = b
  BY LenProperties DEF OfLength
<1>2. /\ u \in Seq(S) /\ Len(u) = a + b
      /\ \A i \in 1..(a + b) : u[i] = IF i <= a THEN s[i] ELSE t[i - a]
  BY <1>0, <1>1 DEF IsJoin
<1>3. \A i \in 1..a : i \in 1..(a + b) /\ i <= a
  BY <1>0
<1>4. \A i \in 1..b : a + i \in 1..(a + b) /\ ~ (a + i <= a) /\ (a + i) - a = i
  BY <1>0
<1>5. OfLength(u, a + b)
  BY <1>0, <1>2, LenProperties DEF OfLength
<1>. QED
  BY <1>2, <1>3, <1>4, <1>5 DEF Plus, Laid

IsThree(s, x, y, z) == OfLength(s, 3) /\ s[1] = x /\ s[2] = y /\ s[3] = z

LEMMA TupleOfOne ==
    ASSUME NEW S, NEW x \in S
    PROVE  <<x>> \in Seq(S) /\ OfLength(<<x>>, 1) /\ <<x>>[1] = x
  BY DEF OfLength

LEMMA TupleOfTwo ==
    ASSUME NEW S, NEW x \in S, NEW y \in S
    PROVE  <<x, y>> \in Seq(S) /\ OfLength(<<x, y>>, 2) /\ <<x, y>>[1] = x /\ <<x, y>>[2] = y
  BY DEF OfLength

LEMMA TupleOfThree ==
    ASSUME NEW S, NEW x \in S, NEW y \in S, NEW z \in S
    PROVE  <<x, y, z>> \in Seq(S) /\ IsThree(<<x, y, z>>, x, y, z)
  BY DEF OfLength, IsThree

\* The fields of a ReliableOrdered frame, the only ones user messages come in.
LEMMA WholeFields ==
    ASSUME NEW S, NEW x \in S, NEW y \in S, NEW z \in S
    PROVE  <<x>> \o <<y, z>> \in Seq(S) /\ IsThree(<<x>> \o <<y, z>>, x, y, z)
<1>1. PICK a, b, d : a = <<x>> /\ b = <<y, z>> /\ d = a \o b
  OBVIOUS
<1>2. a \in Seq(S) /\ OfLength(a, 1) /\ a[1] = x
  BY <1>1, TupleOfOne
<1>3. b \in Seq(S) /\ OfLength(b, 2) /\ b[1] = y /\ b[2] = z
  BY <1>1, TupleOfTwo
<1>4. IsJoin(d, a, b)
  BY <1>1 DEF IsJoin
<1>5. /\ d \in Seq(S) /\ OfLength(d, Plus(1, 2))
      /\ \A i \in 1..1 : d[i] = a[i]
      /\ \A i \in 1..2 : d[Plus(1, i)] = b[i]
  <2>1. a \in Seq(S) /\ b \in Seq(S)
    BY <1>2, <1>3
  <2>2. OfLength(a, 1) /\ OfLength(b, 2)
    BY <1>2, <1>3
  <2>. QED
    BY <1>4, <2>1, <2>2, JoinedOf DEF Laid
<1>6. Plus(1, 2) = 3 /\ Plus(1, 1) = 2 /\ 1 \in 1..1 /\ 1 \in 1..2 /\ 2 \in 1..2
  BY DEF Plus
<1>7. d[1] = a[1] /\ d[2] = b[1] /\ d[3] = b[2]
  BY <1>5, <1>6
<1>. QED
  BY <1>1, <1>2, <1>3, <1>5, <1>6, <1>7 DEF IsThree

IsSix(u, x, y, z, c, d, e) ==
    /\ OfLength(u, 6)
    /\ u[1] = x /\ u[2] = y /\ u[3] = z /\ u[4] = c /\ u[5] = d /\ u[6] = e

LEMMA SplitFields ==
    ASSUME NEW S, NEW s \in Seq(S), NEW t \in Seq(S),
           NEW x, NEW y, NEW z, IsThree(s, x, y, z),
           NEW c, NEW d, NEW e, IsThree(t, c, d, e)
    PROVE  IsSix(s \o t, x, y, z, c, d, e)
<1>1. PICK u : u = s \o t
  OBVIOUS
<1>2. IsJoin(u, s, t)
  BY <1>1 DEF IsJoin
<1>3. OfLength(s, 3) /\ OfLength(t, 3)
  BY DEF IsThree
<1>4. /\ OfLength(u, Plus(3, 3))
      /\ \A i \in 1..3 : u[i] = s[i]
      /\ \A i \in 1..3 : u[Plus(3, i)] = t[i]
  BY <1>2, <1>3, JoinedOf DEF Laid
<1>5. /\ Plus(3, 1) = 4 /\ Plus(3, 2) = 5 /\ Plus(3, 3) = 6
      /\ 1 \in 1..3 /\ 2 \in 1..3 /\ 3 \in 1..3
  BY DEF Plus
<1>6. u[1] = s[1] /\ u[2] = s[2] /\ u[3] = s[3] /\ u[4] = t[1] /\ u[5] = t[2] /\ u[6] = t[3]
  BY <1>4, <1>5
<1>. QED
  BY <1>1, <1>4, <1>5, <1>6 DEF IsThree, IsSix

LEMMA FrameFieldsAre ==
    /\ IsThree(FrameFields(3, FALSE), FieldM, FieldO, FieldZ)
    /\ IsSix(FrameFields(3, TRUE), FieldM, FieldO, FieldZ, FieldC, FieldD, FieldX)
<1>1. Reliable(3) /\ ~ Sequenced(3) /\ SequencedOrOrdered(3)
  BY DEF Reliable, Sequenced, SequencedOrOrdered
<1>2. PICK S : S = {FieldM, FieldO, FieldZ, FieldC, FieldD, FieldX}
  OBVIOUS
<1>3. PICK s, t : s = <<FieldM>> \o <<FieldO, FieldZ>> /\ t = <<FieldC, FieldD, FieldX>>
  OBVIOUS
<1>4. s \in Seq(S) /\ IsThree(s, FieldM, FieldO, FieldZ)
  BY <1>2, <1>3, WholeFields
<1>5. t \in Seq(S) /\ IsThree(t, FieldC, FieldD, FieldX)
  BY <1>2, <1>3, TupleOfThree
<1>6. <<FieldM>> \o << >> = <<FieldM>> /\ s \o << >> = s
  <2>1. <<FieldM>> \in Seq(S)
    BY <1>2, TupleOfOne
  <2>. QED
    BY <1>4, <2>1, ConcatEmptySeq
<1>7. FrameFields(3, FALSE) = s
  <2>1. FrameFields(3, FALSE) = <<FieldM>> \o << >> \o <<FieldO, FieldZ>> \o << >>
    BY <1>1 DEF FrameFields, FieldM, FieldO, FieldZ
  <2>. QED
    BY <1>3, <1>6, <2>1
<1>8. FrameFields(3, TRUE) = s \o t
  <2>1. FrameFields(3, TRUE)
          = <<FieldM>> \o << >> \o <<FieldO, FieldZ>> \o <<FieldC, FieldD, FieldX>>
    BY <1>1 DEF FrameFields, FieldM, FieldO, FieldZ, FieldC, FieldD, FieldX
  <2>. QED
    BY <1>3, <1>6, <2>1
<1>9. IsSix(s \o t, FieldM, FieldO, FieldZ, FieldC, FieldD, FieldX)
  BY <1>4, <1>5, SplitFields
<1>. QED
  BY <1>4, <1>7, <1>8, <1>9

\* A frame of a user message, whose numbers fit.
IsFrame(f) ==
    /\ f = [ reliability |-> 3, message_index |-> f.message_index, sequence_index |-> 0,
             order_index |-> f.order_index, split |-> f.split, split_count |-> f.split_count,
             split_id |-> f.split_id, split_index |-> f.split_index, data |-> f.data ]
    /\ f.message_index \in Nat /\ f.message_index < U24
    /\ f.order_index \in Nat /\ f.order_index < U24
    /\ f.split \in BOOLEAN
    /\ f.split_count \in Nat /\ f.split_count < U24
    /\ f.split_id \in Nat /\ f.split_id < U16
    /\ f.split_index \in Nat /\ f.split_index < U24
    /\ ~ f.split => f.split_count = 0 /\ f.split_id = 0 /\ f.split_index = 0
    /\ f.data \in Nat /\ 8 * f.data < U16

\* The width of field k.
FrameWidth(k) == CASE k = 1 -> 3 [] k = 2 -> 3 [] k = 3 -> 1 [] k = 4 -> 4 [] k = 5 -> 2 [] k = 6 -> 4

FrameFit(f, fields, k) ==
    /\ Fits(fields[k][2], f[fields[k][1]], FrameWidth(k))
    /\ fields[k][1] # "_" => fields[k][2] # "zero"

LEMMA FieldNames ==
    /\ FieldM[1] = "message_index" /\ FieldM[2] = "u24"
    /\ FieldO[1] = "order_index" /\ FieldO[2] = "u24"
    /\ FieldZ[1] = "_" /\ FieldZ[2] = "zero"
    /\ FieldC[1] = "split_count" /\ FieldC[2] = "u32"
    /\ FieldD[1] = "split_id" /\ FieldD[2] = "u16"
    /\ FieldX[1] = "split_index" /\ FieldX[2] = "u32"
  BY DEF FieldM, FieldO, FieldZ, FieldC, FieldD, FieldX

LEMMA ThreeFit ==
    ASSUME NEW f, IsFrame(f), NEW fields,
           fields[1] = FieldM, fields[2] = FieldO, fields[3] = FieldZ
    PROVE  FrameFit(f, fields, 1) /\ FrameFit(f, fields, 2) /\ FrameFit(f, fields, 3)
<1>1. Fits("u24", f["message_index"], 3) /\ Fits("u24", f["order_index"], 3)
      /\ Fits("zero", f["_"], 1)
  BY DEF IsFrame, Fits
<1>2. FrameWidth(1) = 3 /\ FrameWidth(2) = 3 /\ FrameWidth(3) = 1
  BY DEF FrameWidth
<1>. QED
  BY <1>1, <1>2, FieldNames DEF FrameFit

LEMMA SixFit ==
    ASSUME NEW f, IsFrame(f), NEW fields,
           fields[4] = FieldC, fields[5] = FieldD, fields[6] = FieldX
    PROVE  FrameFit(f, fields, 4) /\ FrameFit(f, fields, 5) /\ FrameFit(f, fields, 6)
<1>1. Fits("u32", f["split_count"], 4) /\ Fits("u16", f["split_id"], 2)
      /\ Fits("u32", f["split_index"], 4)
  BY DEF IsFrame, Fits
<1>2. FrameWidth(4) = 4 /\ FrameWidth(5) = 2 /\ FrameWidth(6) = 4
  BY DEF FrameWidth
<1>. QED
  BY <1>1, <1>2, FieldNames DEF FrameFit

\* What is behind the head of a frame is read as it was written.
LEMMA FrameBody ==
    ASSUME NEW f, NEW fields, NEW n, OfLength(fields, n), n > 0,
           \A k \in 1..n : FrameFit(f, fields, k)
    PROVE  /\ WriteAll(fields, f) \in Seq(Nat)
           /\ ReadAll(fields, WriteAll(fields, f))
                = At(Len(WriteAll(fields, f)), Names(fields, n), f)
           /\ \A k \in 1..n : /\ FieldBytes(fields, f, k) \in Seq(Nat)
                              /\ Len(FieldBytes(fields, f, k)) = FrameWidth(k)
<1>1. ASSUME NEW k \in 1..n PROVE Fine(fields, f, f, n, k)
  BY <1>1 DEF FrameFit, Fine, Fitting
<1>2. ASSUME NEW k \in 1..n
      PROVE  FieldBytes(fields, f, k) \in Seq(Nat) /\ Len(FieldBytes(fields, f, k)) = FrameWidth(k)
  <2>1. Fits(fields[k][2], f[fields[k][1]], FrameWidth(k))
    BY DEF FrameFit
  <2>2. Survives(fields[k][2], f[fields[k][1]], FrameWidth(k))
    BY <2>1, FitSurvives
  <2>. QED
    BY <2>2 DEF Survives, FieldBytes
<1>3. /\ WriteAll(fields, f) \in Seq(Nat)
      /\ ReadAll(fields, WriteAll(fields, f))
           = At(Len(WriteAll(fields, f)), Names(fields, n), f)
  BY <1>1, RoundTrip
<1>. QED
  BY <1>2, <1>3

LEMMA ThreeLong ==
    ASSUME NEW fields, NEW f, OfLength(fields, 3), \A k \in 1..3 : FrameFit(f, fields, k)
    PROVE  Len(WriteAll(fields, f)) = 7
<1>1. PICK e : e = [k \in 0..3 |-> CASE k = 0 -> 0 [] k = 1 -> 3 [] k = 2 -> 6 [] k = 3 -> 7]
  OBVIOUS
<1>2. e[0] = 0 /\ e[1] = 3 /\ e[2] = 6 /\ e[3] = 7
  BY <1>1
<1>3. \A k \in 1..3 : /\ FieldBytes(fields, f, k) \in Seq(Nat)
                      /\ Len(FieldBytes(fields, f, k)) = FrameWidth(k)
  BY 3 > 0, FrameBody
<1>4. \A k \in 1..3 : e[k] = e[k - 1] + FrameWidth(k)
  <2>1. \A k \in 1..3 : k = 1 \/ k = 2 \/ k = 3
    OBVIOUS
  <2>2. FrameWidth(1) = 3 /\ FrameWidth(2) = 3 /\ FrameWidth(3) = 1
    BY DEF FrameWidth
  <2>. QED
    BY <1>2, <2>1, <2>2
<1>5. \A k \in 1..3 : e[k] = e[k - 1] + Len(FieldBytes(fields, f, k))
  BY <1>3, <1>4
<1>6. Len(WriteAll(fields, f)) = e[3]
  <2>1. Adds(fields, f, 3, e)
    BY <1>2, <1>5 DEF Adds
  <2>2. \A k \in 1..3 : FieldBytes(fields, f, k) \in Seq(Nat)
    BY <1>3
  <2>. QED
    BY 3 > 0, <2>1, <2>2, WrittenLength
<1>. QED
  BY <1>2, <1>6

LEMMA SixLong ==
    ASSUME NEW fields, NEW f, OfLength(fields, 6), \A k \in 1..6 : FrameFit(f, fields, k)
    PROVE  Len(WriteAll(fields, f)) = 17
<1>1. PICK e : e = [k \in 0..6 |-> CASE k = 0 -> 0 [] k = 1 -> 3 [] k = 2 -> 6 [] k = 3 -> 7
                                     [] k = 4 -> 11 [] k = 5 -> 13 [] k = 6 -> 17]
  OBVIOUS
<1>2. e[0] = 0 /\ e[1] = 3 /\ e[2] = 6 /\ e[3] = 7 /\ e[4] = 11 /\ e[5] = 13 /\ e[6] = 17
  BY <1>1
<1>3. \A k \in 1..6 : /\ FieldBytes(fields, f, k) \in Seq(Nat)
                      /\ Len(FieldBytes(fields, f, k)) = FrameWidth(k)
  BY 6 > 0, FrameBody
<1>4. \A k \in 1..6 : e[k] = e[k - 1] + FrameWidth(k)
  <2>1. \A k \in 1..6 : k = 1 \/ k = 2 \/ k = 3 \/ k = 4 \/ k = 5 \/ k = 6
    OBVIOUS
  <2>2. /\ FrameWidth(1) = 3 /\ FrameWidth(2) = 3 /\ FrameWidth(3) = 1
        /\ FrameWidth(4) = 4 /\ FrameWidth(5) = 2 /\ FrameWidth(6) = 4
    BY DEF FrameWidth
  <2>. QED
    BY <1>2, <2>1, <2>2
<1>5. \A k \in 1..6 : e[k] = e[k - 1] + Len(FieldBytes(fields, f, k))
  BY <1>3, <1>4
<1>6. Len(WriteAll(fields, f)) = e[6]
  <2>1. Adds(fields, f, 6, e)
    BY <1>2, <1>5 DEF Adds
  <2>2. \A k \in 1..6 : FieldBytes(fields, f, k) \in Seq(Nat)
    BY <1>3
  <2>. QED
    BY 6 > 0, <2>1, <2>2, WrittenLength
<1>. QED
  BY <1>2, <1>6

NamesOf(split) ==
    {"message_index", "order_index"}
        \cup (IF split THEN {"split_count", "split_id", "split_index"} ELSE {})

\* What is read of what is behind the head of a frame.
IsBody(w, f) ==
    /\ w \in Seq(Nat) /\ Len(w) = IF f.split THEN 17 ELSE 7
    /\ ReadAll(FrameFields(3, f.split), w) = At(Len(w), NamesOf(f.split), f)

LEMMA WholeBody ==
    ASSUME NEW f, IsFrame(f), ~ f.split
    PROVE  IsBody(WriteAll(FrameFields(3, f.split), f), f)
<1>1. PICK fields : fields = FrameFields(3, FALSE)
  OBVIOUS
<1>2. IsThree(fields, FieldM, FieldO, FieldZ)
  BY <1>1, FrameFieldsAre
<1>3. OfLength(fields, 3) /\ fields[1] = FieldM /\ fields[2] = FieldO /\ fields[3] = FieldZ
  BY <1>2 DEF IsThree
<1>4. \A k \in 1..3 : FrameFit(f, fields, k)
  <2>1. \A k \in 1..3 : k = 1 \/ k = 2 \/ k = 3
    OBVIOUS
  <2>2. FrameFit(f, fields, 1) /\ FrameFit(f, fields, 2) /\ FrameFit(f, fields, 3)
    BY <1>3, ThreeFit
  <2>. QED
    BY <2>1, <2>2
<1>5. Names(fields, 3) = NamesOf(FALSE)
  <2>1. \A k : k \in 1..3 <=> k = 1 \/ k = 2 \/ k = 3
    OBVIOUS
  <2>2. fields[1][1] = "message_index" /\ fields[2][1] = "order_index" /\ fields[3][1] = "_"
    BY <1>3, FieldNames
  <2>3. {fields[k][1] : k \in 1..3} = {"message_index", "order_index", "_"}
    BY <2>1, <2>2
  <2>. QED
    BY <2>3 DEF Names, NamesOf
<1>6. /\ WriteAll(fields, f) \in Seq(Nat)
      /\ ReadAll(fields, WriteAll(fields, f)) = At(Len(WriteAll(fields, f)), Names(fields, 3), f)
  BY 3 > 0, <1>3, <1>4, FrameBody
<1>7. Len(WriteAll(fields, f)) = 7
  BY <1>3, <1>4, ThreeLong
<1>8. f.split = FALSE
  BY DEF IsFrame
<1>. QED
  BY <1>1, <1>5, <1>6, <1>7, <1>8 DEF IsBody

LEMMA SplitBody ==
    ASSUME NEW f, IsFrame(f), f.split
    PROVE  IsBody(WriteAll(FrameFields(3, f.split), f), f)
<1>1. PICK fields : fields = FrameFields(3, TRUE)
  OBVIOUS
<1>2. IsSix(fields, FieldM, FieldO, FieldZ, FieldC, FieldD, FieldX)
  BY <1>1, FrameFieldsAre
<1>3. /\ OfLength(fields, 6) /\ fields[1] = FieldM /\ fields[2] = FieldO /\ fields[3] = FieldZ
      /\ fields[4] = FieldC /\ fields[5] = FieldD /\ fields[6] = FieldX
  BY <1>2 DEF IsSix
<1>4. \A k \in 1..6 : FrameFit(f, fields, k)
  <2>1. \A k \in 1..6 : k = 1 \/ k = 2 \/ k = 3 \/ k = 4 \/ k = 5 \/ k = 6
    OBVIOUS
  <2>2. FrameFit(f, fields, 1) /\ FrameFit(f, fields, 2) /\ FrameFit(f, fields, 3)
    BY <1>3, ThreeFit
  <2>3. FrameFit(f, fields, 4) /\ FrameFit(f, fields, 5) /\ FrameFit(f, fields, 6)
    BY <1>3, SixFit
  <2>. QED
    BY <2>1, <2>2, <2>3
<1>5. Names(fields, 6) = NamesOf(TRUE)
  <2>1. \A k : k \in 1..6 <=> k = 1 \/ k = 2 \/ k = 3 \/ k = 4 \/ k = 5 \/ k = 6
    OBVIOUS
  <2>2. /\ fields[1][1] = "message_index" /\ fields[2][1] = "order_index" /\ fields[3][1] = "_"
        /\ fields[4][1] = "split_count" /\ fields[5][1] = "split_id"
        /\ fields[6][1] = "split_index"
    BY <1>3, FieldNames
  <2>3. {fields[k][1] : k \in 1..6} = {"message_index", "order_index", "_", "split_count",
                                       "split_id", "split_index"}
    <3>1. 1 \in 1..6 /\ 2 \in 1..6 /\ 3 \in 1..6 /\ 4 \in 1..6 /\ 5 \in 1..6 /\ 6 \in 1..6
      OBVIOUS
    <3>2. {"message_index", "order_index", "_", "split_count", "split_id", "split_index"}
              \subseteq {fields[k][1] : k \in 1..6}
      BY <2>2, <3>1
    <3>3. \A k \in 1..6 : fields[k][1] \in {"message_index", "order_index", "_", "split_count",
                                           "split_id", "split_index"}
      BY <2>1, <2>2
    <3>. QED
      BY <3>2, <3>3
  <2>. QED
    BY <2>3 DEF Names, NamesOf
<1>6. /\ WriteAll(fields, f) \in Seq(Nat)
      /\ ReadAll(fields, WriteAll(fields, f)) = At(Len(WriteAll(fields, f)), Names(fields, 6), f)
  BY 6 > 0, <1>3, <1>4, FrameBody
<1>7. Len(WriteAll(fields, f)) = 17
  BY <1>3, <1>4, SixLong
<1>8. f.split = TRUE
  BY DEF IsFrame
<1>. QED
  BY <1>1, <1>5, <1>6, <1>7, <1>8 DEF IsBody

LEMMA BehindThree ==
    ASSUME NEW h \in Seq(Nat), OfLength(h, 3), NEW w \in Seq(Nat), NEW n, OfLength(w, n),
           NEW x, IsJoin(x, h, w)
    PROVE  /\ x \in Seq(Nat) /\ OfLength(x, Plus(3, n))
           /\ \A i \in 1..3 : x[i] = h[i]
           /\ \A i \in 1..n : x[Plus(3, i)] = w[i]
<1>1. x \in Seq(Nat) /\ Laid(x, h, w, 3, n)
  BY JoinedOf
<1>. QED
  BY <1>1 DEF Laid

\* A byte, two bytes and the rest, taken apart again.
LEMMA HeadParts ==
    ASSUME NEW s \in Seq(Nat), OfLength(s, 1),
           NEW d \in Seq(Nat), OfLength(d, 2), NEW w \in Seq(Nat), NEW n, OfLength(w, n),
           NEW h, IsJoin(h, s, d), NEW x, IsJoin(x, h, w)
    PROVE  /\ x[1] = s[1] /\ SubSeq(x, 2, 3) = d /\ SubSeq(x, 4, Len(x)) = w
           /\ Len(x) = 3 + n
<1>1. /\ h \in Seq(Nat) /\ OfLength(h, Plus(1, 2))
      /\ \A i \in 1..1 : h[i] = s[i]
      /\ \A i \in 1..2 : h[Plus(1, i)] = d[i]
  <2>1. h \in Seq(Nat) /\ Laid(h, s, d, 1, 2)
    BY JoinedOf
  <2>. QED
    BY <2>1 DEF Laid
<1>2. OfLength(h, 3) /\ h[1] = s[1] /\ h[2] = d[1] /\ h[3] = d[2]
  <2>1. Plus(1, 2) = 3 /\ Plus(1, 1) = 2 /\ 1 \in 1..1 /\ 1 \in 1..2 /\ 2 \in 1..2
    BY DEF Plus
  <2>. QED
    BY <1>1, <2>1
<1>3. /\ x \in Seq(Nat) /\ OfLength(x, Plus(3, n))
      /\ \A i \in 1..3 : x[i] = h[i]
      /\ \A i \in 1..n : x[Plus(3, i)] = w[i]
  <2>1. h \in Seq(Nat) /\ OfLength(h, 3)
    BY <1>1, <1>2
  <2>. QED
    BY <2>1, BehindThree
<1>4. n \in Nat /\ Len(x) = 3 + n
  BY <1>3, LenProperties DEF OfLength, Plus
<1>5. x[1] = s[1] /\ x[2] = d[1] /\ x[3] = d[2]
  BY <1>2, <1>3
<1>6. SubSeq(x, 2, 3) = d
  <2>1. SubSeq(x, 1 + 1, 3) = [i \in 1..((3 - (1 + 1)) + 1) |-> x[(1 + 1 + i) - 1]]
    BY SubSeqIs
  <2>2. /\ 1 + 1 = 2 /\ (3 - (1 + 1)) + 1 = 2 /\ \A i \in 1..2 : (1 + 1 + i) - 1 = 1 + i
        /\ \A i \in 1..2 : i = 1 \/ i = 2
    OBVIOUS
  <2>3. SubSeq(x, 2, 3) = [i \in 1..2 |-> x[1 + i]]
    BY <2>1, <2>2
  <2>4. d = [i \in 1..2 |-> d[i]]
    BY LenProperties DEF OfLength
  <2>5. \A i \in 1..2 : x[1 + i] = d[i]
    BY <1>5, <2>2
  <2>. QED
    BY <2>3, <2>4, <2>5
<1>7. SubSeq(x, 4, 3 + n) = w
  <2>1. SubSeq(x, 3 + 1, 3 + n) = [i \in 1..(((3 + n) - (3 + 1)) + 1) |-> x[(3 + 1 + i) - 1]]
    BY <1>4, SubSeqIs
  <2>2. 3 + 1 = 4 /\ ((3 + n) - (3 + 1)) + 1 = n /\ \A i \in 1..n : (3 + 1 + i) - 1 = 3 + i
    BY <1>4
  <2>3. SubSeq(x, 4, 3 + n) = [i \in 1..n |-> x[3 + i]]
    BY <2>1, <2>2
  <2>4. w = [i \in 1..n |-> w[i]]
    BY LenProperties DEF OfLength
  <2>5. \A i \in 1..n : x[3 + i] = w[i]
    BY <1>3 DEF Plus
  <2>. QED
    BY <2>3, <2>4, <2>5
<1>. QED
  BY <1>4, <1>5, <1>6, <1>7

\* The first byte of a frame of a user message.
FirstByte(split) == IF split THEN 112 ELSE 96

LEMMA FlagsRead ==
    ASSUME NEW split \in BOOLEAN
    PROVE  /\ 32 * 3 + (IF split THEN 16 ELSE 0) = FirstByte(split)
           /\ FirstByte(split) \in Nat
           /\ FirstByte(split) \div 32 = 3
           /\ ((FirstByte(split) \div 16) % 2 = 1) = split
  BY SMT DEF FirstByte

LEMMA EncodedParts ==
    ASSUME NEW f, IsFrame(f)
    PROVE  LET x == EncodeFrame(f)
               w == WriteAll(FrameFields(3, f.split), f)
           IN  /\ x[1] = FirstByte(f.split) /\ SubSeq(x, 2, 3) = Big(8 * f.data, 2)
               /\ SubSeq(x, 4, Len(x)) = w
               /\ Len(x) = IF f.split THEN 20 ELSE 10
               /\ IsBody(w, f)
<1>1. PICK c, d, w : /\ c = FirstByte(f.split) /\ d = Big(8 * f.data, 2)
                     /\ w = WriteAll(FrameFields(3, f.split), f)
  OBVIOUS
<1>2. PICK s, h : s = <<c>> /\ h = s \o d
  OBVIOUS
<1>3. PICK x : x = EncodeFrame(f)
  OBVIOUS
<1>4. f.split \in BOOLEAN /\ f.reliability = 3 /\ f.data \in Nat /\ 8 * f.data < U16
  BY DEF IsFrame
<1>5. 8 * f.data \in Nat /\ (8 * f.data) % U16 = 8 * f.data
  BY <1>4, SMT DEF U16
<1>6. x = h \o w
  BY <1>1, <1>2, <1>3, <1>4, <1>5, FlagsRead DEF EncodeFrame, FrameHead
<1>7. c \in Nat
  BY <1>1, <1>4, FlagsRead
<1>8. s \in Seq(Nat) /\ OfLength(s, 1) /\ s[1] = c
  BY <1>2, <1>7, TupleOfOne
<1>9. d \in Seq(Nat) /\ OfLength(d, 2)
  BY <1>1, <1>5, BigIs DEF OfLength
<1>10. IsBody(w, f)
  BY <1>1, <1>4, WholeBody, SplitBody
<1>11. PICK n : n = IF f.split THEN 17 ELSE 7
  OBVIOUS
<1>12. w \in Seq(Nat) /\ OfLength(w, n)
  BY <1>10, <1>11, LenProperties DEF IsBody, OfLength
<1>13. IsJoin(h, s, d) /\ IsJoin(x, h, w)
  BY <1>2, <1>6 DEF IsJoin
<1>14. /\ x[1] = s[1] /\ SubSeq(x, 2, 3) = d /\ SubSeq(x, 4, Len(x)) = w
       /\ Len(x) = 3 + n
  <2>1. s \in Seq(Nat) /\ OfLength(s, 1)
    BY <1>8
  <2>. QED
    BY <1>9, <1>12, <1>13, <2>1, HeadParts
<1>15. 3 + n = IF f.split THEN 20 ELSE 10
  BY <1>4, <1>11
<1>. QED
  BY <1>1, <1>3, <1>8, <1>10, <1>14, <1>15

\* A frame of a user message comes out of its bytes as it went in.
LEMMA FrameRoundTrip ==
    ASSUME NEW f, IsFrame(f)
    PROVE  DecodeFrame(EncodeFrame(f)) = f
<1>1. PICK x, w : x = EncodeFrame(f) /\ w = WriteAll(FrameFields(3, f.split), f)
  OBVIOUS
<1>2. /\ x[1] = FirstByte(f.split) /\ SubSeq(x, 2, 3) = Big(8 * f.data, 2)
      /\ SubSeq(x, 4, Len(x)) = w /\ IsBody(w, f)
  BY <1>1, EncodedParts
<1>3. f.split \in BOOLEAN /\ f.data \in Nat /\ 8 * f.data < U16
  BY DEF IsFrame
<1>4. x[1] \div 32 = 3 /\ ((x[1] \div 16) % 2 = 1) = f.split
  BY <1>2, <1>3, FlagsRead
<1>5. FromBig(SubSeq(x, 2, 3)) \div 8 = f.data
  <2>1. PICK n \in Nat : n = 8 * f.data /\ n < U16
    BY <1>3
  <2>2. FromBig(Big(n, 2)) = n
    BY <2>1, TwoBytesSurvive
  <2>3. n \div 8 = f.data
    BY <1>3, <2>1
  <2>. QED
    BY <1>2, <2>1, <2>2, <2>3
<1>6. PICK found : found = ReadAll(FrameFields(3, f.split), w)
  OBVIOUS
<1>7. found.values = [name \in NamesOf(f.split) |-> f[name]]
  BY <1>2, <1>6 DEF IsBody, At
<1>8. DecodeFrame(x) =
        [name \in DOMAIN NewFrame(3, 0) |->
            CASE name = "split" -> f.split
              [] name = "data"  -> f.data
              [] name \in NamesOf(f.split) -> f[name]
              [] OTHER -> NewFrame(3, 0)[name]]
  <2>1. DOMAIN found.values = NamesOf(f.split) /\ \A name \in NamesOf(f.split) : found.values[name] = f[name]
    BY <1>7
  <2>2. DecodeFrame(x) =
        [name \in DOMAIN NewFrame(3, 0) |->
            CASE name = "split" -> f.split
              [] name = "data"  -> f.data
              [] name \in DOMAIN found.values -> found.values[name]
              [] OTHER -> NewFrame(3, 0)[name]]
    <3>1. PICK i, j, b, k : /\ i = x[1] \div 32 /\ j = ((x[1] \div 16) % 2 = 1)
                            /\ b = SubSeq(x, 4, Len(x)) /\ k = FromBig(SubSeq(x, 2, 3)) \div 8
      OBVIOUS
    <3>2. DecodeFrame(x) =
            [name \in DOMAIN NewFrame(i, 0) |->
                CASE name = "split" -> j
                  [] name = "data"  -> k
                  [] name \in DOMAIN ReadAll(FrameFields(i, j), b).values
                        -> ReadAll(FrameFields(i, j), b).values[name]
                  [] OTHER -> NewFrame(i, 0)[name]]
      BY <3>1 DEF DecodeFrame
    <3>3. i = 3 /\ j = f.split /\ b = w /\ k = f.data
      BY <1>2, <1>4, <1>5, <3>1
    <3>4. ReadAll(FrameFields(i, j), b) = found
      BY <1>6, <3>3
    <3>. QED
      BY <3>2, <3>3, <3>4
  <2>. QED
    BY <2>1, <2>2
<1>9. f = [name \in DOMAIN NewFrame(3, 0) |->
            CASE name = "split" -> f.split
              [] name = "data"  -> f.data
              [] name \in NamesOf(f.split) -> f[name]
              [] OTHER -> NewFrame(3, 0)[name]]
  BY <1>3 DEF IsFrame, NewFrame, NamesOf
<1>. QED
  BY <1>1, <1>8, <1>9

\* ... and takes the bytes that are counted for it.
LEMMA FrameCounted ==
    ASSUME NEW f, IsFrame(f)
    PROVE  Len(EncodeFrame(f)) + f.data = FrameLength(f)
<1>1. Len(EncodeFrame(f)) = IF f.split THEN 20 ELSE 10
  BY EncodedParts
<1>2. f.reliability = 3 /\ f.split \in BOOLEAN /\ f.data \in Nat
  BY DEF IsFrame
<1>3. Reliable(3) /\ ~ Sequenced(3) /\ SequencedOrOrdered(3)
  BY DEF Reliable, Sequenced, SequencedOrOrdered
<1>4. FrameLength(f) = 1 + 2 + 3 + 0 + 4 + (IF f.split THEN 10 ELSE 0) + f.data
  BY <1>2, <1>3 DEF FrameLength
<1>. QED
  BY <1>1, <1>2, <1>4
-----------------------------------------------------------------------------
(* Packets.                                                                 *)

U64s    == {v \in Seq(Nat) : Len(v) = 8}
U16s    == {v \in Nat : v < U16}
U8s     == 0..255
Ipv4s   == {a \in [ip : Seq(0..255), port : U16s] : Len(a.ip) = 4}
Strings == {v \in Seq(Nat) : Len(v) < U16}
Mtus    == {v \in Nat : v > Probe + 32}

LEMMA Fitted ==
    /\ \A v \in U64s : Fits("u64", v, 8)
    /\ \A v \in U16s : Fits("u16", v, 2)
    /\ \A v \in U8s : Fits("u8", v, 1)
    /\ \A v \in Ipv4s : Fits("address", v, 7)
    /\ Fits("magic", TRUE, 16)
<1>1. ASSUME NEW v \in Ipv4s PROVE Ipv4(v)
  BY DEF Ipv4s, U16s, Ipv4
<1>2. ASSUME NEW v \in U8s PROVE v \in Nat
  BY DEF U8s
<1>3. ASSUME NEW v \in U64s PROVE Fits("u64", v, 8)
  BY DEF U64s, Fits
<1>4. ASSUME NEW v \in U16s PROVE Fits("u16", v, 2)
  BY DEF U16s, Fits
<1>5. ASSUME NEW v \in U8s PROVE Fits("u8", v, 1)
  BY <1>2 DEF Fits
<1>6. ASSUME NEW v \in Ipv4s PROVE Fits("address", v, 7)
  BY <1>1 DEF Fits
<1>7. Fits("magic", TRUE, 16)
  BY DEF Fits
<1>. QED
  BY <1>3, <1>4, <1>5, <1>6, <1>7

\* How the reader of a packet should find its values: an mtu that was the length of
\* a padding is one less.
Meaning(format, values) ==
    [name \in DOMAIN values |->
        IF name = "mtu_size" /\ format = OpenConnectionRequest1
        THEN values[name] - 1 ELSE values[name]]

\* A packet comes out of its bytes as its reader should find it.
IsUnderstood(format, values) ==
    LET bytes == Encode(format, values)
    IN  /\ bytes \in Seq(Nat) /\ bytes[1] = format.id
        /\ Decode(format, bytes).ok
        /\ Decode(format, bytes).values = Meaning(format, values)

LEMMA BehindId ==
    ASSUME NEW id \in Nat, NEW w \in Seq(Nat), NEW x, IsJoin(x, <<id>>, w)
    PROVE  x \in Seq(Nat) /\ x[1] = id /\ Tail(x) = w
  BY DEF IsJoin

LEMMA PacketRoundTrip ==
    ASSUME NEW format, NEW values, NEW n, OfLength(format.fields, n), n > 0, format.id \in Nat,
           \A k \in 1..n : Fine(format.fields, values, Meaning(format, values), n, k),
           Names(format.fields, n) = DOMAIN values
    PROVE  IsUnderstood(format, values)
<1>1. PICK fields, m : fields = format.fields /\ m = Meaning(format, values)
  OBVIOUS
<1>2. PICK w : w = WriteAll(fields, values)
  OBVIOUS
<1>3. w \in Seq(Nat) /\ ReadAll(fields, w) = At(Len(w), Names(fields, n), m)
  BY <1>1, <1>2, RoundTrip
<1>4. PICK x : x = Encode(format, values)
  OBVIOUS
<1>5. x \in Seq(Nat) /\ x[1] = format.id /\ Tail(x) = w
  <2>1. IsJoin(x, <<format.id>>, w)
    BY <1>1, <1>2, <1>4 DEF Encode, IsJoin
  <2>. QED
    BY <1>3, <2>1, BehindId
<1>6. Decode(format, x) = At(Len(w), Names(fields, n), m)
  BY <1>1, <1>3, <1>5 DEF Decode
<1>7. [name \in DOMAIN values |-> m[name]] = m
  BY <1>1 DEF Meaning
<1>. QED
  BY <1>1, <1>4, <1>5, <1>6, <1>7 DEF IsUnderstood, At

LEMMA UnconnectedPingRead ==
    ASSUME NEW v \in [time : U64s, _magic : {TRUE}, guid : U64s]
    PROVE  IsUnderstood(UnconnectedPing, v)
<1>1. PICK fields, m : fields = UnconnectedPing.fields /\ m = Meaning(UnconnectedPing, v)
  OBVIOUS
<1>2. /\ OfLength(fields, 3) /\ UnconnectedPing.id \in Nat
      /\ fields[1][1] = "time" /\ fields[1][2] = "u64"
      /\ fields[2][1] = "_magic" /\ fields[2][2] = "magic"
      /\ fields[3][1] = "guid" /\ fields[3][2] = "u64"
  BY <1>1 DEF UnconnectedPing, OfLength
<1>3. /\ m["time"] = v["time"]
      /\ m["_magic"] = v["_magic"]
      /\ m["guid"] = v["guid"]
  BY <1>1 DEF Meaning
<1>4. /\ Fits("u64", v["time"], 8)
      /\ Fits("magic", v["_magic"], 16)
      /\ Fits("u64", v["guid"], 8)
  BY Fitted
<1>5. Fine(fields, v, m, 3, 1)
  BY <1>2, <1>3, <1>4 DEF Fine, Fitting
<1>6. Fine(fields, v, m, 3, 2)
  BY <1>2, <1>3, <1>4 DEF Fine, Fitting
<1>7. Fine(fields, v, m, 3, 3)
  BY <1>2, <1>3, <1>4 DEF Fine, Fitting
<1>8. \A k : k \in 1..3 <=> k = 1 \/ k = 2 \/ k = 3
  OBVIOUS
<1>9. \A k \in 1..3 : Fine(fields, v, m, 3, k)
  BY <1>5, <1>6, <1>7, <1>8
<1>10. {fields[k][1] : k \in 1..3} = {"time", "_magic", "guid"}
  BY <1>2, <1>8
<1>11. Names(fields, 3) = DOMAIN v
  BY <1>10 DEF Names
<1>. QED
  BY 3 > 0, <1>1, <1>2, <1>9, <1>11, PacketRoundTrip

LEMMA UnconnectedPongRead ==
    ASSUME NEW v \in [time : U64s, guid : U64s, _magic : {TRUE}, motd : Strings]
    PROVE  IsUnderstood(UnconnectedPong, v)
<1>1. PICK fields, m : fields = UnconnectedPong.fields /\ m = Meaning(UnconnectedPong, v)
  OBVIOUS
<1>2. /\ OfLength(fields, 4) /\ UnconnectedPong.id \in Nat
      /\ fields[1][1] = "time" /\ fields[1][2] = "u64"
      /\ fields[2][1] = "guid" /\ fields[2][2] = "u64"
      /\ fields[3][1] = "_magic" /\ fields[3][2] = "magic"
      /\ fields[4][1] = "motd" /\ fields[4][2] = "string"
  BY <1>1 DEF UnconnectedPong, OfLength
<1>3. /\ m["time"] = v["time"]
      /\ m["guid"] = v["guid"]
      /\ m["_magic"] = v["_magic"]
      /\ m["motd"] = v["motd"]
  BY <1>1 DEF Meaning
<1>4. /\ Fits("u64", v["time"], 8)
      /\ Fits("u64", v["guid"], 8)
      /\ Fits("magic", v["_magic"], 16)
      /\ v["motd"] \in Seq(Nat) /\ Len(v["motd"]) < U16
  BY Fitted DEF Strings
<1>5. Fine(fields, v, m, 4, 1)
  BY <1>2, <1>3, <1>4 DEF Fine, Fitting
<1>6. Fine(fields, v, m, 4, 2)
  BY <1>2, <1>3, <1>4 DEF Fine, Fitting
<1>7. Fine(fields, v, m, 4, 3)
  BY <1>2, <1>3, <1>4 DEF Fine, Fitting
<1>8. Fine(fields, v, m, 4, 4)
  BY <1>2, <1>3, <1>4 DEF Fine, StringField
<1>9. \A k : k \in 1..4 <=> k = 1 \/ k = 2 \/ k = 3 \/ k = 4
  OBVIOUS
<1>10. \A k \in 1..4 : Fine(fields, v, m, 4, k)
  BY <1>5, <1>6, <1>7, <1>8, <1>9
<1>11. {fields[k][1] : k \in 1..4} = {"time", "guid", "_magic", "motd"}
  BY <1>2, <1>9
<1>12. Names(fields, 4) = DOMAIN v
  BY <1>11 DEF Names
<1>. QED
  BY 4 > 0, <1>1, <1>2, <1>10, <1>12, PacketRoundTrip

LEMMA OpenConnectionRequest1Read ==
    ASSUME NEW v \in [_magic : {TRUE}, protocol_version : U8s, mtu_size : Mtus]
    PROVE  IsUnderstood(OpenConnectionRequest1, v)
<1>1. PICK fields, m : fields = OpenConnectionRequest1.fields /\ m = Meaning(OpenConnectionRequest1, v)
  OBVIOUS
<1>2. /\ OfLength(fields, 3) /\ OpenConnectionRequest1.id \in Nat
      /\ fields[1][1] = "_magic" /\ fields[1][2] = "magic"
      /\ fields[2][1] = "protocol_version" /\ fields[2][2] = "u8"
      /\ fields[3][1] = "mtu_size" /\ fields[3][2] = "padding"
  BY <1>1 DEF OpenConnectionRequest1, OfLength
<1>3. /\ m["_magic"] = v["_magic"]
      /\ m["protocol_version"] = v["protocol_version"]
      /\ m["mtu_size"] = v["mtu_size"] - 1
  BY <1>1 DEF Meaning
<1>4. /\ Fits("magic", v["_magic"], 16)
      /\ Fits("u8", v["protocol_version"], 1)
      /\ v["mtu_size"] \in Nat /\ v["mtu_size"] > Probe + 32
  BY Fitted DEF Mtus
<1>5. Fine(fields, v, m, 3, 1)
  BY <1>2, <1>3, <1>4 DEF Fine, Fitting
<1>6. Fine(fields, v, m, 3, 2)
  BY <1>2, <1>3, <1>4 DEF Fine, Fitting
<1>7. Fine(fields, v, m, 3, 3)
  BY <1>2, <1>3, <1>4 DEF Fine, PaddingField
<1>8. \A k : k \in 1..3 <=> k = 1 \/ k = 2 \/ k = 3
  OBVIOUS
<1>9. \A k \in 1..3 : Fine(fields, v, m, 3, k)
  BY <1>5, <1>6, <1>7, <1>8
<1>10. {fields[k][1] : k \in 1..3} = {"_magic", "protocol_version", "mtu_size"}
  BY <1>2, <1>8
<1>11. Names(fields, 3) = DOMAIN v
  BY <1>10 DEF Names
<1>. QED
  BY 3 > 0, <1>1, <1>2, <1>9, <1>11, PacketRoundTrip

LEMMA OpenConnectionReply1Read ==
    ASSUME NEW v \in [_magic : {TRUE}, guid : U64s, use_encryption : U8s, mtu_size : U16s]
    PROVE  IsUnderstood(OpenConnectionReply1, v)
<1>1. PICK fields, m : fields = OpenConnectionReply1.fields /\ m = Meaning(OpenConnectionReply1, v)
  OBVIOUS
<1>2. /\ OfLength(fields, 4) /\ OpenConnectionReply1.id \in Nat
      /\ fields[1][1] = "_magic" /\ fields[1][2] = "magic"
      /\ fields[2][1] = "guid" /\ fields[2][2] = "u64"
      /\ fields[3][1] = "use_encryption" /\ fields[3][2] = "u8"
      /\ fields[4][1] = "mtu_size" /\ fields[4][2] = "u16"
  BY <1>1 DEF OpenConnectionReply1, OfLength
<1>3. /\ m["_magic"] = v["_magic"]
      /\ m["guid"] = v["guid"]
      /\ m["use_encryption"] = v["use_encryption"]
      /\ m["mtu_size"] = v["mtu_size"]
  BY <1>1 DEF Meaning, OpenConnectionReply1, OpenConnectionRequest1
<1>4. /\ Fits("magic", v["_magic"], 16)
      /\ Fits("u64", v["guid"], 8)
      /\ Fits("u8", v["use_encryption"], 1)
      /\ Fits("u16", v["mtu_size"], 2)
  BY Fitted
<1>5. Fine(fields, v, m, 4, 1)
  BY <1>2, <1>3, <1>4 DEF Fine, Fitting
<1>6. Fine(fields, v, m, 4, 2)
  BY <1>2, <1>3, <1>4 DEF Fine, Fitting
<1>7. Fine(fields, v, m, 4, 3)
  BY <1>2, <1>3, <1>4 DEF Fine, Fitting
<1>8. Fine(fields, v, m, 4, 4)
  BY <1>2, <1>3, <1>4 DEF Fine, Fitting
<1>9. \A k : k \in 1..4 <=> k = 1 \/ k = 2 \/ k = 3 \/ k = 4
  OBVIOUS
<1>10. \A k \in 1..4 : Fine(fields, v, m, 4, k)
  BY <1>5, <1>6, <1>7, <1>8, <1>9
<1>11. {fields[k][1] : k \in 1..4} = {"_magic", "guid", "use_encryption", "mtu_size"}
  BY <1>2, <1>9
<1>12. Names(fields, 4) = DOMAIN v
  BY <1>11 DEF Names
<1>. QED
  BY 4 > 0, <1>1, <1>2, <1>10, <1>12, PacketRoundTrip

LEMMA OpenConnectionRequest2Read ==
    ASSUME NEW v \in [_magic : {TRUE}, address : Ipv4s, mtu : U16s, guid : U64s]
    PROVE  IsUnderstood(OpenConnectionRequest2, v)
<1>1. PICK fields, m : fields = OpenConnectionRequest2.fields /\ m = Meaning(OpenConnectionRequest2, v)
  OBVIOUS
<1>2. /\ OfLength(fields, 4) /\ OpenConnectionRequest2.id \in Nat
      /\ fields[1][1] = "_magic" /\ fields[1][2] = "magic"
      /\ fields[2][1] = "address" /\ fields[2][2] = "address"
      /\ fields[3][1] = "mtu" /\ fields[3][2] = "u16"
      /\ fields[4][1] = "guid" /\ fields[4][2] = "u64"
  BY <1>1 DEF OpenConnectionRequest2, OfLength
<1>3. /\ m["_magic"] = v["_magic"]
      /\ m["address"] = v["address"]
      /\ m["mtu"] = v["mtu"]
      /\ m["guid"] = v["guid"]
  BY <1>1 DEF Meaning
<1>4. /\ Fits("magic", v["_magic"], 16)
      /\ Fits("address", v["address"], 7)
      /\ Fits("u16", v["mtu"], 2)
      /\ Fits("u64", v["guid"], 8)
  BY Fitted
<1>5. Fine(fields, v, m, 4, 1)
  BY <1>2, <1>3, <1>4 DEF Fine, Fitting
<1>6. Fine(fields, v, m, 4, 2)
  BY <1>2, <1>3, <1>4 DEF Fine, Fitting
<1>7. Fine(fields, v, m, 4, 3)
  BY <1>2, <1>3, <1>4 DEF Fine, Fitting
<1>8. Fine(fields, v, m, 4, 4)
  BY <1>2, <1>3, <1>4 DEF Fine, Fitting
<1>9. \A k : k \in 1..4 <=> k = 1 \/ k = 2 \/ k = 3 \/ k = 4
  OBVIOUS
<1>10. \A k \in 1..4 : Fine(fields, v, m, 4, k)
  BY <1>5, <1>6, <1>7, <1>8, <1>9
<1>11. {fields[k][1] : k \in 1..4} = {"_magic", "address", "mtu", "guid"}
  BY <1>2, <1>9
<1>12. Names(fields, 4) = DOMAIN v
  BY <1>11 DEF Names
<1>. QED
  BY 4 > 0, <1>1, <1>2, <1>10, <1>12, PacketRoundTrip

LEMMA OpenConnectionReply2Read ==
    ASSUME NEW v \in [_magic : {TRUE}, guid : U64s, address : Ipv4s, mtu : U16s, encryption_enabled : U8s]
    PROVE  IsUnderstood(OpenConnectionReply2, v)
<1>1. PICK fields, m : fields = OpenConnectionReply2.fields /\ m = Meaning(OpenConnectionReply2, v)
  OBVIOUS
<1>2. /\ OfLength(fields, 5) /\ OpenConnectionReply2.id \in Nat
      /\ fields[1][1] = "_magic" /\ fields[1][2] = "magic"
      /\ fields[2][1] = "guid" /\ fields[2][2] = "u64"
      /\ fields[3][1] = "address" /\ fields[3][2] = "address"
      /\ fields[4][1] = "mtu" /\ fields[4][2] = "u16"
      /\ fields[5][1] = "encryption_enabled" /\ fields[5][2] = "u8"
  BY <1>1 DEF OpenConnectionReply2, OfLength
<1>3. /\ m["_magic"] = v["_magic"]
      /\ m["guid"] = v["guid"]
      /\ m["address"] = v["address"]
      /\ m["mtu"] = v["mtu"]
      /\ m["encryption_enabled"] = v["encryption_enabled"]
  BY <1>1 DEF Meaning
<1>4. /\ Fits("magic", v["_magic"], 16)
      /\ Fits("u64", v["guid"], 8)
      /\ Fits("address", v["address"], 7)
      /\ Fits("u16", v["mtu"], 2)
      /\ Fits("u8", v["encryption_enabled"], 1)
  BY Fitted
<1>5. Fine(fields, v, m, 5, 1)
  BY <1>2, <1>3, <1>4 DEF Fine, Fitting
<1>6. Fine(fields, v, m, 5, 2)
  BY <1>2, <1>3, <1>4 DEF Fine, Fitting
<1>7. Fine(fields, v, m, 5, 3)
  BY <1>2, <1>3, <1>4 DEF Fine, Fitting
<1>8. Fine(fields, v, m, 5, 4)
  BY <1>2, <1>3, <1>4 DEF Fine, Fitting
<1>9. Fine(fields, v, m, 5, 5)
  BY <1>2, <1>3, <1>4 DEF Fine, Fitting
<1>10. \A k : k \in 1..5 <=> k = 1 \/ k = 2 \/ k = 3 \/ k = 4 \/ k = 5
  OBVIOUS
<1>11. \A k \in 1..5 : Fine(fields, v, m, 5, k)
  BY <1>5, <1>6, <1>7, <1>8, <1>9, <1>10
<1>12. {fields[k][1] : k \in 1..5} = {"_magic", "guid", "address", "mtu", "encryption_enabled"}
  BY <1>2, <1>10
<1>13. Names(fields, 5) = DOMAIN v
  BY <1>12 DEF Names
<1>. QED
  BY 5 > 0, <1>1, <1>2, <1>11, <1>13, PacketRoundTrip

LEMMA AlreadyConnectedRead ==
    ASSUME NEW v \in [_magic : {TRUE}, guid : U64s]
    PROVE  IsUnderstood(AlreadyConnected, v)
<1>1. PICK fields, m : fields = AlreadyConnected.fields /\ m = Meaning(AlreadyConnected, v)
  OBVIOUS
<1>2. /\ OfLength(fields, 2) /\ AlreadyConnected.id \in Nat
      /\ fields[1][1] = "_magic" /\ fields[1][2] = "magic"
      /\ fields[2][1] = "guid" /\ fields[2][2] = "u64"
  BY <1>1 DEF AlreadyConnected, OfLength
<1>3. /\ m["_magic"] = v["_magic"]
      /\ m["guid"] = v["guid"]
  BY <1>1 DEF Meaning
<1>4. /\ Fits("magic", v["_magic"], 16)
      /\ Fits("u64", v["guid"], 8)
  BY Fitted
<1>5. Fine(fields, v, m, 2, 1)
  BY <1>2, <1>3, <1>4 DEF Fine, Fitting
<1>6. Fine(fields, v, m, 2, 2)
  BY <1>2, <1>3, <1>4 DEF Fine, Fitting
<1>7. \A k : k \in 1..2 <=> k = 1 \/ k = 2
  OBVIOUS
<1>8. \A k \in 1..2 : Fine(fields, v, m, 2, k)
  BY <1>5, <1>6, <1>7
<1>9. {fields[k][1] : k \in 1..2} = {"_magic", "guid"}
  BY <1>2, <1>7
<1>10. Names(fields, 2) = DOMAIN v
  BY <1>9 DEF Names
<1>. QED
  BY 2 > 0, <1>1, <1>2, <1>8, <1>10, PacketRoundTrip

LEMMA IncompatibleProtocolVersionRead ==
    ASSUME NEW v \in [server_protocol : U8s, _magic : {TRUE}, server_guid : U64s]
    PROVE  IsUnderstood(IncompatibleProtocolVersion, v)
<1>1. PICK fields, m : fields = IncompatibleProtocolVersion.fields /\ m = Meaning(IncompatibleProtocolVersion, v)
  OBVIOUS
<1>2. /\ OfLength(fields, 3) /\ IncompatibleProtocolVersion.id \in Nat
      /\ fields[1][1] = "server_protocol" /\ fields[1][2] = "u8"
      /\ fields[2][1] = "_magic" /\ fields[2][2] = "magic"
      /\ fields[3][1] = "server_guid" /\ fields[3][2] = "u64"
  BY <1>1 DEF IncompatibleProtocolVersion, OfLength
<1>3. /\ m["server_protocol"] = v["server_protocol"]
      /\ m["_magic"] = v["_magic"]
      /\ m["server_guid"] = v["server_guid"]
  BY <1>1 DEF Meaning
<1>4. /\ Fits("u8", v["server_protocol"], 1)
      /\ Fits("magic", v["_magic"], 16)
      /\ Fits("u64", v["server_guid"], 8)
  BY Fitted
<1>5. Fine(fields, v, m, 3, 1)
  BY <1>2, <1>3, <1>4 DEF Fine, Fitting
<1>6. Fine(fields, v, m, 3, 2)
  BY <1>2, <1>3, <1>4 DEF Fine, Fitting
<1>7. Fine(fields, v, m, 3, 3)
  BY <1>2, <1>3, <1>4 DEF Fine, Fitting
<1>8. \A k : k \in 1..3 <=> k = 1 \/ k = 2 \/ k = 3
  OBVIOUS
<1>9. \A k \in 1..3 : Fine(fields, v, m, 3, k)
  BY <1>5, <1>6, <1>7, <1>8
<1>10. {fields[k][1] : k \in 1..3} = {"server_protocol", "_magic", "server_guid"}
  BY <1>2, <1>8
<1>11. Names(fields, 3) = DOMAIN v
  BY <1>10 DEF Names
<1>. QED
  BY 3 > 0, <1>1, <1>2, <1>9, <1>11, PacketRoundTrip

LEMMA ConnectionRequestRead ==
    ASSUME NEW v \in [guid : U64s, time : U64s, use_encryption : U8s]
    PROVE  IsUnderstood(ConnectionRequest, v)
<1>1. PICK fields, m : fields = ConnectionRequest.fields /\ m = Meaning(ConnectionRequest, v)
  OBVIOUS
<1>2. /\ OfLength(fields, 3) /\ ConnectionRequest.id \in Nat
      /\ fields[1][1] = "guid" /\ fields[1][2] = "u64"
      /\ fields[2][1] = "time" /\ fields[2][2] = "u64"
      /\ fields[3][1] = "use_encryption" /\ fields[3][2] = "u8"
  BY <1>1 DEF ConnectionRequest, OfLength
<1>3. /\ m["guid"] = v["guid"]
      /\ m["time"] = v["time"]
      /\ m["use_encryption"] = v["use_encryption"]
  BY <1>1 DEF Meaning
<1>4. /\ Fits("u64", v["guid"], 8)
      /\ Fits("u64", v["time"], 8)
      /\ Fits("u8", v["use_encryption"], 1)
  BY Fitted
<1>5. Fine(fields, v, m, 3, 1)
  BY <1>2, <1>3, <1>4 DEF Fine, Fitting
<1>6. Fine(fields, v, m, 3, 2)
  BY <1>2, <1>3, <1>4 DEF Fine, Fitting
<1>7. Fine(fields, v, m, 3, 3)
  BY <1>2, <1>3, <1>4 DEF Fine, Fitting
<1>8. \A k : k \in 1..3 <=> k = 1 \/ k = 2 \/ k = 3
  OBVIOUS
<1>9. \A k \in 1..3 : Fine(fields, v, m, 3, k)
  BY <1>5, <1>6, <1>7, <1>8
<1>10. {fields[k][1] : k \in 1..3} = {"guid", "time", "use_encryption"}
  BY <1>2, <1>8
<1>11. Names(fields, 3) = DOMAIN v
  BY <1>10 DEF Names
<1>. QED
  BY 3 > 0, <1>1, <1>2, <1>9, <1>11, PacketRoundTrip

LEMMA ConnectionRequestAcceptedRead ==
    ASSUME NEW v \in [client_address : Ipv4s, system_index : U16s, request_timestamp : U64s, accepted_timestamp : U64s]
    PROVE  IsUnderstood(ConnectionRequestAccepted, v)
<1>1. PICK fields, m : fields = ConnectionRequestAccepted.fields /\ m = Meaning(ConnectionRequestAccepted, v)
  OBVIOUS
<1>2. /\ OfLength(fields, 5) /\ ConnectionRequestAccepted.id \in Nat
      /\ fields[1][1] = "client_address" /\ fields[1][2] = "address"
      /\ fields[2][1] = "system_index" /\ fields[2][2] = "u16"
      /\ fields[3][1] = "_" /\ fields[3][2] = "sixes"
      /\ fields[4][1] = "request_timestamp" /\ fields[4][2] = "u64"
      /\ fields[5][1] = "accepted_timestamp" /\ fields[5][2] = "u64"
  <2>1. PICK u : u = "_"
    OBVIOUS
  <2>2. fields = <<<<"client_address", "address">>, <<"system_index", "u16">>, <<u, "sixes">>, <<"request_timestamp", "u64">>, <<"accepted_timestamp", "u64">>>>
    BY <1>1, <2>1, Zenon DEF ConnectionRequestAccepted
  <2>3. /\ OfLength(fields, 5)
        /\ fields[1][1] = "client_address" /\ fields[1][2] = "address"
        /\ fields[2][1] = "system_index" /\ fields[2][2] = "u16"
        /\ fields[3][1] = u /\ fields[3][2] = "sixes"
        /\ fields[4][1] = "request_timestamp" /\ fields[4][2] = "u64"
        /\ fields[5][1] = "accepted_timestamp" /\ fields[5][2] = "u64"
    BY <2>2 DEF OfLength
  <2>4. ConnectionRequestAccepted.id = 16
    BY Zenon DEF ConnectionRequestAccepted
  <2>5. 16 \in Nat
    OBVIOUS
  <2>. QED
    BY <2>1, <2>3, <2>4, <2>5, Zenon
<1>3. /\ m["client_address"] = v["client_address"]
      /\ m["system_index"] = v["system_index"]
      /\ m["request_timestamp"] = v["request_timestamp"]
      /\ m["accepted_timestamp"] = v["accepted_timestamp"]
  BY <1>1 DEF Meaning
<1>4. /\ Fits("address", v["client_address"], 7)
      /\ Fits("u16", v["system_index"], 2)
      /\ Fits("u64", v["request_timestamp"], 8)
      /\ Fits("u64", v["accepted_timestamp"], 8)
  BY Fitted
<1>5. Fine(fields, v, m, 5, 1)
  BY <1>2, <1>3, <1>4 DEF Fine, Fitting
<1>6. Fine(fields, v, m, 5, 2)
  BY <1>2, <1>3, <1>4 DEF Fine, Fitting
<1>7. Fine(fields, v, m, 5, 3)
  <2>1. 3 + 2 = 5 /\ 3 + 1 = 4
    OBVIOUS
  <2>2. SixesField(fields, v, 5, 3)
    BY <1>2, <1>4, <2>1 DEF SixesField
  <2>. QED
    BY <2>2 DEF Fine
<1>8. Fine(fields, v, m, 5, 4)
  BY <1>2, <1>3, <1>4 DEF Fine, Fitting
<1>9. Fine(fields, v, m, 5, 5)
  BY <1>2, <1>3, <1>4 DEF Fine, Fitting
<1>10. \A k : k \in 1..5 <=> k = 1 \/ k = 2 \/ k = 3 \/ k = 4 \/ k = 5
  OBVIOUS
<1>11. \A k \in 1..5 : Fine(fields, v, m, 5, k)
  BY <1>5, <1>6, <1>7, <1>8, <1>9, <1>10
<1>12. {fields[k][1] : k \in 1..5} = {"client_address", "system_index", "_", "request_timestamp", "accepted_timestamp"}
  BY <1>2, <1>10
<1>13. Names(fields, 5) = DOMAIN v
  BY <1>12 DEF Names
<1>. QED
  BY 5 > 0, <1>1, <1>2, <1>11, <1>13, PacketRoundTrip

LEMMA NewIncomingConnectionRead ==
    ASSUME NEW v \in [server_address : Ipv4s, request_timestamp : U64s, accepted_timestamp : U64s]
    PROVE  IsUnderstood(NewIncomingConnection, v)
<1>1. PICK fields, m : fields = NewIncomingConnection.fields /\ m = Meaning(NewIncomingConnection, v)
  OBVIOUS
<1>2. /\ OfLength(fields, 4) /\ NewIncomingConnection.id \in Nat
      /\ fields[1][1] = "server_address" /\ fields[1][2] = "address"
      /\ fields[2][1] = "_" /\ fields[2][2] = "sixes"
      /\ fields[3][1] = "request_timestamp" /\ fields[3][2] = "u64"
      /\ fields[4][1] = "accepted_timestamp" /\ fields[4][2] = "u64"
  <2>1. PICK u : u = "_"
    OBVIOUS
  <2>2. fields = <<<<"server_address", "address">>, <<u, "sixes">>, <<"request_timestamp", "u64">>, <<"accepted_timestamp", "u64">>>>
    BY <1>1, <2>1, Zenon DEF NewIncomingConnection
  <2>3. /\ OfLength(fields, 4)
        /\ fields[1][1] = "server_address" /\ fields[1][2] = "address"
        /\ fields[2][1] = u /\ fields[2][2] = "sixes"
        /\ fields[3][1] = "request_timestamp" /\ fields[3][2] = "u64"
        /\ fields[4][1] = "accepted_timestamp" /\ fields[4][2] = "u64"
    BY <2>2 DEF OfLength
  <2>4. NewIncomingConnection.id = 19
    BY Zenon DEF NewIncomingConnection
  <2>5. 19 \in Nat
    OBVIOUS
  <2>. QED
    BY <2>1, <2>3, <2>4, <2>5, Zenon
<1>3. /\ m["server_address"] = v["server_address"]
      /\ m["request_timestamp"] = v["request_timestamp"]
      /\ m["accepted_timestamp"] = v["accepted_timestamp"]
  BY <1>1 DEF Meaning
<1>4. /\ Fits("address", v["server_address"], 7)
      /\ Fits("u64", v["request_timestamp"], 8)
      /\ Fits("u64", v["accepted_timestamp"], 8)
  BY Fitted
<1>5. Fine(fields, v, m, 4, 1)
  BY <1>2, <1>3, <1>4 DEF Fine, Fitting
<1>6. Fine(fields, v, m, 4, 2)
  <2>1. 2 + 2 = 4 /\ 2 + 1 = 3
    OBVIOUS
  <2>2. SixesField(fields, v, 4, 2)
    BY <1>2, <1>4, <2>1 DEF SixesField
  <2>. QED
    BY <2>2 DEF Fine
<1>7. Fine(fields, v, m, 4, 3)
  BY <1>2, <1>3, <1>4 DEF Fine, Fitting
<1>8. Fine(fields, v, m, 4, 4)
  BY <1>2, <1>3, <1>4 DEF Fine, Fitting
<1>9. \A k : k \in 1..4 <=> k = 1 \/ k = 2 \/ k = 3 \/ k = 4
  OBVIOUS
<1>10. \A k \in 1..4 : Fine(fields, v, m, 4, k)
  BY <1>5, <1>6, <1>7, <1>8, <1>9
<1>11. {fields[k][1] : k \in 1..4} = {"server_address", "_", "request_timestamp", "accepted_timestamp"}
  BY <1>2, <1>9
<1>12. Names(fields, 4) = DOMAIN v
  BY <1>11 DEF Names
<1>. QED
  BY 4 > 0, <1>1, <1>2, <1>10, <1>12, PacketRoundTrip

LEMMA ConnectedPingRead ==
    ASSUME NEW v \in [client_timestamp : U64s]
    PROVE  IsUnderstood(ConnectedPing, v)
<1>1. PICK fields, m : fields = ConnectedPing.fields /\ m = Meaning(ConnectedPing, v)
  OBVIOUS
<1>2. /\ OfLength(fields, 1) /\ ConnectedPing.id \in Nat
      /\ fields[1][1] = "client_timestamp" /\ fields[1][2] = "u64"
  BY <1>1 DEF ConnectedPing, OfLength
<1>3. /\ m["client_timestamp"] = v["client_timestamp"]
  BY <1>1 DEF Meaning
<1>4. /\ Fits("u64", v["client_timestamp"], 8)
  BY Fitted
<1>5. Fine(fields, v, m, 1, 1)
  BY <1>2, <1>3, <1>4 DEF Fine, Fitting
<1>6. \A k : k \in 1..1 <=> k = 1
  OBVIOUS
<1>7. \A k \in 1..1 : Fine(fields, v, m, 1, k)
  BY <1>5, <1>6
<1>8. {fields[k][1] : k \in 1..1} = {"client_timestamp"}
  BY <1>2, <1>6
<1>9. Names(fields, 1) = DOMAIN v
  BY <1>8 DEF Names
<1>. QED
  BY 1 > 0, <1>1, <1>2, <1>7, <1>9, PacketRoundTrip

LEMMA ConnectedPongRead ==
    ASSUME NEW v \in [client_timestamp : U64s, server_timestamp : U64s]
    PROVE  IsUnderstood(ConnectedPong, v)
<1>1. PICK fields, m : fields = ConnectedPong.fields /\ m = Meaning(ConnectedPong, v)
  OBVIOUS
<1>2. /\ OfLength(fields, 2) /\ ConnectedPong.id \in Nat
      /\ fields[1][1] = "client_timestamp" /\ fields[1][2] = "u64"
      /\ fields[2][1] = "server_timestamp" /\ fields[2][2] = "u64"
  BY <1>1 DEF ConnectedPong, OfLength
<1>3. /\ m["client_timestamp"] = v["client_timestamp"]
      /\ m["server_timestamp"] = v["server_timestamp"]
  BY <1>1 DEF Meaning
<1>4. /\ Fits("u64", v["client_timestamp"], 8)
      /\ Fits("u64", v["server_timestamp"], 8)
  BY Fitted
<1>5. Fine(fields, v, m, 2, 1)
  BY <1>2, <1>3, <1>4 DEF Fine, Fitting
<1>6. Fine(fields, v, m, 2, 2)
  BY <1>2, <1>3, <1>4 DEF Fine, Fitting
<1>7. \A k : k \in 1..2 <=> k = 1 \/ k = 2
  OBVIOUS
<1>8. \A k \in 1..2 : Fine(fields, v, m, 2, k)
  BY <1>5, <1>6, <1>7
<1>9. {fields[k][1] : k \in 1..2} = {"client_timestamp", "server_timestamp"}
  BY <1>2, <1>7
<1>10. Names(fields, 2) = DOMAIN v
  BY <1>9 DEF Names
<1>. QED
  BY 2 > 0, <1>1, <1>2, <1>8, <1>10, PacketRoundTrip
-----------------------------------------------------------------------------
(* The packets of a negotiation.                                            *)

\* The values a packet is written with ...
UnconnectedPingValues == [time : U64s, _magic : {TRUE}, guid : U64s]
UnconnectedPongValues == [time : U64s, guid : U64s, _magic : {TRUE}, motd : Strings]
OpenConnectionRequest1Values == [_magic : {TRUE}, protocol_version : U8s, mtu_size : Mtus]
OpenConnectionReply1Values ==
    [_magic : {TRUE}, guid : U64s, use_encryption : U8s, mtu_size : U16s]
OpenConnectionRequest2Values ==
    [_magic : {TRUE}, address : Ipv4s, mtu : U16s, guid : U64s]
OpenConnectionReply2Values ==
    [_magic : {TRUE}, guid : U64s, address : Ipv4s, mtu : U16s, encryption_enabled : U8s]
AlreadyConnectedValues == [_magic : {TRUE}, guid : U64s]
IncompatibleProtocolVersionValues ==
    [server_protocol : U8s, _magic : {TRUE}, server_guid : U64s]
ConnectionRequestValues == [guid : U64s, time : U64s, use_encryption : U8s]
ConnectionRequestAcceptedValues ==
    [client_address : Ipv4s, system_index : U16s,
     request_timestamp : U64s, accepted_timestamp : U64s]
NewIncomingConnectionValues ==
    [server_address : Ipv4s, request_timestamp : U64s, accepted_timestamp : U64s]
ConnectedPingValues == [client_timestamp : U64s]
ConnectedPongValues == [client_timestamp : U64s, server_timestamp : U64s]

\* ... by its id ...
PacketValues(id) ==
    CASE id = 1  -> UnconnectedPingValues
      [] id = 28 -> UnconnectedPongValues
      [] id = 5  -> OpenConnectionRequest1Values
      [] id = 6  -> OpenConnectionReply1Values
      [] id = 7  -> OpenConnectionRequest2Values
      [] id = 8  -> OpenConnectionReply2Values
      [] id = 18 -> AlreadyConnectedValues
      [] id = 25 -> IncompatibleProtocolVersionValues
      [] id = 9  -> ConnectionRequestValues
      [] id = 16 -> ConnectionRequestAcceptedValues
      [] id = 19 -> NewIncomingConnectionValues
      [] id = 0  -> ConnectedPingValues
      [] id = 3  -> ConnectedPongValues

\* ... which tells its format.
FormatOf(id) ==
    CASE id = 1  -> UnconnectedPing
      [] id = 28 -> UnconnectedPong
      [] id = 5  -> OpenConnectionRequest1
      [] id = 6  -> OpenConnectionReply1
      [] id = 7  -> OpenConnectionRequest2
      [] id = 8  -> OpenConnectionReply2
      [] id = 18 -> AlreadyConnected
      [] id = 25 -> IncompatibleProtocolVersion
      [] id = 9  -> ConnectionRequest
      [] id = 16 -> ConnectionRequestAccepted
      [] id = 19 -> NewIncomingConnection
      [] id = 0  -> ConnectedPing
      [] id = 3  -> ConnectedPong

Ids == {1, 28, 5, 6, 7, 8, 18, 25, 9, 16, 19, 0, 3}

LEMMA IdsAre ==
    /\ UnconnectedPing.id = 1 /\ UnconnectedPong.id = 28
    /\ OpenConnectionRequest1.id = 5 /\ OpenConnectionReply1.id = 6
    /\ OpenConnectionRequest2.id = 7 /\ OpenConnectionReply2.id = 8
    /\ AlreadyConnected.id = 18 /\ IncompatibleProtocolVersion.id = 25
    /\ ConnectionRequest.id = 9 /\ ConnectionRequestAccepted.id = 16
    /\ NewIncomingConnection.id = 19 /\ ConnectedPing.id = 0 /\ ConnectedPong.id = 3
<1>1. UnconnectedPing.id = 1 /\ UnconnectedPong.id = 28
  BY DEF UnconnectedPing, UnconnectedPong
<1>2. OpenConnectionRequest1.id = 5 /\ OpenConnectionReply1.id = 6
  BY DEF OpenConnectionRequest1, OpenConnectionReply1
<1>3. OpenConnectionRequest2.id = 7 /\ OpenConnectionReply2.id = 8
  BY DEF OpenConnectionRequest2, OpenConnectionReply2
<1>4. AlreadyConnected.id = 18 /\ IncompatibleProtocolVersion.id = 25
  BY DEF AlreadyConnected, IncompatibleProtocolVersion
<1>5. ConnectionRequest.id = 9 /\ ConnectedPing.id = 0 /\ ConnectedPong.id = 3
  BY DEF ConnectionRequest, ConnectedPing, ConnectedPong
<1>6. ConnectionRequestAccepted.id = 16
  BY Zenon DEF ConnectionRequestAccepted
<1>7. NewIncomingConnection.id = 19
  BY Zenon DEF NewIncomingConnection
<1>. QED
  BY <1>1, <1>2, <1>3, <1>4, <1>5, <1>6, <1>7

LEMMA FormatsAre ==
    /\ FormatOf(1) = UnconnectedPing /\ FormatOf(28) = UnconnectedPong
    /\ FormatOf(5) = OpenConnectionRequest1 /\ FormatOf(6) = OpenConnectionReply1
    /\ FormatOf(7) = OpenConnectionRequest2 /\ FormatOf(8) = OpenConnectionReply2
    /\ FormatOf(18) = AlreadyConnected /\ FormatOf(25) = IncompatibleProtocolVersion
    /\ FormatOf(9) = ConnectionRequest /\ FormatOf(16) = ConnectionRequestAccepted
    /\ FormatOf(19) = NewIncomingConnection /\ FormatOf(0) = ConnectedPing
    /\ FormatOf(3) = ConnectedPong
  BY DEF FormatOf

LEMMA ValuesAre ==
    /\ PacketValues(1) = UnconnectedPingValues
    /\ PacketValues(28) = UnconnectedPongValues
    /\ PacketValues(5) = OpenConnectionRequest1Values
    /\ PacketValues(6) = OpenConnectionReply1Values
    /\ PacketValues(7) = OpenConnectionRequest2Values
    /\ PacketValues(8) = OpenConnectionReply2Values
    /\ PacketValues(18) = AlreadyConnectedValues
    /\ PacketValues(25) = IncompatibleProtocolVersionValues
    /\ PacketValues(9) = ConnectionRequestValues
    /\ PacketValues(16) = ConnectionRequestAcceptedValues
    /\ PacketValues(19) = NewIncomingConnectionValues
    /\ PacketValues(0) = ConnectedPingValues
    /\ PacketValues(3) = ConnectedPongValues
  BY DEF PacketValues

\* Every packet of these values is read as it should be.
LEMMA AllUnderstood ==
    ASSUME NEW id \in Ids, NEW v \in PacketValues(id)
    PROVE  FormatOf(id).id = id /\ IsUnderstood(FormatOf(id), v)
<1>1. CASE id = 1
  <2>1. v \in UnconnectedPingValues
    BY <1>1, ValuesAre
  <2>2. IsUnderstood(UnconnectedPing, v)
    BY <2>1, UnconnectedPingRead DEF UnconnectedPingValues
  <2>. QED
    BY <1>1, <2>2, IdsAre, FormatsAre
<1>2. CASE id = 28
  <2>1. v \in UnconnectedPongValues
    BY <1>2, ValuesAre
  <2>2. IsUnderstood(UnconnectedPong, v)
    BY <2>1, UnconnectedPongRead DEF UnconnectedPongValues
  <2>. QED
    BY <1>2, <2>2, IdsAre, FormatsAre
<1>3. CASE id = 5
  <2>1. v \in OpenConnectionRequest1Values
    BY <1>3, ValuesAre
  <2>2. IsUnderstood(OpenConnectionRequest1, v)
    BY <2>1, OpenConnectionRequest1Read DEF OpenConnectionRequest1Values
  <2>. QED
    BY <1>3, <2>2, IdsAre, FormatsAre
<1>4. CASE id = 6
  <2>1. v \in OpenConnectionReply1Values
    BY <1>4, ValuesAre
  <2>2. IsUnderstood(OpenConnectionReply1, v)
    BY <2>1, OpenConnectionReply1Read DEF OpenConnectionReply1Values
  <2>. QED
    BY <1>4, <2>2, IdsAre, FormatsAre
<1>5. CASE id = 7
  <2>1. v \in OpenConnectionRequest2Values
    BY <1>5, ValuesAre
  <2>2. IsUnderstood(OpenConnectionRequest2, v)
    BY <2>1, OpenConnectionRequest2Read DEF OpenConnectionRequest2Values
  <2>. QED
    BY <1>5, <2>2, IdsAre, FormatsAre
<1>6. CASE id = 8
  <2>1. v \in OpenConnectionReply2Values
    BY <1>6, ValuesAre
  <2>2. IsUnderstood(OpenConnectionReply2, v)
    BY <2>1, OpenConnectionReply2Read DEF OpenConnectionReply2Values
  <2>. QED
    BY <1>6, <2>2, IdsAre, FormatsAre
<1>7. CASE id = 18
  <2>1. v \in AlreadyConnectedValues
    BY <1>7, ValuesAre
  <2>2. IsUnderstood(AlreadyConnected, v)
    BY <2>1, AlreadyConnectedRead DEF AlreadyConnectedValues
  <2>. QED
    BY <1>7, <2>2, IdsAre, FormatsAre
<1>8. CASE id = 25
  <2>1. v \in IncompatibleProtocolVersionValues
    BY <1>8, ValuesAre
  <2>2. IsUnderstood(IncompatibleProtocolVersion, v)
    BY <2>1, IncompatibleProtocolVersionRead DEF IncompatibleProtocolVersionValues
  <2>. QED
    BY <1>8, <2>2, IdsAre, FormatsAre
<1>9. CASE id = 9
  <2>1. v \in ConnectionRequestValues
    BY <1>9, ValuesAre
  <2>2. IsUnderstood(ConnectionRequest, v)
    BY <2>1, ConnectionRequestRead DEF ConnectionRequestValues
  <2>. QED
    BY <1>9, <2>2, IdsAre, FormatsAre
<1>10. CASE id = 16
  <2>1. v \in ConnectionRequestAcceptedValues
    BY <1>10, ValuesAre
  <2>2. IsUnderstood(ConnectionRequestAccepted, v)
    BY <2>1, ConnectionRequestAcceptedRead DEF ConnectionRequestAcceptedValues
  <2>. QED
    BY <1>10, <2>2, IdsAre, FormatsAre
<1>11. CASE id = 19
  <2>1. v \in NewIncomingConnectionValues
    BY <1>11, ValuesAre
  <2>2. IsUnderstood(NewIncomingConnection, v)
    BY <2>1, NewIncomingConnectionRead DEF NewIncomingConnectionValues
  <2>. QED
    BY <1>11, <2>2, IdsAre, FormatsAre
<1>12. CASE id = 0
  <2>1. v \in ConnectedPingValues
    BY <1>12, ValuesAre
  <2>2. IsUnderstood(ConnectedPing, v)
    BY <2>1, ConnectedPingRead DEF ConnectedPingValues
  <2>. QED
    BY <1>12, <2>2, IdsAre, FormatsAre
<1>13. CASE id = 3
  <2>1. v \in ConnectedPongValues
    BY <1>13, ValuesAre
  <2>2. IsUnderstood(ConnectedPong, v)
    BY <2>1, ConnectedPongRead DEF ConnectedPongValues
  <2>. QED
    BY <1>13, <2>2, IdsAre, FormatsAre
<1>. QED
  BY <1>1, <1>2, <1>3, <1>4, <1>5, <1>6, <1>7, <1>8, <1>9, <1>10, <1>11, <1>12, <1>13 DEF Ids
-----------------------------------------------------------------------------
(* The invariant of a negotiation.                                          *)

OverIpv4 == IsIpv4(ClientAddress) /\ IsIpv4(ServerAddress)

Ends == {"to_server", "to_client"}

\* the mtu of a probe, and what one is read as whose probe the path let through
Probed    == {1496, 1204, 584}
Agreed(m) == m \in {1495, 1203, 583} /\ m - 3 <= path

Sessions == Agreed(mtus.server) /\ mtus.client = mtus.server + 96

\* The mtus in a packet are those that were probed, and later the session's.
MtuHolds(id, v) ==
    /\ id = 5 => v.mtu_size \in Probed
    /\ id = 6 => Agreed(v.mtu_size)
    /\ id = 7 => Agreed(v.mtu)
    /\ id = 8 => Agreed(v.mtu) /\ mtus.server = v.mtu
    /\ id \in {9, 16, 19, 0, 3} => Sessions

Carries(id, v) ==
    /\ packet = [format |-> FormatOf(id), values |-> v]
    /\ datagram = Encode(FormatOf(id), v)
    /\ MtuHolds(id, v)

NIInv ==
    /\ path \in Nat /\ version \in 0..255 /\ count \in 0..13
    /\ mtus \in [client : Nat, server : Nat]
    /\ pc \in Ends \cup {"asking", "failed", "called", "loop", "done"}
    /\ pc \in Ends => \E id \in Ids : \E v \in PacketValues(id) : Carries(id, v)
    /\ pc \in {"called", "loop", "done"} => IInv /\ Sessions /\ mtu \in {mtus.client, mtus.server}

LEMMA IdOfFormat == ASSUME NEW id \in Ids PROVE FormatOf(id).id = id
  BY IdsAre, FormatsAre DEF Ids

\* Over IPv4, the headers in front of a datagram.
LEMMA OverheadIs == ASSUME OverIpv4 PROVE Overhead = 28
  BY DEF OverIpv4, Overhead

\* A packet that arrives is the one that was sent, and read as it was written.
LEMMA Arrived ==
    ASSUME OverIpv4, NIInv, NEW id \in Ids, NEW to \in Ends, Arrives(FormatOf(id), to)
    PROVE  \E v \in PacketValues(id) :
              /\ Carries(id, v)
              /\ Heard(FormatOf(id)) = Meaning(FormatOf(id), v)
              /\ Len(Encode(FormatOf(id), v)) + 28 <= path
<1>1. pc = to /\ datagram[1] = FormatOf(id).id /\ Len(datagram) + 28 <= path
  BY OverheadIs DEF Arrives
<1>2. PICK j \in Ids : \E v \in PacketValues(j) : Carries(j, v)
  BY <1>1 DEF NIInv
<1>3. PICK v \in PacketValues(j) : Carries(j, v)
  BY <1>2
<1>4. FormatOf(j).id = j /\ IsUnderstood(FormatOf(j), v)
  BY AllUnderstood
<1>5. datagram = Encode(FormatOf(j), v)
  BY <1>3 DEF Carries
<1>6. datagram[1] = FormatOf(j).id
      /\ Decode(FormatOf(j), datagram).values = Meaning(FormatOf(j), v)
  BY <1>4, <1>5 DEF IsUnderstood
<1>7. j = id
  <2>1. FormatOf(id).id = id
    BY IdOfFormat
  <2>. QED
    BY <1>1, <1>4, <1>6, <2>1
<1>8. Heard(FormatOf(id)) = Meaning(FormatOf(id), v)
  BY <1>6, <1>7 DEF Heard
<1>9. Len(Encode(FormatOf(id), v)) + 28 <= path
  BY <1>1, <1>5, <1>7
<1>. QED
  BY <1>3, <1>7, <1>8, <1>9

\* Meaning leaves the fields as they are, but for the mtu of a probe.
LEMMA MeaningKeeps ==
    ASSUME NEW id \in Ids, NEW v, NEW name \in DOMAIN v, name # "mtu_size" \/ id # 5
    PROVE  Meaning(FormatOf(id), v)[name] = v[name]
<1>1. id # 5 => FormatOf(id) # OpenConnectionRequest1
  <2>1. FormatOf(id).id = id /\ OpenConnectionRequest1.id = 5
    BY IdOfFormat, IdsAre
  <2>. QED
    BY <2>1
<1>. QED
  BY <1>1 DEF Meaning

\* A packet that is sent well.
LEMMA Sent ==
    ASSUME NIInv, NEW id \in Ids, NEW v \in PacketValues(id), NEW to \in Ends,
           Send(FormatOf(id), v, to), UNCHANGED <<path, version>>, count' \in 0..13,
           mtus' \in [client : Nat, server : Nat], MtuHolds(id, v)'
    PROVE  NIInv'
<1>1. Carries(id, v)'
  BY DEF Carries, Send
<1>2. pc' = to /\ to \notin {"called", "loop", "done"}
  BY DEF Send, Ends
<1>3. path' \in Nat /\ version' \in 0..255
  BY DEF NIInv
<1>4. pc' \in Ends \cup {"asking", "failed", "called", "loop", "done"}
  BY <1>2
<1>5. pc' \in Ends => \E i \in Ids : \E w \in PacketValues(i) : Carries(i, w)'
  BY <1>1
<1>6. pc' \notin {"called", "loop", "done"}
  BY <1>2
<1>. QED
  BY <1>3, <1>4, <1>5, <1>6 DEF NIInv

LEMMA SeqOfMore ==
    ASSUME NEW S, NEW T, S \subseteq T, NEW b \in Seq(S)
    PROVE  b \in Seq(T)
  OBVIOUS

LEMMA BytesOver ==
    ASSUME NEW b \in Seq(0..255)
    PROVE  b \in Seq(Nat)
<1>1. 0..255 \subseteq Nat
  OBVIOUS
<1>. QED
  BY <1>1, SeqOfMore

LEMMA ValuesWritten ==
    /\ Guid \in U64s /\ Time \in U64s /\ Times(0, 8) \in U64s
    /\ OverIpv4 => ClientAddress \in Ipv4s /\ ServerAddress \in Ipv4s
    /\ 0 \in U8s /\ 0 \in U16s
    /\ <<77, 67, 80, 69>> \in Strings
    /\ RAKNET_PROTOCOL_VERSION \in U8s
    /\ \A v \in Versions : v \in U8s
<1>1. ASSUME NEW b \in Bytes(8) PROVE b \in U64s
  BY BytesOver DEF Bytes, U64s
<1>2. Guid \in U64s /\ Time \in U64s
  BY <1>1, NegotiationAssumption
<1>3. Times(0, 8) \in U64s
  BY DEF Times, U64s
<1>4. ASSUME NEW a \in Addresses, IsIpv4(a) PROVE a \in Ipv4s
  <2>1. a \in [ip : Seq(0..255), port : U16s]
    <3>1. \A n : n \in 0..(U16 - 1) => n \in U16s
      BY U16IsNat DEF U16s
    <3>2. Bytes(4) \subseteq Seq(0..255) /\ Bytes(16) \subseteq Seq(0..255)
      BY DEF Bytes
    <3>. QED
      BY <1>4, <3>1, <3>2 DEF Addresses
  <2>. QED
    BY <1>4, <2>1 DEF Ipv4s, IsIpv4
<1>5. OverIpv4 => ClientAddress \in Ipv4s /\ ServerAddress \in Ipv4s
  BY <1>4, NegotiationAssumption DEF OverIpv4
<1>6. 0 \in U8s /\ 0 \in U16s
  BY DEF U8s, U16s, U16
<1>7. <<77, 67, 80, 69>> \in Strings
  <2>1. <<77, 67, 80, 69>> \in Seq(Nat) /\ Len(<<77, 67, 80, 69>>) = 4
    OBVIOUS
  <2>2. 4 < U16
    BY DEF U16
  <2>. QED
    BY <2>1, <2>2 DEF Strings
<1>8. RAKNET_PROTOCOL_VERSION \in U8s /\ \A v \in Versions : v \in U8s
  BY NegotiationAssumption DEF RAKNET_PROTOCOL_VERSION, U8s
<1>. QED
  BY <1>2, <1>3, <1>5, <1>6, <1>7, <1>8

LEMMA PingToNIInv == ASSUME OverIpv4, NIInv, PingTo PROVE NIInv'
<1>1. PICK v : v = [time |-> Time, _magic |-> TRUE, guid |-> Times(0, 8)]
  OBVIOUS
<1>2. v \in PacketValues(1)
  BY <1>1, ValuesWritten, ValuesAre DEF UnconnectedPingValues
<1>3. Send(FormatOf(1), v, "to_server")
  BY <1>1, FormatsAre DEF PingTo
<1>4. UNCHANGED <<path, version, count, mtus>>
  BY DEF PingTo
<1>5. MtuHolds(1, v)'
  BY DEF MtuHolds
<1>. QED
  BY <1>2, <1>3, <1>4, <1>5, Sent DEF NIInv, Ids, Ends

LEMMA ServerPingNIInv == ASSUME OverIpv4, NIInv, ServerPing PROVE NIInv'
<1>1. Arrives(FormatOf(1), "to_server") /\ 1 \in Ids /\ "to_server" \in Ends
  BY FormatsAre DEF ServerPing, Ids, Ends
<1>2. PICK w \in PacketValues(1) : Heard(FormatOf(1)) = Meaning(FormatOf(1), w)
  BY <1>1, Arrived
<1>3. w \in UnconnectedPingValues
  BY ValuesAre
<1>4. "time" \in DOMAIN w /\ w.time \in U64s
  BY <1>3 DEF UnconnectedPingValues
<1>5. Heard(UnconnectedPing).time \in U64s
  BY <1>1, <1>2, <1>4, MeaningKeeps, FormatsAre
<1>6. PICK v : v = [time |-> Heard(UnconnectedPing).time, guid |-> Guid, _magic |-> TRUE,
                    motd |-> <<77, 67, 80, 69>>]
  OBVIOUS
<1>7. v \in PacketValues(28)
  BY <1>5, <1>6, ValuesWritten, ValuesAre DEF UnconnectedPongValues
<1>8. Send(FormatOf(28), v, "to_client")
  BY <1>6, FormatsAre DEF ServerPing
<1>9. UNCHANGED <<path, version, count, mtus>>
  BY DEF ServerPing
<1>10. MtuHolds(28, v)'
  BY DEF MtuHolds
<1>. QED
  BY <1>7, <1>8, <1>9, <1>10, Sent DEF NIInv, Ids, Ends

LEMMA Request2NIInv == ASSUME OverIpv4, NIInv, Request2 PROVE NIInv'
<1>1. Arrives(FormatOf(6), "to_client") /\ 6 \in Ids /\ "to_client" \in Ends
  BY FormatsAre DEF Request2, Ids, Ends
<1>2. PICK w \in PacketValues(6) :
         Carries(6, w) /\ Heard(FormatOf(6)) = Meaning(FormatOf(6), w)
  BY <1>1, Arrived
<1>3. w \in OpenConnectionReply1Values
  BY ValuesAre
<1>4. "mtu_size" \in DOMAIN w /\ w.mtu_size \in U16s
  BY <1>3 DEF OpenConnectionReply1Values
<1>5. Heard(OpenConnectionReply1).mtu_size = w.mtu_size
  BY <1>1, <1>2, <1>4, MeaningKeeps, FormatsAre
<1>6. PICK v : v = [_magic |-> TRUE, address |-> ServerAddress,
                    mtu |-> Heard(OpenConnectionReply1).mtu_size, guid |-> Guid]
  OBVIOUS
<1>7. v \in PacketValues(7)
  BY <1>4, <1>5, <1>6, ValuesWritten, ValuesAre DEF OpenConnectionRequest2Values
<1>8. Send(FormatOf(7), v, "to_server")
  BY <1>6, FormatsAre DEF Request2
<1>9. UNCHANGED <<path, version, count, mtus>>
  BY DEF Request2
<1>10. MtuHolds(7, v)'
  <2>1. v.mtu = w.mtu_size
    BY <1>5, <1>6
  <2>2. Agreed(w.mtu_size)
    BY <1>2 DEF Carries, MtuHolds
  <2>3. Agreed(v.mtu)'
    BY <1>9, <2>1, <2>2 DEF Agreed
  <2>. QED
    BY <2>3 DEF MtuHolds
<1>. QED
  BY <1>7, <1>8, <1>9, <1>10, Sent DEF NIInv, Ids, Ends

LEMMA ServerAcceptNIInv == ASSUME OverIpv4, NIInv, ServerAccept PROVE NIInv'
<1>1. Arrives(FormatOf(9), "to_server") /\ 9 \in Ids /\ "to_server" \in Ends
  BY FormatsAre DEF ServerAccept, Ids, Ends
<1>2. PICK w \in PacketValues(9) :
         Carries(9, w) /\ Heard(FormatOf(9)) = Meaning(FormatOf(9), w)
  BY <1>1, Arrived
<1>3. w \in ConnectionRequestValues
  BY ValuesAre
<1>4. "time" \in DOMAIN w /\ w.time \in U64s
  BY <1>3 DEF ConnectionRequestValues
<1>5. Heard(ConnectionRequest).time = w.time
  BY <1>1, <1>2, <1>4, MeaningKeeps, FormatsAre
<1>6. PICK v : v = [client_address |-> ClientAddress, system_index |-> 0,
                    request_timestamp |-> Heard(ConnectionRequest).time,
                    accepted_timestamp |-> Guid]
  OBVIOUS
<1>7. v \in PacketValues(16)
  BY <1>4, <1>5, <1>6, ValuesWritten, ValuesAre DEF ConnectionRequestAcceptedValues
<1>8. Send(FormatOf(16), v, "to_client")
  BY <1>6, FormatsAre DEF ServerAccept
<1>9. UNCHANGED <<path, version, count, mtus>>
  BY DEF ServerAccept
<1>10. MtuHolds(16, v)'
  <2>1. Sessions
    BY <1>2 DEF Carries, MtuHolds
  <2>2. Sessions'
    BY <1>9, <2>1 DEF Sessions, Agreed
  <2>. QED
    BY <2>2 DEF MtuHolds
<1>. QED
  BY <1>7, <1>8, <1>9, <1>10, Sent DEF NIInv, Ids, Ends

LEMMA IncomingNIInv == ASSUME OverIpv4, NIInv, Incoming PROVE NIInv'
<1>1. Arrives(FormatOf(16), "to_client") /\ 16 \in Ids /\ "to_client" \in Ends
  BY FormatsAre DEF Incoming, Ids, Ends
<1>2. PICK w \in PacketValues(16) :
         Carries(16, w) /\ Heard(FormatOf(16)) = Meaning(FormatOf(16), w)
  BY <1>1, Arrived
<1>3. w \in ConnectionRequestAcceptedValues
  BY ValuesAre
<1>4. "request_timestamp" \in DOMAIN w /\ w.request_timestamp \in U64s
  BY <1>3 DEF ConnectionRequestAcceptedValues
<1>5. Heard(ConnectionRequestAccepted).request_timestamp = w.request_timestamp
  BY <1>1, <1>2, <1>4, MeaningKeeps, FormatsAre
<1>6. PICK v : v = [server_address |-> ServerAddress,
                    request_timestamp |-> Heard(ConnectionRequestAccepted).request_timestamp,
                    accepted_timestamp |-> Heard(ConnectionRequestAccepted).request_timestamp]
  OBVIOUS
<1>7. v \in PacketValues(19)
  BY <1>4, <1>5, <1>6, ValuesWritten, ValuesAre DEF NewIncomingConnectionValues
<1>8. Send(FormatOf(19), v, "to_server")
  BY <1>6, FormatsAre DEF Incoming
<1>9. UNCHANGED <<path, version, count, mtus>>
  BY DEF Incoming
<1>10. MtuHolds(19, v)'
  <2>1. Sessions
    BY <1>2 DEF Carries, MtuHolds
  <2>2. Sessions'
    BY <1>9, <2>1 DEF Sessions, Agreed
  <2>. QED
    BY <2>2 DEF MtuHolds
<1>. QED
  BY <1>7, <1>8, <1>9, <1>10, Sent DEF NIInv, Ids, Ends

LEMMA SendPingNIInv == ASSUME OverIpv4, NIInv, SendPing PROVE NIInv'
<1>1. Arrives(FormatOf(19), "to_server") /\ 19 \in Ids /\ "to_server" \in Ends
  BY FormatsAre DEF SendPing, Ids, Ends
<1>2. PICK w \in PacketValues(19) :
         Carries(19, w) /\ Heard(FormatOf(19)) = Meaning(FormatOf(19), w)
  BY <1>1, Arrived
<1>3. w \in NewIncomingConnectionValues
  BY ValuesAre
<1>4. "request_timestamp" \in DOMAIN w /\ w.request_timestamp \in U64s
  BY <1>3 DEF NewIncomingConnectionValues
<1>5. Heard(NewIncomingConnection).request_timestamp = w.request_timestamp
  BY <1>1, <1>2, <1>4, MeaningKeeps, FormatsAre
<1>6. PICK v : v = [client_timestamp |-> Time]
  OBVIOUS
<1>7. v \in PacketValues(0)
  BY <1>4, <1>5, <1>6, ValuesWritten, ValuesAre DEF ConnectedPingValues
<1>8. Send(FormatOf(0), v, "to_client")
  BY <1>6, FormatsAre DEF SendPing
<1>9. UNCHANGED <<path, version, count, mtus>>
  BY DEF SendPing
<1>10. MtuHolds(0, v)'
  <2>1. Sessions
    BY <1>2 DEF Carries, MtuHolds
  <2>2. Sessions'
    BY <1>9, <2>1 DEF Sessions, Agreed
  <2>. QED
    BY <2>2 DEF MtuHolds
<1>. QED
  BY <1>7, <1>8, <1>9, <1>10, Sent DEF NIInv, Ids, Ends

LEMMA HandleConnectedPingNIInv == ASSUME OverIpv4, NIInv, HandleConnectedPing PROVE NIInv'
<1>1. Arrives(FormatOf(0), "to_client") /\ 0 \in Ids /\ "to_client" \in Ends
  BY FormatsAre DEF HandleConnectedPing, Ids, Ends
<1>2. PICK w \in PacketValues(0) :
         Carries(0, w) /\ Heard(FormatOf(0)) = Meaning(FormatOf(0), w)
  BY <1>1, Arrived
<1>3. w \in ConnectedPingValues
  BY ValuesAre
<1>4. "client_timestamp" \in DOMAIN w /\ w.client_timestamp \in U64s
  BY <1>3 DEF ConnectedPingValues
<1>5. Heard(ConnectedPing).client_timestamp = w.client_timestamp
  BY <1>1, <1>2, <1>4, MeaningKeeps, FormatsAre
<1>6. PICK v : v = [client_timestamp |-> Heard(ConnectedPing).client_timestamp,
                    server_timestamp |-> Time]
  OBVIOUS
<1>7. v \in PacketValues(3)
  BY <1>4, <1>5, <1>6, ValuesWritten, ValuesAre DEF ConnectedPongValues
<1>8. Send(FormatOf(3), v, "to_server")
  BY <1>6, FormatsAre DEF HandleConnectedPing
<1>9. UNCHANGED <<path, version, count, mtus>>
  BY DEF HandleConnectedPing
<1>10. MtuHolds(3, v)'
  <2>1. Sessions
    BY <1>2 DEF Carries, MtuHolds
  <2>2. Sessions'
    BY <1>9, <2>1 DEF Sessions, Agreed
  <2>. QED
    BY <2>2 DEF MtuHolds
<1>. QED
  BY <1>7, <1>8, <1>9, <1>10, Sent DEF NIInv, Ids, Ends

LEMMA ProbeMtus == ASSUME NEW n \in Nat PROVE ProbeMtu(n) \in Probed
  BY DEF ProbeMtu, Probed

LEMMA Request1NIInv == ASSUME OverIpv4, NIInv, Request1 PROVE NIInv'
<1>1. CASE count = 13 /\ pc' = "failed" /\ UNCHANGED <<count, packet, datagram>>
  <2>1. UNCHANGED <<path, version, count, mtus>> /\ pc' = "failed"
    BY <1>1 DEF Request1
  <2>. QED
    BY <2>1 DEF NIInv, Ends
<1>2. CASE /\ count < 13
           /\ count' = count + 1
           /\ Send(OpenConnectionRequest1,
                   [_magic |-> TRUE, protocol_version |-> RAKNET_PROTOCOL_VERSION,
                    mtu_size |-> ProbeMtu(count)], "to_server")
  <2>1. PICK v : v = [_magic |-> TRUE, protocol_version |-> RAKNET_PROTOCOL_VERSION,
                      mtu_size |-> ProbeMtu(count)]
    OBVIOUS
  <2>2. ProbeMtu(count) \in Probed
    BY ProbeMtus DEF NIInv
  <2>3. ProbeMtu(count) \in Mtus
    BY <2>2 DEF Probed, Mtus, Probe
  <2>4. v \in PacketValues(5)
    BY <2>1, <2>3, ValuesWritten, ValuesAre DEF OpenConnectionRequest1Values
  <2>5. Send(FormatOf(5), v, "to_server")
    BY <1>2, <2>1, FormatsAre
  <2>6. UNCHANGED <<path, version, mtus>> /\ count' \in 0..13
    BY <1>2 DEF Request1, NIInv
  <2>7. MtuHolds(5, v)'
    <3>1. v.mtu_size \in Probed
      BY <2>1, <2>2
    <3>. QED
      BY <3>1 DEF MtuHolds
  <2>. QED
    BY <2>4, <2>5, <2>6, <2>7, Sent DEF NIInv, Ids, Ends
<1>. QED
  BY <1>1, <1>2 DEF Request1

\* A probe is as long as its mtu says, without the headers in front of it.
LEMMA ProbeLength ==
    ASSUME NEW v \in OpenConnectionRequest1Values
    PROVE  Len(Encode(OpenConnectionRequest1, v)) = v.mtu_size - 32
<1>1. PICK fields : fields = OpenConnectionRequest1.fields
  OBVIOUS
<1>2. PICK size \in Nat : size = v.mtu_size /\ size > 50
  BY DEF OpenConnectionRequest1Values, Mtus, Probe
<1>3. /\ OfLength(fields, 3)
      /\ fields[1][1] = "_magic" /\ fields[1][2] = "magic"
      /\ fields[2][1] = "protocol_version" /\ fields[2][2] = "u8"
      /\ fields[3][1] = "mtu_size" /\ fields[3][2] = "padding"
  BY <1>1 DEF OpenConnectionRequest1, OfLength
<1>4. /\ Fits("magic", v["_magic"], 16) /\ Fits("u8", v["protocol_version"], 1)
  BY Fitted DEF OpenConnectionRequest1Values
<1>5. /\ FieldBytes(fields, v, 1) \in Seq(Nat) /\ Len(FieldBytes(fields, v, 1)) = 16
      /\ FieldBytes(fields, v, 2) \in Seq(Nat) /\ Len(FieldBytes(fields, v, 2)) = 1
  <2>1. Survives("magic", v["_magic"], 16) /\ Survives("u8", v["protocol_version"], 1)
    BY <1>4, FitSurvives
  <2>. QED
    BY <1>3, <2>1 DEF FieldBytes, Survives
<1>6. /\ FieldBytes(fields, v, 3) \in Seq(Nat) /\ Len(FieldBytes(fields, v, 3)) = size - 50
  <2>1. PICK n \in Nat : n = size - 50
    BY <1>2
  <2>2. FieldBytes(fields, v, 3) = Times(0, n)
    BY <1>2, <1>3, <2>1 DEF FieldBytes, Write, Probe
  <2>3. Times(0, n) \in Seq(Nat) /\ Len(Times(0, n)) = n
    BY 0 \in Nat, TimesIs
  <2>. QED
    BY <2>1, <2>2, <2>3
<1>7. PICK e : e = [k \in 0..3 |-> CASE k = 0 -> 0 [] k = 1 -> 16 [] k = 2 -> 17
                                     [] k = 3 -> size - 33]
  OBVIOUS
<1>8. e[0] = 0 /\ e[1] = 16 /\ e[2] = 17 /\ e[3] = size - 33
  BY <1>7
<1>9. \A k : k \in 1..3 <=> k = 1 \/ k = 2 \/ k = 3
  OBVIOUS
<1>10. Adds(fields, v, 3, e)
  <2>1. e[1] = e[0] + Len(FieldBytes(fields, v, 1))
    BY <1>5, <1>8
  <2>2. e[2] = e[1] + Len(FieldBytes(fields, v, 2))
    <3>1. PICK a : a = Len(FieldBytes(fields, v, 2))
      OBVIOUS
    <3>2. a = 1
      BY <1>5, <3>1
    <3>3. e[2] = e[1] + a
      BY <1>8, <3>2
    <3>. QED
      BY <3>1, <3>3
  <2>3. e[3] = e[2] + Len(FieldBytes(fields, v, 3))
    BY <1>2, <1>6, <1>8
  <2>4. 1 - 1 = 0 /\ 2 - 1 = 1 /\ 3 - 1 = 2
    OBVIOUS
  <2>. QED
    BY <1>8, <1>9, <2>1, <2>2, <2>3, <2>4 DEF Adds
<1>11. \A k \in 1..3 : FieldBytes(fields, v, k) \in Seq(Nat)
  BY <1>5, <1>6, <1>9
<1>12. WriteAll(fields, v) \in Seq(Nat) /\ Len(WriteAll(fields, v)) = size - 33
  <2>1. OfLength(fields, 3)
    BY <1>3
  <2>2. WriteAll(fields, v) \in Seq(Nat) /\ Len(WriteAll(fields, v)) = e[3]
    BY 3 > 0, <1>10, <1>11, <2>1, WrittenLength
  <2>. QED
    BY <1>8, <2>2
<1>13. PICK w \in Seq(Nat), id \in Nat : w = WriteAll(fields, v) /\ id = OpenConnectionRequest1.id
  BY <1>12, IdsAre
<1>14. Len(<<id>> \o w) = Len(w) + 1
  OBVIOUS
<1>. QED
  BY <1>1, <1>2, <1>12, <1>13, <1>14 DEF Encode

LEMMA ServerRequest1NIInv == ASSUME OverIpv4, NIInv, ServerRequest1 PROVE NIInv'
<1>1. Arrives(FormatOf(5), "to_server") /\ 5 \in Ids /\ "to_server" \in Ends
  BY FormatsAre DEF ServerRequest1, Ids, Ends
<1>2. PICK w \in PacketValues(5) :
         /\ Carries(5, w) /\ Heard(FormatOf(5)) = Meaning(FormatOf(5), w)
         /\ Len(Encode(FormatOf(5), w)) + 28 <= path
  BY <1>1, Arrived
<1>3. w \in OpenConnectionRequest1Values
  BY ValuesAre
<1>4. w.mtu_size \in Probed
  BY <1>2 DEF Carries, MtuHolds
<1>5. Heard(OpenConnectionRequest1).mtu_size = w.mtu_size - 1
  <2>1. "mtu_size" \in DOMAIN w
    BY <1>3 DEF OpenConnectionRequest1Values
  <2>. QED
    BY <1>2, <2>1, FormatsAre DEF Meaning
<1>6. path \in Nat /\ Len(Encode(FormatOf(5), w)) = w.mtu_size - 32
  BY <1>3, ProbeLength, FormatsAre DEF NIInv
<1>7. PICK m \in Nat : m = w.mtu_size - 1 /\ m \in {1495, 1203, 583} /\ m - 3 <= path
  BY <1>2, <1>4, <1>6 DEF Probed
<1>8. UNCHANGED <<path, version, count, mtus>>
  BY DEF ServerRequest1
<1>9. CASE Send(IncompatibleProtocolVersion,
                [server_protocol |-> version, _magic |-> TRUE, server_guid |-> Guid],
                "to_client")
  <2>1. PICK v : v = [server_protocol |-> version, _magic |-> TRUE, server_guid |-> Guid]
    OBVIOUS
  <2>2. v \in PacketValues(25)
    BY <2>1, ValuesWritten, ValuesAre DEF NIInv, U8s, IncompatibleProtocolVersionValues
  <2>3. Send(FormatOf(25), v, "to_client")
    BY <1>9, <2>1, FormatsAre
  <2>4. MtuHolds(25, v)'
    BY DEF MtuHolds
  <2>. QED
    BY <1>8, <2>2, <2>3, <2>4, Sent DEF NIInv, Ids, Ends
<1>10. CASE Send(OpenConnectionReply1,
                 [_magic |-> TRUE, guid |-> Guid, use_encryption |-> 0,
                  mtu_size |-> Heard(OpenConnectionRequest1).mtu_size], "to_client")
  <2>1. PICK v : v = [_magic |-> TRUE, guid |-> Guid, use_encryption |-> 0,
                      mtu_size |-> m]
    OBVIOUS
  <2>2. m \in U16s
    BY <1>7 DEF U16s, U16
  <2>3. v \in PacketValues(6)
    BY <2>1, <2>2, ValuesWritten, ValuesAre DEF OpenConnectionReply1Values
  <2>4. Send(FormatOf(6), v, "to_client")
    BY <1>5, <1>7, <1>10, <2>1, FormatsAre
  <2>5. MtuHolds(6, v)'
    <3>1. v.mtu_size = m /\ path' = path
      BY <1>8, <2>1
    <3>2. Agreed(v.mtu_size)'
      BY <1>7, <3>1 DEF Agreed
    <3>. QED
      BY <3>2 DEF MtuHolds
  <2>. QED
    BY <1>8, <2>3, <2>4, <2>5, Sent DEF NIInv, Ids, Ends
<1>. QED
  BY <1>9, <1>10 DEF ServerRequest1

LEMMA ServerRequest2NIInv == ASSUME OverIpv4, NIInv, ServerRequest2 PROVE NIInv'
<1>1. Arrives(FormatOf(7), "to_server") /\ 7 \in Ids /\ "to_server" \in Ends
  BY FormatsAre DEF ServerRequest2, Ids, Ends
<1>2. PICK w \in PacketValues(7) :
         Carries(7, w) /\ Heard(FormatOf(7)) = Meaning(FormatOf(7), w)
  BY <1>1, Arrived
<1>3. w \in OpenConnectionRequest2Values
  BY ValuesAre
<1>4. "mtu" \in DOMAIN w /\ w.mtu \in U16s /\ "guid" \in DOMAIN w /\ w.guid \in U64s
  BY <1>3 DEF OpenConnectionRequest2Values
<1>5. Heard(OpenConnectionRequest2).mtu = w.mtu /\ Heard(OpenConnectionRequest2).guid = w.guid
  BY <1>1, <1>2, <1>4, MeaningKeeps, FormatsAre
<1>6. Agreed(w.mtu)
  BY <1>2 DEF Carries, MtuHolds
<1>7. UNCHANGED <<path, version, count>>
  BY DEF ServerRequest2
<1>8. CASE /\ Send(AlreadyConnected,
                   [_magic |-> TRUE, guid |-> Heard(OpenConnectionRequest2).guid], "to_client")
           /\ UNCHANGED mtus
  <2>1. PICK v : v = [_magic |-> TRUE, guid |-> Heard(OpenConnectionRequest2).guid]
    OBVIOUS
  <2>2. v \in PacketValues(18)
    BY <1>4, <1>5, <2>1, ValuesAre DEF AlreadyConnectedValues
  <2>3. Send(FormatOf(18), v, "to_client")
    BY <1>8, <2>1, FormatsAre
  <2>4. MtuHolds(18, v)'
    BY DEF MtuHolds
  <2>. QED
    BY <1>7, <1>8, <2>2, <2>3, <2>4, Sent DEF NIInv, Ids, Ends
<1>9. CASE /\ Send(OpenConnectionReply2,
                   [_magic |-> TRUE, guid |-> Guid, address |-> ClientAddress,
                    mtu |-> Heard(OpenConnectionRequest2).mtu, encryption_enabled |-> 0],
                   "to_client")
           /\ mtus' = [mtus EXCEPT !.server = Heard(OpenConnectionRequest2).mtu]
  <2>1. PICK v : v = [_magic |-> TRUE, guid |-> Guid, address |-> ClientAddress,
                      mtu |-> w.mtu, encryption_enabled |-> 0]
    OBVIOUS
  <2>2. v \in PacketValues(8)
    BY <1>4, <2>1, ValuesWritten, ValuesAre DEF OpenConnectionReply2Values
  <2>3. Send(FormatOf(8), v, "to_client")
    BY <1>5, <1>9, <2>1, FormatsAre
  <2>4. mtus' \in [client : Nat, server : Nat] /\ mtus'.server = w.mtu
    BY <1>4, <1>5, <1>9 DEF NIInv, U16s
  <2>5. MtuHolds(8, v)'
    <3>1. v.mtu = w.mtu /\ path' = path
      BY <1>7, <2>1
    <3>2. Agreed(v.mtu)'
      BY <1>6, <3>1 DEF Agreed
    <3>. QED
      BY <2>4, <3>1, <3>2 DEF MtuHolds
  <2>. QED
    BY <1>7, <2>2, <2>3, <2>4, <2>5, Sent DEF NIInv, Ids, Ends
<1>. QED
  BY <1>8, <1>9 DEF ServerRequest2

LEMMA SuccessNIInv == ASSUME OverIpv4, NIInv, Success PROVE NIInv'
<1>1. Arrives(FormatOf(8), "to_client") /\ 8 \in Ids /\ "to_client" \in Ends
  BY FormatsAre DEF Success, Ids, Ends
<1>2. PICK w \in PacketValues(8) :
         Carries(8, w) /\ Heard(FormatOf(8)) = Meaning(FormatOf(8), w)
  BY <1>1, Arrived
<1>3. w \in OpenConnectionReply2Values
  BY ValuesAre
<1>4. "mtu" \in DOMAIN w /\ w.mtu \in U16s
  BY <1>3 DEF OpenConnectionReply2Values
<1>5. Heard(OpenConnectionReply2).mtu = w.mtu
  BY <1>1, <1>2, <1>4, MeaningKeeps, FormatsAre
<1>6. Agreed(w.mtu) /\ mtus.server = w.mtu
  BY <1>2 DEF Carries, MtuHolds
<1>7. PICK v : v = [guid |-> Guid, time |-> Time, use_encryption |-> 0]
  OBVIOUS
<1>8. v \in PacketValues(9)
  BY <1>7, ValuesWritten, ValuesAre DEF ConnectionRequestValues
<1>9. Send(FormatOf(9), v, "to_server")
  BY <1>7, FormatsAre DEF Success
<1>10. UNCHANGED <<path, version, count>>
  BY DEF Success
<1>11. PICK m \in Nat : m = w.mtu + 96
  BY <1>4 DEF U16s
<1>12. mtus' = [mtus EXCEPT !.client = m]
  BY <1>5, <1>11 DEF Success
<1>13. mtus' \in [client : Nat, server : Nat] /\ mtus'.client = m /\ mtus'.server = w.mtu
  BY <1>6, <1>12 DEF NIInv
<1>14. MtuHolds(9, v)'
  <2>1. Sessions'
    BY <1>6, <1>10, <1>11, <1>13 DEF Sessions, Agreed
  <2>. QED
    BY <2>1 DEF MtuHolds
<1>. QED
  BY <1>8, <1>9, <1>10, <1>13, <1>14, Sent DEF NIInv, Ids, Ends

\* An attempt that ends, or begins again.
LEMMA EndedNIInv ==
    ASSUME NIInv, pc' \in {"asking", "failed"}, UNCHANGED <<path, version, count, mtus>>
    PROVE  NIInv'
  BY DEF NIInv, Ends

LEMMA AnsweredNIInv == ASSUME NIInv, Answered PROVE NIInv'
  BY EndedNIInv DEF Answered

LEMMA DroppedNIInv == ASSUME NIInv, Dropped PROVE NIInv'
  BY EndedNIInv DEF Dropped

\* A session sends a message.
LEMMA SendMessageNIInv == ASSUME OverIpv4, NIInv, SendMessage PROVE NIInv'
<1>1. Arrives(FormatOf(3), "to_server") /\ 3 \in Ids /\ "to_server" \in Ends
  BY FormatsAre DEF SendMessage, Ids, Ends
<1>2. PICK w \in PacketValues(3) : Carries(3, w)
  BY <1>1, Arrived
<1>3. Sessions
  BY <1>2 DEF Carries, MtuHolds
<1>4. PICK side \in {"client", "server"}, c \in Counters : \E n \in Lengths(mtus[side]) : Call(mtus[side], c, n)
  BY DEF SendMessage
<1>5. PICK n \in Lengths(mtus[side]) : Call(mtus[side], c, n)
  BY <1>4
<1>6. PICK m \in Nat : m = mtus[side] /\ m \in {mtus.client, mtus.server} /\ m > 61 /\ m < U16
  BY <1>3 DEF Sessions, Agreed, U16, NIInv
<1>7. Lengths(m) \subseteq Nat
  <2>1. m \in (24 + 32 + 5 + 1)..(U16 - 1)
    BY <1>6, U16IsNat
  <2>. QED
    BY <2>1, NegotiationAssumption
<1>8. c \in Numbers /\ n \in Nat /\ LeavesRoom(m) /\ Call(m, c, n)
  BY <1>5, <1>6, <1>7, NegotiationAssumption DEF Numbers, LeavesRoom
<1>9. IInv'
  BY <1>8, CallIInv
<1>10. UNCHANGED <<path, version, count, mtus>> /\ pc' = "called" /\ mtu' = m
  BY <1>8 DEF SendMessage, Call
<1>11. Sessions'
  BY <1>3, <1>10 DEF Sessions, Agreed
<1>. QED
  BY <1>6, <1>9, <1>10, <1>11 DEF NIInv, Ends

LEMMA SendToNIInv ==
    ASSUME NIInv, SendTo, UNCHANGED <<path, version, count, mtus>>
    PROVE  NIInv'
<1>1. pc \in {"called", "loop"} /\ mtu' = mtu
  BY DEF SendTo, SendWhole, SendPieces, SendPiece, SendDone, sending
<1>2. IInv /\ Sessions /\ mtu \in {mtus.client, mtus.server}
  BY <1>1 DEF NIInv
<1>3. IInv'
  BY <1>2, NextIInv DEF SendNext
<1>4. pc' \in {"called", "loop", "done"}
  BY <1>3 DEF IInv
<1>5. Sessions'
  BY <1>2 DEF Sessions, Agreed
<1>. QED
  BY <1>1, <1>2, <1>3, <1>4, <1>5 DEF NIInv, Ends

LEMMA StutterNIInv == ASSUME NIInv, UNCHANGED vars PROVE NIInv'
<1>1. UNCHANGED <<path, version, count, mtus, packet, datagram, sending, pc>> /\ mtu' = mtu
  BY DEF vars, sending
<1>2. ASSUME NEW id, NEW v, Carries(id, v) PROVE Carries(id, v)'
  BY <1>1, <1>2 DEF Carries, MtuHolds, Sessions, Agreed
<1>3. Sessions => Sessions'
  BY <1>1 DEF Sessions, Agreed
<1>4. IInv => IInv'
  BY <1>1, NextIInv
<1>. QED
  BY <1>1, <1>2, <1>3, <1>4 DEF NIInv

LEMMA InitNIInv == Init => NIInv
<1>. SUFFICES ASSUME Init PROVE NIInv
  OBVIOUS
<1>1. path \in Nat /\ version \in 0..255
  BY NegotiationAssumption DEF Init
<1>. QED
  BY <1>1 DEF Init, NIInv, Ends

LEMMA NextNIInv == ASSUME OverIpv4, NIInv, [Next]_vars PROVE NIInv'
<1>1. ASSUME SendTo, UNCHANGED <<path, version, known, count, packet, datagram, mtus>>
      PROVE  NIInv'
  BY <1>1, SendToNIInv
<1>. QED
  BY <1>1, PingToNIInv, ServerPingNIInv, Request1NIInv, ServerRequest1NIInv, Request2NIInv,
     ServerRequest2NIInv, AnsweredNIInv, SuccessNIInv, ServerAcceptNIInv, IncomingNIInv,
     SendPingNIInv, HandleConnectedPingNIInv, DroppedNIInv, SendMessageNIInv, StutterNIInv
     DEF Next

\* The packet on its way is one of the thirteen, made of values that fit its fields,
\* and the mtus in it and in the sessions are those that were probed and let through
\* (client.rs:120-330, server.rs:80-270): an invariant of every negotiation over IPv4.
THEOREM NegotiationInvariance == ASSUME OverIpv4 PROVE Spec => []NIInv
<1>1. NIInv /\ [Next]_vars => NIInv'
  BY NextNIInv
<1>. QED
  BY <1>1, InitNIInv, PTL DEF Spec
-----------------------------------------------------------------------------
\* Every packet that client and server write over IPv4 is read with the values it was
\* written with (packets/*.rs, writer.rs, reader.rs), but for the mtu of a probe, which
\* is one byte less than it says: for every guid, every time, every address and every
\* path.  Over IPv6 it is not so, as a run shows.
THEOREM PacketsAreUnderstood == ASSUME OverIpv4 PROVE Spec => []PacketsSurvive
<1>1. NIInv => PacketsSurvive
  <2>. SUFFICES ASSUME NIInv, pc \in Ends PROVE Understood
    BY DEF PacketsSurvive, Ends
  <2>1. PICK id \in Ids : \E v \in PacketValues(id) : Carries(id, v)
    BY DEF NIInv
  <2>2. PICK v \in PacketValues(id) : Carries(id, v)
    BY <2>1
  <2>3. /\ packet.format = FormatOf(id) /\ packet.values = v
        /\ datagram = Encode(FormatOf(id), v)
    BY <2>2 DEF Carries
  <2>4. IsUnderstood(FormatOf(id), v)
    BY AllUnderstood
  <2>5. Meant = Meaning(FormatOf(id), v)
    BY <2>3 DEF Meant, Meaning
  <2>. QED
    BY <2>3, <2>4, <2>5 DEF Understood, IsUnderstood
<1>. QED
  BY <1>1, NegotiationInvariance, PTL

\* The last of the mtus is small enough for the length of a frame in bits.
LEMMA MtuIsSmall ==
    ASSUME NIInv, pc \in {"called", "loop", "done"}
    PROVE  IInv /\ mtu \in Nat /\ mtu <= 1591
<1>1. IInv /\ Sessions /\ mtu \in {mtus.client, mtus.server}
  BY DEF NIInv
<1>. QED
  BY <1>1 DEF Sessions, Agreed

LEMMA BelowU16 == \A n \in 0..(U16 - 1) : n \in Nat /\ n < U16 /\ n < U24
<1>1. U16 \in Nat /\ U24 \in Nat /\ U16 < U24
  BY DEF U16, U24
<1>. QED
  BY <1>1

LEMMA SentIsFrame ==
    ASSUME NEW f, NEW m \in Nat, m <= 1591, IsSent(f, m), Writable(f)
    PROVE  IsFrame(f)
<1>1. f \in MessageFrame
  BY DEF IsSent
<1>2. f = [ reliability |-> f.reliability, message_index |-> f.message_index,
            sequence_index |-> f.sequence_index,
            order_index |-> f.order_index, split |-> f.split, split_count |-> f.split_count,
            split_id |-> f.split_id, split_index |-> f.split_index, data |-> f.data ]
  BY <1>1 DEF MessageFrame
<1>3. f.reliability = 3 /\ f.sequence_index = 0
  BY <1>1 DEF MessageFrame
<1>4. f.message_index < U24 /\ f.order_index < U24
  <2>1. f.message_index \in 0..(U24 - 1) /\ f.order_index \in 0..(U24 - 1)
    BY DEF Writable
  <2>2. U24 \in Nat
    BY DEF U24
  <2>. QED
    BY <2>1, <2>2
<1>5. /\ f.message_index \in Nat /\ f.order_index \in Nat /\ f.split \in BOOLEAN
      /\ f.split_count \in 0..(U16 - 1) /\ f.split_id \in 0..(U16 - 1)
      /\ f.split_index \in 0..(U16 - 1) /\ f.data \in Nat
  BY <1>1 DEF MessageFrame
<1>6. /\ f.split_count \in Nat /\ f.split_count < U24
      /\ f.split_id \in Nat /\ f.split_id < U16
      /\ f.split_index \in Nat /\ f.split_index < U24
  BY <1>5, BelowU16
<1>7. 8 * f.data < U16
  <2>1. PICK d \in Nat : d = f.data
    BY <1>5
  <2>2. d <= 1544
    BY <1>5, <2>1 DEF IsSent
  <2>3. 8 * d < U16
    BY <2>2 DEF U16
  <2>. QED
    BY <2>1, <2>3
<1>8. ~ f.split => f.split_count = 0 /\ f.split_id = 0 /\ f.split_index = 0
  BY DEF IsSent
<1>9. f = [ reliability |-> 3, message_index |-> f.message_index, sequence_index |-> 0,
            order_index |-> f.order_index, split |-> f.split, split_count |-> f.split_count,
            split_id |-> f.split_id, split_index |-> f.split_index, data |-> f.data ]
  BY <1>2, <1>3
<1>. QED
  BY <1>4, <1>5, <1>6, <1>7, <1>8, <1>9 DEF IsFrame

\* There are no frames before there is a message.
NoneEarlier == pc \in {"called", "loop", "done"} \/ frames = << >>

LEMMA NextNoneEarlier == ASSUME OverIpv4, NIInv, NoneEarlier, [Next]_vars PROVE NoneEarlier'
<1>1. CASE SendMessage
  BY <1>1 DEF SendMessage, Call, NoneEarlier
<1>2. CASE SendTo /\ UNCHANGED <<path, version, known, count, packet, datagram, mtus>>
  <2>1. NIInv' /\ pc \in {"called", "loop"}
    BY <1>2, SendToNIInv DEF SendTo, SendWhole, SendPieces, SendPiece, SendDone
  <2>2. IInv
    BY <2>1 DEF NIInv
  <2>3. IInv'
    BY <1>2, <2>2, NextIInv DEF SendNext
  <2>. QED
    BY <2>3 DEF IInv, NoneEarlier
<1>3. CASE UNCHANGED vars
  BY <1>3 DEF vars, sending, NoneEarlier
<1>4. ASSUME pc \notin {"called", "loop", "done"}, UNCHANGED sending PROVE NoneEarlier'
  BY <1>4 DEF sending, NoneEarlier
<1>5. CASE PingTo \/ Request1
  BY <1>4, <1>5 DEF PingTo, Request1
<1>6. CASE ServerPing \/ ServerRequest1 \/ Request2 \/ ServerRequest2
  BY <1>4, <1>6 DEF ServerPing, ServerRequest1, Request2, ServerRequest2, Arrives
<1>7. CASE Answered \/ Success \/ ServerAccept \/ Incoming
  BY <1>4, <1>7 DEF Answered, Success, ServerAccept, Incoming, Arrives
<1>8. CASE SendPing \/ HandleConnectedPing \/ Dropped
  BY <1>4, <1>8 DEF SendPing, HandleConnectedPing, Dropped, Arrives
<1>. QED
  BY <1>1, <1>2, <1>3, <1>5, <1>6, <1>7, <1>8 DEF Next

\* Frame::decode gives back what Frame::encode was given, and the length that
\* Frame::length counts is the one that is written (packet.rs), for every frame that
\* a session makes of a message of any length, its numbers below 2^24.
THEOREM FramesComeOut == ASSUME OverIpv4 PROVE Spec => []FramesSurvive
<1>1. ASSUME NIInv, pc \in {"called", "loop", "done"} PROVE FramesSurvive
  <2>1. IInv /\ mtu \in Nat /\ mtu <= 1591
    BY <1>1, MtuIsSmall
  <2>2. DOMAIN frames = 1..Len(frames) /\ \A k \in 1..Len(frames) : IsSent(frames[k], mtu)
    BY <2>1, LenProperties DEF IInv
  <2>3. ASSUME NEW k \in DOMAIN frames, Writable(frames[k]) PROVE IsFrame(frames[k])
    BY <2>1, <2>2, <2>3, SentIsFrame
  <2>4. ASSUME NEW k \in DOMAIN frames, Writable(frames[k])
        PROVE  /\ DecodeFrame(EncodeFrame(frames[k])) = frames[k]
               /\ Len(EncodeFrame(frames[k])) + frames[k].data = FrameLength(frames[k])
    BY <2>3, <2>4, FrameRoundTrip, FrameCounted
  <2>. QED
    BY <2>4 DEF FramesSurvive
<1>2. ASSUME frames = << >> PROVE FramesSurvive
  BY <1>2 DEF FramesSurvive
<1>3. NIInv /\ NoneEarlier => FramesSurvive
  BY <1>1, <1>2 DEF NoneEarlier
<1>4. Init => NoneEarlier
  BY DEF Init, NoneEarlier
<1>5. NIInv /\ NoneEarlier /\ [Next]_vars => NoneEarlier'
  BY NextNoneEarlier
<1>. QED
  BY <1>3, <1>4, <1>5, NegotiationInvariance, PTL DEF Spec

\* The greatest of numbers that are bounded is one of them.
LEMMA MaxIsOne ==
    ASSUME NEW S, S \in SUBSET Nat, NEW x \in S, NEW b \in Nat, \A y \in S : y <= b
    PROVE  Max(S) \in S
<1>1. PICK T : T = {n \in Nat : \E y \in S : n = b - y}
  OBVIOUS
<1>2. T \in SUBSET Nat /\ b - x \in T
  BY <1>1
<1>3. PICK n \in T : \A k \in T : n <= k
  BY <1>2, LeastNatural
<1>4. PICK y \in S : n = b - y
  BY <1>1, <1>3
<1>5. \A z \in S : y >= z
  <2>. TAKE z \in S
  <2>1. b - z \in T
    BY <1>1
  <2>. QED
    BY <1>3, <1>4, <2>1
<1>6. \E m \in S : \A z \in S : m >= z
  BY <1>5
<1>. QED
  BY <1>6 DEF Max

\* What WhatIsCarried says of a session whose mtu leaves room for a piece, in the
\* sessions that a negotiation leads to: their mtus do.
THEOREM MessagesAreCarried == ASSUME OverIpv4 PROVE Spec => []CarriesAll
<1>1. NIInv => CarriesAll
  <2>1. ASSUME NIInv, pc \in {"called", "loop", "done"} PROVE CarriesAll
    BY <2>1 DEF NIInv, IInv
  <2>2. ASSUME NIInv, pc \notin {"called", "loop", "done"} PROVE CarriesAll
    BY <2>2 DEF NIInv, Ends, CarriesAll
  <2>. QED
    BY <2>1, <2>2
<1>. QED
  BY <1>1, NegotiationInvariance, PTL

LEMMA LengthOfSent ==
    ASSUME NEW f, NEW m \in Nat, IsSent(f, m)
    PROVE  FrameLength(f) \in Nat /\ FrameLength(f) <= m - 37
<1>1. f.reliability = 3 /\ f.split \in BOOLEAN /\ f.data \in Nat
  BY DEF IsSent, MessageFrame
<1>2. f.data + (IF f.split THEN 10 ELSE 0) <= m - 47
  BY DEF IsSent
<1>3. Reliable(3) /\ ~ Sequenced(3) /\ SequencedOrOrdered(3)
  BY DEF Reliable, Sequenced, SequencedOrOrdered
<1>4. FrameLength(f) = 1 + 2 + 3 + 0 + 4 + (IF f.split THEN 10 ELSE 0) + f.data
  BY <1>1, <1>3 DEF FrameLength
<1>. QED
  BY <1>1, <1>2, <1>4

\* No datagram of a session is longer than the path lets through, but for the 94 bytes
\* the client counts too many, nor longer than the buffer it is received in
\* (client.rs:217, session.rs:220-255, udp.rs): for every path and every message.
THEOREM PathIsFit == ASSUME OverIpv4 PROVE Spec => []FitsThePath
<1>1. ASSUME OverIpv4, NIInv, pc = "done" PROVE FitsThePath
  <2>1. IInv /\ Sessions /\ mtu \in {mtus.client, mtus.server} /\ path \in Nat
    BY <1>1 DEF NIInv
  <2>2. PICK m \in Nat : m = mtu /\ m > 61 /\ m <= 1591
    BY <2>1 DEF Sessions, Agreed
  <2>3. DOMAIN frames = 1..Len(frames) /\ \A k \in 1..Len(frames) : IsSent(frames[k], m)
    BY <2>1, <2>2, LenProperties DEF IInv
  <2>4. \A k \in DOMAIN frames : FrameLength(frames[k]) \in Nat /\ FrameLength(frames[k]) <= m - 37
    BY <2>3, LengthOfSent
  <2>5. PICK S : S = {FrameLength(frames[k]) : k \in DOMAIN frames} \cup {mtu - 42 - 1}
    OBVIOUS
  <2>6. S \in SUBSET Nat /\ mtu - 42 - 1 \in S /\ \A y \in S : y <= m - 37
    BY <2>2, <2>4, <2>5
  <2>7. Max(S) \in S
    <3>1. m - 37 \in Nat
      BY <2>2
    <3>. QED
      BY <2>6, <3>1, MaxIsOne
  <2>8. PICK l \in Nat : l = Largest /\ l <= m - 33
    <3>1. Largest = 4 + Max(S)
      BY <2>5 DEF Largest
    <3>2. PICK x \in S : x = Max(S)
      BY <2>7
    <3>3. x \in Nat /\ x <= m - 37
      BY <2>6
    <3>. QED
      BY <2>2, <3>1, <3>2, <3>3
  <2>9. m = mtus.server => m - 3 <= path
    BY <2>1, <2>2 DEF Sessions, Agreed
  <2>10. m # mtus.server => m = mtus.client /\ m - 99 <= path
    BY <2>1, <2>2 DEF Sessions, Agreed
  <2>11. m = mtus.server => m # mtus.client
    BY <2>1, <2>2 DEF Sessions, Agreed
  <2>12. 28 + l <= path + (IF mtu = mtus.client THEN 94 ELSE 0) /\ l <= 2048
    BY <2>1, <2>2, <2>8, <2>9, <2>10, <2>11
  <2>. QED
    BY <1>1, <2>8, <2>12, OverheadIs DEF FitsThePath
<1>2. NIInv => FitsThePath
  BY <1>1 DEF FitsThePath
<1>. QED
  BY <1>2, NegotiationInvariance, PTL
=============================================================================
