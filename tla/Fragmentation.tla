---------------------------- MODULE Fragmentation ----------------------------
(***************************************************************************)
(* How Session::send_to cuts a user message into frames: the lengths, in   *)
(* the u16 arithmetic of the code, one iteration of its loop per step.     *)
(* Negotiation starts it with the mtus that the handshake ends in.         *)
(***************************************************************************)
EXTENDS Codec

VARIABLES
    mtu,      \* of the session
    counters, \* its message_index, order_index and split_id
    length,   \* buff.len() when send_to is called
    rest,     \* bytes still in buff
    frames,   \* the frames made so far
    pc        \* where send_to is: "called", "loop", "done" or "panicked"

sending == <<mtu, counters, length, rest, frames>>

\* a call of send_to on a session
Call(m, c, n) ==
    /\ mtu' = m
    /\ counters' = c
    /\ length' = n
    /\ rest' = n
    /\ frames' = << >>
    /\ pc' = "called"

-----------------------------------------------------------------------------
(* The mutated forms of the definitions below.                             *)

\* the headers of a split frame are not left room for
MaxPieceNoHeader(m) == m - 24 - 5

\* the last piece is a full one as well
PieceLengthFull(i, n, m) == m - 24 - 32 - 5

-----------------------------------------------------------------------------
(* The arithmetic of send_to.                                              *)

GoesWhole(n, m) == n < m - 14 - 32

\* `max`, the data of a piece
MaxPiece(m) == m - 24 - 32 - 5

\* `split_len`: the length is cast to u16 first
PieceCount(n, m) ==
    LET len == n % U16
    IN  IF len % MaxPiece(m) # 0 THEN len \div MaxPiece(m) + 1 ELSE len \div MaxPiece(m)

\* `pos`: the length of piece i
PieceLength(i, n, m) ==
    IF i = PieceCount(n, m) - 1 THEN (n % U16) % MaxPiece(m) ELSE MaxPiece(m)

\* a frame of the message: n of the bytes left, under the next message index
Frame(n) ==
    [NewFrame(3, n) EXCEPT !.message_index = counters.message_index,
                           !.order_index = counters.order_index]

SendWhole ==
    /\ pc = "called"
    /\ GoesWhole(length, mtu)
    /\ frames' = <<Frame(rest)>>
    /\ rest' = 0
    /\ counters' = [counters EXCEPT !.message_index = @ + 1, !.order_index = @ + 1]
    /\ pc' = "done"
    /\ UNCHANGED <<mtu, length>>

SendPieces ==
    /\ pc = "called"
    /\ ~ GoesWhole(length, mtu)
    /\ pc' = "loop"
    /\ UNCHANGED sending

\* one iteration; BytesMut::split_to panics past the end of the buffer
SendPiece ==
    LET i   == Len(frames)
        pos == PieceLength(i, length, mtu)
    IN  /\ pc = "loop" /\ i < PieceCount(length, mtu)
        /\ frames' = Append(frames, [Frame(pos) EXCEPT !.split = TRUE,
                                                       !.split_count = PieceCount(length, mtu),
                                                       !.split_id = counters.split_id,
                                                       !.split_index = i])
        /\ rest' = rest - pos
        /\ counters' = [counters EXCEPT !.message_index = @ + 1]
        /\ pc' = IF pos <= rest THEN "loop" ELSE "panicked"
        /\ UNCHANGED <<mtu, length>>

\* split_id is a u16; a build with overflow checks panics where it comes round
SendDone ==
    /\ pc = "loop" /\ Len(frames) = PieceCount(length, mtu)
    /\ counters' = [counters EXCEPT !.split_id = (@ + 1) % U16, !.order_index = @ + 1]
    /\ pc' = "done"
    /\ UNCHANGED <<mtu, length, rest, frames>>

SendTo == SendWhole \/ SendPieces \/ SendPiece \/ SendDone

-----------------------------------------------------------------------------
(* Properties.                                                             *)

Carried == FoldFunction(+, 0, [k \in DOMAIN frames |-> frames[k].data])

\* The whole message is carried exactly when it is short enough for a u16 and,
\* if it is split, no multiple of the piece length: of a multiple the last
\* piece is empty and its bytes are lost.  A split message that fits a u16 has two
\* pieces at least, which Reassembly relies on.  Whatever the length, no piece asks
\* for more than the buffer holds.
CarriesAll ==
    /\ pc # "panicked"
    /\ pc = "done" =>
          /\ Carried = length <=> \/ GoesWhole(length, mtu)
                                  \/ length < U16 /\ length % MaxPiece(mtu) # 0
          /\ ~ GoesWhole(length, mtu) /\ length < U16 => Len(frames) >= 2

\* A frame of the message comes out of its bytes as it went in, and takes the
\* bytes that Frame::length counted for it, unless a number of it needs more than
\* the 24 bits that the writer asserts.
FramesSurvive ==
    \A k \in DOMAIN frames :
        Writable(frames[k]) =>
            /\ DecodeFrame(EncodeFrame(frames[k])) = frames[k]
            /\ Len(EncodeFrame(frames[k])) + frames[k].data = FrameLength(frames[k])
=============================================================================
