------------------------------ MODULE AckClear ------------------------------
(***************************************************************************)
(* The loop of ACKQueue::clear (src/src/packet.rs), one iteration a step.  *)
(* It starts from any book a session can have and must end with what       *)
(* AckQueue says of clear in one go: the longest runs, the numbers missing *)
(* between them, and nothing left in the store.  What it reports is then   *)
(* followed through the bytes of Ack and Nack to the numbers the sender    *)
(* goes through.                                                           *)
(***************************************************************************)
EXTENDS AckQueue, Codec

CONSTANTS
    Bases,      \* where the numbers of the books the loop starts from begin
    MaxNumber   \* bound: how far they go

\* highest is one above the last number that arrived
ASSUME AckClearAssumption == Bases \subseteq 0..(U24 - MaxNumber) /\ MaxNumber \in Nat

VARIABLES
    book,       \* the ACKQueue when clear is called
    i,          \* the loop's variable
    store_seq,  \* the field, from which numbers are taken
    received,   \* the ranges so far
    missing     \* the missing numbers so far

vars == <<book, i, store_seq, received, missing>>

Init ==
    /\ \E base \in Bases : \E lowest, highest \in base..(base + MaxNumber) :
         /\ lowest <= highest
         /\ \E stored \in SUBSET (lowest..(highest - 1)) :
              book = [lowest |-> lowest, highest |-> highest, store_seq |-> stored]
    /\ i = book.lowest
    /\ store_seq = book.store_seq
    /\ received = << >>
    /\ missing = << >>

-----------------------------------------------------------------------------
(* The mutated forms of the definition below.                              *)

\* a number is compared with the first of the last range, not with its last
ExtendFromFirst(ranges, num) ==
    LET last == Len(ranges)
    IN  IF ranges # << >> /\ ranges[last][1] + 1 = num
        THEN [ranges EXCEPT ![last] = <<ranges[last][1], num>>]
        ELSE Append(ranges, <<num, num>>)

-----------------------------------------------------------------------------
\* a number that was seen extends the last range or opens one
Extend(ranges, num) ==
    LET last == Len(ranges)
    IN  IF ranges # << >> /\ ranges[last][2] + 1 = num
        THEN [ranges EXCEPT ![last] = <<ranges[last][1], num>>]
        ELSE Append(ranges, <<num, num>>)

\* one iteration
Iterate ==
    /\ i < book.highest
    /\ i' = i + 1
    /\ \/ /\ i \in store_seq
          /\ store_seq' = store_seq \ {i}
          /\ received' = Extend(received, i)
          /\ UNCHANGED missing
       \/ /\ i \notin store_seq
          /\ missing' = Append(missing, i)
          /\ UNCHANGED <<store_seq, received>>
    /\ UNCHANGED book

Next == Iterate

Spec == Init /\ [][Next]_vars

-----------------------------------------------------------------------------
(* Properties.                                                             *)

Done == i = book.highest

\* When the loop ends it has reported exactly the longest runs of the numbers
\* seen, each once, the numbers missing between them, and has emptied the store:
\* flush_ack sends what AckRanges and Missing say, and clear is AfterClear.
ComputesClear ==
    Done => /\ Range(received) = AckRanges(book)
            /\ Len(received) = Cardinality(AckRanges(book))
            /\ Range(missing) = Missing(book)
            /\ store_seq = AfterClear(book).store_seq

\* What flush_ack sends of it, through the bytes of Ack and Nack and get_all, has
\* the sender go through the numbers seen and the numbers missing, each once: the
\* ranges do not overlap and their ends arrive as they were.
Hears(id, range) == AckGetAll(ReadAck(WriteAck(id, range)))
SenderHears ==
    Done =>
        /\ UNION {Hears(192, received[k]) : k \in DOMAIN received} = Window(book) \ Missing(book)
        /\ UNION {Hears(160, <<missing[k], missing[k]>>) : k \in DOMAIN missing} = Missing(book)
        /\ \A k, l \in DOMAIN received :
              k # l => Hears(192, received[k]) \cap Hears(192, received[l]) = {}
=============================================================================
