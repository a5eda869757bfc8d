------------------------------ MODULE AckQueue ------------------------------
(***************************************************************************)
(* The receiver's book of sequence numbers, ACKQueue of src/src/packet.rs: *)
(* a record with the fields of the Rust struct, and its methods as         *)
(* operators.  `clear` is given by what its loop leaves behind; module     *)
(* AckClear models the loop itself and shows that it computes this.        *)
(***************************************************************************)
EXTENDS Integers

NewACKQueue ==
    [ lowest    |-> 0,      \* numbers below it have been reported for good
      highest   |-> 0,      \* one above the highest number seen
      store_seq |-> {} ]    \* numbers seen and not yet reported

-----------------------------------------------------------------------------
(* The mutated forms of the definitions below.                             *)

\* a number below lowest is stored (and never taken out again)
AddBelowLowest(aq, sequence) ==
    IF sequence \notin aq.store_seq
    THEN [aq EXCEPT !.highest = IF @ <= sequence THEN sequence + 1 ELSE @,
                    !.store_seq = @ \cup {sequence}]
    ELSE aq

\* one acknowledgement from the first number seen to the last, over the gaps
AckRangesOverGaps(aq) ==
    LET seen == aq.store_seq \cap aq.lowest..(aq.highest - 1)
    IN  {r \in seen \X seen : \A s \in seen : r[1] <= s /\ s <= r[2]}

\* the loop goes one number too far
MissingToHighest(aq) == aq.lowest..aq.highest \ aq.store_seq

\* lowest is left on the last number visited
AfterClearOnLast(aq) ==
    [aq EXCEPT !.lowest = aq.highest - 1,
               !.store_seq = @ \ (aq.lowest..(aq.highest - 1))]

-----------------------------------------------------------------------------
(* The methods.                                                            *)

\* add
Add(aq, sequence) ==
    IF aq.lowest <= sequence /\ sequence \notin aq.store_seq
    THEN [aq EXCEPT !.highest = IF @ <= sequence THEN sequence + 1 ELSE @,
                    !.store_seq = @ \cup {sequence}]
    ELSE aq

\* the numbers the loop of clear visits, those it has seen and the others
Window(aq)  == aq.lowest..(aq.highest - 1)
Missing(aq) == Window(aq) \ aq.store_seq

\* `received` of clear: the longest runs of consecutive numbers seen
AckRanges(aq) ==
    LET seen == aq.store_seq \cap Window(aq)
    IN  {r \in seen \X seen : /\ r[1] <= r[2]
                              /\ r[1]..r[2] \subseteq seen
                              /\ r[1] - 1 \notin seen
                              /\ r[2] + 1 \notin seen}

\* clear: the numbers visited are taken out, seen or not
AfterClear(aq) ==
    [aq EXCEPT !.lowest = aq.highest,
               !.store_seq = @ \ Window(aq)]
=============================================================================
