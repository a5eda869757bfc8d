-------------------------- MODULE OrderedDelivery --------------------------
(***************************************************************************)
(* What a reliable ordered channel promises: the receiver is handed the    *)
(* messages of the sender, each once, whole and in the order of sending,   *)
(* until the channel closes.                                               *)
(***************************************************************************)
EXTENDS Naturals, Sequences

CONSTANT Message   \* the messages there are

VARIABLES
    sent,        \* the messages of the sender
    delivered,   \* the messages handed to the receiver's user
    closed       \* the receiver has closed its end

vars == <<sent, delivered, closed>>

Init == sent = << >> /\ delivered = << >> /\ closed = FALSE

Send == /\ \E m \in Message : sent' = Append(sent, m)
        /\ UNCHANGED <<delivered, closed>>

\* any number of messages that are next in line
Delivered ==
    \E count \in (Len(delivered) + 1)..Len(sent) : delivered' = SubSeq(sent, 1, count)

Deliver == ~ closed /\ Delivered /\ UNCHANGED <<sent, closed>>

\* the end may come right behind the last messages handed on
Close ==
    /\ ~ closed /\ closed' = TRUE
    /\ Delivered \/ UNCHANGED delivered
    /\ UNCHANGED sent

Next == Send \/ Deliver \/ Close

Spec == Init /\ [][Next]_vars

\* Everything sent is delivered, given the chance, unless the channel closes.
FairSpec == Spec /\ WF_vars(Deliver)
=============================================================================
