---------------------------- MODULE MCNegotiation ----------------------------
(* Negotiation over paths on both sides of the three probes, and messages of  *)
(* lengths on both sides of every boundary of send_to.                        *)
EXTENDS Negotiation

V4Client == [ip |-> <<10, 0, 0, 255>>, port |-> 50321]
V4Server == [ip |-> <<127, 0, 0, 1>>, port |-> 19132]
V6Client == [ip |-> Times(0, 15) \o <<1>>, port |-> 50321]
V6Server == [ip |-> <<32, 1, 13, 184>> \o Times(0, 11) \o <<2>>, port |-> 19133]

MCGuid == <<0, 0, 0, 0, 0, 1, 191, 82>>
MCTime == <<0, 0, 1, 125, 255, 8, 16, 32>>

MCPaths == {1500, 1492, 1491, 1200, 1199, 580, 579}

\* a new session, and one whose next numbers need all of their 24 and 16 bits
MCCounters == { [message_index |-> 1, order_index |-> 1, split_id |-> 0],
                [message_index |-> U24 - 2, order_index |-> U24 - 1, split_id |-> U16 - 1] }

Around(n) == {n - 1, n, n + 1}

MCLengths(m) ==
    {0, 1} \cup Around(U16) \cup {U16 + 600, U16 + 3000} \cup Around(m - 46)
    \cup UNION {Around(k * MaxPiece(m)) : k \in 1..3}
    \cup Around((U16 \div MaxPiece(m)) * MaxPiece(m))
=============================================================================
