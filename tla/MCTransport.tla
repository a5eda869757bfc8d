---------------------------- MODULE MCTransport ----------------------------
(* A session whose user sends whole messages, split ones and odd ones. *)
EXTENDS Transport

Sizes(kind, parts) == [kind |-> kind, parts |-> parts]
MCMessages ==
    {Sizes("data", 1), Sizes("data", 2), Sizes("ping", 1), Sizes("empty", 1), Sizes("bye", 1)}

\* every frame the messages and the byes can become
MCFrame == UNION {ToSet(FramesFor(m, n, id)) :
                     m \in Messages \cup {Bye}, n \in 0..MaxFrames, id \in 0..(SplitIds - 1)}
MCLength == [f \in MCFrame |-> 2]
MCSplit == {f \in MCFrame : f.split}
=============================================================================
