---------------------------- MODULE ClientProofs ----------------------------
(***************************************************************************)
(* The safety of Client for any servers, any datagrams and any bounds: a   *)
(* session is greeted once and by its own accept, always has its interval, *)
(* and no mediator in charge goes unheard.                                 *)
(***************************************************************************)
EXTENDS Client, SequenceTheorems, TLAPS

\* what waits in RakClient's mailbox, and a mediator
Message ==
    [type : {"connect"}, addr : Servers]
        \cup [type : {"disconnect", "end"}]
        \cup [type : {"udp"}, addr : Servers, kind : Incoming]
        \cup [type : {"mediator"}, event : {"failed", "success"}, from : Nat]
        \cup [type : {"datagram"}, kind : Kinds, by : Nat]
MediatorMessage == Incoming \cup {"terminate"}
Mediator ==
    [alive : BOOLEAN, count : 1..Requests, handle : BOOLEAN, retry : BOOLEAN,
     disconnect_timer : BOOLEAN, deadline : BOOLEAN, mailbox : Seq(MediatorMessage)]

\* TypeOK needs that each session and the mediator in charge have a connect() of
\* their own: a success ends the mediator it is taken for.
Typed ==
    /\ TypeOK
    /\ mediators \in Seq(Mediator)
    /\ sessions \in Nat
    /\ sessions + (IF mediator = 0 THEN 0 ELSE 1) <= Len(mediators)
    /\ greeted \in Seq([session : Nat, by : Nat, own : BOOLEAN])

\* What waits for RakClient.  An event is of a mediator that was made; a datagram
\* of another session is left only if the session there is came from a stale
\* success; and nothing the mediator in charge says is ahead of a datagram: it
\* was posted while there was no mediator.
FromsMade ==
    \A i \in DOMAIN mailbox :
        mailbox[i].type = "mediator" => mailbox[i].from \in 1..Len(mediators)
OwnDatagrams ==
    \A i \in DOMAIN mailbox :
        mailbox[i].type = "datagram" /\ session # NoSession /\ session.own
            => session.id = mailbox[i].by
NoNewsBefore ==
    \A i, j \in DOMAIN mailbox :
        mailbox[i].type = "datagram" /\ j < i /\ mailbox[j].type = "mediator" /\ mediator # 0
            => mailbox[j].from # mediator
MailboxInOrder ==
    /\ mailbox \in Seq(Message)
    /\ FromsMade
    /\ OwnDatagrams
    /\ NoNewsBefore

\* disconnect_handle is of the session there is, and no later than it was greeted
Greetings ==
    /\ SessionTicks
    /\ ConnectedByOwnAccept
    /\ session # NoSession /\ disconnect_handle # 0 => session.id = disconnect_handle
    /\ \A k \in DOMAIN greeted :
          /\ greeted[k].session <= sessions
          /\ disconnect_handle # 0 => greeted[k].session < disconnect_handle

\* the mediator in charge was not told to terminate
Undisturbed(d) == \A k \in DOMAIN d.mailbox : d.mailbox[k] # "terminate"
Mediation ==
    /\ MediatorAttended
    /\ mediator # 0 => Undisturbed(mediators[mediator])

\* The inductive invariant.
IInv == Typed /\ MailboxInOrder /\ Greetings /\ Mediation

LEMMA InitIInv == Init => IInv
<1> SUFFICES ASSUME Init PROVE IInv
  OBVIOUS
<1>1. /\ DOMAIN mailbox = {} /\ DOMAIN mediators = {} /\ DOMAIN greeted = {}
      /\ Len(mediators) = 0
      /\ mailbox \in Seq(Message) /\ mediators \in Seq(Mediator)
      /\ greeted \in Seq([session : Nat, by : Nat, own : BOOLEAN])
  BY EmptySeq DEF Init
<1>2. Typed
  BY <1>1 DEF Init, Typed, TypeOK
<1>3. MailboxInOrder
  BY <1>1 DEF MailboxInOrder, FromsMade, OwnDatagrams, NoNewsBefore
<1>4. Greetings
  BY <1>1 DEF Init, Greetings, SessionTicks, ConnectedByOwnAccept
<1>5. Mediation
  BY DEF Init, Mediation, MediatorAttended
<1>. QED
  BY <1>2, <1>3, <1>4, <1>5 DEF IInv

-----------------------------------------------------------------------------
(* RakClient's mailbox.  A step takes d messages from its front (none or   *)
(* one), keeps l, and may post one behind them.                            *)

Shifted(d, l) ==
    /\ Len(mailbox) = l + d
    /\ mailbox' \in Seq(Message)
    /\ Len(mailbox') \in {l, l + 1}
    /\ \A i \in 1..l : mailbox'[i] = mailbox[i + d]
Taken(d)     == \E l \in Nat : Shifted(d, l) /\ Len(mailbox') = l
Posted(d, x) == \E l \in Nat : Shifted(d, l) /\ Len(mailbox') = l + 1 /\ mailbox'[l + 1] = x

\* Append, Tail and \o are such steps.
LEMMA Stays ==
    ASSUME mailbox \in Seq(Message), UNCHANGED mailbox
    PROVE  Taken(0)
<1>1. Len(mailbox) \in Nat
  BY LenProperties
<1>. QED
  BY <1>1 DEF Taken, Shifted

LEMMA Posts ==
    ASSUME mailbox \in Seq(Message), NEW x \in Message, mailbox' = Append(mailbox, x)
    PROVE  Posted(0, x)
<1>1. PICK l \in Nat : l = Len(mailbox)
  BY LenProperties
<1>2. /\ mailbox' \in Seq(Message)
      /\ Len(mailbox') = l + 1
      /\ \A i \in 1..l : mailbox'[i] = mailbox[i]
      /\ mailbox'[l + 1] = x
  BY <1>1, AppendProperties
<1>3. Shifted(0, l)
  BY <1>1, <1>2 DEF Shifted
<1>. QED
  BY <1>2, <1>3 DEF Posted

LEMMA PostsBehind ==
    ASSUME mailbox \in Seq(Message), NEW x \in Message, mailbox' = mailbox \o <<x>>
    PROVE  Posted(0, x)
BY AppendIsConcat, Posts

\* the head that is taken
LEMMA Takes1 ==
    ASSUME mailbox \in Seq(Message), mailbox # << >>
    PROVE  /\ Head(mailbox) \in Message
           /\ 1 \in DOMAIN mailbox /\ Head(mailbox) = mailbox[1]
<1>1. Len(mailbox) \in Nat \ {0} /\ DOMAIN mailbox = 1..Len(mailbox)
  BY EmptySeq, LenProperties
<1>2. Head(mailbox) \in Message
  BY HeadTailProperties
<1>. QED
  BY <1>1, <1>2

LEMMA Dones ==
    ASSUME mailbox \in Seq(Message), mailbox # << >>, Done(<< >>)
    PROVE  Taken(1)
<1>1. PICK l \in Nat : Len(mailbox) = l + 1
  <2>1. Len(mailbox) \in Nat \ {0}
    BY EmptySeq, LenProperties
  <2>2. Len(mailbox) - 1 \in Nat /\ Len(mailbox) = (Len(mailbox) - 1) + 1
    BY <2>1
  <2>. QED
    BY <2>2
<1>2. /\ Tail(mailbox) \in Seq(Message)
      /\ Len(Tail(mailbox)) = l
      /\ \A i \in 1..l : Tail(mailbox)[i] = mailbox[i + 1]
  <2>1. /\ Tail(mailbox) \in Seq(Message)
        /\ Len(Tail(mailbox)) = Len(mailbox) - 1
        /\ \A i \in 1..Len(Tail(mailbox)) : Tail(mailbox)[i] = mailbox[i + 1]
    BY HeadTailProperties
  <2>2. Len(Tail(mailbox)) = l
    BY <1>1, <2>1
  <2>. QED
    BY <2>1, <2>2
<1>3. mailbox' = Tail(mailbox)
  BY <1>2, ConcatEmptySeq DEF Done
<1>4. Shifted(1, l)
  BY <1>1, <1>2, <1>3 DEF Shifted
<1>. QED
  BY <1>2, <1>3, <1>4 DEF Taken

LEMMA DonePosts ==
    ASSUME mailbox \in Seq(Message), mailbox # << >>, NEW x \in Message, Done(<<x>>)
    PROVE  Posted(1, x)
<1>1. PICK l \in Nat : Len(mailbox) = l + 1
  <2>1. Len(mailbox) \in Nat \ {0}
    BY EmptySeq, LenProperties
  <2>2. Len(mailbox) - 1 \in Nat /\ Len(mailbox) = (Len(mailbox) - 1) + 1
    BY <2>1
  <2>. QED
    BY <2>2
<1>2. PICK t \in Seq(Message) :
         /\ t = Tail(mailbox)
         /\ Len(t) = l
         /\ \A i \in 1..l : t[i] = mailbox[i + 1]
  <2>1. /\ Tail(mailbox) \in Seq(Message)
        /\ Len(Tail(mailbox)) = Len(mailbox) - 1
        /\ \A i \in 1..Len(Tail(mailbox)) : Tail(mailbox)[i] = mailbox[i + 1]
    BY HeadTailProperties
  <2>2. Len(Tail(mailbox)) = l
    BY <1>1, <2>1
  <2>. QED
    BY <2>1, <2>2
<1>3. mailbox' = Append(t, x)
  BY <1>2, AppendIsConcat DEF Done
<1>4. /\ mailbox' \in Seq(Message)
      /\ Len(mailbox') = l + 1
      /\ \A i \in 1..l : mailbox'[i] = t[i]
      /\ mailbox'[l + 1] = x
  BY <1>2, <1>3, AppendProperties
<1>5. Shifted(1, l)
  BY <1>1, <1>2, <1>4 DEF Shifted
<1>. QED
  BY <1>4, <1>5 DEF Posted

\* A step that makes no session of the mediator in charge, and puts none in
\* charge but a new one.
Onward ==
    /\ Len(mediators) \in Nat /\ Len(mediators') \in Nat
    /\ Len(mediators) <= Len(mediators')
    /\ session' # NoSession /\ session'.own
          => session # NoSession /\ session.own /\ session.id = session'.id
    /\ mediator' \in Nat
    /\ mediator' = 0 \/ mediator' = mediator \/ Len(mediators) < mediator'

\* A message that takes no order among the others.
Harmless(x) == x.type # "datagram" /\ (x.type = "mediator" => x.from \in 1..Len(mediators'))
\* What waits after a step waited before it, or was posted by it.
LEMMA OldOrNew ==
    ASSUME mailbox \in Seq(Message), NEW d \in 0..1, NEW l \in Nat, Shifted(d, l),
           NEW i \in DOMAIN mailbox'
    PROVE  \/ i \in 1..l /\ i + d \in DOMAIN mailbox /\ mailbox'[i] = mailbox[i + d]
           \/ i = l + 1 /\ Len(mailbox') = l + 1
<1>1. PICK n \in Nat, p \in Nat :
         /\ p = l + d /\ DOMAIN mailbox = 1..p
         /\ n = l \/ n = l + 1
         /\ n = Len(mailbox') /\ DOMAIN mailbox' = 1..n
  <2>1. /\ DOMAIN mailbox = 1..(l + d)
        /\ DOMAIN mailbox' = 1..Len(mailbox')
        /\ Len(mailbox') \in Nat
        /\ Len(mailbox') = l \/ Len(mailbox') = l + 1
    BY LenProperties DEF Shifted
  <2>2. l + d \in Nat
    OBVIOUS
  <2>. QED
    BY <2>1, <2>2
<1>2. i \in 1..l \/ (i = l + 1 /\ n = l + 1)
  BY <1>1
<1>3. CASE i \in 1..l
  <2>1. i + d \in DOMAIN mailbox
    BY <1>1, <1>3
  <2>. QED
    BY <1>3, <2>1 DEF Shifted
<1>. QED
  BY <1>1, <1>2, <1>3

HarmlessBehind(l) == Len(mailbox') = l + 1 => Harmless(mailbox'[l + 1])

LEMMA MailboxKept ==
    ASSUME MailboxInOrder, Onward, NEW d \in 0..1, NEW l \in Nat, Shifted(d, l), HarmlessBehind(l)
    PROVE  MailboxInOrder'
<1>1. ASSUME NEW i \in DOMAIN mailbox'
      PROVE  \/ i \in 1..l /\ i + d \in DOMAIN mailbox /\ mailbox'[i] = mailbox[i + d]
             \/ i = l + 1 /\ Harmless(mailbox'[i])
  BY OldOrNew DEF MailboxInOrder, HarmlessBehind
<1>2. FromsMade'
  <2> SUFFICES ASSUME NEW i \in DOMAIN mailbox', mailbox'[i].type = "mediator"
               PROVE  mailbox'[i].from \in 1..Len(mediators')
    BY DEF FromsMade
  <2>1. CASE i \in 1..l /\ i + d \in DOMAIN mailbox /\ mailbox'[i] = mailbox[i + d]
    <3>1. mailbox'[i].from \in 1..Len(mediators)
      BY <2>1 DEF MailboxInOrder, FromsMade
    <3>. QED
      BY <3>1 DEF Onward
  <2>2. CASE i = l + 1 /\ Harmless(mailbox'[i])
    BY <2>2 DEF Harmless
  <2>. QED
    BY <1>1, <2>1, <2>2
<1>3. OwnDatagrams'
  <2> SUFFICES ASSUME NEW i \in DOMAIN mailbox', mailbox'[i].type = "datagram",
                      session' # NoSession, session'.own
               PROVE  session'.id = mailbox'[i].by
    BY DEF OwnDatagrams
  <2>1. i + d \in DOMAIN mailbox /\ mailbox'[i] = mailbox[i + d]
    BY <1>1 DEF Harmless
  <2>2. session # NoSession /\ session.own /\ session.id = session'.id
    BY DEF Onward
  <2>. QED
    BY <2>1, <2>2 DEF MailboxInOrder, OwnDatagrams
<1>4. NoNewsBefore'
  <2> SUFFICES ASSUME NEW i \in DOMAIN mailbox', NEW j \in DOMAIN mailbox',
                      mailbox'[i].type = "datagram", j < i,
                      mailbox'[j].type = "mediator", mediator' # 0
               PROVE  mailbox'[j].from # mediator'
    BY DEF NoNewsBefore
  <2>1. i \in 1..l /\ i + d \in DOMAIN mailbox /\ mailbox'[i] = mailbox[i + d]
    BY <1>1 DEF Harmless
  <2>2. j + d \in DOMAIN mailbox /\ mailbox'[j] = mailbox[j + d] /\ j + d < i + d
    <3>1. j \in 1..l /\ j + d \in DOMAIN mailbox /\ mailbox'[j] = mailbox[j + d]
      BY <1>1, <2>1 DEF Harmless
    <3>2. j + d < i + d
      BY <2>1, <3>1
    <3>. QED
      BY <3>1, <3>2
  <2>3. CASE mediator' = mediator
    BY <2>1, <2>2, <2>3 DEF MailboxInOrder, NoNewsBefore
  <2>4. CASE Len(mediators) < mediator'
    <3>1. mailbox'[j].from \in 1..Len(mediators)
      BY <2>2 DEF MailboxInOrder, FromsMade
    <3>. QED
      BY <2>4, <3>1 DEF Onward
  <2>. QED
    BY <2>3, <2>4 DEF Onward
<1>. QED
  BY <1>2, <1>3, <1>4 DEF MailboxInOrder, Shifted

LEMMA TakenInOrder ==
    ASSUME MailboxInOrder, Onward, NEW d \in 0..1, Taken(d)
    PROVE  MailboxInOrder'
<1>1. PICK l \in Nat : Shifted(d, l) /\ Len(mailbox') = l
  BY DEF Taken
<1>2. HarmlessBehind(l)
  BY <1>1 DEF HarmlessBehind
<1>. QED
  BY <1>1, <1>2, MailboxKept

LEMMA PostedInOrder ==
    ASSUME MailboxInOrder, Onward, NEW d \in 0..1, NEW x, Posted(d, x), Harmless(x)
    PROVE  MailboxInOrder'
<1>1. PICK l \in Nat : Shifted(d, l) /\ Len(mailbox') = l + 1 /\ mailbox'[l + 1] = x
  BY DEF Posted
<1>. QED
  BY <1>1, MailboxKept DEF HarmlessBehind

-----------------------------------------------------------------------------
(* The other parts, where a step leaves them alone.                        *)

LEMMA Fields ==
    ASSUME Typed
    PROVE  /\ Len(mediators) \in Nat /\ DOMAIN mediators = 1..Len(mediators)
           /\ \A m \in DOMAIN mediators : mediators[m] \in Mediator
           /\ mediator \in Nat
           /\ mediator # 0 => mediator \in DOMAIN mediators
           /\ Len(greeted) \in Nat /\ DOMAIN greeted = 1..Len(greeted)
<1>1. /\ Len(mediators) \in Nat /\ DOMAIN mediators = 1..Len(mediators)
      /\ \A m \in DOMAIN mediators : mediators[m] \in Mediator
      /\ Len(greeted) \in Nat /\ DOMAIN greeted = 1..Len(greeted)
  BY LenProperties, ElementOfSeq DEF Typed
<1>2. mediator \in 0..Len(mediators)
  BY DEF Typed, TypeOK
<1>. QED
  BY <1>1, <1>2

LEMMA SameOnward ==
    ASSUME Typed, UNCHANGED <<session, mediator>>, Len(mediators') = Len(mediators)
    PROVE  Onward
BY Fields DEF Onward

\* A step that touches neither the greeted nor what may greet.
LEMMA SameGreetings ==
    ASSUME Greetings, UNCHANGED <<session, ticks, disconnect_handle, greeted, sessions>>
    PROVE  Greetings'
BY DEF Greetings, SessionTicks, ConnectedByOwnAccept

\* The mediator in charge stays as it is, or there is none; and if it was waited
\* for, what it said is not taken out of the mailbox.
LEMMA SameMediation ==
    ASSUME Mediation, MailboxInOrder, NEW d \in 0..1, NEW l \in Nat, Shifted(d, l),
           d = 1 => mailbox[1].type # "mediator" \/ mediator' = 0,
           mediator' # 0 => /\ mediator' = mediator
                            /\ Undisturbed(mediators'[mediator])
                            /\ \/ mediators'[mediator].deadline <=> mediators[mediator].deadline
                               \/ \E k \in DOMAIN mailbox' : mailbox'[k].type = "mediator",
           panicked' = "no" => panicked = "no"
    PROVE  Mediation'
<1>1. ASSUME panicked' = "no", mediator' # 0
      PROVE  \/ mediators'[mediator'].deadline
             \/ \E k \in DOMAIN mailbox' : mailbox'[k].type = "mediator"
  <2>1. \/ mediators[mediator].deadline
        \/ \E k \in DOMAIN mailbox : mailbox[k].type = "mediator"
    BY <1>1 DEF Mediation, MediatorAttended
  <2>2. CASE mediators[mediator].deadline
    BY <1>1, <2>2
  <2>3. CASE \E k \in DOMAIN mailbox : mailbox[k].type = "mediator"
    <3>1. PICK k \in DOMAIN mailbox : mailbox[k].type = "mediator"
      BY <2>3
    <3>2. PICK n \in Nat : /\ DOMAIN mailbox = 1..(l + d) /\ DOMAIN mailbox' = 1..n
                           /\ n = l \/ n = l + 1
      BY LenProperties DEF MailboxInOrder, Shifted
    <3>3. PICK i \in 1..l : k = i + d
      <4>1. ~ (d = 1 /\ k = 1)
        BY <1>1, <3>1
      <4>2. k - d \in 1..l /\ k = (k - d) + d
        BY <3>1, <3>2, <4>1
      <4>. QED
        BY <4>2
    <3>4. i \in DOMAIN mailbox'
      BY <3>2, <3>3
    <3>5. mailbox'[i] = mailbox[k]
      BY <3>3 DEF Shifted
    <3>. QED
      BY <3>1, <3>4, <3>5
  <2>. QED
    BY <2>1, <2>2, <2>3
<1>2. mediator' # 0 => Undisturbed(mediators'[mediator'])
  OBVIOUS
<1>3. MediatorAttended'
  BY <1>1 DEF MediatorAttended
<1>4. (mediator # 0 => Undisturbed(mediators[mediator]))'
  BY <1>2 DEF Undisturbed
<1>. QED
  BY <1>3, <1>4 DEF Mediation

-----------------------------------------------------------------------------
(* Steps that leave the mediators alone and make no session.               *)

\* a session is left as it is, marked disconnected, or given up
SessionGoesOn == session' = session \/ (session # NoSession /\ session' = SessionEnded)

LEMMA SameSession ==
    ASSUME Typed, SessionGoesOn
    PROVE  /\ session' = NoSession \/ session' \in [id : 1..sessions, disconnected : BOOLEAN, own : BOOLEAN]
           /\ session' # NoSession => /\ session # NoSession
                                      /\ session'.id = session.id
                                      /\ session'.own = session.own
<1>1. session = NoSession \/ session \in [id : 1..sessions, disconnected : BOOLEAN, own : BOOLEAN]
  BY DEF Typed, TypeOK
<1>2. CASE session' = session
  BY <1>1, <1>2
<1>3. CASE session # NoSession /\ session' = SessionEnded
  BY <1>1, <1>3 DEF SessionEnded
<1>. QED
  BY <1>2, <1>3 DEF SessionGoesOn

LEMMA QuietStep ==
    ASSUME IInv, NEW d \in 0..1, Taken(d) \/ (\E x : Posted(d, x) /\ Harmless(x)),
           d = 1 => mailbox[1].type # "mediator" \/ mediator = 0,
           SessionGoesOn \/ session' = NoSession,
           session' # NoSession => UNCHANGED ticks,
           ticks' \subseteq ticks, timeouts' \subseteq timeouts,
           remote' \in Servers \cup {0},
           user' \in {"idle", "waiting", "connected"},
           panicked' \in {panicked, "empty"},
           UNCHANGED <<mediator, disconnect_handle, tick_handle, mediators, sessions, greeted>>
    PROVE  IInv'
<1>1. /\ session' = NoSession \/ session' \in [id : 1..sessions, disconnected : BOOLEAN, own : BOOLEAN]
      /\ session' # NoSession => /\ session # NoSession
                                 /\ session'.id = session.id
                                 /\ session'.own = session.own
  BY SameSession DEF IInv
<1>2. Typed'
  <2>1. TypeOK'
    BY <1>1 DEF IInv, Typed, TypeOK
  <2>. QED
    BY <2>1 DEF IInv, Typed
<1>3. Onward
  BY <1>1, Fields DEF IInv, Onward
<1>4. MailboxInOrder'
  <2>1. CASE Taken(d)
    BY <1>3, <2>1, TakenInOrder DEF IInv
  <2>2. CASE \E x : Posted(d, x) /\ Harmless(x)
    BY <1>3, <2>2, PostedInOrder DEF IInv
  <2>. QED
    BY <2>1, <2>2
<1>5. Greetings'
  <2>1. SessionTicks'
    BY <1>1 DEF IInv, Greetings, SessionTicks
  <2>2. ConnectedByOwnAccept'
    BY DEF IInv, Greetings, ConnectedByOwnAccept
  <2>3. (session # NoSession /\ disconnect_handle # 0 => session.id = disconnect_handle)'
    BY <1>1 DEF IInv, Greetings
  <2>. QED
    BY <2>1, <2>2, <2>3 DEF IInv, Greetings
<1>6. PICK l \in Nat : Shifted(d, l)
  BY DEF Taken, Posted
<1>7. Mediation'
  BY <1>6, SameMediation DEF IInv, Mediation
<1>. QED
  BY <1>2, <1>4, <1>5, <1>7 DEF IInv

\* The messages that are posted.
LEMMA Messages ==
    /\ \A a \in Servers : [type |-> "connect", addr |-> a] \in Message
    /\ [type |-> "disconnect"] \in Message
    /\ [type |-> "end"] \in Message
    /\ \A a \in Servers, kind \in Incoming :
          [type |-> "udp", addr |-> a, kind |-> kind] \in Message
    /\ \A e \in {"failed", "success"}, m \in Nat :
          [type |-> "mediator", event |-> e, from |-> m] \in Message
    /\ \A kind \in Kinds, s \in Nat :
          [type |-> "datagram", kind |-> kind, by |-> s] \in Message
BY DEF Message

\* What the user and the network do.
LEMMA ConnectIInv == ASSUME IInv, NEW a \in Servers, Connect(a) PROVE IInv'
<1>1. Posted(0, [type |-> "connect", addr |-> a])
  BY Posts, Messages DEF Connect, Post, IInv, MailboxInOrder
<1>2. Harmless([type |-> "connect", addr |-> a])
  BY DEF Harmless
<1>3. /\ SessionGoesOn
      /\ remote' \in Servers \cup {0}
      /\ user' \in {"idle", "waiting", "connected"}
      /\ UNCHANGED <<ticks, timeouts, mediator, disconnect_handle, tick_handle, mediators,
                     panicked, sessions, greeted>>
  BY DEF Connect, actor, SessionGoesOn, IInv, Typed, TypeOK
<1>. QED
  BY <1>1, <1>2, <1>3, QuietStep

LEMMA DisconnectIInv == ASSUME IInv, Disconnect PROVE IInv'
<1>1. Posted(0, [type |-> "disconnect"])
  BY Posts, Messages DEF Disconnect, Post, IInv, MailboxInOrder
<1>2. Harmless([type |-> "disconnect"])
  BY DEF Harmless
<1>3. /\ SessionGoesOn
      /\ remote' \in Servers \cup {0}
      /\ user' \in {"idle", "waiting", "connected"}
      /\ UNCHANGED <<ticks, timeouts, mediator, disconnect_handle, tick_handle, mediators,
                     panicked, sessions, greeted>>
  BY DEF Disconnect, actor, SessionGoesOn, IInv, Typed, TypeOK
<1>. QED
  BY <1>1, <1>2, <1>3, QuietStep

LEMMA ArriveIInv ==
    ASSUME IInv, NEW a \in Servers, NEW kind \in Incoming, Arrive(a, kind)
    PROVE  IInv'
<1> DEFINE x == [type |-> "udp", addr |-> a, kind |-> kind]
<1>1. Posted(0, x)
  <2>1. [k \in DOMAIN <<kind>> |-> [type |-> "udp", addr |-> a, kind |-> <<kind>>[k]]] = <<x>>
    OBVIOUS
  <2>2. mailbox' = mailbox \o <<x>>
    BY <2>1 DEF Arrive, Deliver
  <2>3. x \in Message
    BY Messages
  <2>. QED
    BY <2>2, <2>3, PostsBehind DEF IInv, MailboxInOrder
<1>2. Harmless(x)
  BY DEF Harmless
<1>3. /\ SessionGoesOn
      /\ remote' \in Servers \cup {0}
      /\ user' \in {"idle", "waiting", "connected"}
      /\ UNCHANGED <<ticks, timeouts, mediator, disconnect_handle, tick_handle, mediators,
                     panicked, sessions, greeted>>
  BY DEF Arrive, Deliver, actor, SessionGoesOn, IInv, Typed, TypeOK
<1>. HIDE DEF x
<1>. QED
  BY <1>1, <1>2, <1>3, QuietStep

-----------------------------------------------------------------------------
(* RakClient's handlers and timers that leave the mediators alone.         *)

LEMMA ClientDisconnectIInv == ASSUME IInv, ClientDisconnect PROVE IInv'
<1>1. mailbox \in Seq(Message) /\ mailbox # << >> /\ Head(mailbox) = mailbox[1]
      /\ mailbox[1].type # "mediator"
  BY Takes1 DEF ClientDisconnect, Takes, IInv, MailboxInOrder
<1>2. Taken(1) \/ (\E x : Posted(1, x) /\ Harmless(x))
  <2>1. CASE session = NoSession
    BY <1>1, <2>1, Dones DEF ClientDisconnect
  <2>2. CASE session # NoSession
    <3>1. Posted(1, [type |-> "end"])
      BY <1>1, <2>2, DonePosts, Messages DEF ClientDisconnect, EndPosts
    <3>. QED
      BY <3>1 DEF Harmless
  <2>. QED
    BY <2>1, <2>2
<1>3. /\ SessionGoesOn
      /\ remote' \in Servers \cup {0}
      /\ user' \in {"idle", "waiting", "connected"}
      /\ UNCHANGED <<ticks, timeouts, mediator, disconnect_handle, tick_handle, mediators,
                     panicked, sessions, greeted>>
  BY DEF ClientDisconnect, SessionGoesOn, IInv, Typed, TypeOK
<1>. QED
  BY <1>1, <1>2, <1>3, QuietStep

LEMMA ClientSessionEndIInv == ASSUME IInv, ClientSessionEnd PROVE IInv'
<1>1. mailbox \in Seq(Message) /\ mailbox # << >> /\ mailbox[1].type # "mediator"
  BY Takes1 DEF ClientSessionEnd, Takes, IInv, MailboxInOrder
<1>2. Taken(1)
  BY <1>1, Dones DEF ClientSessionEnd
<1>3. /\ session' = NoSession
      /\ remote' \in Servers \cup {0}
      /\ user' \in {"idle", "waiting", "connected"}
      /\ UNCHANGED <<ticks, timeouts, mediator, disconnect_handle, tick_handle, mediators,
                     panicked, sessions, greeted>>
  BY DEF ClientSessionEnd, Tell
<1>. QED
  BY <1>1, <1>2, <1>3, QuietStep

LEMMA ConnectionTimeoutIInv == ASSUME IInv, NEW s \in Ids, ConnectionTimeout(s) PROVE IInv'
<1>1. Taken(0)
  BY Stays DEF ConnectionTimeout, IInv, MailboxInOrder
<1>2. /\ SessionGoesOn
      /\ remote' \in Servers \cup {0}
      /\ user' \in {"idle", "waiting", "connected"}
      /\ timeouts' \subseteq timeouts
      /\ UNCHANGED <<ticks, mediator, disconnect_handle, tick_handle, mediators,
                     panicked, sessions, greeted>>
  BY DEF ConnectionTimeout, Tell, SessionGoesOn, IInv, Typed, TypeOK
<1>. QED
  BY <1>1, <1>2, QuietStep

LEMMA UpdateIInv == ASSUME IInv, NEW s \in Ids, Update(s) PROVE IInv'
<1>1. Taken(0)
  BY Stays DEF Update, IInv, MailboxInOrder
<1>2. /\ session' = NoSession
      /\ remote' \in Servers \cup {0}
      /\ user' \in {"idle", "waiting", "connected"}
      /\ ticks' \subseteq ticks
      /\ UNCHANGED <<timeouts, mediator, disconnect_handle, tick_handle, mediators,
                     panicked, sessions, greeted>>
  BY DEF Update, IInv, Typed, TypeOK
<1>. QED
  BY <1>1, <1>2, QuietStep

LEMMA UpdateSilentIInv == ASSUME IInv, NEW s \in Ids, UpdateSilent(s) PROVE IInv'
<1>1. Posted(0, [type |-> "end"])
  BY PostsBehind, Messages DEF UpdateSilent, EndPosts, IInv, MailboxInOrder
<1>2. Harmless([type |-> "end"])
  BY DEF Harmless
<1>3. /\ SessionGoesOn
      /\ remote' \in Servers \cup {0}
      /\ user' \in {"idle", "waiting", "connected"}
      /\ UNCHANGED <<ticks, timeouts, mediator, disconnect_handle, tick_handle, mediators,
                     panicked, sessions, greeted>>
  BY DEF UpdateSilent, SessionGoesOn, IInv, Typed, TypeOK
<1>. QED
  BY <1>1, <1>2, <1>3, QuietStep

-----------------------------------------------------------------------------
(* RakClient's handlers that reach a mediator or make a session.           *)

LEMMA Counts ==
    ASSUME NEW s \in Seq(Mediator)
    PROVE  \A n \in DOMAIN s : s[n].count \in 1..Requests
<1>1. \A n \in DOMAIN s : s[n] \in Mediator
  BY ElementOfSeq, LenProperties
<1>. QED
  BY <1>1 DEF Mediator

\* One mediator changes.
LEMMA OneMediator ==
    ASSUME Typed, NEW m \in DOMAIN mediators, NEW e \in Mediator,
           mediators' = [mediators EXCEPT ![m] = e]
    PROVE  /\ mediators' \in Seq(Mediator)
           /\ Len(mediators') = Len(mediators)
           /\ DOMAIN mediators' = DOMAIN mediators
           /\ mediators'[m] = e
           /\ \A n \in DOMAIN mediators : n # m => mediators'[n] = mediators[n]
<1>1. mediators \in Seq(Mediator) /\ m \in 1..Len(mediators) /\ DOMAIN mediators = 1..Len(mediators)
  BY Fields DEF Typed
<1>2. /\ mediators' \in Seq(Mediator)
      /\ Len(mediators') = Len(mediators)
      /\ \A j \in 1..Len(mediators) : mediators'[j] = IF j = m THEN e ELSE mediators[j]
  BY <1>1, ExceptSeq
<1>3. DOMAIN mediators' = 1..Len(mediators')
  BY <1>2, LenProperties
<1>. QED
  BY <1>1, <1>2, <1>3

\* A mediator d with kind at the end of its mailbox.
Sent(d, kind) == [d EXCEPT !.mailbox = Append(@, kind)]

LEMMA SentMediator ==
    ASSUME NEW d \in Mediator, NEW kind \in MediatorMessage
    PROVE  /\ Sent(d, kind) \in Mediator
           /\ Sent(d, kind).deadline = d.deadline
           /\ kind # "terminate" /\ Undisturbed(d) => Undisturbed(Sent(d, kind))
<1>1. d.mailbox \in Seq(MediatorMessage)
  BY DEF Mediator
<1>2. PICK l \in Nat : l = Len(d.mailbox) /\ DOMAIN d.mailbox = 1..l
  BY <1>1, LenProperties
<1>3. PICK box : box = Append(d.mailbox, kind)
  OBVIOUS
<1>4. /\ box \in Seq(MediatorMessage)
      /\ DOMAIN box = 1..(l + 1)
      /\ \A k \in 1..l : box[k] = d.mailbox[k]
      /\ box[l + 1] = kind
  BY <1>1, <1>2, <1>3, AppendProperties, LenProperties
<1>5. /\ Sent(d, kind) = [d EXCEPT !.mailbox = box]
      /\ Sent(d, kind).mailbox = box
      /\ Sent(d, kind).deadline = d.deadline
      /\ Sent(d, kind) \in Mediator
  BY <1>3, <1>4 DEF Sent, Mediator
<1>6. ASSUME kind # "terminate", Undisturbed(d), NEW k \in DOMAIN box
      PROVE  box[k] # "terminate"
  BY <1>2, <1>4, <1>6 DEF Undisturbed
<1>. QED
  BY <1>5, <1>6 DEF Undisturbed

\* A datagram the session is handed, and that carries what it posts.
LEMMA DatagramPosted ==
    ASSUME IInv, mediator = 0, NEW x, Posted(1, x), x.by = session.id,
           UNCHANGED <<session, mediator, mediators>>
    PROVE  MailboxInOrder' \/ x.type = "mediator"
<1> SUFFICES ASSUME x.type # "mediator" PROVE MailboxInOrder'
  OBVIOUS
<1>1. PICK l \in Nat : Shifted(1, l) /\ mailbox'[l + 1] = x
  BY DEF Posted
<1>2. mailbox' \in Seq(Message)
  BY <1>1 DEF Shifted
<1>3. ASSUME NEW i \in DOMAIN mailbox'
      PROVE  (i + 1 \in DOMAIN mailbox /\ mailbox'[i] = mailbox[i + 1]) \/ mailbox'[i] = x
  BY <1>1, OldOrNew DEF IInv, MailboxInOrder
<1>4. FromsMade'
  BY <1>3 DEF IInv, MailboxInOrder, FromsMade
<1>5. OwnDatagrams'
  BY <1>3 DEF IInv, MailboxInOrder, OwnDatagrams
<1>6. NoNewsBefore'
  BY DEF NoNewsBefore
<1>. QED
  BY <1>2, <1>4, <1>5, <1>6 DEF MailboxInOrder

LEMMA ReceivedUdpIInv == ASSUME IInv, ReceivedUdp PROVE IInv'
<1> DEFINE msg == Head(mailbox)
<1>1. /\ mailbox \in Seq(Message) /\ mailbox # << >>
      /\ msg = mailbox[1] /\ msg.type = "udp" /\ msg.kind \in Incoming
      /\ panicked = "no"
  <2>1. mailbox \in Seq(Message) /\ mailbox # << >> /\ msg.type = "udp" /\ panicked = "no"
    BY DEF ReceivedUdp, Takes, IInv, MailboxInOrder
  <2>2. msg \in Message /\ msg = mailbox[1]
    BY <2>1, Takes1
  <2>. QED
    BY <2>1, <2>2 DEF Message
<1>2. /\ UNCHANGED <<remote, mediator, disconnect_handle, tick_handle, timeouts, ticks,
                     user, budget, sessions, greeted>>
      /\ panicked' \in {panicked, "empty"}
      /\ remote' \in Servers \cup {0}
      /\ user' \in {"idle", "waiting", "connected"}
  BY DEF ReceivedUdp, IInv, Typed, TypeOK
<1>3. mailbox[1].type # "mediator"
  BY <1>1
<1>4. msg.kind \in Kinds /\ msg.kind # "terminate"
  BY <1>1, ClientAssumption DEF Kinds
<1>5. CASE Done(<< >>) /\ UNCHANGED <<session, mediators>>
  <2>1. Taken(1)
    BY <1>1, <1>5, Dones
  <2>. QED
    BY <1>2, <1>3, <1>5, <2>1, QuietStep DEF SessionGoesOn
<1>6. CASE /\ mediator # 0
           /\ mediators' = [mediators EXCEPT ![mediator].mailbox = Append(@, msg.kind)]
           /\ Done(<< >>)
           /\ UNCHANGED session
  <2>1. PICK l \in Nat : Shifted(1, l) /\ Len(mailbox') = l
    BY <1>1, <1>6, Dones DEF Taken
  <2>2. mediator \in DOMAIN mediators /\ mediators[mediator] \in Mediator
    BY <1>6, Fields DEF IInv
  <2>3. PICK e \in Mediator : /\ e = Sent(mediators[mediator], msg.kind)
                              /\ e.deadline = mediators[mediator].deadline
                              /\ Undisturbed(mediators[mediator]) => Undisturbed(e)
    BY <1>1, <1>4, <2>2, SentMediator DEF MediatorMessage
  <2>4. mediators' = [mediators EXCEPT ![mediator] = e]
    BY <1>6, <2>3 DEF Sent
  <2>5. /\ mediators' \in Seq(Mediator)
        /\ Len(mediators') = Len(mediators)
        /\ DOMAIN mediators' = DOMAIN mediators
        /\ mediators'[mediator] = e
        /\ \A n \in DOMAIN mediators : n # mediator => mediators'[n] = mediators[n]
    BY <2>2, <2>4, OneMediator DEF IInv
  <2>6. Typed'
    <3>1. \A n \in DOMAIN mediators' : mediators'[n].count \in 1..Requests
      BY <2>5, Counts
    <3>2. TypeOK'
      BY <1>2, <1>6, <2>5, <3>1 DEF IInv, Typed, TypeOK
    <3>. QED
      BY <1>2, <2>5, <3>2 DEF IInv, Typed
  <2>7. MailboxInOrder'
    <3>1. Onward
      BY <1>2, <1>6, <2>5, SameOnward DEF IInv
    <3>. QED
      BY <2>1, <3>1, TakenInOrder DEF IInv, Taken
  <2>8. Greetings'
    BY <1>2, <1>6, SameGreetings DEF IInv
  <2>9. Mediation'
    <3>1. Undisturbed(mediators'[mediator])
      BY <1>6, <2>3, <2>5 DEF IInv, Mediation
    <3>2. mediators'[mediator].deadline <=> mediators[mediator].deadline
      BY <2>3, <2>5
    <3>. QED
      BY <1>2, <1>3, <2>1, <3>1, <3>2, SameMediation DEF IInv
  <2>. QED
    BY <2>6, <2>7, <2>8, <2>9 DEF IInv
<1>7. CASE /\ mediator = 0
           /\ session # NoSession
           /\ Done(SessionPosts(msg.kind))
           /\ session' = IF msg.kind = "bye" THEN SessionEnded ELSE session
           /\ UNCHANGED mediators
  <2>1. CASE msg.kind \in {"accept", "data"}
    <3> DEFINE x == [type |-> "datagram", kind |-> msg.kind, by |-> session.id]
    <3>1. Done(<<x>>)
      BY <1>7, <2>1 DEF SessionPosts
    <3>2. UNCHANGED session
      BY <1>7, <2>1
    <3>3. session.id \in Nat
      BY <1>7 DEF IInv, Typed, TypeOK
    <3>4. Posted(1, x)
      BY <1>1, <1>4, <3>1, <3>3, DonePosts, Messages
    <3>5. MailboxInOrder'
      <4>1. x.by = session.id /\ x.type # "mediator"
        OBVIOUS
      <4>. HIDE DEF x
      <4>. QED
        BY <1>2, <1>7, <3>2, <3>4, <4>1, DatagramPosted
    <3>6. Typed'
      <4>1. TypeOK'
        BY <1>2, <1>7, <3>2 DEF IInv, Typed, TypeOK
      <4>. QED
        BY <1>2, <1>7, <4>1 DEF IInv, Typed
    <3>7. Greetings'
      BY <1>2, <3>2, SameGreetings DEF IInv
    <3>8. Mediation'
      BY <1>2, <1>7 DEF Mediation, MediatorAttended
    <3>. QED
      BY <3>5, <3>6, <3>7, <3>8 DEF IInv
  <2>2. CASE msg.kind = "bye"
    <3>1. Posted(1, [type |-> "end"])
      <4>1. Done(<<[type |-> "end"]>>)
        BY <1>7, <2>2 DEF SessionPosts, EndPosts
      <4>. QED
        BY <1>1, <4>1, DonePosts, Messages
    <3>2. Harmless([type |-> "end"])
      BY DEF Harmless
    <3>3. SessionGoesOn
      BY <1>7, <2>2 DEF SessionGoesOn
    <3>. QED
      BY <1>2, <1>3, <1>7, <3>1, <3>2, <3>3, QuietStep
  <2>3. CASE msg.kind \notin {"accept", "data", "bye"}
    <3>1. Done(<< >>)
      BY <1>7, <2>3 DEF SessionPosts
    <3>2. Taken(1)
      BY <1>1, <3>1, Dones
    <3>3. SessionGoesOn
      BY <1>7, <2>3 DEF SessionGoesOn
    <3>. QED
      BY <1>2, <1>3, <1>7, <3>2, <3>3, QuietStep
  <2>. QED
    BY <2>1, <2>2, <2>3
<1>. QED
  BY <1>5, <1>6, <1>7 DEF ReceivedUdp

LEMMA ClientConnectIInv == ASSUME IInv, ClientConnect PROVE IInv'
<1>1. /\ mailbox \in Seq(Message) /\ mailbox # << >>
      /\ Head(mailbox).addr \in Servers
      /\ mailbox[1].type # "mediator"
      /\ panicked = "no"
  <2>1. mailbox \in Seq(Message) /\ mailbox # << >> /\ Head(mailbox).type = "connect" /\ panicked = "no"
    BY DEF ClientConnect, Takes, IInv, MailboxInOrder
  <2>2. Head(mailbox) \in Message /\ Head(mailbox) = mailbox[1]
    BY <2>1, Takes1
  <2>. QED
    BY <2>1, <2>2 DEF Message
<1>2. PICK n \in Nat : n = Len(mediators)
  BY Fields DEF IInv
<1>3. NewMediator \in Mediator /\ NewMediator.deadline = TRUE /\ Undisturbed(NewMediator)
  <2>1. 1 \in 1..Requests
    BY ClientAssumption
  <2>2. << >> \in Seq(MediatorMessage) /\ DOMAIN << >> = {}
    BY EmptySeq
  <2>. QED
    BY <2>1, <2>2 DEF NewMediator, Mediator, Undisturbed
<1>4. PICK e \in Mediator : e = NewMediator
  BY <1>3
<1>5. /\ mediators' \in Seq(Mediator)
      /\ Len(mediators') = n + 1
      /\ DOMAIN mediators' = 1..(n + 1)
      /\ mediators'[n + 1] = e
  <2>1. mediators' = Append(mediators, e) /\ mediators \in Seq(Mediator)
    BY <1>4 DEF ClientConnect, IInv, Typed
  <2>2. /\ mediators' \in Seq(Mediator)
        /\ Len(mediators') = n + 1
        /\ mediators'[n + 1] = e
    BY <1>2, <2>1, AppendProperties
  <2>. QED
    BY <2>2, LenProperties
<1>6. /\ mediator' = n + 1
      /\ remote' \in Servers
      /\ UNCHANGED <<session, disconnect_handle, tick_handle, timeouts, ticks,
                     panicked, user, sessions, greeted>>
  BY <1>1, <1>2 DEF ClientConnect
<1>7. Typed'
  <2>1. \A m \in DOMAIN mediators' : mediators'[m].count \in 1..Requests
    BY <1>5, Counts
  <2>2. sessions <= n /\ sessions \in Nat
    BY <1>2 DEF IInv, Typed, TypeOK
  <2>3. /\ sessions' \in Nat /\ sessions' <= Len(mediators')
        /\ mediator' \in 0..Len(mediators')
        /\ sessions' + (IF mediator' = 0 THEN 0 ELSE 1) <= Len(mediators')
    BY <1>5, <1>6, <2>2
  <2>4. TypeOK'
    BY <1>6, <2>1, <2>3 DEF IInv, Typed, TypeOK
  <2>. QED
    BY <1>5, <1>6, <2>3, <2>4 DEF IInv, Typed
<1>8. MailboxInOrder'
  <2>1. Onward
    BY <1>2, <1>5, <1>6 DEF Onward
  <2>2. Taken(1)
    BY <1>1, Dones DEF ClientConnect
  <2>. QED
    BY <2>1, <2>2, TakenInOrder DEF IInv
<1>9. Greetings'
  BY <1>6, SameGreetings DEF IInv
<1>10. Mediation'
  <2>1. mediators'[mediator'].deadline = TRUE /\ Undisturbed(mediators'[mediator'])
    BY <1>3, <1>4, <1>5, <1>6
  <2>. QED
    BY <2>1 DEF Mediation, MediatorAttended, Undisturbed
<1>. QED
  BY <1>7, <1>8, <1>9, <1>10 DEF IInv

\* The mediator in charge is told to terminate.
LEMMA Dropped ==
    ASSUME Typed, mediator # 0, DropMediator
    PROVE  /\ mediators' \in Seq(Mediator)
           /\ Len(mediators') = Len(mediators)
           /\ \A m \in DOMAIN mediators' : mediators'[m].count \in 1..Requests
           /\ mediator' = 0
<1>1. mediator \in DOMAIN mediators /\ mediators[mediator] \in Mediator
  BY Fields
<1>2. PICK e \in Mediator : e = Sent(mediators[mediator], "terminate")
  BY <1>1, SentMediator DEF MediatorMessage
<1>3. mediators' = [mediators EXCEPT ![mediator] = e]
  BY <1>2 DEF DropMediator, Sent
<1>4. mediators' \in Seq(Mediator) /\ Len(mediators') = Len(mediators)
  BY <1>1, <1>3, OneMediator
<1>5. \A m \in DOMAIN mediators' : mediators'[m].count \in 1..Requests
  BY <1>4, Counts
<1>. QED
  BY <1>4, <1>5 DEF DropMediator

\* A success makes a session.  If it is of the mediator in charge, no datagram
\* waits behind it.
LEMMA SuccessInOrder ==
    ASSUME IInv, mediator # 0, mailbox[1].type = "mediator", Taken(1),
           session' # NoSession => (session'.own <=> mailbox[1].from = mediator),
           mediator' = 0, Len(mediators') = Len(mediators)
    PROVE  MailboxInOrder'
<1>1. PICK l \in Nat : Shifted(1, l) /\ Len(mailbox') = l
  BY DEF Taken
<1>2. mailbox' \in Seq(Message)
  BY <1>1 DEF Shifted
<1>3. ASSUME NEW i \in DOMAIN mailbox'
      PROVE  /\ i + 1 \in DOMAIN mailbox /\ mailbox'[i] = mailbox[i + 1]
             /\ 1 \in DOMAIN mailbox /\ 1 < i + 1
  <2>1. i \in 1..l /\ i + 1 \in DOMAIN mailbox /\ mailbox'[i] = mailbox[i + 1]
    <3>1. Len(mailbox') # l + 1
      BY <1>1
    <3>. QED
      BY <1>1, <3>1, OldOrNew DEF IInv, MailboxInOrder
  <2>2. DOMAIN mailbox = 1..Len(mailbox) /\ Len(mailbox) \in Nat
    BY LenProperties DEF IInv, MailboxInOrder
  <2>3. 1 \in DOMAIN mailbox /\ 1 < i + 1
    BY <2>1, <2>2
  <2>. QED
    BY <2>1, <2>3
<1>4. FromsMade'
  BY <1>3 DEF IInv, MailboxInOrder, FromsMade
<1>5. OwnDatagrams'
  <2> SUFFICES ASSUME NEW i \in DOMAIN mailbox', mailbox'[i].type = "datagram",
                      session' # NoSession, session'.own
               PROVE  FALSE
    BY DEF OwnDatagrams
  <2>1. mailbox[1].from = mediator
    OBVIOUS
  <2>2. mailbox[i + 1].type = "datagram" /\ i + 1 \in DOMAIN mailbox /\ 1 \in DOMAIN mailbox /\ 1 < i + 1
    BY <1>3
  <2>3. mailbox[1].from # mediator
    BY <2>2 DEF IInv, MailboxInOrder, NoNewsBefore
  <2>. QED
    BY <2>1, <2>3
<1>6. NoNewsBefore'
  BY DEF NoNewsBefore
<1>. QED
  BY <1>2, <1>4, <1>5, <1>6 DEF MailboxInOrder

LEMMA MediatorEventIInv == ASSUME IInv, MediatorEvent PROVE IInv'
<1>1. /\ mailbox \in Seq(Message) /\ mailbox # << >>
      /\ Head(mailbox) = mailbox[1]
      /\ mailbox[1].type = "mediator"
      /\ panicked = "no"
      /\ UNCHANGED greeted
  BY Takes1 DEF MediatorEvent, Takes, IInv, MailboxInOrder
<1>2. Taken(1)
  BY <1>1, Dones DEF MediatorEvent
<1>3. CASE mediator = 0 /\ UNCHANGED <<actor, mediators, panicked, user, sessions>>
  <2>1. SessionGoesOn
    BY <1>3 DEF SessionGoesOn, actor
  <2>2. /\ remote' \in Servers \cup {0}
        /\ user' \in {"idle", "waiting", "connected"}
        /\ UNCHANGED <<ticks, timeouts, mediator, disconnect_handle, tick_handle, mediators,
                       panicked, sessions, greeted>>
    BY <1>1, <1>3 DEF actor, IInv, Typed, TypeOK
  <2>. QED
    BY <1>2, <1>3, <2>1, <2>2, QuietStep
<1>4. CASE /\ mediator # 0
           /\ Tell("idle")
           /\ DropMediator
           /\ UNCHANGED <<remote, session, disconnect_handle, tick_handle, timeouts, ticks,
                          panicked, sessions>>
  <2>1. /\ mediators' \in Seq(Mediator)
        /\ Len(mediators') = Len(mediators)
        /\ \A m \in DOMAIN mediators' : mediators'[m].count \in 1..Requests
        /\ mediator' = 0
    BY <1>4, Dropped DEF IInv
  <2>2. Typed'
    <3>1. TypeOK'
      BY <1>4, <2>1, Fields DEF IInv, Typed, TypeOK, Tell
    <3>. QED
      BY <1>1, <1>4, <2>1, <3>1, Fields DEF IInv, Typed, TypeOK
  <2>3. MailboxInOrder'
    <3>1. Onward
      BY <1>4, <2>1, Fields DEF IInv, Onward
    <3>. QED
      BY <1>2, <3>1, TakenInOrder DEF IInv
  <2>4. Greetings'
    BY <1>1, <1>4, SameGreetings DEF IInv
  <2>5. Mediation'
    BY <2>1 DEF Mediation, MediatorAttended
  <2>. QED
    BY <2>2, <2>3, <2>4, <2>5 DEF IInv
<1>5. CASE /\ mediator # 0
           /\ panicked' = "success" /\ UNCHANGED <<actor, mediators, sessions, user>>
  <2>1. UNCHANGED <<remote, mediator, session, disconnect_handle, tick_handle, timeouts, ticks>>
    BY <1>5 DEF actor
  <2>2. Typed'
    <3>1. TypeOK'
      BY <1>5, <2>1 DEF IInv, Typed, TypeOK
    <3>. QED
      BY <1>1, <1>5, <2>1, <3>1 DEF IInv, Typed
  <2>3. MailboxInOrder'
    <3>1. Onward
      BY <1>5, <2>1, SameOnward DEF IInv
    <3>. QED
      BY <1>2, <3>1, TakenInOrder DEF IInv
  <2>4. Greetings'
    BY <1>1, <1>5, <2>1, SameGreetings DEF IInv
  <2>5. Mediation'
    BY <1>5, <2>1 DEF IInv, Mediation, MediatorAttended, Undisturbed
  <2>. QED
    BY <2>2, <2>3, <2>4, <2>5 DEF IInv
<1>6. ASSUME mediator # 0, NEW s, s = sessions + 1, sessions' = s,
             session' = [id |-> s, disconnected |-> FALSE, own |-> Head(mailbox).from = mediator],
             ArmTimeout(s), ArmTick(s), DropMediator,
             UNCHANGED <<remote, panicked, user>>
      PROVE  IInv'
  <2>1. /\ mediators' \in Seq(Mediator)
        /\ Len(mediators') = Len(mediators)
        /\ \A m \in DOMAIN mediators' : mediators'[m].count \in 1..Requests
        /\ mediator' = 0
    BY <1>6, Dropped DEF IInv
  <2>2. /\ s \in Nat /\ s # 0 /\ sessions < s /\ s <= Len(mediators)
        /\ sessions \in Nat
        /\ 1..sessions \subseteq 1..s /\ s \in 1..s
    BY <1>6, Fields DEF IInv, Typed
  <2>3. /\ session' # NoSession /\ session'.id = s
        /\ session'.own <=> mailbox[1].from = mediator
        /\ session' \in [id : 1..s, disconnected : BOOLEAN, own : BOOLEAN]
    <3>1. session'.id = s /\ NoSession.id = 0
      BY <1>6 DEF NoSession
    <3>2. session' # NoSession
      BY <2>2, <3>1
    <3>. QED
      BY <1>1, <1>6, <2>2, <3>1, <3>2
  <2>4. Typed'
    <3>1. /\ disconnect_handle' \in 0..s /\ tick_handle' \in 0..s
          /\ timeouts' \subseteq 1..s /\ ticks' \subseteq 1..s
      BY <1>6, <2>2 DEF ArmTimeout, ArmTick, IInv, Typed, TypeOK
    <3>2. TypeOK'
      BY <1>6, <2>1, <2>2, <2>3, <3>1, Fields DEF IInv, Typed, TypeOK
    <3>. QED
      BY <1>1, <1>6, <2>1, <2>2, <3>2, Fields DEF IInv, Typed
  <2>5. MailboxInOrder'
    BY <1>1, <1>2, <1>6, <2>1, <2>3, SuccessInOrder
  <2>6. Greetings'
    <3>1. SessionTicks'
      BY <1>6, <2>3 DEF SessionTicks, ArmTick
    <3>2. ConnectedByOwnAccept'
      BY <1>1 DEF IInv, Greetings, ConnectedByOwnAccept
    <3>3. session'.id = disconnect_handle'
      BY <1>6, <2>3 DEF ArmTimeout
    <3>4. \A k \in DOMAIN greeted' :
             greeted'[k].session <= sessions' /\ greeted'[k].session < disconnect_handle'
      <4>1. \A k \in DOMAIN greeted : greeted[k].session \in Nat
        <5>1. \A k \in DOMAIN greeted : greeted[k] \in [session : Nat, by : Nat, own : BOOLEAN]
          BY ElementOfSeq, LenProperties DEF IInv, Typed
        <5>. QED
          BY <5>1
      <4>2. \A k \in DOMAIN greeted : greeted[k].session <= sessions
        BY DEF IInv, Greetings
      <4>3. disconnect_handle' = s
        BY <1>6 DEF ArmTimeout
      <4>. QED
        BY <1>1, <1>6, <2>2, <4>1, <4>2, <4>3
    <3>. QED
      BY <3>1, <3>2, <3>3, <3>4 DEF Greetings
  <2>7. Mediation'
    BY <2>1 DEF Mediation, MediatorAttended
  <2>. QED
    BY <2>4, <2>5, <2>6, <2>7 DEF IInv
<1>7. \/ mediator = 0 /\ UNCHANGED <<actor, mediators, panicked, user, sessions>>
      \/ /\ mediator # 0
         /\ Tell("idle")
         /\ DropMediator
         /\ UNCHANGED <<remote, session, disconnect_handle, tick_handle, timeouts, ticks,
                        panicked, sessions>>
      \/ /\ mediator # 0
         /\ panicked' = "success" /\ UNCHANGED <<actor, mediators, sessions, user>>
      \/ \E s : /\ s = sessions + 1 /\ mediator # 0 /\ sessions' = s
                /\ session' = [id |-> s, disconnected |-> FALSE,
                               own |-> Head(mailbox).from = mediator]
                /\ ArmTimeout(s) /\ ArmTick(s) /\ DropMediator
                /\ UNCHANGED <<remote, panicked, user>>
  BY DEF MediatorEvent
<1>. QED
  BY <1>3, <1>4, <1>5, <1>6, <1>7

\* The accept that waits is of the session there is, or that session came from
\* a stale success; and Connected has not been told of it.
LEMMA ReceivedDatagramIInv == ASSUME IInv, ReceivedDatagram PROVE IInv'
<1> DEFINE msg == Head(mailbox)
<1>1. /\ mailbox \in Seq(Message) /\ mailbox # << >>
      /\ msg = mailbox[1] /\ 1 \in DOMAIN mailbox
      /\ msg.type = "datagram" /\ msg.by \in Nat
      /\ panicked = "no"
      /\ UNCHANGED <<remote, mediator, session, tick_handle, ticks, mediators, sessions>>
  <2>1. mailbox \in Seq(Message) /\ mailbox # << >> /\ msg.type = "datagram" /\ panicked = "no"
    BY DEF ReceivedDatagram, Takes, IInv, MailboxInOrder
  <2>2. msg \in Message /\ msg = mailbox[1] /\ 1 \in DOMAIN mailbox
    BY <2>1, Takes1
  <2>3. UNCHANGED <<remote, mediator, session, tick_handle, ticks, mediators, sessions>>
    BY DEF ReceivedDatagram
  <2>. QED
    BY <2>1, <2>2, <2>3 DEF Message
<1>2. Taken(1)
  <2>1. Done(<< >>)
    BY DEF ReceivedDatagram
  <2>. QED
    BY <1>1, <2>1, Dones
<1>3. mailbox[1].type # "mediator"
  BY <1>1
<1>4. MailboxInOrder'
  <2>1. Onward
    BY <1>1, SameOnward DEF IInv
  <2>. QED
    BY <1>2, <2>1, TakenInOrder DEF IInv
<1>5. Mediation'
  <2>1. PICK l \in Nat : Shifted(1, l)
    BY <1>2 DEF Taken
  <2>. QED
    BY <1>1, <1>3, <2>1, SameMediation DEF IInv, Mediation
<1>6. Typed' /\ Greetings'
  <2>1. CASE UNCHANGED <<timeouts, disconnect_handle, panicked, user, greeted>>
    <3>1. TypeOK'
      BY <1>1, <2>1 DEF IInv, Typed, TypeOK
    <3>. QED
      BY <1>1, <2>1, <3>1, SameGreetings DEF IInv, Typed
  <2>2. CASE /\ timeouts' \subseteq timeouts /\ disconnect_handle' = 0
             /\ panicked' = "accept" /\ UNCHANGED <<user, greeted>>
    <3>1. TypeOK'
      BY <1>1, <2>2 DEF IInv, Typed, TypeOK
    <3>2. Greetings'
      BY <1>1, <2>2 DEF IInv, Greetings, SessionTicks, ConnectedByOwnAccept
    <3>. QED
      BY <1>1, <2>2, <3>1, <3>2 DEF IInv, Typed
  <2>3. CASE /\ disconnect_handle # 0
             /\ timeouts' \subseteq timeouts /\ disconnect_handle' = 0
             /\ session # NoSession
             /\ greeted' = Append(greeted, [session |-> session.id, by |-> msg.by,
                                            own |-> session.own])
             /\ user' = "connected" /\ UNCHANGED panicked
    <3>1. session \in [id : 1..sessions, disconnected : BOOLEAN, own : BOOLEAN] /\ sessions \in Nat
      BY <2>3 DEF IInv, Typed, TypeOK
    <3>2. PICK g \in [session : Nat, by : Nat, own : BOOLEAN] :
             /\ g = [session |-> session.id, by |-> msg.by, own |-> session.own]
             /\ g.session = session.id /\ g.by = msg.by /\ g.own = session.own
             /\ g.session <= sessions
      <4>1. session.id \in Nat /\ session.id <= sessions /\ session.own \in BOOLEAN
        BY <3>1
      <4>2. [session |-> session.id, by |-> msg.by, own |-> session.own]
               \in [session : Nat, by : Nat, own : BOOLEAN]
        BY <1>1, <4>1
      <4>. QED
        BY <4>1, <4>2
    <3>3. PICK n \in Nat : n = Len(greeted) /\ DOMAIN greeted = 1..n
      BY Fields DEF IInv
    <3>4. /\ greeted' \in Seq([session : Nat, by : Nat, own : BOOLEAN])
          /\ DOMAIN greeted' = 1..(n + 1)
          /\ \A k \in 1..n : greeted'[k] = greeted[k]
          /\ greeted'[n + 1] = g
      <4>1. /\ greeted \in Seq([session : Nat, by : Nat, own : BOOLEAN])
            /\ greeted' = Append(greeted, g)
        BY <2>3, <3>2 DEF IInv, Typed
      <4>2. /\ greeted' \in Seq([session : Nat, by : Nat, own : BOOLEAN])
            /\ Len(greeted') = n + 1
            /\ \A k \in 1..n : greeted'[k] = greeted[k]
            /\ greeted'[n + 1] = g
        BY <3>3, <4>1, AppendProperties
      <4>. QED
        BY <4>2, LenProperties
    <3>5. TypeOK'
      BY <1>1, <2>3 DEF IInv, Typed, TypeOK
    <3>6. Typed'
      BY <1>1, <3>4, <3>5 DEF IInv, Typed
    <3>7. session.own => session.id = msg.by
      BY <1>1, <2>3 DEF IInv, MailboxInOrder, OwnDatagrams
    <3>8. session.id = disconnect_handle
      BY <2>3 DEF IInv, Greetings
    <3>9. \A k \in 1..n : greeted[k].session < g.session /\ greeted[k].session <= sessions
      BY <2>3, <3>2, <3>3, <3>8 DEF IInv, Greetings
    <3>10. ASSUME NEW k \in 1..(n + 1)
           PROVE  /\ greeted'[k].own => greeted'[k].session = greeted'[k].by
                  /\ k > 1 => greeted'[k - 1].session < greeted'[k].session
                  /\ greeted'[k].session <= sessions
      <4>1. CASE k \in 1..n
        <5>1. k > 1 => k - 1 \in 1..n
          BY <4>1
        <5>. QED
          BY <3>3, <3>4, <3>9, <4>1, <5>1 DEF IInv, Greetings, ConnectedByOwnAccept
      <4>2. CASE k = n + 1
        <5>1. greeted'[k].own => greeted'[k].session = greeted'[k].by
          BY <3>2, <3>4, <3>7, <4>2
        <5>2. ASSUME k > 1
              PROVE  greeted'[k - 1].session < greeted'[k].session
          <6>1. k - 1 \in 1..n
            BY <4>2, <5>2
          <6>. QED
            BY <3>4, <3>9, <4>2, <6>1
        <5>. QED
          BY <3>2, <3>4, <4>2, <5>1, <5>2
      <4>. QED
        BY <4>1, <4>2
    <3>11. ConnectedByOwnAccept'
      BY <3>4, <3>10 DEF ConnectedByOwnAccept
    <3>12. SessionTicks'
      BY <1>1 DEF IInv, Greetings, SessionTicks
    <3>13. Greetings'
      BY <1>1, <2>3, <3>4, <3>10, <3>11, <3>12 DEF Greetings
    <3>. QED
      BY <3>6, <3>13
  <2>4. timeouts \ {disconnect_handle} \subseteq timeouts
    OBVIOUS
  <2>. QED
    BY <2>1, <2>2, <2>3, <2>4 DEF ReceivedDatagram, ForgetDisconnectHandle, Tell
<1>. QED
  BY <1>4, <1>5, <1>6 DEF IInv

-----------------------------------------------------------------------------
(* ClientMediator's handlers and timers.                                   *)

\* Mediator m becomes e, and may tell an event.
LEMMA MediatorStep ==
    ASSUME IInv, NEW m \in DOMAIN mediators, NEW e \in Mediator,
           mediators' = [mediators EXCEPT ![m] = e],
           Undisturbed(mediators[m]) => m # mediator \/ Undisturbed(e),
           \/ UNCHANGED mailbox /\ (m = mediator => e.deadline = mediators[m].deadline)
           \/ \E event \in {"failed", "success"} : Tells(m, event),
           UNCHANGED <<actor, panicked, user, sessions, greeted>>
    PROVE  IInv'
<1>1. UNCHANGED <<remote, mediator, session, disconnect_handle, tick_handle, timeouts, ticks>>
  BY DEF actor
<1>2. /\ mediators' \in Seq(Mediator)
      /\ Len(mediators') = Len(mediators)
      /\ DOMAIN mediators' = DOMAIN mediators
      /\ mediators'[m] = e
      /\ \A n \in DOMAIN mediators : n # m => mediators'[n] = mediators[n]
  BY OneMediator DEF IInv
<1>3. Typed'
  <2>1. \A n \in DOMAIN mediators' : mediators'[n].count \in 1..Requests
    BY <1>2, Counts
  <2>2. TypeOK'
    BY <1>1, <1>2, <2>1 DEF IInv, Typed, TypeOK
  <2>. QED
    BY <1>1, <1>2, <2>2 DEF IInv, Typed
<1>4. Greetings'
  BY <1>1, SameGreetings DEF IInv
<1>5. Onward
  BY <1>1, <1>2, SameOnward DEF IInv
<1>6. mediator # 0 => Undisturbed(mediators'[mediator])
  <2>1. mediator # 0 => mediator \in DOMAIN mediators /\ Undisturbed(mediators[mediator])
    BY Fields DEF IInv, Mediation
  <2>. QED
    BY <1>2, <2>1
<1>7. CASE UNCHANGED mailbox /\ (m = mediator => e.deadline = mediators[m].deadline)
  <2>1. Taken(0)
    BY <1>7, Stays DEF IInv, MailboxInOrder
  <2>2. PICK l \in Nat : Shifted(0, l)
    BY <2>1 DEF Taken
  <2>3. MailboxInOrder'
    BY <1>5, <2>1, TakenInOrder DEF IInv
  <2>4. mediator # 0 => (mediators'[mediator].deadline <=> mediators[mediator].deadline)
    <3>1. mediator # 0 => mediators'[mediator].deadline = mediators[mediator].deadline
      BY <1>2, <1>7, Fields DEF IInv
    <3>. QED
      BY <3>1
  <2>5. Mediation'
    BY <1>1, <1>6, <2>2, <2>4, SameMediation DEF IInv
  <2>. QED
    BY <1>3, <1>4, <2>3, <2>5 DEF IInv
<1>8. CASE \E event \in {"failed", "success"} : Tells(m, event)
  <2>1. PICK event \in {"failed", "success"} : Tells(m, event)
    BY <1>8
  <2>2. PICK x \in Message : /\ x = [type |-> "mediator", event |-> event, from |-> m]
                             /\ x.type = "mediator" /\ x.from = m
    <3>1. m \in Nat
      BY Fields DEF IInv
    <3>2. [type |-> "mediator", event |-> event, from |-> m] \in Message
      BY <3>1, Messages
    <3>. QED
      BY <3>2
  <2>3. Posted(0, x)
    BY <2>1, <2>2, Posts DEF Tells, IInv, MailboxInOrder
  <2>4. PICK l \in Nat : Shifted(0, l) /\ Len(mailbox') = l + 1 /\ mailbox'[l + 1] = x
    BY <2>3 DEF Posted
  <2>5. Harmless(x)
    BY <1>2, <2>2, Fields DEF IInv, Harmless
  <2>6. MailboxInOrder'
    BY <1>5, <2>3, <2>5, PostedInOrder DEF IInv
  <2>7. l + 1 \in DOMAIN mailbox' /\ mailbox'[l + 1].type = "mediator"
    <3>1. mailbox' \in Seq(Message)
      BY <2>4 DEF Shifted
    <3>2. DOMAIN mailbox' = 1..(l + 1)
      BY <2>4, <3>1, LenProperties
    <3>. QED
      BY <2>2, <2>4, <3>2
  <2>8. Mediation'
    BY <1>1, <1>6, <2>7 DEF Mediation, MediatorAttended, Undisturbed
  <2>. QED
    BY <1>3, <1>4, <2>6, <2>8 DEF IInv
<1>. QED
  BY <1>7, <1>8

\* What is left of a mediator's mailbox.
LEMMA RestOf ==
    ASSUME NEW d \in Mediator, d.mailbox # << >>
    PROVE  /\ Head(d.mailbox) \in MediatorMessage
           /\ [d EXCEPT !.mailbox = Tail(@)] \in Mediator
           /\ Undisturbed(d) => /\ Head(d.mailbox) # "terminate"
                                /\ Undisturbed([d EXCEPT !.mailbox = Tail(@)])
<1>1. d.mailbox \in Seq(MediatorMessage)
  BY DEF Mediator
<1>2. PICK l \in Nat : Len(d.mailbox) = l + 1 /\ DOMAIN d.mailbox = 1..(l + 1)
  <2>1. Len(d.mailbox) \in Nat \ {0} /\ DOMAIN d.mailbox = 1..Len(d.mailbox)
    BY <1>1, EmptySeq, LenProperties
  <2>2. Len(d.mailbox) - 1 \in Nat /\ Len(d.mailbox) = (Len(d.mailbox) - 1) + 1
    BY <2>1
  <2>. QED
    BY <2>1, <2>2
<1>3. PICK box : box = Tail(d.mailbox)
  OBVIOUS
<1>4. /\ Head(d.mailbox) \in MediatorMessage /\ Head(d.mailbox) = d.mailbox[1]
      /\ box \in Seq(MediatorMessage)
      /\ DOMAIN box = 1..l
      /\ \A k \in 1..l : box[k] = d.mailbox[k + 1]
  <2>1. /\ Head(d.mailbox) \in MediatorMessage
        /\ box \in Seq(MediatorMessage)
        /\ Len(box) = Len(d.mailbox) - 1
        /\ \A k \in 1..Len(box) : box[k] = d.mailbox[k + 1]
    BY <1>1, <1>3, HeadTailProperties
  <2>2. Len(box) = l /\ DOMAIN box = 1..Len(box)
    BY <1>2, <2>1, LenProperties
  <2>3. Head(d.mailbox) = d.mailbox[1]
    BY <1>1
  <2>. QED
    BY <2>1, <2>2, <2>3
<1>5. /\ [d EXCEPT !.mailbox = Tail(@)] \in Mediator
      /\ [d EXCEPT !.mailbox = Tail(@)].mailbox = box
  BY <1>3, <1>4 DEF Mediator
<1>6. ASSUME Undisturbed(d)
      PROVE  Head(d.mailbox) # "terminate" /\ \A k \in 1..l : box[k] # "terminate"
  <2>1. 1 \in DOMAIN d.mailbox /\ \A k \in 1..l : k + 1 \in DOMAIN d.mailbox
    BY <1>2
  <2>. QED
    BY <1>4, <1>6, <2>1 DEF Undisturbed
<1>. QED
  BY <1>4, <1>5, <1>6 DEF Undisturbed

\* What a handler does to a mediator beyond its mailbox.
Like(e, d) == e \in Mediator /\ e.mailbox = d.mailbox

LEMMA LikeUndisturbed ==
    ASSUME NEW d, NEW e, Like(e, d), Undisturbed(d)
    PROVE  Undisturbed(e)
BY DEF Like, Undisturbed

LEMMA Edits ==
    ASSUME NEW d \in Mediator
    PROVE  /\ Like(Cancelled(d), d) /\ Cancelled(d).deadline = d.deadline
           /\ Like([Cancelled(d) EXCEPT !.handle = TRUE, !.retry = TRUE], d)
           /\ [Cancelled(d) EXCEPT !.handle = TRUE, !.retry = TRUE].deadline = d.deadline
           /\ Like([Cancelled(d) EXCEPT !.disconnect_timer = FALSE, !.deadline = FALSE], d)
           /\ Like([d EXCEPT !.retry = FALSE], d)
           /\ Like([d EXCEPT !.deadline = FALSE], d)
           /\ ~ GivesUp(d) => Like(Request1(d), d) /\ Request1(d).deadline = d.deadline
           /\ Terminated(d) \in Mediator
<1>1. d.count \in 1..Requests /\ Requests \in Nat
  BY ClientAssumption DEF Mediator
<1>2. ~ GivesUp(d) => d.count + 1 \in 1..Requests
  BY <1>1 DEF GivesUp
<1>3. << >> \in Seq(MediatorMessage)
  BY EmptySeq
<1>4. Like(Cancelled(d), d) /\ Cancelled(d).deadline = d.deadline
  BY DEF Like, Cancelled, Mediator
<1>5. /\ Like([Cancelled(d) EXCEPT !.handle = TRUE, !.retry = TRUE], d)
      /\ [Cancelled(d) EXCEPT !.handle = TRUE, !.retry = TRUE].deadline = d.deadline
  BY <1>4 DEF Like, Mediator
<1>6. Like([Cancelled(d) EXCEPT !.disconnect_timer = FALSE, !.deadline = FALSE], d)
  BY <1>4 DEF Like, Mediator
<1>7. Like([d EXCEPT !.retry = FALSE], d) /\ Like([d EXCEPT !.deadline = FALSE], d)
  BY DEF Like, Mediator
<1>8. ~ GivesUp(d) => Like(Request1(d), d) /\ Request1(d).deadline = d.deadline
  BY <1>2 DEF Like, Request1, Mediator
<1>9. Terminated(d) \in Mediator
  BY <1>3 DEF Terminated, Mediator
<1>. QED
  BY <1>4, <1>5, <1>6, <1>7, <1>8, <1>9

LEMMA MediatorReceiveIInv ==
    ASSUME IInv, NEW m \in DOMAIN mediators, MediatorReceive(m)
    PROVE  IInv'
<1> DEFINE d    == mediators[m]
           kind == Head(d.mailbox)
           rest == [d EXCEPT !.mailbox = Tail(@)]
           Becomes(e) == mediators' = [mediators EXCEPT ![m] = e]
<1>1. d \in Mediator /\ d.mailbox # << >>
  BY Fields DEF IInv, MediatorReceive
<1>2. /\ rest \in Mediator
      /\ Undisturbed(d) => kind # "terminate" /\ Undisturbed(rest)
  BY <1>1, RestOf
<1>3. rest.deadline = d.deadline
  BY <1>1 DEF Mediator
<1>4. UNCHANGED <<actor, panicked, user, budget, sessions, greeted>>
  BY DEF MediatorReceive
<1>5. \/ kind = "terminate" /\ Becomes(Terminated(rest)) /\ UNCHANGED mailbox
      \/ Becomes([Cancelled(rest) EXCEPT !.handle = TRUE, !.retry = TRUE]) /\ UNCHANGED mailbox
      \/ /\ Becomes([Cancelled(rest) EXCEPT !.disconnect_timer = FALSE, !.deadline = FALSE])
         /\ Tells(m, "success")
      \/ Becomes(Cancelled(rest)) /\ UNCHANGED mailbox
      \/ Becomes(Cancelled(rest)) /\ Tells(m, "failed")
      \/ Becomes(rest) /\ UNCHANGED mailbox
  BY DEF MediatorReceive
<1>6. ASSUME NEW e, Like(e, rest), Becomes(e),
             \/ UNCHANGED mailbox /\ e.deadline = d.deadline
             \/ \E event \in {"failed", "success"} : Tells(m, event)
      PROVE  IInv'
  <2>1. e \in Mediator /\ (Undisturbed(d) => Undisturbed(e))
    BY <1>2, <1>6, LikeUndisturbed DEF Like
  <2>. QED
    BY <1>4, <1>6, <2>1, MediatorStep
<1>. HIDE DEF rest
<1>7. /\ Like(Cancelled(rest), rest) /\ Cancelled(rest).deadline = d.deadline
      /\ Like([Cancelled(rest) EXCEPT !.handle = TRUE, !.retry = TRUE], rest)
      /\ [Cancelled(rest) EXCEPT !.handle = TRUE, !.retry = TRUE].deadline = d.deadline
      /\ Like([Cancelled(rest) EXCEPT !.disconnect_timer = FALSE, !.deadline = FALSE], rest)
      /\ Like(rest, rest)
      /\ Terminated(rest) \in Mediator
  BY <1>2, <1>3, Edits DEF Like
<1>8. CASE kind = "terminate" /\ Becomes(Terminated(rest)) /\ UNCHANGED mailbox
  <2>1. ~ Undisturbed(d)
    BY <1>2, <1>8
  <2>2. m # mediator
    BY <2>1, Fields DEF IInv, Mediation
  <2>. QED
    BY <1>4, <1>7, <1>8, <2>1, <2>2, MediatorStep
<1>9. CASE Becomes([Cancelled(rest) EXCEPT !.handle = TRUE, !.retry = TRUE]) /\ UNCHANGED mailbox
  BY <1>6, <1>7, <1>9
<1>10. CASE /\ Becomes([Cancelled(rest) EXCEPT !.disconnect_timer = FALSE, !.deadline = FALSE])
            /\ Tells(m, "success")
  BY <1>6, <1>7, <1>10
<1>11. CASE Becomes(Cancelled(rest)) /\ (UNCHANGED mailbox \/ Tells(m, "failed"))
  BY <1>6, <1>7, <1>11
<1>12. CASE Becomes(rest) /\ UNCHANGED mailbox
  BY <1>3, <1>6, <1>7, <1>12
<1>. QED
  BY <1>5, <1>8, <1>9, <1>10, <1>11, <1>12

LEMMA MediatorRetryIInv ==
    ASSUME IInv, NEW m \in DOMAIN mediators, MediatorRetry(m)
    PROVE  IInv'
<1> DEFINE d == mediators[m]
<1>1. d \in Mediator
  BY Fields DEF IInv
<1>2. UNCHANGED <<actor, panicked, user, sessions, greeted>>
  BY DEF MediatorRetry
<1>3. CASE GivesUp(d)
  <2>1. /\ mediators' = [mediators EXCEPT ![m] = [d EXCEPT !.retry = FALSE]]
        /\ Tells(m, "failed")
    BY <1>3 DEF MediatorRetry
  <2>2. Like([d EXCEPT !.retry = FALSE], d)
    BY <1>1, Edits
  <2>3. /\ [d EXCEPT !.retry = FALSE] \in Mediator
        /\ Undisturbed(d) => Undisturbed([d EXCEPT !.retry = FALSE])
    BY <2>2, LikeUndisturbed DEF Like
  <2>. QED
    BY <1>2, <2>1, <2>3, MediatorStep
<1>4. CASE ~ GivesUp(d)
  <2>1. mediators' = [mediators EXCEPT ![m] = Request1(d)] /\ UNCHANGED mailbox
    BY <1>4 DEF MediatorRetry
  <2>2. Like(Request1(d), d) /\ Request1(d).deadline = d.deadline
    BY <1>1, <1>4, Edits
  <2>3. /\ Request1(d) \in Mediator
        /\ Undisturbed(d) => Undisturbed(Request1(d))
    BY <2>2, LikeUndisturbed DEF Like
  <2>. QED
    BY <1>2, <2>1, <2>2, <2>3, MediatorStep
<1>. QED
  BY <1>3, <1>4

LEMMA MediatorDeadlineIInv ==
    ASSUME IInv, NEW m \in DOMAIN mediators, MediatorDeadline(m)
    PROVE  IInv'
<1> DEFINE d == mediators[m]
<1>1. d \in Mediator
  BY Fields DEF IInv
<1>2. UNCHANGED <<actor, panicked, user, sessions, greeted>>
  BY DEF MediatorDeadline
<1>3. /\ mediators' = [mediators EXCEPT ![m] = [d EXCEPT !.deadline = FALSE]]
      /\ Tells(m, "failed")
  BY DEF MediatorDeadline
<1>4. Like([d EXCEPT !.deadline = FALSE], d)
  BY <1>1, Edits
<1>5. /\ [d EXCEPT !.deadline = FALSE] \in Mediator
      /\ Undisturbed(d) => Undisturbed([d EXCEPT !.deadline = FALSE])
  BY <1>4, LikeUndisturbed DEF Like
<1>. QED
  BY <1>2, <1>3, <1>5, MediatorStep

LEMMA MediatorStopsIInv ==
    ASSUME IInv, NEW m \in DOMAIN mediators, MediatorStops(m)
    PROVE  IInv'
<1>1. Terminated(mediators[m]) \in Mediator
  BY Fields, Edits DEF IInv
<1>2. /\ UNCHANGED <<actor, panicked, user, sessions, greeted>>
      /\ mediators' = [mediators EXCEPT ![m] = Terminated(mediators[m])]
      /\ m # mediator /\ UNCHANGED mailbox
  BY DEF MediatorStops
<1>. QED
  BY <1>1, <1>2, MediatorStep

-----------------------------------------------------------------------------
(* The theorems.                                                           *)

LEMMA NextIInv == IInv /\ [Next]_vars => IInv'
<1> SUFFICES ASSUME IInv, [Next]_vars PROVE IInv'
  OBVIOUS
<1>1. CASE UNCHANGED vars
  <2>1. /\ UNCHANGED <<remote, mediator, session, disconnect_handle, tick_handle, timeouts, ticks>>
        /\ UNCHANGED <<mailbox, mediators, panicked, user, sessions, greeted>>
    BY <1>1 DEF vars, actor
  <2>. QED
    BY <2>1 DEF IInv, Typed, TypeOK, MailboxInOrder, FromsMade, OwnDatagrams, NoNewsBefore,
                Greetings, SessionTicks, ConnectedByOwnAccept, Mediation, MediatorAttended,
                Undisturbed
<1>2. CASE \E a \in Servers : Connect(a) \/ \E kind \in Incoming : Arrive(a, kind)
  BY <1>2, ConnectIInv, ArriveIInv
<1>3. CASE Disconnect
  BY <1>3, DisconnectIInv
<1>4. CASE Handle
  BY <1>4, ReceivedUdpIInv, ClientConnectIInv, ClientDisconnectIInv, MediatorEventIInv,
     ReceivedDatagramIInv, ClientSessionEndIInv DEF Handle
<1>5. CASE \E s \in Ids : ConnectionTimeout(s) \/ Update(s) \/ UpdateSilent(s)
  BY <1>5, ConnectionTimeoutIInv, UpdateIInv, UpdateSilentIInv
<1>6. CASE \E m \in DOMAIN mediators :
              MediatorReceive(m) \/ MediatorRetry(m) \/ MediatorDeadline(m) \/ MediatorStops(m)
  BY <1>6, MediatorReceiveIInv, MediatorRetryIInv, MediatorDeadlineIInv, MediatorStopsIInv
<1>. QED
  BY <1>1, <1>2, <1>3, <1>4, <1>5, <1>6 DEF Next

\* The inductive invariant holds, for every number of servers, connects and
\* datagrams (client.rs).
THEOREM ClientInvariance == Spec => []IInv
BY InitIInv, NextIInv, PTL DEF Spec

\* The client's state stays well formed: every handle names a session that was
\* made, and request1 asks at most 13 times (client.rs:59, 322).
THEOREM ClientTypeCorrect == Spec => []TypeOK
<1>1. IInv => TypeOK
  BY DEF IInv, Typed
<1>. QED
  BY <1>1, ClientInvariance, PTL

\* Connected is told of a session at most once, and for its own accept unless a
\* stale success made it (client.rs:198, 254).
THEOREM GreetedOnce == Spec => []ConnectedByOwnAccept
<1>1. IInv => ConnectedByOwnAccept
  BY DEF IInv, Greetings
<1>. QED
  BY <1>1, ClientInvariance, PTL

\* A session always has its 10 ms interval (client.rs:111, 227).
THEOREM SessionIsDriven == Spec => []SessionTicks
<1>1. IInv => SessionTicks
  BY DEF IInv, Greetings
<1>. QED
  BY <1>1, ClientInvariance, PTL

\* The client never waits for a mediator that has nothing more to say
\* (client.rs:198, 335, 407).
THEOREM NoMediatorIsLost == Spec => []MediatorAttended
<1>1. IInv => MediatorAttended
  BY DEF IInv, Mediation
<1>. QED
  BY <1>1, ClientInvariance, PTL
=============================================================================
