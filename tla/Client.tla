------------------------------- MODULE Client -------------------------------
(***************************************************************************)
(* The life of a client: RakClient and ClientMediator of src/src/client.rs *)
(* with the user and the network around them.                              *)
(*                                                                         *)
(* Both are actors: one mailbox each, filled by anyone, emptied in order.  *)
(* RakClient's session lives inside RakClient and talks to it through that *)
(* same mailbox, so what the session reports and what the user, the network*)
(* and the mediator send are interleaved in it.  A session is an id and its*)
(* `disconnected` flag here, and as history whether the success that made  *)
(* it came from the mediator in charge (`own`); Transport is its inside.   *)
(* The network is free: any datagram may arrive, from any server, at any   *)
(* time; Handshake puts a Server there.  The mtu that is negotiated is in  *)
(* Negotiation.                                                            *)
(***************************************************************************)
EXTENDS Naturals, Sequences

CONSTANTS
    Servers,        \* the addresses datagrams come from and connect() goes to
    Incoming,       \* the kinds of datagram that arrive
    Requests,       \* 13 in the code: how often request1 asks before it gives up
    MaxConnects,    \* bound: calls of connect()
    MaxDisconnects, \* bound: calls of disconnect()
    MaxArrivals     \* bound: datagrams that arrive

\* replies to the mediator, and what a datagram of the session carries, "empty" a
\* message of no bytes
Kinds == {"reply1", "reply2", "already", "version", "accept", "data", "bye", "empty"}

ASSUME ClientAssumption ==
    /\ Incoming \subseteq Kinds
    /\ Requests \in Nat \ {0}
    /\ {MaxConnects, MaxDisconnects, MaxArrivals} \subseteq Nat
    /\ 0 \notin Servers

VARIABLES
    remote,             \* the server of the latest connect(), 0 for None
    mediator,           \* the mediator in charge, 0 for None
    session,            \* the session, NoSession for None
    disconnect_handle,  \* the session whose 5 s timer the handle names, 0 for None
    tick_handle,        \* the session whose interval the handle names, 0 for None
    timeouts,           \* the sessions whose 5 s timer is armed
    ticks,              \* the sessions whose 10 ms interval runs
    mailbox,            \* RakClient's mailbox
    mediators,          \* every mediator made so far
    panicked,           \* what took the client down, "no" while nothing has
    user,               \* what the user believes: "idle", "waiting", "connected"
    budget,             \* what is left of the bounds
    sessions,           \* history: how many sessions were made
    greeted             \* history: for each Connected event, whose accept made it

actor == <<remote, mediator, session, disconnect_handle, tick_handle, timeouts, ticks>>
vars  == <<actor, mailbox, mediators, panicked, user, budget, sessions, greeted>>

NoSession == [id |-> 0]

\* ClientMediator::new, then started(): the 10 s timer, and the first request1
NewMediator ==
    [ alive            |-> TRUE,
      count            |-> 1,       \* request1_count
      handle           |-> TRUE,    \* next_request1_handle.is_some()
      retry            |-> TRUE,    \* the 510 ms timer is armed
      disconnect_timer |-> TRUE,    \* disconnect_timer.is_some()
      deadline         |-> TRUE,    \* the 10 s timer is armed
      mailbox          |-> << >> ]

Init ==
    /\ remote = 0
    /\ mediator = 0
    /\ session = NoSession
    /\ disconnect_handle = 0
    /\ tick_handle = 0
    /\ timeouts = {}
    /\ ticks = {}
    /\ mailbox = << >>
    /\ mediators = << >>
    /\ panicked = "no"
    /\ user = "idle"
    /\ budget = [connects |-> MaxConnects, disconnects |-> MaxDisconnects,
                 arrivals |-> MaxArrivals]
    /\ sessions = 0
    /\ greeted = << >>

-----------------------------------------------------------------------------
(* Around the actors: the user, who calls connect() when nothing is under  *)
(* way as far as the events tell, and the network.                         *)

Post(m) == mailbox' = Append(mailbox, m)

Connect(a) ==
    /\ budget.connects > 0
    /\ user = "idle"
    /\ Post([type |-> "connect", addr |-> a])
    /\ user' = "waiting"
    /\ budget' = [budget EXCEPT !.connects = @ - 1]
    /\ UNCHANGED <<actor, mediators, panicked, sessions, greeted>>

Disconnect ==
    /\ budget.disconnects > 0
    /\ Post([type |-> "disconnect"])
    /\ budget' = [budget EXCEPT !.disconnects = @ - 1]
    /\ UNCHANGED <<actor, mediators, panicked, user, sessions, greeted>>

\* datagrams that come in one after the other
Deliver(a, kinds) ==
    /\ mailbox' = mailbox \o [k \in DOMAIN kinds |-> [type |-> "udp", addr |-> a, kind |-> kinds[k]]]
    /\ UNCHANGED <<actor, mediators, panicked, user, sessions, greeted>>

Arrive(a, kind) ==
    /\ budget.arrivals > 0
    /\ Deliver(a, <<kind>>)
    /\ budget' = [budget EXCEPT !.arrivals = @ - 1]

-----------------------------------------------------------------------------
(* The mutated forms of definitions below.                                 *)

\* the handle of a timer that was cancelled is kept
KeepDisconnectHandle == UNCHANGED disconnect_handle

\* an interval that was armed once is taken to run for ever
ArmTickOnce(s) ==
    IF tick_handle = 0 THEN tick_handle' = s /\ ticks' = ticks \cup {s}
                       ELSE UNCHANGED <<tick_handle, ticks>>

\* any reply cancels the 10 s timer as well
CancelledBothTimers(d) == [d EXCEPT !.handle = FALSE, !.retry = FALSE, !.deadline = FALSE]

\* the mediator that reported stays in charge
KeepMediator == UNCHANGED <<mediator, mediators>>

\* the 5 s timer is not armed
ArmTimeoutNever(s) == disconnect_handle' = s /\ UNCHANGED timeouts

\* request1 asks once more
GivesUpLate(d) == d.count > Requests

\* the session is marked, and its parent never hears of it
NoEndPosts == << >>

-----------------------------------------------------------------------------
(* What a session posts to its parent.                                     *)

\* Session::end, which Session::disconnect comes to as well
EndPosts     == <<[type |-> "end"]>>
SessionEnded == [session EXCEPT !.disconnected = TRUE]

\* Session::handle: what the datagram carries is posted, disconnected or not; of an
\* empty frame handle_packet indexes the first byte (see ReceivedUdp)
SessionPosts(kind) ==
    CASE kind \in {"accept", "data"} -> <<[type |-> "datagram", kind |-> kind, by |-> session.id]>>
      [] kind = "bye"                -> EndPosts
      [] OTHER                       -> << >>

-----------------------------------------------------------------------------
(* RakClient: one action per message it handles, and its two timers.       *)

Takes(type) == panicked = "no" /\ mailbox # << >> /\ Head(mailbox).type = type

\* the handler is done, and has posted ms to its own mailbox
Done(ms) == mailbox' = Tail(mailbox) \o ms

\* what the user makes of an event
Tell(belief) == user' = belief

ReceivedUdp ==
    LET m == Head(mailbox)
    IN  /\ Takes("udp")
        /\ \/ /\ remote # m.addr
              /\ Done(<< >>)
              /\ UNCHANGED <<session, mediators, panicked>>
           \/ /\ remote = m.addr
              /\ mediator # 0
              /\ mediators' = [mediators EXCEPT ![mediator].mailbox = Append(@, m.kind)]
              /\ Done(<< >>)
              /\ UNCHANGED <<session, panicked>>
           \/ /\ remote = m.addr
              /\ mediator = 0
              /\ IF session = NoSession
                 THEN Done(<< >>) /\ UNCHANGED <<session, panicked>>
                 ELSE /\ Done(SessionPosts(m.kind))
                      /\ session' = IF m.kind = "bye" THEN SessionEnded ELSE session
                      /\ panicked' = IF m.kind = "empty" THEN "empty" ELSE panicked
              /\ UNCHANGED mediators
        /\ UNCHANGED <<remote, mediator, disconnect_handle, tick_handle, timeouts, ticks,
                       user, budget, sessions, greeted>>

\* a mediator that was in charge is dropped, not terminated
ClientConnect ==
    /\ Takes("connect")
    /\ remote' = Head(mailbox).addr
    /\ mediators' = Append(mediators, NewMediator)
    /\ mediator' = Len(mediators) + 1
    /\ Done(<< >>)
    /\ UNCHANGED <<session, disconnect_handle, tick_handle, timeouts, ticks,
                   panicked, user, budget, sessions, greeted>>

ClientDisconnect ==
    /\ Takes("disconnect")
    /\ IF session = NoSession
       THEN Done(<< >>) /\ UNCHANGED session
       ELSE Done(EndPosts) /\ session' = SessionEnded
    /\ UNCHANGED <<remote, mediator, disconnect_handle, tick_handle, timeouts, ticks,
                   mediators, panicked, user, budget, sessions, greeted>>

ArmTimeout(s) == disconnect_handle' = s /\ timeouts' = timeouts \cup {s}

ArmTick(s) == tick_handle' = s /\ ticks' = ticks \cup {s}

\* the mediator in charge is told to terminate, whoever sent the event
DropMediator ==
    /\ mediators' = [mediators EXCEPT ![mediator].mailbox = Append(@, "terminate")]
    /\ mediator' = 0

MediatorEvent ==
    /\ Takes("mediator")
    /\ Done(<< >>)
    /\ \/ /\ mediator = 0
          /\ UNCHANGED <<actor, mediators, panicked, user, sessions>>
       \/ /\ mediator # 0
          /\ Head(mailbox).event = "failed"
          /\ Tell("idle")
          /\ DropMediator
          /\ UNCHANGED <<remote, session, disconnect_handle, tick_handle, timeouts, ticks,
                         panicked, sessions>>
       \/ /\ mediator # 0
          /\ Head(mailbox).event = "success"
          /\ IF remote = 0
             THEN panicked' = "success" /\ UNCHANGED <<actor, mediators, sessions>>
             ELSE LET s == sessions + 1
                  IN  /\ sessions' = s
                      /\ session' = [id |-> s, disconnected |-> FALSE,
                                      own |-> Head(mailbox).from = mediator]
                      /\ ArmTimeout(s)
                      /\ ArmTick(s)
                      /\ DropMediator
                      /\ UNCHANGED <<remote, panicked>>
          /\ UNCHANGED user
    /\ UNCHANGED <<budget, greeted>>

\* self.disconnect_handle = None
ForgetDisconnectHandle == disconnect_handle' = 0

ReceivedDatagram ==
    LET m == Head(mailbox)
    IN  /\ Takes("datagram")
        /\ Done(<< >>)
        /\ \/ /\ m.kind = "accept" /\ disconnect_handle # 0
              /\ timeouts' = timeouts \ {disconnect_handle}
              /\ ForgetDisconnectHandle
              /\ IF remote = 0 \/ session = NoSession
                 THEN panicked' = "accept" /\ UNCHANGED <<user, greeted>>
                 ELSE /\ greeted' = Append(greeted, [session |-> session.id, by |-> m.by,
                                                     own |-> session.own])
                      /\ Tell("connected")
                      /\ UNCHANGED panicked
           \/ /\ m.kind # "accept" \/ disconnect_handle = 0   \* a Packet event, or nothing
              /\ UNCHANGED <<timeouts, disconnect_handle, panicked, user, greeted>>
        /\ UNCHANGED <<remote, mediator, session, tick_handle, ticks, mediators, budget, sessions>>

ClientSessionEnd ==
    /\ Takes("end")
    /\ remote' = 0
    /\ session' = NoSession
    /\ Tell("idle")
    /\ Done(<< >>)
    /\ UNCHANGED <<mediator, disconnect_handle, tick_handle, timeouts, ticks,
                   mediators, panicked, budget, sessions, greeted>>

\* the 5 s timer of session s
ConnectionTimeout(s) ==
    /\ panicked = "no"
    /\ s \in timeouts
    /\ timeouts' = timeouts \ {s}
    /\ Tell("idle")
    /\ UNCHANGED <<remote, mediator, session, disconnect_handle, tick_handle, ticks, mailbox,
                   mediators, panicked, budget, sessions, greeted>>

\* an interval ticks: without a session it cancels the interval of the handle
Update(s) ==
    /\ panicked = "no"
    /\ s \in ticks
    /\ session = NoSession
    /\ ticks' = ticks \ {tick_handle}
    /\ UNCHANGED <<remote, mediator, session, disconnect_handle, tick_handle, timeouts, mailbox,
                   mediators, panicked, user, budget, sessions, greeted>>

\* ... and with one calls Session::update, which disconnects when nothing was
\* received for more than 10 s; the session's 5 s timer has been dealt with by then
UpdateSilent(s) ==
    /\ panicked = "no"
    /\ s \in ticks
    /\ session # NoSession /\ ~ session.disconnected
    /\ session.id \notin timeouts
    /\ session' = SessionEnded
    /\ mailbox' = mailbox \o EndPosts
    /\ UNCHANGED <<remote, mediator, disconnect_handle, tick_handle, timeouts, ticks,
                   mediators, panicked, user, budget, sessions, greeted>>

-----------------------------------------------------------------------------
(* ClientMediator: its messages and its two timers.                        *)

\* (who tells is history: MediatorEvent does not say it)
Tells(m, event) == mailbox' = Append(mailbox, [type |-> "mediator", event |-> event, from |-> m])

\* cancel_future(handle) and next_request1_handle = None
Cancelled(d) == [d EXCEPT !.handle = FALSE, !.retry = FALSE]

\* ctx.terminate(): nothing of it runs any more
Terminated(d) == [d EXCEPT !.alive = FALSE, !.retry = FALSE, !.deadline = FALSE, !.mailbox = << >>]

GivesUp(d) == d.count >= Requests

\* request1 that does not give up: it asks, counts and arms the timer
Request1(d) == [d EXCEPT !.count = @ + 1, !.handle = TRUE, !.retry = TRUE]

\* a reply is taken only while next_request1_handle is set
MediatorReceive(m) ==
    LET d    == mediators[m]
        kind == Head(d.mailbox)
        rest == [d EXCEPT !.mailbox = Tail(@)]
        Becomes(e) == mediators' = [mediators EXCEPT ![m] = e]
    IN  /\ d.alive /\ d.mailbox # << >>
        /\ \/ /\ kind = "terminate"
              /\ Becomes(Terminated(rest))
              /\ UNCHANGED mailbox
           \/ /\ kind = "reply1" /\ d.handle                   \* request2
              /\ Becomes([Cancelled(rest) EXCEPT !.handle = TRUE, !.retry = TRUE])
              /\ UNCHANGED mailbox
           \/ /\ kind = "reply2" /\ d.handle
              /\ IF d.disconnect_timer                          \* success
                 THEN /\ Becomes([Cancelled(rest) EXCEPT !.disconnect_timer = FALSE,
                                                         !.deadline = FALSE])
                      /\ Tells(m, "success")
                 ELSE Becomes(Cancelled(rest)) /\ UNCHANGED mailbox
           \/ /\ kind \in {"already", "version"} /\ d.handle
              /\ Becomes(Cancelled(rest))
              /\ Tells(m, "failed")
           \/ /\ kind # "terminate"                            \* ignored
              /\ kind \in {"reply1", "reply2", "already", "version"} => ~ d.handle
              /\ Becomes(rest)
              /\ UNCHANGED mailbox
        /\ UNCHANGED <<actor, panicked, user, budget, sessions, greeted>>

\* the 510 ms timer fires: request1
MediatorRetry(m) ==
    LET d == mediators[m]
    IN  /\ d.alive /\ d.retry
        /\ IF GivesUp(d)
           THEN /\ mediators' = [mediators EXCEPT ![m].retry = FALSE]
                /\ Tells(m, "failed")
           ELSE /\ mediators' = [mediators EXCEPT ![m] = Request1(d)]
                /\ UNCHANGED mailbox
        /\ UNCHANGED <<actor, panicked, user, budget, sessions, greeted>>

\* the 10 s timer fires
MediatorDeadline(m) ==
    /\ mediators[m].alive /\ mediators[m].deadline
    /\ mediators' = [mediators EXCEPT ![m].deadline = FALSE]
    /\ Tells(m, "failed")
    /\ UNCHANGED <<actor, panicked, user, budget, sessions, greeted>>

\* an actor nobody holds the address of stops when it has nothing left to do
MediatorStops(m) ==
    LET d == mediators[m]
    IN  /\ d.alive /\ mediator # m /\ d.mailbox = << >> /\ ~ d.retry /\ ~ d.deadline
        /\ mediators' = [mediators EXCEPT ![m] = Terminated(d)]
        /\ UNCHANGED <<actor, mailbox, panicked, user, budget, sessions, greeted>>

-----------------------------------------------------------------------------
Handle ==
    \/ ReceivedUdp \/ ClientConnect \/ ClientDisconnect
    \/ MediatorEvent \/ ReceivedDatagram \/ ClientSessionEnd

\* the ids of sessions and mediators: there are no more than connects
Ids == 1..MaxConnects

Next ==
    \/ \E a \in Servers : Connect(a) \/ \E kind \in Incoming : Arrive(a, kind)
    \/ Disconnect
    \/ Handle
    \/ \E s \in Ids : ConnectionTimeout(s) \/ Update(s) \/ UpdateSilent(s)
    \/ \E m \in DOMAIN mediators :
          MediatorReceive(m) \/ MediatorRetry(m) \/ MediatorDeadline(m) \/ MediatorStops(m)

Spec == Init /\ [][Next]_vars

\* An actor that has a message to take or a timer that is due does something; the
\* user and the network do as they like.  That no timer waits for ever behind
\* messages then follows, for there are not that many.
ClientWorks == Handle \/ \E s \in Ids : ConnectionTimeout(s) \/ Update(s)
MediatorWorks(m) ==
    /\ m \in DOMAIN mediators
    /\ MediatorReceive(m) \/ MediatorRetry(m) \/ MediatorDeadline(m) \/ MediatorStops(m)

FairSpec ==
    /\ Spec
    /\ WF_vars(ClientWorks)
    /\ \A m \in Ids : WF_vars(MediatorWorks(m))

-----------------------------------------------------------------------------
(* Properties.                                                             *)

\* The state stays well formed: what the handles name was made, what is posted
\* are the messages the handlers know, and request1 asks at most Requests times.
TypeOK ==
    /\ remote \in Servers \cup {0}
    /\ mediator \in 0..Len(mediators)
    /\ session = NoSession \/ session \in [id : 1..sessions, disconnected : BOOLEAN, own : BOOLEAN]
    /\ disconnect_handle \in 0..sessions /\ tick_handle \in 0..sessions
    /\ timeouts \subseteq 1..sessions /\ ticks \subseteq 1..sessions
    /\ sessions <= Len(mediators)
    /\ \A m \in DOMAIN mediators : mediators[m].count \in 1..Requests
    /\ panicked \in {"no", "accept", "success", "empty"}
    /\ user \in {"idle", "waiting", "connected"}

\* Connected is told of a session at most once: duplicates of the accept are
\* ignored.  And it is told for an accept that very session received, although
\* one of an earlier session may still be in the mailbox when the next connect()
\* is; unless the success that made the session came from another mediator than the
\* one in charge (client.rs:198 does not ask which one tells).
ConnectedByOwnAccept ==
    \A k \in DOMAIN greeted :
        /\ greeted[k].own => greeted[k].session = greeted[k].by
        /\ k > 1 => greeted[k - 1].session < greeted[k].session

\* A session always has its own interval running, whichever intervals earlier
\* sessions left behind: without it nothing it sends would ever be flushed.
SessionTicks == session # NoSession => session.id \in ticks

\* A mediator in charge that will not be heard of any more does not exist: its
\* 10 s timer is armed, or an event for the client is on its way.
MediatorAttended ==
    panicked = "no" /\ mediator # 0 =>
        \/ mediators[mediator].deadline
        \/ \E k \in DOMAIN mailbox : mailbox[k].type = "mediator"

\* Every connect() is answered by an event, unless the client has panicked: the
\* user does not wait for ever.
ConnectAnswered == []<>(user # "waiting" \/ panicked # "no")

\* A session that was disconnected, by either side or by silence, is given up: none
\* stays as it is for ever.
DisconnectTakesEffect ==
    []<>(session # NoSession => ~ session.disconnected \/ panicked # "no")

\* No mediator lives for ever: the one in charge is told to terminate when it
\* reports, and one that was replaced stops when its timers have fired.
Alive(m) == m \in DOMAIN mediators /\ mediators[m].alive
MediatorsEnd == \A m \in Ids : []<>(~ Alive(m) \/ panicked # "no")

\* An accept is handled with a remote and a session (client.rs:260 and :266
\* unwrap them).
AcceptFindsSession == panicked # "accept"

\* A mediator succeeds with a remote (client.rs:212 unwraps it).
SuccessFindsRemote == panicked # "success"
=============================================================================
