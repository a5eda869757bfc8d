------------------------------ MODULE Handshake ------------------------------
(***************************************************************************)
(* A client and a server together: Client and Server, whose actions are    *)
(* taken over as they are, over a network that loses and overtakes, with a *)
(* clock.  The step of the clock is 510 ms, the retry timer of request1.   *)
(* It waits for every actor, every datagram and every timer that is due:   *)
(* a round trip is shorter than a step, and timers due in one step fire in *)
(* any order.                                                              *)
(*                                                                         *)
(* A session is more here than in Client and Server: the frames it waits   *)
(* to see acknowledged, the queue that orders what it receives, and how    *)
(* long it has heard nothing.  Each frame is acknowledged and resent by    *)
(* itself; frame sets and their numbers are in Transport.                  *)
(***************************************************************************)
EXTENDS Client, ReceivedQueue

CONSTANTS
    server,        \* the server's address
    client,        \* the client's address and guid
    MaxCalls,      \* bound: calls of ConnectionHandle::disconnect
    MaxFaults      \* bound: datagrams that are lost or overtake another

ASSUME HandshakeAssumption ==
    /\ Servers = {server}
    /\ {MaxCalls, MaxFaults} \subseteq Nat

VARIABLES
    conns, connected_id, assigned, load, s_mailbox, conn, events, handler, s_budget,   \* Server
    to_server,     \* datagrams on their way to the server, in the order of sending
    to_client,     \* and to the client
    client_end,    \* the session of the client: frames out, frames in, silence
    server_end,    \* the session of the latest connection
    age,           \* timer -> steps since it was armed
    faults         \* what is left of the network's bound

S == INSTANCE Server WITH mailbox <- s_mailbox, budget <- s_budget,
                          Clients <- {[addr |-> client, guid |-> client]},
                          Incoming <- {}, Workers <- {1}

clientvars == <<actor, mailbox, mediators, panicked, user, sessions, greeted>>
servervars == <<conns, connected_id, assigned, load, s_mailbox, conn, events, handler>>
netvars    == <<to_server, to_client, client_end, server_end>>
allvars    == <<clientvars, servervars, netvars, budget, s_budget, age, faults>>

\* the client as its datagrams name it
from == [addr |-> client, guid |-> client]

-----------------------------------------------------------------------------
(* The mutated forms of definitions below.                                 *)

\* the session that was there is used again
KeptEnd(e) == e

\* what a session sends counts as heard
GrowsHearingItself(e, talks, heard) ==
    [e EXCEPT !.pending = [f \in DOMAIN @ |-> @[f] + 1], !.silent = 0]

-----------------------------------------------------------------------------
(* The ends of a session.                                                  *)

NewEnd == [ next    |-> 0,                  \* order_index
            pending |-> EmptyMap,           \* frame -> steps since it was sent
            rq      |-> NewReceivedQueue,
            silent  |-> 0 ]                 \* steps since last_receive

\* the client makes a session anew for each connection; e is the end of the last
FreshEnd(e) == NewEnd

\* the request is reliable only, every other frame is ordered as well
Ordered(kind)  == kind # "request"
FrameOf(e, kind) ==
    [split |-> FALSE, order_index |-> IF Ordered(kind) THEN e.next ELSE 0, data |-> kind]

\* send_system_packet
Offer(e, kind) ==
    [e EXCEPT !.next = IF Ordered(kind) THEN @ + 1 ELSE @,
              !.pending = Put(@, FrameOf(e, kind), 0)]

Acknowledged(e, f) == [e EXCEPT !.pending = Without(@, {f})]

\* receive_packet: the queue after frame f, and what is handed to handle_packet
Received(e, f) ==
    IF Ordered(f.data) THEN [e EXCEPT !.rq = AfterGetAll(AddReceived(@, f)), !.silent = 0]
                       ELSE [e EXCEPT !.silent = 0]
Handed(e, f) ==
    IF Ordered(f.data)
    THEN LET packets == GetAll(AddReceived(e.rq, f))
         IN  [k \in DOMAIN packets |-> packets[k][1]]
    ELSE <<f.data>>

\* an entry of time_passed is late when it is more than a second old
Late(e) == {f \in DOMAIN e.pending : e.pending[f] >= 2}

-----------------------------------------------------------------------------
(* Timers, by what armed them, and the steps after which they are due: 510 *)
(* ms, 10 s, 5 s and 5 s.  Silence is due when last_receive is 11 s old.   *)

Limit == [retry |-> 1, deadline |-> 20, timeout |-> 10, greet |-> 10]
Silence == 22

Armed ==
    {<<"retry", m>> : m \in {i \in DOMAIN mediators : mediators[i].retry}}
        \cup {<<"deadline", m>> : m \in {i \in DOMAIN mediators : mediators[i].deadline}}
        \cup {<<"timeout", s>> : s \in timeouts}
        \cup {<<"greet", c>> : c \in {i \in DOMAIN conn : conn[i].alive /\ conn[i].timer}}

Due(kind, id) == age[<<kind, id>>] >= Limit[kind]

\* the ages after a step that armed the timers of `again` anew
Aged(again) ==
    age' = [t \in Armed' |-> IF t \in DOMAIN age /\ t \notin again THEN age[t] ELSE 0]

-----------------------------------------------------------------------------
Plain(kind) == [type |-> "plain", kind |-> kind]
Carries(f)  == [type |-> "frame", frame |-> f]
Ack(f)      == [type |-> "ack", frame |-> f]

HandshakeInit ==
    /\ Init
    /\ S!Init
    /\ to_server = << >> /\ to_client = << >>
    /\ client_end = NewEnd /\ server_end = NewEnd
    /\ age = EmptyMap
    /\ faults = MaxFaults

-----------------------------------------------------------------------------
(* The network.  A datagram is handed to an actor that has nothing else to *)
(* do; Client and Server explore what its mailbox can hold.                *)

Without1(net, k) == SubSeq(net, 1, k - 1) \o SubSeq(net, k + 1, Len(net))

\* the k-th datagram on its way is the next to arrive
Overtakes(k) ==
    IF k = 1 THEN UNCHANGED faults
    ELSE faults > 0 /\ faults' = faults - 1

Lose ==
    /\ faults > 0
    /\ faults' = faults - 1
    /\ \/ \E k \in DOMAIN to_server : to_server' = Without1(to_server, k) /\ UNCHANGED to_client
       \/ \E k \in DOMAIN to_client : to_client' = Without1(to_client, k) /\ UNCHANGED to_server
    /\ UNCHANGED <<clientvars, servervars, client_end, server_end, budget, s_budget, age>>

\* what a session does with datagram d, and what it answers at once: the end
\* after it, the kinds handed on, the acknowledgement unless it has disconnected
Hears(e, d, disconnected) ==
    CASE d.type = "plain" -> [end |-> e, kinds |-> <<d.kind>>, answer |-> << >>]
      [] d.type = "ack"   -> [end |-> Acknowledged(e, d.frame), kinds |-> << >>, answer |-> << >>]
      [] d.type = "frame" -> [end    |-> Received(e, d.frame),
                              kinds  |-> Handed(e, d.frame),
                              answer |-> IF disconnected THEN << >> ELSE <<Ack(d.frame)>>]

\* ... and an actor without a session
Ignores(e, d) ==
    [end    |-> e,
     kinds  |-> CASE d.type = "plain" -> <<d.kind>>
                  [] d.type = "frame" -> <<d.frame.data>>
                  [] d.type = "ack"   -> << >>,
     answer |-> << >>]

ClientIdle == mailbox = << >> /\ \A m \in DOMAIN mediators : mediators[m].mailbox = << >>
ServerIdle == s_mailbox = << >> /\ \A c \in DOMAIN conn : conn[c].mailbox = << >>

ClientArrives(k) ==
    LET d     == to_client[k]
        heard == IF session # NoSession /\ mediator = 0
                 THEN Hears(client_end, d, session.disconnected) ELSE Ignores(client_end, d)
    IN  /\ ClientIdle
        /\ Overtakes(k)
        /\ Deliver(server, heard.kinds)
        /\ client_end' = heard.end
        /\ to_client' = Without1(to_client, k)
        /\ to_server' = to_server \o heard.answer
        /\ UNCHANGED <<servervars, server_end, budget, s_budget, age>>

ServerArrives(k) ==
    LET d     == to_server[k]
        heard == IF client \in DOMAIN conns /\ conn[conns[client]].alive
                 THEN Hears(server_end, d, conn[conns[client]].disconnected)
                 ELSE Ignores(server_end, d)
    IN  /\ ServerIdle
        /\ Overtakes(k)
        /\ S!Deliver(from, heard.kinds)
        /\ server_end' = heard.end
        /\ to_server' = Without1(to_server, k)
        /\ to_client' = to_client \o heard.answer
        /\ UNCHANGED <<clientvars, client_end, budget, s_budget, age>>

-----------------------------------------------------------------------------
(* The client: what its actions send.                                      *)

ClientSends(ds) == to_server' = to_server \o ds /\ UNCHANGED <<to_client, server_end>>

\* a frame is flushed by the interval before anything else happens
ClientOffers(e, kind) ==
    /\ client_end' = Offer(e, kind)
    /\ ClientSends(<<Carries(FrameOf(e, kind))>>)

ClientQuiet == UNCHANGED netvars

ClientStep ==
    /\ \/ (Connect(server) \/ (Disconnect /\ user = "connected")) /\ ClientQuiet
       \/ (ReceivedUdp \/ ClientSessionEnd) /\ ClientQuiet
       \/ ClientConnect /\ ClientSends(<<Plain("request1")>>) /\ UNCHANGED client_end
       \/ /\ ClientDisconnect
          /\ IF session = NoSession THEN ClientQuiet ELSE ClientOffers(client_end, "bye")
       \/ /\ MediatorEvent
          /\ IF sessions' = sessions THEN ClientQuiet ELSE ClientOffers(FreshEnd(client_end), "request")
       \/ /\ ReceivedDatagram
          /\ IF greeted' = greeted THEN ClientQuiet ELSE ClientOffers(client_end, "incoming")
       \/ \E s \in Ids : \/ ConnectionTimeout(s) /\ Due("timeout", s) /\ ClientQuiet
                         \/ Update(s) /\ ClientQuiet
                         \/ /\ UpdateSilent(s) /\ client_end.silent >= Silence
                            /\ ClientOffers(client_end, "bye")
       \/ \E m \in DOMAIN mediators :
             /\ MediatorStops(m) \/ (MediatorDeadline(m) /\ Due("deadline", m))
             /\ ClientQuiet
    /\ UNCHANGED <<servervars, s_budget, faults>>
    /\ Aged({})

\* the steps of a mediator that ask for something, and arm its retry timer anew
Asks(m) ==
    LET d == mediators[m]
    IN  /\ \/ /\ MediatorReceive(m)
              /\ IF Head(d.mailbox) = "reply1" /\ d.handle
                 THEN ClientSends(<<Plain("request2")>>) /\ UNCHANGED client_end
                 ELSE ClientQuiet
           \/ /\ MediatorRetry(m) /\ Due("retry", m)
              /\ IF GivesUp(d)
                 THEN ClientQuiet
                 ELSE ClientSends(<<Plain("request1")>>) /\ UNCHANGED client_end
        /\ UNCHANGED <<servervars, s_budget, faults>>
        /\ Aged({<<"retry", m>>})

ClientResends ==
    /\ session # NoSession /\ ~ session.disconnected
    /\ \E f \in Late(client_end) :
          /\ client_end' = [client_end EXCEPT !.pending = Put(@, f, 0)]
          /\ ClientSends(<<Carries(f)>>)
    /\ UNCHANGED <<clientvars, servervars, budget, s_budget, age, faults>>

-----------------------------------------------------------------------------
(* The server: what its actions send.                                      *)

ServerSends(ds) == to_client' = to_client \o ds /\ UNCHANGED <<to_server, client_end>>

ServerOffers(kind) ==
    /\ server_end' = Offer(server_end, kind)
    /\ ServerSends(<<Carries(FrameOf(server_end, kind))>>)

\* what RakServer answers a datagram it does not hand to a connection
Answer(kind) ==
    CASE client \in DOMAIN conns -> << >>
      [] client \notin DOMAIN conns /\ kind = "request1" -> <<Plain("reply1")>>
      [] client \notin DOMAIN conns /\ kind = "request2" ->
            <<Plain(IF S!IsConnected(from) THEN "already" ELSE "reply2")>>
      [] OTHER -> << >>

ServerStep ==
    /\ \/ /\ S!ServerReceivedUdp
          /\ ServerSends(Answer(Head(s_mailbox).kind))
          /\ server_end' = IF Len(conn') > Len(conn) THEN NewEnd ELSE server_end
       \/ (S!ConnectionEnd \/ \E c \in DOMAIN conn : S!Call(c, "disconnect")) /\ UNCHANGED netvars
       \/ \E c \in DOMAIN conn :
             \/ (S!ConnReceivedUdp(c) \/ S!ConnSessionEnd(c)) /\ UNCHANGED netvars
             \/ /\ S!ConnReceivedDatagram(c)
                /\ IF conn[c].disconnect_handle /\ Head(conn[c].mailbox).kind = "request"
                   THEN ServerOffers("accept") ELSE UNCHANGED netvars
             \/ S!ConnDisconnect(c) /\ ServerOffers("bye")
             \/ S!ConnTimeout(c) /\ Due("greet", c) /\ ServerOffers("bye")
             \/ S!ConnSilent(c) /\ server_end.silent >= Silence /\ ServerOffers("bye")
    /\ UNCHANGED <<clientvars, budget, faults>>
    /\ Aged({})

ServerTalks ==
    client \in DOMAIN conns /\ conn[conns[client]].alive /\ ~ conn[conns[client]].disconnected

ServerResends ==
    /\ ServerTalks
    /\ \E f \in Late(server_end) :
          /\ server_end' = [server_end EXCEPT !.pending = Put(@, f, 0)]
          /\ ServerSends(<<Carries(f)>>)
    /\ UNCHANGED <<clientvars, servervars, budget, s_budget, age, faults>>

-----------------------------------------------------------------------------
(* The clock.                                                              *)

ClientTalks == session # NoSession /\ ~ session.disconnected

\* an end whose peer talks hears its pings, one every 3 s at least; those to a client
\* with a mediator in charge go to the mediator
Grows(e, talks, heard) ==
    [e EXCEPT !.pending = [f \in DOMAIN @ |-> @[f] + 1],
              !.silent = IF talks /\ ~ heard THEN @ + 1 ELSE 0]

Tick ==
    /\ ClientIdle /\ ServerIdle /\ to_server = << >> /\ to_client = << >>
    /\ \A t \in Armed : ~ Due(t[1], t[2])
    /\ ClientTalks => Late(client_end) = {} /\ client_end.silent < Silence
    /\ ServerTalks => Late(server_end) = {} /\ server_end.silent < Silence
    /\ age' = [t \in DOMAIN age |-> age[t] + 1]
    /\ client_end' = IF ClientTalks THEN Grows(client_end, TRUE, ServerTalks /\ mediator = 0) ELSE NewEnd
    /\ server_end' = IF ServerTalks THEN Grows(server_end, TRUE, ClientTalks) ELSE NewEnd
    /\ UNCHANGED <<clientvars, servervars, to_server, to_client, budget, s_budget, faults>>

-----------------------------------------------------------------------------
HandshakeNext ==
    \/ ClientStep \/ (\E m \in DOMAIN mediators : Asks(m)) \/ ClientResends
    \/ ServerStep \/ ServerResends
    \/ \E k \in DOMAIN to_client : ClientArrives(k)
    \/ \E k \in DOMAIN to_server : ServerArrives(k)
    \/ Lose
    \/ Tick

HandshakeSpec == HandshakeInit /\ [][HandshakeNext]_allvars

\* Actors are scheduled, timers fire and time goes on; users and the network's
\* faults do as they like.
Works ==
    \/ ClientStep /\ budget' = budget
    \/ (\E m \in DOMAIN mediators : Asks(m)) \/ ClientResends
    \/ ServerStep /\ s_budget' = s_budget
    \/ ServerResends
    \/ \E k \in DOMAIN to_client : ClientArrives(k)
    \/ \E k \in DOMAIN to_server : ServerArrives(k)
    \/ Tick

FairHandshakeSpec == HandshakeSpec /\ WF_allvars(Works)

-----------------------------------------------------------------------------
(* Properties.                                                             *)

\* The first connect() to a server that is up connects, although one datagram may
\* be lost or overtake another at any point: what a lost Reply2 leaves behind at
\* the server goes away with its 5 s timer while the mediator still asks.  A later
\* connect(), which an end of the earlier session may still be in the way of,
\* connects when no fault happens.
Waits(kth) == user = "waiting" /\ budget.connects = MaxConnects - kth
ConnectSucceeds ==
    /\ Waits(1) ~> user = "connected"
    /\ Waits(2) ~> user = "connected" \/ faults # MaxFaults

\* The server's user is told Connected of a connection only for a client that was
\* told Connected before: each greeting came from a session of its own.  Nothing in
\* the code ties an incoming to its session but the order of datagrams, so this is
\* about a network that loses or overtakes twice; three times are enough to break it.
GreetedByConnected ==
    Cardinality({c \in DOMAIN conn : S!Holds(c, "connected")}) <= Len(greeted)

\* A client that believes it is connected is right, or learns better: the
\* server's user is told of the connection, or the client's of its end.
ConnectedBothEnds ==
    user = "connected" ~> \/ user # "connected"
                          \/ client \in DOMAIN conns /\ S!Holds(conns[client], "connected")

\* No end is left alone: a connection whose client has no session goes away, and
\* a session whose server has no connection.
HasConnection == client \in DOMAIN conns
NoHalfOpen ==
    /\ HasConnection /\ session = NoSession ~> ~ HasConnection \/ session # NoSession
    /\ session # NoSession /\ ~ HasConnection ~> session = NoSession \/ HasConnection
=============================================================================
