------------------------------- MODULE Server -------------------------------
(***************************************************************************)
(* The life of a server and its connections: RakServer, SessionWorker and  *)
(* ServerConn of src/src/server.rs, with the user and the network around   *)
(* them.                                                                   *)
(*                                                                         *)
(* RakServer is one actor, and so is every connection: each empties its    *)
(* own mailbox in order, on a thread of its own, and between the message   *)
(* that ends a connection there and the message that frees its address and *)
(* guid here anything may happen.  A connection's session is its           *)
(* `disconnected` flag here; Transport is its inside.  Pings, versions and *)
(* mtus, which change nothing of this, are in Negotiation.                 *)
(***************************************************************************)
EXTENDS Naturals, Sequences, FiniteSets, HashMap

CONSTANTS
    Clients,        \* the [addr, guid] pairs datagrams come from
    Incoming,       \* the kinds of datagram that arrive
    Workers,        \* the threads of SessionWorker
    MaxArrivals,    \* bound: datagrams that arrive
    MaxCalls        \* bound: calls of ConnectionHandle::send and disconnect

\* "request2" opens a connection, "request1" asks whether one can be had; the rest
\* is what a session's datagram carries, "empty" a message of no bytes
Kinds == {"request1", "request2", "request", "incoming", "data", "bye", "empty"}

ASSUME ServerAssumption ==
    /\ \A c \in Clients : DOMAIN c = {"addr", "guid"}
    /\ Incoming \subseteq Kinds
    /\ Workers # {} /\ IsFiniteSet(Workers)
    /\ {MaxArrivals, MaxCalls} \subseteq Nat

VARIABLES
    conns,         \* address -> connection
    connected_id,  \* the guids of the connections
    assigned,      \* SessionWorker::session: address -> worker
    load,          \* SessionWorker::workers: worker -> its count
    mailbox,       \* RakServer's mailbox
    conn,          \* every ServerConn made so far
    events,        \* history: for each connection, the events its user was told
    handler,       \* the user's actor runs
    budget         \* what is left of the bounds

registry == <<conns, connected_id, assigned, load>>
vars == <<registry, mailbox, conn, events, handler, budget>>

Init ==
    /\ conns = EmptyMap
    /\ connected_id = << >>
    /\ assigned = EmptyMap
    /\ load = [w \in Workers |-> 0]
    /\ mailbox = << >>
    /\ conn = << >>
    /\ events = << >>
    /\ handler = TRUE
    /\ budget = [arrivals |-> MaxArrivals, calls |-> MaxCalls]

-----------------------------------------------------------------------------
(* The network, and the user with the handles that Connected gave it.      *)

\* datagrams that come in one after the other
Deliver(c, kinds) ==
    /\ mailbox' = mailbox \o [k \in DOMAIN kinds |-> [type |-> "udp", from |-> c, kind |-> kinds[k]]]
    /\ UNCHANGED <<registry, conn, events, handler>>

Arrive(c, kind) ==
    /\ budget.arrivals > 0
    /\ Deliver(c, <<kind>>)
    /\ budget' = [budget EXCEPT !.arrivals = @ - 1]

Holds(c, kind) == \E k \in DOMAIN events[c] : events[c][k] = kind

\* ConnectionHandle::send and ::disconnect
Call(c, type) ==
    /\ budget.calls > 0 /\ handler
    /\ Holds(c, "connected")
    /\ conn' = [conn EXCEPT ![c].mailbox =
                   IF conn[c].alive THEN Append(@, [type |-> type]) ELSE @]
    /\ budget' = [budget EXCEPT !.calls = @ - 1]
    /\ UNCHANGED <<registry, mailbox, events, handler>>

HandlerStops ==
    /\ handler
    /\ handler' = FALSE
    /\ UNCHANGED <<registry, mailbox, conn, events, budget>>
-----------------------------------------------------------------------------
(* The mutated forms of definitions below.                                 *)

\* the guid of a connection at another address is not looked for
IsConnectedHere(from) == from.addr \in DOMAIN conns

\* the new session is not counted
AddUncounted(addr) ==
    \E w \in Workers : assigned' = Put(assigned, addr, w) /\ UNCHANGED load

\* the connection goes on after it has reported its end
RunsOn(d) == d

\* the 5 s timer is not armed
NewConnUntimed(from) ==
    [ addr |-> from.addr, guid |-> from.guid, alive |-> TRUE, disconnect_handle |-> TRUE,
      timer |-> FALSE, disconnected |-> FALSE, panicked |-> FALSE, mailbox |-> << >> ]

\* disconnect_handle is kept when the client is greeted
GreetedAgain(d) == [d EXCEPT !.timer = FALSE]

\* the session is marked, and its connection never hears of it
NoEndPosts == << >>

\* RakServer is not told that the connection has ended
NoConnectionEnd(d) == UNCHANGED mailbox

-----------------------------------------------------------------------------
(* SessionWorker.                                                          *)

\* add: a worker with the smallest count (any of them: it is a hash map)
Add(addr) ==
    \E w \in Workers :
        /\ \A v \in Workers : load[w] <= load[v]
        /\ load' = [load EXCEPT ![w] = @ + 1]
        /\ assigned' = Put(assigned, addr, w)

Delete(addr) ==
    /\ assigned' = Without(assigned, {addr})
    /\ load' = IF addr \in DOMAIN assigned
               THEN [load EXCEPT ![assigned[addr]] = @ - 1] ELSE load

-----------------------------------------------------------------------------
(* RakServer.                                                              *)

Takes(type) == mailbox # << >> /\ Head(mailbox).type = type

\* connected_id.contains(&guid)
IsConnected(from) == \E k \in DOMAIN connected_id : connected_id[k] = from.guid

\* ServerConn::new and started(): the 5 s timer and the interval
NewConn(from) ==
    [ addr              |-> from.addr,
      guid              |-> from.guid,
      alive             |-> TRUE,
      disconnect_handle |-> TRUE,     \* disconnect_handle.is_some()
      timer             |-> TRUE,     \* the 5 s timer is armed
      disconnected      |-> FALSE,    \* of the session
      panicked          |-> FALSE,    \* how it died, if it did: its task is gone
      mailbox           |-> << >> ]

ServerReceivedUdp ==
    LET m    == Head(mailbox)
        addr == m.from.addr
    IN  /\ Takes("udp")
        /\ mailbox' = Tail(mailbox)
        /\ \/ /\ addr \in DOMAIN conns
              /\ conn' = [conn EXCEPT ![conns[addr]].mailbox =
                             IF conn[conns[addr]].alive
                             THEN Append(@, [type |-> "udp", kind |-> m.kind]) ELSE @]
              /\ UNCHANGED <<registry, events>>
           \/ /\ addr \notin DOMAIN conns
              /\ m.kind = "request2" /\ ~ IsConnected(m.from)
              /\ Add(addr)
              /\ conn' = Append(conn, NewConn(m.from))
              /\ events' = Append(events, << >>)
              /\ conns' = Put(conns, addr, Len(conn) + 1)
              /\ connected_id' = Append(connected_id, m.from.guid)
           \/ /\ addr \notin DOMAIN conns
              /\ m.kind = "request2" => IsConnected(m.from)   \* AlreadyConnected
              /\ UNCHANGED <<registry, conn, events>>
        /\ UNCHANGED <<handler, budget>>

\* the position connected_id.remove() takes out
Position(guid) == CHOOSE k \in DOMAIN connected_id :
                     /\ connected_id[k] = guid
                     /\ \A j \in 1..(k - 1) : connected_id[j] # guid

ConnectionEnd ==
    LET m == Head(mailbox)
    IN  /\ Takes("connection_end")
        /\ mailbox' = Tail(mailbox)
        /\ conns' = Without(conns, {m.addr})
        /\ Delete(m.addr)
        /\ connected_id' =
              IF \E k \in DOMAIN connected_id : connected_id[k] = m.guid
              THEN LET p == Position(m.guid)
                   IN  SubSeq(connected_id, 1, p - 1)
                          \o SubSeq(connected_id, p + 1, Len(connected_id))
              ELSE connected_id
        /\ UNCHANGED <<conn, events, handler, budget>>

-----------------------------------------------------------------------------
(* ServerConn.                                                             *)

\* Session::end and Session::disconnect: SessionEnd is posted, the flag set
EndPosts == <<[type |-> "end"]>>
Ended(d) == [d EXCEPT !.disconnected = TRUE, !.mailbox = @ \o EndPosts]

\* ctx.terminate()
Terminated(d) == [d EXCEPT !.alive = FALSE, !.timer = FALSE, !.mailbox = << >>]

\* a panic in a handler takes the actor down, with all it had in its mailbox
Panicked(d) == [Terminated(d) EXCEPT !.panicked = TRUE]

\* Session::handle; handle_packet indexes the first byte of an empty frame, of a
\* session that has ended too
SessionHandle(d, kind) ==
    CASE kind = "bye" -> Ended(d)
      [] kind = "empty" -> Panicked(d)
      [] kind \in {"request1", "request2"} -> d
      [] OTHER -> [d EXCEPT !.mailbox = Append(@, [type |-> "datagram", kind |-> kind])]

\* NewIncomingConnection: the timer is cancelled, the handle forgotten
Greeted(d) == [d EXCEPT !.timer = FALSE, !.disconnect_handle = FALSE]

Becomes(c, d) == conn' = [conn EXCEPT ![c] = d]

\* ServerConn::event: a handler that is gone terminates the connection
Event(c, kind, d) ==
    IF handler THEN events' = [events EXCEPT ![c] = Append(@, kind)] /\ Becomes(c, d)
               ELSE UNCHANGED events /\ Becomes(c, Terminated(d))

\* The connection takes its next message; d is what it is without it.
ConnTakes(c, type) ==
    conn[c].alive /\ conn[c].mailbox # << >> /\ Head(conn[c].mailbox).type = type

Rest(c) == [conn[c] EXCEPT !.mailbox = Tail(@)]

ConnReceivedUdp(c) ==
    /\ ConnTakes(c, "udp")
    /\ Becomes(c, SessionHandle(Rest(c), Head(conn[c].mailbox).kind))
    /\ UNCHANGED <<registry, mailbox, events, handler, budget>>

ConnReceivedDatagram(c) ==
    LET kind == Head(conn[c].mailbox).kind
    IN  /\ ConnTakes(c, "datagram")
        /\ \/ conn[c].disconnect_handle /\ kind = "incoming"
              /\ Event(c, "connected", Greeted(Rest(c)))
           \/ conn[c].disconnect_handle /\ kind # "incoming"
              /\ Becomes(c, Rest(c)) /\ UNCHANGED events
           \/ ~ conn[c].disconnect_handle
              /\ Event(c, "packet", Rest(c))
        /\ UNCHANGED <<registry, mailbox, handler, budget>>

ReportsEnd(d) ==
    mailbox' = Append(mailbox, [type |-> "connection_end", addr |-> d.addr, guid |-> d.guid])

ConnSessionEnd(c) ==
    /\ ConnTakes(c, "end")
    /\ ReportsEnd(conn[c])
    /\ Event(c, "disconnected", Terminated(Rest(c)))
    /\ UNCHANGED <<registry, handler, budget>>

\* what send_to does to the session is in Fragmentation and Transport
ConnSendPacket(c) ==
    /\ ConnTakes(c, "send")
    /\ Becomes(c, Rest(c))
    /\ UNCHANGED <<registry, mailbox, events, handler, budget>>

ConnDisconnect(c) ==
    /\ ConnTakes(c, "disconnect")
    /\ Becomes(c, Ended(Rest(c)))
    /\ UNCHANGED <<registry, mailbox, events, handler, budget>>

\* the 5 s timer fires
ConnTimeout(c) ==
    /\ conn[c].alive /\ conn[c].timer
    /\ Becomes(c, [Ended(conn[c]) EXCEPT !.timer = FALSE])
    /\ UNCHANGED <<registry, mailbox, events, handler, budget>>

\* Session::update of a session that received nothing for more than 10 s: the
\* 5 s timer has been dealt with by then
ConnSilent(c) ==
    /\ conn[c].alive /\ ~ conn[c].timer /\ ~ conn[c].disconnected
    /\ Becomes(c, Ended(conn[c]))
    /\ UNCHANGED <<registry, mailbox, events, handler, budget>>

-----------------------------------------------------------------------------
ConnHandle(c) ==
    \/ ConnReceivedUdp(c) \/ ConnReceivedDatagram(c) \/ ConnSessionEnd(c)
    \/ ConnSendPacket(c) \/ ConnDisconnect(c)

ServerHandle == ServerReceivedUdp \/ ConnectionEnd

Next ==
    \/ \E c \in Clients, kind \in Incoming : Arrive(c, kind)
    \/ HandlerStops
    \/ ServerHandle
    \/ \E c \in DOMAIN conn :
          \/ \E type \in {"send", "disconnect"} : Call(c, type)
          \/ ConnHandle(c) \/ ConnTimeout(c) \/ ConnSilent(c)

Spec == Init /\ [][Next]_vars

\* there are no more connections than datagrams
Ids == 1..MaxArrivals

\* Actors are scheduled and the 5 s timer fires; the rest does as it likes.
FairSpec ==
    /\ Spec
    /\ WF_vars(ServerHandle)
    /\ \A c \in Ids : /\ WF_vars(c \in DOMAIN conn /\ ConnHandle(c))
                      /\ WF_vars(c \in DOMAIN conn /\ ConnTimeout(c))

-----------------------------------------------------------------------------
(* Properties.                                                             *)

Guids == {c.guid : c \in Clients}
Addrs == {c.addr : c \in Clients}

\* what is posted to a connection, and what the connection keeps
ConnMessage == [type : {"send", "disconnect", "end"}]
                  \cup [type : {"udp", "datagram"}, kind : Kinds]
ServerConn == [ addr : Addrs, guid : Guids, alive : BOOLEAN, disconnect_handle : BOOLEAN,
                timer : BOOLEAN, disconnected : BOOLEAN, panicked : BOOLEAN,
                mailbox : Seq(ConnMessage) ]

\* The state stays well formed; no worker's count, a u32, goes below zero.
TypeOK ==
    /\ conns \in [DOMAIN conns -> DOMAIN conn] /\ DOMAIN conns \subseteq Addrs
    /\ connected_id \in Seq(Guids)
    /\ assigned \in [DOMAIN assigned -> Workers]
    /\ load \in [Workers -> Nat]
    /\ conn \in Seq(ServerConn)
    /\ DOMAIN events = DOMAIN conn

\* The four tables of RakServer describe the same connections: an address is
\* in conns exactly when it has a worker, connected_id has the guid of each
\* connection once, and each worker counts the addresses it was given.  A
\* connection that runs is the one its address leads to, so two that run share
\* neither address nor guid, however late the end of an earlier one is handled.
RegistryAgrees ==
    /\ DOMAIN conns = DOMAIN assigned
    /\ {connected_id[k] : k \in DOMAIN connected_id} = {conn[conns[a]].guid : a \in DOMAIN conns}
    /\ \A a, b \in DOMAIN conns : conn[conns[a]].guid = conn[conns[b]].guid => a = b
    /\ Len(connected_id) = Cardinality(DOMAIN conns)
    /\ \A w \in Workers : load[w] = Cardinality({a \in DOMAIN assigned : assigned[a] = w})
    /\ \A c \in DOMAIN conn :
          conn[c].alive => conn[c].addr \in DOMAIN conns /\ conns[conn[c].addr] = c

\* The end of a connection that waits to be handled is the end of the connection
\* registered at that address: it will not take down a successor.
EndsAreCurrent ==
    \A k \in DOMAIN mailbox :
        mailbox[k].type = "connection_end" =>
            /\ mailbox[k].addr \in DOMAIN conns
            /\ LET c == conns[mailbox[k].addr]
               IN  ~ conn[c].alive /\ conn[c].guid = mailbox[k].guid
            /\ \A j \in DOMAIN mailbox :
                  mailbox[j].type = "connection_end" /\ mailbox[j].addr = mailbox[k].addr => j = k

\* The user of a connection is told Connected first, once, if it is told of
\* packets at all, and nothing after Disconnected.
EventsInOrder ==
    \A c \in DOMAIN events : \A k \in DOMAIN events[c] :
        /\ events[c][k] = "connected" => k = 1
        /\ events[c][k] = "packet" => events[c][1] = "connected"
        /\ events[c][k] = "disconnected" => k = Len(events[c])

\* Every connection is greeted or ends: a client that asks for one and then falls
\* silent does not keep it.
OpenOrEnds ==
    \A c \in Ids :
        c \in DOMAIN conn ~> c \in DOMAIN conn /\ (~ conn[c].alive \/ ~ conn[c].disconnect_handle)

\* A session that was disconnected ends its connection, and with a handler that
\* runs its address and guid become free.  Not so if the session handles an empty
\* message before its SessionEnd (session.rs:155): a connection that panics reports
\* no end, and keeps its address, its guid and its worker's count for ever.
EndFreesSlot ==
    \A c \in Ids :
        c \in DOMAIN conn /\ conn[c].disconnected
            ~> \/ \A a \in DOMAIN conns : conns[a] # c
               \/ conn[c].panicked
               \/ ~ handler
=============================================================================
