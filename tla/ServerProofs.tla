---------------------------- MODULE ServerProofs ----------------------------
(***************************************************************************)
(* The safety of Server for any clients, any workers and any bounds: the   *)
(* four tables of RakServer agree, an end never takes down a successor,    *)
(* and a user is told of its connection in order.                          *)
(***************************************************************************)
EXTENDS Server, SequenceTheorems, FiniteSetTheorems, TLAPS

\* what waits in RakServer's mailbox, and what a user is told
ServerMessage == [type : {"udp"}, from : Clients, kind : Kinds]
                    \cup [type : {"connection_end"}, addr : Addrs, guid : Guids]
EventKind == {"connected", "packet", "disconnected"}

Typed ==
    /\ TypeOK
    /\ mailbox \in Seq(ServerMessage)
    /\ events \in Seq(Seq(EventKind))
    /\ Len(events) = Len(conn)
    /\ handler \in BOOLEAN
    /\ budget \in [arrivals : Nat, calls : Nat]

\* RegistryAgrees needs that a connection is registered under its own address
\* and that connected_id, a Vec, names no guid twice: remove takes one out.
OwnAddress == \A a \in DOMAIN conns : conn[conns[a]].addr = a
Once(s) == \A j, k \in DOMAIN s : s[j] = s[k] => j = k
GuidsOnce == Once(connected_id)

\* EventsInOrder of one connection d whose user was told e, with what a
\* connection that still runs may yet tell.
InOrder(e) ==
    \A k \in DOMAIN e :
        /\ e[k] = "connected" => k = 1
        /\ e[k] = "packet" => e[1] = "connected"
        /\ e[k] = "disconnected" => k = Len(e)
Told(d, e) ==
    /\ InOrder(e)
    /\ d.alive /\ d.disconnect_handle => e = << >>
    /\ d.alive /\ ~ d.disconnect_handle => e # << >> /\ e[1] = "connected"
    /\ d.alive => \A k \in DOMAIN e : e[k] # "disconnected"

\* The inductive invariant.
IInv ==
    /\ Typed
    /\ IsFiniteSet(DOMAIN conns)
    /\ RegistryAgrees
    /\ OwnAddress
    /\ GuidsOnce
    /\ EndsAreCurrent
    /\ \A c \in DOMAIN conn : Told(conn[c], events[c])

-----------------------------------------------------------------------------
\* The typed parts of the state, ready to use.
LEMMA Fields ==
    ASSUME Typed
    PROVE  /\ conn \in Seq(ServerConn) /\ Len(conn) \in Nat /\ DOMAIN conn = 1..Len(conn)
           /\ \A c \in DOMAIN conn : conn[c] \in ServerConn
           /\ DOMAIN events = DOMAIN conn
           /\ \A c \in DOMAIN conn : events[c] \in Seq(EventKind)
           /\ \A a \in DOMAIN conns : conns[a] \in DOMAIN conn
           /\ DOMAIN mailbox = 1..Len(mailbox) /\ Len(mailbox) \in Nat
<1>1. /\ conn \in Seq(ServerConn)
      /\ events \in Seq(Seq(EventKind))
      /\ mailbox \in Seq(ServerMessage)
      /\ DOMAIN events = DOMAIN conn
      /\ conns \in [DOMAIN conns -> DOMAIN conn]
  BY DEF Typed, TypeOK
<1>2. \A c \in DOMAIN conn : conn[c] \in ServerConn /\ events[c] \in Seq(EventKind)
  BY <1>1, ElementOfSeq, LenProperties
<1>. QED
  BY <1>1, <1>2, LenProperties

LEMMA InitIInv == Init => IInv
<1> SUFFICES ASSUME Init PROVE IInv
  OBVIOUS
<1> USE DEF Init, EmptyMap
<1>1. /\ DOMAIN conns = {} /\ DOMAIN assigned = {}
      /\ DOMAIN conn = {} /\ DOMAIN events = {}
      /\ DOMAIN connected_id = {} /\ DOMAIN mailbox = {}
      /\ Len(connected_id) = 0
  OBVIOUS
<1>2. Typed
  <2>1. load \in [Workers -> Nat] /\ budget \in [arrivals : Nat, calls : Nat]
    BY ServerAssumption
  <2>2. TypeOK
    BY <1>1, <2>1 DEF TypeOK
  <2>. QED
    BY <2>1, <2>2 DEF Typed
<1>3. IsFiniteSet(DOMAIN conns) /\ Cardinality(DOMAIN conns) = 0
  BY <1>1, FS_EmptySet
<1>4. \A w \in Workers : load[w] = Cardinality({a \in DOMAIN assigned : assigned[a] = w})
  <2>1. \A w \in Workers : {a \in DOMAIN assigned : assigned[a] = w} = {}
    BY <1>1
  <2>. QED
    BY <2>1, FS_EmptySet
<1>5. {connected_id[k] : k \in DOMAIN connected_id} = {conn[conns[a]].guid : a \in DOMAIN conns}
  BY <1>1
<1>6. RegistryAgrees
  BY <1>1, <1>3, <1>4, <1>5 DEF RegistryAgrees
<1>. QED
  BY <1>1, <1>2, <1>3, <1>6 DEF IInv, OwnAddress, GuidsOnce, Once, EndsAreCurrent

-----------------------------------------------------------------------------
(* Steps that leave the registry alone.                                    *)

\* A step that makes no connection and revives none.
Continues ==
    /\ conn' \in Seq(ServerConn)
    /\ Len(conn') = Len(conn)
    /\ \A c \in DOMAIN conn : /\ conn'[c].addr = conn[c].addr
                              /\ conn'[c].guid = conn[c].guid
                              /\ conn'[c].alive => conn[c].alive

LEMMA RegistryKept ==
    ASSUME IInv, Continues, UNCHANGED registry
    PROVE  /\ IsFiniteSet(DOMAIN conns)'
           /\ RegistryAgrees'
           /\ OwnAddress'
           /\ GuidsOnce'
<1>1. /\ DOMAIN conn' = DOMAIN conn
      /\ \A a \in DOMAIN conns : conns[a] \in DOMAIN conn
  BY Fields, LenProperties DEF IInv, Continues
<1>2. UNCHANGED <<conns, connected_id, assigned, load>>
  BY DEF registry
<1>3. \A a \in DOMAIN conns : /\ conn'[conns[a]].guid = conn[conns[a]].guid
                              /\ conn'[conns[a]].addr = conn[conns[a]].addr
  BY <1>1 DEF Continues
<1>4. /\ {conn'[conns'[a]].guid : a \in DOMAIN conns'} = {conn[conns[a]].guid : a \in DOMAIN conns}
      /\ {connected_id'[k] : k \in DOMAIN connected_id'} = {connected_id[k] : k \in DOMAIN connected_id}
  BY <1>2, <1>3
<1>5. RegistryAgrees'
  <2>1. RegistryAgrees
    BY DEF IInv
  <2>2. \A a, b \in DOMAIN conns : conn'[conns[a]].guid = conn'[conns[b]].guid => a = b
    BY <1>3, <2>1 DEF RegistryAgrees
  <2>3. \A c \in DOMAIN conn' :
           conn'[c].alive => conn'[c].addr \in DOMAIN conns /\ conns[conn'[c].addr] = c
    BY <1>1, <2>1 DEF RegistryAgrees, Continues
  <2>4. {connected_id'[k] : k \in DOMAIN connected_id'}
           = {conn'[conns'[a]].guid : a \in DOMAIN conns'}
    BY <1>4, <2>1 DEF RegistryAgrees
  <2>5. \A w \in Workers :
           load'[w] = Cardinality({a \in DOMAIN assigned' : assigned'[a] = w})
    BY <1>2, <2>1 DEF RegistryAgrees
  <2>6. DOMAIN conns' = DOMAIN assigned' /\ Len(connected_id') = Cardinality(DOMAIN conns')
    BY <1>2, <2>1 DEF RegistryAgrees
  <2>. QED
    BY <1>2, <2>2, <2>3, <2>4, <2>5, <2>6 DEF RegistryAgrees
<1>. QED
  BY <1>2, <1>3, <1>5 DEF IInv, OwnAddress, GuidsOnce, Once

\* The ends that wait stay those of the connections registered at their
\* addresses, whether or not the head of the mailbox was taken.
LEMMA EndsKept ==
    ASSUME IInv, Continues, UNCHANGED registry,
           mailbox' \in Seq(ServerMessage), NEW taken \in {0, 1},
           \A k \in DOMAIN mailbox' : mailbox'[k].type = "connection_end" =>
               k + taken \in DOMAIN mailbox /\ mailbox'[k] = mailbox[k + taken]
    PROVE  EndsAreCurrent'
<1>1. UNCHANGED conns
  BY DEF registry
<1>2. DOMAIN mailbox' \subseteq Nat
  BY LenProperties
<1> SUFFICES ASSUME NEW k \in DOMAIN mailbox', mailbox'[k].type = "connection_end"
             PROVE  /\ mailbox'[k].addr \in DOMAIN conns
                    /\ ~ conn'[conns[mailbox'[k].addr]].alive
                    /\ conn'[conns[mailbox'[k].addr]].guid = mailbox'[k].guid
                    /\ \A j \in DOMAIN mailbox' :
                          mailbox'[j].type = "connection_end" /\ mailbox'[j].addr = mailbox'[k].addr
                          => j = k
  BY <1>1 DEF EndsAreCurrent
<1>3. PICK i \in DOMAIN mailbox : i = k + taken /\ mailbox'[k] = mailbox[i]
  OBVIOUS
<1>4. /\ mailbox[i].addr \in DOMAIN conns
      /\ ~ conn[conns[mailbox[i].addr]].alive
      /\ conn[conns[mailbox[i].addr]].guid = mailbox[i].guid
      /\ \A j \in DOMAIN mailbox :
            mailbox[j].type = "connection_end" /\ mailbox[j].addr = mailbox[i].addr => j = i
  BY <1>3 DEF IInv, EndsAreCurrent
<1>5. conns[mailbox[i].addr] \in DOMAIN conn
  BY <1>4, Fields DEF IInv
<1>6. ASSUME NEW j \in DOMAIN mailbox', mailbox'[j].type = "connection_end",
             mailbox'[j].addr = mailbox'[k].addr
      PROVE  j = k
  <2>1. j + taken \in DOMAIN mailbox /\ mailbox'[j] = mailbox[j + taken]
    BY <1>6
  <2>2. j + taken = i
    BY <1>3, <1>4, <1>6, <2>1
  <2>. QED
    BY <1>2, <1>3, <2>2
<1>. QED
  BY <1>3, <1>4, <1>5, <1>6 DEF Continues

\* A step that tells no user anything keeps the whole invariant.
LEMMA QuietStep ==
    ASSUME IInv, Continues, UNCHANGED <<registry, events>>,
           mailbox' \in Seq(ServerMessage), NEW taken \in {0, 1},
           \A k \in DOMAIN mailbox' : mailbox'[k].type = "connection_end" =>
               k + taken \in DOMAIN mailbox /\ mailbox'[k] = mailbox[k + taken],
           handler' \in BOOLEAN, budget' \in [arrivals : Nat, calls : Nat],
           \A c \in DOMAIN conn :
               conn'[c].alive => conn'[c].disconnect_handle = conn[c].disconnect_handle
    PROVE  IInv'
<1>1. /\ UNCHANGED <<conns, connected_id, assigned, load, events>>
      /\ DOMAIN conn' = DOMAIN conn
  BY Fields, LenProperties DEF IInv, Continues, registry
<1>2. Typed'
  BY <1>1 DEF IInv, Typed, TypeOK, Continues
<1>3. EndsAreCurrent'
  BY EndsKept
<1>4. ASSUME NEW c \in DOMAIN conn' PROVE Told(conn'[c], events'[c])
  BY <1>1 DEF IInv, Told, Continues
<1>. QED
  BY <1>2, <1>3, <1>4, RegistryKept DEF IInv

-----------------------------------------------------------------------------
(* What the pieces of a connection's handlers leave alone.                 *)

\* d is the connection e, but for what its mailbox, timer and session say; or e, dead
SameConn(d, e) ==
    /\ d \in ServerConn
    /\ d.addr = e.addr
    /\ d.guid = e.guid
    /\ d.alive => e.alive /\ d.disconnect_handle = e.disconnect_handle

LEMMA RestSame ==
    ASSUME Typed, NEW c \in DOMAIN conn, conn[c].mailbox # << >>
    PROVE  /\ SameConn(Rest(c), conn[c])
           /\ Head(conn[c].mailbox) \in ConnMessage
<1>1. conn[c] \in ServerConn
  BY Fields
<1>2. conn[c].mailbox \in Seq(ConnMessage)
  BY <1>1 DEF ServerConn
<1>3. Tail(conn[c].mailbox) \in Seq(ConnMessage) /\ Head(conn[c].mailbox) \in ConnMessage
  BY <1>2, HeadTailProperties
<1>. QED
  BY <1>1, <1>3 DEF SameConn, Rest, ServerConn

LEMMA EndedSame ==
    ASSUME NEW d \in ServerConn
    PROVE  SameConn(Ended(d), d)
<1>1. d.mailbox \in Seq(ConnMessage) /\ [type |-> "end"] \in ConnMessage
  BY DEF ServerConn, ConnMessage
<1>2. EndPosts \in Seq(ConnMessage)
  BY <1>1 DEF EndPosts
<1>3. d.mailbox \o EndPosts \in Seq(ConnMessage)
  BY <1>1, <1>2, ConcatProperties
<1>. QED
  BY <1>3 DEF SameConn, Ended, ServerConn

LEMMA TerminatedDead ==
    ASSUME NEW d \in ServerConn
    PROVE  /\ Terminated(d) \in ServerConn
           /\ Terminated(d).addr = d.addr
           /\ Terminated(d).guid = d.guid
           /\ ~ Terminated(d).alive
<1>1. << >> \in Seq(ConnMessage)
  BY EmptySeq
<1>. QED
  BY <1>1 DEF Terminated, ServerConn

LEMMA SessionHandleSame ==
    ASSUME NEW d \in ServerConn, NEW kind \in Kinds
    PROVE  SameConn(SessionHandle(d, kind), d)
<1>1. CASE kind = "bye"
  BY <1>1, EndedSame DEF SessionHandle
<1>2. CASE kind \in {"request1", "request2"}
  BY <1>2 DEF SessionHandle, SameConn
<1>3. CASE kind = "empty"
  <2>1. SessionHandle(d, kind) = [Terminated(d) EXCEPT !.panicked = TRUE]
    BY <1>3 DEF SessionHandle, Panicked
  <2>. QED
    BY <2>1, TerminatedDead DEF SameConn, ServerConn
<1>4. CASE kind \notin {"bye", "request1", "request2", "empty"}
  <2>1. d.mailbox \in Seq(ConnMessage) /\ [type |-> "datagram", kind |-> kind] \in ConnMessage
    BY DEF ServerConn, ConnMessage
  <2>2. Append(d.mailbox, [type |-> "datagram", kind |-> kind]) \in Seq(ConnMessage)
    BY <2>1, AppendProperties
  <2>3. SessionHandle(d, kind)
           = [d EXCEPT !.mailbox = Append(@, [type |-> "datagram", kind |-> kind])]
    BY <1>4 DEF SessionHandle
  <2>. QED
    BY <2>2, <2>3 DEF SameConn, ServerConn
<1>. QED
  BY <1>1, <1>2, <1>3, <1>4

\* A step of one connection, which goes on as the connection it is or dies.
LEMMA BecomesContinues ==
    ASSUME Typed, NEW c \in DOMAIN conn, NEW d \in ServerConn, Becomes(c, d),
           d.addr = conn[c].addr, d.guid = conn[c].guid, d.alive => conn[c].alive
    PROVE  /\ Continues
           /\ conn'[c] = d
           /\ \A b \in DOMAIN conn : b # c => conn'[b] = conn[b]
<1>1. conn' = [conn EXCEPT ![c] = d]
  BY DEF Becomes
<1>2. conn \in Seq(ServerConn) /\ DOMAIN conn = 1..Len(conn)
  BY Fields
<1>3. conn' \in Seq(ServerConn) /\ Len(conn') = Len(conn)
  BY <1>1, <1>2, ExceptSeq
<1>4. /\ conn'[c] = d
      /\ \A b \in DOMAIN conn : b # c => conn'[b] = conn[b]
  BY <1>1
<1>. QED
  BY <1>3, <1>4 DEF Continues

\* A connection that only handles a message of its own keeps the invariant.
LEMMA QuietConn ==
    ASSUME IInv, NEW c \in DOMAIN conn, NEW d, SameConn(d, conn[c]), Becomes(c, d),
           UNCHANGED <<registry, mailbox, events, handler>>,
           budget' \in [arrivals : Nat, calls : Nat]
    PROVE  IInv'
<1>1. /\ Continues
      /\ conn'[c] = d
      /\ \A b \in DOMAIN conn : b # c => conn'[b] = conn[b]
  BY BecomesContinues DEF IInv, SameConn
<1>2. \A b \in DOMAIN conn :
         conn'[b].alive => conn'[b].disconnect_handle = conn[b].disconnect_handle
  BY <1>1 DEF SameConn
<1>3. /\ mailbox' \in Seq(ServerMessage)
      /\ handler' \in BOOLEAN
      /\ \A k \in DOMAIN mailbox' : k + 0 \in DOMAIN mailbox /\ mailbox'[k] = mailbox[k + 0]
  <2>1. DOMAIN mailbox \subseteq Nat
    BY Fields DEF IInv
  <2>. QED
    BY <2>1 DEF IInv, Typed
<1>. QED
  BY <1>1, <1>2, <1>3, QuietStep

-----------------------------------------------------------------------------
(* The steps that tell nobody anything.                                    *)

LEMMA ArriveIInv ==
    ASSUME IInv, NEW c \in Clients, NEW kind \in Incoming, Arrive(c, kind)
    PROVE  IInv'
<1> DEFINE m == [type |-> "udp", from |-> c, kind |-> kind]
           new == [k \in DOMAIN <<kind>> |-> [type |-> "udp", from |-> c, kind |-> <<kind>>[k]]]
<1>1. m \in ServerMessage
  BY ServerAssumption DEF ServerMessage
<1>2. new \in Seq(ServerMessage) /\ Len(new) = 1 /\ new[1] = m
  <2>1. DOMAIN <<kind>> = 1..1 /\ <<kind>>[1] = kind
    OBVIOUS
  <2>2. new = [k \in 1..1 |-> m]
    BY <2>1
  <2>. QED
    BY <1>1, <2>2
<1>3. mailbox' = mailbox \o new /\ mailbox \in Seq(ServerMessage)
  BY DEF Arrive, Deliver, IInv, Typed
<1>. HIDE DEF new
<1>4. /\ mailbox' \in Seq(ServerMessage)
      /\ \A k \in DOMAIN mailbox' : mailbox'[k].type = "connection_end" =>
            k + 0 \in DOMAIN mailbox /\ mailbox'[k] = mailbox[k + 0]
  <2>1. /\ mailbox' \in Seq(ServerMessage)
        /\ Len(mailbox') = Len(mailbox) + 1
        /\ \A k \in 1..(Len(mailbox) + 1) :
              mailbox'[k] = IF k <= Len(mailbox) THEN mailbox[k] ELSE new[k - Len(mailbox)]
    BY <1>2, <1>3, ConcatProperties
  <2>2. DOMAIN mailbox = 1..Len(mailbox) /\ Len(mailbox) \in Nat
    BY <1>3, LenProperties
  <2>3. DOMAIN mailbox' = 1..(Len(mailbox) + 1)
    BY <2>1, LenProperties
  <2>4. mailbox'[Len(mailbox) + 1] = m
    BY <1>2, <2>1, <2>2
  <2>5. ASSUME NEW k \in DOMAIN mailbox', mailbox'[k].type = "connection_end"
        PROVE  k + 0 \in DOMAIN mailbox /\ mailbox'[k] = mailbox[k + 0]
    <3>1. k \in 1..(Len(mailbox) + 1) /\ k # Len(mailbox) + 1
      BY <2>3, <2>4, <2>5
    <3>2. k \in 1..Len(mailbox) /\ k + 0 = k
      BY <2>2, <3>1
    <3>. QED
      BY <2>1, <2>2, <3>1, <3>2
  <2>. QED
    BY <2>1, <2>5
<1>5. UNCHANGED <<registry, conn, events, handler>>
  BY DEF Arrive, Deliver
<1>6. Continues
  BY <1>5 DEF Continues, IInv, Typed, TypeOK
<1>7. handler' \in BOOLEAN /\ budget' \in [arrivals : Nat, calls : Nat]
  BY <1>5 DEF IInv, Typed, Arrive
<1>. QED
  BY <1>4, <1>5, <1>6, <1>7, QuietStep

LEMMA HandlerStopsIInv == ASSUME IInv, HandlerStops PROVE IInv'
<1>1. UNCHANGED <<registry, mailbox, conn, events, budget>> /\ handler' \in BOOLEAN
  BY DEF HandlerStops
<1>2. Continues
  BY <1>1 DEF Continues, IInv, Typed, TypeOK
<1>3. /\ mailbox' \in Seq(ServerMessage)
      /\ budget' \in [arrivals : Nat, calls : Nat]
      /\ \A k \in DOMAIN mailbox' : k + 0 \in DOMAIN mailbox /\ mailbox'[k] = mailbox[k + 0]
  <2>1. DOMAIN mailbox \subseteq Nat
    BY Fields DEF IInv
  <2>. QED
    BY <1>1, <2>1 DEF IInv, Typed
<1>. QED
  BY <1>1, <1>2, <1>3, QuietStep

LEMMA CallIInv ==
    ASSUME IInv, NEW c \in DOMAIN conn, NEW type \in {"send", "disconnect"}, Call(c, type)
    PROVE  IInv'
<1> DEFINE d == [conn[c] EXCEPT !.mailbox =
                    IF conn[c].alive THEN Append(@, [type |-> type]) ELSE @]
<1>1. conn[c] \in ServerConn
  BY Fields DEF IInv
<1>2. SameConn(d, conn[c])
  <2>1. conn[c].mailbox \in Seq(ConnMessage) /\ [type |-> type] \in ConnMessage
    BY <1>1 DEF ServerConn, ConnMessage
  <2>2. Append(conn[c].mailbox, [type |-> type]) \in Seq(ConnMessage)
    BY <2>1, AppendProperties
  <2>. QED
    BY <1>1, <2>1, <2>2 DEF SameConn, ServerConn
<1>3. Becomes(c, d)
  BY DEF Call, Becomes
<1>4. UNCHANGED <<registry, mailbox, events, handler>>
  BY DEF Call
<1>5. budget' \in [arrivals : Nat, calls : Nat]
  <2>1. /\ budget \in [arrivals : Nat, calls : Nat]
        /\ budget.calls > 0
        /\ budget' = [budget EXCEPT !.calls = @ - 1]
    BY DEF Call, IInv, Typed
  <2>. QED
    BY <2>1
<1>. QED
  BY <1>2, <1>3, <1>4, <1>5, QuietConn

\* A message is handed over unseen, the session is marked, or a timer goes off.
LEMMA ConnQuietIInv ==
    ASSUME IInv, NEW c \in DOMAIN conn,
           \/ ConnReceivedUdp(c) \/ ConnSendPacket(c) \/ ConnDisconnect(c)
           \/ ConnTimeout(c) \/ ConnSilent(c)
    PROVE  IInv'
<1>1. conn[c] \in ServerConn
  BY Fields DEF IInv
<1>2. UNCHANGED <<registry, mailbox, events, handler, budget>>
  BY DEF ConnReceivedUdp, ConnSendPacket, ConnDisconnect, ConnTimeout, ConnSilent
<1>3. budget' \in [arrivals : Nat, calls : Nat]
  BY <1>2 DEF IInv, Typed
<1>4. CASE ConnReceivedUdp(c)
  <2>1. /\ conn[c].mailbox # << >>
        /\ Head(conn[c].mailbox).type = "udp"
        /\ Becomes(c, SessionHandle(Rest(c), Head(conn[c].mailbox).kind))
    BY <1>4 DEF ConnReceivedUdp, ConnTakes
  <2>2. SameConn(Rest(c), conn[c]) /\ Head(conn[c].mailbox).kind \in Kinds
    BY <2>1, RestSame DEF IInv, ConnMessage
  <2>3. SameConn(SessionHandle(Rest(c), Head(conn[c].mailbox).kind), conn[c])
    BY <2>2, SessionHandleSame DEF SameConn
  <2>. QED
    BY <1>2, <1>3, <2>1, <2>3, QuietConn
<1>5. CASE ConnSendPacket(c)
  <2>1. SameConn(Rest(c), conn[c]) /\ Becomes(c, Rest(c))
    BY <1>5, RestSame DEF IInv, ConnSendPacket, ConnTakes
  <2>. QED
    BY <1>2, <1>3, <2>1, QuietConn
<1>6. CASE ConnDisconnect(c)
  <2>1. SameConn(Rest(c), conn[c]) /\ Becomes(c, Ended(Rest(c)))
    BY <1>6, RestSame DEF IInv, ConnDisconnect, ConnTakes
  <2>2. SameConn(Ended(Rest(c)), conn[c])
    BY <2>1, EndedSame DEF SameConn
  <2>. QED
    BY <1>2, <1>3, <2>1, <2>2, QuietConn
<1>7. CASE ConnTimeout(c)
  <2>1. Becomes(c, [Ended(conn[c]) EXCEPT !.timer = FALSE])
    BY <1>7 DEF ConnTimeout
  <2>2. SameConn([Ended(conn[c]) EXCEPT !.timer = FALSE], conn[c])
    BY <1>1, EndedSame DEF SameConn, ServerConn
  <2>. QED
    BY <1>2, <1>3, <2>1, <2>2, QuietConn
<1>8. CASE ConnSilent(c)
  <2>1. SameConn(Ended(conn[c]), conn[c]) /\ Becomes(c, Ended(conn[c]))
    BY <1>1, <1>8, EndedSame DEF ConnSilent
  <2>. QED
    BY <1>2, <1>3, <2>1, QuietConn
<1>. QED
  BY <1>4, <1>5, <1>6, <1>7, <1>8

-----------------------------------------------------------------------------
(* The steps that tell the user of a connection something.                 *)

LEMMA InOrderAppend ==
    ASSUME NEW e \in Seq(EventKind), NEW kind \in EventKind, InOrder(e),
           \A k \in DOMAIN e : e[k] # "disconnected",
           kind = "connected" => e = << >>,
           kind = "packet" => e # << >> /\ e[1] = "connected"
    PROVE  /\ Append(e, kind) \in Seq(EventKind)
           /\ InOrder(Append(e, kind))
           /\ Append(e, kind) # << >>
           /\ Append(e, kind)[1] = IF e = << >> THEN kind ELSE e[1]
           /\ kind # "disconnected" =>
                 \A k \in DOMAIN Append(e, kind) : Append(e, kind)[k] # "disconnected"
<1> DEFINE told == Append(e, kind)
<1>1. /\ told \in Seq(EventKind)
      /\ told # << >>
      /\ Len(told) = Len(e) + 1
      /\ \A k \in 1..Len(e) : told[k] = e[k]
      /\ told[Len(e) + 1] = kind
  BY AppendProperties
<1>2. DOMAIN told = 1..(Len(e) + 1) /\ DOMAIN e = 1..Len(e) /\ Len(e) \in Nat
  BY <1>1, LenProperties
<1>3. e # << >> => Len(e) # 0
  BY EmptySeq
<1>4. e = << >> => Len(e) = 0
  BY EmptySeq
<1>. HIDE DEF told
<1>5. told[1] = IF e = << >> THEN kind ELSE e[1]
  BY <1>1, <1>2, <1>3, <1>4
<1>6. \A k \in DOMAIN told : \/ k \in DOMAIN e /\ told[k] = e[k]
                             \/ k = Len(e) + 1 /\ told[k] = kind
  BY <1>1, <1>2
<1>7. InOrder(told)
  BY <1>1, <1>2, <1>3, <1>4, <1>5, <1>6 DEF InOrder
<1>8. kind # "disconnected" => \A k \in DOMAIN told : told[k] # "disconnected"
  BY <1>6
<1>. QED
  BY <1>1, <1>5, <1>7, <1>8 DEF told

\* A running connection tells its user, or finds that no one listens.
LEMMA EventStep ==
    ASSUME IInv, NEW c \in DOMAIN conn, conn[c].alive,
           NEW d \in ServerConn, d.addr = conn[c].addr, d.guid = conn[c].guid,
           NEW kind \in EventKind, Event(c, kind, d),
           Append(events[c], kind) \in Seq(EventKind), Told(d, Append(events[c], kind)),
           UNCHANGED <<registry, handler, budget>>,
           mailbox' \in Seq(ServerMessage)
    PROVE  /\ Continues
           /\ \/ conn'[c] = d
              \/ ~ conn'[c].alive
           /\ EndsAreCurrent' => IInv'
<1>1. /\ events \in Seq(Seq(EventKind))
      /\ DOMAIN events = DOMAIN conn /\ DOMAIN conn = 1..Len(conn) /\ Len(events) = Len(conn)
      /\ Told(conn[c], events[c])
  BY Fields DEF IInv, Typed
<1>2. PICK new \in ServerConn :
         /\ Becomes(c, new)
         /\ new.addr = conn[c].addr
         /\ new.guid = conn[c].guid
         /\ \/ new = d /\ events' = [events EXCEPT ![c] = Append(@, kind)]
            \/ ~ new.alive /\ events' = events
  BY TerminatedDead DEF Event
<1>3. /\ Continues
      /\ conn'[c] = new
      /\ \A b \in DOMAIN conn : b # c => conn'[b] = conn[b]
  BY <1>2, BecomesContinues DEF IInv
<1>4. /\ events' \in Seq(Seq(EventKind))
      /\ Len(events') = Len(events)
      /\ \A b \in DOMAIN conn : b # c => events'[b] = events[b]
      /\ \/ new = d /\ events'[c] = Append(events[c], kind)
         \/ ~ new.alive /\ events'[c] = events[c]
  <2>1. CASE new = d /\ events' = [events EXCEPT ![c] = Append(@, kind)]
    <3>1. c \in 1..Len(events)
      BY <1>1
    <3>. QED
      BY <1>1, <2>1, <3>1, ExceptSeq
  <2>2. CASE ~ new.alive /\ events' = events
    BY <1>1, <2>2
  <2>. QED
    BY <1>2, <2>1, <2>2
<1>5. DOMAIN conn' = DOMAIN conn /\ DOMAIN events' = DOMAIN events
  BY <1>1, <1>3, <1>4, LenProperties DEF Continues
<1>6. Typed'
  <2>1. UNCHANGED <<conns, connected_id, assigned, load, handler, budget>>
    BY DEF registry
  <2>2. TypeOK'
    BY <1>1, <1>3, <1>5, <2>1 DEF IInv, Typed, TypeOK, Continues
  <2>. QED
    BY <1>1, <1>3, <1>4, <2>1, <2>2 DEF IInv, Typed, Continues
<1>7. ASSUME NEW b \in DOMAIN conn' PROVE Told(conn'[b], events'[b])
  <2>1. CASE b # c
    BY <1>3, <1>4, <1>5, <2>1 DEF IInv
  <2>2. CASE b = c /\ new = d /\ events'[c] = Append(events[c], kind)
    BY <1>3, <2>2
  <2>3. CASE b = c /\ ~ new.alive /\ events'[c] = events[c]
    BY <1>1, <1>3, <2>3 DEF Told
  <2>. QED
    BY <1>4, <2>1, <2>2, <2>3
<1>8. /\ IsFiniteSet(DOMAIN conns)'
      /\ RegistryAgrees'
      /\ OwnAddress'
      /\ GuidsOnce'
  BY <1>3, RegistryKept
<1>. QED
  BY <1>2, <1>3, <1>6, <1>7, <1>8 DEF IInv

LEMMA ConnReceivedDatagramIInv ==
    ASSUME IInv, NEW c \in DOMAIN conn, ConnReceivedDatagram(c)
    PROVE  IInv'
<1> DEFINE kind == Head(conn[c].mailbox).kind
           e == events[c]
<1>1. /\ conn[c].alive
      /\ conn[c].mailbox # << >>
      /\ UNCHANGED <<registry, mailbox, handler, budget>>
  BY DEF ConnReceivedDatagram, ConnTakes
<1>2. SameConn(Rest(c), conn[c])
  BY <1>1, RestSame DEF IInv
<1>3. e \in Seq(EventKind) /\ Told(conn[c], e)
  BY Fields DEF IInv
<1>4. /\ mailbox' \in Seq(ServerMessage)
      /\ budget' \in [arrivals : Nat, calls : Nat]
  BY <1>1 DEF IInv, Typed
<1>5. Continues => EndsAreCurrent'
  <2>1. DOMAIN mailbox \subseteq Nat
    BY Fields DEF IInv
  <2>2. \A k \in DOMAIN mailbox' : k + 0 \in DOMAIN mailbox /\ mailbox'[k] = mailbox[k + 0]
    BY <1>1, <2>1
  <2>. QED
    BY <1>1, <1>4, <2>2, EndsKept
<1>6. CASE conn[c].disconnect_handle /\ kind = "incoming"
  <2>1. Event(c, "connected", Greeted(Rest(c)))
    BY <1>6 DEF ConnReceivedDatagram
  <2>2. /\ Greeted(Rest(c)) \in ServerConn
        /\ Greeted(Rest(c)).addr = conn[c].addr
        /\ Greeted(Rest(c)).guid = conn[c].guid
        /\ ~ Greeted(Rest(c)).disconnect_handle
    BY <1>2 DEF SameConn, Greeted, ServerConn
  <2>3. e = << >>
    BY <1>1, <1>3, <1>6 DEF Told
  <2>4. /\ Append(e, "connected") \in Seq(EventKind)
        /\ InOrder(Append(e, "connected"))
        /\ Append(e, "connected") # << >>
        /\ Append(e, "connected")[1] = "connected"
        /\ \A k \in DOMAIN Append(e, "connected") : Append(e, "connected")[k] # "disconnected"
    <3>1. "connected" \in EventKind
      BY DEF EventKind
    <3>2. InOrder(e) /\ \A k \in DOMAIN e : e[k] # "disconnected"
      BY <1>1, <1>3 DEF Told
    <3>. QED
      BY <1>3, <2>3, <3>1, <3>2, InOrderAppend
  <2>5. Told(Greeted(Rest(c)), Append(e, "connected"))
    BY <2>2, <2>4 DEF Told
  <2>. QED
    BY <1>1, <1>2, <1>4, <1>5, <2>1, <2>2, <2>4, <2>5, EventStep DEF EventKind
<1>7. CASE ~ conn[c].disconnect_handle
  <2>1. Event(c, "packet", Rest(c))
    BY <1>7 DEF ConnReceivedDatagram
  <2>2. /\ e # << >> /\ e[1] = "connected"
        /\ \A k \in DOMAIN e : e[k] # "disconnected"
        /\ InOrder(e)
    BY <1>1, <1>3, <1>7 DEF Told
  <2>3. /\ Append(e, "packet") \in Seq(EventKind)
        /\ InOrder(Append(e, "packet"))
        /\ Append(e, "packet") # << >>
        /\ Append(e, "packet")[1] = "connected"
        /\ \A k \in DOMAIN Append(e, "packet") : Append(e, "packet")[k] # "disconnected"
    <3>1. "packet" \in EventKind
      BY DEF EventKind
    <3>. QED
      BY <1>3, <2>2, <3>1, InOrderAppend
  <2>4. Told(Rest(c), Append(e, "packet"))
    BY <1>2, <1>7, <2>3 DEF Told, SameConn
  <2>. QED
    BY <1>1, <1>2, <1>4, <1>5, <2>1, <2>3, <2>4, EventStep DEF EventKind, SameConn
<1>8. CASE conn[c].disconnect_handle /\ kind # "incoming"
  <2>1. Becomes(c, Rest(c)) /\ UNCHANGED events
    BY <1>8 DEF ConnReceivedDatagram
  <2>. QED
    BY <1>1, <1>2, <1>4, <2>1, QuietConn
<1>. QED
  BY <1>6, <1>7, <1>8

\* The end of a connection is reported while its address still leads to it.
LEMMA ConnSessionEndIInv ==
    ASSUME IInv, NEW c \in DOMAIN conn, ConnSessionEnd(c)
    PROVE  IInv'
<1> DEFINE e == events[c]
           d == Terminated(Rest(c))
           end == [type |-> "connection_end", addr |-> conn[c].addr, guid |-> conn[c].guid]
<1>1. /\ conn[c].alive
      /\ conn[c].mailbox # << >>
      /\ mailbox' = Append(mailbox, end)
      /\ Event(c, "disconnected", d)
      /\ UNCHANGED <<registry, handler, budget>>
  BY DEF ConnSessionEnd, ConnTakes, ReportsEnd
<1>2. conn[c] \in ServerConn
  BY Fields DEF IInv
<1>3. d \in ServerConn /\ d.addr = conn[c].addr /\ d.guid = conn[c].guid /\ ~ d.alive
  <2>1. SameConn(Rest(c), conn[c])
    BY <1>1, RestSame DEF IInv
  <2>. QED
    BY <2>1, TerminatedDead DEF SameConn
<1>4. "disconnected" \in EventKind
  BY DEF EventKind
<1>5. /\ Append(e, "disconnected") \in Seq(EventKind)
      /\ Told(d, Append(e, "disconnected"))
  <2>1. e \in Seq(EventKind) /\ Told(conn[c], e)
    BY Fields DEF IInv
  <2>2. InOrder(e) /\ \A k \in DOMAIN e : e[k] # "disconnected"
    BY <1>1, <2>1 DEF Told
  <2>3. Append(e, "disconnected") \in Seq(EventKind) /\ InOrder(Append(e, "disconnected"))
    BY <1>4, <2>1, <2>2, InOrderAppend
  <2>. QED
    BY <1>3, <2>3 DEF Told
<1>6. /\ mailbox' \in Seq(ServerMessage)
      /\ mailbox'[Len(mailbox) + 1] = end
      /\ DOMAIN mailbox' = 1..(Len(mailbox) + 1)
      /\ \A k \in 1..Len(mailbox) : mailbox'[k] = mailbox[k]
  <2>1. mailbox \in Seq(ServerMessage) /\ end \in ServerMessage
    BY <1>2 DEF IInv, Typed, ServerMessage, ServerConn
  <2>2. mailbox' \in Seq(ServerMessage) /\ Len(mailbox') = Len(mailbox) + 1
    BY <1>1, <2>1, AppendProperties
  <2>. QED
    BY <1>1, <2>1, <2>2, AppendProperties, LenProperties
<1>. HIDE DEF d, e
<1>7. /\ Continues
      /\ ~ conn'[c].alive
      /\ EndsAreCurrent' => IInv'
  BY <1>1, <1>3, <1>4, <1>5, <1>6, EventStep DEF e
<1>8. conn[c].addr \in DOMAIN conns /\ conns[conn[c].addr] = c
  BY <1>1 DEF IInv, RegistryAgrees
<1>9. UNCHANGED conns
  BY <1>1 DEF registry
<1>10. DOMAIN mailbox = 1..Len(mailbox) /\ Len(mailbox) \in Nat
  BY Fields DEF IInv
<1>11. ASSUME NEW k \in DOMAIN mailbox, mailbox[k].type = "connection_end"
       PROVE  /\ mailbox[k].addr \in DOMAIN conns
              /\ mailbox[k].addr # conn[c].addr
              /\ ~ conn'[conns[mailbox[k].addr]].alive
              /\ conn'[conns[mailbox[k].addr]].guid = mailbox[k].guid
  <2>1. /\ mailbox[k].addr \in DOMAIN conns
        /\ ~ conn[conns[mailbox[k].addr]].alive
        /\ conn[conns[mailbox[k].addr]].guid = mailbox[k].guid
    BY <1>11 DEF IInv, EndsAreCurrent
  <2>2. conns[mailbox[k].addr] \in DOMAIN conn
    BY <2>1, Fields DEF IInv
  <2>. QED
    BY <1>1, <1>7, <1>8, <2>1, <2>2 DEF Continues
<1>12. ASSUME NEW k \in DOMAIN mailbox', mailbox'[k].type = "connection_end"
       PROVE  /\ mailbox'[k].addr \in DOMAIN conns
              /\ ~ conn'[conns[mailbox'[k].addr]].alive
              /\ conn'[conns[mailbox'[k].addr]].guid = mailbox'[k].guid
              /\ \A j \in DOMAIN mailbox' :
                    mailbox'[j].type = "connection_end" /\ mailbox'[j].addr = mailbox'[k].addr
                    => j = k
  <2>1. \A j \in DOMAIN mailbox' : \/ j \in DOMAIN mailbox /\ mailbox'[j] = mailbox[j]
                                   \/ j = Len(mailbox) + 1 /\ mailbox'[j] = end
    BY <1>6, <1>10
  <2>2. CASE k \in DOMAIN mailbox /\ mailbox'[k] = mailbox[k]
    <3>1. mailbox[k].addr # end.addr
      BY <1>11, <1>12, <2>2
    <3>2. \A j \in DOMAIN mailbox :
             mailbox[j].type = "connection_end" /\ mailbox[j].addr = mailbox[k].addr => j = k
      BY <1>12, <2>2 DEF IInv, EndsAreCurrent
    <3>. QED
      BY <1>11, <1>12, <2>1, <2>2, <3>1, <3>2
  <2>3. CASE k = Len(mailbox) + 1 /\ mailbox'[k] = end
    <3>1. end.addr = conn[c].addr /\ end.guid = conn[c].guid
      OBVIOUS
    <3>2. conn'[c].guid = conn[c].guid
      BY <1>7 DEF Continues
    <3>3. \A j \in DOMAIN mailbox' :
             mailbox'[j].type = "connection_end" /\ mailbox'[j].addr = end.addr => j = k
      BY <1>11, <2>1, <2>3
    <3>. QED
      BY <1>7, <1>8, <2>3, <3>1, <3>2, <3>3
  <2>. QED
    BY <2>1, <2>2, <2>3
<1>13. EndsAreCurrent'
  BY <1>9, <1>12 DEF EndsAreCurrent
<1>. QED
  BY <1>7, <1>13

-----------------------------------------------------------------------------
(* RakServer's own handlers.                                               *)

\* What is left of the mailbox when its head is taken.
LEMMA HeadTaken ==
    ASSUME Typed, mailbox # << >>, mailbox' = Tail(mailbox)
    PROVE  /\ mailbox' \in Seq(ServerMessage)
           /\ Head(mailbox) \in ServerMessage
           /\ 1 \in DOMAIN mailbox /\ Head(mailbox) = mailbox[1]
           /\ \A k \in DOMAIN mailbox' :
                 k \in Nat \ {0} /\ k + 1 \in DOMAIN mailbox /\ mailbox'[k] = mailbox[k + 1]
<1>1. mailbox \in Seq(ServerMessage) /\ Len(mailbox) \in Nat \ {0}
  BY EmptySeq DEF Typed
<1>2. /\ mailbox' \in Seq(ServerMessage)
      /\ Head(mailbox) \in ServerMessage
      /\ Len(mailbox') = Len(mailbox) - 1
      /\ \A k \in 1..Len(mailbox') : mailbox'[k] = mailbox[k + 1]
  BY <1>1, HeadTailProperties
<1>3. DOMAIN mailbox = 1..Len(mailbox) /\ DOMAIN mailbox' = 1..Len(mailbox')
  BY <1>1, <1>2, LenProperties
<1>4. \A k \in DOMAIN mailbox' : k \in Nat \ {0} /\ k + 1 \in DOMAIN mailbox
  BY <1>1, <1>2, <1>3
<1>5. 1 \in DOMAIN mailbox /\ Head(mailbox) = mailbox[1]
  BY <1>1, <1>3
<1>. QED
  BY <1>2, <1>3, <1>4, <1>5

\* A datagram for a connection goes to its mailbox, if it still runs.
LEMMA ForwardIInv ==
    ASSUME IInv, mailbox # << >>, mailbox' = Tail(mailbox),
           NEW addr \in DOMAIN conns, NEW kind \in Kinds,
           conn' = [conn EXCEPT ![conns[addr]].mailbox =
                       IF conn[conns[addr]].alive
                       THEN Append(@, [type |-> "udp", kind |-> kind]) ELSE @],
           UNCHANGED <<registry, events, handler, budget>>
    PROVE  IInv'
<1>1. PICK c \in DOMAIN conn : c = conns[addr]
  BY Fields DEF IInv
<1> DEFINE d == [conn[c] EXCEPT !.mailbox =
                    IF conn[c].alive THEN Append(@, [type |-> "udp", kind |-> kind]) ELSE @]
<1>2. conn[c] \in ServerConn
  BY Fields DEF IInv
<1>3. SameConn(d, conn[c])
  <2>1. conn[c].mailbox \in Seq(ConnMessage) /\ [type |-> "udp", kind |-> kind] \in ConnMessage
    BY <1>2 DEF ServerConn, ConnMessage
  <2>2. Append(conn[c].mailbox, [type |-> "udp", kind |-> kind]) \in Seq(ConnMessage)
    BY <2>1, AppendProperties
  <2>. QED
    BY <1>2, <2>1, <2>2 DEF SameConn, ServerConn
<1>4. Becomes(c, d)
  BY <1>1 DEF Becomes
<1>. HIDE DEF d
<1>5. /\ Continues
      /\ \A b \in DOMAIN conn :
            conn'[b].alive => conn'[b].disconnect_handle = conn[b].disconnect_handle
  <2>1. /\ Continues
        /\ conn'[c] = d
        /\ \A b \in DOMAIN conn : b # c => conn'[b] = conn[b]
    BY <1>3, <1>4, BecomesContinues DEF IInv, SameConn
  <2>. QED
    BY <1>3, <2>1 DEF SameConn
<1>6. /\ mailbox' \in Seq(ServerMessage)
      /\ \A k \in DOMAIN mailbox' : k + 1 \in DOMAIN mailbox /\ mailbox'[k] = mailbox[k + 1]
  BY HeadTaken DEF IInv
<1>7. handler' \in BOOLEAN /\ budget' \in [arrivals : Nat, calls : Nat]
  BY DEF IInv, Typed
<1>. QED
  BY <1>5, <1>6, <1>7, QuietStep

\* A datagram that opens nothing and belongs to no one is dropped.
LEMMA IgnoreIInv ==
    ASSUME IInv, mailbox # << >>, mailbox' = Tail(mailbox),
           UNCHANGED <<registry, conn, events, handler, budget>>
    PROVE  IInv'
<1>1. Continues
  BY DEF Continues, IInv, Typed, TypeOK
<1>2. /\ mailbox' \in Seq(ServerMessage)
      /\ \A k \in DOMAIN mailbox' : k + 1 \in DOMAIN mailbox /\ mailbox'[k] = mailbox[k + 1]
  BY HeadTaken DEF IInv
<1>3. handler' \in BOOLEAN /\ budget' \in [arrivals : Nat, calls : Nat]
  BY DEF IInv, Typed
<1>. QED
  BY <1>1, <1>2, <1>3, QuietStep

\* The counts after SessionWorker::add and delete.
Given(tasks, w) == {a \in DOMAIN tasks : tasks[a] = w}
LoadsRight(tasks, loads) == \A w \in Workers : loads[w] = Cardinality(Given(tasks, w))

LEMMA AddCounts ==
    ASSUME NEW addr \in Addrs \ DOMAIN assigned, Add(addr),
           IsFiniteSet(DOMAIN assigned), LoadsRight(assigned, load),
           load \in [Workers -> Nat], assigned \in [DOMAIN assigned -> Workers]
    PROVE  /\ DOMAIN assigned' = DOMAIN assigned \cup {addr}
           /\ assigned' \in [DOMAIN assigned' -> Workers]
           /\ load' \in [Workers -> Nat]
           /\ LoadsRight(assigned', load')
<1>1. PICK w \in Workers : /\ load' = [load EXCEPT ![w] = @ + 1]
                           /\ assigned' = Put(assigned, addr, w)
  BY DEF Add
<1>2. /\ DOMAIN assigned' = DOMAIN assigned \cup {addr}
      /\ \A a \in DOMAIN assigned : assigned'[a] = assigned[a]
      /\ assigned'[addr] = w
      /\ assigned' \in [DOMAIN assigned' -> Workers]
  BY <1>1 DEF Put
<1>3. ASSUME NEW v \in Workers
      PROVE  load'[v] = Cardinality(Given(assigned', v))
  <2>1. IsFiniteSet(Given(assigned, v)) /\ load[v] = Cardinality(Given(assigned, v))
    BY FS_Subset DEF Given, LoadsRight
  <2>2. CASE v = w
    <3>1. Given(assigned', v) = Given(assigned, v) \cup {addr} /\ addr \notin Given(assigned, v)
      BY <1>2, <2>2 DEF Given
    <3>. QED
      BY <1>1, <2>1, <2>2, <3>1, FS_AddElement
  <2>3. CASE v # w
    <3>1. Given(assigned', v) = Given(assigned, v)
      BY <1>2, <2>3 DEF Given
    <3>. QED
      BY <1>1, <2>1, <2>3, <3>1
  <2>. QED
    BY <2>2, <2>3
<1>. QED
  BY <1>1, <1>2, <1>3 DEF LoadsRight

LEMMA DeleteCounts ==
    ASSUME NEW addr \in DOMAIN assigned, Delete(addr),
           IsFiniteSet(DOMAIN assigned), LoadsRight(assigned, load),
           load \in [Workers -> Nat], assigned \in [DOMAIN assigned -> Workers]
    PROVE  /\ DOMAIN assigned' = DOMAIN assigned \ {addr}
           /\ assigned' \in [DOMAIN assigned' -> Workers]
           /\ load' \in [Workers -> Nat]
           /\ LoadsRight(assigned', load')
<1>1. PICK w \in Workers : w = assigned[addr]
  OBVIOUS
<1>2. load' = [load EXCEPT ![w] = @ - 1] /\ assigned' = Without(assigned, {addr})
  BY <1>1 DEF Delete
<1>3. /\ DOMAIN assigned' = DOMAIN assigned \ {addr}
      /\ \A a \in DOMAIN assigned' : assigned'[a] = assigned[a]
      /\ assigned' \in [DOMAIN assigned' -> Workers]
  BY <1>2 DEF Without, Restrict
<1>4. ASSUME NEW v \in Workers
      PROVE  /\ load'[v] = Cardinality(Given(assigned', v))
             /\ load'[v] \in Nat
  <2>1. IsFiniteSet(Given(assigned, v)) /\ load[v] = Cardinality(Given(assigned, v))
    BY FS_Subset DEF Given, LoadsRight
  <2>2. CASE v = w
    <3>1. Given(assigned', v) = Given(assigned, v) \ {addr} /\ addr \in Given(assigned, v)
      BY <1>1, <1>3, <2>2 DEF Given
    <3>2. load'[v] = load[v] - 1
      BY <1>2, <2>2
    <3>3. IsFiniteSet(Given(assigned', v)) /\ Cardinality(Given(assigned', v)) = load[v] - 1
      BY <2>1, <3>1, FS_RemoveElement
    <3>. QED
      BY <3>2, <3>3, FS_CardinalityType
  <2>3. CASE v # w
    <3>1. Given(assigned', v) = Given(assigned, v)
      BY <1>1, <1>3, <2>3 DEF Given
    <3>. QED
      BY <1>2, <2>1, <2>3, <3>1
  <2>. QED
    BY <2>2, <2>3
<1>5. load' \in [Workers -> Nat]
  BY <1>2, <1>4
<1>. QED
  BY <1>3, <1>4, <1>5 DEF LoadsRight

\* A prefix and a suffix of a sequence, index by index.
LEMMA Prefix ==
    ASSUME NEW S, NEW s \in Seq(S), NEW m \in Nat, m <= Len(s)
    PROVE  /\ SubSeq(s, 1, m) \in Seq(S)
           /\ Len(SubSeq(s, 1, m)) = m
           /\ \A i \in 1..m : SubSeq(s, 1, m)[i] = s[i]
<1>1. \A i \in 1..m : s[i] \in S
  BY LenProperties, ElementOfSeq
<1>2. /\ SubSeq(s, 1, m) \in Seq(S)
      /\ Len(SubSeq(s, 1, m)) = IF 1 <= m THEN m - 1 + 1 ELSE 0
      /\ \A i \in 1..(m - 1 + 1) : SubSeq(s, 1, m)[i] = s[1 + i - 1]
  BY <1>1, SubSeqProperties
<1>3. Len(SubSeq(s, 1, m)) = m
  BY <1>2
<1>4. \A i \in 1..m : SubSeq(s, 1, m)[i] = s[i]
  <2>1. \A i \in 1..m : SubSeq(s, 1, m)[i] = s[1 + i - 1]
    <3>1. m - 1 + 1 = m
      OBVIOUS
    <3>. QED
      BY <1>2, <3>1
  <2>. QED
    BY <2>1
<1>. QED
  BY <1>2, <1>3, <1>4

LEMMA Suffix ==
    ASSUME NEW S, NEW s \in Seq(S), NEW n \in Nat, n = Len(s), NEW m \in Nat, m <= n
    PROVE  /\ SubSeq(s, m + 1, n) \in Seq(S)
           /\ Len(SubSeq(s, m + 1, n)) = n - m
           /\ \A i \in 1..(n - m) : SubSeq(s, m + 1, n)[i] = s[m + i]
<1>1. \A i \in (m + 1)..n : s[i] \in S
  BY LenProperties, ElementOfSeq
<1>2. /\ SubSeq(s, m + 1, n) \in Seq(S)
      /\ Len(SubSeq(s, m + 1, n)) = IF m + 1 <= n THEN n - (m + 1) + 1 ELSE 0
      /\ \A i \in 1..(n - (m + 1) + 1) : SubSeq(s, m + 1, n)[i] = s[(m + 1) + i - 1]
  BY <1>1, SubSeqProperties
<1>3. Len(SubSeq(s, m + 1, n)) = n - m
  BY <1>2
<1>4. \A i \in 1..(n - m) : SubSeq(s, m + 1, n)[i] = s[m + i]
  <2>1. \A i \in 1..(n - m) : SubSeq(s, m + 1, n)[i] = s[(m + 1) + i - 1]
    <3>1. n - (m + 1) + 1 = n - m
      OBVIOUS
    <3>. QED
      BY <1>2, <3>1
  <2>. QED
    BY <2>1
<1>. QED
  BY <1>2, <1>3, <1>4

\* s without its entry m + 1, as remove leaves it; index by index ...
Dropped(s, m) == SubSeq(s, 1, m) \o SubSeq(s, m + 2, Len(s))

LEMMA RemoveOneAt ==
    ASSUME NEW S, NEW s \in Seq(S), NEW m \in Nat, NEW n \in Nat, m <= n, Len(s) = n + 1
    PROVE  /\ Dropped(s, m) \in Seq(S)
           /\ Len(Dropped(s, m)) = n
           /\ \A i \in 1..n : i <= m => Dropped(s, m)[i] = s[i]
           /\ \A i \in 1..n : m < i => Dropped(s, m)[i] = s[i + 1]
<1>1. /\ SubSeq(s, 1, m) \in Seq(S)
      /\ Len(SubSeq(s, 1, m)) = m
      /\ \A i \in 1..m : SubSeq(s, 1, m)[i] = s[i]
  <2>1. m <= Len(s)
    OBVIOUS
  <2>. QED
    BY <2>1, Prefix
<1>2. /\ SubSeq(s, m + 2, Len(s)) \in Seq(S)
      /\ Len(SubSeq(s, m + 2, Len(s))) = n - m
      /\ \A i \in 1..(n - m) : SubSeq(s, m + 2, Len(s))[i] = s[m + 1 + i]
  <2>1. PICK q \in Nat, l \in Nat : q = m + 1 /\ l = Len(s) /\ q <= l /\ q + 1 = m + 2 /\ l - q = n - m
    OBVIOUS
  <2>2. /\ SubSeq(s, q + 1, l) \in Seq(S)
        /\ Len(SubSeq(s, q + 1, l)) = l - q
        /\ \A i \in 1..(l - q) : SubSeq(s, q + 1, l)[i] = s[q + i]
    BY <2>1, Suffix
  <2>. QED
    BY <2>1, <2>2
<1>3. PICK low \in Seq(S), high \in Seq(S) :
         /\ low = SubSeq(s, 1, m) /\ high = SubSeq(s, m + 2, Len(s))
         /\ Len(low) = m /\ Len(high) = n - m
         /\ \A i \in 1..m : low[i] = s[i]
         /\ \A i \in 1..(n - m) : high[i] = s[m + 1 + i]
  BY <1>1, <1>2
<1>4. /\ low \o high \in Seq(S)
      /\ Len(low \o high) = n
      /\ \A i \in 1..n : i <= m => (low \o high)[i] = s[i]
      /\ \A i \in 1..n : m < i => (low \o high)[i] = s[i + 1]
  <2>1. PICK k \in Nat : k = n - m /\ m + k = n
    OBVIOUS
  <2>2. /\ Len(low) = m /\ \A i \in 1..m : low[i] = s[i]
        /\ Len(high) = n - m /\ \A i \in 1..(n - m) : high[i] = s[m + 1 + i]
    BY <1>3
  <2>3. Len(high) = k /\ \A i \in 1..k : high[i] = s[m + 1 + i]
    BY <2>1, <2>2
  <2>4. /\ low \o high \in Seq(S)
        /\ Len(low \o high) = m + k
        /\ \A i \in 1..(m + k) : i <= m => (low \o high)[i] = s[i]
        /\ \A i \in 1..(m + k) : m < i => (low \o high)[i] = s[i + 1]
    <3>1. /\ low \o high \in Seq(S)
          /\ Len(low \o high) = m + k
          /\ \A i \in 1..(m + k) : (low \o high)[i] = IF i <= m THEN low[i] ELSE high[i - m]
      BY <2>2, <2>3, ConcatProperties
    <3>2. ASSUME NEW i \in 1..(m + k), i <= m
          PROVE  (low \o high)[i] = s[i]
      BY <2>2, <3>1, <3>2
    <3>3. ASSUME NEW i \in 1..(m + k), m < i
          PROVE  (low \o high)[i] = s[i + 1]
      <4>1. i - m \in 1..k /\ m + 1 + (i - m) = i + 1 /\ ~ (i <= m)
        BY <3>3
      <4>2. (low \o high)[i] = high[i - m]
        BY <3>1, <4>1
      <4>3. high[i - m] = s[m + 1 + (i - m)]
        BY <2>3, <4>1
      <4>. QED
        BY <4>1, <4>2, <4>3
    <3>. QED
      BY <3>1, <3>2, <3>3
  <2>. QED
    BY <2>1, <2>4
<1>5. Dropped(s, m) = low \o high
  BY <1>3 DEF Dropped
<1>. QED
  BY <1>4, <1>5

\* ... and what that means where no two entries are equal.
Entries(s) == {s[i] : i \in DOMAIN s}

LEMMA RemoveOneOf ==
    ASSUME NEW S, NEW s \in Seq(S), NEW t \in Seq(S), NEW m \in Nat, NEW n \in Nat,
           m <= n, Len(s) = n + 1, Len(t) = n,
           \A i \in 1..n : i <= m => t[i] = s[i],
           \A i \in 1..n : m < i => t[i] = s[i + 1],
           Once(s)
    PROVE  /\ Once(t)
           /\ Entries(t) = Entries(s) \ {s[m + 1]}
<1>1. DOMAIN t = 1..n /\ DOMAIN s = 1..(n + 1)
  BY LenProperties
<1> DEFINE at(i) == IF i <= m THEN i ELSE i + 1
<1>2. ASSUME NEW i \in DOMAIN t
      PROVE  at(i) \in DOMAIN s /\ at(i) # m + 1 /\ t[i] = s[at(i)] /\ i \in Nat
  <2>1. CASE i <= m
    BY <1>1, <2>1
  <2>2. CASE ~ (i <= m)
    BY <1>1, <2>2
  <2>. QED
    BY <2>1, <2>2
<1>3. ASSUME NEW i \in DOMAIN t, NEW j \in DOMAIN t, t[i] = t[j]
      PROVE  i = j
  <2>1. at(i) = at(j)
    BY <1>2, <1>3 DEF Once
  <2>2. i \in Nat /\ j \in Nat
    BY <1>2
  <2>. QED
    BY <2>1, <2>2
<1>4. ASSUME NEW i \in DOMAIN t
      PROVE  t[i] \in {s[j] : j \in DOMAIN s} \ {s[m + 1]}
  <2>1. m + 1 \in DOMAIN s
    BY <1>1
  <2>2. PICK j \in DOMAIN s : j # m + 1 /\ t[i] = s[j]
    BY <1>2
  <2>. QED
    BY <2>1, <2>2 DEF Once
<1>5. ASSUME NEW i \in DOMAIN s, i # m + 1
      PROVE  s[i] \in {t[j] : j \in DOMAIN t}
  <2>1. CASE i <= m
    <3>1. i \in 1..n /\ t[i] = s[i]
      BY <1>1, <2>1
    <3>. QED
      BY <1>1, <3>1
  <2>2. CASE ~ (i <= m)
    <3>1. i - 1 \in 1..n /\ m < i - 1 /\ (i - 1) + 1 = i
      BY <1>1, <1>5, <2>2
    <3>2. t[i - 1] = s[i]
      BY <3>1
    <3>. QED
      BY <1>1, <3>1, <3>2
  <2>. QED
    BY <2>1, <2>2
<1>6. {t[i] : i \in DOMAIN t} \subseteq {s[i] : i \in DOMAIN s} \ {s[m + 1]}
  BY <1>4
<1>7. ASSUME NEW e \in {s[i] : i \in DOMAIN s} \ {s[m + 1]}
      PROVE  e \in {t[i] : i \in DOMAIN t}
  <2>1. PICK i \in DOMAIN s : e = s[i] /\ i # m + 1
    OBVIOUS
  <2>. QED
    BY <1>5, <2>1
<1>. QED
  BY <1>3, <1>6, <1>7 DEF Once, Entries

-----------------------------------------------------------------------------
(* A connection is made, and its end is handled.                           *)

LEMMA OpenIInv ==
    ASSUME IInv, mailbox # << >>, mailbox' = Tail(mailbox),
           NEW from \in Clients, from.addr \notin DOMAIN conns, ~ IsConnected(from),
           Add(from.addr),
           conn' = Append(conn, NewConn(from)),
           events' = Append(events, << >>),
           conns' = Put(conns, from.addr, Len(conn) + 1),
           connected_id' = Append(connected_id, from.guid),
           UNCHANGED <<handler, budget>>
    PROVE  IInv'
<1> DEFINE addr == from.addr
           guid == from.guid
<1>1. addr \in Addrs /\ guid \in Guids
  BY DEF Addrs, Guids
<1>2. PICK n \in Nat : n = Len(conn)
  BY Fields DEF IInv
<1>3. /\ DOMAIN conn = 1..n /\ DOMAIN events = 1..n
      /\ conn \in Seq(ServerConn)
      /\ events \in Seq(Seq(EventKind)) /\ Len(events) = n
      /\ connected_id \in Seq(Guids)
      /\ \A a \in DOMAIN conns : conns[a] \in 1..n
      /\ DOMAIN conns \subseteq Addrs
      /\ assigned \in [DOMAIN assigned -> Workers]
      /\ load \in [Workers -> Nat]
      /\ DOMAIN conns = DOMAIN assigned
      /\ IsFiniteSet(DOMAIN conns)
  BY <1>2, Fields DEF IInv, Typed, TypeOK, RegistryAgrees
<1>4. /\ NewConn(from) \in ServerConn
      /\ NewConn(from).addr = addr
      /\ NewConn(from).guid = guid
      /\ Told(NewConn(from), << >>)
  <2>1. << >> \in Seq(ConnMessage)
    BY EmptySeq
  <2>2. Told(NewConn(from), << >>)
    BY DEF Told, InOrder, NewConn
  <2>. QED
    BY <1>1, <2>1, <2>2 DEF NewConn, ServerConn
<1>5. /\ conn' \in Seq(ServerConn)
      /\ Len(conn') = n + 1
      /\ DOMAIN conn' = 1..(n + 1)
      /\ \A c \in 1..n : conn'[c] = conn[c]
      /\ conn'[n + 1] = NewConn(from)
  BY <1>2, <1>3, <1>4, AppendProperties, LenProperties
<1>6. /\ events' \in Seq(Seq(EventKind))
      /\ Len(events') = n + 1
      /\ DOMAIN events' = 1..(n + 1)
      /\ \A c \in 1..n : events'[c] = events[c]
      /\ events'[n + 1] = << >>
  <2>1. << >> \in Seq(EventKind)
    BY EmptySeq
  <2>. QED
    BY <1>3, <2>1, AppendProperties, LenProperties
<1>7. /\ DOMAIN conns' = DOMAIN conns \cup {addr}
      /\ conns'[addr] = n + 1
      /\ \A a \in DOMAIN conns : conns'[a] = conns[a] /\ a # addr
      /\ conns' \in [DOMAIN conns' -> DOMAIN conn']
  BY <1>2, <1>3, <1>5 DEF Put
<1>8. PICK k \in Nat : k = Len(connected_id)
  BY <1>3, LenProperties
<1>9. /\ DOMAIN connected_id = 1..k
      /\ DOMAIN connected_id' = 1..(k + 1)
      /\ connected_id' \in Seq(Guids)
      /\ Len(connected_id') = k + 1
      /\ \A j \in 1..k : connected_id'[j] = connected_id[j] /\ connected_id[j] # guid
      /\ connected_id'[k + 1] = guid
  BY <1>1, <1>3, <1>8, AppendProperties, LenProperties DEF IsConnected
<1>10. /\ DOMAIN assigned' = DOMAIN assigned \cup {addr}
       /\ assigned' \in [DOMAIN assigned' -> Workers]
       /\ load' \in [Workers -> Nat]
       /\ LoadsRight(assigned', load')
  <2>1. LoadsRight(assigned, load)
    BY DEF IInv, RegistryAgrees, LoadsRight, Given
  <2>2. addr \in Addrs \ DOMAIN assigned
    BY <1>1, <1>3
  <2>. QED
    BY <1>3, <2>1, <2>2, AddCounts
<1>11. Typed'
  <2>1. mailbox' \in Seq(ServerMessage)
    BY HeadTaken DEF IInv
  <2>2. TypeOK'
    BY <1>1, <1>3, <1>5, <1>6, <1>7, <1>9, <1>10 DEF TypeOK
  <2>. QED
    BY <1>5, <1>6, <2>1, <2>2 DEF IInv, Typed
<1>12. GuidsOnce'
  BY <1>9 DEF IInv, GuidsOnce, Once
<1>13. OwnAddress'
  BY <1>3, <1>4, <1>5, <1>7 DEF IInv, OwnAddress
<1>14. \A a \in DOMAIN conns : conn'[conns'[a]].guid = conn[conns[a]].guid
  BY <1>3, <1>5, <1>7
<1>15. conn'[conns'[addr]].guid = guid
  BY <1>4, <1>5, <1>7
<1>16. {connected_id[j] : j \in DOMAIN connected_id} = {conn[conns[a]].guid : a \in DOMAIN conns}
  BY DEF IInv, RegistryAgrees
<1>17. \A a \in DOMAIN conns : conn[conns[a]].guid # guid
  <2>1. \A a \in DOMAIN conns : \E j \in DOMAIN connected_id : conn[conns[a]].guid = connected_id[j]
    BY <1>16
  <2>. QED
    BY <1>9, <2>1
<1>18. {connected_id'[j] : j \in DOMAIN connected_id'} = {conn'[conns'[a]].guid : a \in DOMAIN conns'}
  <2>1. {connected_id'[j] : j \in DOMAIN connected_id'}
           = {connected_id[j] : j \in DOMAIN connected_id} \cup {guid}
    <3>1. ASSUME NEW j \in DOMAIN connected_id'
          PROVE  connected_id'[j] \in {connected_id[i] : i \in DOMAIN connected_id} \cup {guid}
      <4>1. CASE j = k + 1
        BY <1>9, <4>1
      <4>2. CASE j \in 1..k
        BY <1>9, <4>2
      <4>. QED
        BY <1>9, <4>1, <4>2
    <3>2. ASSUME NEW j \in DOMAIN connected_id
          PROVE  connected_id[j] \in {connected_id'[i] : i \in DOMAIN connected_id'}
      <4>1. j \in DOMAIN connected_id' /\ connected_id[j] = connected_id'[j]
        BY <1>9
      <4>. QED
        BY <4>1
    <3>3. guid \in {connected_id'[i] : i \in DOMAIN connected_id'}
      <4>1. k + 1 \in DOMAIN connected_id'
        BY <1>9
      <4>. QED
        BY <1>9, <4>1
    <3>4. {connected_id'[j] : j \in DOMAIN connected_id'}
             \subseteq {connected_id[j] : j \in DOMAIN connected_id} \cup {guid}
      BY <3>1
    <3>5. {connected_id[j] : j \in DOMAIN connected_id}
             \subseteq {connected_id'[j] : j \in DOMAIN connected_id'}
      BY <3>2
    <3>. QED
      BY <3>3, <3>4, <3>5
  <2>2. {conn'[conns'[a]].guid : a \in DOMAIN conns'}
           = {conn[conns[a]].guid : a \in DOMAIN conns} \cup {guid}
    <3>1. ASSUME NEW a \in DOMAIN conns'
          PROVE  conn'[conns'[a]].guid \in {conn[conns[b]].guid : b \in DOMAIN conns} \cup {guid}
      <4>1. CASE a = addr
        BY <1>15, <4>1
      <4>2. CASE a \in DOMAIN conns
        BY <1>14, <4>2
      <4>. QED
        BY <1>7, <4>1, <4>2
    <3>2. ASSUME NEW a \in DOMAIN conns
          PROVE  conn[conns[a]].guid \in {conn'[conns'[b]].guid : b \in DOMAIN conns'}
      <4>1. a \in DOMAIN conns' /\ conn[conns[a]].guid = conn'[conns'[a]].guid
        BY <1>7, <1>14
      <4>. QED
        BY <4>1
    <3>3. guid \in {conn'[conns'[b]].guid : b \in DOMAIN conns'}
      <4>1. addr \in DOMAIN conns'
        BY <1>7
      <4>. QED
        BY <1>15, <4>1
    <3>4. {conn'[conns'[a]].guid : a \in DOMAIN conns'}
             \subseteq {conn[conns[a]].guid : a \in DOMAIN conns} \cup {guid}
      BY <3>1
    <3>5. {conn[conns[a]].guid : a \in DOMAIN conns}
             \subseteq {conn'[conns'[a]].guid : a \in DOMAIN conns'}
      BY <3>2
    <3>. QED
      BY <3>3, <3>4, <3>5
  <2>. QED
    BY <1>16, <2>1, <2>2
<1>19. RegistryAgrees'
  <2>1. ASSUME NEW a \in DOMAIN conns', NEW b \in DOMAIN conns',
               conn'[conns'[a]].guid = conn'[conns'[b]].guid
        PROVE  a = b
    <3>1. CASE a \in DOMAIN conns /\ b \in DOMAIN conns
      BY <1>14, <2>1, <3>1 DEF IInv, RegistryAgrees
    <3>2. CASE a \in DOMAIN conns /\ b = addr
      BY <1>14, <1>15, <1>17, <2>1, <3>2
    <3>3. CASE a = addr /\ b \in DOMAIN conns
      BY <1>14, <1>15, <1>17, <2>1, <3>3
    <3>. QED
      BY <1>7, <3>1, <3>2, <3>3
  <2>2. Len(connected_id') = Cardinality(DOMAIN conns')
    <3>1. Cardinality(DOMAIN conns) = k
      BY <1>8 DEF IInv, RegistryAgrees
    <3>2. Cardinality(DOMAIN conns \cup {addr}) = Cardinality(DOMAIN conns) + 1
      BY <1>3, FS_AddElement
    <3>. QED
      BY <1>7, <1>9, <3>1, <3>2
  <2>3. \A c \in DOMAIN conn' :
           conn'[c].alive => conn'[c].addr \in DOMAIN conns' /\ conns'[conn'[c].addr] = c
    BY <1>3, <1>4, <1>5, <1>7 DEF IInv, RegistryAgrees
  <2>4. DOMAIN conns' = DOMAIN assigned'
    BY <1>3, <1>7, <1>10
  <2>5. \A w \in Workers :
           load'[w] = Cardinality({a \in DOMAIN assigned' : assigned'[a] = w})
    BY <1>10 DEF LoadsRight, Given
  <2>. QED
    BY <1>18, <2>1, <2>2, <2>3, <2>4, <2>5 DEF RegistryAgrees
<1>20. IsFiniteSet(DOMAIN conns')
  BY <1>3, <1>7, FS_AddElement
<1>21. \A c \in DOMAIN conn' : Told(conn'[c], events'[c])
  BY <1>3, <1>4, <1>5, <1>6 DEF IInv
<1>22. EndsAreCurrent'
  <2>1. \A i \in DOMAIN mailbox' :
           i \in Nat \ {0} /\ i + 1 \in DOMAIN mailbox /\ mailbox'[i] = mailbox[i + 1]
    BY HeadTaken DEF IInv
  <2>2. ASSUME NEW i \in DOMAIN mailbox', mailbox'[i].type = "connection_end"
        PROVE  /\ mailbox'[i].addr \in DOMAIN conns'
               /\ ~ conn'[conns'[mailbox'[i].addr]].alive
               /\ conn'[conns'[mailbox'[i].addr]].guid = mailbox'[i].guid
               /\ \A j \in DOMAIN mailbox' :
                     mailbox'[j].type = "connection_end" /\ mailbox'[j].addr = mailbox'[i].addr
                     => j = i
    <3>1. /\ mailbox'[i].addr \in DOMAIN conns
          /\ ~ conn[conns[mailbox'[i].addr]].alive
          /\ conn[conns[mailbox'[i].addr]].guid = mailbox'[i].guid
      BY <2>1, <2>2 DEF IInv, EndsAreCurrent
    <3>2. ASSUME NEW j \in DOMAIN mailbox', mailbox'[j].type = "connection_end",
                 mailbox'[j].addr = mailbox'[i].addr
          PROVE  j = i
      <4>1. j + 1 = i + 1
        BY <2>1, <2>2, <3>2 DEF IInv, EndsAreCurrent
      <4>. QED
        BY <2>1, <4>1
    <3>. QED
      BY <1>3, <1>5, <1>7, <3>1, <3>2
  <2>. QED
    BY <2>2 DEF EndsAreCurrent
<1>. QED
  BY <1>11, <1>12, <1>13, <1>19, <1>20, <1>21, <1>22 DEF IInv

LEMMA RemoveOne ==
    ASSUME NEW S, NEW s \in Seq(S), NEW m \in Nat, NEW n \in Nat, m <= n, Len(s) = n + 1,
           Once(s)
    PROVE  /\ Dropped(s, m) \in Seq(S)
           /\ Len(Dropped(s, m)) = n
           /\ Once(Dropped(s, m))
           /\ Entries(Dropped(s, m)) = Entries(s) \ {s[m + 1]}
<1>1. PICK t : t = Dropped(s, m)
  OBVIOUS
<1>2. /\ t \in Seq(S)
      /\ Len(t) = n
      /\ \A i \in 1..n : i <= m => t[i] = s[i]
      /\ \A i \in 1..n : m < i => t[i] = s[i + 1]
  BY <1>1, RemoveOneAt
<1>3. Once(t) /\ Entries(t) = Entries(s) \ {s[m + 1]}
  BY <1>2, RemoveOneOf
<1>. QED
  BY <1>1, <1>2, <1>3

\* A guid that is there is found where it is: it is there once.
LEMMA PositionOf ==
    ASSUME connected_id \in Seq(Guids), GuidsOnce, NEW i \in DOMAIN connected_id
    PROVE  Position(connected_id[i]) = i
<1>1. PICK guid : guid = connected_id[i]
  OBVIOUS
<1>2. PICK n \in Nat : DOMAIN connected_id = 1..n
  BY LenProperties
<1>3. \A j \in 1..(i - 1) : connected_id[j] # guid
  <2>1. ASSUME NEW j \in 1..(i - 1), connected_id[j] = guid PROVE FALSE
    <3>1. j \in DOMAIN connected_id /\ j # i
      BY <1>2
    <3>. QED
      BY <1>1, <2>1, <3>1 DEF GuidsOnce, Once
  <2>. QED
    BY <2>1
<1>4. \E k \in DOMAIN connected_id :
         connected_id[k] = guid /\ \A j \in 1..(k - 1) : connected_id[j] # guid
  BY <1>1, <1>3
<1>5. Position(guid) \in DOMAIN connected_id /\ connected_id[Position(guid)] = guid
  BY <1>4 DEF Position
<1>. QED
  BY <1>1, <1>5 DEF GuidsOnce, Once

LEMMA ConnectionEndIInv == ASSUME IInv, ConnectionEnd PROVE IInv'
<1> DEFINE addr == Head(mailbox).addr
           guid == Head(mailbox).guid
<1>1. /\ mailbox # << >>
      /\ Head(mailbox).type = "connection_end"
      /\ mailbox' = Tail(mailbox)
      /\ conns' = Without(conns, {addr})
      /\ Delete(addr)
      /\ UNCHANGED <<conn, events, handler, budget>>
  BY DEF ConnectionEnd, Takes
<1>2. /\ mailbox' \in Seq(ServerMessage)
      /\ 1 \in DOMAIN mailbox /\ Head(mailbox) = mailbox[1]
      /\ \A k \in DOMAIN mailbox' :
            k \in Nat \ {0} /\ k + 1 \in DOMAIN mailbox /\ mailbox'[k] = mailbox[k + 1]
  BY <1>1, HeadTaken DEF IInv
<1>3. /\ addr \in DOMAIN conns
      /\ ~ conn[conns[addr]].alive
      /\ conn[conns[addr]].guid = guid
      /\ \A j \in DOMAIN mailbox :
            mailbox[j].type = "connection_end" /\ mailbox[j].addr = addr => j = 1
  BY <1>1, <1>2 DEF IInv, EndsAreCurrent
<1>4. /\ DOMAIN conns' = DOMAIN conns \ {addr}
      /\ \A a \in DOMAIN conns' : conns'[a] = conns[a]
  BY <1>1 DEF Without, Restrict
<1>5. /\ IsFiniteSet(DOMAIN conns)
      /\ DOMAIN conns = DOMAIN assigned
      /\ assigned \in [DOMAIN assigned -> Workers]
      /\ load \in [Workers -> Nat]
      /\ connected_id \in Seq(Guids)
      /\ {connected_id[k] : k \in DOMAIN connected_id} = {conn[conns[a]].guid : a \in DOMAIN conns}
  BY DEF IInv, Typed, TypeOK, RegistryAgrees
<1>6. /\ DOMAIN assigned' = DOMAIN assigned \ {addr}
      /\ assigned' \in [DOMAIN assigned' -> Workers]
      /\ load' \in [Workers -> Nat]
      /\ LoadsRight(assigned', load')
  <2>1. LoadsRight(assigned, load)
    BY DEF IInv, RegistryAgrees, LoadsRight, Given
  <2>. QED
    BY <1>1, <1>3, <1>5, <2>1, DeleteCounts
<1>7. PICK i \in DOMAIN connected_id : connected_id[i] = guid
  BY <1>3, <1>5
<1>8. /\ connected_id' \in Seq(Guids)
      /\ Len(connected_id') = Len(connected_id) - 1
      /\ GuidsOnce'
      /\ {connected_id'[k] : k \in DOMAIN connected_id'}
            = {connected_id[k] : k \in DOMAIN connected_id} \ {guid}
  <2>1. connected_id' = SubSeq(connected_id, 1, Position(guid) - 1)
                           \o SubSeq(connected_id, Position(guid) + 1, Len(connected_id))
    BY <1>7 DEF ConnectionEnd
  <2>2. GuidsOnce /\ Position(guid) = i
    BY <1>5, <1>7, PositionOf DEF IInv
  <2>3. PICK n \in Nat : n = Len(connected_id) /\ i \in 1..n
    BY <1>5, LenProperties
  <2>4. PICK m \in Nat : m = i - 1
    BY <2>3
  <2>5. PICK k \in Nat : k = n - 1
    BY <2>3
  <2>6. n = k + 1 /\ m <= k /\ i = m + 1 /\ i + 1 = m + 2
    BY <2>3, <2>4, <2>5
  <2>7. connected_id' = Dropped(connected_id, m)
    BY <2>1, <2>2, <2>4, <2>6 DEF Dropped
  <2>8. Len(connected_id) = k + 1 /\ m <= k /\ connected_id[m + 1] = guid
    BY <1>7, <2>3, <2>6
  <2>9. /\ connected_id' \in Seq(Guids)
        /\ Len(connected_id') = k
        /\ GuidsOnce'
        /\ Entries(connected_id') = Entries(connected_id) \ {connected_id[m + 1]}
    BY <1>5, <2>2, <2>7, <2>8, RemoveOne DEF GuidsOnce
  <2>10. k = Len(connected_id) - 1
    BY <2>3, <2>5
  <2>. QED
    BY <2>8, <2>9, <2>10 DEF Entries
<1>. HIDE DEF addr, guid
<1>9. \A a \in DOMAIN conns : conn[conns[a]].guid = guid => a = addr
  BY <1>3 DEF IInv, RegistryAgrees
<1>10. {connected_id'[k] : k \in DOMAIN connected_id'} = {conn'[conns'[a]].guid : a \in DOMAIN conns'}
  <2>1. \A a \in DOMAIN conns' : a \in DOMAIN conns /\ a # addr
                                 /\ conn'[conns'[a]].guid = conn[conns[a]].guid
    BY <1>1, <1>4
  <2>2. ASSUME NEW a \in DOMAIN conns'
        PROVE  conn'[conns'[a]].guid \in {conn[conns[b]].guid : b \in DOMAIN conns} \ {guid}
    <3>1. a \in DOMAIN conns /\ conn[conns[a]].guid # guid
      BY <1>9, <2>1
    <3>. QED
      BY <2>1, <3>1
  <2>3. ASSUME NEW a \in DOMAIN conns, conn[conns[a]].guid # guid
        PROVE  conn[conns[a]].guid \in {conn'[conns'[b]].guid : b \in DOMAIN conns'}
    <3>1. a \in DOMAIN conns'
      BY <1>3, <1>4, <2>3
    <3>. QED
      BY <2>1, <3>1
  <2>4. {conn[conns[a]].guid : a \in DOMAIN conns} \ {guid}
           = {conn'[conns'[a]].guid : a \in DOMAIN conns'}
    BY <2>2, <2>3
  <2>. QED
    BY <1>5, <1>8, <2>4
<1>11. IsFiniteSet(DOMAIN conns') /\ Len(connected_id') = Cardinality(DOMAIN conns')
  <2>1. /\ IsFiniteSet(DOMAIN conns \ {addr})
        /\ Cardinality(DOMAIN conns \ {addr}) = Cardinality(DOMAIN conns) - 1
    BY <1>3, <1>5, FS_RemoveElement
  <2>. QED
    BY <1>4, <1>8, <2>1 DEF IInv, RegistryAgrees
<1>12. OwnAddress'
  BY <1>1, <1>4 DEF IInv, OwnAddress
<1>13. \A c \in DOMAIN conn' :
          conn'[c].alive => conn'[c].addr \in DOMAIN conns' /\ conns'[conn'[c].addr] = c
  BY <1>1, <1>3, <1>4 DEF IInv, RegistryAgrees
<1>14. \A a, b \in DOMAIN conns' : conn'[conns'[a]].guid = conn'[conns'[b]].guid => a = b
  BY <1>1, <1>4 DEF IInv, RegistryAgrees
<1>15. RegistryAgrees'
  <2>1. DOMAIN conns' = DOMAIN assigned'
    BY <1>4, <1>5, <1>6
  <2>2. \A w \in Workers :
           load'[w] = Cardinality({a \in DOMAIN assigned' : assigned'[a] = w})
    BY <1>6 DEF LoadsRight, Given
  <2>. QED
    BY <1>10, <1>11, <1>13, <1>14, <2>1, <2>2 DEF RegistryAgrees
<1>16. Typed'
  <2>1. /\ conns' \in [DOMAIN conns' -> DOMAIN conn']
        /\ DOMAIN conns' \subseteq Addrs
    <3>1. conns \in [DOMAIN conns -> DOMAIN conn] /\ DOMAIN conns \subseteq Addrs
      BY DEF IInv, Typed, TypeOK
    <3>2. conns' = [a \in DOMAIN conns' |-> conns'[a]]
      BY <1>1 DEF Without, Restrict
    <3>. QED
      BY <1>1, <1>4, <3>1, <3>2
  <2>2. TypeOK'
    BY <1>1, <1>6, <1>8, <2>1 DEF IInv, Typed, TypeOK
  <2>. QED
    BY <1>1, <1>2, <2>2 DEF IInv, Typed
<1>17. EndsAreCurrent'
  <2>1. ASSUME NEW k \in DOMAIN mailbox', mailbox'[k].type = "connection_end"
        PROVE  /\ mailbox'[k].addr \in DOMAIN conns'
               /\ ~ conn[conns'[mailbox'[k].addr]].alive
               /\ conn[conns'[mailbox'[k].addr]].guid = mailbox'[k].guid
               /\ \A j \in DOMAIN mailbox' :
                     mailbox'[j].type = "connection_end" /\ mailbox'[j].addr = mailbox'[k].addr
                     => j = k
    <3>1. k + 1 \in DOMAIN mailbox /\ k + 1 # 1 /\ mailbox'[k] = mailbox[k + 1]
      BY <1>2
    <3>2. /\ mailbox'[k].addr \in DOMAIN conns
          /\ ~ conn[conns[mailbox'[k].addr]].alive
          /\ conn[conns[mailbox'[k].addr]].guid = mailbox'[k].guid
      BY <2>1, <3>1 DEF IInv, EndsAreCurrent
    <3>3. mailbox'[k].addr # addr
      BY <1>3, <2>1, <3>1
    <3>4. ASSUME NEW j \in DOMAIN mailbox', mailbox'[j].type = "connection_end",
                 mailbox'[j].addr = mailbox'[k].addr
          PROVE  j = k
      <4>1. j + 1 = k + 1
        BY <1>2, <2>1, <3>4 DEF IInv, EndsAreCurrent
      <4>. QED
        BY <1>2, <4>1
    <3>. QED
      BY <1>4, <3>2, <3>3, <3>4
  <2>. QED
    BY <1>1, <2>1 DEF EndsAreCurrent
<1>18. \A c \in DOMAIN conn' : Told(conn'[c], events'[c])
  BY <1>1 DEF IInv
<1>. QED
  BY <1>8, <1>11, <1>12, <1>15, <1>16, <1>17, <1>18 DEF IInv

LEMMA ServerReceivedUdpIInv == ASSUME IInv, ServerReceivedUdp PROVE IInv'
<1> DEFINE m == Head(mailbox)
<1>1. /\ mailbox # << >>
      /\ m.type = "udp"
      /\ mailbox' = Tail(mailbox)
      /\ UNCHANGED <<handler, budget>>
  BY DEF ServerReceivedUdp, Takes
<1>2. m.from \in Clients /\ m.kind \in Kinds
  BY <1>1, HeadTaken DEF IInv, ServerMessage
<1>3. CASE m.from.addr \in DOMAIN conns
  <2>1. /\ conn' = [conn EXCEPT ![conns[m.from.addr]].mailbox =
                       IF conn[conns[m.from.addr]].alive
                       THEN Append(@, [type |-> "udp", kind |-> m.kind]) ELSE @]
        /\ UNCHANGED <<registry, events>>
    BY <1>3 DEF ServerReceivedUdp
  <2>. QED
    BY <1>1, <1>2, <1>3, <2>1, ForwardIInv
<1>4. CASE m.from.addr \notin DOMAIN conns /\ m.kind = "request2" /\ ~ IsConnected(m.from)
  <2>1. /\ Add(m.from.addr)
        /\ conn' = Append(conn, NewConn(m.from))
        /\ events' = Append(events, << >>)
        /\ conns' = Put(conns, m.from.addr, Len(conn) + 1)
        /\ connected_id' = Append(connected_id, m.from.guid)
    BY <1>4 DEF ServerReceivedUdp
  <2>. QED
    BY <1>1, <1>2, <1>4, <2>1, OpenIInv
<1>5. CASE m.from.addr \notin DOMAIN conns /\ (m.kind = "request2" => IsConnected(m.from))
  <2>1. UNCHANGED <<registry, conn, events>>
    BY <1>5 DEF ServerReceivedUdp
  <2>. QED
    BY <1>1, <2>1, IgnoreIInv
<1>. QED
  BY <1>3, <1>4, <1>5

-----------------------------------------------------------------------------
\* Every step keeps the inductive invariant.
LEMMA NextIInv == IInv /\ [Next]_vars => IInv'
<1> SUFFICES ASSUME IInv, [Next]_vars PROVE IInv'
  OBVIOUS
<1>1. ASSUME NEW c \in Clients, NEW kind \in Incoming, Arrive(c, kind) PROVE IInv'
  BY <1>1, ArriveIInv
<1>2. CASE HandlerStops
  BY <1>2, HandlerStopsIInv
<1>3. CASE ServerHandle
  BY <1>3, ServerReceivedUdpIInv, ConnectionEndIInv DEF ServerHandle
<1>4. ASSUME NEW c \in DOMAIN conn, NEW type \in {"send", "disconnect"}, Call(c, type) PROVE IInv'
  BY <1>4, CallIInv
<1>5. ASSUME NEW c \in DOMAIN conn, ConnHandle(c) \/ ConnTimeout(c) \/ ConnSilent(c) PROVE IInv'
  BY <1>5, ConnQuietIInv, ConnReceivedDatagramIInv, ConnSessionEndIInv DEF ConnHandle
<1>6. CASE UNCHANGED vars
  <2>1. /\ UNCHANGED <<registry, mailbox, conn, events, handler, budget>>
        /\ UNCHANGED <<conns, connected_id, assigned, load>>
    BY <1>6 DEF vars, registry
  <2>2. Typed' /\ OwnAddress' /\ GuidsOnce' /\ \A c \in DOMAIN conn' : Told(conn'[c], events'[c])
    BY <2>1 DEF IInv, Typed, TypeOK, OwnAddress, GuidsOnce, Once
  <2>3. Continues
    BY <2>1 DEF Continues, IInv, Typed, TypeOK
  <2>4. EndsAreCurrent'
    BY <2>1 DEF IInv, EndsAreCurrent
  <2>. QED
    BY <2>1, <2>2, <2>3, <2>4, RegistryKept DEF IInv
<1>. QED
  BY <1>1, <1>2, <1>3, <1>4, <1>5, <1>6 DEF Next

\* The inductive invariant holds in every reachable state.
THEOREM ServerInvariance == Spec => []IInv
<1>. QED
  BY InitIInv, NextIInv, PTL DEF Spec

\* The tables, mailboxes and connections stay well formed; in particular no
\* worker's count, which SessionWorker::delete decrements unchecked
\* (server.rs:228-232), goes below zero.
THEOREM ServerTypeCorrect == Spec => []TypeOK
<1>1. IInv => TypeOK
  BY DEF IInv, Typed
<1>. QED
  BY <1>1, ServerInvariance, PTL

\* The four tables RakServer keeps by hand (server.rs:36-79) agree, and each
\* connection that runs owns its address and its guid, for any clients, however
\* the ends of connections and new requests interleave.
THEOREM TablesAgree == Spec => []RegistryAgrees
<1>1. IInv => RegistryAgrees
  BY DEF IInv
<1>. QED
  BY <1>1, ServerInvariance, PTL

\* A ConnectionEnd that waits in the mailbox (server.rs:174-189) is the end of
\* the connection registered at its address, not of an earlier one.
THEOREM NoSuccessorIsTakenDown == Spec => []EndsAreCurrent
<1>1. IInv => EndsAreCurrent
  BY DEF IInv
<1>. QED
  BY <1>1, ServerInvariance, PTL

\* A user is told Connected once and first, packets only after it, and nothing
\* after Disconnected (server.rs:300-347).
THEOREM UsersAreToldInOrder == Spec => []EventsInOrder
<1>1. IInv => EventsInOrder
  <2> SUFFICES ASSUME IInv, NEW c \in DOMAIN events PROVE InOrder(events[c])
    BY DEF EventsInOrder, InOrder
  <2>1. c \in DOMAIN conn
    BY Fields DEF IInv
  <2>. QED
    BY <2>1 DEF IInv, Told
<1>. QED
  BY <1>1, ServerInvariance, PTL
=============================================================================
