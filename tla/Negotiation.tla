----------------------------- MODULE Negotiation -----------------------------
(***************************************************************************)
(* What the packets in front of a session agree on, byte by byte: a client *)
(* and a server exchange them over a path that takes IP packets up to some *)
(* size, and then one of the two sessions sends a message (Fragmentation). *)
(* One packet is on its way at a time and the path loses those too long    *)
(* for it; other losses, timers and the actors are in Client, Server and   *)
(* Handshake.  The frames around the last three packets are left out.      *)
(***************************************************************************)
EXTENDS Fragmentation

CONSTANTS
    Paths,           \* the sizes of IP packets that paths let through
    ClientAddress,   \* [ip, port]: an ip is 4 or 16 bytes
    ServerAddress,
    Guid,            \* u64 and i64 are eight bytes
    Time,
    Versions,        \* the protocol versions servers speak
    Counters,        \* message_index, order_index and split_id of a session
    Lengths(_)       \* Lengths(m): the lengths of messages sent at mtu m

RAKNET_PROTOCOL_VERSION == 10

Bytes(n)  == {b \in Seq(0..255) : Len(b) = n}
Addresses == [ip : Bytes(4) \cup Bytes(16), port : 0..(U16 - 1)]

\* a session's mtu leaves room for a piece, and is a u16
ASSUME NegotiationAssumption ==
    /\ Paths \subseteq Nat
    /\ {ClientAddress, ServerAddress} \subseteq Addresses
    /\ {Guid, Time} \subseteq Bytes(8)
    /\ Versions \subseteq 0..255
    /\ Counters \subseteq [message_index : Nat, order_index : Nat, split_id : 0..(U16 - 1)]
    /\ \A m \in (24 + 32 + 5 + 1)..(U16 - 1) : Lengths(m) \subseteq Nat

VARIABLES
    path,       \* the path between the two
    version,    \* the server's protocol version
    known,      \* is the client's guid among the server's connected_id
    count,      \* request1_count
    packet,     \* the packet sent last: its format and the values of its fields
    datagram,   \* its bytes
    mtus        \* of the sessions of the client and the server, 0 before there is one

vars == <<path, version, known, count, packet, datagram, mtus, sending, pc>>

Init ==
    /\ path \in Paths
    /\ version \in Versions
    /\ known \in BOOLEAN
    /\ count = 0
    /\ packet = << >>
    /\ datagram = << >>
    /\ mtus = [client |-> 0, server |-> 0]
    /\ mtu = 0
    /\ counters = << >>
    /\ length = 0
    /\ rest = 0
    /\ frames = << >>
    /\ pc = "asking"

-----------------------------------------------------------------------------
(* The path.                                                               *)

\* IP and UDP headers
Overhead == IF IsIpv4(ServerAddress) THEN 20 + 8 ELSE 40 + 8

Send(format, values, to) ==
    /\ packet' = [format |-> format, values |-> values]
    /\ datagram' = Encode(format, values)
    /\ pc' = to

Heard(format) == Decode(format, datagram).values

\* a packet that reaches an end, and that `decode` makes something of
Arrives(format, to) ==
    /\ pc = to
    /\ datagram[1] = format.id
    /\ Len(datagram) + Overhead <= path
    /\ Decode(format, datagram).ok

\* One that is lost, or that unwrap_or_return drops: the mediator asks again
\* after 510 ms, and a session that was not greeted times out.
Dropped ==
    /\ pc \in {"to_server", "to_client"}
    /\ ~ Arrives(packet.format, pc)
    /\ pc' = IF mtus.client = 0 THEN "asking" ELSE "failed"
    /\ UNCHANGED <<path, version, known, count, packet, datagram, mtus, sending>>

-----------------------------------------------------------------------------
(* Before the session.                                                     *)

\* Handler<PingTo> for RakPing, which has no session and no state
PingTo ==
    /\ pc = "asking" /\ count = 0
    /\ Send(UnconnectedPing, [time |-> Time, _magic |-> TRUE, guid |-> Times(0, 8)], "to_server")
    /\ UNCHANGED <<path, version, known, count, mtus, sending>>

ServerPing ==
    /\ Arrives(UnconnectedPing, "to_server")
    /\ Send(UnconnectedPong, [time |-> Heard(UnconnectedPing).time, guid |-> Guid, _magic |-> TRUE,
                              motd |-> <<77, 67, 80, 69>>], "to_client")
    /\ UNCHANGED <<path, version, known, count, mtus, sending>>

\* the mtu of the n-th probe
ProbeMtu(n) == IF n < 4 THEN 1496 ELSE IF n < 8 THEN 1204 ELSE 584

\* ClientMediator::request1
Request1 ==
    /\ pc = "asking"
    /\ \/ /\ count < 13
          /\ count' = count + 1
          /\ Send(OpenConnectionRequest1,
                  [_magic |-> TRUE, protocol_version |-> RAKNET_PROTOCOL_VERSION,
                   mtu_size |-> ProbeMtu(count)], "to_server")
       \/ /\ count = 13
          /\ pc' = "failed"
          /\ UNCHANGED <<count, packet, datagram>>
    /\ UNCHANGED <<path, version, known, mtus, sending>>

ServerRequest1 ==
    LET request1 == Heard(OpenConnectionRequest1)
    IN  /\ Arrives(OpenConnectionRequest1, "to_server")
        /\ IF request1.protocol_version # version
           THEN Send(IncompatibleProtocolVersion,
                     [server_protocol |-> version, _magic |-> TRUE, server_guid |-> Guid],
                     "to_client")
           ELSE Send(OpenConnectionReply1,
                     [_magic |-> TRUE, guid |-> Guid, use_encryption |-> 0,
                      mtu_size |-> request1.mtu_size], "to_client")
        /\ UNCHANGED <<path, version, known, count, mtus, sending>>

\* ClientMediator::request2, on Reply1
Request2 ==
    /\ Arrives(OpenConnectionReply1, "to_client")
    /\ Send(OpenConnectionRequest2,
            [_magic |-> TRUE, address |-> ServerAddress,
             mtu |-> Heard(OpenConnectionReply1).mtu_size, guid |-> Guid], "to_server")
    /\ UNCHANGED <<path, version, known, count, mtus, sending>>

ServerRequest2 ==
    LET request2 == Heard(OpenConnectionRequest2)
    IN  /\ Arrives(OpenConnectionRequest2, "to_server")
        /\ \/ /\ known
              /\ Send(AlreadyConnected, [_magic |-> TRUE, guid |-> request2.guid], "to_client")
              /\ UNCHANGED mtus
           \/ /\ ~ known
              /\ Send(OpenConnectionReply2,
                      [_magic |-> TRUE, guid |-> Guid, address |-> ClientAddress,
                       mtu |-> request2.mtu, encryption_enabled |-> 0], "to_client")
              /\ mtus' = [mtus EXCEPT !.server = request2.mtu]
        /\ UNCHANGED <<path, version, known, count, sending>>

\* an answer that ends the attempt, or the ping
Answered ==
    /\ \E format \in {UnconnectedPong, AlreadyConnected, IncompatibleProtocolVersion} :
          Arrives(format, "to_client")
    /\ pc' = "failed"
    /\ UNCHANGED <<path, version, known, count, packet, datagram, mtus, sending>>

-----------------------------------------------------------------------------
(* The first packets of the session.                                       *)

\* MediatorEvent::Success, on Reply2: the client adds 96 to the mtu
Success ==
    /\ Arrives(OpenConnectionReply2, "to_client")
    /\ mtus' = [mtus EXCEPT !.client = Heard(OpenConnectionReply2).mtu + 96]
    /\ Send(ConnectionRequest, [guid |-> Guid, time |-> Time, use_encryption |-> 0], "to_server")
    /\ UNCHANGED <<path, version, known, count, sending>>

ServerAccept ==
    /\ Arrives(ConnectionRequest, "to_server")
    /\ Send(ConnectionRequestAccepted,
            [client_address |-> ClientAddress, system_index |-> 0,
             request_timestamp |-> Heard(ConnectionRequest).time, accepted_timestamp |-> Guid],
            "to_client")
    /\ UNCHANGED <<path, version, known, count, mtus, sending>>

Incoming ==
    LET accept == Heard(ConnectionRequestAccepted)
    IN  /\ Arrives(ConnectionRequestAccepted, "to_client")
        /\ Send(NewIncomingConnection,
                [server_address |-> ServerAddress, request_timestamp |-> accept.request_timestamp,
                 accepted_timestamp |-> accept.request_timestamp], "to_server")
        /\ UNCHANGED <<path, version, known, count, mtus, sending>>

\* the connection is open: Session::send_ping and its answer, to keep it so
SendPing ==
    /\ Arrives(NewIncomingConnection, "to_server")
    /\ Send(ConnectedPing, [client_timestamp |-> Time], "to_client")
    /\ UNCHANGED <<path, version, known, count, mtus, sending>>

HandleConnectedPing ==
    /\ Arrives(ConnectedPing, "to_client")
    /\ Send(ConnectedPong, [client_timestamp |-> Heard(ConnectedPing).client_timestamp,
                            server_timestamp |-> Time], "to_server")
    /\ UNCHANGED <<path, version, known, count, mtus, sending>>

\* ... and a message of either session
SendMessage ==
    /\ Arrives(ConnectedPong, "to_server")
    /\ \E side \in {"client", "server"}, c \in Counters :
          \E n \in Lengths(mtus[side]) : Call(mtus[side], c, n)
    /\ UNCHANGED <<path, version, known, count, packet, datagram, mtus>>

Next ==
    \/ PingTo \/ ServerPing \/ Request1 \/ ServerRequest1 \/ Request2 \/ ServerRequest2
    \/ Answered \/ Success \/ ServerAccept \/ Incoming \/ SendPing \/ HandleConnectedPing
    \/ Dropped \/ SendMessage
    \/ SendTo /\ UNCHANGED <<path, version, known, count, packet, datagram, mtus>>

Spec == Init /\ [][Next]_vars

-----------------------------------------------------------------------------
(* Properties.                                                             *)

\* The values of the packet sent last, as its reader should find them: all as
\* they were written, but for the mtu of a probe, whose reader counts the payload
\* without the id byte that the writer counted.
Meant ==
    [name \in DOMAIN packet.values |->
        IF name = "mtu_size" /\ packet.format = OpenConnectionRequest1
        THEN packet.values[name] - 1 ELSE packet.values[name]]

Understood ==
    LET read == Decode(packet.format, datagram)
    IN  read.ok /\ read.values = Meant

\* Over IPv4, every packet in front of a session is read as it was written: the
\* lists of write and read, the addresses, the byte orders and the bytes that are
\* counted from the end of the packet agree.
PacketsSurvive == pc \in {"to_server", "to_client"} => Understood

\* What was probed holds: every datagram the server's session makes of a message,
\* a set of one frame or one shared up to the bound of add_frame, fits the path that
\* let the probe through.  The client's session, which adds 96 to the mtu, exceeds
\* the path by at most 94 bytes; nothing is longer than the 2048 bytes that the
\* receiving socket reads (udp.rs:72).
Largest == 4 + Max({FrameLength(frames[k]) : k \in DOMAIN frames} \cup {mtu - 42 - 1})
FitsThePath ==
    pc = "done" =>
        /\ Overhead + Largest <= path + (IF mtu = mtus.client THEN 94 ELSE 0)
        /\ Largest <= 2048

\* The address in a packet, a socket address of 16 bytes and a port, is read as it
\* was written: "IPv6 address = 128bit = u8 * 16" (reader.rs:118).
AddressSurvives ==
    pc \in {"to_server", "to_client"} =>
        LET read == Decode(packet.format, datagram).values
        IN  \A k \in DOMAIN packet.format.fields :
                packet.format.fields[k][2] = "address" =>
                    LET name == packet.format.fields[k][1]
                    IN  name \in DOMAIN read /\ read[name] = packet.values[name]
=============================================================================
