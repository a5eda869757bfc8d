------------------------------- MODULE Codec -------------------------------
(***************************************************************************)
(* The bytes of packets and frames: src/src/packets/*.rs with the Reader   *)
(* and the Writer they use (src/src/reader.rs, src/src/writer.rs).         *)
(*                                                                         *)
(* A packet is a function from the names of its fields to their values; a  *)
(* format lists, in the order of `write` and of `read`, the fields and the *)
(* Writer or Reader call each goes through.  Guids and times, u64 and i64, *)
(* are their eight bytes, most significant first; a byte is a number.      *)
(***************************************************************************)
EXTENDS Integers, SequencesExt, HashMap

U16 == 65536
U24 == 16777216

\* n in w bytes, most significant byte first or last, and back
Big(n, w)     == [k \in 1..w |-> (n \div 256 ^ (w - k)) % 256]
Little(n, w)  == Reverse(Big(n, w))
FromBig(b)    == FoldLeft(LAMBDA n, byte : 256 * n + byte, 0, b)
FromLittle(b) == FromBig(Reverse(b))

MAGIC == <<0, 255, 255, 0, 254, 254, 254, 254, 253, 253, 253, 253, 18, 52, 86, 120>>

Times(byte, n)    == [k \in 1..n |-> byte]
Complement(bytes) == [k \in DOMAIN bytes |-> 255 - bytes[k]]

IsIpv4(address) == Len(address.ip) = 4

-----------------------------------------------------------------------------
(* The mutated forms of definitions below.                                 *)

\* the port of an IPv4 address is read as that of an IPv6 address is
AddressReadLittle(b) ==
    IF b[1] = 4 THEN [ip |-> Complement(SubSeq(b, 2, 5)), port |-> FromLittle(SubSeq(b, 6, 7))]
                ELSE [ip |-> SubSeq(b, 10, 25), port |-> FromLittle(SubSeq(b, 4, 5))]

\* the length goes out in bytes and is read in bits
FrameHeadInBytes(f) == <<32 * f.reliability + (IF f.split THEN 16 ELSE 0)>> \o Big(f.data, 2)

\* get_all leaves the last number out
AckGetAllShort(range) == range[1]..(range[2] - 1)

-----------------------------------------------------------------------------
(* Addresses.                                                              *)

WriteAddress(address) ==
    IF IsIpv4(address)
    THEN <<4>> \o Complement(address.ip) \o Big(address.port, 2)
    ELSE Little(23, 2) \o Big(address.port, 2) \o Times(0, 4) \o address.ip \o Times(0, 4)

\* how many bytes read_address moves on by, and what it makes of them
AddressSize(version) == IF version = 4 THEN 1 + 4 + 2 ELSE 1 + 2 + 2 + 4 + 16 + 4

AddressRead(b) ==
    IF b[1] = 4 THEN [ip |-> Complement(SubSeq(b, 2, 5)), port |-> FromBig(SubSeq(b, 6, 7))]
                ELSE [ip |-> SubSeq(b, 10, 25), port |-> FromLittle(SubSeq(b, 4, 5))]

-----------------------------------------------------------------------------
(* Fields.  "padding" is the end of a probe, whose length stands for its   *)
(* mtu; "sixes" are the ten bytes in front of two times, which the readers *)
(* of such packets leave out by counting from the end; "zero" is a byte    *)
(* written as 0 and stepped over.                                          *)

\* what is in front of the padding: the packet's id, MAGIC and the version
Probe == 1 + 16 + 1

Write(kind, value) ==
    CASE kind = "u8"      -> <<value>>
      [] kind = "u16"     -> Big(value, 2)
      [] kind = "u24"     -> Little(value, 3)
      [] kind = "u32"     -> Big(value, 4)
      [] kind = "u64"     -> value
      [] kind = "magic"   -> MAGIC
      [] kind = "address" -> WriteAddress(value)
      [] kind = "string"  -> Big(Len(value) % U16, 2) \o value
      [] kind = "padding" -> Times(0, value - (Probe + 32))
      [] kind = "sixes"   -> Times(6, 10)
      [] kind = "zero"    -> <<0>>

\* how many bytes a field takes of buf, read up to pos
Size(kind, buf, pos) ==
    CASE kind \in {"u8", "zero"} -> 1
      [] kind = "u16"     -> 2
      [] kind = "u24"     -> 3
      [] kind = "u32"     -> 4
      [] kind = "u64"     -> 8
      [] kind = "magic"   -> 16
      [] kind = "address" -> AddressSize(buf[pos + 1])
      [] kind = "string"  -> 2 + FromBig(SubSeq(buf, pos + 1, pos + 2))
      [] kind = "padding" -> Len(buf) - pos
      [] kind = "sixes"   -> Len(buf) - 16 - pos

Read(kind, bytes) ==
    CASE kind \in {"u8", "u16", "u32"} -> FromBig(bytes)
      [] kind = "u24"     -> FromLittle(bytes)
      [] kind = "u64"     -> bytes
      [] kind = "magic"   -> bytes = MAGIC
      [] kind = "address" -> AddressRead(bytes)
      [] kind = "string"  -> SubSeq(bytes, 3, Len(bytes))
      [] kind = "padding" -> (Probe - 1) + Len(bytes) + 32
      [] OTHER            -> << >>

\* the Writer, over a list of fields
WriteAll(fields, values) ==
    FlattenSeq([k \in DOMAIN fields |-> Write(fields[k][2], values[fields[k][1]])])

\* the Reader: the values up to the first field that buf is too short for
ReadAll(fields, buf) ==
    LET step(r, field) ==
            IF ~ r.ok \/ r.pos >= Len(buf) THEN [r EXCEPT !.ok = FALSE]
            ELSE LET next == r.pos + Size(field[2], buf, r.pos)
                 IN  IF next > Len(buf) THEN [r EXCEPT !.ok = FALSE]
                     ELSE [ok |-> TRUE, pos |-> next,
                           values |-> IF field[1] = "_" THEN r.values
                                      ELSE Put(r.values, field[1],
                                               Read(field[2], SubSeq(buf, r.pos + 1, next)))]
    IN  FoldLeft(step, [ok |-> TRUE, pos |-> 0, values |-> EmptyMap], fields)

\* encode and decode of packets/mod.rs: the id, and the packet behind it
Encode(format, values) == <<format.id>> \o WriteAll(format.fields, values)
Decode(format, bytes)  == ReadAll(format.fields, Tail(bytes))

-----------------------------------------------------------------------------
(* The packets.                                                            *)

UnconnectedPing ==
    [id |-> 1, fields |-> <<<<"time", "u64">>, <<"_magic", "magic">>, <<"guid", "u64">>>>]
UnconnectedPong ==
    [id |-> 28, fields |-> <<<<"time", "u64">>, <<"guid", "u64">>, <<"_magic", "magic">>,
                             <<"motd", "string">>>>]
OpenConnectionRequest1 ==
    [id |-> 5, fields |-> <<<<"_magic", "magic">>, <<"protocol_version", "u8">>,
                            <<"mtu_size", "padding">>>>]
OpenConnectionReply1 ==
    [id |-> 6, fields |-> <<<<"_magic", "magic">>, <<"guid", "u64">>, <<"use_encryption", "u8">>,
                            <<"mtu_size", "u16">>>>]
OpenConnectionRequest2 ==
    [id |-> 7, fields |-> <<<<"_magic", "magic">>, <<"address", "address">>, <<"mtu", "u16">>,
                            <<"guid", "u64">>>>]
OpenConnectionReply2 ==
    [id |-> 8, fields |-> <<<<"_magic", "magic">>, <<"guid", "u64">>, <<"address", "address">>,
                            <<"mtu", "u16">>, <<"encryption_enabled", "u8">>>>]
AlreadyConnected ==
    [id |-> 18, fields |-> <<<<"_magic", "magic">>, <<"guid", "u64">>>>]
IncompatibleProtocolVersion ==
    [id |-> 25, fields |-> <<<<"server_protocol", "u8">>, <<"_magic", "magic">>,
                             <<"server_guid", "u64">>>>]
ConnectionRequest ==
    [id |-> 9, fields |-> <<<<"guid", "u64">>, <<"time", "u64">>, <<"use_encryption", "u8">>>>]
ConnectionRequestAccepted ==
    [id |-> 16, fields |-> <<<<"client_address", "address">>, <<"system_index", "u16">>,
                             <<"_", "sixes">>, <<"request_timestamp", "u64">>,
                             <<"accepted_timestamp", "u64">>>>]
NewIncomingConnection ==
    [id |-> 19, fields |-> <<<<"server_address", "address">>, <<"_", "sixes">>,
                             <<"request_timestamp", "u64">>, <<"accepted_timestamp", "u64">>>>]
ConnectedPing == [id |-> 0, fields |-> <<<<"client_timestamp", "u64">>>>]
ConnectedPong ==
    [id |-> 3, fields |-> <<<<"client_timestamp", "u64">>, <<"server_timestamp", "u64">>>>]

-----------------------------------------------------------------------------
(* Ack and Nack, which have the same format: one record, of one number or  *)
(* of a first and a last one.                                              *)

AckFields(range) ==
    <<<<"record_count", "u16">>, <<"max_equals_min", "u8">>, <<"first", "u24">>>>
        \o (IF range[1] = range[2] THEN << >> ELSE <<<<"last", "u24">>>>)

WriteAck(id, range) ==
    <<id>> \o WriteAll(AckFields(range),
                       [record_count |-> 1,
                        max_equals_min |-> IF range[1] = range[2] THEN 1 ELSE 0,
                        first |-> range[1], last |-> range[2]])

ReadAck(bytes) ==
    LET one  == ReadAll(AckFields(<<0, 0>>), Tail(bytes)).values
        both == ReadAll(AckFields(<<0, 1>>), Tail(bytes)).values
    IN  IF one.max_equals_min # 0 THEN <<one.first, one.first>> ELSE <<both.first, both.last>>

AckGetAll(range) == range[1]..range[2]

-----------------------------------------------------------------------------
(* Frames.  `data` is the number of bytes a frame carries, and a frame is  *)
(* encoded into what stands in front of them.                              *)

\* Reliability: 0 Unreliable, 1 UnreliableSequenced, 2 Reliable,
\* 3 ReliableOrdered, 4 ReliableSequenced
Reliable(r)           == r \in {2, 3, 4}
Sequenced(r)          == r \in {1, 4}
SequencedOrOrdered(r) == r \in {1, 3, 4}

FrameFields(reliability, split) ==
    LET when(flag, fields) == IF flag THEN fields ELSE << >>
    IN  when(Reliable(reliability), <<<<"message_index", "u24">>>>)
        \o when(Sequenced(reliability), <<<<"sequence_index", "u24">>>>)
        \o when(SequencedOrOrdered(reliability), <<<<"order_index", "u24">>, <<"_", "zero">>>>)
        \o when(split, <<<<"split_count", "u32">>, <<"split_id", "u16">>, <<"split_index", "u32">>>>)

\* Frame::new
NewFrame(reliability, data) ==
    [ reliability |-> reliability, message_index |-> 0, sequence_index |-> 0, order_index |-> 0,
      split |-> FALSE, split_count |-> 0, split_id |-> 0, split_index |-> 0, data |-> data ]

\* Frame::length
FrameLength(f) ==
    1 + 2 + (IF Reliable(f.reliability) THEN 3 ELSE 0) + (IF Sequenced(f.reliability) THEN 3 ELSE 0)
          + (IF SequencedOrOrdered(f.reliability) THEN 4 ELSE 0) + (IF f.split THEN 10 ELSE 0)
          + f.data

\* the flags and the length in bits, a u16
FrameHead(f) ==
    <<32 * f.reliability + (IF f.split THEN 16 ELSE 0)>> \o Big((8 * f.data) % U16, 2)

\* write_u24 asserts that a number fits in 24 bits
Writable(f) == {f.message_index, f.sequence_index, f.order_index} \subseteq 0..(U24 - 1)

EncodeFrame(f) == FrameHead(f) \o WriteAll(FrameFields(f.reliability, f.split), f)

DecodeFrame(bytes) ==
    LET reliability == bytes[1] \div 32
        split       == (bytes[1] \div 16) % 2 = 1
        rest        == ReadAll(FrameFields(reliability, split), SubSeq(bytes, 4, Len(bytes)))
    IN  [name \in DOMAIN NewFrame(reliability, 0) |->
            CASE name = "split" -> split
              [] name = "data"  -> FromBig(SubSeq(bytes, 2, 3)) \div 8
              [] name \in DOMAIN rest.values -> rest.values[name]
              [] OTHER -> NewFrame(reliability, 0)[name]]
=============================================================================
