# A TLA+ model of actix-raknet

RakNet over UDP on actix actors: a client (`RakClient`), a server (`RakServer`
with one `ServerConn` per peer) and the `Session` both put on top of a socket to
get reliable, ordered messages. The modules here are written from `src/src/*.rs`;
TLC checks them on small instances; TLAPS proves, for every instance, the safety of
the retransmission protocol, of reassembly, of a whole session from `send_to` to the
receiver's parent, of cutting messages up, of the client's actors and of the server's tables. Paths below are relative to `src/`
(so `packetqueue.rs` is `src/src/packetqueue.rs` from the root of the checkout).

## 1. Inventory

| part | state | operations | talks to | hard about it |
|---|---|---|---|---|
| `PacketQueue` (`packetqueue.rs`) | `queue`, `time_passed` (two maps over sequence numbers), `max`, `send_min`, `set_queue`, `set_size` | `add_frame`, `add`, `received`, `resend`, `tick`, `readd`, `get_packet` | its `Session` | a lost or late set gets a **new** number; `unwrap`s that assume the two maps agree and the window is complete |
| `ACKQueue` (`packet.rs`) | `lowest`, `highest`, `store_seq` | `add`, `clear` | its `Session` | an ACK must never span a gap; late numbers |
| `SplitPacketQueue`, `ReceivedQueue` (`packet.rs`, `receivedqueue.rs`) | `pool`, `delete`; `min`, `max`, `packet_queue` | `add`, `get_and_clear`; `add`, `get_all` | its `Session` | frames out of order, twice, pieces of several messages interleaved; `split_id` is a u16 and `delete` only grows |
| `Session` (`session.rs`) | the three queues, counters, `disconnected`, `last_receive` | `handle`, `handle_datagram`, `handle_ack`, `handle_nack`, `receive_packet`, `send`, `send_to`, `force_flush`, `update`, `disconnect` | its parent actor's mailbox, the UDP actor | u16 arithmetic of splitting; the end of a session is a *message* to the parent, which meanwhile goes on |
| `RakClient`, `ClientMediator` (`client.rs`) | `remote`, `mediator`, `session`, two timer handles; `request1_count`, two timer handles | `connect`, `disconnect`, datagrams, mediator and session messages, 10 ms interval, 5 s timer; 510 ms retry, 10 s deadline | user, UDP actor, each other | everything meets in one mailbox in any order; handles outlive what they name |
| `RakServer`, `SessionWorker`, `ServerConn` (`server.rs`) | `conns`, `connected_id`, `session` and `workers`; `disconnect_handle`, session | handshake replies, new connection, `ConnectionEnd`; datagrams, packets, 5 s timer, `SessionEnd`, `send`, `disconnect` | user's actor, UDP actor, each other | four tables that must agree while ends and new requests for the same address or guid are in flight |
| `Udp` (`udp.rs`) | the socket | send (each datagram in a task of its own), receive loop | actors | sends overtake each other; a receive buffer of 2048 bytes |
| `RakPing` (`ping.rs`) | – | ping, pong | user | stateless |
| codecs (`packets/`, `reader.rs`, `writer.rs`) | – | encode, decode | all | 24-bit numbers that assert, lengths in bits in a u16, fields found by counting from the end, addresses |

What makes each part correct: the packet queue never drops a frame that has not
arrived and never fails an `unwrap`; the ACK queue acknowledges what was handled
and nothing else; reassembly hands on each message once, whole, in order; a
session brings what is sent on it to the parent of the other, in order and once, and
when one end is over the other ends too; every `connect()` is answered, and succeeds against a server that
is up; every mediator ends; the server's tables always describe the same
connections and no late end takes down a successor; the user of either is told
events in an order it can follow; what is read is what was written, and fits the
path. The hazards are listed, each at its line with the properties aimed at it,
in `PROJECT.json`.

## 2. Modules

```
HashMap ── PacketQueue ─┐
           AckQueue ────┴─ Link ── MCLink
           ReceivedQueue, Link ─── Transport ── MCTransport      (implements OrderedDelivery)
           ReceivedQueue ── Reassembly ── MCReassembly           (implements OrderedDelivery)
HashMap ── Codec ── Fragmentation ── Negotiation ── MCNegotiation
           Codec, AckQueue ── AckClear
Client ── MCClient
HashMap ── Server ── MCServer
           Client, Server, ReceivedQueue ── Handshake ── MCHandshake

DataProofs ─┬─ LinkProofs ── TransportProofs             ClientProofs
            ├─ ReassemblyProofs                          ServerProofs
            ├─ AckClearProofs
            └─ NegotiationProofs
```

- **PacketQueue, AckQueue, ReceivedQueue** hold the data structures: a Rust struct
  is a record with the same fields, a `&mut self` method is an operator from the
  record before the call to the record after it. The two results of `get_packet`,
  `clear` and `get_all` (what is returned, what is left) are two operators. A
  `HashMap` is a function over its current keys; where iteration order can show
  (`readd` of several late sets) every order is allowed.
- **Link** is one direction of a session: the sender's packet queue, the
  receiver's ACK queue and the datagrams between them. Each handler of the session
  that touches either queue is one action (`Send`, `FlushQueue`, `HandleAck`,
  `HandleNack`; `HandleDatagram`, `FlushAck`); `Lose` and the second alternative of
  `Take` are the network. An `Instant` is abstracted to what the code asks of it,
  "older than a second": since numbers are given out in the order of their
  instants, the late sets are the sent ones below some cutoff. With
  `PatientTimer = FALSE` the cutoff is free (the timer may fire before an ACK had a
  chance), with `TRUE` it fires only when nothing about the set is on its way.
- **AckClear** is the loop of `ACKQueue::clear`, an iteration a step, checked
  against the closed form Link uses; what the loop reports is then written as `Ack`
  and `Nack`, read again and run through `get_all` as the sender does.
- **Reassembly** is `send_to`'s numbering, the split pool and the received queue
  over a link that delivers every frame at least once, in any order, any number of
  times. **OrderedDelivery** is what it implements: messages handed on in the order
  they were sent, once, until the channel is closed.
- **Transport** is one direction of a session, from `send_to` to the parent of the
  receiving session: Link's variables and handlers, with `send_to` in front and
  `receive_packet` and `handle_packet` behind. Each end may end at any time: the sender by
  `disconnect()` of its user (`Disconnect`), by silence (`SenderSilent`) or by a bye of
  the other direction (`SenderEnds`), the receiver by its own `disconnect()` or silence
  (`ReceiverLeaves`), by a bye or by a panic. `SessionDatagram` is the whole of
  `handle_datagram`: the ACK queue and the frames of the set, one after the other, into the
  received queue and on to the parent. What the parents, `RakClient` and `ServerConn`,
  make of what they are told is in Client and Server; both directions, and the clock
  behind silence, are in Handshake.
- **Codec** has the bytes: a packet is the list of its fields with the `Writer` or
  `Reader` call each goes through, and two operators write and read such lists.
  **Fragmentation** is the u16 arithmetic of `send_to`, one iteration of its loop a
  step, producing frames with their real numbers and lengths. **Negotiation** sends
  the packets in front of a session, as bytes, over a path that takes packets up to
  some size (ping and pong first), and then has one of the two sessions send a
  message at the mtu it ended up with.
- **Client** has `RakClient` and every `ClientMediator` made so far, each with a
  mailbox. An actor takes one message at a time; a handler is one action. Timers
  are sets of armed timers, told apart from the handles that name them, because the
  code keeps handles of timers that are gone and loses handles of timers that run.
  A session is an id and its `disconnected` flag; as history, which no guard reads, it
  also has `own`, whether the success that made it came from the mediator in charge,
  and a greeting records the session that received its accept. The user calls `connect()` only when
  the events it got say nothing is under way; the network is free to deliver any
  datagram at any time.
- **Server** has `RakServer` (with `SessionWorker` inside it, as in the code) and
  every `ServerConn` made so far with its mailbox. `conns`, `connected_id`,
  `assigned` (`SessionWorker::session`) and `load` (`SessionWorker::workers`) are the
  four tables. `handler` says whether the user's actor still runs. A datagram may carry an empty message,
  which panics the client or the connection that handles it. A panic unwinds into the
  task of the actor, which is dropped with its mailbox and its timers. In both, `Arrive`
  is the free network and `Deliver` what a datagram does to the mailboxes.
- **Handshake** takes the actions of Client and Server over as they are (Server by
  `INSTANCE ... WITH`), replaces `Arrive` by datagrams that the other side sent, and adds
  what decides whether the two find each other: reliable frames that are acknowledged
  and resent, the order of what is received, silence, and a clock in steps of 510 ms
  with the code's 510 ms, 5 s, 5 s, 10 s and 11 s. A step of the clock waits until
  everything on its way has been handled: a round trip is shorter than a step. The
  network loses a datagram or lets one overtake others, `MaxFaults` times.

In every module a section "The mutated forms of definitions below" holds wrong
versions of definitions of the module (a dropped guard, a forgotten reset ...).
No specification uses them; `PROJECT.json` pairs each with the property that
fails once it replaces the right one, which shows that the property can fail.

## 3. What TLC checks

| run | question | bounds |
|---|---|---|
| `link` | Do the unwraps hold, do ACKs tell the truth, is every frame held or arrived, does a number name one set? (`QueueMatchesTimers`, `WindowComplete`, `AckOnlySeen`, `NoFrameLost`, `OneSetPerNumber`, `BookInWindow`, `SharedSetsFit`) | 3 frames of 2, 2 and 3 bytes in sets of less than 5, 1 loss, 1 duplicate, numbers below 4, free timer |
| `transport` | What is the receiver's parent told, exactly (`ToldExactly`); does the window drain (`WindowDrains`); is it an ordered channel, with its liveness (`ImplementsChannel`)? | 2 frames of the user's choice among whole, split, empty and misread messages and byes, plus those of disconnects; either end ends whenever it likes; 1 loss, numbers up to 9, patient timer |
| `ack_clear` | Does the loop of `clear` compute the longest runs and the gaps, and is the sender told them? | every book over 8 numbers, from 0, across the first and second byte, and up to 2^24 - 1 |
| `negotiation` | Is each packet and frame read as it was written; do datagrams fit the path that was probed; which lengths are carried whole? | paths on both sides of the three probes, every packet of the handshake, a fresh session and one at its last numbers, lengths on both sides of each boundary, past 65536 too |
| `reassembly` | Ordered, intact, once; nothing left behind; no stall; implements the ordered channel, with its liveness | 5 messages of 2, 1, 3, 1, 2 frames, 3 split ids |
| `client` | Does a session always have its interval; is every `connect()` answered; does a disconnected session go; do mediators end, and is the one in charge always attended? | 2 connects, 1 disconnect, 2 datagrams of 7 kinds |
| `server` | Do the tables agree with each other and with the connections that run, is a waiting end current, are events in order; is every connection greeted or ended, and is the place of an ended one freed? | 3 clients over 2 addresses and 2 guids, 2 workers, 3 datagrams of 5 kinds, 1 call of the user |
| `handshake` | Does a `connect()` to a server that is up succeed (`ConnectSucceeds`); are both users told (`ConnectedBothEnds`); is no end left alone (`NoHalfOpen`)? | 2 connects, 1 disconnect by each side, 13 requests, 1 loss or overtaking |
| `handshake_faults` | Is Connected told to the client's user once per session, for its own accept (`ConnectedByOwnAccept`), and to the server's only of a client that was told (`GreetedByConnected`)? | the same with 2 losses or overtakings, safety only |
| `client_accept`, `client_retry`, `negotiation_v6` | findings, see section 5 | the smallest that show them; `negotiation_v6` is `negotiation` with IPv6 addresses |

Why these are enough. *Link*: one loss and one duplicate reach every branch of
`clear` and `received` (gap, late number, ACK of a number already renumbered, NACK of
a number already acknowledged), a set renumbered twice fits below 4, and the frames a and b
share a set that the timer, a NACK and an ACK then compete for; b and c, or a and c,
would fill it to the last byte, which `add_frame` must not allow. The proofs lift
all of it to any bounds. *Transport*: two
frames are a split message or two whole ones, with a loss that leaves a gap for
the second to wait behind; a bye can be the lost one, can be overtaken, and can
come after a message that panics the receiver or after the receiver has left. Nine
numbers are more than the patient timer and the NACKs can use up, so no guard on `MaxSequence` blocks a step
fairness counts on. *Reassembly*: the five messages put whole ones between split
ones, two pieces and three, so that a late copy of a finished message meets an
unfinished one and a gap. *Client*: two connects are what it takes for an old
session, mediator, timer or handle to meet a new one; sessions are greeted or not and end
by `disconnect()`, silence, byes and timeouts. A second accept takes a third datagram:
`ConnectedByOwnAccept` is checked in `handshake_faults`, where the client's own resends
bring as many as there are. Three connects, which it takes for the stale success of a
replaced mediator to make a session that an accept of an earlier one then greets, are left
to the proof of `GreetedOnce`. A mediator asks once in `client`, 13 times in `handshake`.
The proofs lift the invariants to any number of each. *Server*: the clients share an address
and a guid each way, so a successor at the same address, the same guid from a
second address, and both refusals occur; a connection can panic before and after its
session has ended. *Handshake*: one fault at any of the
datagrams of two connections, in `handshake_faults` any two; every pair of timers that can
race does. The mediator's
10 s deadline and `connection_timeout` come due only with more faults, and are
covered by `client`. *Negotiation* has one packet on its way at a time, and so
needs no bound but its inputs.

Integers: sequence, message and order numbers are naturals in Link, Reassembly and
Transport. They are u32 in the code and 24 bits on the wire, so those modules stand
for sessions of fewer than 2^24 sets; Codec has the 24 bits and `FramesSurvive` and
`SenderHears` reach their end. `split_id` wraps at `SplitIds`. The lengths of
`Fragmentation` are cut to u16 where the code does it. A worker's u32 count is shown
not to go below zero.

Deadlock is checked in `Link` and `Reassembly`, whose systems never stop. The
other models end when the calls and datagrams they are given are used up, or when
a loop is done, and say `CHECK_DEADLOCK FALSE`.

### Fairness

- *Transport*: the 10 ms interval of both sides comes round for ever (weak fairness of
  `SenderFlushes`, `ReceiverFlushes`, and of the silence checks in the same function, see
  below) and the socket hands over what the network keeps (weak fairness of the handlers).
  Losses are finite. An end may fall silent at any time, for all its pings may be lost;
  that it does so in the end is assumed only once the other end is over, because a
  session that has ended sends no frame any more, a ping neither. The liveness also needs
  a timer that outlasts a round trip: the code compares against a fixed second and never
  adapts it, so over a slower path it would renumber sets for ever. That
  assumption is the constant `PatientTimer`.
- *Reassembly*: each frame is received, which is what Transport shows of the link.
- *Client*, *Server*: actors are scheduled and an armed timer fires or is cancelled. In
  Client this is weak fairness of each actor (`ClientWorks`, `MediatorWorks`): one that has
  a message to take or a timer that is due does one of the two.
  Nothing is assumed of the user, of the network, or of a session's silence timer
  (no `WF` on `UpdateSilent`, `ConnSilent`, `Arrive`, `Connect`, `Call`).
- *Handshake*: weak fairness of the disjunction `Works` of everything but the users and
  the faults: some actor, datagram, due timer or the clock moves on. What is handled
  within a step of the clock may come in any order, and the clock waits for all of it,
  so nothing is put off for ever.

## 4. What is proved

Every theorem is about the specification the runs check, for all values of its
constants that satisfy the assumptions in the module that declares them; those only
give the constants their types. Where a theorem needs more it is named: `SplitIdsSuffice` (Reassembly, Transport),
`LeavesRoom` (Fragmentation) and `OverIpv4` (Negotiation), see below.

| module | theorem | what it lifts |
|---|---|---|
| `LinkProofs` | `TypeCorrect`, `NoFailedUnwrap`, `WindowStaysComplete`, `AcksAreTrue`, `FramesAreKept`, `BookStaysInWindow`, `NumbersAreNotReused`, `SharedSetsStayBelow` | `TypeOK`, `QueueMatchesTimers`, `WindowComplete`, `AckOnlySeen`, `NoFrameLost`, `BookInWindow`, `OneSetPerNumber`, `SharedSetsFit`: every invariant of Link |
| `ReassemblyProofs` | `TypeCorrect`, `MessagesInOrder`, `LateCopiesLeaveNothing`, `StreamDoesNotStall`, `ImplementsChannel` | every invariant of Reassembly, and the safety of `ImplementsFairChannel` |
| `TransportProofs` | `ToldExactlyWhatWasSent`, `SessionIsOrderedChannel`; `ShortSessionsSuffice`, `LinkInSession` | `ToldExactly` and the safety of `ImplementsChannel`; when their hypothesis holds; five invariants of Link inside a session |
| `NegotiationProofs` | `WhatIsCarried`, `MessagesAreCarried`, `PacketsAreUnderstood`, `FramesComeOut`, `PathIsFit` | every invariant of Negotiation and Fragmentation |
| `AckClearProofs` | `LoopComputesClear`, `SenderHearsWhatWasSeen` | every invariant of AckClear |
| `ClientProofs` | `ClientTypeCorrect`, `GreetedOnce`, `SessionIsDriven`, `NoMediatorIsLost` | every invariant of Client |
| `ServerProofs` | `ServerTypeCorrect`, `TablesAgree`, `NoSuccessorIsTakenDown`, `UsersAreToldInOrder` | every invariant of Server |

Each module defines an inductive invariant (`IInv`; `SInv` in Transport, `NIInv` in
Negotiation), has one lemma per action that the action keeps it, and derives the theorems
from it. `DataProofs` holds the lemmas about sums, the received queue and the codec that
several of them share.

**Link.** None of its invariants is inductive alone. `NoFrameLost` can break only at
`HandleAck`, so one must know that an acknowledged number was handled
(`AckOnlySeen`) *and* that the set still queued under it is the one that was
handled: hence, in `IInv`, a data datagram still queued under its number is the
queued set, and the frames of a queued set whose number was handled have arrived.
Both survive renumbering because a new number is at least `send_min`, above
everything the network or the receiver has heard of (`DatagramOK`, and
`s < send_min` for every handled `s`). `WindowComplete` needs the same bound for ACKs
and NACKs, and for NACKs it follows from the receiver's `highest <= send_min` (`BookOK`).
On the sender's side all operations but `received` and the end of `get_packet` only
add sets above `max` or move old ones there; `Grows` says this once, is shown
transitive, and `AddFrameGrows`, `TickGrows`, `RenumberGrows`, `ResendGrows` are its
instances. `ReceivedSound` and `GetPacketSound` are the other two.
`SharedSetsFit` is about sums: `SharesFit` adds that the set being filled waits
under its number with all its frames, and that `set_size` counts them
(`add_frame` starts a new set exactly when the count would reach the capacity).

**DataProofs.** The model sums and chooses with the folds of the community modules.
What such a recursive definition computes would be proved by induction, and the
library's induction theorems cannot be used with the installed provers. Here the
induction is done by hand, as a least counterexample: `LeastNatural` is proved from
the well-foundedness of `<` on the naturals, for a set instead of an operator, and
`SumsEquation`, `SumsInsert` and `SumOfOneMore` follow from it. The second part is what
`add` and `get_all` preserve, for any log of messages of which some frames were supplied:
Reassembly and Transport only say what their log is. The third is the codec, below.

**Reassembly.** The stream is one of messages 0, 1, 2 ... whose frames may come at any
time, again and in any order. `IInv` says that the frames handed to the link are all
frames of the messages sent, that a split id stands for one message
(`IdsStandForMessages`), that what the queue holds are whole messages and what the
pool holds are unfinished ones, that the ids in `delete` are those of the split
messages put together, and that no frame that arrived is lost (`Kept`). `add` and
`get_all` keep it, one lemma each. That a split id stands for one message is where the code needs a
hypothesis: `split_id` is a u16 that wraps, and `delete` never forgets an id.
`SplitIdsSuffice` says that a session splits at most as many messages as there are ids;
beyond that the properties are false of the code (section 5). The constants of the
run satisfy it. `ImplementsChannel` shows each step to be one of `OrderedDelivery` or none.

**Transport.** Here the two lines of argument meet. `SInv` is Link's `IInv` and
- `Known`: a frame in a queued set, in a datagram or handled was handed to `add_frame`.
  This is all that reassembly needs of the link: it may lose, repeat, delay and renumber
  sets as it likes;
- `Counted`: the messages are of the types declared and have no more frames than
  `MaxFrames`, so every frame is one Link has a length for;
- `Supplied`, `IdsInTurn`: the frames offered are those of the messages `sent`, and their
  split ids were given out in turn;
- `Ends`: the received queue satisfies the invariant of `DataProofs` for that log, and the
  parent was told exactly the data messages in front of `rq.min`, or in front of the
  message that ended the session (`ToldOf`).

`handle_datagram` works through the frames of a set, and for each frame through the
messages that it completes. Both loops are left folds, and `FoldedSteps` gives them step by
step: that the function `FoldLeft` chooses exists, for a set of any size, is shown by building
it up from the empty set (`IterExists`). `HandleAll` then is the inner loop and `ReceiveAll`
the outer one, each by `UpTo`. In the steps of the refinement, a `send_to` of a data
message is the channel's `Send`; a datagram is `Deliver` of the messages it completes, or
`Close` if it carries a bye or a message that panics, which may also come when the receiver
has left; `ReceiverLeaves` is `Close`; everything else stutters. `SplitIdsSuffice` is the hypothesis of Reassembly as a state
predicate, assumed in every state, since here the users choose what they send as they go.
`ShortSessionsSuffice` says when it costs nothing: in sessions of at most as many frames as
there are split ids, 65536 in the code, every behaviour satisfies it.

**Fragmentation.** For messages of any length and every mtu above 61 (with less, the
u16 subtraction of `send_to` underflows, with 61 it divides by zero; no mtu that is
probed is below 584). `LoopKeeps`: after i pieces, the frames carry `UpTo(i)` bytes and
these and the rest are the message; so `split_to` never asks for more than there is.
`SendDone` then is arithmetic with quotient and remainder (`PiecesReach`, `PiecesCarry`).

**The codec** (in DataProofs). Reader and Writer go through a list of fields with folds,
which are taken step by step (`BytesFoldedSteps`, for a list of any length by
`Induction`). What is written of the first fields is how all that is written begins
(`WrittenGrows`), so each field stands where it was written (`FieldStands`). Then, kind by
kind: a u8, u16, u24, u32 or u64, the magic and an IPv4 address take as many bytes as the
reader expects and are read as they were (`FitSurvives`: numbers by quotient and
remainder, an address by its complement); a string is found by the length in front of it
(`StringRead`), a padding by the end of the buffer (`PaddingRead`), and the ten
bytes in front of two times by counting back from it (`SixesRead`). `Fine` says of a
field that it is one of these, in a place where it can be, and `RoundTrip` that a list of
fine fields is read as it was written; `FirstRead` says it of its first fields only, which
is what the reader of an ACK begins with. The u32 are taken below 2^24: the crate
writes none but split counts and indices, which come from a u16.

**AckClear.** The loop invariant: the ranges so far are the longest runs of the numbers
visited and seen, in order, with none left out, and the rest of those visited is missing.
`SenderHears` follows from `AckRoundTrip`, an instance of `RoundTrip`. That every
number fits in three bytes is `AckClearAssumption`.

**Negotiation.** `NIInv`: while a packet is on its way it is one of the thirteen (`Ids`,
`FormatOf`), its values are of the types of its fields (`PacketValues`) and its mtus were
probed and let through (`MtuHolds`); while a session sends, `IInv` of Fragmentation
and both mtus as they were agreed on (`Sessions`). A packet that arrives is known by its first byte, and read
as it was meant (`Arrived`, from `AllUnderstood`: one instance of `RoundTrip` for each of
the formats), so the next one is again made of such values (`Sent`). `Request1` and
`ServerRequest1` rest on the length of a probe: the mtu that the server reads of it is
three bytes above what got through at most (`ProbeLength`). Of a frame that a session makes `IsSent` says that its
numbers are those of a frame and that its data, with the header of a piece, stays 47 below
the mtu. From this `FrameRoundTrip` gives `FramesSurvive`, `FrameCounted` the length, and
`LengthOfSent` with `Sessions` `FitsThePath`. `NegotiationAssumption` says that guids and
times are eight bytes and an address is 4 or 16 bytes with a u16 port. `OverIpv4`, the
hypothesis, says that both addresses have 4: with 16, `PacketsSurvive` is false of the
code (finding 3), and no negotiation gets to a session.

**Client.** `ConnectedByOwnAccept` rests on an order in the mailbox: nothing the
mediator in charge said is ahead of a datagram, because datagrams are posted to the
session only while there is no mediator (`NoNewsBefore`). So when a success makes a
session no datagram of an earlier one is left, unless it came from a mediator that was
replaced. With it `disconnect_handle` is of the session there is, and was not used for an
earlier greeting. `MediatorAttended` needs that nobody told the mediator in charge to
terminate.

**Server.** `RegistryAgrees` needs that a connection is registered under its own address
and that `connected_id` names no guid twice: it is a `Vec`, and `remove` takes out one
entry. The counts of the workers are cardinalities of what `assigned` gives each. For
`EventsInOrder`, what a connection that still runs has told, and what it may yet tell
(`Told`).

### What is only model-checked

- `GreetedByConnected` of Handshake, for a network that interferes twice
  (`handshake_faults`); beyond that it is false (section 5).
- Liveness, and so the fairness in the refinements of `OrderedDelivery`: outside what the
  proof system treats.

## 5. Findings

1. `client.rs:260` unwraps `remote` when an accept is handled. `disconnect()`, silence or
   the peer's disconnect can put `SessionEnd` in front of it; `SessionEnd` clears
   `remote` and `session` but not `disconnect_handle`, which is the only guard.
   Run `client_accept`.
2. `client.rs:212` unwraps `remote` when a mediator succeeds. The `SessionEnd` of an
   attempt that had timed out can clear it under the next attempt. Run `client_retry`.
3. `reader.rs:84-119` does not read an IPv6 address as `writer.rs:83-91` writes it: one
   byte off and the port's bytes swapped. `OpenConnectionRequest2` then does not decode
   and no session to a server at an IPv6 address is made. Run `negotiation_v6`; the run
   `negotiation` shows that over IPv4 everything is read as written.

What other properties record, where nothing in the repository says what should happen:

- `CarriesAll`: exactly which lengths `send_to` carries. Of a split message whose length
  is a multiple of the piece length, and of one of 65536 bytes or more, bytes are lost.
- `ToldExactly`: an empty message panics the receiving actor; a message whose first byte
  is 0x00 or 0x03 is swallowed, and one with 0x15 ends the session. It is about the parent
  of the receiving session. Its user hears less: `RakClient` takes every message that
  begins with 0x10 for an accept (`client.rs:253-271`), and `ServerConn` keeps whatever
  comes before the greeting to itself (`server.rs:303-329`).
- `EndFreesSlot` excepts two connections that never report their end to `RakServer`, so
  that their address, guid and worker stay taken for ever: one whose user's actor is gone
  (`server.rs:278`), and one that panics on an empty message, also one that comes after
  the session has ended and before its `SessionEnd` is handled (`session.rs:155`).
- `FitsThePath`: the client's session may send datagrams up to 94 bytes longer than the
  path that was probed; the server's never does.
- `ConnectSucceeds`: the first `connect()` survives any one fault, not two. A second
  `connect()` fails when the bye of the first session was lost: the server swallows
  the requests until it has been silent for 11 s, and the mediator asks for less.
- `NothingLeftBehind`, `NoStall` and `ToldExactly` hold for as many split messages as there are split ids;
  the code's id is a u16 and its `delete` never forgets, so they stand for the first
  65536 split messages of a session.
- `GreetedByConnected`: a frame does not say which session it belongs to, and
  `ServerConn` takes any `NewIncomingConnection` from its address. If the acknowledgement
  of the first one is lost, and the copy that the client sends again comes in behind
  both requests of its next `connect()`, the server's user is told Connected of a
  connection that the client's user has not been told of. TLC finds this with
  `MaxFaults = 3` in `HandshakeFaults.cfg`; with 2 it finds none.
- `ConnectedByOwnAccept` excepts one case: `client.rs:198` does not ask which mediator
  a success comes from, so one that was replaced can make a session, and an accept that
  an earlier session received can then greet it.
- In `PacketsSurvive`, `Meant` allows one difference: the reader of a probe counts one
  byte less than its writer, so 1496 becomes 1495.

## 6. Not modelled

- Frame sets and their numbers in Handshake: a datagram of an earlier session carries
  its frame there, not a sequence number. A number left over from an earlier session
  at the same address is therefore not examined (see the hazard at
  `packetqueue.rs:117`).
- `SetMotd`; binding, errors and stopping of the sockets; stopping of `RakServer`: state
  no other handler reads, or pure I/O.
- UTF-8 of strings; the contents of user messages beyond their first byte.
- Crash and restart: nothing is persisted.
- Unreliable and sequenced user messages: the crate never sends any. Their frames are
  in Codec.
- `examples/`: users of the crate.

## 7. Plan

Done: Link and its proofs; Reassembly, Transport and OrderedDelivery; the codecs and
Negotiation; Client, Server and their composition in Handshake.

Proved: every invariant of Link, Reassembly, Transport, Client, Server, AckClear,
Fragmentation and Negotiation, and the safety of both refinements of `OrderedDelivery`.

What could come next: what Handshake needs beyond the proofs of Client and Server to be
proved about, for a network that interferes a bounded number of times.
