# TLA+ models of the QUICHE packet creator

This directory holds a TLC-checked model of the packet assembly path of this
repository: `QuicPacketCreator` (`src/quic/core/quic_packet_creator.cc`), the
`NullEncrypter` it sizes its packets against, the coalesced datagram it
serializes, and an abstract statement of what the creator promises its
callers. `PROJECT.json` lists every component, run, property, mapped
definition, finding and hazard in machine-readable form; this file explains
them.

## 1. The system

| Part | Source | State | Operations | Model |
|---|---|---|---|---|
| Packet creator | `quic_packet_creator.cc` | `packet_` (number, level, frame lists, fate, peer address, ACK and handshake flags), `queued_frames_`, `packet_size_`, `max_packet_length_`, `max_plaintext_size_`, `latched_hard_max_packet_length_`, `pending_padding_bytes_`, `needs_full_padding_`, `next_transmission_type_`, `flusher_attached_`, nonce and version flags, connection ids, `max_datagram_frame_size_` | writes, flushes, setters, probes, coalescing | `PacketCreator` |
| Coalesced datagram | not in these sources | one packet per level, length, limit, peer | `MaybeCoalescePacket`, `CopyEncryptedBuffers` | `CoalescedPacket`, from the specification |
| NullEncrypter | `crypto/null_encrypter.cc` | none | sizes, `EncryptPacket` | `PacketSizes` |
| Framer sizes | not in these sources | none | frame, header and varint lengths | `PacketSizes`, from the wire format of the specification |
| Delegate (connection) | not in these sources | answers | `ShouldGeneratePacket`, `MaybeBundleAckOpportunistically`, `GetSerializedPacketFate`, `OnSerializedPacket`, `OnUnrecoverableError` | environment of `PacketCreator` |
| Version predicates | `quic_versions.h` | none | predicates | CONSTANT `Version`; `QuicVersionHasLongHeaderLengths` and `QuicVersionUsesCryptoFrames`, which the header gives to one and the same version (an `ASSUME` of `PacketSizes`) |
| Packetization contract | - | - | - | `FrameLedger` (abstract) |
| Load balancer decoder, QPACK harness, session interface, client session, Quartc fakes, platform shims, test peers | see section 8 | | | not modelled |

The creator is single threaded. What makes it hard is not concurrency but
re-entrancy and sequencing: `AddFrame` flushes the open packet when a frame
does not fit; the flush serializes, pads (which calls `AddFrame` again),
hands the packet to the delegate and clears `packet_` under the caller, which
then retries. Size limits have two layers (a hard limit and a soft one with a
single latch), headers change length with the encryption level, the nonce,
the version flag, the connection ids and the packet number length, and every
one of these can change between two writes that share a packet. A failed
serialization leaves through a scope guard that cleans up part of the state.
The coalescer serializes a saved INITIAL packet a second time through the
same `AddFrame` and `SerializePacket`, with `packet_` switched under them.

## 2. Modules

`PacketSizes` - encryption levels, frame records and every size the creator
asks the framer and the encrypter for. The formulas are the real ones; the
constants that set the scale are CONSTANTS, so that a packet holds two or
three frames: the NullEncrypter tag is 12 bytes as in the code, the
diversification nonce 2 bytes where the code has 32, and packets are 30 to 56
bytes long where the code has 1250 to 1452.

`CoalescedPacket` - the record the connection collects packets in and the
rule by which a packet may join it, modelled from the specification.

`PacketCreator` - one action per public method. Every public method runs to
completion and calls other methods that change state, so a method is an
operator from a *call state* to a call state: the record `s` carries the
creator's members, the encrypters, the delegate's answers for this call
(`gen`, `fate_answer`, `ack`, `rand`) and what the call has produced so far
(`out`, `err`, `bug`, `ret`). `Call(d)` builds it from the variables and one
element `d` of `DelegateAnswers`; `Return(s, ret)` assigns every variable
from it. `FlushCurrentPacket`, `SerializePacket`, `MaybeAddPadding` and
`AddFrame` are mutually recursive as in the code; `depth` counts the nesting
and `MaxNesting` bounds it.

A method with several steps is a pipeline: each step takes the call state
its predecessor produced (`ConsumeDataBehindAck(
MaybeBundleAckOpportunistically(s), ...)`), and a step that depends on the
outcome of the one before reads it from `s.ok`. `PROJECT.json` maps every
step to the lines of the method it stands for. The variables:

* `creator` - the members of the object, `packet_` flattened into them;
* `encrypters` - levels the framer has keys for;
* `emitted`, `errors`, `bugs`, `result` - what the *last* call passed to
  `OnSerializedPacket` and `OnUnrecoverableError`, the `QUIC_BUG` sites it
  hit, and what it returned (`result.value` is a record per return type);
* `coalesced` - the connection's `QuicCoalescedPacket`, filled from the
  packets whose fate is `COALESCE`;
* `contexts` - the `old_peer_address_` of the `ScopedPeerAddressContext`
  objects alive, innermost last;
* `connected` - false once an unrecoverable error was reported; no call is
  made afterwards, as the connection closes.

`Next` is `CallAttachPacketFlusher`, `Configure` (the setters), `Write` (the
operations that need the flusher attached) and `Probe` (the standalone
probes and `SerializeCoalescedPacket`). Between them the passing runs fire
every action.

`FrameLedger` - the abstract specification: a packetizer that loses,
repeats and reorders nothing (section 5).

`MCPacketCreator` - the version records (`IetfVersion`, `GoogleVersion`) and
the delegate answer sets the configurations use.

## 3. What is assumed of the callers

These are guards of the `Call...` actions that the code does not test itself:

* calls are made while the connection is open (`connected`);
* the writes are made with a flusher attached (the code raises `QUIC_BUG`
  otherwise and goes on);
* a stream writes nothing behind a FIN that is still queued
  (`StreamHasEnded`);
* with `IdsBetweenPackets`, the connection ids, the included length of the
  server connection id and the retry token change only while no frame is
  queued. None of `SetServerConnectionId`, `SetServerConnectionIdLength`,
  `SetClientConnectionId` and `SetRetryToken` looks at the queue. The run
  `GquicServer` lifts the assumption: the server connection id and its
  included length change, like the nonce of `SetDiversificationNonce`, under
  the open packet, and the run checks what a header that grows or shrinks
  behind `packet_size_` leads to;
* with `LevelBetweenPackets`, the encryption level changes only while no
  frame is queued. `set_encryption_level` states this as a `DCHECK`, which a
  release build compiles out: the guard is an assumption on the connection,
  not a test of the code. The run `GquicServer` lifts it and changes the
  level between ZERO_RTT and FORWARD_SECURE under queued frames.
  `StreamDataEncrypted` needs the assumption: `AddFrame` and the fast path
  look at the level when data are handed over, and a level lowered under
  the queue leaves stream data in an INITIAL packet;
* with `IdsBetweenPackets`, the retry token changes only while no INITIAL
  packet waits in the coalesced packet. The saved packet was padded to its
  limit under the
  header without the token; serialized again with the token its frames no
  longer fit, `ReserializeInitialPacketInCoalescedPacket` fails with
  `QUIC_BUG`, the connection is closed and the frames of the saved packet
  stay in `packet_` (without the guard `CoalescingBorrowsPacket` fails after
  `ConsumeCryptoData`, `SetRetryToken`, `SerializeCoalescedPacket`);
* with `KeysBeforeLevel`, `set_encryption_level` is called for levels that
  have an encrypter; the run `GquicServer` lifts the assumption, and its
  serializations fail for want of keys;
* `SetClientConnectionId` is called with a non-empty id only by versions
  that support client connection ids (the code's `DCHECK`).

## 4. Runs

Every run instantiates `MCPacketCreator` with its own inputs; splitting the
inputs keeps each state space between twenty and sixty thousand states. By
default packets are 34 bytes (`kDefaultMaxPacketSize`) in buffers of 36
(`kMaxOutgoingPacketSize`), the version is the IETF one and the creator is a
server at FORWARD_SECURE.

| Run | Inputs | Properties | Result |
|---|---|---|---|
| `Stream` | writes of 6, 20 and 38 bytes (the last takes the fast path) at offsets 0 and 6, with and without FIN; ACK; WINDOW_UPDATE; client connection id of 2 bytes; `SetMaxPacketLength(13)`, a limit below the header; five delegate answer sequences | `TypeOK`, `PacketSizeAccounting`, `HeaderProtectionMinimum`, `EmittedWithinLimit`, `PacketNumbersIncrease`, `PacketizesLosslessly` | hold |
| `Handshake` | IETF client, INITIAL then FORWARD_SECURE, packets of 54 bytes; CRYPTO writes of 3 and 45 bytes; ACK; stream writes of 6 and 58 bytes (the second is offered to the fast path); retry token of 2 bytes; fates SEND_TO_WRITER and COALESCE | `HandshakeAlone`, `HandshakeFullyPadded`, `StreamDataEncrypted`, `CoalescedFillsDatagram`, `CoalescingBorrowsPacket` | hold |
| `GquicClient` | Q043 client, packets of 30 bytes; writes of 6 and 20 bytes on crypto stream 1 (the client hello: one fits a packet, one does not) and stream 4; PING; pending padding; `StopSendingVersion`; server connection id of 2 bytes; `FairSpec` | `PacketSizeAccounting`, `HandshakeAlone`, `PaddingAlwaysAdded`, `ClientHelloInOnePacket`, `QueuedFramesLeave`, `PendingPaddingLeaves` | hold |
| `GquicServer` | Q043 server, none of the three assumptions on the connection; ZERO_RTT with its keys, FORWARD_SECURE without; nonce, server connection id of 0 or 2 bytes, its included length and the encryption level, all also set mid-packet; writes of 6 and 20 bytes without FIN at offsets 0 and 6; ACK with STOP_WAITING; PING probe | `EmittedWithinLimit`, `QueueMatchesPacket`, `StreamBytesConserved` | hold |
| `Mtu` | hard limits 32 and 34, soft limits 21 and 25, MTU target 36, messages of 3 and 9 bytes, datagram frame size 10, PATH_CHALLENGE and PATH_RESPONSE probes | `ProbesFullyPadded`, `FastPathAgreesWithQueue`, `WritesKeepHardLimit`, `ProbeBesideOpenPacket`, `GuaranteedMessageIsSent` | hold |
| `Paths` | path challenge/response frames, two peer addresses, one `ScopedPeerAddressContext`, skipped packet numbers (1 and 15 of a space of 16), packet number lengths for 1 and 70 packets in flight, pending padding, FIN_AND_PADDING, probing retransmission | `ProbesFullyPadded`, `QueuedForOldAddress`, `PacketNumbersIncrease` | hold |
| `DoubleAck` | as `Stream` | `OneAckPerPacket` | violated |
| `FastPath` | as `Stream` | `FastPathIsQueuePath` | violated |
| `SoftLimitLatch` | as `Mtu` without probes | `HardLimitSetExplicitly` | violated |
| `TinyRoom` | PING, 3 byte write, soft limit 21 | `ConsumeDataAlwaysSucceeds` | violated |
| `CoalescedType` | as `Stream`, with `SetTransmissionType(LOSS_RETRANSMISSION)` | `PacketTypeOfLastFrame` | violated |
| `ChloBehindAck` | as `GquicClient`, with an ACK of 5 bytes for the delegate to bundle | `ClientHelloThatFitsIsSent` | violated |

Each property of a passing run is paired in `PROJECT.json` with a mutant: a
plausible wrong version of one mapped definition (the expansion forgotten in
`BytesFree`, a serialization failure that is not reported, the test for a
client hello cut short left out, a full packet padded all the same, the latch
not cleared, a fast path that never sets the FIN, the flush before the
address change dropped, packet numbers skipped without the test for a sum
that wraps, a flush that serializes only when frames are queued, a message
added without flushing first, ...) under which TLC finds that property violated.

### What the properties say

* `PacketSizeAccounting` - `packet_size_` is the header of the moment plus
  the queued frames, across every setter that changes the header.
* `QueueMatchesPacket` - as long as the connection is open, the frame
  lists of `packet_` and `queued_frames_` describe the same packet. When
  `SerializePacket` fails, the scope guard clears `queued_frames_` and
  nothing else: the frame lists, `packet_size_`, the consumed packet number
  and the ACK flag keep what the failed attempt wrote, where the
  specification says a failure never corrupts the open packet. `GquicServer`
  makes serializations fail (a level without keys, a header that the
  nonce, a longer server connection id or another level lengthens under
  queued frames) and shows that the lists differ only behind
  an `OnUnrecoverableError`, that is, in a creator whose connection is being
  closed.
* `EmittedWithinLimit`, `HeaderProtectionMinimum`, `PacketNumbersIncrease` -
  of every packet handed to the delegate. `EmittedWithinLimit` is checked in
  `Stream` under the default limit and under a limit of 13, which is below
  the header: `SetMaxPacketLength` computes its room unsigned, the
  `QUIC_BUG_IF` stays silent and the limit is accepted. It does not hold
  under a limit that leaves 1 to 6 bytes of room (18), which is accepted in
  the same way and is not part of a run: `CreateAndSerializeStreamFrame`
  pads its frame to the header-protection minimum without looking at
  `max_plaintext_size_` and emits 21 bytes (hazard at line 177).
  `PacketNumbersIncrease` is checked in `Stream` across both paths of
  `ConsumeData` and in `Paths` across `SkipNPacketNumbers`, whose counts
  reach the end of the number space.
* `StreamBytesConserved` - what `ConsumeData` reports as consumed is what
  the packets and the queue gained.
* `HandshakeAlone`, `HandshakeFullyPadded`, `StreamDataEncrypted` - the
  handshake rules.
* `ClientHelloInOnePacket` - with `FLAGS_quic_enforce_single_packet_chlo`
  what a client writes on the crypto stream at INITIAL leaves in one frame
  of one packet before `ConsumeData` returns, or nothing of it is consumed
  or sent: the loop of `ConsumeData` never cuts it. The property makes the
  call for every delegate answer and write of the run and compares what it
  returned with the handshake frames that were emitted.
* `PaddingAlwaysAdded` - the `QUIC_BUG` of `MaybeAddPadding` ("Failed to add
  padding_bytes") does not fire: the padding it sizes from `BytesFree()` is
  padding `AddFrame` has room for, behind frames of every kind and with
  pending padding larger than the room. It holds under the limit the
  creator starts with; see the hazard at line 1778 for the limit under
  which it does not.
* `WritesKeepHardLimit` - no write changes the hard limit, whichever path
  removes the soft one.
* `ProbesFullyPadded` - a packet with a path or MTU frame has no room for
  padding left. `MaybeAddPadding` pads only where `BytesFree()` is not 0, and
  `BytesFree()` takes off the length field the last stream or message frame
  would need if padding followed it: such a packet may end that many bytes
  (one or two) short of its limit. The property states what the code does;
  the gap is listed as a hazard.
* `ProbeBesideOpenPacket` - the standalone probes leave the open packet as
  it was and are as long as the hard limit.
* `QueuedForOldAddress` - a change of the peer address, by
  `SetDefaultPeerAddress` or by either end of a `ScopedPeerAddressContext`,
  sends what was queued to the address it was queued for.
* `CoalescedFillsDatagram`, `CoalescingBorrowsPacket` - the second
  serialization of the INITIAL packet, under the header and the limit the
  packet was first serialized with. A header or a limit that changed in
  between makes the reserialization fail and leaves the saved packet's
  frames in `packet_` (hazards at lines 529 and 1189).
* `GuaranteedMessageIsSent` - a message no longer than
  `GetGuaranteedLargestMessagePayload()` is sent whatever is queued and
  whatever soft limit is in force.
* `FastPathAgreesWithQueue` - `CreateAndSerializeStreamFrame` is a second
  implementation of "one stream frame, one packet": it sizes the frame,
  decides whether the packet needs padding to the header-protection minimum
  (and, if so, gives the frame a length field), writes and encrypts without
  `AddFrame`, `MaybeAddPadding` or `SerializePacket`. In every reachable
  state in which `ConsumeData` may take it (`FastPathTaken`) the invariant
  makes the calls of its loop (`FastPathCalls`: more than a buffer holds at
  any offset, and remainders of 1 to `MinPlaintextPacketSize` bytes and of
  the writes of the run behind the bytes already sent) and compares the
  packet handed over and the members left behind with those of `QueuedPath`
  (the frame created, queued and flushed), and the bytes consumed with what
  the static `StreamFramePacketOverhead` promises (`PathsAgree`). `Mtu` is
  the run that varies the hard and the soft limit; the packet number length
  stays 1 in it, because a limit accepted against a 1 byte packet number
  may leave no room for a packet once the number is longer (hazard at line
  1778). The premise
  `PaddedAlike` names the three cases in which the code's two paths differ:
  pending padding, a PROBING_RETRANSMISSION, and a frame one byte short of
  the header-protection minimum. `FastPathIsQueuePath` is the same statement
  without that premise, and the run `FastPath` shows that it fails.
* `PacketizesLosslessly`, `QueuedFramesLeave`, `PendingPaddingLeaves` -
  sections 5 and 6.

### What the violations show

* **DoubleAck** - `FlushAckFrame` never consults `has_ack`; two calls before
  a flush put two ACK frames into one packet. The specification attributes
  "one ACK per packet" to the flag, which only the opportunistic bundling
  reads.
* **FastPath** - the specification asks that the fast path and the frame
  queue agree bit-for-bit. For a stream frame that is one byte short of
  `MinPlaintextPacketSize` as last frame of its packet (here: 3 bytes at
  offset 6), `CreateAndSerializeStreamFrame` gives the frame a length field,
  finds the minimum reached and adds no padding;
  `MaybeAddExtraPaddingForHeaderProtection` asks for
  `max(1 + expansion, minimum - frame) - expansion`, at least one byte of
  padding on top of the length field, and the queue's packet is one byte
  longer (22 against 21). Under a limit with room for the one and not for
  the other the queue refuses a frame the fast path sends. The same property
  fails behind `AddPendingPadding` (the fast path never drains it) and behind
  `SetTransmissionType(PROBING_RETRANSMISSION)` (the fast path never pads in
  full).
* **SoftLimitLatch** - a second `SetSoftMaxPacketLength` stores the first
  soft limit in the latch; removing the soft limit then "restores" it and the
  hard limit set by `SetMaxPacketLength` is gone.
* **TinyRoom** - `HasRoomForStreamFrame` and `GetSerializedFrameLength`
  disagree for a frame shorter than the header-protection minimum; behind a
  PING under the smallest soft limit `ConsumeData` hits the `QUIC_BUG` its
  comment calls impossible and returns `(0, false)`.
* **CoalescedType** - `AddFrame` sets `packet_.transmission_type` at its
  end, "determined by the last added retransmittable frame", and returns
  before that when `MaybeCoalesceStreamFrame` merged the data into the
  frame queued last. `ConsumeData`, `SetTransmissionType(LOSS_RETRANSMISSION)`
  and `ConsumeData` of the bytes that follow give a packet of type
  NOT_RETRANSMISSION whose last bytes are a retransmission; written as
  PROBING_RETRANSMISSION they would leave without the full padding of a
  probing packet. The session passes a transmission type with every write, so
  two types in one packet are ordinary.
* **ChloBehindAck** - `ConsumeData` bundles an ACK, then flushes in front
  of a handshake frame only if `HasPendingRetransmittableFrames()`: the ACK
  stays. `HasRoomForStreamFrame` finds room for the smallest frame behind
  it, `CreateStreamFrame` gives the client hello the bytes that are left,
  and the test of `ConsumeDataToFillCurrentPacket` closes the connection
  with `QUIC_CRYPTO_CHLO_TOO_LARGE` over a client hello (6 bytes behind an
  ACK of 5 in 18 bytes of plaintext) that fits a packet of its own. The
  specification gives the error to a client hello that "did not fit"; a
  client that acknowledges the server's rejection in the call that writes a
  client hello within an ACK frame's length of the limit meets it.

## 5. Refinement

`FrameLedger` has four variables: `unsent` (items accepted and not yet in a
packet), `wire` (items of the packets of the last call), `accepts` (what the
last call may have accepted, judging by what it returned) and `open`. Its
one step, `Packetize`, says `wire' \o unsent' = unsent \o items` for some
`items` in `accepts'`: what was waiting plus what was accepted is what left
plus what still waits, in that order. `Close` ends the promise.

`PacketCreator` instantiates it with

| Ledger | Creator |
|---|---|
| `unsent` | `ItemsOf(creator.retransmittable_frames)` |
| `wire` | `ItemsSent`, the items of the retransmittable frames of `emitted` |
| `accepts` | `Accepted(result)`: the bytes `ConsumeData` and `ConsumeCryptoData` returned as consumed at any offset of the run, the control frame or message reported as added, nothing for every other call |
| `open` | `connected` |

An item is one stream byte `<<type, id, offset>>`, the end of a stream, or a
control frame, so that coalescing two frames into one does not change the
items and a frame that is split, dropped, repeated or sent with a wrong
offset does. `PacketizesLosslessly == Ledger!Spec` is checked in `Stream`,
where writes are split over packets, coalesced, sent on the fast path and
interrupted by the delegate.

## 6. Fairness and liveness

The creator has no scheduler; a packet leaves because the connection calls.
Two things are assumed (`FairSpec`), both of the connection:

* `FlusherScopeEnds` - the flusher is a scoped object, its scope ends and
  its destructor calls `Flush`. This is weak fairness of `Flush`; it is
  written `[]<>~FlushEnabled \/ []<><<FlushEnds>>_vars` with the enabling
  condition spelled out (`Writing /\ MayEmit`: `Flush` has no early return
  and always detaches the flusher), because evaluating `ENABLED` of an
  action that runs the whole serializer is far more expensive for TLC than
  the state predicate it amounts to.
* `ConnectionKeepsWriting` - weak fairness of `AttachPacketFlusher`: while
  the connection is open it opens a scope for writing again.

Nothing is assumed of the delegate's answers: `Flush` serializes the open
packet without asking `ShouldGeneratePacket`, and `FlushCurrentPacket`
serializes a packet of padding alone. Under these assumptions
`QueuedFramesLeave` and `PendingPaddingLeaves` hold in `GquicClient`; without
`FlusherScopeEnds` the first fails (frames wait for ever in a scope that
never ends).

## 7. Bounds

| Bound | Value | Why it is enough |
|---|---|---|
| `MaxPacketNumber` | 2 | no call starts at or above it; a call that starts below may emit several packets, so packets 1 to 5 occur and every property about consecutive packets has its case |
| `MaxNesting` | 3 | flush, padding, flush: the deepest chain the code reaches in the runs; a padding frame that `AddFrame` refuses (hazard at line 1778) is what would go deeper |
| `MaxPendingPadding` | 8 | pending padding larger than one packet's free bytes carries over once |
| `MaxPeerAddressContexts` | 1 in `Paths`, 0 elsewhere | one scope around an explicit address change is the nesting the connection uses |
| `PacketNumberSpace` | 16 | stands for 2^64; a skip of 15 wraps from every number but 0, a skip of 1 does not |
| `GenerateAnswers` | 2, 3 or 5 sequences | the delegate refuses at the start, in the middle of a write, or never |
| `FastPathRemainders` | 1 to `MinPlaintextPacketSize`, `kMaxOutgoingPacketSize + 1` and the writes of the run | the last bytes of a write below, one short of and at the header-protection minimum (at an offset of one byte a frame of 3 bytes is one short of it), and a remainder that fills the packet; the offsets are those of the run and `kMaxOutgoingPacketSize` |
| `MaxPacketLengths` | 13 in `Stream`; 32 and 34 in `Mtu` | a limit below the header, where the unsigned room wraps, and limits that hold one and two frames; no run sets a limit above `kMaxOutgoingPacketSize` (hazard at line 581) |
| packet sizes | 30 to 56 bytes | a frame that fits, one that fills, one that must split, and one byte short of the header-protection minimum all occur |

All configurations set `CHECK_DEADLOCK FALSE`: the behaviour stops when the
connection is closed by an unrecoverable error or the packet number bound is
reached.

## 8. Not modelled

* Payload bytes, connection id values, retry token contents, the nonce
  value: lengths only. Encryption: the NullEncrypter's sizes and its buffer
  check.
* `debug_delegate_` callbacks, logging, `QUIC_DVLOG`.
* `LoadBalancerDecoder` (`load_balancer_decoder.cc`): a table of three
  configurations with add, delete and lookup, each a single sequential step
  with nothing running beside it; the decryption it delegates to is not in
  these sources.
* The QPACK round-trip harness: a sequential loop around an encoder and a
  decoder that are not in these sources.
* `QuicSession` (declarations only), `QuicSimpleClientSession` (a factory
  method), the Quartc fakes, platform shims and test peers: no behaviour of
  their own in these sources.
