--------------------------- MODULE PacketCreator ---------------------------
(***************************************************************************)
(* QuicPacketCreator (src/quic/core/quic_packet_creator.cc): the assembler *)
(* that turns stream data, crypto data, control frames and ACKs into       *)
(* serialized packets, and the serializer it flushes them through.         *)
(*                                                                         *)
(* The creator is single threaded and every public method runs to          *)
(* completion, so a public method is one action.  A method is written as   *)
(* an operator from the state it is called in to the state it returns in:  *)
(* a `call state' s holds the creator's members (packet_ flattened into    *)
(* them), the framer's encrypters, the delegate's answers for this call    *)
(* and what the call has handed to the delegate so far.                    *)
(***************************************************************************)
EXTENDS CoalescedPacket, SequencesExt

CONSTANTS
    ServerConnectionIdLength,   \* bytes of server_connection_id_
    StreamIds,                  \* streams the session writes on
    SendingStates,              \* the StreamSendingState values of the writes
    CryptoLengths,              \* lengths of the crypto writes
    WriteLengths,               \* write_length arguments of the session
    Offsets,                    \* stream and crypto offsets of the session
    AckSizes,                   \* encoded sizes of the ACK frames offered
    ControlFrameTypes,          \* control frames the session sends
    MessageLengths,             \* lengths of the messages the session sends
    PathFrames,                 \* path frames the connection adds
    MaxPacketLengths,           \* arguments of SetMaxPacketLength
    MtuTargets,                 \* target_mtu arguments of MTU discovery
    SoftLengths,                \* arguments of SetSoftMaxPacketLength
    PaddingSizes,               \* outcomes of RandUint64() % 256 + 1
    PendingPaddingSizes,        \* arguments of AddPendingPadding
    MaxPendingPadding,          \* bound: pending padding a call may add up to
    DatagramFrameSizes,         \* arguments of SetMaxDatagramFrameSize
    TransmissionTypes,          \* arguments of SetTransmissionType
    Levels,                     \* arguments of set_encryption_level
    EncrypterLevels,            \* levels SetEncrypter installs keys for
    SkipCounts,                 \* count arguments of SkipNPacketNumbers
    PacketsInFlight,            \* max_packets_in_flight arguments
    Fates,                      \* answers of GetSerializedPacketFate
    PeerAddresses,              \* arguments of SetDefaultPeerAddress
    MaxPeerAddressContexts,     \* bound: ScopedPeerAddressContexts alive
    ServerConnectionIdLengths,  \* lengths of the ids of SetServerConnectionId
    ClientConnectionIdLengths,  \* lengths of the ids of SetClientConnectionId
    RetryTokenLengths,          \* lengths of the tokens of SetRetryToken
    Probes,                     \* connectivity probes the connection sends
    ProbePayloads,              \* payloads a path response probe echoes
    kMaxAcceptedDatagramFrameSize, \* datagram frame limit of QUIC crypto
    EnforceSinglePacketChlo,    \* FLAGS_quic_enforce_single_packet_chlo
    KeysBeforeLevel,            \* the connection switches to keyed levels only
    IdsBetweenPackets,          \* ... and sets ids and token on an empty queue
    LevelBetweenPackets,        \* ... and changes the level on an empty queue
    GenerateAnswers,            \* answers to ShouldGeneratePacket in one call
    PacketNumberSpace,          \* 2^64, the range of a packet number
    MaxNesting,                 \* bound: FlushCurrentPacket frames on the stack
    MaxPacketNumber             \* bound: no call starts beyond this number

ASSUME /\ ServerConnectionIdLength \in Nat
       /\ StreamIds \subseteq Nat /\ WriteLengths \subseteq Nat
       /\ Offsets \subseteq Nat /\ AckSizes \subseteq Nat \ {0}
       /\ MtuTargets \subseteq Nat /\ SoftLengths \subseteq Nat
       /\ PaddingSizes \subseteq Nat \ {0}
       /\ PendingPaddingSizes \subseteq Nat \ {0}
       /\ ControlFrameTypes \subseteq RetransmittableControlFrames
       /\ PathFrames \subseteq {"PATH_CHALLENGE_FRAME", "PATH_RESPONSE_FRAME"}
       /\ MessageLengths \subseteq Nat /\ MaxPacketLengths \subseteq Nat
       /\ Levels \subseteq EncryptionLevels
       /\ EncrypterLevels \subseteq EncryptionLevels
       /\ SkipCounts \subseteq Nat /\ PacketsInFlight \subseteq Nat
       /\ kMaxAcceptedDatagramFrameSize \in Nat
       /\ MaxPendingPadding \in Nat /\ DatagramFrameSizes \subseteq Nat
       /\ EnforceSinglePacketChlo \in BOOLEAN /\ KeysBeforeLevel \in BOOLEAN
       /\ IdsBetweenPackets \in BOOLEAN /\ LevelBetweenPackets \in BOOLEAN
       /\ \A gen \in GenerateAnswers : gen \in Seq(BOOLEAN)
       /\ MaxPacketNumber \in Nat /\ CryptoLengths \subseteq Nat \ {0}
       /\ SendingStates \subseteq {"NO_FIN", "FIN", "FIN_AND_PADDING"}
       /\ MaxNesting \in Nat \ {0} /\ PacketNumberSpace \in Nat \ {0}
       /\ Probes \subseteq {"PING", "PATH_CHALLENGE"}
       /\ ProbePayloads \subseteq Nat \ {0}
       /\ MaxPeerAddressContexts \in Nat
       /\ ServerConnectionIdLengths \subseteq Nat
       /\ RetryTokenLengths \subseteq Nat
       /\ ClientConnectionIdLengths \subseteq Nat

VARIABLES
    creator,     \* the members of QuicPacketCreator, packet_ included
    encrypters,  \* the encryption levels the framer has an encrypter for
    emitted,     \* packets the last call passed to OnSerializedPacket
    errors,      \* codes the last call passed to OnUnrecoverableError
    bugs,        \* QUIC_BUG sites the last call ran into
    result,      \* what the last call returned
    coalesced,   \* the connection's QuicCoalescedPacket
    contexts,    \* old_peer_address_ of the ScopedPeerAddressContexts alive
    connected    \* FALSE once the delegate was told of an unrecoverable error

vars == <<creator, encrypters, emitted, errors, bugs, result, coalesced,
          contexts, connected>>

NoAddress == "none"
StreamSendingStates == {"NO_FIN", "FIN", "FIN_AND_PADDING"}

\* The members the constructor initialises (and packet_'s own).
CreatorMembers ==
    {"send_version_in_packet", "have_diversification_nonce",
     "max_packet_length", "max_plaintext_size",
     "server_connection_id_included", "queued_frames", "packet_size",
     "server_connection_id", "client_connection_id", "retry_token",
     "packet_number", "packet_number_length", "encryption_level",
     "has_ack", "has_stop_waiting", "has_crypto_handshake",
     "has_ack_frequency", "has_message", "transmission_type", "fate",
     "encrypted_length", "retransmittable_frames",
     "nonretransmittable_frames", "peer_address",
     "pending_padding_bytes", "needs_full_padding",
     "next_transmission_type", "flusher_attached",
     "fully_pad_crypto_handshake_packets",
     "latched_hard_max_packet_length", "max_datagram_frame_size"}

----------------------------------------------------------------------------
(* The call state.                                                         *)

\* What the delegate and the random source answer during one call: `gen'
\* are the answers to ShouldGeneratePacket in the order asked (FALSE once
\* they run out), `fate' the answer to GetSerializedPacketFate, `ack' the
\* frames MaybeBundleAckOpportunistically returns, `rand' the padding
\* drawn by AddRandomPadding.
AckAnswers ==
    {<<>>} \cup {<<AckFrame(n)>> : n \in AckSizes}
    \cup (IF Version.ietf_frames THEN {}
          ELSE {<<AckFrame(n), ControlFrame("STOP_WAITING_FRAME")>> :
                   n \in AckSizes})

DelegateAnswers ==
    [gen : GenerateAnswers, fate : Fates,
     ack : AckAnswers, rand : PaddingSizes]

\* A call on the current state under the answers d.
Call(d) ==
    [f \in CreatorMembers |-> creator[f]] @@
    [enc |-> encrypters, gen |-> d.gen, fate_answer |-> d.fate,
     ack |-> d.ack, rand |-> d.rand, coalesced |-> coalesced,
     out |-> <<>>, err |-> <<>>, bug |-> {}, ok |-> TRUE,
     frame |-> ControlFrame("PING_FRAME"), built |-> 0, depth |-> 0,
     ret |-> TRUE]

\* Some call that never consults the delegate.
PlainCall == Call(CHOOSE d \in DelegateAnswers : TRUE)

\* What a call leaves behind: the members, and what it handed over.
Handed(s, ret, open) ==
    /\ creator' = [f \in CreatorMembers |-> s[f]]
    /\ emitted' = s.out
    /\ errors'  = s.err
    /\ bugs'    = s.bug
    /\ result'  = ret
    /\ coalesced' = s.coalesced
    /\ connected' = open

\* The call returns `ret' to the connection, which stays open or not.
Returned(s, ret, open) ==
    /\ Handed(s, ret, open)
    /\ UNCHANGED <<encrypters, contexts>>

\* An unrecoverable error closes the connection.
Return(s, ret) == Returned(s, ret, s.err = <<>>)

Ok(s, b)       == [s EXCEPT !.ok = b]
Ret(s, value)  == [s EXCEPT !.ret = value]
Bug(s, site)   == [s EXCEPT !.bug = @ \cup {site}]
\* QUIC_BUG_IF(condition).
BugIf(s, condition, site) == IF condition THEN Bug(s, site) ELSE s
\* QUIC_BUG_IF(!success).
BugUnlessOk(s, site) == IF s.ok THEN s ELSE Bug(s, site)
\* delegate_->OnUnrecoverableError.
OnUnrecoverableError(s, code) == [s EXCEPT !.err = Append(@, code)]

\* delegate_->ShouldGeneratePacket: the answer is left in s.ok.
ShouldGeneratePacket(s) ==
    IF s.gen = <<>> THEN Ok(s, FALSE)
    ELSE [s EXCEPT !.ok = Head(s.gen), !.gen = Tail(s.gen)]

----------------------------------------------------------------------------
(* Header and size accessors.                                              *)

HasPendingFrames(s)                == s.queued_frames # <<>>
HasPendingRetransmittableFrames(s) == s.retransmittable_frames # <<>>
CanSetMaxPacketLength(s)           == s.queued_frames = <<>>
HasSoftMaxPacketLength(s)          == s.latched_hard_max_packet_length # 0

\* QuicFramer::GetMaxPlaintextSize: the smallest plaintext any installed
\* encrypter leaves of `length' bytes of ciphertext.
GetMaxPlaintextSize(s, length) ==
    IF s.enc = {} THEN length ELSE EncrypterMaxPlaintextSize(length)

NextSendingPacketNumber(s) ==
    IF s.packet_number = 0 THEN 1 ELSE s.packet_number + 1

HasIetfLongHeader(s) ==
    Version.ietf_header /\ s.encryption_level < ENCRYPTION_FORWARD_SECURE

IncludeNonceInPublicHeader(s) ==
    s.have_diversification_nonce /\ s.encryption_level = ENCRYPTION_ZERO_RTT

IncludeVersionInHeader(s) ==
    IF Version.ietf_header
    THEN s.encryption_level < ENCRYPTION_FORWARD_SECURE
    ELSE s.send_version_in_packet

GetDestinationConnectionIdLength(s) ==
    IF Perspective = "IS_CLIENT" \/ Version.client_cids
    THEN (IF Perspective = "IS_SERVER" THEN s.client_connection_id
                                       ELSE s.server_connection_id)
    ELSE 0

GetSourceConnectionIdIncluded(s) ==
    CASE HasIetfLongHeader(s)
         /\ (Perspective = "IS_SERVER" \/ Version.client_cids) -> TRUE
      [] Perspective = "IS_SERVER" -> s.server_connection_id_included
      [] OTHER -> FALSE

GetSourceConnectionIdLength(s) ==
    IF GetSourceConnectionIdIncluded(s)
    THEN (IF Perspective = "IS_CLIENT" THEN s.client_connection_id
                                       ELSE s.server_connection_id)
    ELSE 0

GetPacketNumberLength(s) ==
    IF HasIetfLongHeader(s) /\ ~Version.var_pn_long
    THEN 4 ELSE s.packet_number_length

\* The long header of an INITIAL packet carries the retry token.
SendsRetryToken(s) ==
    /\ QuicVersionHasLongHeaderLengths
    /\ HasIetfLongHeader(s)
    /\ s.encryption_level = ENCRYPTION_INITIAL

GetRetryToken(s) == IF SendsRetryToken(s) THEN s.retry_token ELSE 0

GetRetryTokenLengthLength(s) ==
    IF SendsRetryToken(s) THEN VarInt62Len(GetRetryToken(s)) ELSE 0

GetLengthLength(s) ==
    IF QuicVersionHasLongHeaderLengths /\ HasIetfLongHeader(s) THEN 2 ELSE 0

PacketHeaderSize(s) ==
    GetPacketHeaderSize(GetDestinationConnectionIdLength(s),
                        GetSourceConnectionIdLength(s),
                        IncludeVersionInHeader(s),
                        IncludeNonceInPublicHeader(s),
                        GetPacketNumberLength(s),
                        GetRetryTokenLengthLength(s), GetRetryToken(s),
                        GetLengthLength(s))

\* 7 bytes of plaintext give header protection its 16 byte sample even
\* with the 12 byte tags of the test crypters.
MinPlaintextPacketSize == IF Version.header_protection THEN 7 ELSE 0

PacketSize(s) ==
    IF s.queued_frames = <<>> THEN PacketHeaderSize(s) ELSE s.packet_size

\* What the frame grows by once it is no longer the last of its packet:
\* its length field becomes explicit.
ExpansionOnNewFrameWithLastFrame(last_frame) ==
    CASE last_frame.type = "MESSAGE_FRAME" -> VarInt62Len(last_frame.len)
      [] last_frame.type # "STREAM_FRAME"  -> 0
      [] Version.ietf_frames               -> VarInt62Len(last_frame.len)
      [] OTHER                             -> kQuicStreamPayloadLengthSize

ExpansionOnNewFrame(s) ==
    IF s.queued_frames = <<>> THEN 0
    ELSE ExpansionOnNewFrameWithLastFrame(Last(s.queued_frames))

\* BytesFree that forgets the expansion of the last frame.
BytesFreeNoExpansion(s) ==
    s.max_plaintext_size - Min({s.max_plaintext_size, PacketSize(s)})


BytesFree(s) ==
    s.max_plaintext_size
    - Min({s.max_plaintext_size, PacketSize(s) + ExpansionOnNewFrame(s)})

----------------------------------------------------------------------------
(* The packet being built.                                                 *)

SetMaxPacketLength(s, length) ==
    IF length = s.max_packet_length THEN s
    ELSE LET t == [s EXCEPT !.max_packet_length = length,
                            !.max_plaintext_size = GetMaxPlaintextSize(s, length)]
             room == t.max_plaintext_size - PacketHeaderSize(t)
         IN  \* the subtraction is unsigned: no report once it wraps
             IF room >= 0 /\ room < MinPlaintextPacketSize
             THEN Bug(t, "Attempted to set max packet length too small")
             ELSE t

\* The soft limit is forgotten and stays in force.
ForgetSoftMaxPacketLength(s) ==
    IF ~HasSoftMaxPacketLength(s) \/ ~CanSetMaxPacketLength(s)
    THEN Ok(s, FALSE)
    ELSE Ok([s EXCEPT !.latched_hard_max_packet_length = 0], TRUE)

\* Back to the hard limit, if a soft one is set and no frame is queued.
RemoveSoftMaxPacketLength(s) ==
    IF ~HasSoftMaxPacketLength(s) \/ ~CanSetMaxPacketLength(s)
    THEN Ok(s, FALSE)
    ELSE Ok([SetMaxPacketLength(s, s.latched_hard_max_packet_length)
                EXCEPT !.latched_hard_max_packet_length = 0], TRUE)

\* GetSerializedFrameLength once the framer has said what the frame takes.
\* Under header protection a frame that leaves the packet short of
\* MinPlaintextPacketSize must also leave room for the padding that will
\* make it up.
ReservedFrameLength(s, frame, serialized_frame_length) ==
    LET frame_bytes == PacketSize(s) - PacketHeaderSize(s)
                       + ExpansionOnNewFrame(s) + serialized_frame_length
        bytes_free  == BytesFree(s) - serialized_frame_length
        extra_bytes_needed ==
            Max({1 + ExpansionOnNewFrameWithLastFrame(frame),
                 MinPlaintextPacketSize - frame_bytes})
    IN  CASE ~Version.header_protection \/ serialized_frame_length = 0
               -> serialized_frame_length
          [] frame_bytes >= MinPlaintextPacketSize -> serialized_frame_length
          [] BytesFree(s) < serialized_frame_length -> 0
          [] bytes_free < extra_bytes_needed       -> 0
          [] OTHER                                 -> serialized_frame_length

FramerFrameLength(s, frame) ==
    FramerSerializedFrameLength(frame, BytesFree(s), s.queued_frames = <<>>,
                                TRUE, GetPacketNumberLength(s))

\* The bytes `frame' takes as the last frame of the open packet, 0 when it
\* does not fit.
GetSerializedFrameLength(s, frame) ==
    ReservedFrameLength(s, frame, FramerFrameLength(s, frame))

\* The framer gave a frame that needs padding behind it more than the packet
\* has free.
ShortFrameOverflows(s, serialized_frame_length) ==
    /\ Version.header_protection
    /\ serialized_frame_length # 0
    /\ BytesFree(s) < serialized_frame_length
    /\ PacketSize(s) - PacketHeaderSize(s) + ExpansionOnNewFrame(s)
           + serialized_frame_length < MinPlaintextPacketSize

\* The QUIC_BUG of GetSerializedFrameLength.
FrameDoesNotFit(s, frame) ==
    ShortFrameOverflows(s, FramerFrameLength(s, frame))

\* The state GetSerializedFrameLength leaves behind.
SizedFrame(s, frame) ==
    BugIf(s, FrameDoesNotFit(s, frame), "Frame does not fit")

\* Stream data is let through at every level.
AnyLevelSendsStreamData(s) == FALSE

\* Stream data may only leave at ZERO_RTT or FORWARD_SECURE.
SendsStreamDataUnencrypted(s) ==
    s.encryption_level \notin {ENCRYPTION_ZERO_RTT, ENCRYPTION_FORWARD_SECURE}

AttemptingToSendUnencryptedStreamData(s) ==
    IF SendsStreamDataUnencrypted(s)
    THEN Ok(OnUnrecoverableError(
                Bug(s, "Cannot send stream data with level"),
                "QUIC_ATTEMPT_TO_SEND_UNENCRYPTED_STREAM_DATA"), TRUE)
    ELSE Ok(s, FALSE)

\* `frame' continues the stream frame at the back of the queue.
CanCoalesceStreamFrame(s, frame) ==
    /\ s.queued_frames # <<>>
    /\ LET candidate == Last(s.queued_frames)
       IN  /\ candidate.type = "STREAM_FRAME"
           /\ candidate.id = frame.id
           /\ candidate.offset + candidate.len = frame.offset
           /\ frame.len <= BytesFree(s)

\* Coalescing that extends packet_size_ but not the frame.
MaybeCoalesceFinOnly(s, frame) ==
    [s EXCEPT !.queued_frames[Len(s.queued_frames)].fin = frame.fin,
              !.retransmittable_frames[Len(s.retransmittable_frames)].fin =
                  frame.fin,
              !.packet_size = @ + frame.len]


MaybeCoalesceStreamFrame(s, frame) ==
    LET candidate == [Last(s.queued_frames) EXCEPT !.len = @ + frame.len,
                                                   !.fin = frame.fin]
        n == Len(s.retransmittable_frames)
    IN  [s EXCEPT !.queued_frames = Append(Front(@), candidate),
                  !.retransmittable_frames[n].len = candidate.len,
                  !.retransmittable_frames[n].fin = candidate.fin,
                  !.packet_size = @ + frame.len]

\* QueueFrame without the expansion of the frame that was last.
QueueFrameNoExpansion(s, frame, frame_len, transmission_type) ==
    LET retransmittable == IsRetransmittableFrame(frame.type)
    IN  [s EXCEPT
           !.packet_size = PacketSize(s) + frame_len,
           !.queued_frames = Append(@, frame),
           !.retransmittable_frames =
               IF retransmittable THEN Append(@, frame) ELSE @,
           !.nonretransmittable_frames =
               IF retransmittable THEN @ ELSE Append(@, frame),
           !.has_ack = @ \/ frame.type = "ACK_FRAME"]

\* AddFrame once the frame is known to fit in frame_len bytes.
QueueFrame(s, frame, frame_len, transmission_type) ==
    LET retransmittable == IsRetransmittableFrame(frame.type)
        saved == IF frame.type = "PADDING_FRAME" /\ frame.len = -1
                 THEN PaddingFrame(frame_len) ELSE frame
    IN  [s EXCEPT
           !.packet_size = PacketSize(s) + ExpansionOnNewFrame(s) + frame_len,
           !.queued_frames = Append(@, frame),
           !.retransmittable_frames =
               IF retransmittable THEN Append(@, frame) ELSE @,
           !.nonretransmittable_frames =
               IF retransmittable THEN @ ELSE Append(@, saved),
           !.has_crypto_handshake =
               @ \/ (retransmittable /\ IsHandshakeFrame(frame)),
           !.has_ack           = @ \/ frame.type = "ACK_FRAME",
           !.has_stop_waiting  = @ \/ frame.type = "STOP_WAITING_FRAME",
           !.has_ack_frequency = @ \/ frame.type = "ACK_FREQUENCY_FRAME",
           !.has_message       = @ \/ frame.type = "MESSAGE_FRAME",
           !.transmission_type =
               IF retransmittable THEN transmission_type ELSE @]

ClearPacket(s) ==
    [s EXCEPT !.has_ack = FALSE, !.has_stop_waiting = FALSE,
              !.has_crypto_handshake = FALSE,
              !.transmission_type = "NOT_RETRANSMISSION",
              !.encrypted_length = 0, !.has_ack_frequency = FALSE,
              !.has_message = FALSE, !.fate = "SEND_TO_WRITER",
              !.needs_full_padding = FALSE]

\* What the delegate receives: packet_ as it is moved out, with the frame
\* bytes that were encrypted and the limit in force when it was built.
SerializedPacket(s) ==
    [packet_number             |-> s.packet_number,
     packet_number_length      |-> s.packet_number_length,
     encryption_level          |-> s.encryption_level,
     encrypted_length          |-> s.encrypted_length,
     retransmittable_frames    |-> s.retransmittable_frames,
     nonretransmittable_frames |-> s.nonretransmittable_frames,
     has_ack                   |-> s.has_ack,
     has_crypto_handshake      |-> s.has_crypto_handshake,
     transmission_type         |-> s.transmission_type,
     fate                      |-> s.fate,
     peer_address              |-> s.peer_address,
     frame_bytes               |-> s.built,
     max_packet_length         |-> s.max_packet_length]

\* delegate_->OnSerializedPacket: the connection takes the packet, and
\* keeps one whose fate is COALESCE for the datagram it is filling.
DelegateOnSerializedPacket(s, packet) ==
    [s EXCEPT !.out = Append(@, packet),
              !.coalesced =
                  IF packet.fate = "COALESCE"
                  THEN MaybeCoalescePacket(@, packet, s.max_packet_length)
                  ELSE @]

\* OnSerializedPacket that leaves the frame lists in packet_.
OnSerializedPacketKeepingFrames(s) ==
    DelegateOnSerializedPacket(RemoveSoftMaxPacketLength(ClearPacket(s)),
                               SerializedPacket(s))


OnSerializedPacket(s) ==
    LET reported == IF s.encrypted_length = 0
                    THEN Bug(s, "packet_.encrypted_buffer == nullptr") ELSE s
        moved == [reported EXCEPT !.retransmittable_frames = <<>>,
                                  !.nonretransmittable_frames = <<>>]
    IN  DelegateOnSerializedPacket(
            RemoveSoftMaxPacketLength(ClearPacket(moved)), SerializedPacket(s))

\* FillPacketHeader that reuses the packet number.
FillPacketHeaderSameNumber(s) == s

\* Advances the packet number; every other header field is read from the
\* creator when the header is written.
FillPacketHeader(s) ==
    [s EXCEPT !.packet_number = NextSendingPacketNumber(s)]

\* No padding for header protection.
NoExtraPaddingForHeaderProtection(s) == s

\* A short packet borrows pending padding up to MinPlaintextPacketSize.
MaybeAddExtraPaddingForHeaderProtection(s) ==
    LET frame_bytes == PacketSize(s) - PacketHeaderSize(s)
        min_header_protection_padding ==
            Max({1 + ExpansionOnNewFrame(s),
                 MinPlaintextPacketSize - frame_bytes})
            - ExpansionOnNewFrame(s)
    IN  IF \/ ~Version.header_protection \/ s.needs_full_padding
           \/ frame_bytes >= MinPlaintextPacketSize
        THEN s
        ELSE [s EXCEPT !.pending_padding_bytes =
                           Max({@, min_header_protection_padding})]

\* static_cast<int16_t>.
Int16(n) ==
    LET m == n % 65536 IN IF m >= 32768 THEN m - 65536 ELSE m

\* The header and the queued frames as the codec writes them: only the last
\* frame omits its length.
WrittenLength(s) ==
    LET n == Len(s.queued_frames)
        FrameLength(i) ==
            LET frame == s.queued_frames[i]
            IN  IF frame.type = "PADDING_FRAME" THEN Max({frame.len, 0})
                ELSE ComputeFrameLength(frame, i = n, GetPacketNumberLength(s))
    IN  PacketHeaderSize(s)
        + FoldFunction(+, 0, [i \in 1..n |-> FrameLength(i)])

\* QuicFramer::BuildDataPacket into a buffer of packet_size_ bytes: the
\* plaintext length, 0 when the frames do not fit.  Full padding takes
\* what is left; an ACK that is alone is truncated to fit.
BuildDataPacket(s) ==
    LET written  == WrittenLength(s)
        filled   == PaddingFrame(-1) \in Range(s.queued_frames)
        lone_ack == Len(s.queued_frames) = 1
                    /\ s.queued_frames[1].type = "ACK_FRAME"
    IN  CASE written <= s.packet_size /\ filled -> s.packet_size
          [] written <= s.packet_size           -> written
          [] lone_ack /\ PacketHeaderSize(s) + kMinAckFrameSize <= s.packet_size
                                                -> s.packet_size
          [] OTHER                              -> 0

\* QuicFramer::EncryptInPlace: the header is associated data, the rest is
\* sealed by the encrypter of the packet's level.
EncryptInPlace(s, length, buffer_len) ==
    LET ad_len == PacketHeaderSize(s)
        sealed == EncryptPacket(length - ad_len, buffer_len - ad_len)
    IN  IF s.encryption_level \notin s.enc \/ length < ad_len \/ sealed = 0
        THEN 0 ELSE ad_len + sealed

\* A failure handler that clears the queue and tells nobody.
SerializationFailedSilently(s, site) ==
    Ok(Bug(Bug([s EXCEPT !.queued_frames = <<>>], site),
           "Failed to SerializePacket."), FALSE)

\* ~ScopedSerializationFailureHandler on a failed serialization.
SerializationFailed(s, site) ==
    Ok(OnUnrecoverableError(
           Bug(Bug([s EXCEPT !.queued_frames = <<>>], site),
               "Failed to SerializePacket."),
           "QUIC_FAILED_TO_SERIALIZE_PACKET"), FALSE)

\* PaddingBytes without the bound of the room that is left.
PaddingBytesUnbounded(s) == Int16(BytesFree(s))

\* The pending padding the open packet has room for.
PaddingBytes(s) ==
    Min({Int16(s.pending_padding_bytes), Int16(BytesFree(s))})

RECURSIVE AddFrame(_, _, _)
RECURSIVE FlushCurrentPacket(_)
RECURSIVE SerializePacket(_, _)
RECURSIVE MaybeAddPadding(_)

\* The padding frame is added like any other frame.
AddPaddingFrame(s) ==
    AddFrame(IF s.needs_full_padding THEN s
             ELSE [s EXCEPT !.pending_padding_bytes = @ - PaddingBytes(s)],
             PaddingFrame(IF s.needs_full_padding THEN -1
                          ELSE PaddingBytes(s)),
             s.transmission_type)

\* MaybeAddPadding once the fate of the packet has settled whether it is
\* padded in full and header protection has claimed its bytes.
AddNeededPadding(s) ==
    IF ~s.needs_full_padding /\ s.pending_padding_bytes = 0 THEN s
    ELSE BugUnlessOk(AddPaddingFrame(s), "Failed to add padding_bytes")

\* The packet is padded: in full if it probes and is neither coalesced nor
\* encapsulated, to the header protection minimum, by what is pending.
AddPaddingToPacket(s) ==
    AddNeededPadding(
        MaybeAddExtraPaddingForHeaderProtection(
            [s EXCEPT !.needs_full_padding =
                IF s.fate \in {"COALESCE", "LEGACY_VERSION_ENCAPSULATE"}
                THEN FALSE
                ELSE @ \/ s.transmission_type = "PROBING_RETRANSMISSION"]))

\* MaybeAddPadding without its return from a packet that is full.
MaybeAddPaddingToFullPacket(s) == AddPaddingToPacket(s)

\* Padding is added only here, just before the packet is serialized.
MaybeAddPadding(s) ==
    IF BytesFree(s) = 0 THEN s ELSE AddPaddingToPacket(s)

\* The packet of `length' plaintext bytes is sealed into the buffer and
\* leaves the frame queue.
EncryptBuiltPacket(s, length, encrypted_buffer_len) ==
    LET encrypted_length == EncryptInPlace(s, length, encrypted_buffer_len)
    IN  CASE s.encryption_level \notin s.enc ->
               SerializationFailed(s, "missing encryption_level")
          [] length = 0 ->
               SerializationFailed(s, "Failed to serialize")
          [] encrypted_length = 0 ->
               SerializationFailed(s, "Failed to encrypt packet number")
          [] OTHER ->
               Ok([s EXCEPT !.packet_size = 0,
                            !.encrypted_length = encrypted_length,
                            !.built = length - PacketHeaderSize(s),
                            !.queued_frames = <<>>], TRUE)

\* The padded frames are written behind the header and encrypted.
BuildAndEncrypt(s, encrypted_buffer_len) ==
    EncryptBuiltPacket(s, BuildDataPacket(s), encrypted_buffer_len)

SerializePacket(s, encrypted_buffer_len) ==
    IF s.encrypted_length # 0
    THEN Ok(OnUnrecoverableError(
                Bug(s, "Packet's encrypted buffer is not empty"),
                "QUIC_FAILED_TO_SERIALIZE_PACKET"), FALSE)
    ELSE BuildAndEncrypt(
             MaybeAddPadding(
                 [FillPacketHeader(
                      IF s.queued_frames = <<>> /\ s.pending_padding_bytes = 0
                      THEN Bug(s, "Attempt to serialize empty packet")
                      ELSE s)
                     EXCEPT !.fate = s.fate_answer]),
             encrypted_buffer_len)

\* What was serialized goes to the delegate; a failure has been reported.
DeliverSerializedPacket(s) ==
    IF s.ok THEN OnSerializedPacket(s) ELSE s

\* FlushCurrentPacket that returns when no frame is queued, pending padding
\* or not.
FlushCurrentPacketIfFrames(s) ==
    CASE ~HasPendingFrames(s) -> s
      [] s.depth >= MaxNesting -> Bug(s, "FlushCurrentPacket re-entered")
      [] OTHER ->
           [DeliverSerializedPacket(
                SerializePacket([s EXCEPT !.depth = @ + 1],
                                kMaxOutgoingPacketSize))
               EXCEPT !.depth = s.depth]

FlushCurrentPacket(s) ==
    CASE ~HasPendingFrames(s) /\ s.pending_padding_bytes = 0 -> s
      [] s.depth >= MaxNesting -> Bug(s, "FlushCurrentPacket re-entered")
      [] OTHER ->
           [DeliverSerializedPacket(
                SerializePacket([s EXCEPT !.depth = @ + 1],
                                kMaxOutgoingPacketSize))
               EXCEPT !.depth = s.depth]

\* AddFrame once the frame has its length: a frame that fits nowhere in
\* the open packet closes it.
QueueOrFlush(s, frame, frame_len, transmission_type) ==
    IF frame_len = 0 THEN Ok(FlushCurrentPacket(s), FALSE)
    ELSE Ok(QueueFrame(s, frame, frame_len, transmission_type), TRUE)

\* The frame is sized again once the soft limit has been tried: it takes
\* what GetSerializedFrameLength gives it of the open packet.
AddFrameUnderLimit(s, frame, transmission_type) ==
    QueueOrFlush(SizedFrame(s, frame), frame,
                 GetSerializedFrameLength(s, frame), transmission_type)

\* AddFrame behind the first GetSerializedFrameLength: a frame without a
\* length is sized once more, with the soft limit out of the way.
AddSizedFrame(s, frame, frame_len, transmission_type) ==
    IF frame_len # 0
    THEN QueueOrFlush(s, frame, frame_len, transmission_type)
    ELSE AddFrameUnderLimit(RemoveSoftMaxPacketLength(SizedFrame(s, frame)),
                            frame, transmission_type)

AddFrame(s, frame, transmission_type) ==
    CASE /\ frame.type = "STREAM_FRAME" /\ ~IsCryptoStreamId(frame.id)
         /\ SendsStreamDataUnencrypted(s)
           -> Ok(AttemptingToSendUnencryptedStreamData(s), FALSE)
      [] frame.type = "STREAM_FRAME" /\ CanCoalesceStreamFrame(s, frame)
           -> Ok(MaybeCoalesceStreamFrame(s, frame), TRUE)
      [] OTHER
           -> AddSizedFrame(s, frame, GetSerializedFrameLength(s, frame),
                            transmission_type)

----------------------------------------------------------------------------
(* ACKs.                                                                   *)

\* QUIC_BUG_IF(!flusher_attached_).
FlusherAttached(s, site) == BugIf(s, ~s.flusher_attached, site)

\* A frame joins the frames that are queued, if any are and it fits; the
\* result is in s.ok.
AddBehindQueued(s, frame) ==
    IF HasPendingFrames(s)
    THEN AddFrame(s, frame, s.next_transmission_type)
    ELSE Ok(s, FALSE)

RECURSIVE FlushAckFrame(_, _)

\* The first frame starts a packet of its own, if the delegate lets it.
FlushAckFrameAlone(asked, frames) ==
    IF asked.ok
    THEN FlushAckFrame(
             BugUnlessOk(AddFrame(asked, Head(frames),
                                  asked.next_transmission_type),
                         "Failed to flush ACK"),
             Tail(frames))
    ELSE asked

\* The first frame was tried behind the queued ones.
FlushAckFrameBehind(behind, frames) ==
    IF behind.ok THEN FlushAckFrame(behind, Tail(frames))
    ELSE FlushAckFrameAlone(ShouldGeneratePacket(behind), frames)

\* Queues the frames in order; the result is in s.ok.
FlushAckFrame(s, frames) ==
    IF frames = <<>>
    THEN Ok(FlusherAttached(s, "flusher not attached: ACK frame"), TRUE)
    ELSE FlushAckFrameBehind(
             AddBehindQueued(
                 FlusherAttached(s, "flusher not attached: ACK frame"),
                 Head(frames)),
             frames)

\* The ACK frames the delegate has ready are queued, if it lets a packet go.
BundleAckFrames(asked) ==
    IF asked.ok
    THEN BugUnlessOk(FlushAckFrame(asked, asked.ack),
                     "Failed to flush ACK frame.")
    ELSE asked

MaybeBundleAckOpportunistically(s) ==
    IF s.has_ack THEN s ELSE BundleAckFrames(ShouldGeneratePacket(s))

----------------------------------------------------------------------------
(* Stream data.                                                            *)

\* A soft limit in the way of `needed' bytes has been removed, or there
\* was none to remove: the result is in s.ok.
RoomUnderHardLimit(hard, needed) ==
    IF hard.ok THEN Ok(hard, BytesFree(hard) >= needed) ELSE hard

\* The result is in s.ok; a soft limit in the way is removed.
HasRoomForStreamFrame(s, id, offset, data_size) ==
    IF BytesFree(s) > GetMinStreamFrameSize(id, offset, TRUE, data_size)
    THEN Ok(s, TRUE)
    ELSE RoomUnderHardLimit(
             RemoveSoftMaxPacketLength(s),
             GetMinStreamFrameSize(id, offset, TRUE, data_size) + 1)

\* The frame, in s.frame, takes what is free behind its own header.
FillStreamFrame(s, id, data_size, offset, fin) ==
    LET bytes_consumed ==
            Min({BytesFree(s)
                   - GetMinStreamFrameSize(id, offset, TRUE, data_size),
                 data_size})
    IN  [(IF data_size = 0 /\ ~fin
          THEN Bug(s, "stream frame with no data or fin") ELSE s)
            EXCEPT !.frame = StreamFrame(id, fin /\ bytes_consumed = data_size,
                                         offset, bytes_consumed)]

\* The bytes of a packet that are not stream data when one stream frame
\* fills it (the frame has no length field, and no retry token is counted).
StreamFramePacketOverhead(destination_connection_id_length, source_connection_id_length, include_version, include_diversification_nonce, packet_number_length, retry_token_length_length, length_length, offset) ==
    GetPacketHeaderSize(destination_connection_id_length,
                        source_connection_id_length, include_version,
                        include_diversification_nonce, packet_number_length,
                        retry_token_length_length, 0, length_length)
    + GetMinStreamFrameSize(1, offset, TRUE, kMaxOutgoingPacketSize)

CreateStreamFrame(s, id, data_size, offset, fin) ==
    FillStreamFrame(
        BugUnlessOk(HasRoomForStreamFrame(s, id, offset, data_size),
                    "No room for Stream frame"),
        id, data_size, offset, fin)

StreamFrameIsClientHello(s, frame) ==
    /\ Perspective # "IS_SERVER"
    /\ IsCryptoStreamId(frame.id)
    /\ s.encryption_level = ENCRYPTION_INITIAL

\* A frame that was added may ask for its packet to be padded in full.
NeedsFullPadding(added, needs_full_padding) ==
    IF added.ok
    THEN [added EXCEPT !.needs_full_padding = @ \/ needs_full_padding]
    ELSE added

\* The frame in s.frame is added, a client hello cut short like any other.
AddCreatedStreamFrameUnchecked(s, data_size, needs_full_padding, transmission_type) ==
    NeedsFullPadding(AddFrame(s, s.frame, transmission_type),
                     needs_full_padding)

\* The frame in s.frame is added, unless it is a client hello cut short.
AddCreatedStreamFrame(s, data_size, needs_full_padding, transmission_type) ==
    IF /\ EnforceSinglePacketChlo
       /\ StreamFrameIsClientHello(s, s.frame)
       /\ s.frame.len < data_size
    THEN Ok(OnUnrecoverableError(
                Bug(s, "Client hello won't fit in a single packet."),
                "QUIC_CRYPTO_CHLO_TOO_LARGE"), FALSE)
    ELSE NeedsFullPadding(AddFrame(s, s.frame, transmission_type),
                          needs_full_padding)

\* The room that was found is filled.
FillRoomWithStreamFrame(room, id, data_size, offset, fin, needs_full_padding, transmission_type) ==
    IF room.ok
    THEN AddCreatedStreamFrame(
             CreateStreamFrame(room, id, data_size, offset, fin),
             data_size, needs_full_padding, transmission_type)
    ELSE room

\* The result is in s.ok, the frame that was added in s.frame.
ConsumeDataToFillCurrentPacket(s, id, data_size, offset, fin, needs_full_padding, transmission_type) ==
    FillRoomWithStreamFrame(HasRoomForStreamFrame(s, id, offset, data_size),
                            id, data_size, offset, fin,
                            needs_full_padding, transmission_type)

AddPendingPadding(s, size) ==
    [s EXCEPT !.pending_padding_bytes = @ + size]

AddRandomPadding(s) == AddPendingPadding(s, s.rand)

\* The stream frame is written behind a header of header_length bytes,
\* padded to the header protection minimum, sealed and handed over.
SerializeStreamFrame(s, header_length, id, remaining_data_size, stream_offset, fin, transmission_type) ==
    LET Consumed(min_frame_size) ==
            LET available_size ==
                    s.max_plaintext_size - header_length - min_frame_size
            IN  \* unsigned: a negative difference wraps to a huge one
                IF available_size < 0 THEN remaining_data_size
                ELSE Min({available_size, remaining_data_size})
        last_size == GetMinStreamFrameSize(id, stream_offset, TRUE,
                                           remaining_data_size)
        needs_padding ==
            last_size + Consumed(last_size) < MinPlaintextPacketSize
        min_frame_size ==
            IF needs_padding
            THEN GetMinStreamFrameSize(id, stream_offset, FALSE,
                                       remaining_data_size)
            ELSE last_size
        bytes_consumed == Consumed(min_frame_size)
        plaintext_bytes_written == min_frame_size + bytes_consumed
        frame == StreamFrame(id, fin /\ bytes_consumed = remaining_data_size,
                             stream_offset, bytes_consumed)
        length == header_length
                  + Max({plaintext_bytes_written,
                         IF needs_padding THEN MinPlaintextPacketSize ELSE 0})
        encrypted_length == EncryptInPlace(s, length, kMaxOutgoingPacketSize)
    IN  CASE header_length > kMaxOutgoingPacketSize ->
               Bug(s, "AppendPacketHeader failed")
          [] header_length + plaintext_bytes_written > kMaxOutgoingPacketSize ->
               Bug(s, "AppendStreamFrame failed")
          [] length > kMaxOutgoingPacketSize ->
               Bug(s, "Unable to add padding bytes")
          [] encrypted_length = 0 ->
               Bug([s EXCEPT !.transmission_type = transmission_type],
                   "Failed to encrypt packet number")
          [] OTHER ->
               OnSerializedPacket(
                   [s EXCEPT !.transmission_type = transmission_type,
                             !.packet_size = 0,
                             !.encrypted_length = encrypted_length,
                             !.built = length - header_length,
                             !.retransmittable_frames = Append(@, frame),
                             !.frame = frame])

\* The fast path that never ends a stream.
SerializeBehindHeaderNoFin(s, id, remaining_data_size, stream_offset, fin, transmission_type) ==
    SerializeStreamFrame(s, PacketHeaderSize(s), id, remaining_data_size,
                         stream_offset, FALSE, transmission_type)

\* The header of the next packet is filled in.
SerializeBehindHeader(s, id, remaining_data_size, stream_offset, fin, transmission_type) ==
    SerializeStreamFrame(s, PacketHeaderSize(s), id, remaining_data_size,
                         stream_offset, fin, transmission_type)

\* One packet holding one stream frame, written straight into the buffer;
\* s.frame.len is *num_bytes_consumed, 0 when the packet was not built.
CreateAndSerializeStreamFrame(s, id, write_length, iov_offset, stream_offset, fin, transmission_type) ==
    SerializeBehindHeader(
        [FillPacketHeader(s) EXCEPT !.fate = s.fate_answer, !.frame.len = 0],
        id, write_length - iov_offset, stream_offset, fin, transmission_type)

\* What ConsumeData returns.
QuicConsumedData(s, bytes_consumed, fin_consumed) ==
    Ret(s, [bytes_consumed |-> bytes_consumed, fin_consumed |-> fin_consumed])

RECURSIVE FastPathLoop(_, _, _, _, _, _)

\* A packet was serialized, or was not.
FastPathSerialized(sent, id, write_length, offset, fin, total_bytes_consumed) ==
    IF sent.frame.len = 0
    THEN QuicConsumedData(
             OnUnrecoverableError(
                 Bug(sent, "Failed in CreateAndSerializeStreamFrame."),
                 "QUIC_FAILED_TO_SERIALIZE_PACKET"),
             total_bytes_consumed,
             fin /\ total_bytes_consumed = write_length)
    ELSE FastPathLoop(sent, id, write_length, offset, fin,
                      total_bytes_consumed + sent.frame.len)

\* The delegate was asked for one more packet.
FastPathAsked(asked, id, write_length, offset, fin, total_bytes_consumed) ==
    IF asked.ok
    THEN FastPathSerialized(
             CreateAndSerializeStreamFrame(
                 asked, id, write_length, total_bytes_consumed,
                 offset + total_bytes_consumed, fin,
                 asked.next_transmission_type),
             id, write_length, offset, fin, total_bytes_consumed)
    ELSE QuicConsumedData(asked, total_bytes_consumed,
                          fin /\ total_bytes_consumed = write_length)

FastPathLoop(s, id, write_length, offset, fin, total_bytes_consumed) ==
    IF total_bytes_consumed >= write_length
    THEN QuicConsumedData(s, total_bytes_consumed,
                          fin /\ total_bytes_consumed = write_length)
    ELSE FastPathAsked(ShouldGeneratePacket(s), id, write_length, offset,
                       fin, total_bytes_consumed)

ConsumeDataFastPath(s, id, write_length, offset, fin, total_bytes_consumed) ==
    IF SendsStreamDataUnencrypted(s)
    THEN QuicConsumedData(AttemptingToSendUnencryptedStreamData(s),
                          total_bytes_consumed,
                          fin /\ total_bytes_consumed = write_length)
    ELSE FastPathLoop(s, id, write_length, offset, fin, total_bytes_consumed)

\* Data that fills more than one buffer, with nothing queued and no soft
\* limit, skips the frame queue.
RunFastPath(s, id, write_length, state, total_bytes_consumed) ==
    /\ ~IsCryptoStreamId(id)
    /\ state # "FIN_AND_PADDING"
    /\ ~HasPendingFrames(s)
    /\ write_length - total_bytes_consumed > kMaxOutgoingPacketSize
    /\ s.latched_hard_max_packet_length = 0

\* A handshake frame leaves in the packet it was queued in.
FlushAfterHandshake(s, id) ==
    IF IsCryptoStreamId(id) THEN FlushCurrentPacket(s) ELSE s

RECURSIVE ConsumeDataLoop(_, _, _, _, _, _)

\* A frame was added to the open packet, or was not.
ConsumeDataFilled(filled, id, write_length, offset, state, total_bytes_consumed) ==
    LET total == total_bytes_consumed + filled.frame.len
        fin_consumed == state # "NO_FIN" /\ total = write_length
    IN  CASE ~filled.ok ->
               QuicConsumedData(Bug(filled, "Failed to ConsumeData"),
                                0, FALSE)
          [] total = write_length ->
               QuicConsumedData(
                   FlushAfterHandshake(
                       IF fin_consumed /\ state = "FIN_AND_PADDING"
                       THEN AddRandomPadding(filled) ELSE filled, id),
                   total, fin_consumed)
          [] OTHER ->
               ConsumeDataLoop(FlushCurrentPacket(filled), id, write_length,
                               offset, state, total)

\* The delegate was asked for one more packet (never for a handshake).
ConsumeDataAsked(asked, id, write_length, offset, state, total_bytes_consumed) ==
    IF asked.ok
    THEN ConsumeDataFilled(
             ConsumeDataToFillCurrentPacket(
                 asked, id, write_length - total_bytes_consumed,
                 offset + total_bytes_consumed, state # "NO_FIN",
                 IsCryptoStreamId(id)
                     /\ asked.fully_pad_crypto_handshake_packets,
                 asked.next_transmission_type),
             id, write_length, offset, state, total_bytes_consumed)
    ELSE QuicConsumedData(FlushAfterHandshake(asked, id),
                          total_bytes_consumed, FALSE)

\* One frame per round, a flush between two rounds; the fast path is
\* looked for before the first round and after every flush.
ConsumeDataLoop(s, id, write_length, offset, state, total_bytes_consumed) ==
    IF RunFastPath(s, id, write_length, state, total_bytes_consumed)
    THEN ConsumeDataFastPath(s, id, write_length, offset, state # "NO_FIN",
                             total_bytes_consumed)
    ELSE ConsumeDataAsked(
             IF IsCryptoStreamId(id) THEN Ok(s, TRUE)
             ELSE ShouldGeneratePacket(s),
             id, write_length, offset, state, total_bytes_consumed)

\* ConsumeData behind whatever is queued.
ConsumeDataBehind(s, id, write_length, offset, state) ==
    ConsumeDataLoop(MaybeBundleAckOpportunistically(s), id, write_length,
                    offset, state, 0)

\* Crypto frames are not combined with other retransmittable frames.
FlushBeforeHandshake(s) ==
    IF HasPendingRetransmittableFrames(s) THEN FlushCurrentPacket(s) ELSE s

\* The packet that has no room is closed.
FlushUnlessRoom(room) ==
    IF room.ok THEN room ELSE FlushCurrentPacket(room)

\* ConsumeData with a packet open that has room for a first frame.
ConsumeDataInRoom(s, id, write_length, offset, state) ==
    IF state = "NO_FIN" /\ write_length = 0
    THEN QuicConsumedData(
             Bug(s, "Attempt to consume empty data without FIN."), 0, FALSE)
    ELSE ConsumeDataLoop(s, id, write_length, offset, state, 0)

\* ConsumeData once the ACK the delegate had ready is bundled.
ConsumeDataBehindAck(s, id, write_length, offset, state) ==
    ConsumeDataInRoom(
        FlushUnlessRoom(
            HasRoomForStreamFrame(
                IF IsCryptoStreamId(id) THEN FlushBeforeHandshake(s) ELSE s,
                id, offset, write_length)),
        id, write_length, offset, state)

ConsumeData(s, id, write_length, offset, state) ==
    ConsumeDataBehindAck(
        BugIf(MaybeBundleAckOpportunistically(
                  FlusherAttached(s, "flusher not attached: stream data")),
              IsCryptoStreamId(id) /\ state # "NO_FIN",
              "Handshake packets should never send a fin"),
        id, write_length, offset, state)

----------------------------------------------------------------------------
(* Crypto data, control frames, messages, probes of the path.              *)

\* The frame, in s.frame, takes what is free behind min_frame_size bytes
\* of its own; the result is in s.ok.
FillCryptoFrame(s, write_length, offset, min_frame_size) ==
    IF ~s.ok \/ BytesFree(s) <= min_frame_size
    THEN Ok(s, FALSE)
    ELSE Ok([s EXCEPT !.frame =
                CryptoFrame(offset, Min({BytesFree(s) - min_frame_size,
                                         write_length}))], TRUE)

\* The arguments of GetMinCryptoFrameSize are passed in the order the code
\* passes them.  A soft limit in the way is removed.
CreateCryptoFrame(s, level, write_length, offset) ==
    FillCryptoFrame(
        IF BytesFree(s) <= GetMinCryptoFrameSize(write_length, offset)
        THEN RemoveSoftMaxPacketLength(s) ELSE Ok(s, TRUE),
        write_length, offset, GetMinCryptoFrameSize(write_length, offset))

\* The frame in s.frame is added, with the request for full padding set
\* before it is.
AddCreatedCryptoFrame(created, needs_full_padding, transmission_type) ==
    IF created.ok
    THEN AddFrame([created EXCEPT !.needs_full_padding =
                                      @ \/ needs_full_padding],
                  created.frame, transmission_type)
    ELSE created

\* The crypto frame is added without the request for full padding.
ConsumeCryptoDataUnpadded(s, level, write_length, offset, needs_full_padding, transmission_type) ==
    AddCreatedCryptoFrame(CreateCryptoFrame(s, level, write_length, offset),
                          FALSE, transmission_type)

\* The result is in s.ok, the frame that was added in s.frame.
ConsumeCryptoDataToFillCurrentPacket(s, level, write_length, offset, needs_full_padding, transmission_type) ==
    AddCreatedCryptoFrame(CreateCryptoFrame(s, level, write_length, offset),
                          needs_full_padding, transmission_type)

RECURSIVE ConsumeCryptoDataLoop(_, _, _, _, _)

\* A frame was added to the open packet, or was not.
ConsumeCryptoDataFilled(filled, level, write_length, offset, total_bytes_consumed) ==
    IF filled.ok
    THEN ConsumeCryptoDataLoop(FlushCurrentPacket(filled), level,
                               write_length, offset,
                               total_bytes_consumed + filled.frame.len)
    ELSE Ret(Bug(filled, "Failed to ConsumeCryptoData"), 0)

\* The delegate was asked for one more packet.
ConsumeCryptoDataAsked(asked, level, write_length, offset, total_bytes_consumed) ==
    IF asked.ok
    THEN ConsumeCryptoDataFilled(
             ConsumeCryptoDataToFillCurrentPacket(
                 asked, level, write_length - total_bytes_consumed,
                 offset + total_bytes_consumed,
                 asked.fully_pad_crypto_handshake_packets,
                 asked.next_transmission_type),
             level, write_length, offset, total_bytes_consumed)
    ELSE Ret(FlushCurrentPacket(asked), total_bytes_consumed)

\* One frame per packet, each flushed once it is queued.
ConsumeCryptoDataLoop(s, level, write_length, offset, total_bytes_consumed) ==
    IF total_bytes_consumed >= write_length
    THEN Ret(FlushCurrentPacket(s), total_bytes_consumed)
    ELSE ConsumeCryptoDataAsked(ShouldGeneratePacket(s), level,
                                write_length, offset, total_bytes_consumed)

\* ConsumeCryptoData behind whatever is queued.
ConsumeCryptoDataBehind(s, level, write_length, offset) ==
    ConsumeCryptoDataLoop(MaybeBundleAckOpportunistically(s), level,
                          write_length, offset, 0)

ConsumeCryptoData(s, level, write_length, offset) ==
    ConsumeCryptoDataLoop(
        FlushBeforeHandshake(
            MaybeBundleAckOpportunistically(
                FlusherAttached(s, "flusher not attached: crypto data"))),
        level, write_length, offset, 0)

\* The frame starts a packet of its own, if the delegate lets it.
AddControlFrameAlone(asked, frame) ==
    IF asked.ok
    THEN BugUnlessOk(AddFrame(asked, frame, asked.next_transmission_type),
                     "Failed to add frame")
    ELSE asked

\* PING and CONNECTION_CLOSE do not wait for the congestion window.
AddControlFrameUnlessQueued(behind, frame) ==
    IF behind.ok THEN behind
    ELSE AddControlFrameAlone(
             IF frame.type \in {"PING_FRAME", "CONNECTION_CLOSE_FRAME"}
             THEN Ok(behind, TRUE) ELSE ShouldGeneratePacket(behind),
             frame)

\* The call returns whether it succeeded.
ReturnOk(s) == Ret(s, s.ok)

ConsumeRetransmittableControlFrame(s, frame) ==
    ReturnOk(AddControlFrameUnlessQueued(
                 AddBehindQueued(MaybeBundleAckOpportunistically(s), frame),
                 frame))

\* The frame is added like any other.
AddSavedFrameUnpadded(s, frame, transmission_type) ==
    AddFrame(s, frame, transmission_type)

\* The packet of a frame added here is padded in full.
AddPaddedSavedFrame(s, frame, transmission_type) ==
    NeedsFullPadding(AddFrame(s, frame, transmission_type), TRUE)

\* The frame starts a packet of its own, if the delegate lets it.
AddPaddedFrameAlone(asked, frame) ==
    IF asked.ok
    THEN Ok(BugUnlessOk(
                AddPaddedSavedFrame(asked, frame, "NOT_RETRANSMISSION"),
                "AddPaddedFrameWithRetry"), TRUE)
    ELSE asked

\* The frame was tried behind the frames that are queued.
AddPaddedFrameUnlessQueued(behind, frame) ==
    IF behind.ok THEN behind
    ELSE AddPaddedFrameAlone(ShouldGeneratePacket(behind), frame)

\* The result is in s.ok.
AddPaddedFrameWithRetry(s, frame) ==
    AddPaddedFrameUnlessQueued(
        IF HasPendingFrames(s)
        THEN AddPaddedSavedFrame(s, frame, "NOT_RETRANSMISSION")
        ELSE Ok(s, FALSE),
        frame)

AddPathChallengeFrame(s) ==
    Ret(AddPaddedFrameWithRetry(s, ControlFrame("PATH_CHALLENGE_FRAME")), TRUE)

AddPathResponseFrame(s) ==
    ReturnOk(AddPaddedFrameWithRetry(s, ControlFrame("PATH_RESPONSE_FRAME")))

\* The largest message behind a header of packet_header_size bytes: what
\* the hard limit leaves, or what the peer accepts in a datagram frame.
LargestMessagePayload(s, packet_header_size) ==
    LET max_plaintext_size ==
            IF s.latched_hard_max_packet_length = 0 THEN s.max_plaintext_size
            ELSE GetMaxPlaintextSize(s, s.latched_hard_max_packet_length)
        largest_frame ==
            Min({max_plaintext_size
                   - Min({max_plaintext_size, packet_header_size}),
                 s.max_datagram_frame_size})
    IN  IF Version.message_frames
        THEN largest_frame - Min({largest_frame, kQuicFrameTypeSize}) ELSE 0

\* The largest message the next packet could carry under the hard limit.
GetCurrentLargestMessagePayload(s) ==
    LargestMessagePayload(
        s, GetPacketHeaderSize(GetDestinationConnectionIdLength(s),
                               GetSourceConnectionIdLength(s),
                               IncludeVersionInHeader(s),
                               IncludeNonceInPublicHeader(s),
                               GetPacketNumberLength(s), 0, 0,
                               GetLengthLength(s)))

\* The length field of the long header a client may yet have to write.
GuaranteedLengthLength ==
    IF Perspective = "IS_CLIENT" /\ QuicVersionHasLongHeaderLengths
    THEN 2 ELSE 0

\* The largest message every packet of the connection can carry: behind a
\* header with the version, the nonce a QUIC crypto server may send, and a
\* packet number of 4 bytes.
GetGuaranteedLargestMessagePayload(s) ==
    LargestMessagePayload(
        s, GetPacketHeaderSize(GetDestinationConnectionIdLength(s),
                               GetSourceConnectionIdLength(s),
                               TRUE,
                               ~Version.uses_tls /\ Perspective = "IS_SERVER",
                               4, 0, 0, GuaranteedLengthLength))

\* The result is in s.ok; a soft limit in the way is removed.
HasRoomForMessageFrame(s, length) ==
    CASE GetMessageFrameSize(TRUE, length) > s.max_datagram_frame_size
           -> Ok(s, FALSE)
      [] BytesFree(s) >= GetMessageFrameSize(TRUE, length) -> Ok(s, TRUE)
      [] OTHER -> RoomUnderHardLimit(RemoveSoftMaxPacketLength(s),
                                     GetMessageFrameSize(TRUE, length))

\* What AddMessageFrame returns of a message it tried to add.
MessageStatus(added) ==
    IF added.ok THEN Ret(added, "MESSAGE_STATUS_SUCCESS")
    ELSE Ret(Bug(added, "Failed to send message"),
             "MESSAGE_STATUS_INTERNAL_ERROR")

\* AddMessageFrame that does not close a packet the message has no room in.
AddMessageFrameNoFlush(s, message_length) ==
    IF message_length > GetCurrentLargestMessagePayload(s)
    THEN Ret(s, "MESSAGE_STATUS_TOO_LARGE")
    ELSE MessageStatus(AddFrame(s, MessageFrame(message_length),
                                s.next_transmission_type))

\* AddMessageFrame once the ACK the delegate had ready is bundled.
AddMessageFrameBehindAck(s, message_length) ==
    IF message_length > GetCurrentLargestMessagePayload(s)
    THEN Ret(s, "MESSAGE_STATUS_TOO_LARGE")
    ELSE MessageStatus(
             AddFrame(FlushUnlessRoom(
                          HasRoomForMessageFrame(s, message_length)),
                      MessageFrame(message_length),
                      s.next_transmission_type))

AddMessageFrame(s, message_length) ==
    AddMessageFrameBehindAck(
        MaybeBundleAckOpportunistically(
            FlusherAttached(s, "flusher not attached: message frame")),
        message_length)

\* A probe of target_mtu bytes in a packet of its own, then back to the
\* length that was in force.
GenerateMtuDiscoveryPacket(s, target_mtu) ==
    IF ~CanSetMaxPacketLength(s)
    THEN Bug(s, "MTU discovery packets should be sent alone")
    ELSE SetMaxPacketLength(
             FlushCurrentPacket(
                 BugUnlessOk(
                     AddPaddedSavedFrame(SetMaxPacketLength(s, target_mtu),
                                         ControlFrame("MTU_DISCOVERY_FRAME"),
                                         s.next_transmission_type),
                     "Failed to send path MTU")),
             s.max_packet_length)

RECURSIVE SendRemainingPendingPadding(_)

\* One more packet of padding, if the delegate lets it go.
SendPendingPadding(asked) ==
    IF asked.ok THEN SendRemainingPendingPadding(FlushCurrentPacket(asked))
    ELSE asked

SendRemainingPendingPadding(s) ==
    IF s.pending_padding_bytes = 0 \/ HasPendingFrames(s) THEN s
    ELSE SendPendingPadding(ShouldGeneratePacket(s))

\* Flush that leaves the open packet open.
FlushPaddingOnly(s) ==
    [SendRemainingPendingPadding(s) EXCEPT !.flusher_attached = FALSE]

Flush(s) ==
    [SendRemainingPendingPadding(FlushCurrentPacket(s))
        EXCEPT !.flusher_attached = FALSE]

----------------------------------------------------------------------------
(* Connectivity probes: one packet each, built beside the open packet and  *)
(* returned to the caller.                                                 *)

\* The packet a probe serializer returns: it carries no frame lists.
ProbePacket(s, length, encrypted_length) ==
    SerializedPacket(
        [s EXCEPT !.encrypted_length = encrypted_length,
                  !.built = length - PacketHeaderSize(s),
                  !.retransmittable_frames = <<>>,
                  !.nonretransmittable_frames = <<>>,
                  !.has_ack = FALSE, !.has_crypto_handshake = FALSE,
                  !.transmission_type = "NOT_RETRANSMISSION",
                  !.fate = "SEND_TO_WRITER"])

\* The frames are written into max_plaintext_size_ bytes and sealed.  A probe
\* that does not fit them, which DCHECK(length) excludes, has no length.
EncryptProbe(s, length) ==
    Ret(s, ProbePacket(s, length,
                       EncryptInPlace(s, length, kMaxOutgoingPacketSize)))

\* The frames never enter queued_frames_: the codec writes them behind the
\* header into a buffer of its own.
BuildProbe(header, frames) ==
    EncryptProbe(header,
                 BuildDataPacket(
                     [header EXCEPT !.queued_frames = frames,
                                    !.packet_size = header.max_plaintext_size]))

\* A serializer that builds the probe under the limit it finds.
SerializeProbeUnderSoftLimit(s, frames) ==
    BuildProbe(FillPacketHeader(s), frames)

\* What the three serializers share: the soft limit goes and the header
\* takes the next packet number.
SerializeProbe(s, frames) ==
    BuildProbe(FillPacketHeader(RemoveSoftMaxPacketLength(s)), frames)

\* BuildConnectivityProbingPacket: a PING and padding to the limit.
ConnectivityProbingFrames ==
    <<ControlFrame("PING_FRAME"), PaddingFrame(-1)>>

SerializeConnectivityProbingPacket(s) ==
    SerializeProbe(
        BugIf(s, Version.ietf_frames, "Must not be version 99 to serialize probe"),
        ConnectivityProbingFrames)

\* BuildPaddedPathChallengePacket: the payload is random, its size is not.
PaddedPathChallengeFrames ==
    <<ControlFrame("PATH_CHALLENGE_FRAME"), PaddingFrame(-1)>>

SerializePathChallengeConnectivityProbingPacket(s) ==
    SerializeProbe(
        BugIf(s, ~Version.ietf_frames, "Must be version 99 to serialize challenge"),
        PaddedPathChallengeFrames)

\* BuildPathResponsePacket: one PATH_RESPONSE for each payload received.
\* Without a payload it builds nothing, which the DCHECK(length) of its
\* caller excludes: ProbePayloads holds no 0.
PathResponseFrames(payloads, is_padded) ==
    [i \in 1..payloads |-> ControlFrame("PATH_RESPONSE_FRAME")]
        \o (IF is_padded THEN <<PaddingFrame(-1)>> ELSE <<>>)

SerializePathResponseConnectivityProbingPacket(s, payloads, is_padded) ==
    SerializeProbe(
        BugIf(s, ~Version.ietf_frames, "Must be version 99 to serialize response"),
        PathResponseFrames(payloads, is_padded))

----------------------------------------------------------------------------
(* Coalesced packets.                                                      *)

\* ScopedPacketContextSwitcher: packet_ takes the number before the saved
\* packet's (SerializePacket increments it), its number length and level...
SwitchPacketContext(s, packet) ==
    [s EXCEPT !.packet_number        = packet.packet_number - 1,
              !.packet_number_length = packet.packet_number_length,
              !.encryption_level     = packet.encryption_level]

\* A switcher that forgets what it saved.
KeepPacketContext(s, saved) == s

\* ... and has its own again when the switcher goes out of scope.
RestorePacketContext(s, saved) ==
    [s EXCEPT !.packet_number        = saved.packet_number,
              !.packet_number_length = saved.packet_number_length,
              !.encryption_level     = saved.encryption_level]

RECURSIVE AddSavedFrames(_, _, _)

\* The frames of the saved packet pass through AddFrame again, up to the
\* first that fails.
AddSavedFrames(s, frames, transmission_type) ==
    IF frames = <<>> \/ ~s.ok THEN s
    ELSE AddSavedFrames(AddFrame(s, Head(frames), transmission_type),
                        Tail(frames), transmission_type)

\* No padding is added behind the saved frames.
AddNoCoalescedPadding(replayed, padding_size, transmission_type) ==
    BugUnlessOk(replayed, "Failed to serialize frame")

\* The padding that fills the datagram is one more frame.
AddCoalescedPadding(replayed, padding_size, transmission_type) ==
    CASE ~replayed.ok      -> Bug(replayed, "Failed to serialize frame")
      [] padding_size = 0  -> replayed
      [] OTHER -> BugUnlessOk(AddFrame(replayed, PaddingFrame(padding_size),
                                       transmission_type),
                              "Failed to add padding of size")

\* The frame lists are cleared, not deleted: their frames belong to the
\* saved packet.  s.ret is the encrypted length.
ReserializedPacket(serialized) ==
    IF ~serialized.ok THEN Ret(serialized, 0)
    ELSE Ret(ClearPacket([serialized EXCEPT
                             !.retransmittable_frames    = <<>>,
                             !.nonretransmittable_frames = <<>>]),
             serialized.encrypted_length)

SerializeSavedFrames(padded, buffer_len) ==
    IF ~padded.ok THEN Ret(padded, 0)
    ELSE ReserializedPacket(SerializePacket(padded, buffer_len))

ReserializeInitialPacketInCoalescedPacket(s, packet, padding_size, buffer_len) ==
    RestorePacketContext(
        SerializeSavedFrames(
            AddCoalescedPadding(
                AddSavedFrames(
                    SwitchPacketContext(
                        Ok(BugIf(BugIf(s, packet.encryption_level
                                              # ENCRYPTION_INITIAL,
                                       "Reserialized packet is not INITIAL"),
                                 /\ packet.nonretransmittable_frames = <<>>
                                 /\ packet.retransmittable_frames = <<>>,
                                 "Attempt to serialize empty INITIAL packet"), TRUE),
                        packet),
                    packet.nonretransmittable_frames
                        \o packet.retransmittable_frames,
                    packet.transmission_type),
                padding_size, packet.transmission_type),
            buffer_len),
        s)

\* The INITIAL packet of a server that closes the connection.
IsServerConnectionClose(packet) ==
    /\ Perspective = "IS_SERVER"
    /\ \E i \in DOMAIN packet.retransmittable_frames :
           packet.retransmittable_frames[i].type = "CONNECTION_CLOSE_FRAME"

\* A coalesced packet with an INITIAL packet is padded to full, except for
\* the connection close of a server.
CoalescedPaddingSize(c) ==
    IF IsServerConnectionClose(c.initial_packet) THEN 0
    ELSE c.max_packet_length - c.length

\* The buffers of the other levels follow the INITIAL packet; s.ret is the
\* length of the datagram, 0 when it could not be put together.
CopyBehindInitial(s, c, buffer_len) ==
    CASE ~s.ok -> Ret(Bug(s, "Failed to reserialize INITIAL packet"), 0)
      [] CopyEncryptedBuffers(c, buffer_len - s.ret) < 0 -> Ret(s, 0)
      [] OTHER -> Ret(s, s.ret + CopyEncryptedBuffers(c, buffer_len - s.ret))

\* initial_length == 0 is the failure of the reserialization.
ReserializedInitialPacket(s) == Ok(s, s.ret # 0)

\* s.ok tells whether the INITIAL packet, if there is one, was serialized
\* again; s.ret is its new length.
ReserializeInitialPacket(s, c, buffer_len) ==
    IF c.initial_packet = NoPacket THEN Ok(Ret(s, 0), TRUE)
    ELSE ReserializedInitialPacket(
             ReserializeInitialPacketInCoalescedPacket(
                 s, c.initial_packet, CoalescedPaddingSize(c), buffer_len))

SerializeCoalescedPacket(s, c, buffer_len) ==
    IF HasPendingFrames(s)
    THEN Ret(Bug(s, "Try to serialize coalesced packet with pending frames"),
             0)
    ELSE CopyBehindInitial(
             ReserializeInitialPacket(
                 BugIf(RemoveSoftMaxPacketLength(s), c.length = 0,
                       "Attempt to serialize empty coalesced packet"),
                 c, buffer_len),
             c, buffer_len)

----------------------------------------------------------------------------
(* The creator after construction, and the calls of the connection.        *)

Init ==
    /\ encrypters = {ENCRYPTION_INITIAL}
    /\ creator =
         [send_version_in_packet        |-> Perspective = "IS_CLIENT",
          have_diversification_nonce    |-> FALSE,
          max_packet_length             |-> kDefaultMaxPacketSize,
          max_plaintext_size            |->
              EncrypterMaxPlaintextSize(kDefaultMaxPacketSize),
          server_connection_id_included |-> TRUE,
          queued_frames                 |-> <<>>,
          packet_size                   |-> 0,
          server_connection_id          |-> ServerConnectionIdLength,
          client_connection_id          |-> 0,
          retry_token                   |-> 0,
          packet_number                 |-> 0,
          packet_number_length          |-> 1,
          encryption_level              |-> ENCRYPTION_INITIAL,
          has_ack                       |-> FALSE,
          has_stop_waiting              |-> FALSE,
          has_crypto_handshake          |-> FALSE,
          has_ack_frequency             |-> FALSE,
          has_message                   |-> FALSE,
          transmission_type             |-> "NOT_RETRANSMISSION",
          fate                          |-> "SEND_TO_WRITER",
          encrypted_length              |-> 0,
          retransmittable_frames        |-> <<>>,
          nonretransmittable_frames     |-> <<>>,
          peer_address                  |-> NoAddress,
          pending_padding_bytes         |-> 0,
          needs_full_padding            |-> FALSE,
          next_transmission_type        |-> "NOT_RETRANSMISSION",
          flusher_attached              |-> FALSE,
          fully_pad_crypto_handshake_packets |-> TRUE,
          latched_hard_max_packet_length |-> 0,
          max_datagram_frame_size       |->
              IF Version.uses_tls THEN 0
              ELSE Min({kMaxAcceptedDatagramFrameSize, 65535})]
    /\ emitted = <<>>
    /\ errors = <<>>
    /\ bugs = {}
    /\ result = [op |-> "QuicPacketCreator", value |-> [ok |-> TRUE]]
    /\ coalesced = NoCoalescedPacket
    /\ contexts = <<>>
    /\ connected = TRUE

\* A call that hands back what the method returned, or whether it succeeded.
\* The value is a record whatever the method returns: a QuicConsumedData or a
\* SerializedPacket as it is, a number of bytes, a flag or a status under the
\* name of what it says; a method that returns nothing reports ok.
ReturnValue(s, op) == Return(s, [op |-> op, value |-> s.ret])
ReturnConsumed(s, op) == Return(s, [op |-> op, value |-> [bytes_consumed |-> s.ret]])
ReturnSuccess(s, op) == Return(s, [op |-> op, value |-> [ok |-> s.ret]])
ReturnStatus(s, op) == Return(s, [op |-> op, value |-> [status |-> s.ret]])
ReturnOkFlag(s, op) == Return(s, [op |-> op, value |-> [ok |-> s.ok]])

\* No call starts once the packet number has reached its bound.
MayEmit == creator.packet_number < MaxPacketNumber

\* The calls that queue frames or send packets are made while the connection
\* is open and a flusher is attached.
Writing == connected /\ creator.flusher_attached

CallSetEncrypter(level) ==
    /\ connected
    /\ level \notin encrypters
    /\ encrypters' = encrypters \cup {level}
    /\ creator' = [creator EXCEPT !.max_plaintext_size =
                      EncrypterMaxPlaintextSize(creator.max_packet_length)]
    /\ emitted' = <<>> /\ errors' = <<>> /\ bugs' = {}
    /\ result' = [op |-> "SetEncrypter", value |-> [level |-> level]]
    /\ UNCHANGED <<coalesced, contexts, connected>>

CallSetMaxPacketLength(length) ==
    /\ connected
    /\ CanSetMaxPacketLength(creator)
    /\ Return(SetMaxPacketLength(PlainCall, length),
              [op |-> "SetMaxPacketLength", value |-> [length |-> length]])

\* A limit for the next packet only; the one in force is latched.
SetSoftMaxPacketLength(s, length) ==
    CASE length > s.max_packet_length ->
           Bug(s, "Try to increase max_packet_length_")
      [] GetMaxPlaintextSize(s, length)
           < PacketHeaderSize(s) + MinPlaintextPacketSize ->
           RemoveSoftMaxPacketLength(s)
      [] OTHER ->
           [s EXCEPT !.latched_hard_max_packet_length = s.max_packet_length,
                     !.max_packet_length = length,
                     !.max_plaintext_size = GetMaxPlaintextSize(s, length)]

CallSetSoftMaxPacketLength(length) ==
    /\ connected
    /\ CanSetMaxPacketLength(creator)
    /\ Return(SetSoftMaxPacketLength(PlainCall, length),
              [op |-> "SetSoftMaxPacketLength", value |-> [length |-> length]])

\* Sizes beyond what a packet length can express are clamped.
CallSetMaxDatagramFrameSize(max_datagram_frame_size) ==
    /\ connected
    /\ max_datagram_frame_size # creator.max_datagram_frame_size
    /\ Return([PlainCall EXCEPT !.max_datagram_frame_size =
                                    Min({max_datagram_frame_size, 65535})],
              [op |-> "SetMaxDatagramFrameSize",
               value |-> [length |-> max_datagram_frame_size]])

\* The version leaves the header and the size of the open packet alike.
StopSendingVersionKeepingSize(s) ==
    [s EXCEPT !.send_version_in_packet = FALSE]

\* The open packet gives back the bytes of the version it will not carry.
StopSendingVersion(s) ==
    [s EXCEPT !.send_version_in_packet = FALSE,
              !.packet_size = IF @ > 0 THEN @ - kQuicVersionSize ELSE @]

CallStopSendingVersion ==
    /\ connected
    /\ creator.send_version_in_packet
    /\ ~Version.ietf_header
    /\ Return(StopSendingVersion(PlainCall),
              [op |-> "StopSendingVersion", value |-> [ok |-> TRUE]])

\* Only a server of QUIC crypto has a nonce to send.
CallSetDiversificationNonce ==
    /\ connected
    /\ ~creator.have_diversification_nonce
    /\ Perspective = "IS_SERVER" /\ ~Version.uses_tls
    /\ Return([PlainCall EXCEPT !.have_diversification_nonce = TRUE],
              [op |-> "SetDiversificationNonce", value |-> [ok |-> TRUE]])

UpdatePacketNumberLength(s, least_packet_awaited_by_peer, max_packets_in_flight) ==
    LET delta == Max({NextSendingPacketNumber(s) - least_packet_awaited_by_peer,
                      max_packets_in_flight})
    IN  IF s.queued_frames # <<>>
        THEN Bug(s, "Called UpdatePacketNumberLength with queued_frames")
        ELSE [s EXCEPT !.packet_number_length =
                           GetMinPacketNumberLength(delta * 4)]

CallUpdatePacketNumberLength(least_packet_awaited_by_peer, max_packets_in_flight) ==
    /\ connected
    /\ least_packet_awaited_by_peer <= NextSendingPacketNumber(creator)
    /\ Return(UpdatePacketNumberLength(PlainCall, least_packet_awaited_by_peer,
                                       max_packets_in_flight),
              [op |-> "UpdatePacketNumberLength", value |-> [ok |-> TRUE]])

\* SkipNPacketNumbers without its test for a sum that wraps.
SkipNPacketNumbersWrapping(s, count, least_packet_awaited_by_peer, max_packets_in_flight) ==
    IF s.queued_frames # <<>>
    THEN Bug(s, "Called SkipNPacketNumbers with queued_frames")
    ELSE UpdatePacketNumberLength(
             [s EXCEPT !.packet_number = (@ + count) % PacketNumberSpace],
             least_packet_awaited_by_peer, max_packets_in_flight)

\* Nothing is skipped mid-packet, nor past the end of the packet numbers.
SkipNPacketNumbers(s, count, least_packet_awaited_by_peer, max_packets_in_flight) ==
    CASE s.queued_frames # <<>> ->
           Bug(s, "Called SkipNPacketNumbers with queued_frames")
      [] (s.packet_number + count) % PacketNumberSpace < s.packet_number
           -> s
      [] OTHER ->
           UpdatePacketNumberLength(
               [s EXCEPT !.packet_number = @ + count],
               least_packet_awaited_by_peer, max_packets_in_flight)

CallSkipNPacketNumbers(count, least_packet_awaited_by_peer, max_packets_in_flight) ==
    /\ connected
    /\ MayEmit
    /\ creator.packet_number # 0
    /\ least_packet_awaited_by_peer <= creator.packet_number + count + 1
    /\ Return(SkipNPacketNumbers(PlainCall, count,
                                  least_packet_awaited_by_peer,
                                  max_packets_in_flight),
              [op |-> "SkipNPacketNumbers", value |-> [ok |-> TRUE]])

\* The DCHECK that the level changes on an empty queue is compiled out of
\* a release build: what it asks is the connection's doing.
CallSetEncryptionLevel(level) ==
    /\ connected
    /\ LevelBetweenPackets => ~HasPendingFrames(creator)
    /\ level # creator.encryption_level
    /\ KeysBeforeLevel => level \in encrypters
    /\ Return([PlainCall EXCEPT !.encryption_level = level],
              [op |-> "set_encryption_level", value |-> [level |-> level]])

CallSetTransmissionType(type) ==
    /\ connected
    /\ type # creator.next_transmission_type
    /\ Return([PlainCall EXCEPT !.next_transmission_type = type],
              [op |-> "SetTransmissionType", value |-> [type |-> type]])

CallAddPendingPadding(size) ==
    /\ connected
    /\ creator.pending_padding_bytes + size <= MaxPendingPadding
    /\ Return(AddPendingPadding(PlainCall, size),
              [op |-> "AddPendingPadding", value |-> [length |-> size]])

\* The open packet takes the new address along.
SetDefaultPeerAddressUnflushed(s, address) ==
    [s EXCEPT !.peer_address = address]

\* What is queued for the old address leaves before the address changes.
SetDefaultPeerAddress(s, address) ==
    CASE s.peer_address = NoAddress -> [s EXCEPT !.peer_address = address]
      [] s.peer_address # address ->
           [FlushCurrentPacket(s) EXCEPT !.peer_address = address]
      [] OTHER -> s

CallSetDefaultPeerAddress(d, address) ==
    /\ Writing
    /\ MayEmit
    /\ address # creator.peer_address
    /\ Return(SetDefaultPeerAddress(Call(d), address),
              [op |-> "SetDefaultPeerAddress", value |-> [address |-> address]])

\* ScopedPeerAddressContext: the writes of a scope go to `address'.  The
\* context remembers the address in force and sets the new one.
EnterPeerAddressContext(s, address) ==
    SetDefaultPeerAddress(
        BugIf(s, s.peer_address = NoAddress,
              "Context is used before peer address is initialized"),
        address)

CallEnterPeerAddressContext(d, address) ==
    /\ Writing
    /\ MayEmit
    /\ Len(contexts) < MaxPeerAddressContexts
    /\ contexts' = Append(contexts, creator.peer_address)
    /\ LET s == EnterPeerAddressContext(Call(d), address)
       IN  Handed(s, [op |-> "ScopedPeerAddressContext",
                      value |-> [address |-> address]], s.err = <<>>)
    /\ UNCHANGED encrypters

\* ~ScopedPeerAddressContext: the innermost context ends and the address it
\* found is in force again.
CallLeavePeerAddressContext(d) ==
    /\ Writing
    /\ MayEmit
    /\ contexts # <<>>
    /\ contexts' = Front(contexts)
    /\ LET s == SetDefaultPeerAddress(Call(d), Last(contexts))
       IN  Handed(s, [op |-> "~ScopedPeerAddressContext",
                      value |-> [address |-> Last(contexts)]], s.err = <<>>)
    /\ UNCHANGED encrypters

\* The connection id setters.  The ids are their lengths.  The connection
\* is taken to change an id between two packets: no setter looks at the
\* queue, and the header of an open packet would change length under it.
SetServerConnectionIdIncluded(s, server_connection_id_included) ==
    [s EXCEPT !.server_connection_id_included = server_connection_id_included]

SetServerConnectionIdLength(s, length) ==
    SetServerConnectionIdIncluded(s, length # 0)

CallSetServerConnectionIdLength(length) ==
    /\ connected
    /\ IdsBetweenPackets => ~HasPendingFrames(creator)
    /\ Perspective = "IS_SERVER" \/ length # 0
    /\ Return(SetServerConnectionIdLength(PlainCall, length),
              [op |-> "SetServerConnectionIdLength",
               value |-> [length |-> length]])

\* Neither setter of an id looks at the frame queue: that they are called
\* between packets is the connection's doing.
CallSetServerConnectionId(length) ==
    /\ connected
    /\ IdsBetweenPackets => ~HasPendingFrames(creator)
    /\ Return([PlainCall EXCEPT !.server_connection_id = length],
              [op |-> "SetServerConnectionId", value |-> [length |-> length]])

CallSetClientConnectionId(length) ==
    /\ connected
    /\ IdsBetweenPackets => ~HasPendingFrames(creator)
    /\ length = 0 \/ Version.client_cids
    /\ Return([PlainCall EXCEPT !.client_connection_id = length],
              [op |-> "SetClientConnectionId", value |-> [length |-> length]])

\* The token of a Retry packet, echoed in every later INITIAL packet.
CallSetRetryToken(length) ==
    /\ connected
    /\ IdsBetweenPackets =>
           ~HasPendingFrames(creator) /\ coalesced.initial_packet = NoPacket
    /\ length # creator.retry_token
    /\ Return([PlainCall EXCEPT !.retry_token = length],
              [op |-> "SetRetryToken", value |-> [length |-> length]])

CallAttachPacketFlusher ==
    /\ connected
    /\ ~creator.flusher_attached
    /\ Return([PlainCall EXCEPT !.flusher_attached = TRUE],
              [op |-> "AttachPacketFlusher", value |-> [ok |-> TRUE]])

CallFlush(d) ==
    /\ Writing
    /\ MayEmit
    /\ Return(Flush(Call(d)), [op |-> "Flush", value |-> [ok |-> TRUE]])

CallFlushCurrentPacket(d) ==
    /\ Writing
    /\ MayEmit
    /\ HasPendingFrames(creator) \/ creator.pending_padding_bytes # 0
    /\ Return(FlushCurrentPacket(Call(d)),
              [op |-> "FlushCurrentPacket", value |-> [ok |-> TRUE]])

\* A stream writes nothing behind its FIN: while a frame that ends the
\* stream is queued, the stream has no data for the creator.
StreamHasEnded(id) ==
    \E i \in DOMAIN creator.queued_frames :
        /\ creator.queued_frames[i].type = "STREAM_FRAME"
        /\ creator.queued_frames[i].id = id
        /\ creator.queued_frames[i].fin

CallConsumeData(d, id, write_length, offset, state) ==
    /\ Writing
    /\ MayEmit
    /\ ~StreamHasEnded(id)
    /\ state = "FIN_AND_PADDING" =>
           creator.pending_padding_bytes + d.rand <= MaxPendingPadding
    /\ ReturnValue(ConsumeData(Call(d), id, write_length, offset, state),
                   "ConsumeData")

CallConsumeCryptoData(d, level, write_length, offset) ==
    /\ Writing
    /\ MayEmit
    /\ QuicVersionUsesCryptoFrames
    /\ level = creator.encryption_level
    /\ ReturnConsumed(ConsumeCryptoData(Call(d), level, write_length, offset),
                   "ConsumeCryptoData")

CallConsumeRetransmittableControlFrame(d, type) ==
    /\ Writing
    /\ MayEmit
    /\ ReturnSuccess(ConsumeRetransmittableControlFrame(Call(d),
                                                      ControlFrame(type)),
                   "ConsumeRetransmittableControlFrame")

CallFlushAckFrame(d, frames) ==
    /\ Writing
    /\ MayEmit
    /\ frames # <<>>
    /\ ReturnOkFlag(FlushAckFrame(Call(d), frames), "FlushAckFrame")

CallAddMessageFrame(d, message_length) ==
    /\ Writing
    /\ MayEmit
    /\ ReturnStatus(AddMessageFrame(Call(d), message_length), "AddMessageFrame")

CallAddPathFrame(d, type) ==
    /\ Writing
    /\ MayEmit
    /\ \/ /\ type = "PATH_CHALLENGE_FRAME"
          /\ ReturnSuccess(AddPathChallengeFrame(Call(d)), type)
       \/ /\ type = "PATH_RESPONSE_FRAME"
          /\ ReturnSuccess(AddPathResponseFrame(Call(d)), type)

CallGenerateMtuDiscoveryPacket(d, target_mtu) ==
    /\ Writing
    /\ MayEmit
    /\ Return(GenerateMtuDiscoveryPacket(Call(d), target_mtu),
              [op |-> "GenerateMtuDiscoveryPacket", value |-> [length |-> target_mtu]])

\* The calls that change how packets are built.
\* The connection probes a path once the handshake is over, with the probe
\* of its version (the DCHECK_EQ on the level and the QUIC_BUG_IF on the
\* version state what it owes the creator).
Probing ==
    /\ connected
    /\ creator.encryption_level = ENCRYPTION_FORWARD_SECURE
    /\ creator.packet_number < MaxPacketNumber

CallSerializeConnectivityProbingPacket ==
    /\ Probing
    /\ ReturnValue(SerializeConnectivityProbingPacket(PlainCall),
                   "SerializeConnectivityProbingPacket")

CallSerializePathChallengeConnectivityProbingPacket ==
    /\ Probing
    /\ Version.ietf_frames
    /\ ReturnValue(SerializePathChallengeConnectivityProbingPacket(PlainCall),
                   "SerializePathChallengeConnectivityProbingPacket")

CallSerializePathResponseConnectivityProbingPacket(payloads, is_padded) ==
    /\ Probing
    /\ Version.ietf_frames
    /\ ReturnValue(SerializePathResponseConnectivityProbingPacket(
                       PlainCall, payloads, is_padded),
                   "SerializePathResponseConnectivityProbingPacket")

\* QuicConnection::FlushCoalescedPacket: the datagram is serialized into a
\* buffer of its max_packet_length and forgotten; the connection closes
\* when the creator returns no length.
ReturnCoalesced(s) ==
    Returned([s EXCEPT !.coalesced = NoCoalescedPacket],
             [op |-> "SerializeCoalescedPacket", value |-> [length |-> s.ret]],
             s.err = <<>> /\ s.ret # 0)

CallSerializeCoalescedPacket(d) ==
    /\ connected
    /\ coalesced.length # 0
    /\ ReturnCoalesced(SerializeCoalescedPacket(Call(d), coalesced,
                                                coalesced.max_packet_length))

Configure ==
    \/ \E level \in EncrypterLevels : CallSetEncrypter(level)
    \/ \E length \in MaxPacketLengths : CallSetMaxPacketLength(length)
    \/ \E length \in SoftLengths : CallSetSoftMaxPacketLength(length)
    \/ \E size \in DatagramFrameSizes : CallSetMaxDatagramFrameSize(size)
    \/ CallStopSendingVersion
    \/ CallSetDiversificationNonce
    \/ \E n \in PacketsInFlight : CallUpdatePacketNumberLength(1, n)
    \/ \E count \in SkipCounts, n \in PacketsInFlight :
           CallSkipNPacketNumbers(count, 1, n)
    \/ \E level \in Levels : CallSetEncryptionLevel(level)
    \/ \E type \in TransmissionTypes : CallSetTransmissionType(type)
    \/ \E size \in PendingPaddingSizes : CallAddPendingPadding(size)
    \/ \E length \in ServerConnectionIdLengths :
           \/ CallSetServerConnectionIdLength(length)
           \/ CallSetServerConnectionId(length)
    \/ \E length \in ClientConnectionIdLengths :
           CallSetClientConnectionId(length)
    \/ \E length \in RetryTokenLengths : CallSetRetryToken(length)

\* The calls that queue frames or send packets.
Write ==
    \E d \in DelegateAnswers :
        \/ \E address \in PeerAddresses :
               \/ CallSetDefaultPeerAddress(d, address)
               \/ CallEnterPeerAddressContext(d, address)
        \/ CallLeavePeerAddressContext(d)
        \/ CallFlush(d)
        \/ CallFlushCurrentPacket(d)
        \/ \E id \in StreamIds, write_length \in WriteLengths,
              offset \in Offsets, state \in SendingStates :
               CallConsumeData(d, id, write_length, offset, state)
        \/ \E write_length \in CryptoLengths, offset \in Offsets :
               CallConsumeCryptoData(d, creator.encryption_level,
                                     write_length, offset)
        \/ \E type \in ControlFrameTypes :
               CallConsumeRetransmittableControlFrame(d, type)
        \/ \E frames \in AckAnswers : CallFlushAckFrame(d, frames)
        \/ \E message_length \in MessageLengths :
               CallAddMessageFrame(d, message_length)
        \/ \E type \in PathFrames : CallAddPathFrame(d, type)
        \/ \E target_mtu \in MtuTargets :
               CallGenerateMtuDiscoveryPacket(d, target_mtu)

\* The packets the connection asks for itself.
Probe ==
    \/ "PING" \in Probes /\ CallSerializeConnectivityProbingPacket
    \/ /\ "PATH_CHALLENGE" \in Probes
       /\ CallSerializePathChallengeConnectivityProbingPacket
    \/ \E payloads \in ProbePayloads, is_padded \in BOOLEAN :
           CallSerializePathResponseConnectivityProbingPacket(payloads,
                                                              is_padded)
    \/ \E d \in DelegateAnswers : CallSerializeCoalescedPacket(d)

\* The connection uses the creator until an unrecoverable error closes it:
\* every call is guarded by connected.
Next == CallAttachPacketFlusher \/ Configure \/ Write \/ Probe

Spec == Init /\ [][Next]_vars

FlushEnds == \E d \in DelegateAnswers : CallFlush(d)

\* When Flush can be called.  The method has no early return and detaching
\* the flusher changes the state, so this is ENABLED <<FlushEnds>>_vars,
\* written as the state predicate it amounts to.
FlushEnabled == Writing /\ MayEmit

\* The flusher is a scoped object of the connection: the scope that
\* attached it ends, and its destructor calls Flush.  This is weak fairness
\* of FlushEnds with the enabling condition spelled out.
FlusherScopeEnds == []<>(~FlushEnabled) \/ []<><<FlushEnds>>_vars

\* What is assumed of the connection, and not guaranteed by the creator:
\* as long as it is open it opens a scope for writing again.
ConnectionKeepsWriting == WF_vars(CallAttachPacketFlusher)

FairSpec == Spec /\ FlusherScopeEnds /\ ConnectionKeepsWriting

----------------------------------------------------------------------------
(* What the creator promises.                                              *)

QuicFrames ==
    [type : FrameTypes, id : Nat, offset : Nat, len : Int, fin : BOOLEAN]

\* The members of the creator, the keys of the framer and what the last call
\* handed to the delegate have the values their C++ types allow; sizes and
\* the pending padding are unsigned.
TypeOK ==
    /\ DOMAIN creator = CreatorMembers
    /\ \A f \in {"queued_frames", "retransmittable_frames",
                 "nonretransmittable_frames"} : creator[f] \in Seq(QuicFrames)
    /\ \A f \in {"packet_size", "packet_number", "pending_padding_bytes",
                 "max_packet_length", "max_plaintext_size", "encrypted_length",
                 "latched_hard_max_packet_length", "max_datagram_frame_size"} :
           creator[f] \in Nat
    /\ \A f \in {"has_ack", "has_stop_waiting", "has_crypto_handshake",
                 "has_ack_frequency", "has_message", "needs_full_padding",
                 "flusher_attached", "send_version_in_packet",
                 "have_diversification_nonce"} : creator[f] \in BOOLEAN
    /\ creator.packet_number_length \in 1..4
    /\ creator.encryption_level \in EncryptionLevels
    /\ encrypters \subseteq EncryptionLevels
    /\ \A i \in DOMAIN emitted :
           /\ emitted[i].encrypted_length \in Nat \ {0}
           /\ emitted[i].retransmittable_frames \in Seq(QuicFrames)
           /\ emitted[i].nonretransmittable_frames \in Seq(QuicFrames)
    /\ coalesced.length \in 0..coalesced.max_packet_length
    /\ coalesced.encrypted_buffers \in [EncryptionLevels -> Nat]
    /\ contexts \in Seq(PeerAddresses \cup {NoAddress})
    /\ Len(contexts) <= MaxPeerAddressContexts
    /\ connected \in BOOLEAN

\* Invariant 2 of the packet under construction: while frames are queued,
\* packet_size_ is exactly what BuildDataPacket will write for the header
\* and the queue (the DCHECK_EQ of SerializePacket), whatever mix of
\* AddFrame, coalescing and header changes produced the queue.
PacketSizeAccounting ==
    HasPendingFrames(creator) => creator.packet_size = WrittenLength(creator)

\* As long as the connection is open, packet_'s frame lists and
\* queued_frames_ describe the same packet between calls: every queued frame
\* is in one of the two lists and nothing else is.  AddFrame fills them
\* together and OnSerializedPacket empties them together;
\* ~ScopedSerializationFailureHandler clears queued_frames_ alone, and what
\* it leaves in packet_ is harmless only because every failure it handles
\* is also reported through OnUnrecoverableError.
QueueMatchesPacket ==
    connected =>
        Len(creator.queued_frames)
            = Len(creator.retransmittable_frames)
              + Len(creator.nonretransmittable_frames)

\* Every packet of a version with header protection carries at least
\* MinPlaintextPacketSize bytes behind its header, so that the sample of
\* the header protection exists: GetSerializedFrameLength reserves the room
\* and MaybeAddExtraPaddingForHeaderProtection fills it, on the queue path
\* and in CreateAndSerializeStreamFrame.
HeaderProtectionMinimum ==
    \A i \in DOMAIN emitted :
        emitted[i].frame_bytes >= MinPlaintextPacketSize

\* No packet is longer than the max_packet_length_ in force when it was
\* built: BytesFree, the expansion of the last frame and the padding
\* together never overrun the plaintext limit.
EmittedWithinLimit ==
    \A i \in DOMAIN emitted :
        emitted[i].encrypted_length <= emitted[i].max_packet_length

\* FillPacketHeader: the packets of a call carry strictly increasing packet
\* numbers, all above the number the creator held before the call, and the
\* creator's own number never goes back, SkipNPacketNumbers with a count
\* whose sum wraps included.
PacketNumbersIncrease ==
    [][/\ creator'.packet_number >= creator.packet_number
       /\ \A i \in DOMAIN emitted' :
              /\ emitted'[i].packet_number <= creator'.packet_number
              /\ emitted'[i].packet_number >
                     IF i = 1 THEN creator.packet_number
                     ELSE emitted'[i - 1].packet_number]_vars

\* The payload bytes of the stream frames among `frames'.
StreamBytes(frames) ==
    FoldFunction(+, 0, [i \in DOMAIN frames |->
        IF frames[i].type = "STREAM_FRAME" THEN frames[i].len ELSE 0])

SentStreamBytes(packets) ==
    FoldFunction(+, 0, [i \in DOMAIN packets |->
        StreamBytes(packets[i].retransmittable_frames)])

\* ConsumeData reports exactly the bytes it put into frames: what it
\* returns as bytes_consumed is what the packets it emitted and the frames
\* it left queued carry beyond the stream bytes that were queued before,
\* across coalescing, the flushes of the loop and the fast path.
StreamBytesConserved ==
    [][result'.op = "ConsumeData" /\ errors' = <<>> =>
          SentStreamBytes(emitted') + StreamBytes(creator'.queued_frames)
              = StreamBytes(creator.queued_frames)
                + result'.value.bytes_consumed]_vars

\* The items of a frame for the ledger: the bytes of a stream or crypto
\* frame one by one, the end of the stream, or the frame itself.
ItemsOfFrame(frame) ==
    IF frame.type \in {"STREAM_FRAME", "CRYPTO_FRAME"}
    THEN [i \in 1..frame.len |-> <<frame.type, frame.id, frame.offset + i - 1>>]
         \o (IF frame.fin THEN <<<<frame.type, frame.id, -1>>>> ELSE <<>>)
    ELSE <<<<frame.type, 0, 0>>>>

ItemsOf(frames) ==
    FlattenSeq([i \in DOMAIN frames |-> ItemsOfFrame(frames[i])])

\* The items of the packets the delegate received during the last call.
ItemsSent ==
    FlattenSeq([i \in DOMAIN emitted |->
                   ItemsOf(emitted[i].retransmittable_frames)])

\* What a call may have accepted, by what it returned: the bytes
\* ConsumeData and ConsumeCryptoData report as consumed, at one of the
\* offsets a write starts from; the frame ConsumeRetransmittableControlFrame
\* and AddMessageFrame report as added.
Accepted(r) ==
    CASE r.op = "ConsumeData" ->
           {ItemsOfFrame(StreamFrame(id, r.value.fin_consumed, offset,
                                     r.value.bytes_consumed)) :
               id \in StreamIds, offset \in Offsets}
      [] r.op = "ConsumeCryptoData" ->
           {ItemsOfFrame(CryptoFrame(offset, r.value.bytes_consumed)) :
               offset \in Offsets}
      [] r.op = "ConsumeRetransmittableControlFrame" /\ r.value.ok ->
           {ItemsOfFrame(ControlFrame(type)) : type \in ControlFrameTypes}
      [] r.op = "AddMessageFrame"
           /\ r.value.status = "MESSAGE_STATUS_SUCCESS" ->
           {ItemsOfFrame(MessageFrame(0))}
      [] OTHER -> {<<>>}

Ledger ==
    INSTANCE FrameLedger
        WITH unsent  <- ItemsOf(creator.retransmittable_frames),
             wire    <- ItemsSent,
             accepts <- Accepted(result),
             open    <- connected

\* The creator implements the ledger: across coalescing of stream frames,
\* the flushes inside AddFrame and ConsumeData, the fast path and the
\* frames a bundled ACK pushes out, every byte and control frame a call
\* reports as accepted leaves exactly once, in the order of acceptance,
\* with the offsets it was written at; nothing else leaves, and only an
\* unrecoverable error drops what is queued.
PacketizesLosslessly == Ledger!Spec

\* The retransmittable frames of the packets of the last call and of the
\* packet under construction.
PacketsInHand ==
    [i \in DOMAIN emitted |-> emitted[i]] \o <<creator>>

\* Invariant 5: a handshake frame shares its packet with no other
\* retransmittable frame.  ConsumeCryptoData and ConsumeData on the crypto
\* stream flush what is queued before the frame and the packet after it,
\* whatever the delegate answers in between.
HandshakeAlone ==
    \A i \in DOMAIN PacketsInHand :
        LET frames == PacketsInHand[i].retransmittable_frames
        IN  (\E k \in DOMAIN frames : IsHandshakeFrame(frames[k]))
                => Len(frames) = 1

\* A handshake packet that goes to the writer fills max_packet_length_:
\* needs_full_padding survives from ConsumeCryptoDataToFillCurrentPacket
\* (or ConsumeDataToFillCurrentPacket) through AddFrame and the flush to
\* MaybeAddPadding.
HandshakeFullyPadded ==
    \A i \in DOMAIN emitted :
        emitted[i].has_crypto_handshake /\ emitted[i].fate = "SEND_TO_WRITER"
            => emitted[i].encrypted_length = emitted[i].max_packet_length

\* The handshake frames among the retransmittable frames of the packets.
HandshakeFramesOf(packets) ==
    SelectSeq(FlattenSeq([i \in DOMAIN packets |->
                             packets[i].retransmittable_frames]),
              IsHandshakeFrame)

\* A stream frame of write_length bytes at offset is all a packet with the
\* header of the moment has to carry.
FitsPacketOfItsOwn(id, offset, write_length) ==
    GetMinStreamFrameSize(id, offset, TRUE, write_length) + write_length
        <= creator.max_plaintext_size - PacketHeaderSize(creator)

\* "Explicitly disallow multi-packet CHLOs": what a client writes on the
\* crypto stream at ENCRYPTION_INITIAL leaves whole, in one frame of one
\* packet that ConsumeData flushes before it returns, or not at all.  The
\* test of ConsumeDataToFillCurrentPacket sits behind the room test, the
\* flush of ConsumeData and the bundled ACK, and every pass of the loop
\* goes through it.
ClientHelloInOnePacket ==
    [][\A d \in DelegateAnswers, write_length \in WriteLengths,
          offset \in Offsets, state \in SendingStates :
          /\ result'.op = "ConsumeData"
          /\ StreamFrameIsClientHello(
                 creator, StreamFrame(kCryptoStreamId, FALSE, offset, 0))
          /\ CallConsumeData(d, kCryptoStreamId, write_length, offset, state)
          => LET sent == HandshakeFramesOf(emitted')
             IN  \/ /\ result'.value.bytes_consumed = write_length
                    /\ Len(sent) = 1
                    /\ sent[1].len = write_length
                    /\ ~HasPendingFrames(creator')
                 \/ /\ result'.value.bytes_consumed = 0
                    /\ sent = <<>>]_vars

\* QUIC_CRYPTO_CHLO_TOO_LARGE is the answer to a client hello that "won't
\* fit in a single packet": ConsumeData closes the connection with it only
\* over a write that a packet of its own has no room for.
ClientHelloThatFitsIsSent ==
    [][\A d \in DelegateAnswers, write_length \in WriteLengths,
          offset \in Offsets, state \in SendingStates :
          /\ Contains(errors', "QUIC_CRYPTO_CHLO_TOO_LARGE")
          /\ CallConsumeData(d, kCryptoStreamId, write_length, offset, state)
          => ~FitsPacketOfItsOwn(kCryptoStreamId, offset, write_length)]_vars

\* Invariant 4: stream data never leaves, and is never queued, below
\* ENCRYPTION_ZERO_RTT; AddFrame and the fast path refuse it at the level
\* current when the data arrives, not the level when the flusher attached.
StreamDataEncrypted ==
    \A i \in DOMAIN PacketsInHand :
        LET frames == PacketsInHand[i].retransmittable_frames
        IN  PacketsInHand[i].encryption_level < ENCRYPTION_ZERO_RTT
                => \A k \in DOMAIN frames :
                       frames[k].type = "STREAM_FRAME"
                           => IsCryptoStreamId(frames[k].id)

\* The limit no soft limit may exceed and the removal of one restores.
HardMaxPacketLength(c) ==
    IF c.latched_hard_max_packet_length # 0
    THEN c.latched_hard_max_packet_length ELSE c.max_packet_length

LimitSetters ==
    {"SetMaxPacketLength", "SetSoftMaxPacketLength",
     "GenerateMtuDiscoveryPacket"}

\* Writing never changes the hard limit: a soft limit that AddFrame,
\* HasRoomForStreamFrame, CreateCryptoFrame, HasRoomForMessageFrame or
\* OnSerializedPacket removes gives way to exactly the limit that was
\* latched when it was set.
WritesKeepHardLimit ==
    [][result'.op \notin LimitSetters =>
          HardMaxPacketLength(creator') = HardMaxPacketLength(creator)]_vars

\* The hard limit is what SetMaxPacketLength last set: a soft limit and an
\* MTU probe (which "resets the packet length back") leave it as it was.
HardLimitSetExplicitly ==
    [][result'.op # "SetMaxPacketLength" =>
          HardMaxPacketLength(creator') = HardMaxPacketLength(creator)]_vars

\* "The creator is always flushed if there's not enough room for a new
\* stream frame before ConsumeData, so ConsumeData should always succeed":
\* ConsumeDataToFillCurrentPacket never fails inside the loop of ConsumeData.
ConsumeDataAlwaysSucceeds ==
    "Failed to ConsumeData" \in bugs => errors # <<>>

\* MaybeAddPadding asserts that AddFrame takes the padding frame it has
\* sized from BytesFree ("Failed to add padding_bytes" is a QUIC_BUG): the
\* padding it asks for is never more than the room that AddFrame finds,
\* with the expansion of the frame queued last and the header-protection
\* minimum taken off, and a packet without room is left as it is.
PaddingAlwaysAdded ==
    "Failed to add padding_bytes" \notin bugs

\* "Only one ACK per packet": no packet carries two ACK frames, however the
\* calls that bundle an ACK and FlushAckFrame follow each other.
OneAckPerPacket ==
    \A i \in DOMAIN PacketsInHand :
        Cardinality({k \in DOMAIN PacketsInHand[i].nonretransmittable_frames :
            PacketsInHand[i].nonretransmittable_frames[k].type = "ACK_FRAME"})
            <= 1

\* Frames queued for one peer address never leave for another: when the
\* default address changes (SetDefaultPeerAddress), what was queued has left
\* in a packet addressed to the old peer and nothing stays queued.
QueuedForOldAddress ==
    [][/\ creator.peer_address # NoAddress
       /\ creator'.peer_address # creator.peer_address
       => /\ ~HasPendingFrames(creator')
          /\ HasPendingFrames(creator) /\ errors' = <<>>
             => /\ emitted' # <<>>
                /\ emitted'[1].peer_address = creator.peer_address]_vars

\* Whether a packet of encrypted_length bytes has room for padding under its
\* limit.  MaybeAddPadding pads where BytesFree() is not 0, and BytesFree
\* takes off the length field the last frame needs once padding follows it:
\* a packet that ends that close to the limit in a stream or message frame
\* leaves as it is.
HasRoomForPadding(packet) ==
    LET room == packet.max_packet_length - packet.encrypted_length
    IN  /\ room > 0
        /\ \A k \in DOMAIN packet.retransmittable_frames :
               room > ExpansionOnNewFrameWithLastFrame(
                          packet.retransmittable_frames[k])

\* A packet with a PATH_CHALLENGE, a PATH_RESPONSE or an MTU_DISCOVERY frame
\* that goes to the writer is padded as far as MaybeAddPadding pads (for the
\* MTU probe: up to the target), also when the frame joined frames already
\* queued or was retried behind a flush (AddPaddedSavedFrame,
\* AddPaddedFrameWithRetry): needs_full_padding_ reaches the serialization
\* of the packet that carries the frame.
ProbesFullyPadded ==
    \A i \in DOMAIN emitted :
        /\ emitted[i].fate = "SEND_TO_WRITER"
        /\ \E k \in DOMAIN emitted[i].nonretransmittable_frames :
               emitted[i].nonretransmittable_frames[k].type \in
                   {"PATH_CHALLENGE_FRAME", "PATH_RESPONSE_FRAME",
                    "MTU_DISCOVERY_FRAME"}
        => ~HasRoomForPadding(emitted[i])

\* "Padding coalesced packet containing initial packet to full": when
\* SerializeCoalescedPacket returns a datagram that holds an INITIAL packet
\* (not the connection close of a server), the datagram is exactly as long
\* as the limit under which its packets were collected, whatever the
\* creator wrote, padded or was told between the packet's first
\* serialization and this one.
CoalescedFillsDatagram ==
    [][/\ result'.op = "SerializeCoalescedPacket"
       /\ result'.value.length # 0
       /\ coalesced.initial_packet # NoPacket
       /\ ~IsServerConnectionClose(coalesced.initial_packet)
       => result'.value.length = coalesced.max_packet_length]_vars

\* ReserializeInitialPacketInCoalescedPacket borrows packet_ and the frame
\* queue: when SerializeCoalescedPacket returns, the creator has the packet
\* number, number length and level it had before (the saved packet's number
\* is used again, not a new one), nothing of the saved packet stays queued
\* and none of its frames went to the delegate a second time.
CoalescingBorrowsPacket ==
    [][result'.op = "SerializeCoalescedPacket" =>
          /\ creator'.packet_number = creator.packet_number
          /\ creator'.packet_number_length = creator.packet_number_length
          /\ creator'.encryption_level = creator.encryption_level
          /\ creator'.queued_frames = creator.queued_frames
          /\ creator'.retransmittable_frames = creator.retransmittable_frames
          /\ emitted' = <<>>]_vars

\* The operations that return a connectivity probe.
ProbeSerializers ==
    {"SerializeConnectivityProbingPacket",
     "SerializePathChallengeConnectivityProbingPacket",
     "SerializePathResponseConnectivityProbingPacket"}

\* A connectivity probe is built beside the open packet: the three
\* serializers leave the frame queue and its accounting as they were, the
\* probe never exceeds the limit in force, and when nothing is queued a padded
\* PING or PATH_CHALLENGE probe that could be built (the DCHECK(length))
\* is exactly as long as the hard limit, also when a soft limit was in
\* force: RemoveSoftMaxPacketLength comes before the header is filled.
ProbeBesideOpenPacket ==
    [][result'.op \in ProbeSerializers =>
          /\ creator'.queued_frames = creator.queued_frames
          /\ creator'.packet_size = creator.packet_size
          /\ HardMaxPacketLength(creator') = HardMaxPacketLength(creator)
          /\ result'.value.encrypted_length <= creator'.max_packet_length
          /\ /\ ~HasPendingFrames(creator)
             /\ result'.value.encrypted_length # 0
             /\ result'.op # "SerializePathResponseConnectivityProbingPacket"
             => result'.value.encrypted_length
                    = HardMaxPacketLength(creator)]_vars

\* GetGuaranteedLargestMessagePayload and AddMessageFrame: a message no
\* longer than the guaranteed payload is sent, whatever is queued in front
\* of it, whichever limit, soft or hard, is in force, and whatever the
\* header of the moment is; the guarantee is never above what
\* GetCurrentLargestMessagePayload admits (the DCHECK_LE of the method).
GuaranteedMessageIsSent ==
    [][result'.op = "AddMessageFrame" =>
         \A d \in DelegateAnswers, message_length \in MessageLengths :
             /\ message_length <= GetGuaranteedLargestMessagePayload(Call(d))
             /\ CallAddMessageFrame(d, message_length)
             => result'.value.status = "MESSAGE_STATUS_SUCCESS"]_vars

\* Flush: no frame stays in the open packet for ever.  Whatever path queued
\* it (a write that did not fill the packet, a bundled ACK, a frame behind
\* a flush inside AddFrame), the end of the flusher's scope serializes it,
\* whether or not the delegate lets further packets go; only the end of the
\* connection or of the packet numbers of the model excuses it.
QueuedFramesLeave ==
    HasPendingFrames(creator)
        ~> (~HasPendingFrames(creator) \/ ~connected \/ ~MayEmit)

\* FlushCurrentPacket and SendRemainingPendingPadding: pending padding is
\* not stranded.  A packet of padding alone is serialized when nothing else
\* is queued, so the padding leaves at the end of a flusher's scope even if
\* the delegate lets no further packet go, and padding that was added
\* outside a scope leaves with the next one.
PendingPaddingLeaves ==
    creator.pending_padding_bytes > 0
        ~> (creator.pending_padding_bytes = 0 \/ ~connected \/ ~MayEmit)

----------------------------------------------------------------------------
(* The fast path against the frame queue.                                  *)

\* One packet of stream data built the long way: the frame is created,
\* queued by AddFrame and flushed.
QueuedPath(s, id, data_size, offset, fin, transmission_type) ==
    FlushCurrentPacket(
        ConsumeDataToFillCurrentPacket(s, id, data_size, offset, fin, FALSE,
                                       transmission_type))

\* What is left of a write when the fast path builds a packet: more than a
\* packet holds, a write of the run, or the last bytes, few enough to need
\* padding or just too many.
FastPathRemainders ==
    1..MinPlaintextPacketSize \cup {kMaxOutgoingPacketSize + 1} \cup WriteLengths

\* What the peer and the loss detection see of the packets.
OnTheWire(packets) ==
    [i \in DOMAIN packets |->
        [f \in {"packet_number", "packet_number_length", "encryption_level",
                "encrypted_length", "retransmittable_frames",
                "transmission_type", "fate"} |-> packets[i][f]]]

\* The states in which ConsumeData takes the fast path.
FastPathTaken(s) ==
    /\ connected
    /\ ~HasPendingFrames(s)
    /\ s.latched_hard_max_packet_length = 0
    /\ ~SendsStreamDataUnencrypted(s)
    /\ s.encryption_level \in s.enc

\* The calls the loop of the fast path makes: the first with more than a
\* buffer holds, the following ones behind the bytes of the first.
FastPathCalls ==
    {c \in [id : {n \in StreamIds : ~IsCryptoStreamId(n)},
            size : FastPathRemainders,
            offset : Offsets \cup {kMaxOutgoingPacketSize}, fin : BOOLEAN] :
        c.size > kMaxOutgoingPacketSize \/ c.offset > 0}

\* The fast path and the frame queue hand over the same packet (as long,
\* with the same frame, number and type) and leave the same creator, and a
\* packet the fast path fills carries what StreamFramePacketOverhead
\* leaves of the plaintext limit.
PathsAgree(s, c) ==
    LET type == s.next_transmission_type
        fast == CreateAndSerializeStreamFrame(s, c.id, c.size, 0, c.offset,
                                             c.fin, type)
        slow == QueuedPath(s, c.id, c.size, c.offset, c.fin, type)
        overhead == StreamFramePacketOverhead(
                        GetDestinationConnectionIdLength(s),
                        GetSourceConnectionIdLength(s),
                        IncludeVersionInHeader(s),
                        IncludeNonceInPublicHeader(s),
                        GetPacketNumberLength(s),
                        GetRetryTokenLengthLength(s),
                        GetLengthLength(s), c.offset)
    IN  /\ OnTheWire(fast.out) = OnTheWire(slow.out)
        /\ fast.bug = slow.bug
        /\ \A f \in CreatorMembers : fast[f] = slow[f]
        /\ c.size > s.max_plaintext_size /\ VarInt62Len(c.id) = 1
           => fast.frame.len = s.max_plaintext_size - overhead

\* "The fast path and the slow path must agree on the packets they
\* produce": CreateAndSerializeStreamFrame writes header, frame and padding
\* itself, in code parallel to CreateStreamFrame, AddFrame, MaybeAddPadding
\* and SerializePacket, and wherever ConsumeData takes it the result is
\* that of the frame queue.
FastPathIsQueuePath ==
    \A c \in FastPathCalls : FastPathTaken(PlainCall) => PathsAgree(PlainCall, c)

\* What the two paths treat differently: padding that is pending, the full
\* padding of a probing retransmission (the fast path never calls
\* MaybeAddPadding), and a frame one byte short of the header-protection
\* minimum, which its length field alone brings there.
PaddedAlike(s, c) ==
    /\ s.pending_padding_bytes = 0
    /\ s.next_transmission_type # "PROBING_RETRANSMISSION"
    /\ GetMinStreamFrameSize(c.id, c.offset, TRUE, c.size) + c.size
           # MinPlaintextPacketSize - 1

\* The fast path of ConsumeData builds the packet the frame queue would
\* build from the same bytes, under every limit, header and packet number
\* length the creator reaches, in all cases but the three of PaddedAlike:
\* the two implementations of frame size, header-protection padding,
\* packet number, fate and transmission type are one.
FastPathAgreesWithQueue ==
    \A c \in FastPathCalls :
        FastPathTaken(PlainCall) /\ PaddedAlike(PlainCall, c)
            => PathsAgree(PlainCall, c)

\* "Packet transmission type is determined by the last added
\* retransmittable frame" (AddFrame): when ConsumeData has put stream data
\* into the packet that stays open, the packet has the transmission type
\* the data were written under, the one SetTransmissionType announced.
PacketTypeOfLastFrame ==
    [][/\ result'.op = "ConsumeData"
       /\ result'.value.bytes_consumed > 0
       /\ HasPendingRetransmittableFrames(creator')
       => creator'.transmission_type = creator.next_transmission_type]_vars

=============================================================================
