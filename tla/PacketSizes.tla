---------------------------- MODULE PacketSizes ----------------------------
(***************************************************************************)
(* Size arithmetic of the outgoing packet assembly core.                   *)
(*                                                                         *)
(* The frame codec (QuicFramer), the varint writer (QuicDataWriter) and    *)
(* the wire constants are collaborators of QuicPacketCreator whose source  *)
(* is outside src/.  Their sizing functions are modelled here from         *)
(* sections 4.1 and 6 of spec.md; the AEAD sizes are those of              *)
(* NullEncrypter (src/quic/core/crypto/null_encrypter.cc).  A frame is a   *)
(* record whose payload is only a length: the bytes themselves never       *)
(* influence the assembly.                                                 *)
(***************************************************************************)
EXTENDS Integers, Sequences, FiniteSetsExt, Functions

CONSTANTS
    Version,                    \* predicates of the negotiated version
    Perspective,                \* "IS_CLIENT" or "IS_SERVER"
    kMaxOutgoingPacketSize,     \* size of every serialization buffer
    kDefaultMaxPacketSize,      \* max_packet_length_ after construction
    kDiversificationNonceSize,  \* bytes of a diversification nonce
    kMinAckFrameSize            \* smallest ACK frame the codec can truncate to

ASSUME Version \in [ietf_header : BOOLEAN, ietf_frames : BOOLEAN,
                    long_header_lengths : BOOLEAN, header_protection : BOOLEAN,
                    crypto_frames : BOOLEAN, var_pn_long : BOOLEAN,
                    client_cids : BOOLEAN, message_frames : BOOLEAN,
                    uses_tls : BOOLEAN]
ASSUME Perspective \in {"IS_CLIENT", "IS_SERVER"}

\* quic_versions.h: the length field of long headers and CRYPTO frames
\* come with one and the same version.
QuicVersionHasLongHeaderLengths == Version.long_header_lengths
QuicVersionUsesCryptoFrames     == Version.crypto_frames
ASSUME QuicVersionHasLongHeaderLengths = QuicVersionUsesCryptoFrames

ASSUME kDefaultMaxPacketSize \in Nat /\ kMaxOutgoingPacketSize \in Nat
ASSUME kDiversificationNonceSize \in Nat /\ kMinAckFrameSize \in Nat \ {0}

\* EncryptionLevel, an ordered enum.
ENCRYPTION_INITIAL        == 0
ENCRYPTION_HANDSHAKE      == 1
ENCRYPTION_ZERO_RTT       == 2
ENCRYPTION_FORWARD_SECURE == 3
EncryptionLevels == ENCRYPTION_INITIAL .. ENCRYPTION_FORWARD_SECURE

\* Wire constants that do not depend on the scale of the model.
kQuicFrameTypeSize           == 1
kPacketHeaderTypeSize        == 1
kPublicFlagsSize             == 1
kConnectionIdLengthSize      == 1
kQuicVersionSize             == 4
kQuicStreamPayloadLengthSize == 2
kQuicPathFrameBufferSize     == 8
kCryptoStreamId              == 1

RetransmittableControlFrames ==
    {"RST_STREAM_FRAME", "CONNECTION_CLOSE_FRAME", "WINDOW_UPDATE_FRAME",
     "BLOCKED_FRAME", "PING_FRAME", "ACK_FREQUENCY_FRAME"}
FrameTypes ==
    {"STREAM_FRAME", "CRYPTO_FRAME", "MESSAGE_FRAME", "ACK_FRAME",
     "STOP_WAITING_FRAME", "PADDING_FRAME", "MTU_DISCOVERY_FRAME",
     "PATH_CHALLENGE_FRAME", "PATH_RESPONSE_FRAME"}
        \cup RetransmittableControlFrames

\* A QuicFrame: `id' is the stream of a stream frame, `len' the payload
\* length (data_length, message_length, num_padding_bytes, or the encoded
\* size of an ACK), `offset' and `fin' those of a stream or crypto frame.
Frame(type, id, offset, len, fin) ==
    [type |-> type, id |-> id, offset |-> offset, len |-> len, fin |-> fin]
StreamFrame(id, fin, offset, len) == Frame("STREAM_FRAME", id, offset, len, fin)
CryptoFrame(offset, len)          == Frame("CRYPTO_FRAME", 0, offset, len, FALSE)
MessageFrame(len)                 == Frame("MESSAGE_FRAME", 0, 0, len, FALSE)
AckFrame(len)                     == Frame("ACK_FRAME", 0, 0, len, FALSE)
PaddingFrame(len)                 == Frame("PADDING_FRAME", 0, 0, len, FALSE)
ControlFrame(type)                == Frame(type, 0, 0, 0, FALSE)

\* QuicDataWriter::GetVarInt62Len: 1/2/4/8 bytes for 6/14/30/62-bit values.
VarInt62Len(value) ==
    CASE value < 64         -> 1
      [] value < 16384      -> 2
      [] value < 1073741824 -> 4
      [] OTHER              -> 8

\* QuicUtils::IsCryptoStreamId: only versions without CRYPTO frames carry
\* the handshake on a stream.
IsCryptoStreamId(id) == ~QuicVersionUsesCryptoFrames /\ id = kCryptoStreamId

\* QuicUtils::IsRetransmittableFrame.
IsRetransmittableFrame(type) ==
    type \notin {"ACK_FRAME", "PADDING_FRAME", "STOP_WAITING_FRAME",
                 "MTU_DISCOVERY_FRAME", "PATH_CHALLENGE_FRAME",
                 "PATH_RESPONSE_FRAME"}

\* QuicUtils::IsHandshakeFrame.
IsHandshakeFrame(frame) ==
    IF QuicVersionUsesCryptoFrames
    THEN frame.type = "CRYPTO_FRAME"
    ELSE frame.type = "STREAM_FRAME" /\ IsCryptoStreamId(frame.id)

\* QuicFramer::GetMinStreamFrameSize: a stream frame without its payload.
\* The length field is omitted from the last frame of a packet.
GetMinStreamFrameSize(id, offset, last_frame_in_packet, data_length) ==
    IF Version.ietf_frames
    THEN kQuicFrameTypeSize + VarInt62Len(id)
         + (IF offset = 0 THEN 0 ELSE VarInt62Len(offset))
         + (IF last_frame_in_packet THEN 0 ELSE VarInt62Len(data_length))
    ELSE kQuicFrameTypeSize + 1
         + (IF offset = 0 THEN 0 ELSE 2)
         + (IF last_frame_in_packet THEN 0 ELSE kQuicStreamPayloadLengthSize)

\* QuicFramer::GetMinCryptoFrameSize.
GetMinCryptoFrameSize(offset, data_length) ==
    kQuicFrameTypeSize + VarInt62Len(offset) + VarInt62Len(data_length)

\* QuicFramer::GetMessageFrameSize.
GetMessageFrameSize(last_frame_in_packet, length) ==
    kQuicFrameTypeSize
    + (IF last_frame_in_packet THEN 0 ELSE VarInt62Len(length)) + length

\* QuicFramer::ComputeFrameLength: the encoded size of a frame that is not
\* padding, as the last frame of its packet or followed by another.
ComputeFrameLength(frame, last_frame_in_packet, packet_number_length) ==
    CASE frame.type = "STREAM_FRAME" ->
           GetMinStreamFrameSize(frame.id, frame.offset, last_frame_in_packet,
                                 frame.len) + frame.len
      [] frame.type = "CRYPTO_FRAME" ->
           GetMinCryptoFrameSize(frame.offset, frame.len) + frame.len
      [] frame.type = "MESSAGE_FRAME" ->
           GetMessageFrameSize(last_frame_in_packet, frame.len)
      [] frame.type = "ACK_FRAME" -> frame.len
      [] frame.type = "STOP_WAITING_FRAME" ->
           kQuicFrameTypeSize + packet_number_length
      [] frame.type \in {"PATH_CHALLENGE_FRAME", "PATH_RESPONSE_FRAME"} ->
           kQuicFrameTypeSize + kQuicPathFrameBufferSize
      [] frame.type \in {"PING_FRAME", "MTU_DISCOVERY_FRAME"} ->
           kQuicFrameTypeSize
      [] OTHER -> kQuicFrameTypeSize + 2

\* QuicFramer::GetSerializedFrameLength: the bytes `frame' takes in a packet
\* with `free_bytes' left, 0 when it does not fit.  Padding shrinks to what
\* is free; only an ACK that opens a packet may be truncated.
FramerSerializedFrameLength(frame, free_bytes, first_frame, last_frame, packet_number_length) ==
    LET frame_len == ComputeFrameLength(frame, last_frame, packet_number_length)
    IN  CASE frame.type = "PADDING_FRAME" /\ frame.len = -1 -> free_bytes
          [] frame.type = "PADDING_FRAME" -> Min({free_bytes, frame.len})
          [] frame_len <= free_bytes -> frame_len
          [] /\ first_frame
             /\ frame.type = "ACK_FRAME"
             /\ free_bytes >= kMinAckFrameSize -> free_bytes
          [] OTHER -> 0

\* GetPacketHeaderSize: long header when the version is sent, short header
\* otherwise; the pre-IETF public header for versions without invariants.
GetPacketHeaderSize(destination_connection_id_length, source_connection_id_length, include_version, include_diversification_nonce, packet_number_length, retry_token_length_length, retry_token_length, length_length) ==
    LET nonce == IF include_diversification_nonce
                 THEN kDiversificationNonceSize ELSE 0
        cids  == destination_connection_id_length + source_connection_id_length
    IN  CASE Version.ietf_header /\ include_version ->
               kPacketHeaderTypeSize + 2 * kConnectionIdLengthSize
               + kQuicVersionSize + cids + packet_number_length + nonce
               + retry_token_length_length + retry_token_length + length_length
          [] Version.ietf_header ->
               kPacketHeaderTypeSize + destination_connection_id_length
               + packet_number_length
          [] OTHER ->
               kPublicFlagsSize + cids + packet_number_length + nonce
               + (IF include_version THEN kQuicVersionSize ELSE 0)

\* QuicFramer::GetMinPacketNumberLength.
GetMinPacketNumberLength(packet_number) ==
    CASE packet_number < 256      -> 1
      [] packet_number < 65536    -> 2
      [] packet_number < 16777216 -> 3
      [] OTHER                    -> 4

----------------------------------------------------------------------------
(* NullEncrypter, the AEAD primitive of the initial level.                 *)

kHashSizeShort == 12

\* NullEncrypter::GetHashLength.
GetHashLength == kHashSizeShort

\* NullEncrypter::GetMaxPlaintextSize.
EncrypterMaxPlaintextSize(ciphertext_size) == ciphertext_size - GetHashLength

\* NullEncrypter::GetCiphertextSize.
GetCiphertextSize(plaintext_size) == plaintext_size + GetHashLength

\* NullEncrypter::EncryptPacket: the length written to `output', 0 when
\* the ciphertext does not fit max_output_length.
EncryptPacket(plaintext_size, max_output_length) ==
    LET len == plaintext_size + GetHashLength
    IN  IF max_output_length < len THEN 0 ELSE len

=============================================================================
