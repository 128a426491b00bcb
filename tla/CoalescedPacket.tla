-------------------------- MODULE CoalescedPacket --------------------------
(***************************************************************************)
(* QuicCoalescedPacket, the datagram the connection fills with one packet  *)
(* per encryption level before it asks the creator to serialize it         *)
(* (QuicPacketCreator::SerializeCoalescedPacket).  Its source is outside   *)
(* src/; it is modelled from section 4.5 of spec.md and from what          *)
(* SerializeCoalescedPacket reads of it: length(), max_packet_length(),    *)
(* initial_packet() and CopyEncryptedBuffers().                            *)
(*                                                                         *)
(* The INITIAL packet is kept with its frames, because it is serialized    *)
(* again with padding; of the packets of the other levels only the length  *)
(* of the encrypted buffer matters.                                        *)
(***************************************************************************)
EXTENDS PacketSizes

NoPacket == [encrypted_length |-> 0]

\* A coalesced packet nothing has been added to.
NoCoalescedPacket ==
    [initial_packet    |-> NoPacket,
     length            |-> 0,
     max_packet_length |-> 0,
     peer_address      |-> "none",
     encrypted_buffers |-> [level \in EncryptionLevels |-> 0]]

ContainsPacketOfEncryptionLevel(coalesced, level) ==
    \/ coalesced.encrypted_buffers[level] # 0
    \/ level = ENCRYPTION_INITIAL /\ coalesced.initial_packet # NoPacket

\* One packet per level, all for one peer and under one length limit,
\* and never more bytes than the limit the first packet arrived under.
CanCoalescePacket(coalesced, packet, current_max_packet_length) ==
    /\ packet.encrypted_length # 0
    /\ ~ContainsPacketOfEncryptionLevel(coalesced, packet.encryption_level)
    /\ \/ coalesced.length = 0
          /\ packet.encrypted_length <= current_max_packet_length
       \/ /\ coalesced.length # 0
          /\ coalesced.peer_address = packet.peer_address
          /\ coalesced.max_packet_length = current_max_packet_length
          /\ coalesced.length + packet.encrypted_length
                 <= coalesced.max_packet_length

\* MaybeCoalescePacket: the packet joins the datagram, or the datagram stays
\* as it is.  The first packet settles the limit and the peer.
MaybeCoalescePacket(coalesced, packet, current_max_packet_length) ==
    IF ~CanCoalescePacket(coalesced, packet, current_max_packet_length)
    THEN coalesced
    ELSE [coalesced EXCEPT
             !.length = @ + packet.encrypted_length,
             !.max_packet_length =
                 IF coalesced.length = 0 THEN current_max_packet_length ELSE @,
             !.peer_address =
                 IF coalesced.length = 0 THEN packet.peer_address ELSE @,
             !.initial_packet =
                 IF packet.encryption_level = ENCRYPTION_INITIAL
                 THEN packet ELSE @,
             !.encrypted_buffers[packet.encryption_level] =
                 IF packet.encryption_level = ENCRYPTION_INITIAL
                 THEN @ ELSE packet.encrypted_length]

\* The bytes of the buffers of the levels above INITIAL.
EncryptedBuffersLength(coalesced) ==
    FoldFunction(+, 0, coalesced.encrypted_buffers)

\* CopyEncryptedBuffers: the buffers are copied behind each other in the
\* order of their levels; the number of bytes copied, -1 when a buffer does
\* not fit what is left of buffer_len.
CopyEncryptedBuffers(coalesced, buffer_len) ==
    IF EncryptedBuffersLength(coalesced) > buffer_len THEN -1
    ELSE EncryptedBuffersLength(coalesced)

=============================================================================
