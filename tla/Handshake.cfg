SPECIFICATION Spec
CONSTANTS
    Version <- IetfVersion
    Perspective = "IS_CLIENT"
    kMaxOutgoingPacketSize = 56
    kDefaultMaxPacketSize = 54
    kDiversificationNonceSize = 2
    kMinAckFrameSize = 3
    kMaxAcceptedDatagramFrameSize = 30
    ServerConnectionIdLength = 0
    StreamIds = {4}
    WriteLengths = {6, 58}
    CryptoLengths = {3, 45}
    SendingStates = {"FIN"}
    Offsets = {0}
    AckSizes = {5}
    ControlFrameTypes <- None
    MessageLengths <- None
    PathFrames <- None
    MaxPacketLengths <- None
    MtuTargets <- None
    SoftLengths <- None
    PaddingSizes = {4}
    PendingPaddingSizes <- None
    MaxPendingPadding = 8
    DatagramFrameSizes <- None
    TransmissionTypes <- None
    Levels = {0, 3}
    EncrypterLevels = {3}
    SkipCounts <- None
    PacketsInFlight <- None
    Fates = {"SEND_TO_WRITER", "COALESCE"}
    PeerAddresses <- None
    Probes <- None
    ProbePayloads <- None
    MaxPeerAddressContexts = 0
    ServerConnectionIdLengths <- None
    ClientConnectionIdLengths <- None
    RetryTokenLengths = {2}
    EnforceSinglePacketChlo = TRUE
    KeysBeforeLevel = TRUE
    IdsBetweenPackets = TRUE
    LevelBetweenPackets = TRUE
    GenerateAnswers <- TwoAnswers
    PacketNumberSpace = 16
    MaxNesting = 3
    MaxPacketNumber = 2
INVARIANTS
    HandshakeAlone
    HandshakeFullyPadded
    StreamDataEncrypted
PROPERTIES
    CoalescedFillsDatagram
    CoalescingBorrowsPacket
CHECK_DEADLOCK FALSE
