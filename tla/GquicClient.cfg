SPECIFICATION FairSpec
CONSTANTS
    Version <- GoogleVersion
    Perspective = "IS_CLIENT"
    kMaxOutgoingPacketSize = 32
    kDefaultMaxPacketSize = 30
    kDiversificationNonceSize = 2
    kMinAckFrameSize = 3
    kMaxAcceptedDatagramFrameSize = 30
    ServerConnectionIdLength = 0
    StreamIds = {1, 4}
    WriteLengths = {6, 20}
    CryptoLengths <- None
    SendingStates = {"NO_FIN"}
    Offsets = {0}
    AckSizes <- None
    ControlFrameTypes = {"PING_FRAME"}
    MessageLengths <- None
    PathFrames <- None
    MaxPacketLengths <- None
    MtuTargets <- None
    SoftLengths <- None
    PaddingSizes = {4}
    PendingPaddingSizes = {3}
    MaxPendingPadding = 8
    DatagramFrameSizes <- None
    TransmissionTypes <- None
    Levels = {0, 3}
    EncrypterLevels = {3}
    SkipCounts <- None
    PacketsInFlight <- None
    Fates = {"SEND_TO_WRITER"}
    PeerAddresses <- None
    Probes <- None
    ProbePayloads <- None
    MaxPeerAddressContexts = 0
    ServerConnectionIdLengths = {2}
    ClientConnectionIdLengths = {0}
    RetryTokenLengths <- None
    EnforceSinglePacketChlo = TRUE
    KeysBeforeLevel = TRUE
    IdsBetweenPackets = TRUE
    LevelBetweenPackets = TRUE
    GenerateAnswers <- ThreeAnswers
    PacketNumberSpace = 16
    MaxNesting = 3
    MaxPacketNumber = 2
INVARIANTS
    PacketSizeAccounting
    HandshakeAlone
    PaddingAlwaysAdded
PROPERTIES
    ClientHelloInOnePacket
    QueuedFramesLeave
    PendingPaddingLeaves
CHECK_DEADLOCK FALSE
