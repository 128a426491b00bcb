SPECIFICATION Spec
CONSTANTS
    Version <- GoogleVersion
    Perspective = "IS_SERVER"
    kMaxOutgoingPacketSize = 32
    kDefaultMaxPacketSize = 30
    kDiversificationNonceSize = 2
    kMinAckFrameSize = 3
    kMaxAcceptedDatagramFrameSize = 30
    ServerConnectionIdLength = 0
    StreamIds = {4}
    WriteLengths = {6, 20}
    CryptoLengths <- None
    SendingStates = {"NO_FIN"}
    Offsets = {0, 6}
    AckSizes = {5}
    ControlFrameTypes <- None
    MessageLengths <- None
    PathFrames <- None
    MaxPacketLengths <- None
    MtuTargets <- None
    SoftLengths <- None
    PaddingSizes = {4}
    PendingPaddingSizes <- None
    MaxPendingPadding = 8
    DatagramFrameSizes <- None
    TransmissionTypes <- None
    Levels = {2, 3}
    EncrypterLevels = {2}
    SkipCounts <- None
    PacketsInFlight <- None
    Fates = {"SEND_TO_WRITER"}
    PeerAddresses <- None
    Probes = {"PING"}
    ProbePayloads <- None
    MaxPeerAddressContexts = 0
    ServerConnectionIdLengths = {0, 2}
    ClientConnectionIdLengths <- None
    RetryTokenLengths <- None
    EnforceSinglePacketChlo = TRUE
    KeysBeforeLevel = FALSE
    IdsBetweenPackets = FALSE
    LevelBetweenPackets = FALSE
    GenerateAnswers <- ThreeAnswers
    PacketNumberSpace = 16
    MaxNesting = 3
    MaxPacketNumber = 2
INVARIANTS
    EmittedWithinLimit
    QueueMatchesPacket
PROPERTIES
    StreamBytesConserved
CHECK_DEADLOCK FALSE
