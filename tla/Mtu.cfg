SPECIFICATION Spec
CONSTANTS
    Version <- IetfVersion
    Perspective = "IS_SERVER"
    kMaxOutgoingPacketSize = 36
    kDefaultMaxPacketSize = 34
    kDiversificationNonceSize = 2
    kMinAckFrameSize = 3
    kMaxAcceptedDatagramFrameSize = 30
    ServerConnectionIdLength = 0
    StreamIds = {4}
    WriteLengths = {3}
    CryptoLengths <- None
    SendingStates = {"NO_FIN"}
    Offsets = {0}
    AckSizes <- None
    ControlFrameTypes = {"WINDOW_UPDATE_FRAME"}
    MessageLengths = {3, 9}
    PathFrames <- None
    MaxPacketLengths = {32, 34}
    MtuTargets = {36}
    SoftLengths = {21, 25}
    PaddingSizes = {4}
    PendingPaddingSizes <- None
    MaxPendingPadding = 8
    DatagramFrameSizes = {10}
    TransmissionTypes <- None
    Levels = {3}
    EncrypterLevels = {3}
    SkipCounts <- None
    PacketsInFlight <- None
    Fates = {"SEND_TO_WRITER"}
    PeerAddresses <- None
    Probes = {"PATH_CHALLENGE"}
    ProbePayloads = {1, 2}
    MaxPeerAddressContexts = 0
    ServerConnectionIdLengths <- None
    ClientConnectionIdLengths <- None
    RetryTokenLengths <- None
    EnforceSinglePacketChlo = TRUE
    KeysBeforeLevel = TRUE
    IdsBetweenPackets = TRUE
    LevelBetweenPackets = TRUE
    GenerateAnswers <- ThreeAnswers
    PacketNumberSpace = 16
    MaxNesting = 3
    MaxPacketNumber = 2
INVARIANTS
    ProbesFullyPadded
    FastPathAgreesWithQueue
PROPERTIES
    WritesKeepHardLimit
    ProbeBesideOpenPacket
    GuaranteedMessageIsSent
CHECK_DEADLOCK FALSE
