SPECIFICATION Spec
CONSTANTS
    Version <- IetfVersion
    Perspective = "IS_SERVER"
    kMaxOutgoingPacketSize = 36
    kDefaultMaxPacketSize = 34
    kDiversificationNonceSize = 2
    kMinAckFrameSize = 3
    kMaxAcceptedDatagramFrameSize = 30
    ServerConnectionIdLength = 0
    StreamIds = {4}
    WriteLengths = {6, 20, 38}
    CryptoLengths <- None
    SendingStates = {"NO_FIN", "FIN"}
    Offsets = {0, 6}
    AckSizes = {5}
    ControlFrameTypes = {"WINDOW_UPDATE_FRAME"}
    MessageLengths <- None
    PathFrames <- None
    MaxPacketLengths <- None
    MtuTargets <- None
    SoftLengths <- None
    PaddingSizes = {4}
    PendingPaddingSizes <- None
    MaxPendingPadding = 8
    DatagramFrameSizes <- None
    TransmissionTypes <- None
    Levels = {3}
    EncrypterLevels = {3}
    SkipCounts <- None
    PacketsInFlight <- None
    Fates = {"SEND_TO_WRITER"}
    PeerAddresses <- None
    Probes <- None
    ProbePayloads <- None
    MaxPeerAddressContexts = 0
    ServerConnectionIdLengths <- None
    ClientConnectionIdLengths <- None
    RetryTokenLengths <- None
    EnforceSinglePacketChlo = TRUE
    KeysBeforeLevel = TRUE
    IdsBetweenPackets = TRUE
    LevelBetweenPackets = TRUE
    GenerateAnswers <- FewAnswers
    PacketNumberSpace = 16
    MaxNesting = 3
    MaxPacketNumber = 2
INVARIANTS
    FastPathIsQueuePath
CHECK_DEADLOCK FALSE
