SPECIFICATION Spec
CONSTANTS
    Version <- IetfVersion
    Perspective = "IS_SERVER"
    kMaxOutgoingPacketSize = 36
    kDefaultMaxPacketSize = 34
    kDiversificationNonceSize = 2
    kMinAckFrameSize = 3
    kMaxAcceptedDatagramFrameSize = 30
    ServerConnectionIdLength = 0
    StreamIds = {4}
    WriteLengths = {6}
    CryptoLengths <- None
    SendingStates = {"FIN_AND_PADDING"}
    Offsets = {0}
    AckSizes <- None
    ControlFrameTypes <- None
    MessageLengths <- None
    PathFrames = {"PATH_CHALLENGE_FRAME", "PATH_RESPONSE_FRAME"}
    MaxPacketLengths <- None
    MtuTargets <- None
    SoftLengths <- None
    PaddingSizes = {4}
    PendingPaddingSizes = {3}
    MaxPendingPadding = 8
    DatagramFrameSizes <- None
    TransmissionTypes = {"PROBING_RETRANSMISSION"}
    Levels = {3}
    EncrypterLevels = {3}
    SkipCounts = {1, 15}
    PacketsInFlight = {1, 70}
    Fates = {"SEND_TO_WRITER"}
    PeerAddresses = {"a1", "a2"}
    Probes <- None
    ProbePayloads <- None
    MaxPeerAddressContexts = 1
    ServerConnectionIdLengths <- None
    ClientConnectionIdLengths <- None
    RetryTokenLengths <- None
    EnforceSinglePacketChlo = TRUE
    KeysBeforeLevel = TRUE
    IdsBetweenPackets = TRUE
    LevelBetweenPackets = TRUE
    GenerateAnswers <- ThreeAnswers
    PacketNumberSpace = 16
    MaxNesting = 3
    MaxPacketNumber = 2
INVARIANTS
    ProbesFullyPadded
PROPERTIES
    QueuedForOldAddress
    PacketNumbersIncrease
CHECK_DEADLOCK FALSE
