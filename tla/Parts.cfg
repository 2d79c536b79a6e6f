SPECIFICATION PartsSpec
CONSTANTS
    MaxRetriesSet <- MCMaxRetries
    Failures <- MCFailures
    Heights = {1, 2, 3}
    FilePort = 9181
    EnvPort = 9999
    MaxChain = 3
    SignBit = 128
INVARIANTS
    FieldsMeanWhatTheySay
    PostsFitTheSchema
    ConversionsAgree
    AckMeansDone
    WholeAnswerTaken
    HopelessMeansUnsent
    OneErrorStandsForAll
    HighestOrError
    LoopKnowsItsStore
    ExitsSayWhy
    ErrorsReachTheErrorFile
    DecimalsSurvive
    HexSurvives
    NoncesStayApart
    ReadyIsOfThisRun
    ErrorAccountsForAttempts
    EffectsBounded
PROPERTIES
    WrapErrorKeepsVerdict
    ClassesStick
    SignalTearsDown
    TestsEnd
    CallEnds
CHECK_DEADLOCK FALSE
