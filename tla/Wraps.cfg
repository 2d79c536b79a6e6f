SPECIFICATION PartsSpec
CONSTANTS
    MaxRetriesSet <- MCMaxRetries
    Failures <- MCFailures
    Heights = {1, 2, 3}
    FilePort = 9181
    EnvPort = 9999
    MaxChain = 3
    SignBit = 128
INVARIANT WrapErrorWraps
CHECK_DEADLOCK FALSE
