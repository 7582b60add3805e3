CONSTANTS
    Configs <- MCConfigs
    WarmUp = 1
    Threshold = 3
    MaxBacklog = 2
SPECIFICATION Spec
INVARIANT NoSharedBuffer
