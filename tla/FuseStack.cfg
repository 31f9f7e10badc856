SPECIFICATION Spec
CONSTANTS
    Configs <- MCConfigs
    MaxOpen = 1
    MaxLost = 1
INVARIANTS BaseGetsPaths HandlerAnswers HandlesPaired
