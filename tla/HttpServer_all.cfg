CONSTANTS
    Conn = {k1, k2}
    None = None
    Configs <- MCConfigs
    NIn = 1
    NOut = 2
    WithCmd <- MCWithCmd
    PluginNos <- MCPluginNos
SPECIFICATION Spec
SYMMETRY ConnSymmetry
CHECK_DEADLOCK FALSE
INVARIANTS
    ConnectionsServed
    AnswersRight
