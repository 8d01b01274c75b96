SPECIFICATION Spec
CONSTANTS
    Intents = {"help", "harm"}
    Harmful = {"harm"}
    Keys = {k1, k2}
    NoHash = NoHash
    Peers = {p1}
    Forecasts = {"rain"}
    Opcodes <- MCOpcodes
    Texts <- MCTexts
    DeniablePaths <- MCDeniablePaths
    Roots <- MCRoots
    MaxCalls = 3
INVARIANTS TypeOK HarmLeavesNothing AuditIsSound DeniedStaysDenied
CHECK_DEADLOCK FALSE
