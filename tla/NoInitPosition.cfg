SPECIFICATION Spec
CONSTANTS
    N_AXIS = 2
    MaxPos = 1
    MaxResets = 2
    Moves <- AllMoves
INVARIANTS IdleResetIsExact RestoreNeverMixed FallbackWindow
PROPERTY SettledResetsKeepPosition
