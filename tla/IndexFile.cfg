SPECIFICATION Spec
CONSTANTS
    Tool = {t1, t2}
    Parts = 1
    Slack = 1
    MaxRun = 3
    MaxClock = 1
    MaxVersion = 2
SYMMETRY ToolSymmetry
VIEW LiveView
CHECK_DEADLOCK FALSE
INVARIANT TypeOK
INVARIANT OpenedSound
INVARIANT ReadsWhatItBuilt
PROPERTY StaysWhole
