CONSTANTS
    AutoTune = TRUE
    MaxEdits = 2
SPECIFICATION Spec
INVARIANTS OneTuner
CHECK_DEADLOCK FALSE
