CONSTANTS
    AutoTune = TRUE
    MaxEdits = 3
SPECIFICATION FairSpec
INVARIANTS OneInstance
PROPERTIES Exits Converges
CHECK_DEADLOCK FALSE
