SPECIFICATION Spec
CONSTANTS
    MaxUpdates = 2
    MaxReads = 0
PROPERTIES
    FileCatchesUp
CHECK_DEADLOCK FALSE
