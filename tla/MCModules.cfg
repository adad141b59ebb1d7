SPECIFICATION Spec
CONSTANT MemoryFails = TRUE
INVARIANTS OnlyStaleStops PageIsCounted 
CHECK_DEADLOCK FALSE
