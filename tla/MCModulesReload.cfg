SPECIFICATION Spec
CONSTANT MemoryFails = FALSE
INVARIANT CompileInstalls
CHECK_DEADLOCK FALSE
