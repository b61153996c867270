CONSTANT Files <- MCFiles
CONSTANT Programs <- Forwards
SPECIFICATION Spec
INVARIANT ForwardedAccessIsRead
CHECK_DEADLOCK FALSE
