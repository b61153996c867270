CONSTANT Programs <- RawClashes
SPECIFICATION Spec
INVARIANT RawEntriesKept
CHECK_DEADLOCK FALSE
