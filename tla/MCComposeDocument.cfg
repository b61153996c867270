CONSTANT Programs <- AllFamilies
SPECIFICATION Spec
INVARIANT TypeOK
INVARIANT NamesResolve
INVARIANT ServicesReachEachOther
INVARIANT WarnedIffAbsent
INVARIANT NothingLostSilently
INVARIANT RunnableOrRefused
CHECK_DEADLOCK FALSE
