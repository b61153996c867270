CONSTANT Programs <- AllFamilies
SPECIFICATION Spec
INVARIANT TypeOK
INVARIANT RefusedIffNoExpansion
INVARIANT DocumentIsExpansion
CHECK_DEADLOCK FALSE
