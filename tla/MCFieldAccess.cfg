CONSTANT Files <- MCFiles
CONSTANT Programs <- AllFamilies
SPECIFICATION Spec
INVARIANT TypeOK
INVARIANT DocumentIsLexical
INVARIANT RefusedIffMeaningless
INVARIANT AliasesStayHome
CHECK_DEADLOCK FALSE
