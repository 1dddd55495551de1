SPECIFICATION MCSpec
CONSTANTS
    File <- MCFile
    ReadOnly <- MCReadOnly
    Lexeme <- MCLexeme
    Token <- MCToken
    SameName <- MCSameName
    Attribute <- MCAttribute
    Project <- MCProject
    ClassId <- MCClassId
    Situation <- MCSituation
INVARIANTS
    Consistent
PROPERTIES
    UnifyReturns
    NothingForgotten
    ImplementsCharPartition
CHECK_DEADLOCK FALSE
