SPECIFICATION MergeSpec
CONSTANTS
    File <- MCFile
    Negative <- MCNegative
    Twin <- MCTwin
    ReadOnly = {}
    Lexeme = {}
    Token = {}
    SameName = {}
    Attribute = {}
    Project = {"csmerge"}
    ClassId <- MCClassId
    Input <- MCInput
    MaxName = 4
INVARIANTS
    MergeExact
CHECK_DEADLOCK FALSE
