SPECIFICATION RSpec
CONSTANTS
    File <- MCFile
    ReadOnly <- MCReadOnly
    Lexeme <- MCLexeme
    Token <- MCToken
    SameName <- MCSameName
    Attribute <- MCAttribute
    Project <- MCProject
    ClassId <- MCClassId
    Workspace <- MCWorkspace
INVARIANTS
    NoCapture
    RenamesExact
    IdsAreLive
    ReadOnlyUntouched
PROPERTIES
    NoFalseClash
CHECK_DEADLOCK FALSE
