SPECIFICATION Spec
CONSTANTS
    Char <- MCChar
    File <- MCFile
    YaccFile = {"y"}
    Text <- MCText
    Trigraphs = {TRUE, FALSE}
    Main = "w"
    NoFile = "none"
    Include <- MCInclude
    Process <- MCProcess
INVARIANTS
    PlacesRight
    ReadExactly
    LongestTokens
PROPERTIES
    ImplementsCharOrder
CHECK_DEADLOCK FALSE
