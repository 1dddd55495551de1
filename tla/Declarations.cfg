CONSTANTS
    x = x
    y = y
    Name <- MCName
    Subject <- MCSubject
    Known = {}
    Misread = {}
    Program <- MCProgram
    MaxOps = 4
    MaxItems = 9
SPECIFICATION MCSpec
SYMMETRY Symmetry
INVARIANTS
    NamesResolved
    ScopesExact
    CallsExact
    NoFalseErrors
    AllTypesRight
CHECK_DEADLOCK FALSE
