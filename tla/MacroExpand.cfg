SPECIFICATION MCSpec
CONSTANTS
    Value <- MCValue
    Programs <- AllPrograms
    NoMacro = NoMacro
    Pasted <- MCPasted
    StringLiteral = "string"
INVARIANTS
    ProducersHide
    NoSelfCall
    ImplementsProsser
PROPERTIES
    Terminates
CHECK_DEADLOCK FALSE
