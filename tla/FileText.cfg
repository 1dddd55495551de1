CONSTANT
    Project <- MCProject
SPECIFICATION Spec
INVARIANTS
    TextRight
CHECK_DEADLOCK FALSE
