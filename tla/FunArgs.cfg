SPECIFICATION Spec
CONSTANT Project <- MCProject
PROPERTIES RefactoredRight ScanEnds
CHECK_DEADLOCK FALSE
