SPECIFICATION MCSpec
CONSTANTS
    File <- MCFile
    NoFile = NoFile
    WorkspaceFile <- W
    Program <- MCProgram
    Project = {"p", "q", "unspecified"}
    Unspecified = "unspecified"
    Name = {"m", "n"}
    Copies <- MCCopies
    MaxOpen = 4
    Menus <- MCMenus
    Kind <- MCKind
    Object <- MCObject
    Library <- MCLibrary
    Inside <- MCInside
    MaxJobs = 2
    Mistaken = {}
INVARIANTS
    RecordsExact
    WarningsExact
    CaptureExact
CHECK_DEADLOCK FALSE
