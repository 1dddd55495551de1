SPECIFICATION MCSpec
CONSTANTS
    f = f
    g = g
    f2 = f2
    g2 = g2
    all = all
    one = one
    str = str
    blank = blank
    id = id
    fun = fun
    File <- MCFile
    Path <- MCPath
    RE <- MCRE
    To <- MCTo
    Renames <- MCRenames
    NoMatch = NoMatch
    Empty = Empty
    BadRE = BadRE
    Identifiers <- MCIdentifiers
    Functions <- MCFunctions
    Occurs <- MCOccurs
    EditorMayFail = FALSE
    DiskMayFill = FALSE
    MaxSaves = 2
    Pool <- MCPool
    Kind <- MCKind
    Default <- MCDefault
    Words <- MCWords
    Forms <- MCForms
    Earlier <- MCEarlier
    Absent = "none"
    Strip <- MCStrip
    Off = "0"
    On = "1"
    ReOption = "re"
    NoFile = NoFile
    OldLine <- MCOldLine
    CommandLine <- MCCommandLine
INVARIANTS
    Exclusive
    NothingLost
    OffsetsAreCurrent
    SavedIsAsked
    SettingsRight
CHECK_DEADLOCK FALSE
