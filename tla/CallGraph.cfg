SPECIFICATION MCSpec
CONSTANTS
    Fun <- MCFun
    File <- MCFile
    Workspace <- MCWorkspace
    Depth <- MCDepth
    MaxElements <- MCMaxElements
    MaxPages <- MCMaxPages
    Database <- MCDatabase
    Form <- MCForm
    Settings <- MCSettings
    Backwards <- MCBackwards
    Matches <- MCMatches
    Accented <- MCAccented
INVARIANTS
    GraphsRight
    QueriesRight
CHECK_DEADLOCK FALSE
