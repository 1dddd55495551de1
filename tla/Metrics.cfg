SPECIFICATION MCSpec
CONSTANTS
    main = main
    other = other
    header = header
    self = self
    f = f
    g = g
    inner = inner
    inline = inline
    M = M
    a = a
    b = b
    c = c
    d = d
    File <- MCFile
    Fun <- MCFun
    Id <- MCId
    Item <- MCItem
    Text <- MCText
    Mains <- MCMains
    InClass <- MCInClass
    IdLen <- MCIdLen
    ReadOnly <- MCReadOnly
    MaxOpen = 4
    MaxDepth = 5
    MaxUnits = 3
INVARIANTS
    MeasuredOnce
    NestingRight
    ShownRight
    Faithful
CHECK_DEADLOCK FALSE
