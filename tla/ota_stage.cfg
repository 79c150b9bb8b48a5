SPECIFICATION FairSpec
CONSTANTS
    a = a
    b = b
    w1 = w1
    w2 = w2
    Images = {a, b}
    Content <- MCContent
    Magic = Magic
    Junk = Junk
    Conns = {c1, c2}
    BufSize = 4
    MaxSeg = 2
    Blank = Blank
    Bad = Bad
    None = None
    LateErr = TRUE
    QspiFaults = TRUE
    MaxUpdates = 2
INVARIANTS TypeOK BufferBounds StagedIsOffered FeedsAlone WritesImageSize
PROPERTIES ImplementsStaging VerifyAnswered
