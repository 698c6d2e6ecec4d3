CONSTANTS
    w1 = w1
    w2 = w2
    b1 = b1
    r1 = r1
    c1 = c1
    Op <- MCOp
    Kind <- MCKind
    Size <- MCSize
SPECIFICATION FairSpec
INVARIANTS
    TypeOK
    AckedDurable
    AtomicImage
    FailedLeavesNothing
PROPERTIES
    DiskGrows
    ImplementsStore
    EveryCallAnswered
