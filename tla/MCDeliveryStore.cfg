CONSTANTS
    Procs = {p1, p2}
    Gens = {g1, g2, g3}
    None = None
SPECIFICATION FairSpec
INVARIANTS
    ActiveIsSealed
PROPERTIES
    SealedForEver
    PublishIsCompareAndSet
    ImplementsHistory
    SealedIsPublished
