SPECIFICATION FairSpec
CONSTANTS
    p1 = p1
    p2 = p2
    N = 3
    Names = {p1, p2}
    Sources <- MCSources
    NameOf <- MCNameOf
    SourceOf <- MCSourceOf
    KindOf <- MCKindOf
    HasAnnotations <- MCAnnotated
    Sizes = {1, 2}
    SizesOf <- MCSizesOf
    Existing <- MCExisting
    CHUNK = 1
    Permits = 2
    NUM_TRIES = 2
INVARIANT PermitsConserved
INVARIANT SuccessIsIntact
INVARIANT WriterAnnotates
INVARIANT ReturnMeansReported
PROPERTY Terminates
