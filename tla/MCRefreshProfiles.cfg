CONSTANTS
    m1 = m1
    m2 = m2
    r1 = r1
    r2 = r2
    NoMaster = NoMaster
    None = None
    Masters <- MCMasters
    MasterOrder <- MCMasterOrder
    Recs <- MCRecs
    Content <- MCContent
    MaxVer = 2
    SerialBits = 3
    SerialBase = 7
    SemSoft = FALSE
    MaxTime = 5
    Faults = {"timeout", "denied", "malformed", "notimp", "toobig", "semcheck", "commit"}

SPECIFICATION FairSpec
INVARIANT TypeOK
INVARIANT ContentsMatchVersion
INVARIANT MasterSerialTracksContents
PROPERTY NoRegression
PROPERTY PinHonoured
PROPERTY LocalSerialIncreases
PROPERTY ImplementsZoneSync
