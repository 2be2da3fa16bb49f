CONSTANTS
    r1 = r1
    r2 = r2
    JunkRec = JunkRec
    None = None
    Recs <- MCRecs
    Content <- MCContent
    MaxVer = 2
    SerialBits = 3
    SerialBase = 6
    LocalVer = 0
    IxfrByOneOpts = {FALSE, TRUE}
    MaxZoneSize = 3
    Junk = TRUE
    RemoteExpires = {"none", "low", "ok"}
    Tree <- MCTree
    MaxPuts = 2
    OutFaults = {"init", "reserve"}
    ErrPkt = ErrPkt
SPECIFICATION FairSpec
INVARIANT TypeOK AnswerDecoded AnswerAccepted ExpiredRemoteNotApplied AxfrStreamExact KdigReadsKnotAnswer
PROPERTY TransferEnds
