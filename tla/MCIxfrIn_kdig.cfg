CONSTANTS
    r1 = r1
    r2 = r2
    JunkRec = JunkRec
    None = None
    Recs <- MCRecs
    Content <- MCContent
    MaxVer = 2
    SerialBits = 3
    SerialBase = 6
    LocalVer = 0
    IxfrByOneOpts = {FALSE}
    MaxZoneSize = 8
    Junk = FALSE
    RemoteExpires = {"none"}
    Tree <- MCTree
    MaxPuts = 2
    OutFaults = {}
    ErrPkt = ErrPkt
SPECIFICATION Spec
INVARIANT KdigReadsWholeAnswer
