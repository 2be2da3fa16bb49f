CONSTANTS
    q1 = q1
    q2 = q2
    q3 = q3
    q4 = q4
    r1 = r1
    r2 = r2
    r3 = r3
    NoRec = NoRec
    Reqs <- MCReqs
    Recs <- MCRecs
    Req <- MCReq
    Zone0 = {}
    Configs <- MCConfigs
    Unset = Unset
    Faults = {"alloc"}

SPECIFICATION Spec
INVARIANT NoRequestLost
