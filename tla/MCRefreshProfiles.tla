------------------------- MODULE MCRefreshProfiles -------------------------
(***************************************************************************)
(* Checks Refresh under the two zone profiles a secondary is run with, in  *)
(* one state graph: the profile is chosen in the initial state and never   *)
(* changes, as the zone configuration does not change during a refresh.    *)
(*   unsigned: no dnssec-signing, ixfr-benevolent, ixfr-by-one, a master   *)
(*             pin tolerance of 2;                                         *)
(*   signed:   dnssec-signing with its own serials, strict IXFR, whole     *)
(*             IXFR answers, no pinning.                                   *)
(* Two masters tried in a fixed order, three versions of the primary's     *)
(* zone over two records, 3-bit serials that wrap between version 0 and    *)
(* version 1.                                                              *)
(***************************************************************************)
EXTENDS Naturals, TLC

CONSTANTS
    m1, m2, r1, r2,
    Masters, MasterOrder, Recs, MaxVer, Content, SerialBits, SerialBase,
    SemSoft, MaxTime, Faults, NoMaster, None

VARIABLES
    ver, zone, zver, kms, lastSigned, lastMaster, pinHit, now, lastOk,
    forceFlag, phase, mi, xfr, fbRemote, trForce, refreshNow, notifyPending,
    contentErr,
    profile        \* the zone's configuration profile

MCMasters     == {m1, m2}
MCMasterOrder == <<m1, m2>>
MCRecs        == {r1, r2}

\* Version 0 -> 1 adds r2, version 1 -> 2 removes r1: replaying the first
\* changeset onto version 2 adds a record that is already there.
MCContent == (0 :> {r1}) @@ (1 :> {r1, r2}) @@ (2 :> {r2})

U == INSTANCE Refresh
       WITH Signing <- FALSE, Benevolent <- TRUE, IxfrByOne <- TRUE, PinTol <- 2
S == INSTANCE Refresh
       WITH Signing <- TRUE, Benevolent <- FALSE, IxfrByOne <- FALSE, PinTol <- 0

Profiles == {"unsigned", "signed"}

pvars == <<U!vars, profile>>

Init == profile \in Profiles /\ U!Init

\* A step of Refresh under profile p.
Under(p, A) == profile = p /\ A /\ UNCHANGED profile

Next == Under("unsigned", U!Next) \/ Under("signed", S!Next)

\* Refresh's fairness, taken by the profile in force.
FairSpec ==
    /\ Init /\ [][Next]_pvars
    /\ WF_pvars(Under("unsigned", U!StartRefresh))
    /\ WF_pvars(Under("signed", S!StartRefresh))
    /\ \A m \in Masters :
          /\ SF_pvars(Under("unsigned", U!TryOrder[mi] = m /\ U!SoaConsume("ok")))
          /\ SF_pvars(Under("unsigned", U!TryOrder[mi] = m /\ U!TransferConsume("ok", "ok")))
          /\ SF_pvars(Under("signed", S!TryOrder[mi] = m /\ S!SoaConsume("ok")))
          /\ SF_pvars(Under("signed", S!TryOrder[mi] = m /\ S!TransferConsume("ok", "ok")))

\* Every variable of Refresh stays within its type, and the profile is one
\* of the two.
TypeOK == U!TypeOK /\ profile \in Profiles

\* Refresh!ContentsMatchVersion: the published records are those of the
\* version they were built from, IXFR (by one or whole) or AXFR.
ContentsMatchVersion == U!ContentsMatchVersion

\* Refresh!MasterSerialTracksContents, for the signed profile: the KASP
\* master serial is the serial of the published master version.
MasterSerialTracksContents ==
    profile = "signed" => S!MasterSerialTracksContents

\* Refresh!NoRegression: no refresh publishes an older version unless a
\* retransfer was requested.
NoRegression == U!NoRegression

\* Refresh!PinHonoured, for the pinning profile: no master switch before
\* the pin tolerance has elapsed (wait4pinned_master).
PinHonoured == [][profile = "unsigned" => U!PinRespected]_pvars

\* Refresh!LocalSerialIncreases, for the signed profile: every new
\* publication raises the serial the secondary signs with.
LocalSerialIncreases == [][profile = "signed" => S!SerialIncreased]_pvars

\* Refresh!ImplementsZoneSync: under either profile the refresh engine
\* implements the abstract secondary of ZoneSync.
ImplementsZoneSync == U!ImplementsZoneSync

=============================================================================
