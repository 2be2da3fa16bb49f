------------------------------ MODULE Refresh ------------------------------
(***************************************************************************)
(* The zone-refresh controller of a secondary zone (event_refresh in       *)
(* knot/events/handlers/refresh.c) together with the loop over configured  *)
(* masters that drives it (zone_master_try, outside the sources).          *)
(*                                                                         *)
(* One refresh event runs at a time per zone.  Each try talks to one       *)
(* master: SOA probe, then IXFR or AXFR, with the IXFR->AXFR fallback of   *)
(* try_refresh, then finalization (serial re-mapping for signed zones,     *)
(* commit, KASP master serial, timers, last master).  Masters move to      *)
(* newer versions of the primary's zone concurrently with the refresh.     *)
(* The packet-level parsing of a transfer is in IxfrIn; here a transfer    *)
(* answer is abstracted to its outcome.                                    *)
(***************************************************************************)
EXTENDS Naturals, Sequences, FiniteSets, Serial

CONSTANTS
    Masters,      \* configured remotes (model values)
    MasterOrder,  \* the order in which zone_master_try tries them
    Recs,         \* non-SOA records of the zone (model values)
    MaxVer,       \* versions of the primary's zone are 0..MaxVer
    Content,      \* Content[v]: the records of version v
    SerialBase,   \* the SOA serial of version v is SerialBase + v (mod 2^w)
    Signing,      \* dnssec-signing: the secondary re-signs with its own serial
    Benevolent,   \* ixfr-benevolent: apply changesets without strict checks
    IxfrByOne,    \* ixfr-by-one
    SemSoft,      \* sem-checks: soft
    PinTol,       \* master-pin-tolerance (0 disables pinning)
    MaxTime,      \* bound on the clock
    Faults,       \* misbehaviours the environment may show in this model
    NoMaster,     \* timers.last_master unset
    None          \* absent contents or absent KASP record

Versions == 0 .. MaxVer

ASSUME /\ MasterOrder \in Seq(Masters) /\ Len(MasterOrder) = Cardinality(Masters)
       /\ {MasterOrder[i] : i \in 1 .. Len(MasterOrder)} = Masters
       /\ Content \in [Versions -> SUBSET Recs]
       /\ MaxVer < SerialMod        \* version serials are distinct
       /\ {Signing, Benevolent, IxfrByOne, SemSoft} \subseteq BOOLEAN
       /\ PinTol \in Nat /\ MaxTime \in Nat \ {0}
       /\ Faults \subseteq {"timeout", "denied", "malformed", "notimp",
                            "toobig", "semcheck", "commit", "msave"}

\* The SOA serial the primary gave version v.
VerSerial(v) == (SerialBase + v) % SerialMod

VARIABLES
    ver,           \* [Masters -> Versions]: version each master serves
    zone,          \* published contents: None or [recs, serial]
    zver,          \* history: master version the contents were built from
    kms,           \* KASP master_serial of a signed zone (None if absent)
    lastSigned,    \* KASP last-signed serial (None if absent)
    lastMaster,    \* timers.last_master
    pinHit,        \* timers.master_pin_hit (0: not armed)
    now,           \* time(NULL)
    lastOk,        \* timers.last_refresh_ok
    forceFlag,     \* zone flag ZONE_FORCE_AXFR (zone retransfer requested)
    phase,         \* "idle", or the refresh_data state of the running try
    mi,            \* index in MasterOrder of the master being tried
    xfr,           \* data.xfr_type of the running try: "IXFR" or "AXFR"
    fbRemote,      \* fallback.remote: other masters may still be tried
    trForce,       \* trctx.force_axfr of the running event
    refreshNow,    \* a refresh was scheduled now (more_xfr)
    notifyPending, \* zone_schedule_notify was called
    contentErr     \* history: this step failed the try with a content error

zoneVars  == <<zone, zver, kms, lastSigned, lastMaster, pinHit>>
tryVars   == <<phase, mi, xfr, fbRemote, trForce, refreshNow, notifyPending,
               contentErr>>
vars == <<ver, now, lastOk, forceFlag, zoneVars, tryVars>>

(***************************************************************************)
(* Helpers translated from refresh.c                                       *)
(***************************************************************************)

\* slave_zone_serial: a signed zone compares the master's serial kept in
\* KASP, an unsigned one its own SOA serial.
SlaveSerial == IF Signing THEN kms ELSE zone.serial

\* The order in which zone_master_try asks the masters: the last master the
\* zone was refreshed from first (fallback.trying_last), then the others in
\* configured order.
TryOrder ==
    IF lastMaster = NoMaster THEN MasterOrder
    ELSE <<lastMaster>> \o SelectSeq(MasterOrder, LAMBDA x : x # lastMaster)

\* fallback.trying_last: the master being tried is the last master.
TryingLast == lastMaster # NoMaster /\ mi = 1

\* Variant of wait4pinned_master without the countdown arming branch.
PinDecisionNoArm ==
    CASE PinTol = 0                  -> "go"
      [] TryingLast                  -> "go"
      [] lastMaster = NoMaster       -> "axfr"
      [] pinHit + PinTol <= now      -> "axfr"
      [] OTHER                       -> "wait"

\* Variant of wait4pinned_master that holds back the pinned master too.
PinDecisionIgnoreLast ==
    CASE PinTol = 0                  -> "go"
      [] lastMaster = NoMaster       -> "axfr"
      [] pinHit = 0                  -> "arm"
      [] pinHit + PinTol <= now      -> "axfr"
      [] OTHER                       -> "wait"

\* wait4pinned_master: "go" (no pinning or pinned master), "axfr" (switch
\* to this master with AXFR), "arm" (start the countdown, do not transfer),
\* "wait" (countdown running, do not transfer).
PinDecision ==
    CASE PinTol = 0                  -> "go"
      [] TryingLast                  -> "go"
      [] lastMaster = NoMaster       -> "axfr"
      [] pinHit = 0                  -> "arm"
      [] pinHit + PinTol <= now      -> "axfr"
      [] OTHER                       -> "wait"

\* Variant in which removals and additions are filed in swapped sections.
ChangesetSwapped(b) == [del |-> Content[b + 1] \ Content[b],
                        add |-> Content[b] \ Content[b + 1]]

\* The changeset a master sends for the step from version b to b + 1:
\* ixfr_solve_del collects the removals, ixfr_solve_add the additions.
Changeset(b) == [del |-> Content[b] \ Content[b + 1],
                 add |-> Content[b + 1] \ Content[b]]

\* zone_update_apply_changeset over the changesets b -> ... -> t: in strict
\* mode removing an absent or adding a present record fails.
RECURSIVE ApplyChain(_, _, _)
ApplyChain(recs, b, t) ==
    IF b = t THEN [ok |-> TRUE, recs |-> recs]
    ELSE LET ch == Changeset(b)
         IN  IF Benevolent \/ (ch.del \subseteq recs /\ ch.add \cap recs = {})
             THEN ApplyChain((recs \ ch.del) \cup ch.add, b + 1, t)
             ELSE [ok |-> FALSE, recs |-> recs]

\* Variant of axfr_slave_sign_serial that always reuses the master serial.
AxfrSignSerialReuseMaster(v) ==
    [master |-> VerSerial(v), local |-> SerialNext(VerSerial(v), 0)]

\* Variant of axfr_slave_sign_serial that increments without the 2^w wrap.
AxfrSignSerialNoWrap(v) ==
    [master |-> VerSerial(v),
     local  |-> IF zone # None THEN zone.serial + 1
                ELSE IF lastSigned # None THEN lastSigned + 1
                ELSE VerSerial(v)]

\* axfr_slave_sign_serial: the master serial of the received contents and
\* the local serial a signed secondary publishes them with.
AxfrSignSerial(v) ==
    [master |-> VerSerial(v),
     local  |-> IF zone # None THEN SerialNext(zone.serial, 1)
                ELSE IF lastSigned # None THEN SerialNext(lastSigned, 1)
                ELSE SerialNext(VerSerial(v), 0)]

\* Variant in which the master serial is not chained past the first changeset.
IxfrSignSerialFirstOnly(b, t) ==
    [ok     |-> lastSigned = zone.serial /\ kms = VerSerial(b),
     master |-> VerSerial(b + 1),
     local  |-> SerialNext(zone.serial, t - b)]

\* ixfr_slave_sign_serial with ixfr_serial_once on every changeset b -> t:
\* the stored serials must agree and every changeset must start at the
\* master serial reached so far and increase it; the changesets are
\* renumbered into the local serial sequence.
IxfrSignSerial(b, t) ==
    [ok     |-> /\ lastSigned = zone.serial
                /\ kms = VerSerial(b)
                /\ \A i \in b .. (t - 1) :
                      SerialCompare(VerSerial(i), VerSerial(i + 1)) = "LOWER",
     master |-> VerSerial(t),
     local  |-> SerialNext(zone.serial, t - b)]

(***************************************************************************)
(* Control flow of try_refresh / zone_master_try / event_refresh           *)
(***************************************************************************)

\* Variant of refresh_begin that records the master position zero-based.
BeginTryZeroBased(i, force) ==
    /\ mi' = i - 1
    /\ phase' = IF zone # None /\ ~force THEN "soa" ELSE "xfr"
    /\ xfr'   = IF zone # None /\ ~force THEN "IXFR" ELSE "AXFR"

\* refresh_begin for the i-th master: SOA probe when there are contents and
\* no forced AXFR, otherwise an AXFR straight away.
BeginTry(i, force) ==
    /\ mi' = i
    /\ phase' = IF zone # None /\ ~force THEN "soa" ELSE "xfr"
    /\ xfr'   = IF zone # None /\ ~force THEN "IXFR" ELSE "AXFR"

\* The tail of event_refresh once zone_master_try has returned: the failure
\* path clears last_refresh_ok, more_xfr schedules a refresh now, an
\* update schedules NOTIFY.
Finish(ok, timersSet, moreXfr, sendNotify) ==
    /\ phase' = "idle"
    /\ lastOk' = IF ~ok THEN FALSE ELSE (lastOk \/ timersSet)
    /\ refreshNow' = (ok /\ moreXfr)
    /\ notifyPending' = (notifyPending \/ sendNotify)
    /\ UNCHANGED <<mi, xfr, trForce>>

\* A try has ended: success ends the event, a failure moves on to the next
\* master while fallback.remote allows it.
EndTry(ok, timersSet, updated, byOneLeft, fbR) ==
    /\ fbRemote' = fbR
    /\ IF ok THEN Finish(TRUE, timersSet, updated /\ byOneLeft, updated)
       ELSE IF fbR /\ mi < Len(MasterOrder)
            THEN /\ BeginTry(mi + 1, trForce)
                 /\ UNCHANGED <<lastOk, trForce, refreshNow, notifyPending>>
            ELSE Finish(FALSE, FALSE, FALSE, FALSE)

\* A failed transfer: the while loop of try_refresh re-issues the question
\* as AXFR unless the transport failed or fallback_axfr is clear; content
\* tells whether data->ret is one of the content errors of the spec.
XfrFail(ioFail, fbAxfr, fbR, content) ==
    /\ UNCHANGED zoneVars
    /\ contentErr' = content
    /\ IF ~ioFail /\ fbAxfr
       THEN /\ xfr' = "AXFR"
            /\ fbRemote' = fbR
            /\ UNCHANGED <<phase, mi, trForce, lastOk, refreshNow, notifyPending>>
       ELSE EndTry(FALSE, FALSE, FALSE, FALSE, fbR)

\* Outcomes of the steps of a finalize after the contents are built:
\* semantic check or ZONEMD failure, commit failure, failure to store the
\* KASP master serial after the commit.
FinalizeResults == {"ok"} \cup (Faults \cap {"semcheck", "commit", "msave"})

\* Variant of the publishing steps that never stores the master serial.
PublishNoKms(m, v, recs, newSerial, masterSerial, r) ==
    /\ zone' = [recs |-> recs, serial |-> newSerial]
    /\ zver' = v
    /\ kms' = kms
    /\ lastSigned' = IF Signing THEN newSerial ELSE lastSigned
    /\ lastMaster' = m
    /\ pinHit' = 0
    /\ contentErr' = FALSE

\* The steps of a finalize that publish the new contents.
Publish(m, v, recs, newSerial, masterSerial, r) ==
    /\ zone' = [recs |-> recs, serial |-> newSerial]
    /\ zver' = v
    /\ kms' = IF Signing /\ r = "ok" THEN masterSerial ELSE kms
    /\ lastSigned' = IF Signing THEN newSerial ELSE lastSigned
    /\ lastMaster' = m
    /\ pinHit' = 0
    /\ contentErr' = FALSE

\* axfr_finalize of version v of master m with outcome r (fromIxfr: an
\* AXFR-style IXFR, whose packets set fallback_axfr).
AxfrFinalize(m, v, fromIxfr, r) ==
    LET sig       == AxfrSignSerial(v)
        newSerial == IF Signing THEN sig.local ELSE VerSerial(v)
    IN  CASE r = "semcheck" -> XfrFail(FALSE, fromIxfr, fbRemote, TRUE)
          [] r = "commit"   -> XfrFail(FALSE, fromIxfr, FALSE, FALSE)
          [] OTHER          -> /\ Publish(m, v, Content[v], newSerial, sig.master, r)
                               /\ EndTry(TRUE, TRUE, TRUE, FALSE, FALSE)

\* Versions from which master m can send changesets to the local zone.
IncrementalFrom(m) ==
    {b \in Versions : b < ver[m] /\ VerSerial(b) = SlaveSerial}

\* ixfr_finalize of the changesets master m sends from version b, with
\* outcome r; with ixfr-by-one only the first one is taken (ixfr_next_state).
IxfrFinalize(m, b, r) ==
    LET t         == IF IxfrByOne THEN b + 1 ELSE ver[m]
        sig       == IxfrSignSerial(b, t)
        applied   == ApplyChain(zone.recs, b, t)
        newSerial == IF Signing THEN sig.local ELSE VerSerial(t)
    IN  CASE Signing /\ ~sig.ok -> XfrFail(FALSE, FALSE, FALSE, FALSE)
          [] ~applied.ok        -> XfrFail(FALSE, TRUE, fbRemote, FALSE)
          [] r = "semcheck"     -> XfrFail(FALSE, FALSE, fbRemote, TRUE)
          [] r = "commit"       -> XfrFail(FALSE, TRUE, fbRemote, FALSE)
          [] OTHER -> /\ Publish(m, t, applied.recs, newSerial, sig.master, r)
                      /\ EndTry(TRUE, TRUE, TRUE, IxfrByOne /\ ver[m] > b + 1, FALSE)

(***************************************************************************)
(* Actions                                                                 *)
(***************************************************************************)

\* event_refresh starts (timer, NOTIFY or a scheduled refresh): it takes the
\* force-AXFR flag and zone_master_try begins with the first master.
StartRefresh ==
    /\ phase = "idle"
    /\ trForce' = forceFlag
    /\ forceFlag' = FALSE
    /\ refreshNow' = FALSE
    /\ fbRemote' = TRUE
    /\ contentErr' = FALSE
    /\ BeginTry(1, forceFlag)
    /\ UNCHANGED <<ver, now, lastOk, notifyPending, zoneVars>>

SoaAnswers == {"ok"} \cup (Faults \cap {"timeout", "denied", "malformed"})

\* soa_query_consume: answer a of the current master to the SOA probe.
SoaConsume(a) ==
    LET m       == TryOrder[mi]
        remote  == VerSerial(ver[m])
    IN
    /\ phase = "soa"
    /\ contentErr' = FALSE
    /\ \/ /\ a \in {"timeout", "denied"}
          /\ UNCHANGED zoneVars
          /\ EndTry(FALSE, FALSE, FALSE, FALSE, fbRemote)
       \/ /\ a = "malformed"
          /\ UNCHANGED zoneVars
          /\ IF SemSoft
             THEN /\ phase' = "xfr" /\ xfr' = "AXFR"
                  /\ UNCHANGED <<mi, fbRemote, trForce, lastOk, refreshNow, notifyPending>>
             ELSE EndTry(FALSE, FALSE, FALSE, FALSE, fbRemote)
       \/ /\ a = "ok"
          /\ IF SlaveSerial = None
             THEN /\ UNCHANGED zoneVars
                  /\ EndTry(FALSE, FALSE, FALSE, FALSE, FALSE)
             ELSE IF SerialIsCurrent(SlaveSerial, remote)
             THEN /\ UNCHANGED zoneVars
                  /\ EndTry(TRUE, TRUE, FALSE, FALSE, fbRemote)
             ELSE LET d == PinDecision IN
                  IF d \in {"arm", "wait"}
                  THEN /\ pinHit' = IF d = "arm" THEN now ELSE pinHit
                       /\ UNCHANGED <<zone, zver, kms, lastSigned, lastMaster>>
                       /\ EndTry(TRUE, FALSE, FALSE, FALSE, fbRemote)
                  ELSE /\ phase' = "xfr"
                       /\ xfr' = IF d = "axfr" THEN "AXFR" ELSE "IXFR"
                       /\ UNCHANGED <<zoneVars, mi, fbRemote, trForce, lastOk,
                                      refreshNow, notifyPending>>
    /\ UNCHANGED <<ver, now, forceFlag>>

AxfrAnswers == {"ok"} \cup (Faults \cap {"timeout", "denied", "toobig"})
IxfrAnswers == {"ok"} \cup (Faults \cap {"timeout", "denied", "notimp", "malformed", "toobig"})

\* data->fallback_axfr when an IXFR answer fails: transfer_consume sets it
\* for each message while xfr_type is still IXFR.  An answer found
\* AXFR-style (or undetermined) in its first message switches xfr_type,
\* so a size or content failure in a later message leaves it clear.
FallbackAxfr(a) == IF a \in {"malformed", "toobig"} THEN BOOLEAN ELSE {TRUE}

\* transfer_consume: answer a of the current master to the AXFR or IXFR
\* question, and outcome r of the finalize it leads to.
TransferConsume(a, r) ==
    LET m == TryOrder[mi] IN
    /\ phase = "xfr"
    /\ \/ /\ xfr = "AXFR" /\ a \in AxfrAnswers
          /\ IF a = "ok" THEN AxfrFinalize(m, ver[m], FALSE, r)
             ELSE XfrFail(a = "timeout", FALSE, fbRemote, a = "toobig")
       \/ /\ xfr = "IXFR" /\ a \in IxfrAnswers
          /\ IF a # "ok"
             THEN \E fb \in FallbackAxfr(a) : XfrFail(a = "timeout", fb, fbRemote, a = "toobig")
             ELSE IF SerialIsCurrent(SlaveSerial, VerSerial(ver[m]))
             THEN /\ UNCHANGED zoneVars
                  /\ contentErr' = FALSE
                  /\ EndTry(TRUE, TRUE, FALSE, FALSE, fbRemote)
             ELSE \/ AxfrFinalize(m, ver[m], TRUE, r)
                  \/ \E b \in IncrementalFrom(m) : IxfrFinalize(m, b, r)
    /\ UNCHANGED <<ver, now, forceFlag>>

\* The environment: a master picks up a newer version of the zone.
MasterAdvance(m) ==
    /\ ver[m] < MaxVer
    /\ ver' = [ver EXCEPT ![m] = @ + 1]
    /\ UNCHANGED <<now, lastOk, forceFlag, zoneVars, tryVars>>

\* The environment: time passes.
Tick ==
    /\ now < MaxTime
    /\ now' = now + 1
    /\ UNCHANGED <<ver, lastOk, forceFlag, zoneVars, tryVars>>

\* The operator asks for a retransfer (zone-retransfer sets ZONE_FORCE_AXFR).
Retransfer ==
    /\ ~forceFlag
    /\ forceFlag' = TRUE
    /\ UNCHANGED <<ver, now, lastOk, zoneVars, tryVars>>

Init ==
    /\ ver = [m \in Masters |-> 0]
    /\ zone = None /\ zver = 0 /\ kms = None /\ lastSigned = None
    /\ lastMaster = NoMaster /\ pinHit = 0 /\ now = 1 /\ lastOk = FALSE
    /\ forceFlag = FALSE /\ phase = "idle" /\ mi = 1 /\ xfr = "AXFR"
    /\ fbRemote = TRUE /\ trForce = FALSE /\ refreshNow = FALSE
    /\ notifyPending = FALSE /\ contentErr = FALSE

Next ==
    \/ StartRefresh
    \/ \E a \in SoaAnswers : SoaConsume(a)
    \/ \E a \in AxfrAnswers \cup IxfrAnswers, r \in FinalizeResults :
          TransferConsume(a, r)
    \/ \E m \in Masters : MasterAdvance(m)
    \/ Tick
    \/ Retransfer

Spec == Init /\ [][Next]_vars

(***************************************************************************)
(* Fairness and the abstract specification                                 *)
(***************************************************************************)

\* The event loop runs the refresh event again after every refresh (the
\* refresh timer, the retry timer or more_xfr are always planned), and
\* each master that is asked again and again eventually gives a correct
\* answer that finalizes without a fault: transient failures of a master
\* are not permanent.
Fairness ==
    /\ WF_vars(StartRefresh)
    /\ \A m \in Masters :
          /\ SF_vars(TryOrder[mi] = m /\ SoaConsume("ok"))
          /\ SF_vars(TryOrder[mi] = m /\ TransferConsume("ok", "ok"))

FairSpec == Spec /\ Fairness

\* The refinement mapping: the abstract secondary holds the master version
\* the published contents were built from and follows timers.last_master;
\* a retransfer is pending while ZONE_FORCE_AXFR is set or the running
\* event carries trctx.force_axfr.
ZS == INSTANCE ZoneSync
        WITH served <- ver,
             held   <- IF zone = None THEN None ELSE zver,
             from   <- lastMaster,
             forced <- forceFlag \/ (phase # "idle" /\ trForce)

(***************************************************************************)
(* Properties                                                              *)
(***************************************************************************)

\* Every variable stays within its type: versions, serials of the configured
\* width (SOA serials wrap modulo 2^w), master indices within MasterOrder.
TypeOK ==
    /\ ver \in [Masters -> Versions]
    /\ zone \in {None} \cup [recs : SUBSET Recs, serial : Serials]
    /\ zver \in Versions
    /\ kms \in {None} \cup Serials /\ lastSigned \in {None} \cup Serials
    /\ lastMaster \in {NoMaster} \cup Masters
    /\ pinHit \in 0 .. MaxTime /\ now \in 1 .. MaxTime
    /\ phase \in {"idle", "soa", "xfr"} /\ xfr \in {"IXFR", "AXFR"}
    /\ mi \in 1 .. Len(MasterOrder)
    /\ {lastOk, forceFlag, fbRemote, trForce, refreshNow, notifyPending}
          \subseteq BOOLEAN
    /\ contentErr \in BOOLEAN

\* The published records are exactly the records of the master version
\* the zone was last built from: IXFR changesets (removals and additions,
\* applied in order, possibly one at a time with ixfr-by-one) and AXFR
\* contents always yield a whole version, never a mix of two.
ContentsMatchVersion == zone # None => zone.recs = Content[zver]

\* For a signed secondary, the master serial kept in KASP is the serial of
\* the master version the published contents were built from: it is what
\* the next SOA probe compares and what the next IXFR asks from
\* (axfr_finalize, ixfr_finalize, zone_set_master_serial).
MasterSerialTracksContents ==
    Signing /\ zone # None => kms = VerSerial(zver)

\* Unless the operator forced a retransfer, a refresh never replaces the
\* published contents by an older version of the zone, whichever master
\* answered (SOA probe against the local or KASP serial, RFC 1982).
NoRegression ==
    [][(zone # None /\ zone' # None /\ ~trForce') => zver' >= zver]_vars

\* A step that takes contents from a master other than the last one
\* happens only once the pin tolerance has elapsed since master_pin_hit.
PinRespected ==
    (/\ PinTol > 0 /\ zone # None /\ ~trForce'
     /\ lastMaster # NoMaster /\ lastMaster' # lastMaster)
    => (pinHit # 0 /\ pinHit + PinTol <= now)

\* Master pinning (spec P7): while the pin tolerance has not elapsed since
\* master_pin_hit, contents are never taken from a master other than the
\* last one (wait4pinned_master).
PinHonoured == [][PinRespected]_vars

\* A step that changes the published contents raises their serial.
SerialIncreased ==
    (zone # None /\ zone' # None /\ zone' # zone)
    => SerialCompare(zone.serial, zone'.serial) = "LOWER"

\* A signed secondary publishes every new contents with a serial greater
\* than the one before under RFC 1982, whatever serials the masters use
\* (axfr_slave_sign_serial, ixfr_serial_once).
LocalSerialIncreases == [][SerialIncreased]_vars


\* Content errors (a semantic-check or ZONEMD failure, a zone or transfer
\* exceeding zone-max-size) end the attempt and are not retried with
\* another master, as the spec's error taxonomy requires: the step that
\* fails a try with a content error never moves zone_master_try on to the
\* next master (fallback.remote left set by axfr_finalize, ixfr_finalize
\* and the size checks).
ContentErrorStaysWithPeer ==
    [][contentErr' => (phase' = "idle" \/ mi' = mi)]_vars

\* The refresh engine implements ZoneSync: every published version is one
\* the master it came from serves, the secondary goes back to an older
\* version only on a retransfer request, and, under the fairness above, it
\* eventually holds the version served by the master it follows
\* (event_refresh, zone_master_try, the finalize paths, last_master).
ImplementsZoneSync == ZS!ASpec

=============================================================================
