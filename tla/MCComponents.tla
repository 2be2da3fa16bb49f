---------------------------- MODULE MCComponents ----------------------------
(***************************************************************************)
(* Checks three parts of the system that share no state, each as its    *)
(* own model instantiates it:                                              *)
(*   - "timers": the refresh timer planner (Timers, by MCTimers);         *)
(*   - "ddns":   the DDNS update event (Ddns, by MCDdns);                 *)
(*   - "kdig":   kdig's ordinary queries (KdigQuery, by MCKdigQuery).     *)
(* The planner reads the interval options, the update event the           *)
(* ddns-master and signing options, and kdig, a process of its own, its   *)
(* sockets: no variable is shared.  So one state graph holds them all,    *)
(* the part under observation chosen in the initial state, the others     *)
(* resting in an initial state of their own (as MCRefreshProfiles holds   *)
(* its two profiles); their product would only add interleavings of      *)
(* independent steps.                                                      *)
(***************************************************************************)
EXTENDS TLC

CONSTANTS
    NoOpt, TimerBits, SoaTimers, EdnsValues, ZoneConfs, Catalog, MaxTime, Jitter,
    q1, q2, q3, q4, r1, r2, r3, NoRec, Reqs, Recs, Req, Zone0, Configs, Faults,
    Unset,
    s1, s2, Servers, Addrs, QueryLists, MaxStray

VARIABLES
    now, soa, nextRefresh, nextExpire, lastOk, bootCnt, plan,
    tconf,        \* Timers' conf: the zone's interval bounds
    queue, enqueued, scheduled, running, zone, rcode, sent, notified, crashed,
    before, batch,
    dconf,        \* Ddns' conf: slave, ddns-master and dnssec-signing
    qs, qi, pc, reusing, si, ri, ai, attempts, ignoreTc, cookies, stray,
    sockfd, socktype, ret, results, lastNet, opened, closed,
    handler       \* the part under observation

tvars == <<now, soa, nextRefresh, nextExpire, lastOk, bootCnt, plan, tconf>>
dvars == <<queue, enqueued, scheduled, running, zone, rcode, sent, notified,
           crashed, before, batch, dconf>>
kvars == <<qs, qi, pc, reusing, si, ri, ai, attempts, ignoreTc, cookies, stray,
           sockfd, socktype, ret, results, lastNet, opened, closed>>
zvars == <<tvars, dvars, kvars, handler>>

TM == INSTANCE MCTimers WITH conf <- tconf
DM == INSTANCE MCDdns WITH conf <- dconf
KM == INSTANCE MCKdigQuery

\* The configurations and inputs of the four models, read from instances
\* that do not depend on the constants they are given to.
TD == INSTANCE MCTimers WITH conf <- tconf, SoaTimers <- {}, ZoneConfs <- {}
DD == INSTANCE MCDdns WITH conf <- dconf, Reqs <- {}, Recs <- {}, Req <- <<>>,
                           Configs <- {}
KD == INSTANCE MCKdigQuery WITH Servers <- {}, Addrs <- <<>>, QueryLists <- {}
ZESoaTimers == TD!MCSoaTimers
ZEZoneConfs == TD!MCZoneConfs
ZEReqs      == DD!MCReqs
ZERecs      == DD!MCRecs
ZEReq       == DD!MCReq
ZEConfigs   == DD!MCConfigs
ZEServers   == KD!MCServers
ZEAddrs     == KD!MCAddrs
ZEQueryLists == KD!MCQueryLists

Parts == {"timers", "ddns", "kdig"}

\* A resting part stays in one of its initial states: a zone not yet
\* loaded under the first configuration, an empty UPDATE queue, kdig
\* before its first query.
Init ==
    /\ handler \in Parts
    /\ handler # "timers" => soa = NoOpt /\ tconf = CHOOSE c \in ZoneConfs : TRUE
    /\ TM!Init
    /\ handler # "ddns" => dconf = CHOOSE c \in Configs : TRUE
    /\ DM!Init
    /\ handler # "kdig" => qs = CHOOSE l \in QueryLists : TRUE
    /\ KM!Init

\* A step of the part h.
Under(h, A, rest) == handler = h /\ A /\ UNCHANGED <<rest, handler>>

Next == \/ Under("timers", TM!Next, <<dvars, kvars>>)
        \/ Under("ddns", DM!Next, <<tvars, kvars>>)
        \/ Under("kdig", KM!Next, <<tvars, dvars>>)

Spec == Init /\ [][Next]_zvars

\* The fairness of each model, for its part: Ddns' scheduler runs a
\* planned event and the worker finishes it; kdig's waits end.  Each is
\* the hypothesis of its part's liveness property, so that TLC checks a
\* property against the fairness of its own part only.
DdnsFair ==
    /\ WF_zvars(Under("ddns", DM!Fire, <<tvars, kvars>>))
    /\ WF_zvars(Under("ddns", DM!UpdateNothing, <<tvars, kvars>>))
    /\ WF_zvars(Under("ddns", \E f \in DM!LocalFailures : DM!UpdateEvent(f),
                      <<tvars, kvars>>))
KdigFair == WF_zvars(Under("kdig", KM!Next, <<tvars, dvars>>))

(***************************************************************************)
(* Properties: those of each model, for its part.                          *)
(***************************************************************************)

\* Timers!TypeOK and KdigQuery!TypeOK.
TypeOK == TM!TypeOK /\ KM!TypeOK

\* Timers!ExpireWithinSoa: the expiry never exceeds the SOA expire.
ExpireWithinSoa == TM!ExpireWithinSoa

\* Timers!ExpireFloor: only EDNS brings the expiry under expire-min.
ExpireFloor == TM!ExpireFloor

\* Timers!RefreshWithinBounds: the next refresh or retry lies within the
\* configured interval.
RefreshWithinBounds == TM!RefreshWithinBounds

\* Timers!BootstrapCapSticky: the bootstrap back-off stays at its cap.
BootstrapCapSticky == TM!BootstrapCapSticky

\* Ddns!BulkAtomic: a bulk is applied all or nothing.
BulkAtomic == DM!BulkAtomic

\* Ddns!LocalUpdatesSigned: a secondary changes its zone only when signing.
LocalUpdatesSigned == DM!LocalUpdatesSigned

\* Ddns!EveryUpdateAnswered, under Ddns' fairness: every queued request is
\* answered.
EveryUpdateAnswered == DdnsFair => DM!EveryUpdateAnswered

\* KdigQuery!KeptOpenOnlyAfterAnswer: a socket outlives a query only when
\* +keepopen kept it after an answer.
KeptOpenOnlyAfterAnswer == KM!KeptOpenOnlyAfterAnswer

\* KdigQuery!AllTriedBeforeFailure: a failed query tried every address of
\* every server retries + 1 times.
AllTriedBeforeFailure == KM!AllTriedBeforeFailure

\* KdigQuery!KdigTerminates, for kdig and under its fairness: it ends,
\* whatever the servers answer.
KdigTerminates == KdigFair => (handler = "kdig" => KM!KdigTerminates)

====
