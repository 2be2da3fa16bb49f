------------------------------ MODULE Timers ------------------------------
(***************************************************************************)
(* The timer planner of a secondary zone (refresh.c: bootstrap_next,       *)
(* limit_timer, consume_edns_expire, finalize_timers_base and the failure  *)
(* path of event_refresh).  Every refresh attempt ends in one of the       *)
(* handlers below, each of which plans next_refresh and possibly           *)
(* next_expire from the SOA timers of the zone, the EDNS EXPIRE option of  *)
(* the answer and the configured bounds.  Timer values are TimerBits wide  *)
(* (32 in the code), so EXPIRE_TIMER_INVALID is 2^TimerBits - 1.  The      *)
(* interval bounds are those of a configuration the loader accepted        *)
(* (ConfCheck); they do not change, as reloading the configuration and     *)
(* replanning on reload are outside the modelled sources.                  *)
(***************************************************************************)
EXTENDS Integers

CONSTANTS
    TimerBits,     \* width of the uint32_t timer values
    SoaTimers,     \* SOA timers of zone contents: [refresh, retry, expire]
    EdnsValues,    \* EDNS EXPIRE values an answer may carry
    NoOpt,         \* the answer carries no EDNS EXPIRE option
    ZoneConfs,     \* the interval bounds a zone can be configured with
    Catalog,       \* the zone is a catalog zone
    MaxTime,       \* bound on the clock
    Jitter         \* the values dnssec_random_uint16_t() % 30 may take

Invalid == 2 ^ TimerBits - 1          \* EXPIRE_TIMER_INVALID (~0U)
Timer   == 0 .. Invalid
BootCap == 7200                       \* two hours

ASSUME /\ SoaTimers \subseteq [refresh : Timer, retry : Timer, expire : Timer]
       /\ EdnsValues \subseteq Timer /\ NoOpt \notin EdnsValues
       /\ ZoneConfs \subseteq [refreshMin : Timer, refreshMax : Timer,
                               retryMin : Timer, retryMax : Timer,
                               expireMin : Timer, expireMax : Timer]
       /\ Catalog \in BOOLEAN /\ MaxTime \in Nat /\ Jitter \subseteq 0 .. 29

VARIABLES
    now,          \* time(NULL)
    soa,          \* SOA timers of the zone contents, or NoOpt before bootstrap
    nextRefresh,  \* timers.next_refresh
    nextExpire,   \* timers.next_expire
    lastOk,       \* timers.last_refresh_ok
    bootCnt,      \* zonefile.bootstrap_cnt (uint8_t)
    plan,         \* history: what the last handler planned from
    conf          \* the zone's refresh/retry/expire-min/max-interval

vars == <<now, soa, nextRefresh, nextExpire, lastOk, bootCnt, plan, conf>>

\* conf_zone_get of the bounds, as limit_timer reads them.
RefreshMin == conf.refreshMin
RefreshMax == conf.refreshMax
RetryMin   == conf.retryMin
RetryMax   == conf.retryMax
ExpireMin  == conf.expireMin
ExpireMax  == conf.expireMax

MaxOf(a, b) == IF a >= b THEN a ELSE b
MinOf(a, b) == IF a <= b THEN a ELSE b

(***************************************************************************)
(* Helpers translated from refresh.c                                       *)
(***************************************************************************)

\* limit_timer: raise to the lower bound, else cut to the upper bound.
LimitTimer(t, low, upp) == IF t < low THEN low ELSE IF t > upp THEN upp ELSE t

\* Variant of bootstrap_next that keeps counting once the cap is reached.
BootstrapNextNoCap(c, j) ==
    LET increment == 5 * c * c IN
    [cnt   |-> (c + 1) % 256,
     base  |-> MinOf(increment, BootCap),
     delay |-> MinOf(increment, BootCap) + j]

\* bootstrap_next: 5 * count^2 seconds, counting only below the cap, plus
\* the jitter j.
BootstrapNext(c, j) ==
    LET increment == 5 * c * c IN
    IF increment < BootCap
    THEN [cnt |-> (c + 1) % 256, base |-> increment, delay |-> increment + j]
    ELSE [cnt |-> c, base |-> BootCap, delay |-> BootCap + j]

\* Variant of consume_edns_expire that takes the time left instead of the
\* longer of it and the option.
ConsumeEdnsExpireRemaining(et, e, strict) ==
    CASE Catalog     -> Invalid
      [] e = NoOpt   -> et
      [] strict      -> e
      [] OTHER       -> nextExpire - now

\* consume_edns_expire: a catalog zone ignores the option; a strict caller
\* takes the option as it is, the others never shorten the time left.
ConsumeEdnsExpire(et, e, strict) ==
    CASE Catalog     -> Invalid
      [] e = NoOpt   -> et
      [] strict      -> e
      [] OTHER       -> MaxOf(e, nextExpire - now)

\* Variant of finalize_timers_base without the bound by the SOA expire.
FinalizeTimersBaseNoSoaBound(et, s, alsoExpire) ==
    /\ nextRefresh' = now + LimitTimer(s.refresh, RefreshMin, RefreshMax)
    /\ lastOk' = TRUE
    /\ nextExpire' = CASE Catalog    -> 0
                       [] alsoExpire -> now + LimitTimer(et,
                                          IF et = s.expire THEN ExpireMin ELSE 0,
                                          ExpireMax)
                       [] OTHER      -> nextExpire

\* Variant of finalize_timers_base that never applies expire-min-interval.
FinalizeTimersBaseNoMin(et, s, alsoExpire) ==
    LET et1 == MinOf(et, s.expire) IN
    /\ nextRefresh' = now + LimitTimer(s.refresh, RefreshMin, RefreshMax)
    /\ lastOk' = TRUE
    /\ nextExpire' = CASE Catalog    -> 0
                       [] alsoExpire -> now + LimitTimer(et1, 0, ExpireMax)
                       [] OTHER      -> nextExpire

\* finalize_timers_base with expire timer et and the zone's SOA timers s:
\* the expire-min bound applies only when the value equals the SOA expire.
FinalizeTimersBase(et, s, alsoExpire) ==
    LET et1 == MinOf(et, s.expire) IN
    /\ nextRefresh' = now + LimitTimer(s.refresh, RefreshMin, RefreshMax)
    /\ lastOk' = TRUE
    /\ nextExpire' = CASE Catalog    -> 0
                       [] alsoExpire -> now + LimitTimer(et1,
                                          IF et1 = s.expire THEN ExpireMin ELSE 0,
                                          ExpireMax)
                       [] OTHER      -> nextExpire

(***************************************************************************)
(* Actions: the handlers that end a refresh attempt                        *)
(***************************************************************************)

\* What a handler planned from: the EDNS EXPIRE option, whether it was
\* taken strictly, the SOA expire, the expire timer after the SOA bound
\* (data->expire_timer at the assertion), the retry base, and the time.
Plan(kind, strict, e, soaExp, et, base) ==
    [kind |-> kind, strict |-> strict, edns |-> e, soaExp |-> soaExp,
     et |-> et, base |-> base, at |-> now]

NoPlan == [kind |-> "none", strict |-> FALSE, edns |-> NoOpt, soaExp |-> 0,
           et |-> 0, base |-> 0, at |-> 0]

\* soa_query_consume, both serials current: the option may only lengthen
\* the time left; then finalize_timers and the success path of
\* event_refresh (bootstrap_cnt = 0).
SoaUpToDate(e) ==
    LET et == ConsumeEdnsExpire(Invalid, e, FALSE) IN
    /\ soa # NoOpt
    /\ FinalizeTimersBase(et, soa, TRUE)
    /\ bootCnt' = 0
    /\ plan' = Plan("expire", FALSE, e, soa.expire, MinOf(et, soa.expire), 0)
    /\ UNCHANGED <<now, soa, conf>>

\* soa_query_consume, the remote is behind: finalize_timers_noexpire.
SoaRemoteOutdated ==
    /\ soa # NoOpt
    /\ FinalizeTimersBase(Invalid, soa, FALSE)
    /\ bootCnt' = 0
    /\ plan' = Plan("refresh", FALSE, NoOpt, soa.expire, MinOf(Invalid, soa.expire), 0)
    /\ UNCHANGED <<now, soa, conf>>

\* transfer_consume takes the option strictly and ignores an answer whose
\* expire timer is below 2 (the attempt then times out: RefreshFailed);
\* an up-to-date IXFR answer then consumes it again leniently (ixfr_consume).
TransferUpToDate(e) ==
    LET et0 == ConsumeEdnsExpire(Invalid, e, TRUE)
        et  == ConsumeEdnsExpire(et0, e, FALSE)
    IN
    /\ soa # NoOpt
    /\ et0 >= 2
    /\ FinalizeTimersBase(et, soa, TRUE)
    /\ bootCnt' = 0
    /\ plan' = Plan("expire", FALSE, e, soa.expire, MinOf(et, soa.expire), 0)
    /\ UNCHANGED <<now, soa, conf>>

\* axfr_finalize or ixfr_finalize committed contents with SOA timers s;
\* the expire timer is the option taken strictly by transfer_consume.
TransferCommitted(e, s) ==
    LET et == ConsumeEdnsExpire(Invalid, e, TRUE) IN
    /\ et >= 2
    /\ soa' = s
    /\ FinalizeTimersBase(et, s, TRUE)
    /\ bootCnt' = 0
    /\ plan' = Plan("expire", TRUE, e, s.expire, MinOf(et, s.expire), 0)
    /\ UNCHANGED <<now, conf>>

\* The failure path of event_refresh: the SOA retry, or bootstrap_next
\* when there are no contents, bounded by retry-min/max-interval.
RefreshFailed ==
    \E j \in Jitter :
        LET b    == BootstrapNext(bootCnt, j)
            next == IF soa # NoOpt THEN soa.retry ELSE b.delay
        IN
        /\ nextRefresh' = now + LimitTimer(next, RetryMin, RetryMax)
        /\ lastOk' = FALSE
        /\ bootCnt' = IF soa # NoOpt THEN bootCnt ELSE b.cnt
        /\ plan' = Plan(IF soa # NoOpt THEN "retry" ELSE "bootstrap", FALSE,
                        NoOpt, 0, 0, IF soa # NoOpt THEN soa.retry ELSE b.base)
        /\ UNCHANGED <<now, soa, nextExpire, conf>>

Tick ==
    /\ now < MaxTime
    /\ now' = now + 1
    /\ UNCHANGED <<soa, nextRefresh, nextExpire, lastOk, bootCnt, plan, conf>>

Init ==
    /\ now = 0
    /\ soa \in {NoOpt} \cup SoaTimers
    /\ nextRefresh = 0 /\ nextExpire = 0 /\ lastOk = FALSE /\ bootCnt = 0
    /\ plan = NoPlan
    /\ conf \in ZoneConfs

Next ==
    \/ \E e \in {NoOpt} \cup EdnsValues :
          \/ SoaUpToDate(e)
          \/ TransferUpToDate(e)
          \/ \E s \in SoaTimers : TransferCommitted(e, s)
    \/ SoaRemoteOutdated
    \/ RefreshFailed
    \/ Tick

Spec == Init /\ [][Next]_vars

(***************************************************************************)
(* Properties                                                              *)
(***************************************************************************)

\* Every timer stays a uint32_t value: in particular the expire timer the
\* handlers compute (data->expire_timer) is never negative.
TypeOK ==
    /\ now \in 0 .. MaxTime /\ plan.et \in Timer
    /\ soa \in {NoOpt} \cup SoaTimers
    /\ nextRefresh \in Nat /\ nextExpire \in Nat
    /\ lastOk \in BOOLEAN
    /\ bootCnt \in 0 .. 255
    /\ conf \in ZoneConfs

\* RFC 7314 section 4 (spec 4.7): whatever the EDNS EXPIRE option said and
\* however much time was left, a planned expiry is never later than the
\* SOA expire of the zone, unless expire-min-interval raised it, and never
\* beyond expire-max-interval (consume_edns_expire, finalize_timers_base).
ExpireWithinSoa ==
    plan.kind = "expire" /\ ~Catalog =>
        /\ nextExpire - plan.at <= MaxOf(plan.soaExp, ExpireMin)
        /\ nextExpire - plan.at <= ExpireMax

\* A planned expiry shorter than expire-min-interval can only come from an
\* EDNS EXPIRE option below that bound: a value from the SOA is always
\* raised to it (finalize_timers_base).
ExpireFloor ==
    plan.kind = "expire" /\ ~Catalog /\ nextExpire - plan.at < ExpireMin =>
        plan.edns # NoOpt /\ plan.edns < ExpireMin

\* Spec section 3: a refresh planned after a successful attempt lies within
\* refresh-min/max-interval of the time it was planned, and one planned
\* after a failure within retry-min/max-interval (limit_timer, called from
\* finalize_timers_base and event_refresh).  limit_timer raises to the
\* minimum first, so this rests on the loader: check_zone_or_tpl rejects a
\* minimum above a maximum only when both are configured, and the schema
\* defaults must keep a bound left out on the right side of the other.
RefreshWithinBounds ==
    \/ plan.kind = "none"
    \/ plan.kind \in {"expire", "refresh"} /\ nextRefresh - plan.at \in RefreshMin .. RefreshMax
    \/ plan.kind \in {"retry", "bootstrap"} /\ nextRefresh - plan.at \in RetryMin .. RetryMax

\* Once the retry delay of a zone that never bootstrapped has reached the
\* two-hour cap, every further failure keeps it there: the uint8_t
\* bootstrap counter stops before it could wrap (bootstrap_next).
BootstrapCapSticky ==
    [][plan.kind = "bootstrap" /\ plan.base = BootCap /\ plan'.kind = "bootstrap"
       => plan'.base = BootCap]_vars

\* Spec 4.7: expire-min-interval is enforced only if the value did not come
\* from an EDNS EXPIRE option, so an option not above the SOA expire is
\* taken as it is, bounded only by expire-max-interval.
EdnsExpireHonoured ==
    plan.kind = "expire" /\ plan.strict /\ ~Catalog
    /\ plan.edns # NoOpt /\ plan.edns <= plan.soaExp
        => nextExpire - plan.at = MinOf(plan.edns, ExpireMax)

\* The assertion of finalize_timers_base: once bounded by the SOA expire,
\* the expire timer is never EXPIRE_TIMER_INVALID.
ExpireTimerValid ==
    plan.kind \in {"expire", "refresh"} => plan.et # Invalid

====
