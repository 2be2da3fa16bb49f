------------------------------ MODULE MCTimers ------------------------------
EXTENDS Timers, TLC

CONSTANT Unset

\* SOA timers of the versions a master may send: one below the expire
\* bounds, one inside them.
MCSoaTimers == {[refresh |-> 3, retry |-> 4, expire |-> 6],
                [refresh |-> 12, retry |-> 1, expire |-> 20]}

\* The same with an SOA expire of 2^w - 1.
MCSoaTimersMaxExpire == MCSoaTimers \cup {[refresh |-> 3, retry |-> 4, expire |-> 8191]}

CC == INSTANCE ConfCheck WITH UintMax <- Invalid, PolicyCds <- <<>>

\* Zones whose interval options are each left out or set: refresh and
\* retry bounds that clip the SOA values from below and from above, with a
\* minimum above the maximum when both are set; expire bounds around the
\* SOA expires.
IntervalConfs ==
    {[CC!NoOptions EXCEPT !.refreshMin = a, !.refreshMax = b, !.retryMin = c,
                          !.retryMax = d, !.expireMin = 8, !.expireMax = f] :
        a \in {Unset, 5}, b \in {Unset, 4}, c \in {Unset, 3}, d \in {Unset, 2},
        f \in {Unset, 25}}

\* The bounds of every such zone the loader accepts.
MCZoneConfs == {CC!IntervalBounds(c) : c \in {c \in IntervalConfs : CC!ZoneAccepted(c, <<>>)}}

\* One configuration, for the runs that show a single behaviour.
MCOneConf == {[refreshMin |-> 2, refreshMax |-> 10, retryMin |-> 2,
               retryMax |-> 8000, expireMin |-> 8, expireMax |-> 25]}

====
