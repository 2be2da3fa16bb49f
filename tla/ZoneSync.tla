------------------------------ MODULE ZoneSync ------------------------------
(***************************************************************************)
(* What the refresh engine of a secondary promises, with every message,    *)
(* fallback and timer left out.  Masters publish ever newer versions of    *)
(* the primary's zone; the secondary publishes, one version at a time, a   *)
(* version some master is serving, and records that master as the one it  *)
(* follows.  It never goes back to an older version unless the operator    *)
(* asked for a retransfer, and, under fairness, it eventually holds the    *)
(* version served by the master it follows.                                *)
(***************************************************************************)
EXTENDS Naturals

CONSTANTS
    Masters,     \* configured remotes
    MaxVer,      \* versions of the primary's zone are 0..MaxVer
    NoMaster,    \* no master followed yet
    None         \* nothing published yet

Versions == 0 .. MaxVer

VARIABLES
    served,      \* [Masters -> Versions]: version each master serves
    held,        \* version the secondary publishes, or None
    from,        \* master the published version came from, or NoMaster
    forced       \* a retransfer was requested and not yet carried out

avars == <<served, held, from, forced>>

AInit ==
    /\ served = [m \in Masters |-> 0]
    /\ held = None /\ from = NoMaster /\ forced = FALSE

\* A master moves to the next version.
Advance(m) ==
    /\ served[m] < MaxVer
    /\ served' = [served EXCEPT ![m] = @ + 1]
    /\ UNCHANGED <<held, from, forced>>

\* The operator requests a retransfer.
Request ==
    /\ ~forced
    /\ forced' = TRUE
    /\ UNCHANGED <<served, held, from>>

\* The secondary publishes version v obtained from master m: a version m
\* serves or served, not older than the current one unless forced.  A
\* pending request may be consumed.
Sync(m, v) ==
    /\ v <= served[m]
    /\ held = None \/ forced \/ held <= v
    /\ held' = v
    /\ from' = m
    /\ forced' \in {FALSE, forced}
    /\ UNCHANGED served

\* A refresh event ends without carrying out a pending request.
Abandon ==
    /\ forced
    /\ forced' = FALSE
    /\ UNCHANGED <<served, held, from>>

ANext ==
    \/ \E m \in Masters : Advance(m)
    \/ Request
    \/ \E m \in Masters, v \in Versions : Sync(m, v)
    \/ Abandon

\* Catching up with the master followed (any master before the first
\* publication).
CatchUp ==
    \E m \in Masters :
        /\ from \in {NoMaster, m}
        /\ held # served[m]
        /\ Sync(m, served[m])

ASpec == AInit /\ [][ANext]_avars /\ WF_avars(CatchUp)

====
