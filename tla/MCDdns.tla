------------------------------- MODULE MCDdns -------------------------------
(***************************************************************************)
(* Instantiates Ddns for TLC: four UPDATE requests over three records.    *)
(* q2's prerequisite is the record q1 adds, so it is met only when q1 was  *)
(* applied before it, in an earlier event or earlier in the same bulk;   *)
(* q3 fails its application (aborting its bulk) and q4 fails the format   *)
(* precheck (skipped without aborting).                                   *)
(***************************************************************************)
EXTENDS Ddns, TLC

CONSTANTS q1, q2, q3, q4, r1, r2, r3

MCReqs == {q1, q2, q3, q4}
MCRecs == {r1, r2, r3}
MCReq ==
    (q1 :> [need |-> NoRec, add |-> r1, fmtOk |-> TRUE,  applyOk |-> TRUE]) @@
    (q2 :> [need |-> r1,    add |-> r2, fmtOk |-> TRUE,  applyOk |-> TRUE]) @@
    (q3 :> [need |-> NoRec, add |-> r3, fmtOk |-> TRUE,  applyOk |-> FALSE]) @@
    (q4 :> [need |-> NoRec, add |-> r3, fmtOk |-> FALSE, applyOk |-> TRUE])

CONSTANT Unset

\* No interval bound is configured here, so UINT32_MAX is never compared;
\* TLC's integers stop at 2^31 - 1.
CC == INSTANCE ConfCheck WITH UintMax <- 2147483647, PolicyCds <- <<>>

\* Catalog templates making member zones of catalog "cz" with an empty
\* ddns-master, one without and one with dnssec-signing.
MCTemplates ==
    ("t1" :> [CC!NoOptions EXCEPT !.catalogRole = "member", !.catalogZone = "cz",
                                  !.ddnsMaster = ""]) @@
    ("t2" :> [CC!NoOptions EXCEPT !.catalogRole = "member", !.catalogZone = "cz",
                                  !.ddnsMaster = "", !.dnssecSigning = TRUE])

\* Zones with ddns-master left out, empty or naming remote r1, with and
\* without dnssec-signing, and catalog zones interpreting either template.
Zones == {[CC!NoOptions EXCEPT !.ddnsMaster = d, !.dnssecSigning = s] :
             d \in {Unset, "", "r1"}, s \in {Unset, TRUE}}
Catalogs == {[CC!NoOptions EXCEPT !.catalogRole = "interpret", !.catalogTpl = {t}] :
                t \in DOMAIN MCTemplates}

\* The options of the zones the server runs: the configured zones the
\* loader accepts, and the member zones of accepted catalogs, which take
\* the options of the catalog's template.
Running ==
    {c \in Zones : CC!ZoneAccepted(c, MCTemplates)} \cup
    UNION {{MCTemplates[t] : t \in z.catalogTpl} :
              z \in {z \in Catalogs : CC!ZoneAccepted(z, MCTemplates)}}

\* Each of them as a primary and as a secondary.
MCConfigs ==
    {[slave |-> sl,
      ddnsMaster |-> CASE c.ddnsMaster = Unset -> "unset"
                       [] c.ddnsMaster = ""    -> "empty"
                       [] OTHER                -> "set",
      signing |-> CC!Val(c, "dnssecSigning")] : c \in Running, sl \in BOOLEAN}

=============================================================================
