------------------------------ MODULE ConfCheck ------------------------------
(***************************************************************************)
(* The zone checks of the configuration loader (knot/conf/tools.c):        *)
(* check_zone_or_tpl, run on every zone (check_zone) and on every template *)
(* a catalog zone names (check_catalog_tpl), with sub_check_catalog_tpl,   *)
(* and the schema defaults of the options they read (schema.c,            *)
(* ZONE_ITEMS).  Templates map template ids to their own options.          *)
(*                                                                         *)
(* A configuration is a function from option names to values; an option   *)
(* that is not configured is Unset.  conf_get_wrap then returns a value    *)
(* whose code is not KNOT_EOK, and conf_int, conf_opt and conf_bool read   *)
(* the schema default.  Multi-valued options hold a set of ids.  Only the  *)
(* check's verdict is modelled, not which message it prints; the order of  *)
(* the checks does not change the verdict, as each returns at once.        *)
(***************************************************************************)
EXTENDS Integers

CONSTANTS
    Unset,         \* the option is not configured
    UintMax,       \* UINT32_MAX, the upper end of the interval ranges
    PolicyCds      \* dnssec-policy id -> its cds-cdnskey option

Options == {"refreshMin", "refreshMax", "retryMin", "retryMax", "expireMin",
            "expireMax", "zonefileLoad", "journalContent", "dnssecSigning",
            "dnssecValidation", "ddnsMaster", "serialModulo", "serialPolicy",
            "catalogRole", "catalogTpl", "catalogZone", "catalogGroup",
            "dsPush", "dnssecPolicy"}

\* ZONE_ITEMS: the defaults of the options the check reads by value.  The
\* interval minimums default to the floor of their range, the maximums to
\* UINT32_MAX; dnssec-signing and dnssec-validation are false.
Default ==
    [refreshMin |-> 2, refreshMax |-> UintMax, retryMin |-> 1,
     retryMax |-> UintMax, expireMin |-> 3, expireMax |-> UintMax,
     zonefileLoad |-> "whole", journalContent |-> "changes",
     dnssecSigning |-> FALSE, dnssecValidation |-> FALSE,
     serialPolicy |-> "increment", catalogRole |-> "none"]

\* A zone or template that configures nothing.
NoOptions == [o \in Options |-> Unset]

\* conf_get_wrap: the option of the zone (after its template) or of the
\* named template.  Set: the value's code is KNOT_EOK; Val: what conf_int,
\* conf_opt or conf_bool read from it.
Set(c, o) == c[o] # Unset
Val(c, o) == IF Set(c, o) THEN c[o] ELSE Default[o]

\* Variant of CHECK_ZONE_INTERVALS that never compares the two bounds.
CheckZoneIntervalsNoCompare(c, low, high) == TRUE

\* CHECK_ZONE_INTERVALS: a configured minimum above a configured maximum is
\* rejected; a bound left out is not compared.
CheckZoneIntervals(c, low, high) ==
    Set(c, high) /\ Set(c, low) => c[low] <= c[high]

\* sub_check_catalog_tpl: a template a catalog names either makes member
\* zones of a catalog zone, or has no catalog options at all.
SubCheckCatalogTpl(t) ==
    CASE Val(t, "catalogRole") = "member" ->
             Set(t, "catalogZone") /\ ~Set(t, "catalogTpl")
      [] Val(t, "catalogRole") \in {"interpret", "generate"} -> FALSE
      [] OTHER ->
             ~Set(t, "catalogTpl") /\ ~Set(t, "catalogZone") /\ ~Set(t, "catalogGroup")

\* zonefile-load difference-no-serial needs journal-content all.
ZonefileJournalOK(c) ==
    Val(c, "zonefileLoad") = "difference-no-serial" => Val(c, "journalContent") = "all"

\* Signing excludes validation; without signing, an empty ddns-master is
\* rejected.
SigningOK(c) ==
    IF Val(c, "dnssecSigning")
    THEN ~Val(c, "dnssecValidation")
    ELSE ~(Set(c, "ddnsMaster") /\ c.ddnsMaster = "")

\* A serial-modulo R/M+A is non-trivial when M > 1 or A # 0.
NonTrivialModulo(m) == m.mod > 1 \/ m.add # 0

\* A non-trivial serial-modulo needs dnssec-signing and a zonefile-load of
\* none or difference-no-serial.
SerialModuloOK(c) ==
    Set(c, "serialModulo") /\ NonTrivialModulo(c.serialModulo) =>
        /\ Val(c, "dnssecSigning")
        /\ Val(c, "zonefileLoad") \in {"difference-no-serial", "none"}

\* catalog-role interpret goes with catalog-template and member with
\* catalog-zone; a generated catalog takes no serial-policy but unixtime;
\* an interpreted catalog's templates pass sub_check_catalog_tpl.
CatalogOK(c, Templates) ==
    LET role == Val(c, "catalogRole") IN
    /\ (role = "interpret") = Set(c, "catalogTpl")
    /\ (role = "member") = Set(c, "catalogZone")
    /\ role = "generate" /\ Set(c, "serialPolicy") => c.serialPolicy = "unixtime"
    /\ role = "interpret" => \A t \in c.catalogTpl : SubCheckCatalogTpl(Templates[t])

\* A non-empty ds-push with a configured dnssec-policy needs that policy to
\* publish CDS/CDNSKEY.
DsPushOK(c) ==
    Set(c, "dsPush") /\ Set(c, "dnssecPolicy") /\ c.dsPush # {} =>
        PolicyCds[c.dnssecPolicy] # "none"

\* check_zone_or_tpl.
CheckZoneOrTpl(c, Templates) ==
    /\ CheckZoneIntervals(c, "refreshMin", "refreshMax")
    /\ CheckZoneIntervals(c, "retryMin", "retryMax")
    /\ CheckZoneIntervals(c, "expireMin", "expireMax")
    /\ ZonefileJournalOK(c)
    /\ SigningOK(c)
    /\ SerialModuloOK(c)
    /\ CatalogOK(c, Templates)
    /\ DsPushOK(c)

\* Variant of the load check that skips check_catalog_tpl.
ZoneAcceptedNoCatalogTpl(c, Templates) == CheckZoneOrTpl(c, Templates)

\* check_zone on the zone, and check_catalog_tpl on every template its
\* catalog-template names.
ZoneAccepted(c, Templates) ==
    /\ CheckZoneOrTpl(c, Templates)
    /\ Set(c, "catalogTpl") =>
          \A t \in c.catalogTpl : CheckZoneOrTpl(Templates[t], Templates)

\* limit_timer reads the six bounds with conf_zone_get and conf_int.
IntervalBounds(c) ==
    [refreshMin |-> Val(c, "refreshMin"), refreshMax |-> Val(c, "refreshMax"),
     retryMin   |-> Val(c, "retryMin"),   retryMax   |-> Val(c, "retryMax"),
     expireMin  |-> Val(c, "expireMin"),  expireMax  |-> Val(c, "expireMax")]

====
