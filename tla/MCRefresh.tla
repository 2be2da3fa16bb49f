----------------------------- MODULE MCRefresh -----------------------------
(***************************************************************************)
(* Instantiates Refresh for TLC: two masters tried in a fixed order, three *)
(* versions of the primary's zone over two records, 3-bit serials that    *)
(* wrap between version 0 and version 1.                                   *)
(***************************************************************************)
EXTENDS Refresh, TLC

CONSTANTS m1, m2, r1, r2

MCMasters     == {m1, m2}
MCMasterOrder == <<m1, m2>>
MCRecs        == {r1, r2}

\* Version 0 -> 1 adds r2, version 1 -> 2 removes r1: replaying the first
\* changeset onto version 2 adds a record that is already there.
MCContent == (0 :> {r1}) @@ (1 :> {r1, r2}) @@ (2 :> {r2})

=============================================================================
