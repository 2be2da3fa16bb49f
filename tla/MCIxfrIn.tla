----------------------------- MODULE MCIxfrIn -----------------------------
EXTENDS IxfrIn, TLC

CONSTANTS r1, r2

MCRecs == {r1, r2}
MCContent == (0 :> {r1}) @@ (1 :> {r1, r2}) @@ (2 :> {r2})

\* The primary's trees: the SOA first in one apex, after a record in
\* another, alone in the third.
MCTree == (0 :> << <<SOA(0), RR(r1)>> >>)
          @@ (1 :> << <<RR(r1), SOA(1)>>, <<RR(r2)>> >>)
          @@ (2 :> << <<SOA(2)>>, <<RR(r2)>> >>)
====
