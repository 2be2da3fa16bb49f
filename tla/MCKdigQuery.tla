---------------------------- MODULE MCKdigQuery ----------------------------
(***************************************************************************)
(* Instantiates KdigQuery for TLC: two servers, one that does not resolve *)
(* and one with two addresses, named in that order; one or two queries,  *)
(* each over UDP or TCP, with or without +keepopen, one retry and one     *)
(* BADCOOKIE retry.                                                        *)
(***************************************************************************)
EXTENDS KdigQuery, TLC

CONSTANTS s1, s2

MCServers == {s1, s2}
MCAddrs == (s1 :> 0) @@ (s2 :> 2)

MCQueries == [servers : {<<s1, s2>>}, protocol : {"udp", "tcp"},
              keepopen : BOOLEAN, retries : {1}, badcookie : {1},
              ignoreTc : {FALSE}]

\* One query, or two where the first keeps its connection open for the
\* second (after a first query without +keepopen the second starts as
\* the first did).
MCQueryLists == {<<a>> : a \in MCQueries} \cup
                {<<a, b>> : a \in {c \in MCQueries : c.keepopen}, b \in MCQueries}

====
