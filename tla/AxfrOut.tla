------------------------------ MODULE AxfrOut ------------------------------
(***************************************************************************)
(* The outgoing AXFR of a primary (knot/nameserver/axfr.c).  The server    *)
(* calls axfr_process_query once per response packet while it answers      *)
(* KNOT_STATE_PRODUCE; each call fills one packet from where the previous  *)
(* one stopped: the zone SOA first, then the rrsets of every node of the   *)
(* zone tree in tree order (the SOA rrset skipped), then the SOA again.    *)
(* A packet is full either when knot_pkt_put fails (the rrset is retried   *)
(* in the next packet) or when the message has grown past                  *)
(* KNOT_WIRE_PTR_MAX after a put (the next rrset starts the next packet).  *)
(* The size of packets and rrsets is abstracted to two choices per call:   *)
(* how many rrsets fit (Puts) and whether the last one that fits        *)
(* crosses KNOT_WIRE_PTR_MAX.  The NSEC3 tree is left out.                 *)
(***************************************************************************)
EXTENDS Naturals, Sequences, SequencesExt

CONSTANTS
    Tree,       \* Tree[v]: the nodes of version v in tree order, each a
                \* sequence of rrsets; the apex node holds the SOA rrset
    MaxPuts,    \* the most rrsets one packet takes
    OutFaults,  \* the failures explored: "init" (axfr_query_init refuses:
                \* not authorized, malformed, frozen, no memory) and
                \* "reserve" (knot_pkt_reserve fails for the TSIG)
    ErrPkt      \* the error response the server sends for a failed query

ASSUME MaxPuts \in Nat \ {0} /\ OutFaults \subseteq {"init", "reserve"}

VARIABLES
    out,        \* packets sent and not yet read by the requestor
    ap,         \* struct axfr_proc, with the server's view of the query:
                \* st (start, produce, done, fail), ni and cur (the tree
                \* iterator and cur_rrset), msgs (stats.messages)
    produced,   \* every packet the producer sent, in order
    ver         \* the version of the zone the query is answered from

ApexSoa(v) == CHOOSE rr \in ToSet(Tree[v][1]) : rr.type = "SOA"

(***************************************************************************)
(* Filling one packet                                                      *)
(***************************************************************************)

\* Variant of axfr_put_rrsets that resumes at the rrset that crossed
\* KNOT_WIRE_PTR_MAX instead of the one after it.
RECURSIVE PutRrsetsRetryCrossing(_, _, _, _, _)
PutRrsetsRetryCrossing(node, i, n, w, pkt) ==
    CASE i > Len(node)         -> [ret |-> "EOK", cur |-> 1, n |-> n, pkt |-> pkt]
      [] node[i].type = "SOA"  -> PutRrsetsRetryCrossing(node, i + 1, n, w, pkt)
      [] n = 0                 -> [ret |-> "ESPACE", cur |-> i, n |-> 0, pkt |-> pkt]
      [] n = 1 /\ w            -> [ret |-> "ESPACE", cur |-> i, n |-> 0,
                                   pkt |-> Append(pkt, node[i])]
      [] OTHER -> PutRrsetsRetryCrossing(node, i + 1, n - 1, w, Append(pkt, node[i]))

\* axfr_put_rrsets: the rrsets of a node from cur_rrset on, n more puts
\* succeed, the n-th crosses KNOT_WIRE_PTR_MAX when w holds.
RECURSIVE PutRrsets(_, _, _, _, _)
PutRrsets(node, i, n, w, pkt) ==
    CASE i > Len(node)         -> [ret |-> "EOK", cur |-> 1, n |-> n, pkt |-> pkt]
      [] node[i].type = "SOA"  -> PutRrsets(node, i + 1, n, w, pkt)
      [] n = 0                 -> [ret |-> "ESPACE", cur |-> i, n |-> 0, pkt |-> pkt]
      [] n = 1 /\ w            -> [ret |-> "ESPACE", cur |-> i + 1, n |-> 0,
                                   pkt |-> Append(pkt, node[i])]
      [] OTHER -> PutRrsets(node, i + 1, n - 1, w, Append(pkt, node[i]))

\* axfr_process_node_tree: node after node until a packet is full; the
\* iterator moves on only past a node put completely.
RECURSIVE ProcessNodeTree(_, _, _, _, _, _)
ProcessNodeTree(t, ni, cur, n, w, pkt) ==
    IF ni > Len(t) THEN [ret |-> "EOK", ni |-> ni, cur |-> 1, n |-> n, pkt |-> pkt]
    ELSE LET r == PutRrsets(t[ni], cur, n, w, pkt) IN
         IF r.ret = "EOK" THEN ProcessNodeTree(t, ni + 1, 1, r.n, w, r.pkt)
         ELSE [ret |-> r.ret, ni |-> ni, cur |-> r.cur, n |-> 0, pkt |-> r.pkt]

\* xfr_process_list (knot/nameserver/xfr.c, outside the sources, from spec
\* section 2): the SOA opens the first message, the trees follow, and the
\* SOA closes the last once there is room for it.
XfrProcessList(s, v, n, w) ==
    LET soa   == ApexSoa(v)
        first == IF s.msgs = 0 THEN <<soa>> ELSE <<>>
        r     == ProcessNodeTree(Tree[v], s.ni, s.cur, n, w, first)
    IN  CASE r.ret # "EOK" -> r
          [] r.n = 0       -> [r EXCEPT !.ret = "ESPACE"]
          [] OTHER         -> [r EXCEPT !.pkt = Append(@, soa)]

\* Variant of axfr_answer_finished that leaves the statistics alone.
AnswerFinishedNoCount(s, st) == [s EXCEPT !.st = st]

\* axfr_answer_finished: every packet sent in PRODUCE or DONE is counted.
AnswerFinished(s, st) ==
    [s EXCEPT !.st = st, !.msgs = IF st \in {"produce", "done"} THEN @ + 1 ELSE @]

(***************************************************************************)
(* Actions                                                                 *)
(***************************************************************************)

Start == [st |-> "start", ni |-> 1, cur |-> 1, msgs |-> 0]

\* Variant of axfr_process_query that ends the answer on a full packet.
ProcessQueryStopOnSpace(f, n, w) ==
    /\ ap.st \in {"start", "produce"}
    /\ LET failed == (ap.st = "start" /\ f = "init") \/ f = "reserve"
           r      == XfrProcessList(ap, ver, n, w)
           pkt    == IF failed THEN ErrPkt ELSE r.pkt
       IN  /\ out' = Append(out, pkt)
           /\ produced' = Append(produced, pkt)
           /\ ap' = IF failed THEN [ap EXCEPT !.st = "fail"]
                    ELSE AnswerFinished([ap EXCEPT !.ni = r.ni, !.cur = r.cur], "done")
    /\ UNCHANGED ver

\* axfr_process_query (with axfr_query_init on the first call): a refused
\* query or a failed TSIG reservation ends in FAIL and the server answers
\* with an error rcode; otherwise one packet is filled and the answer
\* continues (ESPACE) or is complete (EOK).
ProcessQuery(f, n, w) ==
    /\ ap.st \in {"start", "produce"}
    /\ LET failed == (ap.st = "start" /\ f = "init") \/ f = "reserve"
           r      == XfrProcessList(ap, ver, n, w)
           pkt    == IF failed THEN ErrPkt ELSE r.pkt
           st     == IF r.ret = "EOK" THEN "done" ELSE "produce"
       IN  /\ out' = Append(out, pkt)
           /\ produced' = Append(produced, pkt)
           /\ ap' = IF failed THEN [ap EXCEPT !.st = "fail"]
                    ELSE AnswerFinished([ap EXCEPT !.ni = r.ni, !.cur = r.cur], st)
    /\ UNCHANGED ver

\* The puts that may succeed in one packet.  The first packet already
\* holds the opening SOA, so the first rrset after it may not fit
\* (axfr_put_rrsets returning ESPACE at once, the SOA sent alone); a later
\* packet starts empty and takes at least one rrset.
Puts(s) == (IF s.msgs = 0 THEN 0 ELSE 1) .. MaxPuts

\* One call of the server's answering loop.
Produce == \E f \in {"none"} \cup OutFaults, n \in Puts(ap), w \in BOOLEAN :
               ProcessQuery(f, n, w)

\* The stream the primary promises: the SOA, every rrset of the tree but
\* the SOA, in tree order and once, and the SOA again.
Expected(v) == <<ApexSoa(v)>>
               \o SelectSeq(FlattenSeq(Tree[v]), LAMBDA rr : rr.type # "SOA")
               \o <<ApexSoa(v)>>

====
