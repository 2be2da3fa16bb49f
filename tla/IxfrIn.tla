------------------------------ MODULE IxfrIn ------------------------------
(***************************************************************************)
(* The incoming-transfer parser of a secondary (transfer_consume,          *)
(* ixfr_consume, axfr_consume and the IXFR record state machine in         *)
(* knot/events/handlers/refresh.c).  The secondary asked for IXFR from     *)
(* version LocalVer; a master at version MVer answers with an IXFR, an     *)
(* AXFR-style IXFR or a single up-to-date SOA, and the answer reaches the  *)
(* parser cut into packets at any record boundary.  One step consumes one  *)
(* packet, exactly as the requestor hands packets to transfer_consume.     *)
(* Records are abstracted to SOAs (identified by the version they carry)   *)
(* and data records; every record has size 1.                              *)
(***************************************************************************)
EXTENDS Naturals, Sequences, FiniteSets, SequencesExt, Serial

CONSTANTS
    Recs,         \* non-SOA records of the zone (model values)
    JunkRec,      \* a record whose owner is outside the zone (model value)
    MaxVer,       \* versions of the primary's zone are 0..MaxVer
    Content,      \* Content[v]: the records of version v
    SerialBase,   \* the SOA serial of version v is SerialBase + v (mod 2^w)
    LocalVer,     \* the version the secondary holds and asks IXFR from
    IxfrByOneOpts, \* the values of ixfr-by-one the model explores
    MaxZoneSize,  \* zone-max-size
    Junk,         \* answers may carry one out-of-bailiwick record
    RemoteExpires, \* EDNS EXPIRE options a master may put in its answer:
                  \* "none", "low" (below 2 s) or "ok" (2 s or more)
    None,
    Tree, MaxPuts, OutFaults, ErrPkt   \* of a Knot primary (AxfrOut)

Versions == 0 .. MaxVer

ASSUME /\ Content \in [Versions -> SUBSET Recs] /\ JunkRec \notin Recs
       /\ MaxVer < SerialMod /\ LocalVer \in Versions
       /\ IxfrByOneOpts \subseteq BOOLEAN /\ Junk \in BOOLEAN /\ MaxZoneSize \in Nat
       /\ RemoteExpires \subseteq {"none", "low", "ok"}

VerSerial(v) == (SerialBase + v) % SerialMod

(***************************************************************************)
(* Records and the answers a master sends                                  *)
(***************************************************************************)

SOA(v)   == [type |-> "SOA", v |-> v]
RR(r)    == [type |-> "RR", r |-> r, inzone |-> TRUE]
JunkRR   == [type |-> "RR", r |-> JunkRec, inzone |-> FALSE]
InZone(rr) == rr.type = "SOA" \/ rr.inzone

\* A primary's zone tree holds each record of the version once, the SOA
\* in the apex node.
ASSUME \A v \in Versions :
         /\ SOA(v) \in ToSet(Tree[v][1])
         /\ Len(FlattenSeq(Tree[v])) = 1 + Cardinality(Content[v])
         /\ ToSet(FlattenSeq(Tree[v])) = {SOA(v)} \cup {RR(r) : r \in Content[v]}

\* The records of a set, in one fixed order.
AsSeq(S) == LET s == CHOOSE s \in [1 .. Cardinality(S) -> S] :
                        \A i, j \in DOMAIN s : i # j => s[i] # s[j]
            IN  [i \in DOMAIN s |-> RR(s[i])]

\* RFC 1995 encoding of the change from version b to b + 1.
DiffSeq(b) == <<SOA(b)>> \o AsSeq(Content[b] \ Content[b + 1])
              \o <<SOA(b + 1)>> \o AsSeq(Content[b + 1] \ Content[b])

RECURSIVE DiffsSeq(_, _)
DiffsSeq(b, t) == IF b = t THEN <<>> ELSE DiffSeq(b) \o DiffsSeq(b + 1, t)

IxfrAnswer(q, v) == <<SOA(v)>> \o DiffsSeq(q, v) \o <<SOA(v)>>
AxfrAnswer(v)    == <<SOA(v)>> \o AsSeq(Content[v]) \o <<SOA(v)>>

\* The answer with JunkRec inserted before position p.
WithJunk(s, p) == SubSeq(s, 1, p - 1) \o <<JunkRR>> \o SubSeq(s, p, Len(s))

\* The packets of answer s when a new packet starts at every position in C.
RECURSIVE Cut(_, _)
Cut(s, C) ==
    IF C = {} THEN <<s>>
    ELSE LET c == CHOOSE x \in C : \A y \in C : x >= y
         IN  Cut(SubSeq(s, 1, c - 1), C \ {c}) \o <<SubSeq(s, c, Len(s))>>

VARIABLES
    kind,       \* the answer the master sent: "ixfr", "axfr" or "uptodate"
    mver,       \* the version of the answering master
    junkAt,     \* position of the out-of-bailiwick record, 0 if none
    pkts,       \* packets not yet handed to transfer_consume
    d,          \* struct refresh_data (the parts the parser touches)
    ixfrByOne,  \* the zone's ixfr-by-one option, fixed by the configuration
    asked,      \* the question: "IXFR", or "AXFR" (bootstrap, forced, fallback)
    ap,         \* the answering Knot primary's AXFR state, "idle" if the
    produced,   \* answer was sent by another server; the packets sent
                \* (all of them from the start for another server)
    kd,         \* kdig asking the same question of the same server
    rexp        \* the EDNS EXPIRE option of the answer: its value, and
                \* whether every message or only the first carries it

vars == <<kind, mver, junkAt, pkts, d, ixfrByOne, asked, ap, produced, kd, rexp>>

\* A Knot primary answering the question with axfr_process_query and
\* writing into the packets the requestor reads.
AO == INSTANCE AxfrOut WITH out <- pkts, ver <- mver

\* The serial an SOA record carries.
SOASerial(rr) == VerSerial(rr.v)

\* kdig reading every message the server sent, in order.
KD == INSTANCE KdigXfr WITH sent <- produced, qtype <- asked, RRSerial <- SOASerial

(***************************************************************************)
(* The IXFR record state machine                                           *)
(***************************************************************************)

AddState == {"SOA_ADD", "ADD"}

\* Variant of ixfr_next_state that keeps ixfr_by_one on the final SOA.
IxfrNextStateKeepByOne(D, rr) ==
    LET soa == rr.type = "SOA" IN
    IF D.state \in AddState /\ (rr = D.final \/ (soa /\ D.byOne))
    THEN [st |-> "DONE", byOne |-> D.byOne]
    ELSE [st |-> CASE D.state = "START" -> IF D.final # None THEN "SOA_DEL"
                                                           ELSE "START"
                   [] D.state \in {"SOA_DEL", "DEL"} -> IF soa THEN "SOA_ADD"
                                                               ELSE "DEL"
                   [] D.state \in AddState -> IF soa THEN "SOA_DEL" ELSE "ADD",
          byOne |-> D.byOne]

\* ixfr_next_state: the next state and the ixfr_by_one flag.
IxfrNextState(D, rr) ==
    LET soa == rr.type = "SOA" IN
    IF D.state \in AddState /\ rr = D.final THEN [st |-> "DONE", byOne |-> FALSE]
    ELSE IF D.state \in AddState /\ soa /\ D.byOne
    THEN [st |-> "DONE", byOne |-> TRUE]
    ELSE [st |-> CASE D.state = "START" -> IF D.final # None THEN "SOA_DEL"
                                                           ELSE "START"
                   [] D.state \in {"SOA_DEL", "DEL"} -> IF soa THEN "SOA_ADD"
                                                               ELSE "DEL"
                   [] D.state \in AddState -> IF soa THEN "SOA_DEL" ELSE "ADD",
          byOne |-> D.byOne]

\* The changeset list with its last changeset updated by f.
UpdTail(chs, f(_)) == [chs EXCEPT ![Len(chs)] = f(@)]

\* Variant of ixfr_step that files removals and additions the wrong way.
IxfrStepSwapped(D, rr) ==
    LET n  == IxfrNextState(D, rr)
        D1 == [D EXCEPT !.state = n.st, !.byOne = n.byOne]
        soa == rr.type = "SOA"
    IN  CASE n.st = "START" ->
               IF soa THEN [D1 EXCEPT !.final = rr, !.chs = <<>>]
               ELSE [D1 EXCEPT !.ret = "EMALF"]
          [] n.st = "SOA_DEL" ->
               IF soa THEN [D1 EXCEPT !.chs = Append(@, [from |-> rr, to |-> None,
                                                         del |-> {}, add |-> {}])]
               ELSE [D1 EXCEPT !.ret = "EMALF"]
          [] n.st = "DEL" ->
               [D1 EXCEPT !.chs = UpdTail(@, LAMBDA c : [c EXCEPT !.add = @ \cup {rr.r}])]
          [] n.st = "SOA_ADD" ->
               [D1 EXCEPT !.chs = UpdTail(@, LAMBDA c : [c EXCEPT !.to = rr])]
          [] n.st = "ADD" ->
               [D1 EXCEPT !.chs = UpdTail(@, LAMBDA c : [c EXCEPT !.del = @ \cup {rr.r}])]
          [] n.st = "DONE" -> D1

\* ixfr_step: move to the next state and file rr (ixfr_solve_*).
IxfrStep(D, rr) ==
    LET n  == IxfrNextState(D, rr)
        D1 == [D EXCEPT !.state = n.st, !.byOne = n.byOne]
        soa == rr.type = "SOA"
    IN  CASE n.st = "START" ->
               IF soa THEN [D1 EXCEPT !.final = rr, !.chs = <<>>]
               ELSE [D1 EXCEPT !.ret = "EMALF"]
          [] n.st = "SOA_DEL" ->
               IF soa THEN [D1 EXCEPT !.chs = Append(@, [from |-> rr, to |-> None,
                                                         del |-> {}, add |-> {}])]
               ELSE [D1 EXCEPT !.ret = "EMALF"]
          [] n.st = "DEL" ->
               [D1 EXCEPT !.chs = UpdTail(@, LAMBDA c : [c EXCEPT !.del = @ \cup {rr.r}])]
          [] n.st = "SOA_ADD" ->
               [D1 EXCEPT !.chs = UpdTail(@, LAMBDA c : [c EXCEPT !.to = rr])]
          [] n.st = "ADD" ->
               [D1 EXCEPT !.chs = UpdTail(@, LAMBDA c : [c EXCEPT !.add = @ \cup {rr.r}])]
          [] n.st = "DONE" -> D1

\* Variant of ixfr_consume_rr without the bailiwick test.
IxfrConsumeRRNoBailiwick(D, rr) ==
    LET D1 == IxfrStep(D, rr)
        D2 == [D1 EXCEPT !.size = @ + 1]
    IN  CASE D1.ret # "EOK"               -> [d |-> D1, next |-> "FAIL"]
          [] D2.size \div 2 > MaxZoneSize -> [d |-> D2, next |-> "FAIL"]
          [] D2.state = "DONE"             -> [d |-> D2, next |-> "DONE"]
          [] OTHER                         -> [d |-> D2, next |-> "CONSUME"]

\* ixfr_consume_rr: out-of-bailiwick records are skipped; the accounted
\* size is compared halved with zone-max-size after the step.
IxfrConsumeRR(D, rr) ==
    IF ~InZone(rr) THEN [d |-> D, next |-> "CONSUME"]
    ELSE LET D1 == IxfrStep(D, rr)
             D2 == [D1 EXCEPT !.size = @ + 1]
         IN  CASE D1.ret # "EOK"             -> [d |-> D1, next |-> "FAIL"]
               [] D2.size \div 2 > MaxZoneSize ->
                    [d |-> [D2 EXCEPT !.ret = "EZONESIZE"], next |-> "FAIL"]
               [] D2.state = "DONE"           -> [d |-> D2, next |-> "DONE"]
               [] OTHER                       -> [d |-> D2, next |-> "CONSUME"]

\* zcreator_step (outside the sources, from spec section 4.4): records are
\* added to the new contents, the first SOA becomes the apex SOA, a record
\* outside the zone is refused.
ZcreatorStep(D, rr) ==
    CASE ~InZone(rr)       -> [D EXCEPT !.ret = "EOUTOFZONE"]
      [] rr.type = "SOA"   -> [D EXCEPT !.zone.soa = rr]
      [] OTHER             -> [D EXCEPT !.zone.recs = @ \cup {rr.r}]

\* Variant of axfr_consume_rr that refuses a transfer at the exact ceiling.
AxfrConsumeRRSizeGeq(D, rr) ==
    IF rr.type = "SOA" /\ D.zone.soa # None THEN [d |-> D, next |-> "DONE"]
    ELSE LET D1 == ZcreatorStep(D, rr)
             D2 == [D1 EXCEPT !.size = @ + 1]
         IN  CASE D1.ret # "EOK"         -> [d |-> D1, next |-> "FAIL"]
               [] D2.size >= MaxZoneSize -> [d |-> D2, next |-> "FAIL"]
               [] OTHER                  -> [d |-> D2, next |-> "CONSUME"]

\* axfr_consume_rr: a second SOA ends the transfer before anything else.
AxfrConsumeRR(D, rr) ==
    IF rr.type = "SOA" /\ D.zone.soa # None THEN [d |-> D, next |-> "DONE"]
    ELSE LET D1 == ZcreatorStep(D, rr)
             D2 == [D1 EXCEPT !.size = @ + 1]
         IN  CASE D1.ret # "EOK"        -> [d |-> D1, next |-> "FAIL"]
               [] D2.size > MaxZoneSize -> [d |-> [D2 EXCEPT !.ret = "EZONESIZE"],
                                            next |-> "FAIL"]
               [] OTHER                 -> [d |-> D2, next |-> "CONSUME"]

\* ixfr_consume_packet / axfr_consume_packet: records in order while the
\* state stays CONSUME.
RECURSIVE ConsumeRecs(_, _, _)
ConsumeRecs(D, recs, isIxfr) ==
    IF recs = <<>> THEN [d |-> D, next |-> "CONSUME"]
    ELSE LET r == IF isIxfr THEN IxfrConsumeRR(D, Head(recs))
                  ELSE AxfrConsumeRR(D, Head(recs))
         IN  IF r.next # "CONSUME" THEN r ELSE ConsumeRecs(r.d, Tail(recs), isIxfr)

\* The SOA saved from an undetermined first packet is consumed first
\* (unless reuse is false: a plain AXFR drops it), then the packet.
ConsumeSaved(D, pkt, isIxfr, reuse) ==
    IF D.init = None THEN ConsumeRecs(D, pkt, isIxfr)
    ELSE LET D0 == [D EXCEPT !.init = None]
             r  == IF ~reuse THEN [d |-> D0, next |-> "CONSUME"]
                   ELSE IF isIxfr THEN IxfrConsumeRR(D0, D.init)
                   ELSE AxfrConsumeRR(D0, D.init)
         IN  IF r.next # "CONSUME" THEN r ELSE ConsumeRecs(r.d, pkt, isIxfr)

\* axfr_consume: an error rcode fails the transfer; the first packet
\* creates the new contents.
AxfrConsume(D, pkt, reuse) ==
    IF pkt = ErrPkt THEN [d |-> [D EXCEPT !.ret = "EDENIED"], next |-> "FAIL"]
    ELSE
    LET D1 == IF D.zone = None
              THEN [D EXCEPT !.zone = [soa |-> None, recs |-> {}], !.size = 0]
              ELSE D
    IN  ConsumeSaved(D1, pkt, FALSE, reuse)

\* Variant of determine_xfr_type that refuses a lone SOA it cannot place.
DetermineXfrTypeNoWait(ans, zoneSerial, initial) ==
    LET one == ans[1] IN
    CASE Len(ans) < 1 -> "NOTIMP"
      [] initial # None ->
           IF one.type = "SOA" THEN (IF initial = one THEN "AXFR" ELSE "IXFR")
           ELSE "AXFR"
      [] Len(ans) = 1 ->
           IF one.type = "SOA" /\ SerialIsCurrent(zoneSerial, VerSerial(one.v))
           THEN "UPTODATE" ELSE "ERROR"
      [] Len(ans) = 2 /\ one.type = "SOA" /\ one = ans[2] -> "AXFR"
      [] OTHER -> IF one.type = "SOA" /\ ans[2].type # "SOA" THEN "AXFR"
                  ELSE "IXFR"

\* determine_xfr_type on the first packet (and the SOA saved from an
\* undetermined one); zoneSerial is the serial the IXFR was asked from.
DetermineXfrType(ans, zoneSerial, initial) ==
    LET one == ans[1] IN
    CASE Len(ans) < 1 -> "NOTIMP"
      [] initial # None ->
           IF one.type = "SOA" THEN (IF initial = one THEN "AXFR" ELSE "IXFR")
           ELSE "AXFR"
      [] Len(ans) = 1 ->
           IF one.type = "SOA"
           THEN IF SerialIsCurrent(zoneSerial, VerSerial(one.v))
                THEN "UPTODATE" ELSE "UNDETERMINED"
           ELSE "ERROR"
      [] Len(ans) = 2 /\ one.type = "SOA" /\ one = ans[2] -> "AXFR"
      [] OTHER -> IF one.type = "SOA" /\ ans[2].type # "SOA" THEN "AXFR"
                  ELSE "IXFR"

\* ixfr_consume: an error rcode fails the transfer; the first packet
\* decides the kind of answer.
IxfrConsume(D, pkt) ==
    IF pkt = ErrPkt THEN [d |-> [D EXCEPT !.ret = "EDENIED"], next |-> "FAIL"]
    ELSE IF D.state # "NONE" THEN ConsumeSaved(D, pkt, TRUE, TRUE)
    ELSE LET t == DetermineXfrType(pkt, VerSerial(LocalVer), D.init) IN
         CASE t \in {"ERROR", "NOTIMP"} ->
                [d |-> [D EXCEPT !.xfrType = "IXFR",
                          !.ret = IF t = "ERROR" THEN "EMALF" ELSE "ENOTSUP"],
                 next |-> "FAIL"]
           [] t = "UNDETERMINED" ->
                [d |-> [D EXCEPT !.xfrType = t, !.init = pkt[1]], next |-> "CONSUME"]
           [] t = "AXFR" ->
                AxfrConsume([D EXCEPT !.xfrType = t, !.style = TRUE], pkt, TRUE)
           [] t = "UPTODATE" -> [d |-> [D EXCEPT !.xfrType = t], next |-> "DONE"]
           [] t = "IXFR" ->
                ConsumeSaved([D EXCEPT !.xfrType = t, !.state = "START", !.final = None,
                                       !.chs = <<>>, !.size = 0], pkt, TRUE, TRUE)

(***************************************************************************)
(* Actions                                                                 *)
(***************************************************************************)

\* transfer_consume of the next packet: fallback_axfr is set from the kind
\* of answer known before the packet, then the packet goes to the AXFR or
\* the IXFR consumer.  Finalization (refresh.c ixfr_finalize and
\* axfr_finalize) is the business of the Refresh module.
\* The EXPIRE option the i-th message of the answer carries.
PktExpire(i) == IF rexp.mode = "all" \/ i = 1 THEN rexp.val ELSE "none"

\* consume_edns_expire with strictly_follow: a message carrying the option
\* sets expire_timer to its value, one without it leaves expire_timer as
\* it was (catalog zones, which pin it to EXPIRE_TIMER_INVALID, are not
\* modelled).
ConsumeEdnsExpire(e, o) == IF o = "none" THEN e ELSE o

\* Variant of transfer_consume without the check of the remote's expiry.
ConsumePacketNoExpireCheck(D, pkt, o) ==
    LET D0 == [D EXCEPT !.expire = ConsumeEdnsExpire(D.expire, o),
                        !.fbAxfr = (D.xfrType = "IXFR")]
        r  == IF D0.xfrType = "AXFR" THEN AxfrConsume(D0, pkt, FALSE)
              ELSE IxfrConsume(D0, pkt)
    IN  [r.d EXCEPT !.next = r.next]

\* transfer_consume: the EXPIRE option first; while expire_timer is below
\* 2 s the message is ignored (IGNORE: the requestor reads the next one);
\* otherwise fallback_axfr is set for an IXFR and the message parsed.
ConsumePacket(D, pkt, o) ==
    LET D0 == [D EXCEPT !.expire = ConsumeEdnsExpire(D.expire, o)]
        D1 == [D0 EXCEPT !.fbAxfr = (D0.xfrType = "IXFR")]
        r  == IF D1.xfrType = "AXFR" THEN AxfrConsume(D1, pkt, FALSE)
              ELSE IxfrConsume(D1, pkt)
    IN  IF D0.expire = "low" THEN D0 ELSE [r.d EXCEPT !.next = r.next]

\* The position in the answer of the next message to read.
NextPkt == Len(produced) - Len(pkts) + 1

TransferConsume ==
    /\ d.next = "CONSUME"
    /\ pkts # <<>>
    /\ d' = ConsumePacket(d, Head(pkts), PktExpire(NextPkt))
    /\ pkts' = Tail(pkts)
    /\ UNCHANGED <<kind, mver, junkAt, ixfrByOne, asked, ap, produced, kd, rexp>>

\* All of the answer has been read: the packets cut beforehand, or every
\* packet of a Knot primary that completed its answer.
Delivered == pkts = <<>> /\ ap.st \in {"idle", "done"}

\* The requestor waits for a message that will not come: its wait times
\* out and the exchange fails with KNOT_ETIMEOUT.
ReadTimeout ==
    /\ d.next = "CONSUME"
    /\ pkts = <<>> /\ ap.st \in {"idle", "done", "fail"}
    /\ d' = [d EXCEPT !.next = "FAIL", !.ret = "ETIMEOUT"]
    /\ UNCHANGED <<kind, mver, junkAt, pkts, ixfrByOne, asked, ap, produced, kd, rexp>>

\* The transfer is over: transfer_consume returned DONE or FAIL.
Stopped ==
    /\ d.next # "CONSUME"
    /\ UNCHANGED vars

\* The answers a master at version v sends to an IXFR from LocalVer.
Answers == {<<"uptodate", v>> : v \in 0 .. LocalVer}
           \cup {<<k, v>> : k \in {"ixfr", "axfr"}, v \in (LocalVer + 1) .. MaxVer}

Sent(k, v) == CASE k = "uptodate" -> <<SOA(v)>>
                [] k = "ixfr"     -> IxfrAnswer(LocalVer, v)
                [] k = "axfr"     -> AxfrAnswer(v)

\* refresh_begin of an IXFR try: xfr_type IXFR, no parser state yet.
InitData(byOne) == [xfrType |-> "IXFR", state |-> "NONE", init |-> None, final |-> None,
             chs |-> <<>>, zone |-> None, size |-> 0, byOne |-> byOne,
             style |-> FALSE, ret |-> "EOK", fbAxfr |-> FALSE, next |-> "CONSUME",
             expire |-> "invalid"]

\* The EXPIRE options an answer may carry; an absent option is absent
\* from every message.
RemoteExpireOpts ==
    {r \in [mode : {"all", "first"}, val : RemoteExpires] :
        r.val = "none" => r.mode = "all"}

\* The answer of another server, cut into packets beforehand.
CutInit ==
    \E a \in Answers, j \in 0 .. MaxVer + 3 + 2 * Cardinality(Recs) :
        LET plain == Sent(a[1], a[2])
            s     == IF j = 0 THEN plain ELSE WithJunk(plain, j)
        IN  /\ (j = 0 \/ (Junk /\ 2 <= j /\ j <= Len(plain)))
            /\ kind = a[1] /\ mver = a[2] /\ junkAt = j
            /\ \E C \in SUBSET (2 .. Len(s)) : pkts = Cut(s, C)
            /\ ixfrByOne \in IxfrByOneOpts
            /\ d = InitData(ixfrByOne)
            /\ asked = "IXFR"
            /\ ap = [AO!Start EXCEPT !.st = "idle"] /\ produced = pkts
            /\ KD!KdigInit
            /\ rexp \in RemoteExpireOpts

\* A Knot primary answers with a full zone: an AXFR question
\* (refresh_begin sets xfr_type AXFR), or an IXFR question it answers
\* AXFR-style from a newer version.
KnotInit ==
    /\ \E q \in {"IXFR", "AXFR"} :
          /\ asked = q
          /\ mver \in IF q = "IXFR" THEN (LocalVer + 1) .. MaxVer ELSE Versions
    /\ kind = "axfr" /\ junkAt = 0 /\ pkts = <<>>
    /\ ixfrByOne \in IxfrByOneOpts
    /\ d = [InitData(ixfrByOne) EXCEPT !.xfrType = asked]
    /\ ap = AO!Start /\ produced = <<>>
    /\ KD!KdigInit
    /\ rexp \in RemoteExpireOpts

Init == CutInit \/ KnotInit

\* The primary sends its next packet; the secondary waits.
Produce ==
    /\ AO!Produce
    /\ UNCHANGED <<kind, mver, junkAt, d, ixfrByOne, asked, kd, rexp>>

\* kdig reads the next message, or gives up waiting for one.
KdigRead ==
    /\ KD!KdigNext
    /\ UNCHANGED <<kind, mver, junkAt, pkts, d, ixfrByOne, ap, rexp>>

Next == TransferConsume \/ ReadTimeout \/ Produce \/ KdigRead \/ Stopped

Spec == Init /\ [][Next]_vars

\* Reading the next packet.  TransferConsume is enabled exactly when this
\* is, and is the only action of Next that takes a packet, so fairness on
\* it is fairness on TransferConsume (and cheap for TLC to evaluate).
ReadPacket == d.next = "CONSUME" /\ pkts # <<>> /\ pkts' = Tail(pkts)

\* The primary's server keeps calling axfr_process_query while it answers
\* PRODUCE, the requestor keeps reading while the consumer answers CONSUME
\* (TCP delivers every packet in order), and a wait for a message that
\* never comes ends on the requestor's timeout.
FairSpec == Spec /\ WF_vars(Produce) /\ WF_pkts(ReadPacket) /\ WF_vars(ReadTimeout)

(***************************************************************************)
(* Properties                                                              *)
(***************************************************************************)

\* The changesets from version b to t, as the primary computed them.
RefChangesets(b, t) ==
    [i \in 1 .. (t - b) |-> [from |-> SOA(b + i - 1), to |-> SOA(b + i),
                             del |-> Content[b + i - 1] \ Content[b + i],
                             add |-> Content[b + i] \ Content[b + i - 1]]]

SOAs == {SOA(v) : v \in Versions}

\* The parser state stays within its type: changesets and new contents
\* hold zone records only.
TypeOK ==
    /\ kind \in {"ixfr", "axfr", "uptodate"} /\ mver \in Versions
    /\ d.xfrType \in {"IXFR", "AXFR", "UPTODATE", "UNDETERMINED"}
    /\ d.state \in {"NONE", "START", "SOA_DEL", "DEL", "SOA_ADD", "ADD", "DONE"}
    /\ d.next \in {"CONSUME", "DONE", "FAIL"}
    /\ d.chs \in Seq([from : SOAs, to : SOAs \cup {None},
                      del : SUBSET Recs, add : SUBSET Recs])
    /\ d.zone \in {None} \cup [soa : SOAs \cup {None}, recs : SUBSET Recs]
    /\ d.size \in Nat /\ {d.byOne, d.style, d.fbAxfr, ixfrByOne} \subseteq BOOLEAN
    /\ d.expire \in {"invalid", "low", "ok"} /\ rexp \in RemoteExpireOpts
    /\ asked \in {"IXFR", "AXFR"}
    /\ ap.st \in {"idle", "start", "produce", "done", "fail"}
    /\ kd.st \in {"read", "done", "fail"} /\ kd.msgs \in 0 .. Len(produced)

\* Whatever packets the answer was cut into, a completed transfer is what
\* the master sent: an IXFR yields the primary's changesets from the local
\* version (only the first with ixfr-by-one, which then stays set exactly
\* when more were offered), an AXFR-style answer yields the contents of
\* the master's version (spec property P5 when a Knot primary produced
\* it, however axfr_process_query split it), marked AXFR-style exactly
\* when IXFR was asked, and a short answer is recognised as up to date.
\* (determine_xfr_type, ixfr_next_state, ixfr_consume, axfr_consume,
\* axfr_put_rrsets, axfr_answer_finished.)
AnswerDecoded ==
    d.next = "DONE" =>
      CASE kind = "ixfr" ->
             LET t == IF ixfrByOne THEN LocalVer + 1 ELSE mver IN
             /\ d.xfrType = "IXFR" /\ d.final = SOA(mver)
             /\ d.chs = RefChangesets(LocalVer, t)
             /\ d.byOne = (ixfrByOne /\ mver > LocalVer + 1)
        [] kind = "axfr" ->
             /\ d.xfrType = "AXFR" /\ d.style = (asked = "IXFR")
             /\ d.zone = [soa |-> SOA(mver), recs |-> Content[mver]]
        [] kind = "uptodate" -> d.xfrType = "UPTODATE"

\* zone-max-size bounds the new contents of an AXFR (its SOA and records)
\* and half the records of an IXFR answer.
WithinMaxSize ==
    CASE kind = "axfr" -> 1 + Cardinality(Content[mver]) <= MaxZoneSize
      [] kind = "ixfr" -> Len(Sent(kind, mver)) \div 2 <= MaxZoneSize
      [] OTHER         -> TRUE

\* The answer tells the secondary the master's zone expires within 2 s.
RemoteExpired == rexp.val = "low"

\* A complete answer within zone-max-size, free of foreign records and
\* from a master whose zone has not expired is accepted: the parser
\* neither fails it nor keeps waiting for a packet that will not come
\* (the requestor would then fail on its timeout).
AnswerAccepted ==
    /\ junkAt = 0 /\ WithinMaxSize /\ ap.st # "fail" /\ ~RemoteExpired
    /\ d.next # "CONSUME" \/ Delivered
    => d.next = "DONE"

\* The packets of a completed outgoing AXFR carry, read in order, the SOA,
\* every other rrset of the tree exactly once in tree order, and the SOA
\* again, whatever split into packets the space left and the
\* KNOT_WIRE_PTR_MAX wrap chose (axfr_put_rrsets resuming at cur_rrset,
\* axfr_process_node_tree, axfr_answer_finished counting messages).
AxfrStreamExact ==
    ap.st = "done" => FlattenSeq(produced) = AO!Expected(mver)

\* An answer whose EDNS EXPIRE is below 2 s is never applied, whether the
\* option comes in every message or in the first only, and whatever
\* answer and split it comes with: the master's copy is expired, so its
\* data must not replace the secondary's (transfer_consume ignoring each
\* message while expire_timer < 2, consume_edns_expire keeping the value
\* over messages without the option; spec section 4.5, RFC 7314).
ExpiredRemoteNotApplied == RemoteExpired => d.next # "DONE"

\* Every transfer ends: the consumer eventually answers DONE or FAIL, for
\* any answer and any packet split, when the primary keeps producing and
\* the requestor keeps reading (axfr_process_query returning PRODUCE until
\* the last packet, transfer_consume), and it ends on the parser's own
\* verdict: only an answer ignored to its end, that of an expired master,
\* is left to the requestor's timeout (a primary that stops before the
\* closing SOA would be too).
TransferEnds ==
    /\ <>(d.next # "CONSUME")
    /\ [][d'.ret = "ETIMEOUT" => RemoteExpired]_vars

\* The whole answer is on the connection: the packets another server's
\* answer was cut into, or those of a Knot primary that completed it.
AnswerSent == ap.st \in {"idle", "done"}

\* kdig reports a transfer complete exactly when it has read the last
\* message of the answer, however the server split it into messages: it
\* never stops inside the answer (the rest would go unread and unprinted)
\* and never waits for a message after the last one (process_xfr_packet,
\* first_serial_check, finished_xfr looking at the last record of each
\* message; RFC 1995 and RFC 5936 end the answer at the closing SOA).
KdigReadsWholeAnswer ==
    /\ kd.st = "done" => AnswerSent /\ kd.msgs = Len(produced)
    /\ AnswerSent /\ produced # <<>> /\ kd.msgs = Len(produced) /\ kd.st # "fail"
       => kd.st = "done"

\* kdig reads exactly the whole AXFR answer of a Knot primary, wherever
\* axfr_process_query ended a packet, the opening SOA sent alone included
\* (finished_xfr against axfr_put_rrsets and xfr_process_list).  An IXFR
\* question answered AXFR-style is not claimed: a first message holding
\* only the SOA ends it there (kdig_ixfr).
KdigReadsKnotAnswer == ap.st # "idle" /\ asked = "AXFR" => KdigReadsWholeAnswer

\* An out-of-bailiwick record in an IXFR is silently skipped (spec section
\* 4.5; it is refused only in an AXFR, section 4.4), so a complete IXFR
\* within zone-max-size that carries one is accepted as well
\* (determine_xfr_type, ixfr_consume).
IxfrJunkSkipped ==
    kind = "ixfr" /\ WithinMaxSize /\ (d.next # "CONSUME" \/ pkts = <<>>) => d.next = "DONE"

====
