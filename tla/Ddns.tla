------------------------------- MODULE Ddns -------------------------------
(***************************************************************************)
(* The DDNS update event of a zone (event_update in                        *)
(* knot/events/handlers/update.c).                                         *)
(*                                                                         *)
(* Query threads put authenticated UPDATE requests on the zone's           *)
(* ddns_queue under ddns_lock and schedule the UPDATE event; the event     *)
(* takes the whole queue at once (update_dequeue), allocates a response    *)
(* per request, then either forwards every request to the master (a        *)
(* secondary with a ddns-master) or applies them as one bulk to a single   *)
(* zone update, and finally sends every response.  A request is           *)
(* abstracted to its prerequisite (a record that must exist), the record   *)
(* it adds and whether its format check and its application succeed.      *)
(***************************************************************************)
EXTENDS Naturals, Sequences, FiniteSets, SequencesExt

CONSTANTS
    Reqs,        \* UPDATE requests clients send (model values)
    Recs,        \* records of the zone (model values)
    NoRec,       \* no prerequisite
    Req,         \* Req[q]: [need, add, fmtOk, applyOk] of request q
    Zone0,       \* records of the zone when the model starts
    Configs,     \* configurations of the zone: [slave, ddnsMaster, signing]
    Faults       \* local failures the event may meet

ASSUME /\ Req \in [Reqs -> [need : Recs \cup {NoRec}, add : Recs,
                            fmtOk : BOOLEAN, applyOk : BOOLEAN]]
       /\ Zone0 \subseteq Recs
       /\ Configs \subseteq [slave : BOOLEAN, ddnsMaster : {"unset", "empty", "set"},
                             signing : BOOLEAN]
       /\ Faults \subseteq {"alloc", "init", "verify", "sign", "commit",
                            "zonesize", "forward"}

\* Response codes: "none" while no response exists; "PREREQ" stands for
\* the codes of a failed prerequisite, "FORMERR" for a broken update,
\* "APPLYERR" for a failed application; "MASTER" for whatever the master
\* answered a forwarded request.
Rcodes == {"none", "NOERROR", "PREREQ", "FORMERR", "APPLYERR", "SERVFAIL",
           "REFUSED", "MASTER"}

VARIABLES
    queue,       \* zone->ddns_queue
    enqueued,    \* history: requests put on the queue so far
    scheduled,   \* the UPDATE event is planned
    running,     \* the UPDATE event has been taken by a worker
    zone,        \* records of the published zone
    rcode,       \* [Reqs -> Rcodes]: RCODE of each request's response
    sent,        \* requests whose response was sent
    notified,    \* zone_schedule_notify was called
    crashed,     \* a NULL response was dereferenced
    before,      \* history: zone records when the last event started
    batch,       \* history: requests the last event dequeued
    conf         \* zone_is_slave, ddns-master ("unset", "empty" or a
                 \* remote, "set") and dnssec-signing, fixed by the
                 \* configuration

vars == <<queue, enqueued, scheduled, running, zone, rcode, sent, notified,
          crashed, before, batch, conf>>

(***************************************************************************)
(* Helpers translated from update.c                                        *)
(***************************************************************************)

\* The branch of event_update that decides to forward: a secondary whose
\* ddns-master is not the empty string.
Forwarding == conf.slave /\ conf.ddnsMaster # "empty"

\* set_rcodes: every response still NOERROR gets rc.
SetRcodes(rc0, B, rc) ==
    [q \in Reqs |-> IF q \in ToSet(B) /\ rc0[q] = "NOERROR" THEN rc ELSE rc0[q]]

\* check_prereqs: the RCODE a request's prerequisites and format precheck
\* leave, the prerequisites being checked against the staged update up.
CheckPrereqs(q, up) ==
    CASE Req[q].need # NoRec /\ Req[q].need \notin up -> "PREREQ"
      [] ~Req[q].fmtOk                               -> "FORMERR"
      [] OTHER                                       -> "NOERROR"

\* process_bulk over the staged update up: check_prereqs (prerequisites
\* against the update so far, then the format precheck) skips a request;
\* a failed process_single_update aborts the whole bulk.
RECURSIVE ProcessBulk(_, _, _)
ProcessBulk(up, rc, B) ==
    IF B = <<>> THEN [ok |-> TRUE, up |-> up, rc |-> rc]
    ELSE LET q == Head(B) IN
         IF CheckPrereqs(q, up) # "NOERROR"
         THEN ProcessBulk(up, [rc EXCEPT ![q] = CheckPrereqs(q, up)], Tail(B))
         ELSE IF ~Req[q].applyOk
         THEN [ok |-> FALSE, up |-> up, rc |-> [rc EXCEPT ![q] = "APPLYERR"]]
         ELSE ProcessBulk(up \cup {Req[q].add}, rc, Tail(B))

\* Variant of process_normal whose commit failure path leaves the
\* responses as process_bulk set them.
ProcessNormalCommitNoRcodes(rc0, B, fail) ==
    LET bulk == ProcessBulk(zone, rc0, B)
        servfail(rc) == SetRcodes(rc, B, "SERVFAIL")
    IN  CASE fail = "init" -> [zone |-> zone, rc |-> servfail(rc0), ok |-> FALSE]
          [] ~bulk.ok \/ fail \in {"verify", "sign"} ->
                [zone |-> zone, rc |-> servfail(bulk.rc), ok |-> FALSE]
          [] fail = "zonesize" ->
                [zone |-> zone, rc |-> SetRcodes(bulk.rc, B, "REFUSED"), ok |-> FALSE]
          [] fail = "commit" -> [zone |-> zone, rc |-> bulk.rc, ok |-> FALSE]
          [] OTHER -> [zone |-> bulk.up, rc |-> bulk.rc, ok |-> TRUE]

\* process_normal with the responses rc0 of batch B; fail is the first
\* local step that fails ("none" if none does).  Result: the new records,
\* the responses, whether the zone was committed.
ProcessNormal(rc0, B, fail) ==
    LET bulk == ProcessBulk(zone, rc0, B)
        servfail(rc) == SetRcodes(rc, B, "SERVFAIL")
    IN  CASE fail = "init" -> [zone |-> zone, rc |-> servfail(rc0), ok |-> FALSE]
          [] ~bulk.ok \/ fail \in {"verify", "sign"} ->
                [zone |-> zone, rc |-> servfail(bulk.rc), ok |-> FALSE]
          [] fail = "zonesize" ->
                [zone |-> zone, rc |-> SetRcodes(bulk.rc, B, "REFUSED"), ok |-> FALSE]
          [] fail = "commit" -> [zone |-> zone, rc |-> servfail(bulk.rc), ok |-> FALSE]
          [] OTHER -> [zone |-> bulk.up, rc |-> bulk.rc, ok |-> TRUE]

\* forward_request for each request: the master's answer is captured as
\* the response, or SERVFAIL when no address of the master could be used.
ForwardOutcomes(B) ==
    {[q \in Reqs |-> IF q \in ToSet(B) THEN f[q] ELSE rcode[q]] :
        f \in [ToSet(B) -> {"MASTER"} \cup
                            IF "forward" \in Faults THEN {"SERVFAIL"} ELSE {}]}

\* init_update_responses: a NOERROR response for each request of B.
InitUpdateResponses(B) ==
    [q \in Reqs |-> IF q \in ToSet(B) THEN "NOERROR" ELSE rcode[q]]

\* process_requests: process_normal, then zone_schedule_notify when the
\* serial changed.
ProcessRequests(res) ==
    /\ zone' = res.zone
    /\ rcode' = res.rc
    /\ notified' = (notified \/ (res.ok /\ res.zone # zone))

\* send_update_responses: every request of B with a response is answered.
SendUpdateResponses(B) == sent \cup ToSet(B)

(***************************************************************************)
(* Actions                                                                 *)
(***************************************************************************)

\* A query thread queues request q under ddns_lock and schedules the UPDATE
\* event (the environment of update.c).
Enqueue(q) ==
    /\ q \notin enqueued
    /\ queue' = Append(queue, q)
    /\ enqueued' = enqueued \cup {q}
    /\ scheduled' = TRUE
    /\ UNCHANGED <<running, zone, rcode, sent, notified, crashed, before, batch, conf>>

\* The event scheduler hands the planned UPDATE event to a worker.
Fire ==
    /\ scheduled /\ ~running /\ ~crashed
    /\ scheduled' = FALSE
    /\ running' = TRUE
    /\ UNCHANGED <<queue, enqueued, zone, rcode, sent, notified, crashed, before, batch, conf>>

\* event_update with the queue empty: the race lost during reload.
UpdateNothing ==
    /\ running /\ queue = <<>>
    /\ running' = FALSE
    /\ UNCHANGED <<queue, enqueued, scheduled, zone, rcode, sent, notified,
                   crashed, before, batch, conf>>

\* Variant of event_update that returns before send_update_responses when
\* forwarding or processing left a request with SERVFAIL.
UpdateEventNoReplyOnFailure(fail) ==
    LET B   == queue
        rc0 == InitUpdateResponses(B)
        res == ProcessNormal(rc0, B, fail)
    IN
    /\ running /\ B # <<>>
    /\ queue' = <<>>
    /\ running' = FALSE
    /\ before' = zone
    /\ batch' = B
    /\ IF fail = "alloc"
       THEN /\ crashed' = TRUE
            /\ UNCHANGED <<zone, rcode, sent, notified>>
       ELSE /\ crashed' = FALSE
            /\ IF Forwarding
               THEN /\ \E rc \in ForwardOutcomes(B) : rcode' = rc
                    /\ UNCHANGED <<zone, notified>>
               ELSE ProcessRequests(res)
            /\ sent' = IF \E q \in ToSet(B) : rcode'[q] = "SERVFAIL"
                       THEN sent ELSE SendUpdateResponses(B)
    /\ UNCHANGED <<enqueued, scheduled, conf>>

\* event_update: update_dequeue takes the queue; init_update_responses
\* allocates a NOERROR response per request, and when an allocation fails
\* set_rcodes walks requests whose response is NULL; otherwise the bulk
\* is forwarded or processed and send_update_responses sends everything.
UpdateEvent(fail) ==
    LET B   == queue
        rc0 == InitUpdateResponses(B)
        res == ProcessNormal(rc0, B, fail)
    IN
    /\ running /\ B # <<>>
    /\ queue' = <<>>
    /\ running' = FALSE
    /\ before' = zone
    /\ batch' = B
    /\ IF fail = "alloc"
       THEN /\ crashed' = TRUE
            /\ UNCHANGED <<zone, rcode, sent, notified>>
       ELSE /\ crashed' = FALSE
            /\ sent' = SendUpdateResponses(B)
            /\ IF Forwarding
               THEN /\ \E rc \in ForwardOutcomes(B) : rcode' = rc
                    /\ UNCHANGED <<zone, notified>>
               ELSE ProcessRequests(res)
    /\ UNCHANGED <<enqueued, scheduled, conf>>

\* Every client has sent its request and no UPDATE event is planned or
\* running: the server waits for new ones.
Idle ==
    /\ enqueued = Reqs /\ ~scheduled /\ ~running
    /\ UNCHANGED vars

LocalFailures == {"none"} \cup (Faults \ {"forward"})

Init ==
    /\ queue = <<>> /\ enqueued = {} /\ scheduled = FALSE /\ running = FALSE
    /\ zone = Zone0 /\ rcode = [q \in Reqs |-> "none"] /\ sent = {}
    /\ notified = FALSE /\ crashed = FALSE /\ before = Zone0 /\ batch = <<>>
    /\ conf \in Configs

Next ==
    \/ \E q \in Reqs : Enqueue(q)
    \/ Fire
    \/ UpdateNothing
    \/ \E f \in LocalFailures : UpdateEvent(f)
    \/ Idle

Fairness == WF_vars(Fire) /\ WF_vars(UpdateNothing)
            /\ WF_vars(\E f \in LocalFailures : UpdateEvent(f))

Spec == Init /\ [][Next]_vars /\ Fairness

(***************************************************************************)
(* Properties                                                              *)
(***************************************************************************)

\* A bulk of updates is all or nothing, and every response tells the truth:
\* after an event that applied the requests itself, the zone is the zone
\* before the event plus exactly the records of the requests answered
\* NOERROR (process_bulk aborting on a failed application, set_rcodes
\* turning the remaining NOERROR responses into SERVFAIL or REFUSED when
\* a later step fails, zone_update_clear dropping the staged update).
BulkAtomic ==
    ~Forwarding =>
        zone = before \cup {Req[q].add : q \in {q2 \in ToSet(batch) : rcode[q2] = "NOERROR"}}

\* No request taken from the queue is lost: each one queued is either
\* still on the queue or has had its response sent (update_dequeue,
\* init_update_responses, set_rcodes, send_update_responses).
NoRequestLost ==
    \A q \in enqueued : q \in ToSet(queue) \/ q \in sent

\* A secondary changes its contents through DDNS only when it signs the
\* zone itself: event_update processes updates locally on a secondary
\* whose ddns-master is empty, and the loader (check_zone_or_tpl, on the
\* zone and, through check_catalog_tpl, on the template of catalog member
\* zones) refuses an empty ddns-master without dnssec-signing.  Without
\* signing the local changes would carry the primary's serials.
LocalUpdatesSigned == conf.slave /\ zone # Zone0 => conf.signing

\* Every queued UPDATE is eventually answered, whatever the interleaving of
\* query threads with the UPDATE event (a request queued after the event
\* took the queue is picked up by the event it scheduled) and whichever
\* local step of processing fails.
EveryUpdateAnswered ==
    \A q \in Reqs : (q \in enqueued) ~> (q \in sent)

====
