------------------------------ MODULE KdigXfr ------------------------------
(***************************************************************************)
(* kdig's zone-transfer reader (utils/kdig/kdig_exec.c,                    *)
(* process_xfr_packet).  After the query is sent, kdig receives one        *)
(* message at a time over TCP until finished_xfr says the transfer is      *)
(* over, or fails on a receive error, an error rcode or a first message    *)
(* that does not open with an SOA.  finished_xfr looks at the last record  *)
(* of the message only.  Printing, timing, dnstap, TSIG verification and   *)
(* the header checks that only warn are left out.                          *)
(***************************************************************************)
EXTENDS Integers, Sequences

CONSTANTS
    ErrPkt,        \* a reply whose rcode is not NOERROR
    RRSerial(_)    \* the serial in the rdata of an SOA record

VARIABLES
    sent,          \* the messages the server wrote to the connection
    qtype,         \* the question: "IXFR" (ixfr=serial) or "AXFR"
    kd             \* process_xfr_packet: st (read, done, fail), msgs
                   \* (msg_count) and serial (of the leading SOA, -1 unset)

IsSOA(rr) == rr.type = "SOA"

\* first_serial_check: the serial of the leading SOA of the first message,
\* -1 when its first answer record is not an SOA.
FirstSerialCheck(pkt) ==
    IF pkt # <<>> /\ IsSOA(pkt[1]) THEN RRSerial(pkt[1]) ELSE -1

\* Variant of finished_xfr that looks at the first record of the message.
FinishedXfrFirst(serial, pkt, msgCount, isIxfr) ==
    /\ pkt # <<>>
    /\ IsSOA(pkt[1])
    /\ IF Len(pkt) = 1 /\ msgCount = 1 THEN isIxfr
       ELSE RRSerial(pkt[1]) = serial

\* finished_xfr: the message ends with an SOA carrying the first serial, or
\* it is a lone SOA in the first message of an IXFR.
FinishedXfr(serial, pkt, msgCount, isIxfr) ==
    /\ pkt # <<>>
    /\ IsSOA(pkt[Len(pkt)])
    /\ IF Len(pkt) = 1 /\ msgCount = 1 THEN isIxfr
       ELSE RRSerial(pkt[Len(pkt)]) = serial

\* The query is sent; net_connect or net_send may fail.
KdigInit ==
    kd \in {[st |-> s, msgs |-> 0, serial |-> -1] : s \in {"read", "fail"}}

\* One pass of the receive loop on the next message: an error rcode fails,
\* the first message gives the serial (or fails), every message counts,
\* and finished_xfr decides whether to stop.
Receive ==
    /\ kd.st = "read"
    /\ kd.msgs < Len(sent)
    /\ LET pkt    == sent[kd.msgs + 1]
           serial == IF kd.msgs = 0 THEN FirstSerialCheck(pkt) ELSE kd.serial
       IN  kd' = CASE pkt = ErrPkt -> [kd EXCEPT !.st = "fail"]
                   [] serial < 0   -> [kd EXCEPT !.st = "fail"]
                   [] OTHER ->
                        [st     |-> IF FinishedXfr(serial, pkt, kd.msgs + 1,
                                                   qtype = "IXFR")
                                    THEN "done" ELSE "read",
                         msgs   |-> kd.msgs + 1,
                         serial |-> serial]
    /\ UNCHANGED <<sent, qtype>>

\* net_receive returns no message while kdig waits for one: its timeout
\* expired or the server closed the connection.
ReceiveFail ==
    /\ kd.st = "read"
    /\ kd.msgs = Len(sent)
    /\ kd' = [kd EXCEPT !.st = "fail"]
    /\ UNCHANGED <<sent, qtype>>

KdigNext == Receive \/ ReceiveFail

====
