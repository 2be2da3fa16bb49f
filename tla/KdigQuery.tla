----------------------------- MODULE KdigQuery -----------------------------
(***************************************************************************)
(* kdig's ordinary queries (utils/kdig/kdig_exec.c: kdig_exec,            *)
(* process_query, process_query_packet) over the socket layer of          *)
(* utils/common/netio.c (net_init, net_connect, net_send, net_receive,     *)
(* net_close, net_clean), for UDP and TCP.                                *)
(*                                                                         *)
(* kdig runs its queries one after another over one net_t.  A query walks *)
(* its servers; for each, retries + 1 times, it resolves the server and   *)
(* tries its addresses in turn until one answers.  A truncated UDP answer *)
(* is asked again over TCP, a BADCOOKIE answer again with the server's    *)
(* cookie, both by a recursive call that returns its result: here the    *)
(* call is re-entered in place.  With +keepopen the socket stays open    *)
(* after an answer and the next query reuses it.                         *)
(*                                                                         *)
(* The servers are represented by the outcomes of each socket call.      *)
(* Messages are not modelled, only what kdig decides from them: no       *)
(* answer (timeout or a failed read), an unparsable one, one with another *)
(* ID, or an answer with its TC bit and RCODE.  TLS, HTTPS and QUIC are   *)
(* not modelled (net_init_crypto does nothing for UDP and TCP).           *)
(***************************************************************************)
EXTENDS Integers, Sequences

CONSTANTS
    Servers,     \* the servers queries may name (model values)
    Addrs,       \* Addrs[s]: the number of addresses s resolves to; 0 when
                 \* get_addr fails (KNOT_NET_EADDR)
    QueryLists,  \* the query lists kdig may be given
    MaxStray     \* answers with another ID read before the wait expires

Query == [servers : Seq(Servers), protocol : {"udp", "tcp"}, keepopen : BOOLEAN,
          retries : Nat, badcookie : Nat, ignoreTc : BOOLEAN]

ASSUME /\ Addrs \in [Servers -> Nat]
       /\ QueryLists \subseteq Seq(Query)
       /\ MaxStray \in Nat

VARIABLES
    qs,        \* the query list (params->queries)
    qi,        \* the query being processed
    pc,        \* "exec", "init", "addr", "packet", "recv", "finish", "end"
    reusing,   \* process_query took the reused-connection path
    si, ri, ai,    \* server, retry i, and address (net->srv) being tried
    attempts,  \* attempts[k]: calls of process_query_packet for server k
    ignoreTc,  \* the ignore_tc argument of the current call
    cookies,   \* query_ctx->badcookie of the current call
    stray,     \* answers with another ID read by the current call
    sockfd,    \* net->sockfd: "none" (-1) or the type it was created with
    socktype,  \* net->socktype: "dgram" or "stream"
    ret,       \* process_query's ret: "ok" (0), "fail" (-1) or "EADDR"
    results,   \* what each processed query returned
    lastNet,   \* the last query that reached the network, and its result
    opened,    \* sockets created by net_connect
    closed     \* sockets closed

vars == <<qs, qi, pc, reusing, si, ri, ai, attempts, ignoreTc, cookies, stray,
          sockfd, socktype, ret, results, lastNet, opened, closed>>

Q == qs[qi]
Srv == Q.servers[si]
SockType(q) == IF q.protocol = "udp" THEN "dgram" ELSE "stream"

Init ==
    /\ qs \in QueryLists /\ qi = 1 /\ pc = "exec" /\ reusing = FALSE
    /\ si = 0 /\ ri = 0 /\ ai = 0 /\ attempts = <<>>
    /\ ignoreTc = FALSE /\ cookies = 0 /\ stray = 0
    /\ sockfd = "none" /\ socktype = "dgram" /\ ret = "ok" /\ results = <<>>
    /\ lastNet = [keep |-> FALSE, ok |-> FALSE] /\ opened = 0 /\ closed = 0

\* net_close: the socket in net->sockfd is closed (close(-1) when none).
Close == /\ sockfd' = "none"
         /\ closed' = IF sockfd # "none" THEN closed + 1 ELSE closed

\* net_close_keepopen.
CloseKeepopen == IF Q.keepopen THEN UNCHANGED <<sockfd, closed>> ELSE Close

\* A return that ends the query on the first error.
ReturnFirst(r) == ret' = r /\ pc' = "finish" /\ UNCHANGED ai

\* process_query_packet returns r: to process_query's address loop, which
\* tries the next address on an error, or to its reused-connection path.
Return(r) ==
    /\ ret' = r
    /\ IF r = "fail" /\ ~reusing THEN ai' = ai + 1 /\ pc' = "addr"
                                 ELSE pc' = "finish" /\ UNCHANGED ai

\* kdig_exec takes the next query.  process_query creates and signs the
\* packet (returning -1 when that fails), then reuses an open connection
\* or starts the walk over the servers.
ExecQuery ==
    /\ pc = "exec" /\ qi <= Len(qs)
    /\ \/ /\ results' = Append(results, "fail") /\ qi' = qi + 1
          /\ UNCHANGED <<pc, reusing, si, ri, attempts, ret, ignoreTc, cookies>>
       \/ /\ ret' = "ok" /\ results' = results /\ qi' = qi
          /\ attempts' = [k \in DOMAIN Q.servers |-> 0]
          /\ reusing' = (sockfd # "none")
          /\ IF sockfd # "none"
             THEN /\ pc' = "packet" /\ ignoreTc' = Q.ignoreTc
                  /\ cookies' = Q.badcookie /\ UNCHANGED <<si, ri>>
             ELSE /\ pc' = "init" /\ si' = 1 /\ ri' = 0
                  /\ UNCHANGED <<ignoreTc, cookies>>
    /\ UNCHANGED <<qs, ai, stray, sockfd, socktype, lastNet, opened, closed>>

\* The top of the retry loop for server si: net_init clears net (sockfd
\* -1) and resolves the server; KNOT_NET_EADDR skips to the next server.
\* After the last server, process_query finishes.
NetInit ==
    /\ pc = "init"
    /\ IF si > Len(Q.servers)
       THEN pc' = "finish" /\ UNCHANGED <<si, ri, ai, ret, sockfd, socktype>>
       ELSE IF Addrs[Srv] = 0
       THEN /\ ret' = "EADDR" /\ si' = si + 1 /\ ri' = 0
            /\ sockfd' = "none" /\ UNCHANGED <<pc, ai, socktype>>
       ELSE /\ ai' = 1 /\ sockfd' = "none" /\ socktype' = SockType(Q)
            /\ pc' = "addr" /\ UNCHANGED <<si, ri, ret>>
    /\ UNCHANGED <<qs, qi, reusing, attempts, ignoreTc, cookies, stray, results,
                   lastNet, opened, closed>>

\* The loop over the resolved addresses: process_query_packet on the next
\* one, or, all having failed, net_clean and the next retry or server.
AddrLoop ==
    /\ pc = "addr"
    /\ IF ai <= Addrs[Srv]
       THEN /\ pc' = "packet" /\ ignoreTc' = Q.ignoreTc /\ cookies' = Q.badcookie
            /\ attempts' = [attempts EXCEPT ![si] = @ + 1]
            /\ UNCHANGED <<si, ri>>
       ELSE /\ pc' = "init"
            /\ IF ri < Q.retries THEN ri' = ri + 1 /\ UNCHANGED si
                                 ELSE si' = si + 1 /\ ri' = 0
            /\ UNCHANGED <<attempts, ignoreTc, cookies>>
    /\ UNCHANGED <<qs, qi, reusing, ai, stray, sockfd, socktype, ret, results,
                   lastNet, opened, closed>>

(***************************************************************************)
(* The start of process_query_packet: net_connect when no socket is open, *)
(* then net_send.  net_connect may fail before the socket exists          *)
(* (socket()), or after it: a refused or timed-out TCP connect, on which  *)
(* it calls net_close(net) while the new descriptor is still only in its  *)
(* local variable.  A failed send closes the socket.                      *)
(***************************************************************************)
SendQuery ==
    /\ pc = "packet"
    /\ \E c \in IF sockfd # "none" THEN {"open"}
                ELSE IF socktype = "stream" THEN {"ok", "nosocket", "refused"}
                ELSE {"ok", "nosocket"},
          s \in {"sent", "failed"} :
          \/ /\ c \in {"nosocket", "refused"} /\ s = "sent"
             /\ opened' = IF c = "refused" THEN opened + 1 ELSE opened
             /\ Return("fail") /\ UNCHANGED <<sockfd, closed, stray>>
          \/ /\ c \in {"ok", "open"}
             /\ opened' = IF c = "ok" THEN opened + 1 ELSE opened
             /\ IF s = "sent"
                THEN /\ pc' = "recv" /\ stray' = 0 /\ UNCHANGED <<ai, ret, closed>>
                     /\ sockfd' = IF c = "ok" THEN socktype ELSE sockfd
                ELSE Close /\ Return("fail") /\ UNCHANGED stray
    /\ UNCHANGED <<qs, qi, reusing, si, ri, attempts, ignoreTc, cookies,
                   socktype, results, lastNet>>

(***************************************************************************)
(* The receive loop and what follows it.  A socket of the other type than *)
(* socktype (kept open by +keepopen across the switch to TCP) carries the *)
(* TCP-framed query as a datagram; no answer is read from it.             *)
(***************************************************************************)
\* A process_query_packet that fails on one of its own paths.
FailKeepopen == CloseKeepopen /\ Return("fail")
Fail == Close /\ Return("fail")

\* A truncated UDP answer: the query is sent again over TCP, with
\* ignore_tc set.
RetryTcp ==
    /\ CloseKeepopen /\ socktype' = "stream" /\ ignoreTc' = TRUE
    /\ pc' = "packet" /\ UNCHANGED <<ai, ret, cookies>>

\* BADCOOKIE: the query is sent again with the server cookie, badcookie
\* one less.
RetryCookieAgain ==
    /\ CloseKeepopen /\ pc' = "packet" /\ UNCHANGED <<ai, ret, cookies>>
RetryCookie ==
    /\ CloseKeepopen /\ cookies' = cookies - 1
    /\ pc' = "packet" /\ UNCHANGED <<ai, ret>>

Receive ==
    /\ pc = "recv"
    /\ \/ Fail /\ UNCHANGED <<stray, socktype, ignoreTc, cookies>>
       \/ /\ stray < MaxStray /\ sockfd = socktype
          /\ stray' = stray + 1
          /\ UNCHANGED <<pc, ai, ret, sockfd, closed, socktype, ignoreTc, cookies>>
       \/ \E tc \in BOOLEAN, rcode \in {"noerror", "badcookie"}, opt \in BOOLEAN :
            /\ sockfd = socktype
            /\ IF tc /\ ~ignoreTc /\ socktype = "dgram"
               THEN RetryTcp
               ELSE IF rcode = "badcookie" /\ cookies > 0
               THEN /\ UNCHANGED <<socktype, ignoreTc>>
                    /\ IF opt THEN RetryCookie ELSE Fail /\ UNCHANGED cookies
               ELSE CloseKeepopen /\ Return("ok")
                    /\ UNCHANGED <<socktype, ignoreTc, cookies>>
          /\ UNCHANGED stray
    /\ UNCHANGED <<qs, qi, reusing, si, ri, attempts, results, lastNet, opened>>

\* The end of process_query: net_clean (which does not close the socket)
\* unless the connection is kept; kdig_exec records the result.
Finish ==
    /\ pc = "finish"
    /\ results' = Append(results, IF ret = "ok" THEN "ok" ELSE "fail")
    /\ lastNet' = [keep |-> Q.keepopen, ok |-> ret = "ok"]
    /\ qi' = qi + 1 /\ pc' = "exec"
    /\ UNCHANGED <<qs, reusing, si, ri, ai, attempts, ignoreTc, cookies, stray,
                   sockfd, socktype, ret, opened, closed>>

\* After the last query kdig_exec closes a connection left open.
Exit ==
    /\ pc = "exec" /\ qi > Len(qs)
    /\ pc' = "end"
    /\ IF sockfd # "none" THEN Close ELSE UNCHANGED <<sockfd, closed>>
    /\ UNCHANGED <<qs, qi, reusing, si, ri, ai, attempts, ignoreTc, cookies,
                   stray, socktype, ret, results, lastNet, opened>>

\* kdig has exited.
Exited == pc = "end" /\ UNCHANGED vars

Next == ExecQuery \/ NetInit \/ AddrLoop \/ SendQuery \/ Receive \/ Finish
        \/ Exit \/ Exited

\* kdig is one thread; each of its waits ends, at the latest on the
\* configured timeout.
Spec == Init /\ [][Next]_vars /\ WF_vars(Next)

(***************************************************************************)
(* Properties                                                              *)
(***************************************************************************)

TypeOK ==
    /\ qs \in QueryLists /\ qi \in 1 .. Len(qs) + 1
    /\ pc \in {"exec", "init", "addr", "packet", "recv", "finish", "end"}
    /\ sockfd \in {"none", "dgram", "stream"} /\ socktype \in {"dgram", "stream"}
    /\ ret \in {"ok", "fail", "EADDR"} /\ results \in Seq({"ok", "fail"})
    /\ {reusing, ignoreTc} \subseteq BOOLEAN /\ lastNet \in [keep : BOOLEAN, ok : BOOLEAN]
    /\ {si, ri, ai, cookies, stray, opened, closed} \subseteq Nat

\* Between queries and after the last, a socket is open only when the last
\* query that used the network had +keepopen and got its answer: every
\* failure path of process_query_packet closes the socket, and only an
\* answer leaves it to +keepopen (the TC and BADCOOKIE retries included).
KeptOpenOnlyAfterAnswer ==
    pc \in {"exec", "end"} /\ sockfd # "none" => lastNet.keep /\ lastNet.ok

\* A query that walked its servers fails only after process_query_packet
\* was called retries + 1 times on every address of every server (none
\* for a server that does not resolve).
AllTriedBeforeFailure ==
    pc = "finish" /\ ~reusing /\ ret # "ok" =>
        \A k \in DOMAIN Q.servers :
            attempts[k] = (Q.retries + 1) * Addrs[Q.servers[k]]

\* kdig ends, whatever the servers answer: the TC retry is made once
\* (ignore_tc) and the BADCOOKIE retries count down query->badcookie.
KdigTerminates == <>(pc = "end")

\* Every socket net_connect creates is closed, or is the one net->sockfd
\* holds.
NoSocketLeak == opened - closed = IF sockfd = "none" THEN 0 ELSE 1

====
