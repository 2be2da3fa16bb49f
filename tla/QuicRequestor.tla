--------------------------- MODULE QuicRequestor ---------------------------
(***************************************************************************)
(* The QUIC connection set-up of the requestor (knot/query/               *)
(* quic-requestor.c: knot_qreq_connect, quic_exchange, knot_qreq_close).   *)
(* knot_qreq_connect allocates the reply context and a one-connection      *)
(* QUIC table, starts a client connection, resumes it with a session       *)
(* ticket from the process-wide pool when one loads, and otherwise runs    *)
(* quic_exchange until the handshake is done, giving up once more than     *)
(* timeout_ms has passed since the handshake began.                        *)
(*                                                                         *)
(* Time is counted in whole milliseconds from t_start.  One quic_exchange  *)
(* is one step: it sends what the connection has to send, then waits for  *)
(* one datagram in slices of at most timeout_ms / 2, so it returns within  *)
(* timeout_ms, with KNOT_ECONN when nothing came.  The QUIC library calls  *)
(* (knot_quic_send, knot_quic_handle, knot_quic_hanle_expiry) are          *)
(* represented by their outcomes.                                          *)
(***************************************************************************)
EXTENDS Integers

CONSTANT TimeoutMs   \* the timeout_ms argument

ASSUME TimeoutMs \in Nat \ {0}

VARIABLES
    pc,        \* "start", "loop" (the handshake loop) or "done" (returned)
    ret,       \* the function's local ret: "EOK" or an error code
    elapsed,   \* time_diff_ms(&t_start, &t_cur)
    hs,        \* conn->flags & KNOT_QUIC_CONN_HANDSHAKE_DONE
    ticket,    \* sessticket: "none" (CONN_POOL_FD_INVALID) or "loaded"
    out,       \* *out: "unset" or "reply" (the reply context r)
    alive,     \* r is allocated and not yet freed
    reused     \* *reused_fd

vars == <<pc, ret, elapsed, hs, ticket, out, alive, reused>>

Errors == {"ENOMEM", "ECONN", "ESEMCHECK", "EFAIL"}

(***************************************************************************)
(* quic_exchange: the outcomes of one call.  d is the time it took.        *)
(*   - knot_quic_send fails at once;                                       *)
(*   - no datagram: every slice ends in knot_quic_hanle_expiry, which may  *)
(*     fail, and once timeout_remain is spent the call returns KNOT_ECONN; *)
(*   - a datagram: knot_quic_handle finds no connection for it (KNOT_EOK), *)
(*     another connection (KNOT_ESEMCHECK), or ours, with its result and   *)
(*     possibly the handshake completed.                                   *)
(***************************************************************************)
QuicExchange ==
    {[ret |-> "EFAIL", d |-> 0, hs |-> FALSE]}
    \cup {[ret |-> r, d |-> t, hs |-> FALSE] :
            r \in {"ECONN", "EFAIL", "ESEMCHECK", "EOK"}, t \in 1 .. TimeoutMs}
    \cup {[ret |-> "EOK", d |-> t, hs |-> h] : t \in 1 .. TimeoutMs, h \in BOOLEAN}

Init ==
    /\ pc = "start" /\ ret = "EOK" /\ elapsed = 0 /\ hs = FALSE
    /\ ticket = "none" /\ out = "unset" /\ alive = FALSE /\ reused = FALSE

\* knot_qreq_close(r, false): the connection, the table, the credentials
\* and r itself are freed.
Close == alive' = FALSE

\* The set-up before the handshake loop: calloc, knot_creds_init_peer and
\* knot_quic_table_new may fail (KNOT_ENOMEM, nothing left allocated);
\* knot_quic_client may fail (closed, its error returned); then a ticket
\* of the pool is loaded, fails to load (ret keeps the error, the ticket
\* is dropped) or there is none.
Setup ==
    /\ pc = "start"
    /\ \/ /\ pc' = "done" /\ ret' = "ENOMEM"
          /\ UNCHANGED <<elapsed, hs, ticket, out, alive, reused>>
       \/ /\ pc' = "done" /\ ret' = "EFAIL"
          /\ UNCHANGED <<elapsed, hs, ticket, out, alive, reused>>
       \/ \E t \in {"none", "loaded", "bad"} :
             /\ pc' = "loop" /\ alive' = TRUE
             /\ ticket' = IF t = "loaded" THEN "loaded" ELSE "none"
             /\ reused' = (t = "loaded")
             /\ ret' = IF t = "bad" THEN "EFAIL" ELSE "EOK"
             /\ UNCHANGED <<elapsed, hs, out>>

\* The loop runs while the handshake is not done and no ticket was loaded.
Handshaking == ~hs /\ ticket = "none"

\* The deadline has passed: r is closed and ret returned.
LoopTimeout ==
    /\ pc = "loop" /\ Handshaking
    /\ elapsed > TimeoutMs
    /\ Close /\ pc' = "done"
    /\ UNCHANGED <<ret, elapsed, hs, ticket, out, reused>>

\* One quic_exchange within the deadline; an error closes r and is
\* returned.
LoopExchange ==
    /\ pc = "loop" /\ Handshaking
    /\ elapsed <= TimeoutMs
    /\ \E x \in QuicExchange :
          /\ ret' = x.ret
          /\ elapsed' = elapsed + x.d
          /\ IF x.ret = "EOK"
             THEN hs' = x.hs /\ UNCHANGED <<pc, alive>>
             ELSE Close /\ pc' = "done" /\ UNCHANGED hs
    /\ UNCHANGED <<ticket, out, reused>>

\* The handshake is done or the session resumed: *out = r, KNOT_EOK.
LoopExit ==
    /\ pc = "loop" /\ ~Handshaking
    /\ out' = "reply" /\ ret' = "EOK" /\ pc' = "done"
    /\ UNCHANGED <<elapsed, hs, ticket, alive, reused>>

Next == Setup \/ LoopTimeout \/ LoopExchange \/ LoopExit

Spec == Init /\ [][Next]_vars

(***************************************************************************)
(* Properties                                                              *)
(***************************************************************************)

TypeOK ==
    /\ pc \in {"start", "loop", "done"} /\ ret \in {"EOK"} \cup Errors
    /\ elapsed \in 0 .. 2 * TimeoutMs /\ {hs, alive, reused} \subseteq BOOLEAN
    /\ ticket \in {"none", "loaded"} /\ out \in {"unset", "reply"}

\* knot_qreq_connect returns KNOT_EOK only with *out set to a live reply
\* context, and a handshake that did not finish in time is an I/O failure
\* (spec section 4.3: on timeout the attempt is an IoFailure).  The
\* deadline check returns ret, the result of the last exchange.
ConnectedOnSuccess == pc = "done" /\ ret = "EOK" => out = "reply" /\ alive

====
