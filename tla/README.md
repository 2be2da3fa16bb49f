# TLA+ models of Knot DNS zone transfer, refresh and DDNS

This directory holds TLA+ models of the code in `src/src`:

- the zone-refresh engine of a secondary (`knot/events/handlers/refresh.c`);
- its IXFR/AXFR stream consumer, composed with the primary's outgoing AXFR
  producer (`knot/nameserver/axfr.c`);
- the refresh timers;
- the DDNS update event (`knot/events/handlers/update.c`);
- kdig's zone-transfer reader (`utils/kdig/kdig_exec.c`), composed with the
  same answers, and kdig's ordinary query path over `utils/common/netio.c`;
- the QUIC requestor's connection set-up (`knot/query/quic-requestor.c`);
- RFC 1982 serial arithmetic;
- the zone checks of the configuration loader (`knot/conf/tools.c`), which
  decide the configurations the timers and the DDNS event run under.

Every module is written from the C source. Code the sources call but do not
contain is written from `spec.md` and marked `spec_modelled` in
`PROJECT.json`: `zone_master_try`, `slave_zone_serial`, `serial_compare`,
`serial_next`, `zcreator_step`, `xfr_process_list`, `knot_soa_serial`, the
server's answer loop and the requestor's read loop.

## The system and its parts

| Part | Source | Module |
|---|---|---|
| Refresh controller and master loop | `refresh.c` `event_refresh`, `try_refresh`, `soa_query_consume`, `wait4pinned_master`, `axfr_finalize`, `ixfr_finalize`; `zone_master_try` | `Refresh`, abstracted by `ZoneSync` |
| Transfer stream consumer | `refresh.c` `refresh_begin`, `refresh_consume`, `transfer_consume`, `ixfr_consume`, `axfr_consume`, `determine_xfr_type`, the IXFR record state machine | `IxfrIn` |
| Outbound AXFR | `axfr.c` `axfr_process_query`, `axfr_query_init`, `axfr_put_rrsets`, `axfr_process_node_tree`, `axfr_answer_finished` | `AxfrOut`, composed in `IxfrIn` |
| Serial arithmetic | `serial_is_current`, plus `serial_compare`/`serial_next` | `Serial` |
| Refresh timers | `bootstrap_next`, `limit_timer`, `consume_edns_expire`, `finalize_timers_base` and their callers | `Timers` |
| DDNS update event | `update.c` `event_update` and its helpers | `Ddns` |
| kdig zone-transfer reader | `kdig_exec.c` `process_xfr_packet`, `first_serial_check`, `finished_xfr` | `KdigXfr`, composed in `IxfrIn` |
| Configuration loader zone checks | `tools.c` `check_zone_or_tpl`, `sub_check_catalog_tpl`, `check_catalog_tpl`, `check_zone`; `schema.c` zone defaults | `ConfCheck`, composed in `MCTimers` and `MCDdns` (checked together in `MCComponents`) |
| kdig query path | `kdig_exec.c` `kdig_exec`, `process_query`, `process_query_packet`, `net_close_keepopen`; `netio.c` `net_init`, `net_connect`, `net_send`, `net_receive`, `net_close` | `KdigQuery`, checked in `MCComponents` |
| QUIC requestor connection set-up | `quic-requestor.c` `knot_qreq_connect`, `quic_exchange`, `knot_qreq_close` | `QuicRequestor` |
| TCP handler, server, QUIC send and receive, the rest of configuration, kdig's TLS, HTTPS and QUIC transports, kzonecheck, query modules, `main.c` | `server/*.c`, `query/quic-requestor.c`, `conf/*.c`, `utils/**`, `modules/**` | not modelled (see the end) |

These parts interact as follows:

1. A refresh event (timer, NOTIFY, retransfer) runs `zone_master_try`,
   which calls `try_refresh` for each master.
2. The requestor hands every packet of the answer to `refresh_consume`. It
   passes the packet to `soa_query_consume` or to `transfer_consume`.
3. A Knot primary produces an AXFR answer one packet per call of
   `axfr_process_query`.
4. When a transfer ends, `ixfr_finalize` or `axfr_finalize` commits the new
   contents, and the timer handlers plan the next refresh and expiry.
5. kdig, asked for the same transfer, reads the same answer message by
   message and decides from each message whether the transfer is over.
6. Independently, query threads queue UPDATE requests, and the zone's
   UPDATE event applies or forwards them in bulk.
7. kdig, run with a list of ordinary queries, walks each query's servers,
   retries and addresses, and may keep one connection open from one query
   to the next (`+keepopen`).
8. A requestor over QUIC first runs `knot_qreq_connect`, which completes
   the handshake (or resumes a session) before any query is sent.

## Modules

### `Serial.tla`

`SerialCompare` is `serial_compare`, which uses the unsigned difference.
`SerialIsCurrent` is `serial_is_current` and `SerialNext` is `serial_next`.
The width `SerialBits` is a constant; 3 bits make the wrap and the
incomparable distance reachable.

### `ZoneSync.tla`: what the refresh engine promises

This is the abstract specification:

- masters publish newer versions (`Advance`);
- the secondary publishes, one at a time, a version some master serves and
  records that master (`Sync`);
- it never goes back unless a retransfer was requested (`Request`,
  `Abandon`);
- under weak fairness of `CatchUp`, it eventually holds the version of the
  master it follows.

### `Refresh.tla`: refresh controller and master loop

**State.** Each master serves a version `ver[m]`; a version's records are
`Content[v]` and its SOA serial is `SerialBase+v` (mod 2^w). The
secondary's persistent state is:

- `zone`;
- `zver`, a history variable;
- the KASP serials `kms` and `lastSigned`;
- `lastMaster`, `pinHit`, `lastOk` and `forceFlag`.

A running event holds `phase`, `mi`, `xfr`, `fbRemote`, `trForce`,
`refreshNow` and `notifyPending`. These are `refresh_data` state, the
master index, `xfr_type`, `fallback.remote`, and so on.

**Actions.**

- `StartRefresh` starts `event_refresh`.
- `SoaConsume` is the whole of `soa_query_consume`, including the
  sem-checks soft branch and `wait4pinned_master`.
- `TransferConsume` is `transfer_consume` with the answer abstracted to its
  outcome. Each finalize picks ok or a fault (semantic check, commit,
  master-serial store) and sets the fallback flags as the code does.
  A malformed or oversized IXFR answer may leave `fallback_axfr` clear
  (`FallbackAxfr`): the answer was found AXFR-style in its first message
  and failed in a later one, so no AXFR retry follows.
- `EndTry` is the loop of `zone_master_try`; `Finish` is the tail of
  `event_refresh`.
- The environment acts through `MasterAdvance`, `Tick` and `Retransfer`.

**Refinement.** `ZS == INSTANCE ZoneSync WITH` maps:

- `served` to `ver`;
- `held` to `zver`;
- `from` to `lastMaster`;
- `forced` to the force flag or the running event's `trForce`.

`ImplementsZoneSync` checks `ZS!ASpec`, including its liveness, under
`FairSpec`.

**Profiles.** `MCRefreshProfiles` instantiates `Refresh` twice, as `U`
(unsigned: ixfr-benevolent, ixfr-by-one, pin tolerance 2) and `S` (signed:
strict IXFR, whole answers, no pinning), over the same variables. A
variable `profile`, chosen in the initial state and never changed, says
which instance takes the steps. The zone configuration does not change
while a refresh runs. Each fairness condition of `Refresh` is taken under
its profile, and the profile-specific properties are stated for their
profile. `PinHonoured` and `LocalSerialIncreases` do this through their
step predicates `PinRespected` and `SerialIncreased`.

### `IxfrIn.tla` and `AxfrOut.tla`: the transfer, both ends

`IxfrIn` starts in one of two ways:

- **`CutInit`**: another server's answer to an IXFR question from
  `LocalVer`, cut beforehand into packets at every set of record
  boundaries. The answer is an RFC 1995 IXFR, an AXFR-style IXFR or an
  up-to-date SOA, possibly carrying one out-of-bailiwick record.
- **`KnotInit`**: a Knot primary (`AxfrOut`) that has not sent anything
  yet, answering an AXFR question or answering an IXFR question AXFR-style.
  `refresh_begin` sets `xfr_type` from the question.

`TransferConsume` is `refresh_consume`/`transfer_consume` on the next
packet. Through `ConsumePacket` it evaluates the whole per-record loop,
the rcode checks and the first-packet logic (`DetermineXfrType`,
`ConsumeSaved`).

Before parsing, `transfer_consume` applies the message's EDNS EXPIRE
option (`ConsumeEdnsExpire`, `consume_edns_expire`): a message without it
keeps the value seen last. While that value is below 2 s the message is
ignored. Both initial states choose `rexp`, the option of the answer: absent,
below 2 s or 2 s and more, in every message or in the first only.
`ReadTimeout` is the requestor's wait ending in `KNOT_ETIMEOUT` once
nothing more will come.

`AxfrOut` keeps `struct axfr_proc` as `ap`: the tree iterator `ni`,
`cur_rrset` and the message count. `ProcessQuery` is one call of
`axfr_process_query` and writes one packet:

- The first call runs `axfr_query_init`.
- `f = "init"` stands for any refusal: not authorized, malformed, frozen,
  or out of memory.
- `f = "reserve"` is a failed `knot_pkt_reserve`, which can happen on any
  call.
- A failed call sends the error response `ErrPkt`.
- Otherwise `XfrProcessList`, `ProcessNodeTree` and `PutRrsets` fill the
  packet.

Sizes are abstracted to two choices per call:

- how many rrsets still fit (`Puts`: 0 to `MaxPuts` in the first packet,
  which already holds the SOA, 1 to `MaxPuts` in a later one);
- whether the last of them takes the message past `KNOT_WIRE_PTR_MAX`.

So every split the code can produce is explored. `produced` keeps every
packet sent.

Records are abstracted: an SOA is identified by its version, and every
record counts 1 towards zone-max-size.

`KdigXfr` is kdig's `process_xfr_packet` after the query is sent. It reads
`produced`, the messages the server wrote: all of them from the start for
another server's answer, one more after each `ProcessQuery` for a Knot
primary. kdig asks the same question as the secondary (`asked`).

- `Receive` is one pass of the loop. It fails on an error rcode. On the
  first message it takes the serial of the leading SOA
  (`first_serial_check`), or fails. It counts the message, and stops when
  `finished_xfr` holds.
- `FinishedXfr` looks at the last record of the message only. The transfer
  is over when that record is an SOA with the first serial. A lone SOA in
  the first message ends an IXFR question at once.
- `ReceiveFail` is `net_receive` returning nothing while kdig waits: the
  timeout, or a closed connection.
- The connect or send failing before the loop is an initial state.

### `Timers.tla`: refresh, retry and expire planning

The state is the part of `zone->timers` the refresh handlers write
(`nextRefresh`, `nextExpire`, `lastOk`, `bootCnt`), the SOA held, the
clock `now`, and `plan`, a history of the inputs of the last finalize.

The operators translate `limit_timer`, `bootstrap_next`,
`consume_edns_expire` and `finalize_timers_base`. The actions are the
handlers that call them:

- `SoaUpToDate` and `SoaRemoteOutdated`;
- `TransferUpToDate`;
- `TransferCommitted`;
- `RefreshFailed`.

Timers are 13 bits wide, so `EXPIRE_TIMER_INVALID` is 8191.

The six interval bounds (`refresh-min-interval` ... `expire-max-interval`)
are the variable `conf`, chosen by `Init` from the constant `ZoneConfs`.
`MCTimers` builds `ZoneConfs` from the configurations `ConfCheck` accepts,
each option configured or left to its schema default, as `limit_timer` reads
them.

### `ConfCheck.tla`: the loader's zone checks

A configuration is a function from option names to values, `Unset` for an
option not configured; `Val` reads the schema default then, as `conf_int`,
`conf_opt` and `conf_bool` do. `CheckZoneOrTpl` is `check_zone_or_tpl`:
the interval comparisons (`CHECK_ZONE_INTERVALS`), zonefile-load against
journal-content, signing against validation and an empty ddns-master,
serial-modulo, the catalog role options with `sub_check_catalog_tpl`, and
ds-push against the policy's cds-cdnskey. `ZoneAccepted` adds
`check_catalog_tpl`: every template a catalog names passes the same check.
Only the verdict is modelled, not the message.

### `Ddns.tla`: the DDNS update event

State:

- `queue` is the zone's `ddns_queue`;
- `scheduled` and `running` follow the UPDATE event;
- `zone`, `rcode` and `sent` are the contents, the responses and what has
  been sent;
- `before` and `batch` are history variables for the last event;
- `conf` is the configuration. It is chosen by `Init` and never changes
  (slave or not; ddns-master unset, empty or set; dnssec-signing). `MCDdns`
  derives the choices from the zones and catalog member templates that
  `ConfCheck!ZoneAccepted` accepts.

Actions:

- `Enqueue` is a query thread queueing a request.
- `Fire` is the scheduler starting the event.
- `UpdateNothing` is `event_update` on an empty queue.
- `UpdateEvent(fail)` is the whole of `event_update`:
  - `update_dequeue`;
  - `init_update_responses`; on an allocation failure, `set_rcodes` over a
    NULL response crashes the process;
  - forward to the master (`ForwardOutcomes`), or `process_requests` with
    `process_normal`/`process_bulk` (`ProcessNormal`, `ProcessBulk`,
    `CheckPrereqs`);
  - `send_update_responses`.

### `QuicRequestor.tla`: QUIC connection set-up

The state is `knot_qreq_connect`'s: its `ret`, the milliseconds since
`t_start` (`elapsed`), the connection's handshake-done flag (`hs`), the
session ticket taken from the pool, `*out`, whether the reply context `r`
is still allocated (`alive`) and `*reused_fd`.

- `Setup` is the code before the loop. An allocation or
  `knot_quic_client` failure returns at once. Otherwise a ticket is
  loaded, fails to load (its error stays in `ret`), or there is none.
- `LoopExchange` is one `quic_exchange`, represented by its outcomes
  (`QuicExchange`): a send failure, a timeout (`KNOT_ECONN`), an expiry
  failure, a datagram for no connection or another one, or one for ours
  that may complete the handshake. Each takes 1 to `timeout_ms`
  milliseconds. An error closes `r` and is returned.
- `LoopTimeout` is the deadline check at the top of the loop. It closes
  `r` and returns `ret`.
- `LoopExit` is the handshake done or the session resumed.

The sending and receiving of queries over the connection
(`knot_qreq_send`, `knot_qreq_recv`) are not modelled.

### `KdigQuery.tla`: kdig's ordinary queries

The state is kdig's loop over its query list (`qs`, `qi`, the per-query
`results`), `process_query`'s position in its server walk (`si`, retry
`ri`, resolved address `ai`, and the `attempts` made per server), the
local state of `process_query_packet` (`ignoreTc`, the remaining
`cookies` retries, `stray` replies read), the `net_t` fields `sockfd` and
`socktype`, and two counters of sockets `opened` and `closed`. `pc` names
the point of the code.

- `ExecQuery` is `process_query`'s start: a packet that cannot be created
  or signed fails the query; an open socket is reused; otherwise the walk
  starts at the first server.
- `NetInit` is `net_init` at the top of the retry loop (it clears
  `sockfd`); a server with no address of the family skips to the next one.
- `AddrLoop` is the loop over resolved addresses, then `net_clean` and the
  next retry or server.
- `SendQuery` is `net_connect` (when no socket is open) and `net_send`,
  represented by their outcomes. A refused or timed-out TCP connect calls
  `net_close(net)` while the new descriptor is only in a local variable:
  `opened` counts it and `closed` does not.
- `Receive` is the receive loop: a failure or timeout (`Fail`), a reply
  with the wrong id, or the reply, which may be truncated (`RetryTcp`),
  BADCOOKIE (`RetryCookie`, or `Fail` without a cookie option), or the
  answer (`net_close_keepopen`).
- `Finish` is `process_query`'s end and `kdig_exec` recording the result;
  `Exit` closes a socket still open after the last query.

The servers are model values with 0 to 2 addresses (`Addrs`).

### `MCComponents.tla`: three independent parts in one graph

`MCComponents` instantiates `MCTimers`, `MCDdns` (their `conf` variables
renamed) and `MCKdigQuery`. `Init` picks the part under observation
(`handler`); the others rest in an initial state. The parts share no
variable, so their product would only add interleavings of independent
steps. One run checks the properties of all three. Each part's fairness
is the hypothesis of its own liveness property (`DdnsFair =>`,
`KdigFair =>`), so that TLC checks a property only against the fairness
of its part.

## Runs

| Run | Checks | Shows |
|---|---|---|
| `refresh_profiles` (pass) | `TypeOK`, `ContentsMatchVersion`, `MasterSerialTracksContents`, `NoRegression`, `PinHonoured`, `LocalSerialIncreases`, `ImplementsZoneSync` | Both profiles. Two masters advance concurrently and faults hit every answer. Contents stay whole versions and never regress, and pinning is honoured. A signed secondary over a wrapping serial keeps the KASP master serial equal to the serial of its version, and its local serial only increases. Under the fairness below, the engine refines `ZoneSync`, so the secondary eventually catches up. |
| `refresh_msave` (violation) | `NoRegression` | Finding 1. |
| `refresh_soft` (violation) | `NoRegression` | Finding 2. |
| `refresh_content` (violation) | `ContentErrorStaysWithPeer` | Finding 6. |
| `ixfr_parse` (pass) | `TypeOK`, `AnswerDecoded`, `AnswerAccepted`, `ExpiredRemoteNotApplied`, `AxfrStreamExact`, `KdigReadsKnotAnswer`, `TransferEnds` | See below. |
| `ixfr_junk` (violation) | `IxfrJunkSkipped` | Finding 3. |
| `kdig_ixfr` (violation) | `KdigReadsWholeAnswer` | Finding 8. |
| `timers_ednsmin` (violation) | `EdnsExpireHonoured` | Finding 4. |
| `timers_assert` (violation) | `ExpireTimerValid` | Finding 5. |
| `components` (pass) | `TypeOK`, `ExpireWithinSoa`, `ExpireFloor`, `RefreshWithinBounds`, `BootstrapCapSticky`, `BulkAtomic`, `LocalUpdatesSigned`, `EveryUpdateAnswered`, `KeptOpenOnlyAfterAnswer`, `AllTriedBeforeFailure`, `KdigTerminates` | Timers: under every interval configuration the loader accepts, the expiry never exceeds the SOA expire; only EDNS can bring it under `expire-min-interval`; the next refresh or retry is planned within the configured interval; the bootstrap back-off stays at its cap once there. DDNS: in every configuration the loader accepts and whichever step fails, a bulk is applied all or nothing, the responses agree with what was committed, and every queued request is answered. A secondary changes its zone locally only when it signs it: the loader admits an empty ddns-master only with dnssec-signing, also for catalog member templates. kdig: a socket outlives a query only when `+keepopen` kept it after an answer; a query fails only after every address of every server was tried `retries + 1` times; and kdig exits whatever the servers answer, BADCOOKIE loops and TC fallbacks included. |
| `ddns_alloc` (violation) | `NoRequestLost` | Finding 7. |
| `quic_timeout` (violation) | `ConnectedOnSuccess` | Finding 9. |

What `ixfr_parse` shows:

- Every answer of another server, in every packet cut, with and without
  ixfr-by-one, and every stream a Knot primary produces, in every split,
  with failures at init and at TSIG reservation, was checked.
- Completed transfers decode to exactly what was sent. This includes spec
  property P5: a Knot primary's AXFR reproduces its contents, and
  AXFR-style is recorded exactly when IXFR was asked.
- Complete answers within zone-max-size are accepted.
- The primary sends every rrset exactly once between the two SOAs.
- An answer whose EDNS EXPIRE is below 2 s is never applied, and the
  requestor's timeout ends it (`refresh.c:1189`).
- Every transfer ends, on the parser's verdict. Only an expired master's
  answer is left to the timeout.
- kdig, asking a Knot primary for an AXFR, stops exactly after the last
  packet, wherever `axfr_process_query` ended the packets, also when the
  opening SOA goes alone in the first one. For an IXFR question this is
  not claimed (finding 8).

Closely related questions share a run. For example, ixfr-by-one is a choice
of `Init` rather than a run of its own, and the DDNS configuration is an
initial-state variable.

### Findings

1. **Master serial stored outside the commit** (`refresh.c:402`, `:683`).
   A failed store lets a lagging master roll the zone back. At bootstrap it
   leaves no master serial, and refresh stalls at `refresh.c:1110`.
2. **Malformed SOA under sem-checks soft** (`refresh.c:1099`). This switches
   to AXFR without the serial comparison and without pinning.
3. **AXFR-style detection** (`refresh.c:923`). Any non-SOA second record
   counts, so an IXFR whose second record is out of bailiwick is refused
   instead of having that record skipped.
4. **EDNS expire clamped to the minimum** (`refresh.c:238`).
5. **Reachable assertion** (`refresh.c:221`). This happens with an SOA
   expire of `2^32-1`.
6. **Content errors fall back to the next master** (`refresh.c:370`, also
   `:447` and `:862`).
7. **NULL response in `set_rcodes`** (`update.c:132`). This follows an
   allocation failure in `init_update_responses`.
8. **kdig stops inside an IXFR** (`kdig_exec.c:578`, `:582`).
   `finished_xfr` ends the transfer when the last record of a message is an
   SOA carrying the first serial. In an IXFR, the SOA that opens the
   additions of the last changeset carries that serial too. TLC shows the
   answer `<SOA1 SOA0 SOA1> <r2 SOA1>`, reported complete after its first
   message. The added `r2` and the closing SOA are never read. A lone SOA
   in the first message is likewise taken as "up to date", though an
   AXFR-style answer may go on. Knot's own consumer waits for the next
   message in that case. A Knot primary sends exactly that when the first
   rrset after the opening SOA does not fit beside it (`axfr.c:56-60`), so
   kdig asking Knot for an IXFR answered AXFR-style can stop after the
   SOA too; TLC reaches it in `MCIxfrIn`. Knot's AXFR answers are read
   correctly (`KdigReadsKnotAnswer`).
9. **QUIC handshake timeout reported as success** (`quic-requestor.c:232`).
   When the deadline passes, `knot_qreq_connect` closes the connection and
   returns `ret`, the result of the last `quic_exchange`. After an exchange
   that received a datagram without completing the handshake, that is
   `KNOT_EOK`. The caller gets success with `*out` unset and the reply
   context freed. Spec section 4.3 makes a timeout an I/O failure. TLC
   shows it with `timeout_ms` 3: exchanges of 1 and 3 ms, then the
   deadline check.

### Bounds and why they suffice

**Refresh:**

- 2 masters, 2 records, 3 versions (`{r1}`, `{r1,r2}`, `{r2}`: every step
  removes and adds);
- 3-bit serials placed across the wrap;
- clock up to 5, up to 5 events, pin tolerance 2 (unsigned profile);
- both profiles in one state graph (about 120 000 states, under two
  minutes).

This covers pinning's arm, wait, elapse and switch, a master moving on
between probe and transfer, both fallbacks, and consecutive events each
taking a version.

**IxfrIn/AxfrOut:**

- versions 0..2, asking from 0;
- every cut and every junk position;
- zone-max-size 3, which puts the AXFR of version 1 on the ceiling.
- EDNS EXPIRE absent, below 2 s and above, in every message or the first
  only (a master with one value per answer).

kdig reads under the same bounds. Cuts after the first record, and after
the SOA that opens the additions, both occur.

The three trees place the apex SOA first, after another rrset, and alone.
With `MaxPuts = 2`, packets both end on a failed put and wrap on
`KNOT_WIRE_PTR_MAX`, inside a node and at the end of a node. The final SOA
sometimes needs a packet of its own, and the opening SOA sometimes goes
alone.

**Timers:**

- clock up to 3;
- two SOAs, one outside every configured bound;
- EDNS values 0, 1, 5, 9 and 30 around both expires and the value 2;
- interval configurations: each of refresh-min 5, refresh-max 4, retry-min
  3, retry-max 2 and expire-max 25 configured or not, expire-min 8; the
  loader rejects the inverted pairs, which leaves the accepted ones,
  defaults next to configured bounds on both sides;
- bootstrap failures unbounded. The counter reaches its cap because time
  does not advance on a failure.
- the random delay `dnssec_random_uint16_t() % 30` (`Jitter`) takes its two
  extremes, 0 and 29. Every timer property compares the planned time
  with a bound, and the extremes are the cases that reach a bound first.

**Ddns:**

- four requests over three records:
  - q2 needs q1's record;
  - q3 fails to apply and aborts its bulk;
  - q4 fails the format check;
- configurations: slave or not, and the zones (ddns-master unset, empty
  or set; signing or not) and catalog member templates the loader accepts;
- every order of queueing and event firing, so bulks of one to four
  requests occur.

**KdigQuery:** two servers, one with no address of the family and one
with two; UDP and TCP; `+keepopen` or not; one retry; one BADCOOKIE
retry; one stray reply per wait. The query lists are one query, or two
where the first keeps its connection, so a reused connection (and a UDP
socket kept across a TC fallback) occurs. About 99 000 states.

**QuicRequestor:** `timeout_ms` is 3, and each exchange takes 1 to 3 ms.
So the loop runs one to four exchanges before the deadline check, and
both ends of the boundary occur: exactly on time (`elapsed = 3`, one more
exchange) and past it. Every ordering of the exchange outcomes up to the
deadline is enumerated.

### Fairness

- **Refresh.** After every refresh, the event loop plans the next one, so
  `StartRefresh` gets weak fairness. A master asked again and again
  eventually answers correctly and its transfer finalizes. This is strong
  fairness per master on the fault-free `SoaConsume` and `TransferConsume`:
  transient failures are not permanent. Masters, clock and operator get no
  fairness.
- **Transfer.**
  - The primary's server keeps calling `axfr_process_query` while it
    answers PRODUCE.
  - The requestor keeps reading while the consumer answers CONSUME, over a
    TCP connection that delivers packets in order.
  - Both get weak fairness. The reader's fairness is stated on
    `ReadPacket`, which is enabled exactly when `TransferConsume` is; within
    `Next`, its steps are exactly `TransferConsume`'s.
  - `ReadTimeout` gets weak fairness: the requestor waits with a timeout,
    so a wait for a message that never comes ends. It is enabled only
    when nothing more will be sent; a timeout racing a slow primary is not
    modelled.
  - Failures get no fairness.
  - kdig's transfer reader gets no fairness. Its properties are safety
    properties, and its receive may time out at any point.
- **kdig queries.** kdig is one thread, and each of its waits (connect,
  send, receive) ends, at the latest on the configured timeout; so
  `KdigQuery`'s `Next` gets weak fairness. Servers get none: every
  answer, stray reply, truncation and BADCOOKIE stays possible.
- **Ddns.**
  - The scheduler runs a planned event (`Fire`), and the worker finishes it
    (`UpdateNothing`, `UpdateEvent`).
  - Clients get no fairness.

## Not modelled, and why

- Timers inside `Refresh`. `last_refresh_ok` stands for them there, and
  `Timers` models the arithmetic.
- DNSSEC signing, beyond its serial effect; `ixfr-from-axfr` differencing;
  ZONEMD; TSIG.
- AXFR over UDP, which is answered NOTIMPL; the requestor always uses TCP
  for transfers. Also the NSEC3 tree of the outgoing AXFR (a second tree
  walked like the first) and `axfr_query_cleanup` (it frees memory).
- `server/tcp-handler.c`. It is an older TCP path that predates the layer
  API the rest of the sources use, and it hands AXFR to an `xfrhandler`
  that is not in the sources.
- The QUIC requestor after the handshake (`knot_qreq_send`,
  `knot_qreq_recv`, the stream handling): it is I/O through the QUIC
  library, with no state of its own beyond the connection.
- An EDNS EXPIRE that changes within one answer (`refresh.c:1189`). A
  message ignored for a value below 2 s, followed by messages with a
  larger value, leaves the transfer parsed without the ignored message's
  records. TLC reproduces an IXFR accepted that way, where spec section
  4.5 ignores the whole attempt. This is listed as a hazard, not kept as a
  run: the model gives each answer one value. Catalog zones, which pin
  `expire_timer`, are not modelled either.
- The IXFR->AXFR fallback after an undetermined first packet
  (`refresh.c:1195`). `IxfrIn` tracks `fallback_axfr`. An IXFR over
  zone-max-size whose first message is the lone SOA fails with it cleared.
  The same answer cut elsewhere fails with it set. This is listed as a
  hazard, reproduced but not kept as a run.
- The rest of kdig:
  - printing, dnstap, TSIG verification and the EDNS contents of a query;
  - the descriptor leak of `net_connect` (`netio.c:485`): a refused TCP
    connect closes `net->sockfd`, not the new socket. `KdigQuery` tracks
    `opened` and `closed`, and TLC violates `NoSocketLeak` after a TC
    fallback to a refused TCP address. It is a hazard, reproduced but not
    kept as a run;
  - `netio.c`'s socket, TLS, QUIC and HTTPS I/O. For TCP, the model
    assumes an ordered stream whose receive may time out.
- `server/server.c`: socket and thread set-up and configuration reload,
  with no protocol state.
- The rest of `conf/tools.c` and `conf/schema.c`: the single-value checks
  (addresses, modules, keys, policies) and the schema table beyond the zone
  defaults `ConfCheck` reads. Configuration reload is not modelled: a
  running zone keeps one configuration.
- kzonecheck, the query modules and `main.c`: front ends and per-query
  hooks without state across calls.
