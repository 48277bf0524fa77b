# rfrp: TLA+ models, model checking and proofs

rfrp is a reverse proxy in two programs. The client, `rfrpc`, runs beside private services
and keeps a control connection to the server, `rfrps`. The server listens on public ports
and virtual hosts for the client's proxies; when a user connects it asks the client for a
*work connection*, which the client dials to the server and joins to the local service,
and the server bridges user and work connection. Paths below are relative to
`src/crates/`.

Both programs run on the multi-threaded tokio runtime (`rfrp-bin/src/main.rs`), and the
server's tables are shared by one task per control connection, one per proxy listener, one
per work connection and some periodic tasks. Each table has a lock of its own, held for a
few lines at a time. Most of what can go wrong happens between two lock scopes.

## Inventory

| Part | State | Operations | What makes it correct |
|---|---|---|---|
| Session registry, `rfrps/src/control.rs`, `state.rs` | `sessions`, `proxy_index`, `domain_index`, `udp`; per session `proxies`, `proxy_domains`, `stop` | log in, check limits, replace a session of the same `run_id`, serve messages, cleanup, unregister | no session without a task, no task without its session, the end of an old connection never hurts its successor |
| Proxy registration, `rfrps/src/listener.rs` | the listener tasks and their sockets | check, bind, enter in five tables, abort | no listener without an owner, names and domains route to the session that serves them |
| Work connections, `rfrps/src/work.rs`, `listener.rs`, `rfrpc/src/workconn.rs` | `pending`, the sessions' `pools`, `next_work_id`, `active_connections`, ReqWorkConn messages under way | dispatch a user, take from the pool, request, repeat, authenticate, pool, claim, sweep, bridge | a user reaches its own proxy through its own session, one work connection per user, nobody waits forever |
| UDP proxies, `rfrps/src/udp.rs`, `rfrp-common/src/util/udp.rs` | per-peer sessions, pending packets, the socket | datagram in, pending, work connection, sweep, release | one session per peer, idle sessions end, the port is released |
| Virtual hosts, `rfrps/src/vhost.rs` | none of its own | read a request head, look the host up, dispatch | a request reaches the proxy that registered the host |
| Control channel, `rfrps/src/control.rs`, `rfrpc/src/control.rs` | last pong, the channel of outgoing messages | ping, pong, watchdog, writer | a dead peer is noticed, a live one is not dropped |
| Client lifecycle, `rfrpc/src/client.rs` | backoff, registration replies awaited, proxies to retry | connect, log in, register, retry, reconnect | every proxy is registered in the end, a fatal error stops |
| Login limiter, `rfrp-common/src/util/ratelimit.rs`, `state.rs` | failures per address and window | count, allow, evict | bounded table, no more than the limit per window |
| Accept retry, `rfrp-common/src/util/accept.rs` | consecutive errors | back off, reset, give up | bounded backoff, reset by a success |
| Frame codec, `rfrp-common/src/protocol/` | bytes received | decode, encode | the same frames however the bytes are split |
| Server lifecycle, `rfrps/src/server.rs` | the shutdown token, the connection tasks | start, accept, sweep, shut down | a shutdown ends every task |
| Counting and metrics, `rfrp-common/src/util/counting.rs`, `rfrps/src/metrics.rs` | counters | count, flush, drop | what is counted up is counted down |
| Configuration, `rfrp-common/src/config/` | none | parse, validate `allow_ports` | the ranges mean what they say |
| Dashboard, `rfrps/src/dashboard.rs`, `rfrp-common/src/util/http.rs` | the request limit | accept, read a request, answer | the limit holds, a silent peer is dropped |
| Byte bridge, TLS, authentication, status file, command line | none that matters here | I/O, cryptography, presentation | not modelled |

Control task and listeners meet in the tables; the listener of a proxy sends ReqWorkConn
through its session's channel, which the control connection's writer carries to the
client; the answer comes back as an unrelated TCP connection, joined to its session by
`proxy_index`, the session's token and the `work_id`. The hard behaviours are: two
cleanups of one session at once (its own and that of the login that replaces it), a
registration or a dispatch that goes on after its session was cleaned up, a stop
notification that finds nobody waiting, requests that are repeated and answered twice,
tokens that outlive their session, timeouts racing late answers, reads dropped in the
middle of a frame, writes that hold a loop, and tasks left behind by a connection that was
lost half-way through its set-up. `PROJECT.json` lists them under "hazards", each at its
line.

## Modules

| Module | Content |
|---|---|
| `SessionRegistry` | the control tasks, registration, cleanup, listeners and shutdown |
| `MCSessionRegistry` | two clients and their proxies, for TLC |
| `SessionRegistryProofs` | its inductive invariant and theorems |
| `Rendezvous` | abstract: users and work connections are paired, at most once each |
| `WorkConn` | pool, pending table, requests, work connections of one client across reconnects; implements `Rendezvous` |
| `MCWorkConn` | symmetry, for TLC |
| `WorkConnProofs` | its inductive invariant, theorems and the refinement |
| `UdpProxy`, `UdpProxyProofs` | the tables, the listener, the request tasks and the handlers of one UDP proxy |
| `UdpBridge`, `MCUdpBridge`, `UdpBridgeProofs` | framing and the two loops of one UDP work connection |
| `ControlChannel`, `ControlChannelProofs` | loop, writer and heartbeat of one end of a control connection |
| `ClientConn`, `MCClientConn`, `ClientConnProofs` | the client's attempts to connect, registration, retries and backoff |
| `ServerLife`, `MCServerLife`, `ServerLifeProofs` | the server process: accept loop, first frame, limiters, HTTP loops, drain |

The modules meet at named places rather than in one product, which no checker would
finish: `ServerLife` ends where a Login or a StartWorkConn is read, `SessionRegistry` and
`WorkConn` begin there; `ControlChannel` is the inside of the control task that
`SessionRegistry` and `ClientConn` see from outside; `UdpProxy` takes a work connection
that `WorkConn` has let through, and leaves its bytes to `UdpBridge`. What a module leaves
to another it allows at any time (a control task may end, a client may never dial), so
what it shows does not depend on the other.

### SessionRegistry

One action per lock scope or await of `handle_control_login`, `register_proxy` and
`cleanup`. `pc[s]` is where the task of control connection `s` stands; `RunOf[s]` is the
`run_id` it presents, so that two members of `Session` with one `run_id` are a connection
and its reconnect.

* *Login.* `Login` and `LoginRejected` stand for all checks before the session limits, and
  may come after a shutdown, for a connection accepted before it;
  `CheckLimit` and `InsertSession` are the two scopes of the `sessions` lock.
  `LoginResp` may fail, which leads to the same teardown as the loop's end.
* *Loop.* `ReceiveNewProxy` enters `register_proxy`; `ReceiveOther` is any frame that
  registers nothing, kept because taking it drops a wake-up. `wake[s]` is a
  `notify_waiters` that reached the parked `select!`: it reaches nobody else, and
  a task that takes another ready branch loses it. `ConnectionEnds` is the peer or the
  watchdog.
* *Registration.* `session_for_domain` locks twice (`LookupDomain`, `LookupOwner`), then
  `Bind` or `BindFails`, `RegisterUdp`, `MapDomains`, `IndexDomain` (a scope per domain),
  `InsertEntry`, `IndexProxy`, and `Reply` in every case.
* *Cleanup.* `CleanNotify`, `CleanCollect`, `CleanUnindexProxies`, `CleanUnindexDomains`,
  `CleanDrain`, `CleanRest`, run by task `c` for `target[c]`: its own session at the end,
  or the one it has replaced. Collecting, removing by name and draining are
  separate scopes, which is the source of two findings below.
* *Listeners.* `listeners` are bound sockets, `stopped` those whose accept task was aborted
  or has returned. An aborted task is dropped, and its port freed, some time later
  (`ReleaseSocket`). A UDP socket is also held by the `udp` table.

Statistics per proxy are left out; the pools and the pending table, which cleanup empties
last, are in `WorkConn`.

### WorkConn

One client; session `s` is its `s`-th control connection and a token is identified with
the session it was issued to. An entry of `pending` is a user in state `"waiting"`, found by its
`uid`; `UniqueIds` is what makes that faithful to a map. A pool is a set: which of its
members `pop` takes is left open. `Accept` to `PendingInsert` are the steps of
`dispatch_user_connection`, which has no await, so that aborting the accept task does not
interrupt it: a user may enter `pending` after cleanup has passed. `SendReq`, `SendFails`
and `RequestEnds` are the task that repeats ReqWorkConn; requests to one session are a set
of messages, sent again and again and delivered in any order, or lost with the session. The
client answers each with a work connection of its own (`ReceiveReq`, `Preheat`, `Dial`,
`DialFails`, `StartWorkConn`), which carries the token of the connection it was spawned
under: `ClientState` is made anew by every `connect_once`, and a task keeps its own. On the
server `Resolve` is `session_for_proxy` and the token check, which
read the registry with the index locked, so one action; the index maps a name to the
`run_id`, so an entry of an earlier session of the client serves as well. `PoolPush`, `PoolFull`, `Claim`
and `ClaimFails` follow in a later step, when the session may be gone. A handler holds its `Arc<Session>` until
it returns, an on-demand one over the whole bridge (`HandlerHolds`), and `FreeSession`, the
end of the session and its pools, waits for it.

Left open rather than modelled: whether a name is in the index when asked for
(`ResolveFails` is always possible, since `SessionRegistry` shows that entries can be
missing), and time (a sweep or a deadline may strike at any moment). Not here: the branch
for UDP proxies, shutdown, the bytes that are bridged.

### Rendezvous

A user arrives at a service (a proxy of a session), a work connection is offered for one;
a waiting user and a waiting work connection of the same service are paired, and parted
for good; those that wait may be closed. No pool, no table, no message. `WorkConn` maps
its user states `accepted`, `missed`, `waiting` and its connection states `dial`, `sent`,
`auth`, `pooled` to `"waiting"`, and offers what the token and name of a work connection
say, so that a pairing across sessions or proxies, or a second use of a connection, is no
step of `Rendezvous`.

### UdpProxy

`sessions`, `pendingById` and `pendingClient` are the three tables, each with its lock; a
channel is named by the work id it was made for, `queue[i]` its content. `lpc` is the
listener in `run_udp_listener` and `handle_datagram`: `Receive` (the socket and the first
scope), `TrySend`, `LookUpPending`, `LookUpById`, `CheckLimit`, `InsertPending`, `Link`, `SpawnRequest`,
and the sweep, which runs in the same task (`SweepSessions` to `SweepDone`). The two
scopes of `remove_pending` are `Take` and `Unlink`, used by the sweep, by a request task
whose send failed and by a handler; `unlinking[i]` says who is between them. `hpc[i]` is
the handler of the work connection for id `i`, from `Dial` to `CloseWork`. Clocks are
replaced by `SessionIdle` and `PendingExpires`, possible at any time.

### UdpBridge

Both ends of one work connection: `handle_udp_work_conn` and `udp_bridge` have the same
shape, a select over "my side has datagrams" and "the connection has bytes". `Frames` and
`Parse` are the loop over `append_udp_frame` and the inner loop of `read_batch`, over bytes
of any base and length prefixes of any width. A loop over a buffer is a recursive function
of the number of turns (`Shifted`, `Values`, `Appended`, `Turns`), of which the definition
takes the last value. The dropped read is in `TakeBatch`: the other branch
throws `down` away and keeps `rbuf`. `WriteSome` writes any part that fits in `Room`; while
it is not done the loop does nothing else.

### ControlChannel

One end, `side`, after login, and a free peer. `lpc`, `wpc`, `hpc` are the tasks; `out` is
the bounded channel, `sent` and `inbox` the connection. A heartbeat of this round is
`"ping"`, one of an earlier round `"oldping"`, and so for answers: that is all the
comparison `pong_ts >= ts` can tell while the clock goes forward, and `ClockSteps` lets an
old answer pass. `permit` is the permit of `Notify`. `Replaced` is the server's `stop`,
given once (`replaced`): it is lost on a task that is out of its select (`LoopMisses`,
`WriterMisses`) or whose select has another branch ready and takes that one.

### ClientConn

Attempt `c` has a control task, a command channel, the requests and answers under way, and
perhaps a retry task. `rpc` is where `run` and `connect_once` stand. `served` is what the
server has registered in the session of that attempt, `believed` what the client has
logged as registered. `ForWaiter` is the lookup of an answer in `resps` by name;
`Ask`, `TakeAnswer` and the two timeouts are `register_one_proxy`, which `connect_once` and
`retry_loop` share. `lived` is how long the attempt and its session have lasted, against
`MIN_STABLE_CONNECTION_SECS`: `run` looks at the attempt's time only. `setup` is the configuration, chosen at the start.

### ServerLife

`lpc` is `Server::run`; `opc` one of the loops beside it (HTTP vhost, HTTPS vhost,
dashboard, sweep of pending users), chosen by `other`; `pc[c]` a connection task, on the
bind port up to the point where it becomes a control or work connection, or on an HTTP
port. `errs` is `AcceptRetry`, `fails` and `failOpen` the login failures of one address in
the current window, `reqs` and `reqOpen` the dashboard's `RateLimiter`. `bad`, `tried` and
`answered` are history: what really happened, against what the code counted.

## Runs

| Run | Instance | Checks |
|---|---|---|
| `registry` | alice with two connections and a TCP proxy, bob with one and a UDP and a vhost proxy, all behind one address with a limit of one session; 722,676 states | `TypeOK`, `NoGhost`, `LiveSessionRegistered`, `ListenerOwned`, `RoutedWhenUnshared` |
| `registry_live` | alice alone, her TCP proxy with a domain, with fairness; 27,021 states | `CleanupFreesPorts`, `ShutdownDrains` |
| `registry_recover` | alice alone, TCP | `Recovered` is violated |
| `workconn` | two connections of the client, two users, one work connection; 395,900 states | `TypeOK`, `RightWorkConn`, `ExclusiveUse`, `UniqueIds`, `Implements` |
| `workconn_pool` | one connection, two users, two work connections, a pool of one, one active user, with fairness; 88,042 states | `PoolSound`, `UserSettled`, `PoolReleased` |
| `udp` | two peers with two datagrams each, two work ids, a pending table of one, with fairness; 323,143 states | `PendingLinked`, `PendingBounded`, `SessionServed`, `InOrder`, `PendingSettles` |
| `udp_idle` | one peer with one datagram, with fairness | `IdleReleased` is violated |
| `bridge` | two datagrams one way and one the other, of 0 to 2 bytes, 4 bytes of room, with fairness; 35,051 states | `FramesIntact`, `NothingForgotten`, `Delivered`, `StopReleases` |
| `bridge_stop` | one datagram each way, larger than the room, with fairness | `StopReleases` is violated |
| `control` | channel and connection of one message each, both sides, with fairness; 208,470 states | `NoLeakedTasks`, `RoundAnswered`, `HalfOpenDetected`, `EndsWhenOver`, `ReplacedEnds` |
| `client` | one proxy over two attempts, or two over one, with fairness; 201,205 states | `RegisteredServed`, `NoneForgotten`, `Reconnects`, `ShutdownEnds`, `NothingLeftBehind` |
| `server` | two connections, four configurations, limits of 1 and 2, with fairness; 100,228 states | `RatesHeld`, `ListenersPersist`, `SilentPeersDropped`, `TasksReaped`, `Drains` |

*What they show.*

* `NoGhost`: when the task of a session has returned, the registry does not name it and no
  entry, domain or running listener of it is left, whatever the two cleanups did to each
  other. `LiveSessionRegistered`: the end of an old connection never unregisters its
  successor. `ListenerOwned`: every running listener has an entry, or a registration about
  to make one, that will abort it. `RoutedWhenUnshared`: a client on its first connection
  keeps the routes of its proxies whatever clients with other names and domains do.
* `CleanupFreesPorts`: a cleanup frees the TCP ports of the session it cleans, which is what
  lets a reconnecting client register them again, whether or not the session's own task
  learns that it was replaced. `ShutdownDrains`: a shutdown ends every control task, also
  one that logs in after it.
* `RightWorkConn`: a user is bridged only with a work connection of its own session, its
  own proxy, and its own `work_id` or the pool. `ExclusiveUse`: never two users on one.
  `UniqueIds`: the pending table never overwrites an entry. `PoolSound`: the limit of a pool, and
  whose connections are in it. `Implements`: refinement of `Rendezvous`.
* `UserSettled`: every user let in is bridged or closed in the end, also when it entered
  `pending` after its session's cleanup. `PoolReleased`: a work connection pooled after
  its session's cleanup is let go, unless a bridge of an on-demand work connection of that
  session lasts: its handler holds the session, and with it the pool (`work.rs:48`, `118`).
* `PendingLinked`: the two pending tables agree but for the scopes of the task at work on
  them, so no reverse entry is left to swallow a peer's datagrams. `PendingBounded`:
  the pending table keeps its limit although check and insertion are two scopes. `SessionServed`: a
  session always has a handler, although a handler that ends removes whatever session its
  peer has. `InOrder`: a work connection carries one peer's datagrams in order from the
  first. `PendingSettles`: a lost request or a client that never dials leaves no pending
  session behind.
* `FramesIntact`, `NothingForgotten`, `Delivered`: dropping `read_batch` at its await loses
  no byte. `StopReleases`: in `bridge` the client's one datagram fits the connection, so
  the server's write ends and the token is seen.
* `NoLeakedTasks`: every way out of the loop ends writer and heartbeat. `RoundAnswered`: a
  late answer or a stored permit passes no later round. `HalfOpenDetected`: a silent peer is
  given up although no read returns, also when the writer is stuck. `EndsWhenOver`: so is a
  connection that can no longer be written to, although the peer goes on sending.
  `ReplacedEnds`: and that of a replaced session, if its loop or only its writer hears of it.
* `RegisteredServed`, `NoneForgotten`: late answers neither mislead the client nor make it
  lose a proxy. `Reconnects`, `ShutdownEnds`, `NothingLeftBehind`: a lost connection is
  noticed in the middle of the registrations, a shutdown ends `run`, and the control task
  and the retry task of an attempt that is over end after it.
* `RatesHeld`: by how much the login limit can be exceeded, and that the
  dashboard's cannot. `ListenersPersist`, `SilentPeersDropped`, `TasksReaped`, `Drains`: no
  listener stops early, no peer that is silent before its first frame or within a request
  head stays (bodies and responses have no timeout, see below), the JoinSet does not grow, and a
  shutdown ends although work connections and the sweep ignore it.

*Violations.* Each states what the repository says of itself.

* `Recovered`. The comments on `unindex_proxies` and `unindex_domains` (`state.rs:216`,
  `241`) say that removing by name does no harm to a successor. The old session's task
  collects its names; the new login has cleaned the same session up, its client registers
  the proxy again; then the old task removes the name. The proxy listens and no work
  connection for it is ever accepted, until the client reconnects.
* `IdleReleased`. `DESIGN.md:805` and the comment at `udp.rs:407` say that an idle UDP
  session's work connection is closed. The sweep drops the sender in `sessions`, and the
  handler waits for the channel to close while it holds `pending.tx`, a sender of that
  channel, itself.
* `StopReleases` in `bridge_stop`. `udp.rs:429` and `control.rs:470` say that cancelling
  `stop` ends a work connection and frees the port. With both directions full both ends are
  in a write, neither reads, and the server does not get back to its select.

*Observations* made while modelling, for which no run is kept.

* Four race or scope questions of the registry are stated in `SessionRegistry` and are
  violated by small variations of `registry_recover.cfg`: `NamesUnique` (two clients that
  offer the same name; `DESIGN.md:411` makes names unique over all sessions, `listener.rs:52`
  looks at one), `DomainsUnique` (two clients with one domain; `listener.rs:69` and
  `DESIGN.md:414` against the two scopes at `listener.rs:72` and `150`), `SessionLimit` (two
  clients and `MaxSessions = 1`; checked at `control.rs:122`, inserted at `160`),
  `UdpReleased` (alice with a UDP proxy; an entry inserted between the collection of names
  and the drain, `control.rs:451` and `465`, stays in the `udp` table).
* `ReplacedAlwaysEnds` in `ControlChannel` fails when it is added to `control.cfg`.
  `DESIGN.md:1475` says that a login wakes the old control loop of its `run_id`, which exits, and
  `rfrpc/tests/reconnect.rs:357` that the old connection is closed. `notify_waiters`
  (`control.rs:449`) wakes only who waits: a loop at work on a NewProxy and a writer at work
  on a message both miss it, and a peer that goes on answering heartbeats, such as a
  second client with that `run_id`, keeps the connection.
* `ShortSessionBacksOff` in `ClientConn` fails when it is added to `client.cfg`. The comments
  at `client.rs:160` and `413` say that only a session that has lasted resets the backoff. The
  clock starts before `connect_once` (`client.rs:149`), so a session lost at once resets it
  when the set-up before it took `MIN_STABLE_CONNECTION_SECS`.
* With `ClockSteps = TRUE` `RoundAnswered` fails: a wall clock set back lets an old answer
  pass a round (`control.rs:263`). `DESIGN.md:720` says that a round is skipped when the
  channel is full; the code gives the connection up (`control.rs:265-276`), and it is that
  which `HalfOpenDetected` rests on. An answer is sent with `try_send` and dropped when the
  channel is full, so a congested but living connection can be given up.
* `accepting` becomes FALSE with one accept error and TRUE only with the next accepted
  connection (`server.rs:195-245`), while `metrics.rs:22` speaks of repeated failures;
  `/healthz` reports it meanwhile. The client's `connected` stays TRUE when `connect_once`
  leaves through ConnLost (`client.rs:342-346`).
* The TLS handshake of the client's control connection has no timeout (`client.rs:238`). A
  shutdown is not seen there; `ShutdownEnds` says so. Neither has the DNS lookup before it
  (`client.rs:201`), which ends when the system's resolver gives up.
* `ratelimit.rs:1` and `11` call the dashboard's limiter a sliding window. It counts in fixed
  windows, and so does the model: up to twice the limit can pass around the end of one.
* The end of a UDP work connection removes its peer's session also when a newer work
  connection has registered it (`udp.rs:438`): the newer one gets no more datagrams, and the
  peer's next one opens a third.
* A ConnLost in the first retry loop does not keep the second from starting; the comment
  at `client.rs:542` says that the retrying ends.
* A successful login clears the failure count of its address, so that failures of another
  client behind the same address are forgotten with it.
* The body of a dashboard login (`dashboard.rs:212-234`) and responses are read and written
  without a timeout, and HTTP connections are spawned outside the JoinSet, so the grace
  period does not wait for them.
* At the server the writer never sees its channel close, because the session holds a
  sender: the teardown always waits its second unless a stop or a shutdown came.

*Bounds.* Two connections of one client are a connection and its reconnect, which is what
two concurrent cleanups need; the second client is there for interference. Proxies of all
three kinds occur in `registry`; the limits are set so that they are reached
(`MaxSessionsPerIp`, `MaxPool`, `MaxActive`, `MaxPending`, `QueueDepth`, `FatalErrs`,
`FailureLimit` of 1 or 2), except `MaxSessions`, which is tested beside `MaxSessionsPerIp`
and with the same effect. A login that has passed the check may wait before its insertion,
so that both clients are still served at once. Two users compete for one work connection, or for
two; one pool is filled and drained in every order. `work_id` counts users, so it is
bounded by `User` (the code's counter has 64 bits). In `udp` one peer can use both ids, the
second opened in the gap between `remove_pending` and `register_session`, or each peer one.
In `bridge` a byte is a bit and a prefix two of them, so that every cut of a frame, the
prefix included, occurs; the empty datagram does too. In `control` a channel of one is full
after one message, which is the only thing its size is for. In `client` two attempts are
needed for tasks left behind, two proxies for an answer that meets another's wait. Two
connections make the race of `login_allowed`. Users, connections, attempts and datagrams
are used once, so a behaviour may come to rest, and deadlock is not checked; that nothing
stops early is what the liveness properties are for. Symmetry is used only in runs without
fairness.

*Fairness.* Everywhere: a task that can run is run, and a timer strikes in the end (weak
fairness); `select!` polls its branches in random order, so that a branch ready again and
again is taken (strong fairness of that branch). In `WorkConn` the sweep ticks every
second and finds a waiting user old enough in the end, and a session nobody references is
dropped. Nothing is assumed of users, of the peer, of the network or of the end of a
bridge; nothing of a connection that was replaced; nothing of the client's TLS handshake; nothing of the time the sweep takes to close
users.

*Mutants.* Every property of a passing run has a mutant in `PROJECT.json`: a definition
such as `DrainCollected` or `FreshBuffer`, written before the action or helper it stands in
for, with a plausible slip (a dropped guard, a handle detached instead of aborted, a buffer
made inside the loop, a round skipped instead of given up), under which TLC finds the
property violated.

## Proofs

TLAPS proves, for any constants that satisfy the modules' assumptions:

* `SessionRegistryProofs`: `Inductive`, and from it `TypeCorrect`,
  `LiveSessionIsRegistered`, `ListenersAreOwned` and `NoGhostSession`. The invariant
  `IndInv` adds to the types and `ListenerOwned` what a task's locals are at each
  label (`LocalsInv`), that a session holds nothing before it logs in and after its last
  drain (`EmptyInv`), and that the registry names a session from its insertion to its
  unregistration unless a later login took the entry (`RegistryInv`). `NoGhost` is not
  inductive by itself: a listener of a session that has returned is stopped because it was
  owned (`ListenerOwned`), its entries are gone (`EmptyInv`), and no registration is under
  way in a task at `"done"`.
  `RoutingIsIsolated` (`RoutedWhenUnshared`) rests on a second invariant, `RoutingInductive`.
  Index entries are written and removed by name and by domain, whoever does it, so the
  argument is about whose names and domains a task can hold: only those its own client is
  configured with, and it cleans up only sessions of its own client (`ConfigInv`). So a task
  that removes or overwrites an entry of an unshared proxy is of the same client; on the
  client's first connection there is no other (`ReplacedInv`, `FreshInv`), and the
  connection's own registrations keep `RouteInv`: what leads to a proxy at each step of its
  registration, and that a second proxy which asks for a domain of the first is stopped
  between `LookupDomain` and `LookupOwner`.
* `WorkConnProofs`: `WInductive`, and from it `WTypeCorrect`, `BridgedRight`,
  `UsedExclusively`, `IdsAreUnique`, `PoolsAreSound`, and `Refinement`
  (`Spec => Implements`). The invariant adds that a connection is of the session that issued
  its token from the moment the token was compared, wherever that session has gone since
  (`ConnsInv`), that ids come from the counter and go to one user each (`IdsInv`), and what
  a user in each state refers to (`UsersInv`). `PoolBound` is carried beside it with the
  cardinality facts of `FiniteSetTheorems`. The refinement takes each action to a step of
  `Rendezvous` or to a stutter under that invariant.
* `ControlChannelProofs`: `TasksNeverLeak`, because the heartbeat is gone from the moment
  the teardown begins (`TaskInv`), and `RoundsAreAnswered`, for a clock that is not set back,
  because a fresh `pong_ts` means an answer to this round (`FreshInv`) and only `Pass` ends a
  round well.
* `ServerLifeProofs`: `LoopInductive`, the types and `LoopInv`, from which
  `ListenersAlwaysPersist`; `RatesAreHeld`, where `RateInv` bounds the
  wrong tokens seen together with the connections still to be judged, which is what makes
  the excess at most one less than the number of connections.
* `UdpProxyProofs`: `UdpInductive`, and from it `UTypeCorrect`, `PendingStaysLinked` and
  `SessionsAreServed`. `PendingLinked` is not inductive by itself. Its gap, a pending session
  without a reverse entry, is safe because nobody can take that session before the listener
  has spawned its request (`LinkInv`: the id is neither being asked for nor asked); and a
  reverse entry is removed once because at most one task has an id out of its table
  (`IdsInv`). `SessionServed` needs that an id nobody was asked for has no handler.
  `DatagramsInOrder` (`InOrder`) adds that the datagram in the listener's hand is the last its
  peer has sent (`SeenInv`), so that whatever is carried is older, and what a handler may
  hold at each stage (`StageInv`); taking a batch and writing it move datagrams between the
  three parts of `Carried` and leave their concatenation as it was. `PendingStaysBounded`
  (`PendingBounded`) rests on `BoundInv`: between the check and the insertion the table has
  room, because only the listener inserts (`OnlyListenerInserts`).
* `ClientConnProofs`: `ClientInductive`, and from it `ClTypeCorrect`, `BeliefsAreServed`
  and `NoProxyForgotten`. `RegisteredServed` needs that every ok under way, the
  late ones too, is of a proxy the server has (`AnswersTrue`). `NoneForgotten` speaks of a
  session that is served; before it is, each configured proxy is on one of the lists of
  `connect_once` or is the one waited for (`Accounted`), and after, the second list of the
  retry task waits behind the first (`Queued`).
* `UdpBridgeProofs`: what the framing does for every sequence of datagrams and every cut of
  the bytes. `Upward` is induction over an interval, stated of a set rather than of a
  predicate and proved from the well-foundedness of the natural numbers (`WFMin`);
  `Recursion` is that a function defined by recursion over an interval exists, from which
  each recursive function of the model gets its equations (`ShiftedRec`, `ValuesRec`,
  `AppendedRec`, `TurnsRec`). `HeaderRoundTrip`: `FromBytes(ToBytes(n)) = n` for every length
  up to the maximum. `FramesConcat`: the frames of two batches one after the other are
  the frames of both. `ParseInverts`: if a buffer is a beginning of the frames of some
  datagrams, cut anywhere, `Parse` returns the first of those datagrams, and what it leaves
  is a beginning of the frames of the others. The invariant, `BridgeInductive`, is that in
  each direction read buffer, connection and write buffer together are the frames of
  the datagrams taken and not yet passed on (`FlowInv`), with what a loop may hold in each
  phase (`PhaseInv`). `FramesAreIntact` and `NothingIsForgotten` follow, and `NeverTooLarge`:
  the branch of `read_batch` that returns InvalidData is not taken while both ends are this
  program's.

Assumptions: the constants have the types the `ASSUME`s give them, `None` is none of the
values it stands beside, sets of users, work connections and connection tasks are finite,
and in `UdpBridge` the length of a datagram fits in the prefix (`HeaderAssumption`: a u32 for
lengths up to `MAX_UDP_PACKET_SIZE`). TLC evaluates them in every run.

Every invariant and every action property that a passing run checks is stated by a theorem,
and so is the refinement. Model-checked only: the liveness properties, since TLAPS does not
prove fairness properties here, and the violations, which are counterexamples. The
library's induction theorems take a predicate as a parameter, which the provers at hand
cannot instantiate; that is why `UdpBridgeProofs` has induction in the form of a fact about
sets. `TypeOK` of `UdpProxy`, `ServerLife`, `UdpBridge` and `ClientConn` is proved as part of their
inductive invariants rather than run; that of `ControlChannel` is documentation of its
state.

## Not modelled, and the plan

To prove next: `TypeOK` of `ControlChannel`; for the liveness properties, the safety part of
their arguments, that is, in which states a step that leads out is possible.

To model next, if more is wanted: the sweeps that bound the limiters' tables, the
`allow_ports` parser against set membership, and the byte layout of control frames.

Left out for good: cryptography and TLS (a token comparison is equality, a handshake
succeeds or fails), copying of bytes, the pages of the dashboard, the status file, how a
host is cut out of a request, configuration files, command line, logging and platform
calls, which keep no protocol state, and statistics, on which nothing depends.
