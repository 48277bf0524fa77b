------------------------------ MODULE WorkConn ------------------------------
(***************************************************************************)
(* How rfrps finds a work connection for a user connection.  The accept    *)
(* task of a proxy takes one from the session's pool, or parks the user in *)
(* the pending table under a fresh work_id and asks the client, over the   *)
(* control connection, for a work connection with that id.  The client     *)
(* dials the server and the local service and sends StartWorkConn; the     *)
(* server checks the token of the session and pairs or pools the           *)
(* connection.  Meanwhile the session may end or be replaced by the        *)
(* client's next control connection, and each of the two control tasks may *)
(* run cleanup for it.                                                     *)
(*                                                                         *)
(* The model follows one client (one run_id).  Session s is its s-th       *)
(* control connection; a token is identified with the session it was       *)
(* issued to.  SessionRegistry has the registration of proxies and the     *)
(* first half of cleanup in full.  Here an index entry may be missing      *)
(* whenever a work connection asks for it, as SessionRegistry shows it     *)
(* may.  An entry of the pending table is a user in state "waiting", found *)
(* by its id; the pool of a proxy is a set, so which of its members pop    *)
(* takes is left open.  Clocks are left out: a timeout may strike at any   *)
(* time, and does in the end.                                              *)
(***************************************************************************)
EXTENDS Naturals, FiniteSets

CONSTANTS
    Sessions,       \* number of control connections of the client
    Name,           \* its TCP and vhost proxies
    User,           \* user connections
    Conn,           \* work connections the client dials
    MaxPool,        \* MAX_POOLED_WORK_CONNS_PER_PROXY
    MaxActive,      \* max_active
    None

ASSUME WorkAssumption ==
    /\ Sessions \in Nat
    /\ MaxPool \in Nat
    /\ MaxActive \in Nat
    /\ IsFiniteSet(User)
    /\ IsFiniteSet(Conn)

ASSUME WorkNoneAssumption ==
    None \notin Nat /\ None \notin Conn /\ None \notin Name /\ None \notin Nat \X Name

Session == 1..Sessions

\* WORK_ID_POOL_RESERVED
PoolId == 0

VARIABLES
    \* ServerState
    current,        \* the registered session
    workId,         \* the work_id counter
    \* Session and its control task
    pc, target,     \* where the task is; the session its cleanup works on
    reg,            \* the proxy it is registering
    listening,      \* session -> names with a running accept task
    indexed,        \* session -> names it has put in proxy_index, under the one run_id
    reqs,           \* session -> ReqWorkConn messages on their way to the client
    \* user connections
    ustate, usess, uname, uid,
    mate,           \* the work connection it is bridged with
    asking,         \* its request task is running
    \* work connections
    wstate, wname, wid,
    wtok,           \* the session whose token it carries
    wsess,          \* the session its handler resolved
    dead            \* pooled connections that the peer has closed

control == <<current, pc, target, reg, listening, indexed>>
uvars   == <<ustate, usess, uname, uid, mate, asking>>
wvars   == <<wstate, wname, wid, wtok, wsess, dead>>

vars == <<control, workId, reqs, uvars, wvars>>

Label == {"idle", "serve", "index", "abort", "pools", "pending", "done"}
UState == {"none", "accepted", "missed", "waiting", "bridged", "closed"}
WState == {"none", "dial", "sent", "auth", "pooled", "bridged", "closed"}

Init ==
    /\ current = None
    /\ workId = 0
    /\ pc = [s \in Session |-> "idle"]
    /\ target = [s \in Session |-> None]
    /\ reg = [s \in Session |-> None]
    /\ listening = [s \in Session |-> {}]
    /\ indexed = [s \in Session |-> {}]
    /\ reqs = [s \in Session |-> {}]
    /\ ustate = [u \in User |-> "none"]
    /\ usess = [u \in User |-> None]
    /\ uname = [u \in User |-> None]
    /\ uid = [u \in User |-> PoolId]
    /\ mate = [u \in User |-> None]
    /\ asking = [u \in User |-> FALSE]
    /\ wstate = [w \in Conn |-> "none"]
    /\ wname = [w \in Conn |-> None]
    /\ wid = [w \in Conn |-> PoolId]
    /\ wtok = [w \in Conn |-> None]
    /\ wsess = [w \in Conn |-> None]
    /\ dead = {}

Goto(s, label) == pc' = [pc EXCEPT ![s] = label]

\* Drop the user streams in U.  Request tasks keep their session, name and id.
CloseUsers(U) ==
    /\ ustate' = [u \in User |-> IF u \in U THEN "closed" ELSE ustate[u]]
    /\ mate' = [u \in User |-> IF u \in U THEN None ELSE mate[u]]
    /\ UNCHANGED <<usess, uname, uid>>

\* Drop the work connections in W, and all that was known of them.
CloseConns(W) ==
    /\ wstate' = [w \in Conn |-> IF w \in W THEN "closed" ELSE wstate[w]]
    /\ wname' = [w \in Conn |-> IF w \in W THEN None ELSE wname[w]]
    /\ wid' = [w \in Conn |-> IF w \in W THEN PoolId ELSE wid[w]]
    /\ wtok' = [w \in Conn |-> IF w \in W THEN None ELSE wtok[w]]
    /\ wsess' = [w \in Conn |-> IF w \in W THEN None ELSE wsess[w]]
    /\ dead' = dead \ W

Waiting == {u \in User : ustate[u] = "waiting"}
Pooled(s) == {w \in Conn : wstate[w] = "pooled" /\ wsess[w] = s}
Pool(s, n) == {w \in Pooled(s) : wname[w] = n}

\* active_connections: user streams that have not been dropped.
Active == {u \in User : ustate[u] \in {"accepted", "missed", "waiting", "bridged"}}

\* The writer task takes messages for the client until the session ends; then
\* the channel is closed.
ChannelOpen(s) == pc[s] \notin {"idle", "done"} /\ target[s] # s

-----------------------------------------------------------------------------
(***************************************************************************)
(* The control tasks, as far as they bear on work connections.             *)
(***************************************************************************)

\* The session is registered and an old one removed, then cleaned up.  The
\* client has one control connection at a time: it opens the next one when it
\* has given up the one before, whether or not the server has noticed.
Login(s) ==
    /\ pc[s] = "idle"
    /\ s > 1 => pc[s - 1] # "idle"
    /\ current' = s
    /\ target' = [target EXCEPT ![s] = current]
    /\ Goto(s, IF current = None THEN "serve" ELSE "abort")
    /\ UNCHANGED <<reg, listening, indexed, workId, reqs, uvars, wvars>>

\* register_proxy binds, spawns the accept task and makes the entry ...
Listen(s, n) ==
    /\ pc[s] = "serve"
    /\ n \notin listening[s]
    /\ listening' = [listening EXCEPT ![s] = @ \cup {n}]
    /\ reg' = [reg EXCEPT ![s] = n]
    /\ Goto(s, "index")
    /\ UNCHANGED <<current, target, indexed, workId, reqs, uvars, wvars>>

\* ... and then enters the name in proxy_index.
IndexProxy(s) ==
    /\ pc[s] = "index"
    /\ indexed' = [indexed EXCEPT ![s] = @ \cup {reg[s]}]
    /\ reg' = [reg EXCEPT ![s] = None]
    /\ Goto(s, "serve")
    /\ UNCHANGED <<current, target, listening, workId, reqs, uvars, wvars>>

\* The main loop has ended, or a response could not be sent: unregister_session,
\* then cleanup(s).
Unregister(s) ==
    /\ pc[s] = "serve"
    /\ current' = IF current = s THEN None ELSE current
    /\ target' = [target EXCEPT ![s] = s]
    /\ Goto(s, "abort")
    /\ UNCHANGED <<reg, listening, indexed, workId, reqs, uvars, wvars>>

\* Leaves the accept tasks running.
CleanDetach(c) ==
    /\ pc[c] = "abort"
    /\ Goto(c, "pools")
    /\ UNCHANGED <<current, target, reg, listening, indexed, workId, reqs, uvars, wvars>>

\* Unindexes the proxies and aborts their accept tasks.
CleanAbort(c) ==
    /\ pc[c] = "abort"
    /\ listening' = [listening EXCEPT ![target[c]] = {}]
    /\ Goto(c, "pools")
    /\ UNCHANGED <<current, target, reg, indexed, workId, reqs, uvars, wvars>>

\* Drops what is in the pools now.
CleanPools(c) ==
    /\ pc[c] = "pools"
    /\ CloseConns(Pooled(target[c]))
    /\ Goto(c, "pending")
    /\ UNCHANGED <<current, target, reg, listening, indexed, workId, reqs, uvars>>

\* Keeps in the pending table only what is of other sessions.
CleanPending(c) ==
    /\ pc[c] = "pending"
    /\ CloseUsers({u \in Waiting : usess[u] = target[c]})
    /\ target' = [target EXCEPT ![c] = None]
    /\ Goto(c, IF target[c] = c THEN "done" ELSE "serve")
    /\ UNCHANGED <<current, reg, listening, indexed, workId, reqs, asking, wvars>>

\* The handler of w holds an Arc<Session>: until it returns, after the bridge of
\* a work connection that came on demand.  One for the pool is handed over, and
\* the task that bridges it later holds none.
OnDemandBridge(w) == wstate[w] = "bridged" /\ wid[w] # PoolId
HandlerHolds(w) == wstate[w] = "auth" \/ OnDemandBridge(w)

\* The last Arc<Session> is dropped, and with it what was pooled after
\* cleanup.  The registry, the control tasks, the accept tasks, a dispatch and
\* a work-connection handler hold one.
FreeSession(s) ==
    /\ pc[s] = "done"
    /\ current # s
    /\ \A c \in Session : target[c] # s
    /\ listening[s] = {}
    /\ \A u \in User : usess[u] = s => ustate[u] \notin {"accepted", "missed"}
    /\ \A w \in Conn : wsess[w] = s => ~HandlerHolds(w)
    /\ Pooled(s) # {}
    /\ CloseConns(Pooled(s))
    /\ UNCHANGED <<control, workId, reqs, uvars>>

-----------------------------------------------------------------------------
(***************************************************************************)
(* dispatch_user_connection, in the accept task of a proxy.  Aborting that *)
(* task does not interrupt a dispatch: it has no await.                    *)
(***************************************************************************)

\* accept, and the atomic check-and-increment of active_connections.
Accept(u, s, n) ==
    /\ ustate[u] = "none"
    /\ n \in listening[s]
    /\ Cardinality(Active) < MaxActive
    /\ ustate' = [ustate EXCEPT ![u] = "accepted"]
    /\ usess' = [usess EXCEPT ![u] = s]
    /\ uname' = [uname EXCEPT ![u] = n]
    /\ UNCHANGED <<control, workId, reqs, uid, mate, asking, wvars>>

\* The limit is reached: the stream is dropped.
TurnAway(u, s, n) ==
    /\ ustate[u] = "none"
    /\ n \in listening[s]
    /\ Cardinality(Active) >= MaxActive
    /\ CloseUsers({u})
    /\ UNCHANGED <<control, workId, reqs, asking, wvars>>

\* pop_live_pooled throws away a connection its peer has closed.
PopDead(u, w) ==
    /\ ustate[u] = "accepted"
    /\ w \in Pool(usess[u], uname[u])
    /\ w \in dead
    /\ CloseConns({w})
    /\ UNCHANGED <<control, workId, reqs, uvars>>

\* Takes a pooled connection and leaves it in the pool.
PeekLive(u, w) ==
    /\ ustate[u] = "accepted"
    /\ w \in Pool(usess[u], uname[u])
    /\ w \notin dead
    /\ ustate' = [ustate EXCEPT ![u] = "bridged"]
    /\ mate' = [mate EXCEPT ![u] = w]
    /\ UNCHANGED <<control, workId, reqs, usess, uname, uid, asking, wvars>>

\* Takes a pooled connection without the probe.
PopUnprobed(u, w) ==
    /\ ustate[u] = "accepted"
    /\ w \in Pool(usess[u], uname[u])
    /\ ustate' = [ustate EXCEPT ![u] = "bridged"]
    /\ mate' = [mate EXCEPT ![u] = w]
    /\ wstate' = [wstate EXCEPT ![w] = "bridged"]
    /\ UNCHANGED <<control, workId, reqs, usess, uname, uid, asking, wname, wid, wtok, wsess,
                   dead>>

\* A pool hit: bridge, and ask for a replacement with try_send, which may find
\* the channel full.
PopLive(u, w) ==
    /\ ustate[u] = "accepted"
    /\ w \in Pool(usess[u], uname[u])
    /\ w \notin dead
    /\ ustate' = [ustate EXCEPT ![u] = "bridged"]
    /\ mate' = [mate EXCEPT ![u] = w]
    /\ wstate' = [wstate EXCEPT ![w] = "bridged"]
    /\ \/ /\ ChannelOpen(usess[u])
          /\ reqs' = [reqs EXCEPT ![usess[u]] = @ \cup {<<uname[u], PoolId>>}]
       \/ UNCHANGED reqs
    /\ UNCHANGED <<control, workId, usess, uname, uid, asking, wname, wid, wtok, wsess, dead>>

PoolMiss(u) ==
    /\ ustate[u] = "accepted"
    /\ Pool(usess[u], uname[u]) = {}
    /\ ustate' = [ustate EXCEPT ![u] = "missed"]
    /\ UNCHANGED <<control, workId, reqs, usess, uname, uid, mate, asking, wvars>>

\* next_work_id returns the value the counter had before.
PendingInsertEarly(u) ==
    /\ ustate[u] = "missed"
    /\ workId' = workId + 1
    /\ uid' = [uid EXCEPT ![u] = workId]
    /\ ustate' = [ustate EXCEPT ![u] = "waiting"]
    /\ asking' = [asking EXCEPT ![u] = TRUE]
    /\ UNCHANGED <<control, reqs, usess, uname, mate, wvars>>

\* next_work_id, the insertion in the pending table, and the request task.
PendingInsert(u) ==
    /\ ustate[u] = "missed"
    /\ workId' = workId + 1
    /\ uid' = [uid EXCEPT ![u] = workId + 1]
    /\ ustate' = [ustate EXCEPT ![u] = "waiting"]
    /\ asking' = [asking EXCEPT ![u] = TRUE]
    /\ UNCHANGED <<control, reqs, usess, uname, mate, wvars>>

\* One round of the request task: send_with_timeout puts ReqWorkConn in the
\* channel.  The user may have been served since the last look at the table.
SendReq(u) ==
    /\ asking[u]
    /\ ChannelOpen(usess[u])
    /\ reqs' = [reqs EXCEPT ![usess[u]] = @ \cup {<<uname[u], uid[u]>>}]
    /\ UNCHANGED <<control, workId, uvars, wvars>>

\* The channel is closed, or was full for CONTROL_SEND_TIMEOUT: the pending
\* entry is removed if it is still there.
SendFails(u) ==
    /\ asking[u]
    /\ asking' = [asking EXCEPT ![u] = FALSE]
    /\ CloseUsers({u} \cap Waiting)
    /\ UNCHANGED <<control, workId, reqs, wvars>>

\* The task returns: the entry is gone, or the deadline has come and the user
\* is left to the sweep.
RequestEnds(u) ==
    /\ asking[u]
    /\ asking' = [asking EXCEPT ![u] = FALSE]
    /\ UNCHANGED <<control, workId, reqs, ustate, usess, uname, uid, mate, wvars>>

\* Sweeps the entries of the registered session only.
SweepCurrent(S) ==
    /\ S # {}
    /\ S \subseteq {u \in Waiting : usess[u] = current}
    /\ CloseUsers(S)
    /\ UNCHANGED <<control, workId, reqs, asking, wvars>>

\* sweep_expired_pending: the entries in S have waited for
\* WORK_CONN_TIMEOUT_RFRPS.
Sweep(S) ==
    /\ S # {}
    /\ S \subseteq Waiting
    /\ CloseUsers(S)
    /\ UNCHANGED <<control, workId, reqs, asking, wvars>>

BridgeEnds(u) ==
    /\ ustate[u] = "bridged"
    /\ CloseUsers({u})
    /\ CloseConns({mate[u]})
    /\ UNCHANGED <<control, workId, reqs, asking>>

-----------------------------------------------------------------------------
(***************************************************************************)
(* Work connections: handle_work_conn in the client, then                  *)
(* handle_work_connection in the server.                                   *)
(***************************************************************************)

\* The client still reads control connection s.
ClientReads(s) == pc[s] # "idle" /\ (s < Sessions => pc[s + 1] = "idle")

\* A work-connection task of the client, with the token of the control
\* connection it was spawned for; it outlives that connection.
Dial(w, s, n, id) ==
    /\ wstate[w] = "none"
    /\ wstate' = [wstate EXCEPT ![w] = "dial"]
    /\ wname' = [wname EXCEPT ![w] = n]
    /\ wid' = [wid EXCEPT ![w] = id]
    /\ wtok' = [wtok EXCEPT ![w] = s]
    /\ UNCHANGED <<control, workId, uvars, wsess, dead>>

\* A ReqWorkConn arrives.  A repeated request gets a connection of its own.
ReceiveReq(w, s) ==
    /\ ClientReads(s)
    /\ \E m \in reqs[s] :
        /\ Dial(w, s, m[1], m[2])
        /\ reqs' = [reqs EXCEPT ![s] = @ \ {m}]

\* spawn_preheat, pool_size times, once the proxy is registered.
Preheat(w, s, n) ==
    /\ ClientReads(s)
    /\ n \in indexed[s]
    /\ Dial(w, s, n, PoolId)
    /\ UNCHANGED reqs

\* The server or the local service cannot be reached in time.
DialFails(w) ==
    /\ wstate[w] = "dial"
    /\ CloseConns({w})
    /\ UNCHANGED <<control, workId, reqs, uvars>>

\* The local service has answered: StartWorkConn.
StartWorkConn(w) ==
    /\ wstate[w] = "dial"
    /\ wstate' = [wstate EXCEPT ![w] = "sent"]
    /\ UNCHANGED <<control, workId, reqs, uvars, wname, wid, wtok, wsess, dead>>

\* The local service closes a pooled connection, which nobody uses, and the
\* client the work connection with it.
LocalCloses(w) ==
    /\ wstate[w] = "pooled"
    /\ w \notin dead
    /\ dead' = dead \cup {w}
    /\ UNCHANGED <<control, workId, reqs, uvars, wstate, wname, wid, wtok, wsess>>

\* Accepts any work connection of a registered proxy.
ResolveUnchecked(w) ==
    /\ wstate[w] = "sent"
    /\ current # None
    /\ \E s \in Session : wname[w] \in indexed[s]
    /\ wsess' = [wsess EXCEPT ![w] = current]
    /\ wstate' = [wstate EXCEPT ![w] = "auth"]
    /\ UNCHANGED <<control, workId, reqs, uvars, wname, wid, wtok, dead>>

\* session_for_proxy finds the run_id under the name, whichever session of the
\* client has entered it, and the registered session of that run_id with the
\* index still locked; the token is that session's.
Resolve(w) ==
    /\ wstate[w] = "sent"
    /\ current # None
    /\ \E s \in Session : wname[w] \in indexed[s]
    /\ wtok[w] = current
    /\ wsess' = [wsess EXCEPT ![w] = current]
    /\ wstate' = [wstate EXCEPT ![w] = "auth"]
    /\ UNCHANGED <<control, workId, reqs, uvars, wname, wid, wtok, dead>>

\* The name is not indexed, no session is registered, or the token is another's.
ResolveFails(w) ==
    /\ wstate[w] = "sent"
    /\ CloseConns({w})
    /\ UNCHANGED <<control, workId, reqs, uvars>>

\* Checks the limit as if the connection were already in the pool.
PoolPushLoose(w) ==
    /\ wstate[w] = "auth"
    /\ wid[w] = PoolId
    /\ Cardinality(Pool(wsess[w], wname[w])) <= MaxPool
    /\ wstate' = [wstate EXCEPT ![w] = "pooled"]
    /\ UNCHANGED <<control, workId, reqs, uvars, wname, wid, wtok, wsess, dead>>

\* work_id 0: into the pool of the resolved session, which cleanup may have
\* emptied already.
PoolPush(w) ==
    /\ wstate[w] = "auth"
    /\ wid[w] = PoolId
    /\ Cardinality(Pool(wsess[w], wname[w])) < MaxPool
    /\ wstate' = [wstate EXCEPT ![w] = "pooled"]
    /\ UNCHANGED <<control, workId, reqs, uvars, wname, wid, wtok, wsess, dead>>

PoolFull(w) ==
    /\ wstate[w] = "auth"
    /\ wid[w] = PoolId
    /\ Cardinality(Pool(wsess[w], wname[w])) >= MaxPool
    /\ CloseConns({w})
    /\ UNCHANGED <<control, workId, reqs, uvars>>

\* The pending user with the work_id of w, of the session and the proxy of w.
Claimable(w) ==
    {u \in Waiting : uid[u] = wid[w] /\ usess[u] = wsess[w] /\ uname[u] = wname[w]}

\* Any other work_id: take the user out of the pending table and bridge.
Claim(w) ==
    /\ wstate[w] = "auth"
    /\ wid[w] # PoolId
    /\ \E u \in Claimable(w) :
        /\ ustate' = [ustate EXCEPT ![u] = "bridged"]
        /\ mate' = [mate EXCEPT ![u] = w]
    /\ wstate' = [wstate EXCEPT ![w] = "bridged"]
    /\ UNCHANGED <<control, workId, reqs, usess, uname, uid, asking, wname, wid, wtok,
                   wsess, dead>>

ClaimFails(w) ==
    /\ wstate[w] = "auth"
    /\ wid[w] # PoolId
    /\ Claimable(w) = {}
    /\ CloseConns({w})
    /\ UNCHANGED <<control, workId, reqs, uvars>>

-----------------------------------------------------------------------------
\* Steps of cleanup, run by c's control task.
CleanStep(c) == CleanAbort(c) \/ CleanPools(c) \/ CleanPending(c)

ControlStep(s) ==
    \/ Login(s) \/ IndexProxy(s) \/ Unregister(s)
    \/ \E n \in Name : Listen(s, n)

\* Steps of a dispatch that has begun.
DispatchStep(u) ==
    \/ PoolMiss(u) \/ PendingInsert(u)
    \/ \E w \in Conn : PopDead(u, w) \/ PopLive(u, w)

RequestStep(u) == SendReq(u) \/ SendFails(u) \/ RequestEnds(u)

\* Steps of handle_work_connection.
HandlerStep(w) ==
    \/ Resolve(w) \/ ResolveFails(w) \/ PoolPush(w) \/ PoolFull(w)
    \/ Claim(w) \/ ClaimFails(w)

ClientStep(w) ==
    \/ DialFails(w) \/ StartWorkConn(w) \/ LocalCloses(w)
    \/ \E s \in Session : ReceiveReq(w, s) \/ \E n \in Name : Preheat(w, s, n)

Next ==
    \/ \E s \in Session : ControlStep(s) \/ CleanStep(s) \/ FreeSession(s)
    \/ \E u \in User : DispatchStep(u) \/ RequestStep(u) \/ BridgeEnds(u)
    \/ \E u \in User, s \in Session, n \in Name : Accept(u, s, n) \/ TurnAway(u, s, n)
    \/ \E w \in Conn : HandlerStep(w) \/ ClientStep(w)
    \/ \E S \in SUBSET User : Sweep(S)

Spec == Init /\ [][Next]_vars

(***************************************************************************)
(* The runtime runs every task that can run, the sweep ticks every second  *)
(* and finds a user that waits old enough in the end, and an unreferenced  *)
(* session is dropped.  Nothing is assumed of users, of the client, of the *)
(* network, of the request tasks or of bridges.                            *)
(***************************************************************************)
Fairness ==
    /\ \A s \in Session : WF_vars(CleanStep(s)) /\ WF_vars(FreeSession(s))
    /\ \A u \in User :
        /\ WF_vars(DispatchStep(u))
        /\ WF_vars(\E S \in SUBSET User : u \in S /\ Sweep(S))
    /\ \A w \in Conn : WF_vars(HandlerStep(w))

FairSpec == Spec /\ Fairness

-----------------------------------------------------------------------------
(***************************************************************************)
(* Properties.                                                             *)
(***************************************************************************)

TypeOK ==
    /\ current \in Session \cup {None}
    /\ workId \in Nat
    /\ pc \in [Session -> Label]
    /\ target \in [Session -> Session \cup {None}]
    /\ reg \in [Session -> Name \cup {None}]
    /\ listening \in [Session -> SUBSET Name]
    /\ indexed \in [Session -> SUBSET Name]
    /\ reqs \in [Session -> SUBSET (Name \X Nat)]
    /\ ustate \in [User -> UState]
    /\ usess \in [User -> Session \cup {None}]
    /\ uname \in [User -> Name \cup {None}]
    /\ uid \in [User -> Nat]
    /\ mate \in [User -> Conn \cup {None}]
    /\ asking \in [User -> BOOLEAN]
    /\ wstate \in [Conn -> WState]
    /\ wname \in [Conn -> Name \cup {None}]
    /\ wid \in [Conn -> Nat]
    /\ wtok \in [Conn -> Session \cup {None}]
    /\ wsess \in [Conn -> Session \cup {None}]
    /\ dead \in SUBSET {w \in Conn : wstate[w] = "pooled"}

\* A user is bridged only with a work connection that its own session's client
\* opened for its proxy, with the token of that very session although the
\* client may have reconnected since, and either for the pool or in answer to
\* the request for this user.
RightWorkConn ==
    \A u \in User : ustate[u] = "bridged" =>
        /\ wtok[mate[u]] = usess[u]
        /\ wname[mate[u]] = uname[u]
        /\ wid[mate[u]] \in {PoolId, uid[u]}

\* No work connection serves two users, and none that serves one can be taken
\* from a pool: repeated requests for one user, answered by several work
\* connections, and users competing for one pool never share.
ExclusiveUse ==
    /\ \A u, v \in User :
        ustate[u] = "bridged" /\ ustate[v] = "bridged" /\ mate[u] = mate[v] => u = v
    /\ \A u \in User : ustate[u] = "bridged" => wstate[mate[u]] = "bridged"

\* The pool of a proxy never exceeds its limit, and holds only connections
\* that carry the token of the pool's session and were opened for the pool.
PoolSound ==
    \A s \in Session, n \in Name :
        /\ Cardinality(Pool(s, n)) <= MaxPool
        /\ \A w \in Pool(s, n) : wtok[w] = s /\ wid[w] = PoolId

\* The pending table never overwrites an entry: no two users wait under one
\* work_id, and none under the id that stands for the pool.
UniqueIds ==
    /\ \A u, v \in Waiting : uid[u] = uid[v] => u = v
    /\ \A u \in Waiting : uid[u] # PoolId

(***************************************************************************)
(* The strengthening that makes the invariants above inductive.            *)
(***************************************************************************)

\* A task that cleans up knows its target, one that registers its proxy.
LocalsInv ==
    \A s \in Session :
        /\ pc[s] \in {"abort", "pools", "pending"} => target[s] \in Session
        /\ pc[s] = "index" => reg[s] \in Name

\* A user that was let in, and a request task, belong to a proxy of a session.
UsersInv ==
    \A u \in User :
        /\ u \in Active \/ asking[u] => usess[u] \in Session /\ uname[u] \in Name
        /\ ustate[u] = "bridged" => mate[u] \in Conn
        /\ ustate[u] # "bridged" => mate[u] = None

\* Ids come from the counter, and each goes to one user.
IdsInv ==
    /\ \A u \in User : uid[u] <= workId
    /\ \A u \in Waiting : uid[u] # PoolId
    /\ \A u, v \in User : uid[u] = uid[v] /\ uid[u] # PoolId => u = v

\* From the moment its token was compared, a work connection is of the session
\* that issued the token.
ConnsInv ==
    \A w \in Conn :
        /\ wstate[w] \notin {"none", "closed"} => wtok[w] \in Session /\ wname[w] \in Name
        /\ wstate[w] \in {"auth", "pooled", "bridged"} => wsess[w] = wtok[w]
        /\ wstate[w] = "pooled" => wid[w] = PoolId

PoolBound ==
    \A s \in Session, n \in Name : Cardinality(Pool(s, n)) <= MaxPool

IndInv ==
    /\ TypeOK
    /\ LocalsInv
    /\ UsersInv
    /\ IdsInv
    /\ ConnsInv
    /\ RightWorkConn
    /\ ExclusiveUse

\* Every user connection that is let in is bridged or closed in the end, also
\* when its session was cleaned up between the pool lookup and the insertion
\* in the pending table, when no request reached the client, and when no work
\* connection came.
UserSettled ==
    \A u \in User : ustate[u] = "accepted" ~> ustate[u] \in {"bridged", "closed"}

\* A work connection that entered the pool of a session after that session's
\* cleanup had emptied it is closed in the end, unless a bridge of a work
\* connection that came on demand goes on and keeps the session (work.rs:48, 118).
PoolReleased ==
    \A w \in Conn, s \in Session :
        wstate[w] = "pooled" /\ wsess[w] = s /\ pc[s] = "done"
            ~> wstate[w] # "pooled" \/ \E v \in Conn : wsess[v] = s /\ OnDemandBridge(v)

(***************************************************************************)
(* The server implements Rendezvous.                                       *)
(***************************************************************************)
UserView(st) == CASE st = "none" -> "new"
                  [] st \in {"accepted", "missed", "waiting"} -> "waiting"
                  [] st = "bridged" -> "paired"
                  [] OTHER -> "gone"

ConnView(st) == CASE st = "none" -> "new"
                  [] st \in {"dial", "sent", "auth", "pooled"} -> "waiting"
                  [] st = "bridged" -> "paired"
                  [] OTHER -> "gone"

Wants ==
    [u \in User |-> IF ustate[u] \in {"none", "closed"} THEN None ELSE <<usess[u], uname[u]>>]

Offers ==
    [w \in Conn |-> IF wstate[w] \in {"none", "closed"} THEN None ELSE <<wtok[w], wname[w]>>]

R == INSTANCE Rendezvous WITH
        Service <- Session \X Name,
        wants   <- Wants,
        offers  <- Offers,
        user    <- [u \in User |-> UserView(ustate[u])],
        conn    <- [w \in Conn |-> ConnView(wstate[w])],
        partner <- mate

\* The steps of the tasks, tables and messages above do nothing to user and
\* work connections that the abstract rendezvous does not allow.
Implements == R!RSpec
=============================================================================
