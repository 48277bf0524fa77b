--------------------------- MODULE SessionRegistry ---------------------------
(***************************************************************************)
(* The session registry of rfrps: control connections log in, replace an   *)
(* older session of the same run_id, register proxies, and are torn down.  *)
(* Every control connection is one task of a multi-threaded tokio runtime, *)
(* so the tables of ServerState are shared by tasks that interleave        *)
(* between any two lock scopes.  An action below is one lock scope (or one *)
(* await) of handle_control_login, register_proxy or cleanup.              *)
(*                                                                         *)
(* A session s in Session is one control connection; RunOf[s] is the       *)
(* run_id its client presents, so two members of Session with the same     *)
(* RunOf are a connection and its reconnect.  The pools, pending table and *)
(* per-proxy statistics that cleanup also empties are in module WorkConn.  *)
(***************************************************************************)
EXTENDS Naturals, FiniteSets

CONSTANTS
    Session,            \* control connections
    RunId,              \* persisted client identities
    Ip,                 \* peer addresses
    Name,               \* proxy names
    Port,               \* public ports; TCP and UDP ports are different members
    Domain,             \* lower-cased virtual-host names
    RunOf,              \* [Session -> RunId]
    IpOf,               \* [Session -> Ip]
    Offers,             \* [RunId -> SUBSET Name]: the proxies in a client's config
    KindOf,             \* [Name -> Kind]
    PortOf,             \* [RunId -> [Name -> Port \cup {None}]]: the requested remote_port
    DomainsOf,          \* [RunId -> [Name -> SUBSET Domain]]: the custom_domains
    MaxSessions,        \* MAX_SESSIONS
    MaxSessionsPerIp,   \* MAX_SESSIONS_PER_IP
    MaxProxies,         \* MAX_PROXIES_PER_SESSION
    None

Kind == {"tcp", "udp", "vhost"}

ASSUME ConstantsAssumption ==
    /\ RunOf \in [Session -> RunId]
    /\ IpOf \in [Session -> Ip]
    /\ Offers \in [RunId -> SUBSET Name]
    /\ KindOf \in [Name -> Kind]
    /\ PortOf \in [RunId -> [Name -> Port \cup {None}]]
    /\ DomainsOf \in [RunId -> [Name -> SUBSET Domain]]
    /\ MaxSessions \in Nat
    /\ MaxSessionsPerIp \in Nat
    /\ MaxProxies \in Nat

\* A port-less or session-less slot can be told from every real value.
ASSUME NoneAssumption ==
    /\ None \notin Session
    /\ None \notin RunId
    /\ None \notin Name
    /\ None \notin Port
    /\ None \notin RunId \X Name

VARIABLES
    \* ServerState
    sessions,       \* run_id -> registered session
    proxyIndex,     \* proxy_name -> run_id
    domainIndex,    \* domain -> <<run_id, proxy_name>>
    udp,            \* proxy_name -> session whose UdpProxy the map holds
    shutdown,       \* the CancellationToken
    \* Session
    proxies,        \* session -> names with a ProxyEntry
    proxyDomains,   \* session -> keys of proxy_domains
    \* sockets of the proxy listeners
    listeners,      \* <<session, name>> whose socket is bound
    stopped,        \* those whose accept task was aborted or has returned
    \* one control task per session
    pc,
    wake,           \* a notify_waiters reached the parked select of the main loop
    reg,            \* the proxy register_proxy is working on
    todo,           \* its domains still to look up or to index
    owner,          \* the run_id session_for_domain read from the index
    target,         \* the session this task's cleanup works on
    names, doms,    \* what that cleanup has collected
    \* history
    replaced        \* sessions a later login has removed from the registry

tables  == <<sessions, proxyIndex, domainIndex, udp>>
owned   == <<proxies, proxyDomains>>
sockets == <<listeners, stopped>>
regVars == <<reg, todo, owner>>
clean   == <<target, names, doms>>
events  == <<wake, shutdown>>

vars == <<tables, owned, sockets, regVars, clean, events, pc, replaced>>

Label ==
    {"idle", "limit", "insert", "resp", "loop", "reply", "unregister", "done",
     "domain", "owner", "bind", "udp", "mapDomains", "indexDomains", "entry", "index",
     "notify", "collect", "unindex", "undomain", "drain", "rest"}

\* Labels of a task inside register_proxy after its first checks.
Registering ==
    {"domain", "owner", "bind", "udp", "mapDomains", "indexDomains", "entry", "index"}

\* Labels of a task inside cleanup(target).
Cleaning == {"notify", "collect", "unindex", "undomain", "drain", "rest"}

\* Labels of a session that has been told it is logged in and still serves its client.
Established == {"loop", "reply"} \cup Registering

Goto(s, label) == pc' = [pc EXCEPT ![s] = label]

Init ==
    /\ sessions = [r \in RunId |-> None]
    /\ proxyIndex = [n \in Name |-> None]
    /\ domainIndex = [d \in Domain |-> None]
    /\ udp = [n \in Name |-> None]
    /\ shutdown = FALSE
    /\ proxies = [s \in Session |-> {}]
    /\ proxyDomains = [s \in Session |-> {}]
    /\ listeners = {}
    /\ stopped = {}
    /\ pc = [s \in Session |-> "idle"]
    /\ wake = [s \in Session |-> FALSE]
    /\ reg = [s \in Session |-> None]
    /\ todo = [s \in Session |-> {}]
    /\ owner = [s \in Session |-> None]
    /\ target = [s \in Session |-> None]
    /\ names = [s \in Session |-> {}]
    /\ doms = [s \in Session |-> {}]
    /\ replaced = {}

-----------------------------------------------------------------------------
(***************************************************************************)
(* Login.                                                                  *)
(***************************************************************************)

\* Rate limit, decoding, version, field and token checks all passed.  A
\* connection that was accepted before the shutdown may log in after it.
Login(s) ==
    /\ pc[s] = "idle"
    /\ Goto(s, "limit")
    /\ UNCHANGED <<tables, owned, sockets, regVars, clean, events, replaced>>

\* One of those checks failed: reject_login, and no session was created.
LoginRejected(s) ==
    /\ pc[s] = "idle"
    /\ Goto(s, "done")
    /\ UNCHANGED <<tables, owned, sockets, regVars, clean, events, replaced>>

Registered == {r \in RunId : sessions[r] # None}

OverLimit(s) ==
    /\ sessions[RunOf[s]] = None
    /\ \/ Cardinality(Registered) >= MaxSessions
       \/ Cardinality({r \in Registered : IpOf[sessions[r]] = IpOf[s]}) >= MaxSessionsPerIp

\* First scope of the sessions lock: the limits.
CheckLimit(s) ==
    /\ pc[s] = "limit"
    /\ Goto(s, IF OverLimit(s) THEN "done" ELSE "insert")
    /\ UNCHANGED <<tables, owned, sockets, regVars, clean, events, replaced>>

\* Second scope of the sessions lock: remove the old session, insert the new
\* one.  An old session is then cleaned up outside the lock.
InsertSession(s) ==
    LET old == sessions[RunOf[s]] IN
    /\ pc[s] = "insert"
    /\ sessions' = [sessions EXCEPT ![RunOf[s]] = s]
    /\ target' = [target EXCEPT ![s] = old]
    /\ replaced' = IF old = None THEN replaced ELSE replaced \cup {old}
    /\ Goto(s, IF old = None THEN "resp" ELSE "notify")
    /\ UNCHANGED <<proxyIndex, domainIndex, udp, owned, sockets, regVars, names, doms, events>>

\* A failed send that returns at once, the way `?` would.
LoginRespReturns(s) ==
    /\ pc[s] = "resp"
    /\ \/ Goto(s, "loop")
       \/ Goto(s, "done")
    /\ UNCHANGED <<tables, owned, sockets, regVars, clean, events, replaced>>

\* send_with_timeout of LoginResp.  It fails when the writer task is gone or
\* the channel stays full for CONTROL_SEND_TIMEOUT.
LoginResp(s) ==
    /\ pc[s] = "resp"
    /\ \/ Goto(s, "loop")
       \/ Goto(s, "unregister")
    /\ UNCHANGED <<tables, owned, sockets, regVars, clean, events, replaced>>

-----------------------------------------------------------------------------
(***************************************************************************)
(* The main select loop and the teardown after it.                         *)
(***************************************************************************)

\* A frame that registers nothing was ready as well and select! took it: the
\* Notified future that notify_waiters had woken is dropped with its wake-up.
ReceiveOther(s) ==
    /\ pc[s] = "loop"
    /\ wake[s]
    /\ wake' = [wake EXCEPT ![s] = FALSE]
    /\ UNCHANGED <<tables, owned, sockets, regVars, clean, shutdown, pc, replaced>>

\* What session s asks for under the name n.
PublicPort(s, n) == PortOf[RunOf[s]][n]
Domains(s, n) == DomainsOf[RunOf[s]][n]

Refused(s, n) ==
    \/ Cardinality(proxies[s]) >= MaxProxies
    \/ n \in proxies[s]
    \/ KindOf[n] = "vhost" /\ Domains(s, n) = {}

\* A NewProxy frame, up to the last check register_proxy makes on its own
\* session.  Leaving the select drops a wake-up, as in ReceiveOther.
ReceiveNewProxy(s, n) ==
    /\ pc[s] = "loop"
    /\ n \in Offers[RunOf[s]]
    /\ wake' = [wake EXCEPT ![s] = FALSE]
    /\ IF Refused(s, n)
       THEN Goto(s, "reply") /\ UNCHANGED <<reg, todo>>
       ELSE /\ reg' = [reg EXCEPT ![s] = n]
            /\ todo' = [todo EXCEPT ![s] = Domains(s, n)]
            /\ Goto(s, IF Domains(s, n) = {} THEN "bind" ELSE "domain")
    /\ UNCHANGED <<tables, owned, sockets, owner, clean, shutdown, replaced>>

\* NewProxyResp, accepted or not; a failed send ends the session.
Reply(s) ==
    /\ pc[s] = "reply"
    /\ reg' = [reg EXCEPT ![s] = None]
    /\ todo' = [todo EXCEPT ![s] = {}]
    /\ \/ Goto(s, "loop")
       \/ Goto(s, "unregister")
    /\ UNCHANGED <<tables, owned, sockets, owner, clean, events, replaced>>

\* The loop ends on what its peer does (EOF, a Close frame, a malformed frame)
\* or on the permit the heartbeat watchdog leaves with notify_one.  The
\* heartbeat task is aborted and the writer given a second to finish.
ConnectionEnds(s) ==
    /\ pc[s] = "loop"
    /\ wake' = [wake EXCEPT ![s] = FALSE]
    /\ Goto(s, "unregister")
    /\ UNCHANGED <<tables, owned, sockets, regVars, clean, shutdown, replaced>>

\* A loop that does not watch the shutdown token.
LeaveLoopOnStop(s) ==
    /\ pc[s] = "loop"
    /\ wake[s]
    /\ wake' = [wake EXCEPT ![s] = FALSE]
    /\ Goto(s, "unregister")
    /\ UNCHANGED <<tables, owned, sockets, regVars, clean, shutdown, replaced>>

\* The loop ends on a stop notification or on shutdown.
LeaveLoop(s) ==
    /\ pc[s] = "loop"
    /\ wake[s] \/ shutdown
    /\ wake' = [wake EXCEPT ![s] = FALSE]
    /\ Goto(s, "unregister")
    /\ UNCHANGED <<tables, owned, sockets, regVars, clean, shutdown, replaced>>

\* Removes whatever session the run_id has.
UnregisterAny(s) ==
    /\ pc[s] = "unregister"
    /\ sessions' = [sessions EXCEPT ![RunOf[s]] = None]
    /\ target' = [target EXCEPT ![s] = s]
    /\ Goto(s, "notify")
    /\ UNCHANGED <<proxyIndex, domainIndex, udp, owned, sockets, regVars, names, doms,
                   events, replaced>>

\* Remove the registry entry, only if it is still this session's.
UnregisterSession(s) ==
    /\ pc[s] = "unregister"
    /\ sessions' = [sessions EXCEPT ![RunOf[s]] = IF @ = s THEN None ELSE @]
    /\ target' = [target EXCEPT ![s] = s]
    /\ Goto(s, "notify")
    /\ UNCHANGED <<proxyIndex, domainIndex, udp, owned, sockets, regVars, names, doms,
                   events, replaced>>

-----------------------------------------------------------------------------
(***************************************************************************)
(* register_proxy.                                                         *)
(***************************************************************************)

\* session_for_domain, first scope: the index.
LookupDomain(s) ==
    /\ pc[s] = "domain"
    /\ \E d \in todo[s] :
        /\ todo' = [todo EXCEPT ![s] = @ \ {d}]
        /\ IF domainIndex[d] = None
           THEN /\ Goto(s, IF todo[s] = {d} THEN "bind" ELSE "domain")
                /\ UNCHANGED owner
           ELSE /\ owner' = [owner EXCEPT ![s] = domainIndex[d][1]]
                /\ Goto(s, "owner")
    /\ UNCHANGED <<tables, owned, sockets, reg, clean, events, replaced>>

\* session_for_domain, second scope: the sessions table.  A live owner, even
\* one of the same run_id, is a DomainConflict.
LookupOwner(s) ==
    /\ pc[s] = "owner"
    /\ owner' = [owner EXCEPT ![s] = None]
    /\ Goto(s, CASE sessions[owner[s]] # None -> "reply"
                 [] sessions[owner[s]] = None /\ todo[s] = {} -> "bind"
                 [] OTHER -> "domain")
    /\ UNCHANGED <<tables, owned, sockets, reg, todo, clean, events, replaced>>

PortFree(p) == \A l \in listeners : PublicPort(l[1], l[2]) # p

\* Bind the public port and spawn the accept task.  A vhost proxy binds none.
Bind(s) ==
    /\ pc[s] = "bind"
    /\ \/ /\ KindOf[reg[s]] = "vhost"
          /\ Goto(s, "mapDomains")
          /\ UNCHANGED listeners
       \/ /\ KindOf[reg[s]] # "vhost"
          /\ PublicPort(s, reg[s]) # None
          /\ PortFree(PublicPort(s, reg[s]))
          /\ listeners' = listeners \cup {<<s, reg[s]>>}
          /\ Goto(s, CASE KindOf[reg[s]] = "udp" -> "udp"
                       [] KindOf[reg[s]] = "tcp" /\ Domains(s, reg[s]) = {} -> "entry"
                       [] OTHER -> "mapDomains")
    /\ UNCHANGED <<tables, owned, stopped, regVars, clean, events, replaced>>

\* No remote_port, a port outside allow_ports, an occupied port or any other
\* error of bind.
BindFails(s) ==
    /\ pc[s] = "bind"
    /\ KindOf[reg[s]] # "vhost"
    /\ Goto(s, "reply")
    /\ UNCHANGED <<tables, owned, sockets, regVars, clean, events, replaced>>

\* register_udp_proxy enters the UdpProxy in the shared map, by name.
RegisterUdp(s) ==
    /\ pc[s] = "udp"
    /\ udp' = [udp EXCEPT ![reg[s]] = s]
    /\ Goto(s, IF Domains(s, reg[s]) = {} THEN "entry" ELSE "mapDomains")
    /\ UNCHANGED <<sessions, proxyIndex, domainIndex, owned, sockets, regVars, clean,
                   events, replaced>>

\* The session's own domain map.
MapDomains(s) ==
    /\ pc[s] = "mapDomains"
    /\ proxyDomains' = [proxyDomains EXCEPT ![s] = @ \cup Domains(s, reg[s])]
    /\ todo' = [todo EXCEPT ![s] = Domains(s, reg[s])]
    /\ Goto(s, "indexDomains")
    /\ UNCHANGED <<tables, proxies, sockets, reg, owner, clean, events, replaced>>

\* Passes run_id and proxy_name, two strings, in the wrong order.
IndexDomainSwapped(s) ==
    /\ pc[s] = "indexDomains"
    /\ \E d \in todo[s] :
        /\ domainIndex' = [domainIndex EXCEPT ![d] = <<reg[s], RunOf[s]>>]
        /\ todo' = [todo EXCEPT ![s] = @ \ {d}]
        /\ Goto(s, IF todo[s] = {d} THEN "entry" ELSE "indexDomains")
    /\ UNCHANGED <<sessions, proxyIndex, udp, owned, sockets, reg, owner, clean, events,
                   replaced>>

\* index_domain, one lock scope per domain.
IndexDomain(s) ==
    /\ pc[s] = "indexDomains"
    /\ \E d \in todo[s] :
        /\ domainIndex' = [domainIndex EXCEPT ![d] = <<RunOf[s], reg[s]>>]
        /\ todo' = [todo EXCEPT ![s] = @ \ {d}]
        /\ Goto(s, IF todo[s] = {d} THEN "entry" ELSE "indexDomains")
    /\ UNCHANGED <<sessions, proxyIndex, udp, owned, sockets, reg, owner, clean, events,
                   replaced>>

\* The ProxyEntry that owns the accept task.
InsertEntry(s) ==
    /\ pc[s] = "entry"
    /\ proxies' = [proxies EXCEPT ![s] = @ \cup {reg[s]}]
    /\ Goto(s, "index")
    /\ UNCHANGED <<tables, proxyDomains, sockets, regVars, clean, events, replaced>>

\* index_proxy overwrites whatever run_id the name had.
IndexProxy(s) ==
    /\ pc[s] = "index"
    /\ proxyIndex' = [proxyIndex EXCEPT ![reg[s]] = RunOf[s]]
    /\ Goto(s, "reply")
    /\ UNCHANGED <<sessions, domainIndex, udp, owned, sockets, regVars, clean, events,
                   replaced>>

-----------------------------------------------------------------------------
(***************************************************************************)
(* cleanup(target[c]), run by c's task: for the session c has replaced, or *)
(* for c itself at the end.  Both may clean the same session at once.      *)
(***************************************************************************)

\* stop.notify_waiters reaches only a task that is parked in its select.
CleanNotify(c) ==
    /\ pc[c] = "notify"
    /\ wake' = [wake EXCEPT ![target[c]] = @ \/ pc[target[c]] = "loop"]
    /\ Goto(c, "collect")
    /\ UNCHANGED <<tables, owned, sockets, regVars, clean, shutdown, replaced>>

CleanCollect(c) ==
    /\ pc[c] = "collect"
    /\ names' = [names EXCEPT ![c] = proxies[target[c]]]
    /\ doms' = [doms EXCEPT ![c] = proxyDomains[target[c]]]
    /\ Goto(c, "unindex")
    /\ UNCHANGED <<tables, owned, sockets, regVars, target, events, replaced>>

\* unindex_proxies removes by name, whatever run_id the entry holds.
CleanUnindexProxies(c) ==
    /\ pc[c] = "unindex"
    /\ proxyIndex' = [n \in Name |-> IF n \in names[c] THEN None ELSE proxyIndex[n]]
    /\ Goto(c, "undomain")
    /\ UNCHANGED <<sessions, domainIndex, udp, owned, sockets, regVars, clean, events,
                   replaced>>

CleanUnindexDomains(c) ==
    /\ pc[c] = "undomain"
    /\ domainIndex' = [d \in Domain |-> IF d \in doms[c] THEN None ELSE domainIndex[d]]
    /\ Goto(c, "drain")
    /\ UNCHANGED <<sessions, proxyIndex, udp, owned, sockets, regVars, clean, events,
                   replaced>>

\* Aborts only what was collected, not what the table holds now.
DrainCollected(c) ==
    /\ pc[c] = "drain"
    /\ proxies' = [proxies EXCEPT ![target[c]] = {}]
    /\ stopped' = stopped \cup {l \in listeners : l[1] = target[c] /\ l[2] \in names[c]}
    /\ Goto(c, "rest")
    /\ UNCHANGED <<tables, proxyDomains, listeners, regVars, clean, events, replaced>>

\* Drops the join handles, which detaches the accept tasks.
DrainDetaching(c) ==
    /\ pc[c] = "drain"
    /\ proxies' = [proxies EXCEPT ![target[c]] = {}]
    /\ Goto(c, "rest")
    /\ UNCHANGED <<tables, proxyDomains, sockets, regVars, clean, events, replaced>>

\* Drain the entries that are there now, and abort their accept tasks.
CleanDrain(c) ==
    /\ pc[c] = "drain"
    /\ proxies' = [proxies EXCEPT ![target[c]] = {}]
    /\ stopped' = stopped \cup
            {l \in listeners : l[1] = target[c] /\ l[2] \in proxies[target[c]]}
    /\ Goto(c, "rest")
    /\ UNCHANGED <<tables, proxyDomains, listeners, regVars, clean, events, replaced>>

\* Cancels every UDP proxy of the server.
CleanRestAllUdp(c) ==
    /\ pc[c] = "rest"
    /\ udp' = [n \in Name |-> None]
    /\ proxyDomains' = [proxyDomains EXCEPT ![target[c]] = {}]
    /\ target' = [target EXCEPT ![c] = None]
    /\ names' = [names EXCEPT ![c] = {}]
    /\ doms' = [doms EXCEPT ![c] = {}]
    /\ Goto(c, IF target[c] = c THEN "done" ELSE "resp")
    /\ UNCHANGED <<sessions, proxyIndex, domainIndex, proxies, sockets, regVars, events,
                   replaced>>

\* Under the udp lock, which is held to the end of the function: remove and
\* cancel the collected UDP proxies, clear the domain map.
CleanRest(c) ==
    /\ pc[c] = "rest"
    /\ udp' = [n \in Name |->
                IF n \in names[c] /\ KindOf[n] = "udp" THEN None ELSE udp[n]]
    /\ proxyDomains' = [proxyDomains EXCEPT ![target[c]] = {}]
    /\ target' = [target EXCEPT ![c] = None]
    /\ names' = [names EXCEPT ![c] = {}]
    /\ doms' = [doms EXCEPT ![c] = {}]
    /\ Goto(c, IF target[c] = c THEN "done" ELSE "resp")
    /\ UNCHANGED <<sessions, proxyIndex, domainIndex, proxies, sockets, regVars, events,
                   replaced>>

-----------------------------------------------------------------------------
(***************************************************************************)
(* The listener tasks and the process.                                     *)
(***************************************************************************)

\* The runtime drops an aborted or finished accept task, and with it the
\* socket.  A UDP socket is shared with the UdpProxy in the map.
ReleaseSocket(s, n) ==
    /\ <<s, n>> \in stopped
    /\ KindOf[n] = "udp" => udp[n] # s
    /\ listeners' = listeners \ {<<s, n>>}
    /\ stopped' = stopped \ {<<s, n>>}
    /\ UNCHANGED <<tables, owned, regVars, clean, events, pc, replaced>>

\* proxy_accept_loop and run_udp_listener return on shutdown.
ListenerShutdown(s, n) ==
    /\ shutdown
    /\ <<s, n>> \in listeners \ stopped
    /\ stopped' = stopped \cup {<<s, n>>}
    /\ UNCHANGED <<tables, owned, listeners, regVars, clean, events, pc, replaced>>

Shutdown ==
    /\ ~shutdown
    /\ shutdown' = TRUE
    /\ UNCHANGED <<tables, owned, sockets, regVars, clean, wake, pc, replaced>>

\* Steps of s's control task that need nothing from outside.
TaskStep(s) ==
    \/ CheckLimit(s) \/ InsertSession(s) \/ LoginResp(s)
    \/ Reply(s) \/ UnregisterSession(s)
    \/ LookupDomain(s) \/ LookupOwner(s) \/ Bind(s) \/ BindFails(s) \/ RegisterUdp(s)
    \/ MapDomains(s) \/ IndexDomain(s) \/ InsertEntry(s) \/ IndexProxy(s)
    \/ CleanNotify(s) \/ CleanCollect(s) \/ CleanUnindexProxies(s)
    \/ CleanUnindexDomains(s) \/ CleanDrain(s) \/ CleanRest(s)

PeerStep(s) ==
    \/ Login(s) \/ LoginRejected(s) \/ ConnectionEnds(s) \/ ReceiveOther(s)
    \/ \E n \in Name : ReceiveNewProxy(s, n)

ListenerStep(s, n) == ReleaseSocket(s, n) \/ ListenerShutdown(s, n)

Next ==
    \/ \E s \in Session : TaskStep(s) \/ PeerStep(s) \/ LeaveLoop(s)
    \/ \E s \in Session, n \in Name : ListenerStep(s, n)
    \/ Shutdown

Spec == Init /\ [][Next]_vars

(***************************************************************************)
(* The runtime polls every runnable task and drops every aborted one.      *)
(* select! polls its branches in random order, so a branch that is ready   *)
(* again and again is taken.  Peers owe nothing: a replaced connection     *)
(* that has missed its stop notification may live on (ControlChannel).     *)
(***************************************************************************)
Fairness ==
    /\ \A s \in Session :
        /\ WF_vars(TaskStep(s))
        /\ SF_vars(LeaveLoop(s))
    /\ \A s \in Session, n \in Name : WF_vars(ListenerStep(s, n))

FairSpec == Spec /\ Fairness

-----------------------------------------------------------------------------
(***************************************************************************)
(* Properties.                                                             *)
(***************************************************************************)

TypeOK ==
    /\ sessions \in [RunId -> Session \cup {None}]
    /\ proxyIndex \in [Name -> RunId \cup {None}]
    /\ domainIndex \in [Domain -> (RunId \X Name) \cup {None}]
    /\ udp \in [Name -> Session \cup {None}]
    /\ shutdown \in BOOLEAN
    /\ proxies \in [Session -> SUBSET Name]
    /\ proxyDomains \in [Session -> SUBSET Domain]
    /\ listeners \in SUBSET (Session \X Name)
    /\ stopped \in SUBSET listeners
    /\ pc \in [Session -> Label]
    /\ wake \in [Session -> BOOLEAN]
    /\ reg \in [Session -> Name \cup {None}]
    /\ todo \in [Session -> SUBSET Domain]
    /\ owner \in [Session -> RunId \cup {None}]
    /\ target \in [Session -> Session \cup {None}]
    /\ names \in [Session -> SUBSET Name]
    /\ doms \in [Session -> SUBSET Domain]
    /\ replaced \in SUBSET Session

\* No ghost session: when the control task of a session has returned, the
\* registry does not name it, it has no proxy entry and no domain, and every
\* accept task it spawned has been aborted, whichever of the cleanups that ran
\* for it (its own, its replacement's) overtook the other.
NoGhost ==
    \A s \in Session : pc[s] = "done" =>
        /\ \A r \in RunId : sessions[r] # s
        /\ proxies[s] = {}
        /\ proxyDomains[s] = {}
        /\ \A n \in Name : <<s, n>> \in listeners => <<s, n>> \in stopped

\* A logged-in session that no later login has replaced is the registered one:
\* the teardown of an older connection never unregisters its successor.
LiveSessionRegistered ==
    \A s \in Session :
        pc[s] \in Established /\ s \notin replaced => sessions[RunOf[s]] = s

\* No accept task is orphaned: a bound, running listener always has an owner
\* that will abort it, a ProxyEntry of its session or the registration that
\* is about to make one.
ListenerOwned ==
    \A s \in Session, n \in Name :
        <<s, n>> \in listeners \ stopped =>
            \/ n \in proxies[s]
            \/ reg[s] = n /\ pc[s] \in {"udp", "mapDomains", "indexDomains", "entry"}

(***************************************************************************)
(* The strengthening that makes the three invariants above inductive.      *)
(***************************************************************************)

\* Labels before the session enters the registry.
Before == {"idle", "limit", "insert"}

\* The task is inside the final cleanup, of its own session.
CleansItself(s) == pc[s] \in Cleaning /\ target[s] = s

LocalsInv ==
    \A s \in Session :
        /\ pc[s] \in Registering => reg[s] \in Name
        /\ pc[s] \in Cleaning => target[s] \in Session

\* A session holds nothing before it logs in and after its last drain.
EmptyInv ==
    \A s \in Session :
        /\ pc[s] \in Before \cup {"done"} => proxies[s] = {} /\ proxyDomains[s] = {}
        /\ pc[s] = "rest" /\ target[s] = s => proxies[s] = {}

\* The registry names a session from its insertion to its unregistration, unless
\* a login of the same run_id takes the entry over.
RegistryInv ==
    /\ \A r \in RunId, s \in Session : sessions[r] = s => r = RunOf[s]
    /\ \A s \in Session : pc[s] \in Before => s \notin replaced
    /\ \A s \in Session :
        pc[s] \in Before \cup {"done"} \/ CleansItself(s) => sessions[RunOf[s]] # s
    /\ \A s \in Session :
        pc[s] \notin Before \cup {"done"} /\ ~CleansItself(s) /\ s \notin replaced
            => sessions[RunOf[s]] = s

IndInv == TypeOK /\ LocalsInv /\ EmptyInv /\ RegistryInv /\ ListenerOwned

\* The session s is idle in its loop, registered, and serves proxy n.
Serves(s, n) == n \in proxies[s] /\ pc[s] = "loop" /\ sessions[RunOf[s]] = s

\* Work connections and virtual hosts find the proxy.
Routed(s, n) ==
    /\ proxyIndex[n] = RunOf[s]
    /\ \A d \in Domains(s, n) : domainIndex[d] = <<RunOf[s], n>>
    /\ KindOf[n] = "udp" => udp[n] = s

\* s is its client's first connection, and no other client's configuration
\* uses the name n or one of its domains.
Unshared(s, n) ==
    /\ \A t \in Session \ {s} : RunOf[t] = RunOf[s] => pc[t] = "idle"
    /\ \A r \in RunId \ {RunOf[s]} : \A m \in Offers[r] :
            m # n /\ DomainsOf[r][m] \cap Domains(s, n) = {}

\* Isolation: whatever clients with other proxies do, log in, register,
\* disconnect or reconnect, a client on its first connection keeps the routing
\* of every proxy it serves.
RoutedWhenUnshared ==
    \A s \in Session, n \in Name : Serves(s, n) /\ Unshared(s, n) => Routed(s, n)

\* What the comments on unindex_proxies and unindex_domains say: the cleanup of
\* an old session has no effect on what its successor has registered.
Recovered ==
    \A s \in Session, n \in Name :
        ~shutdown /\ Serves(s, n) /\ KindOf[n] = "tcp" => proxyIndex[n] = RunOf[s]

\* DESIGN.md 6.6: a proxy name is used by at most one session.
NamesUnique ==
    \A s, t \in Session : s # t => proxies[s] \cap proxies[t] = {}

\* DESIGN.md 6.6 and the comment on the check in register_proxy: a domain is
\* served by at most one session.
DomainsUnique ==
    \A s, t \in Session : s # t /\ pc[s] = "loop" /\ pc[t] = "loop" =>
        proxyDomains[s] \cap proxyDomains[t] = {}

\* control.rs and constants.rs: the session limit bounds the registry.
SessionLimit == Cardinality(Registered) <= MaxSessions

\* udp.rs: cleaning a session up releases its UDP sockets.  Once the tasks of
\* all sessions have returned, nothing is left to remove a UdpProxy.
UdpReleased ==
    (\A s \in Session : pc[s] \in {"idle", "done"}) => \A n \in Name : udp[n] = None

\* A cleanup frees the TCP ports of the session it cleans, so that its client can
\* register them again: also when a second cleanup of the session runs beside it,
\* and when the session's own task goes on because it missed the notification.
CleanupFreesPorts ==
    \A c, s \in Session, n \in Name :
        (pc[c] = "notify" /\ target[c] = s /\ n \in proxies[s] /\ KindOf[n] = "tcp")
            ~> <<s, n>> \notin listeners

\* After shutdown every control task returns, also one that logs in only then.
ShutdownDrains ==
    \A s \in Session : shutdown /\ pc[s] # "idle" ~> pc[s] = "done"
=============================================================================
