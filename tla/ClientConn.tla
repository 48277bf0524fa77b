----------------------------- MODULE ClientConn -----------------------------
(***************************************************************************)
(* The connection life of rfrpc: Client::run with its backoff, one         *)
(* connect_once after the other, the registration of the proxies over each *)
(* connection, and the retry task a connection leaves behind for proxies   *)
(* that were refused.                                                      *)
(*                                                                         *)
(* Attempt c has its own ClientState, its own command channel and its own  *)
(* control task.  The control task is seen from outside: it sends commands *)
(* on, hands answers to whoever waits for that name, and may end at any    *)
(* time (ControlChannel has the inside).  The server answers a NewProxy    *)
(* some time after it was sent, perhaps after the client stopped waiting.  *)
(* The error codes matter as far as client.rs tells them apart: ok, retry  *)
(* (is_retryable), persist (is_persistently_retryable), failed.            *)
(***************************************************************************)
EXTENDS Naturals, Sequences, FiniteSets

CONSTANTS
    Name,           \* proxy names
    MaxConn,        \* bound: connection attempts
    Setups,         \* the proxies, tls_enable, and bounds on attempts and retry rounds
    Cap,            \* capacity of the command channel
    Rounds,         \* bound: PROXY_REGISTER_RETRY_MAX and .._PERSISTENT_MAX
    BackoffInit,    \* RECONNECT_BACKOFF_INITIAL
    BackoffMax,     \* RECONNECT_BACKOFF_MAX
    None

ASSUME ClientAssumption ==
    /\ MaxConn \in Nat /\ Cap \in Nat \ {0} /\ Rounds \in Nat \ {0}
    /\ BackoffInit \in Nat \ {0} /\ BackoffMax \in Nat /\ BackoffInit <= BackoffMax
    /\ Setups \subseteq [proxies : SUBSET Name, tls : BOOLEAN, attempts : 0..MaxConn,
                       rounds : 1..Rounds]
    /\ IsFiniteSet(Name) /\ None \notin Name

Conn == 1..MaxConn
Outcome == {"ok", "retry", "persist", "failed"}

VARIABLES
    setup,          \* the configuration
    \* Client::run
    shutdown, rpc,  \* the token; where run and connect_once are
    conn,           \* the current attempt
    backoff,
    lived,          \* what has lasted MIN_STABLE_CONNECTION_SECS: nothing ("short"), the
                    \* "attempt", or also the "session" it has established
    \* connect_once
    todo,           \* proxies still to be registered
    again, keep,    \* the retryable and the persistent ones so far
    refused,        \* history: those refused for good
    connected,      \* the connected gauge
    \* per attempt: its control task, channels and server session
    task,           \* attempt -> "none", "run", "ended"
    cmds,           \* attempt -> names in the command channel
    asked,          \* attempt -> NewProxy messages under way to the server
    back,           \* attempt -> answers under way to the client
    waiting,        \* attempt -> the name with an entry in resps
    served,         \* attempt -> names the server has registered
    believed,       \* attempt -> names the client has logged as registered
    \* per attempt: its retry task
    tpc, round,
    list, second,   \* the proxies it retries, and those of its second loop
    left            \* those of this round it has still to try

run     == <<setup, shutdown, rpc, conn, backoff, lived>>
lists   == <<todo, again, keep, refused>>
control == <<task, cmds, asked, back>>
retry   == <<tpc, round, list, second, left>>

vars == <<run, lists, connected, control, waiting, served, believed, retry>>

Init ==
    /\ setup \in Setups
    /\ shutdown = FALSE /\ rpc = "connect" /\ conn = 0
    /\ backoff = BackoffInit /\ lived = "short"
    /\ todo = {} /\ again = {} /\ keep = {} /\ refused = {} /\ connected = FALSE
    /\ task = [c \in Conn |-> "none"]
    /\ cmds = [c \in Conn |-> <<>>]
    /\ asked = [c \in Conn |-> <<>>]
    /\ back = [c \in Conn |-> <<>>]
    /\ waiting = [c \in Conn |-> None]
    /\ served = [c \in Conn |-> {}]
    /\ believed = [c \in Conn |-> {}]
    /\ tpc = [c \in Conn |-> "none"]
    /\ round = [c \in Conn |-> 0]
    /\ list = [c \in Conn |-> {}] /\ second = [c \in Conn |-> {}] /\ left = [c \in Conn |-> {}]

-----------------------------------------------------------------------------
\* Control tasks

\* The task returns or is aborted; its channels and its connection go with it.
EndTask(c) ==
    /\ task' = [task EXCEPT ![c] = "ended"]
    /\ cmds' = [cmds EXCEPT ![c] = <<>>]
    /\ asked' = [asked EXCEPT ![c] = <<>>]
    /\ back' = [back EXCEPT ![c] = <<>>]

\* connect_once is still inside attempt c, and holds a sender.
InSession(c) == c = conn /\ rpc \in {"login", "register", "await", "serve"}
Retrying(c) == tpc[c] \in {"sleep", "send", "await"}
HasSender(c) == InSession(c) \/ Retrying(c)

\* The connection is lost, the server closes it, the heartbeat gives up.
TaskLost(c) ==
    /\ task[c] = "run"
    /\ EndTask(c)
    /\ UNCHANGED <<run, lists, connected, waiting, served, believed, retry>>

ChannelClosed(c) == cmds[c] = <<>> /\ ~HasSender(c)

ToldByShutdown(c) == shutdown

\* Shutdown, or the command channel is closed.
ToldToEnd(c) == shutdown \/ ChannelClosed(c)

TaskReturns(c) ==
    /\ task[c] = "run" /\ ToldToEnd(c)
    /\ EndTask(c)
    /\ UNCHANGED <<run, lists, connected, waiting, served, believed, retry>>

SendOn(c) ==
    /\ task[c] = "run" /\ cmds[c] # <<>>
    /\ asked' = [asked EXCEPT ![c] = Append(@, Head(cmds[c]))]
    /\ cmds' = [cmds EXCEPT ![c] = Tail(@)]
    /\ UNCHANGED <<run, lists, connected, task, back, waiting, served, believed, retry>>

\* The server (SessionRegistry): a name it has already is refused, for another one it
\* may answer anything.
ServerAnswers(c) ==
    /\ asked[c] # <<>>
    /\ LET p == Head(asked[c]) IN
       \E o \in IF p \in served[c] THEN {"failed"} ELSE Outcome :
         /\ back' = [back EXCEPT ![c] = Append(@, <<p, o>>)]
         /\ served' = [served EXCEPT ![c] = IF o = "ok" THEN @ \cup {p} ELSE @]
    /\ asked' = [asked EXCEPT ![c] = Tail(@)]
    /\ UNCHANGED <<run, lists, connected, task, cmds, waiting, believed, retry>>

-----------------------------------------------------------------------------
\* register_one_proxy, for connect_once and for the retry task

\* The entry in resps, and send_with_timeout
Ask(c, p) ==
    /\ task[c] = "run" /\ Len(cmds[c]) < Cap
    /\ waiting' = [waiting EXCEPT ![c] = p]
    /\ cmds' = [cmds EXCEPT ![c] = Append(@, p)]
    /\ UNCHANGED <<task, asked, back>>

CannotAsk(c) == task[c] # "run" \/ Len(cmds[c]) = Cap

ForAnyName(c) == waiting[c] # None

\* The entry in resps is found by the name in the answer.
ForWaiter(c) == waiting[c] = Head(back[c])[1]

\* An answer no one waits for is dropped.
DropAnswer(c) ==
    /\ back[c] # <<>> /\ ~ForWaiter(c)
    /\ back' = [back EXCEPT ![c] = Tail(@)]
    /\ UNCHANGED <<run, lists, connected, task, cmds, asked, waiting, served, believed, retry>>

\* An answer reaches the one who waits, with outcome o.
TakeAnswer(c, o) ==
    /\ back[c] # <<>> /\ ForWaiter(c)
    /\ o = Head(back[c])[2]
    /\ back' = [back EXCEPT ![c] = Tail(@)]
    /\ believed' = [believed EXCEPT ![c] = IF o = "ok" THEN @ \cup {waiting[c]} ELSE @]
    /\ waiting' = [waiting EXCEPT ![c] = None]
    /\ UNCHANGED <<task, cmds, asked>>

-----------------------------------------------------------------------------
\* Client::run and connect_once

Goto(label) == rpc' = label /\ UNCHANGED <<setup, shutdown, conn, backoff, lived>>

\* The attempt is over without a session; run has the same code after an error.
Over == Goto(IF shutdown THEN "returned" ELSE "backoff")

\* The loop of run: the shutdown check, resolve and connect.
Connect ==
    /\ rpc = "connect"
    /\ \/ shutdown /\ rpc' = "returned" /\ UNCHANGED <<conn, lived, task>>
       \/ /\ ~shutdown /\ conn < setup.attempts
          /\ conn' = conn + 1
          /\ lived' = "short"
          /\ \/ rpc' = "handshake" /\ setup.tls /\ UNCHANGED task
             \/ rpc' = "login" /\ ~setup.tls /\ task' = [task EXCEPT ![conn'] = "run"]
             \/ rpc' = "backoff" /\ UNCHANGED task
    /\ UNCHANGED <<setup, shutdown, backoff, lists, connected, cmds, asked, back, waiting, served,
                   believed, retry>>

\* The TLS handshake: it may succeed, fail for good or for now, or never return.
Handshake ==
    /\ rpc = "handshake"
    /\ \/ Goto("login") /\ task' = [task EXCEPT ![conn] = "run"]
       \/ Goto("fatal") /\ UNCHANGED task
       \/ Over /\ UNCHANGED task
    /\ UNCHANGED <<lists, connected, cmds, asked, back, waiting, served, believed, retry>>

LoginOk ==
    /\ rpc = "login" /\ task[conn] = "run"
    /\ Goto("register")
    /\ todo' = setup.proxies /\ again' = {} /\ keep' = {} /\ refused' = {}
    /\ connected' = TRUE
    /\ UNCHANGED <<control, waiting, served, believed, retry>>

\* Refused for good (wrong token or version) or for now, or no answer in LOGIN_TIMEOUT:
\* the control task is aborted.
LoginFails ==
    /\ rpc = "login"
    /\ Over \/ (task[conn] = "run" /\ Goto("fatal"))
    /\ EndTask(conn)
    /\ UNCHANGED <<lists, connected, waiting, served, believed, retry>>

Register(p) ==
    /\ rpc = "register" /\ p \in todo
    /\ Ask(conn, p)
    /\ Goto("await")
    /\ todo' = todo \ {p}
    /\ UNCHANGED <<again, keep, refused, connected, served, believed, retry>>

\* ConnLost: connect_once leaves at once, and neither ends its control task nor clears
\* the gauge.
RegisterLost ==
    /\ rpc = "register" /\ todo # {}
    /\ CannotAsk(conn)
    /\ Over
    /\ UNCHANGED <<lists, connected, control, waiting, served, believed, retry>>

Registered(o) ==
    /\ rpc = "await"
    /\ TakeAnswer(conn, o)
    /\ again' = IF o = "retry" THEN again \cup {waiting[conn]} ELSE again
    /\ keep' = IF o = "persist" THEN keep \cup {waiting[conn]} ELSE keep
    /\ refused' = IF o = "failed" THEN refused \cup {waiting[conn]} ELSE refused
    /\ Goto("register")
    /\ UNCHANGED <<todo, connected, served, retry>>

NoTimeout == task[conn] = "run"

\* NEW_PROXY_TIMEOUT runs whatever becomes of the connection.
GivesUp == TRUE

Forgotten == again

TriedAgain == again \cup {waiting[conn]}

\* The entry is removed and the proxy is tried again later.
RegisterTimeout ==
    /\ rpc = "await" /\ GivesUp
    /\ again' = TriedAgain
    /\ waiting' = [waiting EXCEPT ![conn] = None]
    /\ Goto("register")
    /\ UNCHANGED <<todo, keep, refused, connected, control, served, believed, retry>>

\* The retry task is spawned for what was refused, and the control task awaited.
Serve ==
    /\ rpc = "register" /\ todo = {}
    /\ Goto("serve")
    /\ IF again \cup keep = {} THEN UNCHANGED retry
       ELSE /\ tpc' = [tpc EXCEPT ![conn] = "sleep"]
            /\ list' = [list EXCEPT ![conn] = IF again # {} THEN again ELSE keep]
            /\ second' = [second EXCEPT ![conn] = IF again # {} THEN keep ELSE {}]
            /\ UNCHANGED <<round, left>>
    /\ UNCHANGED <<lists, connected, control, waiting, served, believed>>

\* should_reset_backoff, for an attempt that has established a session
ShouldReset == lived # "short"

\* The control task has ended: resps is cleared, and run goes on to the backoff.
SessionEnds ==
    /\ rpc = "serve" /\ task[conn] = "ended"
    /\ waiting' = [waiting EXCEPT ![conn] = None]
    /\ connected' = FALSE
    /\ rpc' = IF shutdown THEN "returned" ELSE "backoff"
    /\ backoff' = IF ~shutdown /\ ShouldReset THEN BackoffInit ELSE backoff
    /\ UNCHANGED <<setup, shutdown, conn, lived, lists, control, served, believed, retry>>

NextBackoff == IF 2 * backoff < BackoffMax THEN 2 * backoff ELSE BackoffMax

\* wait_for_reconnect, and the backoff doubles.
WaitBackoff ==
    /\ rpc = "backoff"
    /\ \/ shutdown /\ rpc' = "returned" /\ UNCHANGED backoff
       \/ /\ rpc' = "connect"
          /\ backoff' = NextBackoff
    /\ UNCHANGED <<setup, shutdown, conn, lived, lists, connected, control, waiting, served,
                   believed, retry>>

\* Time passes.  The clock that run reads is started before connect_once: the handshake
\* and the login count.  A session lasts from the login to the end of its control task.
Lasts ==
    /\ \/ /\ lived = "short" /\ rpc \in {"handshake", "login", "register", "await", "serve"}
          /\ lived' = "attempt"
       \/ /\ lived # "session" /\ rpc \in {"register", "await", "serve"} /\ task[conn] = "run"
          /\ lived' = "session"
    /\ UNCHANGED <<setup, shutdown, rpc, conn, backoff, lists, connected, control, waiting, served,
                   believed, retry>>

Shutdown ==
    /\ ~shutdown
    /\ shutdown' = TRUE
    /\ UNCHANGED <<setup, rpc, conn, backoff, lived, lists, connected, control, waiting, served,
                   believed, retry>>

-----------------------------------------------------------------------------
\* retry_registration

\* A retry_loop returns: the second one starts, if it has anything to do.
LoopOver(c) ==
    /\ round' = [round EXCEPT ![c] = 0]
    /\ list' = [list EXCEPT ![c] = second[c]]
    /\ second' = [second EXCEPT ![c] = {}]
    /\ left' = [left EXCEPT ![c] = {}]
    /\ tpc' = [tpc EXCEPT ![c] = IF second[c] = {} THEN "ended" ELSE "sleep"]

\* The delay of a round is over, or a shutdown ends it.
RetryWakes(c) ==
    /\ tpc[c] = "sleep"
    /\ \/ shutdown /\ LoopOver(c)
       \/ /\ tpc' = [tpc EXCEPT ![c] = "send"]
          /\ round' = [round EXCEPT ![c] = @ + 1]
          /\ left' = [left EXCEPT ![c] = list[c]]
          /\ UNCHANGED <<list, second>>
    /\ UNCHANGED <<run, lists, connected, control, waiting, served, believed>>

RetryAsks(c, p) ==
    /\ tpc[c] = "send" /\ p \in left[c]
    /\ Ask(c, p)
    /\ tpc' = [tpc EXCEPT ![c] = "await"]
    /\ left' = [left EXCEPT ![c] = @ \ {p}]
    /\ UNCHANGED <<run, lists, connected, served, believed, round, list, second>>

\* Waits for the connection to come back, and does not count the round.
RetryLostWaits(c) ==
    /\ tpc[c] = "send" /\ left[c] # {}
    /\ CannotAsk(c)
    /\ tpc' = [tpc EXCEPT ![c] = "sleep"]
    /\ round' = [round EXCEPT ![c] = @ - 1]
    /\ left' = [left EXCEPT ![c] = {}]
    /\ UNCHANGED <<run, lists, connected, control, waiting, served, believed, list, second>>

\* ConnLost ends the loop, though not the one that follows it.
RetryLost(c) ==
    /\ tpc[c] = "send" /\ left[c] # {}
    /\ CannotAsk(c)
    /\ LoopOver(c)
    /\ UNCHANGED <<run, lists, connected, control, waiting, served, believed>>

\* Success takes the proxy off the list; every refusal keeps it there.
RetryAnswered(c, o) ==
    /\ tpc[c] = "await"
    /\ TakeAnswer(c, o)
    /\ list' = [list EXCEPT ![c] = IF o = "ok" THEN @ \ {waiting[c]} ELSE @]
    /\ tpc' = [tpc EXCEPT ![c] = "send"]
    /\ UNCHANGED <<run, lists, connected, served, round, second, left>>

\* NEW_PROXY_TIMEOUT, or resps was cleared at the end of the session.
RetryTimeout(c) ==
    /\ tpc[c] = "await"
    /\ waiting' = [waiting EXCEPT ![c] = None]
    /\ tpc' = [tpc EXCEPT ![c] = "send"]
    /\ UNCHANGED <<run, lists, connected, control, served, believed, round, list, second, left>>

\* A round is done.
RetryRoundDone(c) ==
    /\ tpc[c] = "send" /\ left[c] = {}
    /\ IF list[c] # {} /\ round[c] < setup.rounds
       THEN tpc' = [tpc EXCEPT ![c] = "sleep"] /\ UNCHANGED <<round, list, second, left>>
       ELSE LoopOver(c)
    /\ UNCHANGED <<run, lists, connected, control, waiting, served, believed>>

Main ==
    \/ Connect \/ Handshake \/ LoginOk \/ LoginFails
    \/ \E p \in Name : Register(p)
    \/ RegisterLost \/ \E o \in Outcome : Registered(o)
    \/ RegisterTimeout \/ Serve \/ SessionEnds \/ WaitBackoff

Retry(c) ==
    \/ RetryWakes(c) \/ \E p \in Name : RetryAsks(c, p)
    \/ RetryLost(c) \/ \E o \in Outcome : RetryAnswered(c, o)
    \/ RetryTimeout(c) \/ RetryRoundDone(c)

Next ==
    \/ Main \/ Lasts \/ Shutdown
    \/ \E c \in Conn :
         \/ TaskLost(c) \/ TaskReturns(c) \/ SendOn(c) \/ ServerAnswers(c) \/ DropAnswer(c)
         \/ Retry(c)

Spec == Init /\ [][Next]_vars

\* run and the tasks go on when they can, and their timers strike.  Nothing is asked of
\* the server, nor of the handshake, which has no timer.
FairSpec ==
    /\ Spec
    /\ WF_vars(Main /\ rpc # "handshake")
    /\ \A c \in Conn : WF_vars(TaskReturns(c)) /\ WF_vars(SendOn(c)) /\ WF_vars(Retry(c))

-----------------------------------------------------------------------------
\* Properties

TypeOK ==
    /\ setup \in Setups
    /\ shutdown \in BOOLEAN /\ lived \in {"short", "attempt", "session"} /\ connected \in BOOLEAN
    /\ rpc \in {"connect", "handshake", "login", "register", "await", "serve", "backoff",
                "returned", "fatal"}
    /\ conn \in 0..MaxConn /\ backoff \in BackoffInit..BackoffMax
    /\ todo \subseteq Name /\ again \subseteq Name /\ keep \subseteq Name /\ refused \subseteq Name
    /\ task \in [Conn -> {"none", "run", "ended"}]
    /\ cmds \in [Conn -> Seq(Name)] /\ asked \in [Conn -> Seq(Name)]
    /\ back \in [Conn -> Seq(Name \X Outcome)]
    /\ waiting \in [Conn -> Name \cup {None}]
    /\ served \in [Conn -> SUBSET Name] /\ believed \in [Conn -> SUBSET Name]
    /\ tpc \in [Conn -> {"none", "sleep", "send", "await", "ended"}]
    /\ round \in [Conn -> 0..Rounds]
    /\ list \in [Conn -> SUBSET Name] /\ second \in [Conn -> SUBSET Name]
    /\ left \in [Conn -> SUBSET Name]

\* A proxy the client takes for registered has been registered by the server, in the
\* session of that attempt: answers that come after the client gave up on them, for
\* this proxy or another, do not mislead it (client.rs:448-499, control.rs:171-175).
RegisteredServed == \A c \in Conn : believed[c] \subseteq served[c]

\* While a session is served, no configured proxy has been forgotten: it is registered,
\* was refused for good, or is on a list of the retry task until the loop over that list
\* is done (client.rs:337-360, 543-618).
NoneForgotten ==
    rpc = "serve" =>
        \A p \in setup.proxies :
            \/ p \in believed[conn] \cup refused \cup list[conn] \cup second[conn]
            \/ p \in again /\ list[conn] \subseteq keep
            \/ tpc[conn] = "ended"

\* The comments on should_reset_backoff: the wait between attempts goes back to its
\* first value only after a session that has lasted; one that is established and lost at
\* once lets it grow.  run times the whole attempt (client.rs:149, 162), so a session
\* lost at once after a slow handshake resets it.
ShortSessionBacksOff == [][backoff' < backoff => lived = "session"]_vars

\* A lost connection is noticed, in the middle of the registrations too, and the client
\* goes on to the next attempt.
Reconnects ==
    \A c \in Conn :
        (InSession(c) /\ task[c] = "ended") ~> (~InSession(c) \/ shutdown)

\* A shutdown ends run, wherever it is but in a TLS handshake, which has no
\* timer (client.rs:237-257); a DNS lookup has the resolver's only (client.rs:201).
ShutdownEnds == shutdown ~> (rpc \in {"returned", "fatal", "handshake"})

\* The control task that connect_once leaves behind when it is told ConnLost ends, and
\* so does the retry task of a session that is over, whatever it is doing and however
\* much is on its lists (client.rs:342-346, 536-542, 594-607).
NothingLeftBehind ==
    \A c \in Conn :
        (~InSession(c) /\ (task[c] = "run" \/ Retrying(c))) ~> (task[c] # "run" /\ ~Retrying(c))

=============================================================================
