----------------------------- MODULE ServerLife -----------------------------
(***************************************************************************)
(* The life of an rfrps process: Server::new and run, the accept loop with *)
(* its retries, the connection tasks of its JoinSet up to the point where  *)
(* they become a control or a work connection, the login failure limiter,  *)
(* one of the other loops that run beside it (HTTP vhost, HTTPS vhost,     *)
(* dashboard, or the sweep of pending users), and the drain at shutdown.   *)
(*                                                                         *)
(* What a peer sends is free: the first byte, how the TLS handshake goes,  *)
(* the first frame, the token, the request.  A silent peer sends nothing.  *)
(* All connections come from one address, so the limiters have one entry;  *)
(* an entry whose window is over is treated by every function like an      *)
(* absent one and is one here, so the sweeps of large tables do not show.  *)
(***************************************************************************)
EXTENDS Naturals, FiniteSets

CONSTANTS
    Setups,         \* the configurations: tls_enable, work_conn_tls and the other loop
    Conn,           \* connection tasks
    FatalErrs,      \* MAX_CONSECUTIVE_ACCEPT_ERRORS
    FailureLimit,   \* LOGIN_FAILURE_LIMIT
    RequestLimit    \* the dashboard's requests per window

Loops == {"http", "https", "dashboard", "sweep"}

ASSUME ServerAssumption ==
    /\ Setups \subseteq [tls : BOOLEAN, work : BOOLEAN, other : Loops]
    /\ IsFiniteSet(Conn)
    /\ FatalErrs \in Nat \ {0} /\ FailureLimit \in Nat \ {0} /\ RequestLimit \in Nat \ {0}

VARIABLES
    \* configuration
    tlsEnable, workTls,
    other,          \* the loop beside the accept loop
    \* run
    lpc, shutdown,
    errs,           \* AcceptRetry.consecutive
    accepting,      \* the gauge behind /healthz
    graceOver,
    opc,            \* the other loop: "wait", "busy", "ended"
    \* connection tasks
    pc,
    secure,         \* the stream is TLS
    \* limiters: failures and requests in the window, and whether it is still open
    fails, failOpen, reqs, reqOpen,
    \* history: failed accepts since the last good one; wrong tokens looked at, and
    \* requests served, since the window opened
    bad, tried, answered

config  == <<tlsEnable, workTls, other>>
loop    == <<lpc, errs, accepting, graceOver, bad>>
logins  == <<fails, failOpen, tried>>
web     == <<reqs, reqOpen, answered>>

vars == <<config, shutdown, loop, opc, pc, secure, logins, web>>

\* Connection states of the bind port, and of the HTTP ports
BindPc == {"peek", "handshake", "frame", "login", "verify", "reject", "control", "work", "done"}
HttpPc == {"tls", "head", "body", "respond"}

Init ==
    /\ \E s \in Setups : tlsEnable = s.tls /\ workTls = s.work /\ other = s.other
    /\ lpc = "new" /\ shutdown = FALSE /\ errs = 0 /\ accepting = TRUE /\ graceOver = FALSE
    /\ opc = "none"
    /\ pc = [c \in Conn |-> "free"] /\ secure = [c \in Conn |-> FALSE]
    /\ fails = 0 /\ failOpen = FALSE /\ reqs = 0 /\ reqOpen = FALSE
    /\ bad = 0 /\ tried = 0 /\ answered = 0

Capped(n, cap) == IF n < cap THEN n ELSE cap

-----------------------------------------------------------------------------
\* Server::new and run

\* The ports are bound and the certificates read, and the loops start; or one of these
\* fails and the process ends.
Start ==
    /\ lpc = "new"
    /\ \/ lpc' = "accept" /\ opc' = "wait"
       \/ lpc' = "failed" /\ UNCHANGED opc
    /\ UNCHANGED <<config, shutdown, errs, accepting, graceOver, bad, pc, secure, logins, web>>

\* AcceptRetry
KeepCount == UNCHANGED errs

RecordOk == errs' = 0

IsFatal == errs >= FatalErrs

\* A connection is accepted and a task spawned for it.
AcceptOk(c) ==
    /\ lpc = "accept" /\ pc[c] = "free"
    /\ RecordOk
    /\ accepting' = TRUE /\ bad' = 0
    /\ pc' = [pc EXCEPT ![c] = "peek"]
    /\ UNCHANGED <<config, shutdown, lpc, graceOver, opc, secure, logins, web>>

\* inc_accept_error and record_err; the loop goes on to is_fatal.
AcceptErr ==
    /\ lpc = "accept"
    /\ errs' = errs + 1
    /\ accepting' = FALSE /\ bad' = Capped(bad + 1, FatalErrs)
    /\ lpc' = "error"
    /\ UNCHANGED <<config, shutdown, graceOver, opc, pc, secure, logins, web>>

\* The JoinSet is dropped and its tasks are aborted; HTTP connections, which were
\* spawned outside it, end with the process.
DropTasks ==
    /\ pc' = [c \in Conn |-> "free"] /\ secure' = [c \in Conn |-> FALSE]
    /\ opc' = "ended"
    /\ fails' = 0 /\ failOpen' = FALSE /\ tried' = 0
    /\ reqs' = 0 /\ reqOpen' = FALSE /\ answered' = 0

\* Fatal: run returns an error.
GiveUp ==
    /\ lpc = "error" /\ IsFatal
    /\ lpc' = "failed"
    /\ DropTasks
    /\ UNCHANGED <<config, shutdown, errs, accepting, graceOver, bad>>

\* The backoff is slept inside the select branch: nothing else is seen meanwhile.
Backoff ==
    /\ lpc = "error" /\ ~IsFatal
    /\ lpc' = "accept"
    /\ UNCHANGED <<config, shutdown, errs, accepting, graceOver, bad, opc, pc, secure, logins, web>>

ReapInDrain(c) == lpc = "drain" /\ pc[c] = "done"

\* join_next, in the accept loop and in the drain
Reap(c) == lpc \in {"accept", "drain"} /\ pc[c] = "done"

JoinNext(c) ==
    /\ Reap(c)
    /\ pc' = [pc EXCEPT ![c] = "free"]
    /\ UNCHANGED <<config, shutdown, loop, opc, secure, logins, web>>

\* A signal, or the token
Shutdown ==
    /\ lpc # "new" /\ ~shutdown
    /\ shutdown' = TRUE
    /\ UNCHANGED <<config, loop, opc, pc, secure, logins, web>>

StopAccepting ==
    /\ lpc = "accept" /\ shutdown
    /\ lpc' = "drain"
    /\ UNCHANGED <<config, shutdown, errs, accepting, graceOver, bad, opc, pc, secure, logins, web>>

GraceElapses ==
    /\ lpc = "drain" /\ ~graceOver
    /\ graceOver' = TRUE
    /\ UNCHANGED <<config, shutdown, lpc, errs, accepting, bad, opc, pc, secure, logins, web>>

\* tasks.is_empty(), with the join of the other loop's task
NoTasks == opc = "ended" /\ \A c \in Conn : pc[c] \notin BindPc

DrainedOnly == NoTasks

DrainOver == NoTasks \/ graceOver

Return ==
    /\ lpc = "drain" /\ DrainOver
    /\ lpc' = "returned"
    /\ DropTasks
    /\ UNCHANGED <<config, shutdown, errs, accepting, graceOver, bad>>

-----------------------------------------------------------------------------
\* The other loop

\* run_http_vhost, run_https_vhost, run_dashboard: accept, and spawn.
HttpAccept(c) ==
    /\ other # "sweep" /\ opc = "wait" /\ pc[c] = "free"
    /\ pc' = [pc EXCEPT ![c] = IF other = "https" THEN "tls" ELSE "head"]
    /\ UNCHANGED <<config, shutdown, loop, opc, secure, logins, web>>

\* An accept error, slept off; or the tick of the sweep, whose closing of expired users
\* may take any time.
OtherBusy ==
    /\ opc = "wait"
    /\ opc' = "busy"
    /\ UNCHANGED <<config, shutdown, loop, pc, secure, logins, web>>

OtherResumes ==
    /\ opc = "busy"
    /\ opc' = "wait"
    /\ UNCHANGED <<config, shutdown, loop, pc, secure, logins, web>>

OtherEnds ==
    /\ opc = "wait" /\ shutdown
    /\ opc' = "ended"
    /\ UNCHANGED <<config, shutdown, loop, pc, secure, logins, web>>

-----------------------------------------------------------------------------
\* handle_connection

Goto(c, label) ==
    /\ pc' = [pc EXCEPT ![c] = label]
    /\ UNCHANGED <<config, shutdown, loop, opc>>

\* The task is over; its entry stays in the JoinSet.
Done(c) == Goto(c, "done") /\ secure' = [secure EXCEPT ![c] = FALSE]

\* Waits of a bind port connection that have a timer
TimedAfterPeek == {"handshake", "frame", "reject"}

Timed == {"peek", "handshake", "frame", "reject"}

Timeout(c) ==
    /\ pc[c] \in Timed
    /\ Done(c)
    /\ UNCHANGED <<logins, web>>

\* End of file, a reset, a failed handshake, a frame of another version or too large
PeerFails(c) ==
    /\ pc[c] \in {"peek", "handshake", "frame", "control", "work"}
    /\ Done(c)
    /\ UNCHANGED <<logins, web>>

\* The first byte: 0x16 starts a handshake, if there is a TLS acceptor.
FirstByte(c) ==
    /\ pc[c] = "peek"
    /\ \/ (tlsEnable \/ workTls) /\ Goto(c, "handshake")
       \/ Goto(c, "frame")
    /\ UNCHANGED <<secure, logins, web>>

HandshakeDone(c) ==
    /\ pc[c] = "handshake"
    /\ Goto(c, "frame")
    /\ secure' = [secure EXCEPT ![c] = TRUE]
    /\ UNCHANGED <<logins, web>>

LoginOn(c) == tlsEnable = secure[c]

WorkOn(c) == workTls => secure[c]

\* The first frame chooses the handler; over the wrong kind of stream, and for any
\* other frame, the connection is closed.
FirstFrame(c) ==
    /\ pc[c] = "frame"
    /\ \/ LoginOn(c) /\ Goto(c, "login") /\ UNCHANGED secure
       \/ WorkOn(c) /\ Goto(c, "work") /\ UNCHANGED secure
       \/ Done(c)
    /\ UNCHANGED <<logins, web>>

\* login_allowed
LoginAllowed(c) ==
    /\ pc[c] = "login"
    /\ Goto(c, IF failOpen /\ fails >= FailureLimit THEN "reject" ELSE "verify")
    /\ UNCHANGED <<secure, logins, web>>

\* record_login_failure
RecordAfresh == fails' = 1 /\ failOpen' = TRUE

RecordFailure == fails' = (IF failOpen THEN fails + 1 ELSE 1) /\ failOpen' = TRUE

\* A wrong token is counted; a wrong version, a malformed field are refused uncounted.
LoginRefused(c) ==
    /\ pc[c] = "verify"
    /\ \/ RecordFailure /\ tried' = Capped(tried + 1, FailureLimit + Cardinality(Conn))
       \/ UNCHANGED logins
    /\ Goto(c, "reject")
    /\ UNCHANGED <<secure, web>>

\* The right token clears the count, and then the session limits may still refuse.
LoginAccepted(c) ==
    /\ pc[c] = "verify"
    /\ Goto(c, "control") \/ Goto(c, "reject")
    /\ fails' = 0 /\ failOpen' = FALSE /\ tried' = 0
    /\ UNCHANGED <<secure, web>>

\* The refusal is written, within a time limit.
Rejected(c) ==
    /\ pc[c] = "reject"
    /\ Done(c)
    /\ UNCHANGED <<logins, web>>

\* A control connection sees the shutdown; a work connection does not.
ControlEnds(c) ==
    /\ pc[c] = "control" /\ shutdown
    /\ Done(c)
    /\ UNCHANGED <<logins, web>>

FailureWindowEnds ==
    /\ failOpen
    /\ fails' = 0 /\ failOpen' = FALSE /\ tried' = 0
    /\ UNCHANGED <<config, shutdown, loop, opc, pc, secure, web>>

-----------------------------------------------------------------------------
\* Connections of the HTTP ports

\* The task is not in the JoinSet.
Closed(c) == Goto(c, "free") /\ UNCHANGED secure

HttpTimeout(c) ==
    /\ pc[c] \in {"tls", "head"}
    /\ Closed(c)
    /\ UNCHANGED <<logins, web>>

\* The peer closes, the handshake fails, the head is malformed or too large; writing the
\* response fails or is done.
HttpEnds(c) ==
    /\ pc[c] \in HttpPc
    /\ Closed(c)
    /\ UNCHANGED <<logins, web>>

HttpTlsDone(c) ==
    /\ pc[c] = "tls"
    /\ Goto(c, "head")
    /\ UNCHANGED <<secure, logins, web>>

\* A vhost request has its head: the user goes to WorkConn, or is told 404.
Routed(c) ==
    /\ pc[c] = "head" /\ other \in {"http", "https"}
    /\ Closed(c) \/ (Goto(c, "respond") /\ UNCHANGED secure)
    /\ UNCHANGED <<logins, web>>

\* RateLimiter::allow
Allow == ~reqOpen \/ reqs < RequestLimit

\* A dashboard request has its head: 429, or it is served, a login after its body.
Requested(c) ==
    /\ pc[c] = "head" /\ other = "dashboard"
    /\ \/ /\ Allow
          /\ reqs' = (IF reqOpen THEN reqs + 1 ELSE 1)
          /\ reqOpen' = TRUE
          /\ answered' = Capped(answered + 1, RequestLimit + 1)
          /\ Goto(c, "respond") \/ Goto(c, "body")
       \/ ~Allow /\ Goto(c, "respond") /\ UNCHANGED web
    /\ UNCHANGED <<secure, logins>>

BodyRead(c) ==
    /\ pc[c] = "body"
    /\ Goto(c, "respond")
    /\ UNCHANGED <<secure, logins, web>>

RequestWindowEnds ==
    /\ reqOpen
    /\ reqs' = 0 /\ reqOpen' = FALSE /\ answered' = 0
    /\ UNCHANGED <<config, shutdown, loop, opc, pc, secure, logins>>

-----------------------------------------------------------------------------
Handle(c) ==
    \/ Timeout(c) \/ PeerFails(c) \/ FirstByte(c) \/ HandshakeDone(c) \/ FirstFrame(c)
    \/ LoginAllowed(c) \/ LoginRefused(c) \/ LoginAccepted(c) \/ Rejected(c) \/ ControlEnds(c)

Serve(c) ==
    HttpTimeout(c) \/ HttpEnds(c) \/ HttpTlsDone(c) \/ Routed(c) \/ Requested(c) \/ BodyRead(c)

Next ==
    \/ Start \/ AcceptErr \/ GiveUp \/ Backoff \/ Shutdown \/ StopAccepting \/ GraceElapses
    \/ Return \/ OtherBusy \/ OtherResumes \/ OtherEnds
    \/ FailureWindowEnds \/ RequestWindowEnds
    \/ \E c \in Conn : AcceptOk(c) \/ JoinNext(c) \/ HttpAccept(c) \/ Handle(c) \/ Serve(c)

Spec == Init /\ [][Next]_vars

\* Timers strike and tasks run; select! takes a branch that stays ready sooner or later
\* (SF).  Nothing is asked of peers, nor of the sweep's closing of users.
FairSpec ==
    /\ Spec
    /\ WF_vars(Start) /\ WF_vars(GiveUp \/ Backoff) /\ WF_vars(GraceElapses) /\ WF_vars(Return)
    /\ SF_vars(StopAccepting) /\ SF_vars(OtherEnds)
    /\ WF_vars(other # "sweep" /\ OtherResumes)
    /\ \A c \in Conn :
         /\ SF_vars(JoinNext(c))
         /\ WF_vars(Timeout(c)) /\ WF_vars(HttpTimeout(c))
         /\ WF_vars(LoginAllowed(c)) /\ WF_vars(LoginRefused(c) \/ LoginAccepted(c))
         /\ WF_vars(ControlEnds(c))

-----------------------------------------------------------------------------
\* Properties

TypeOK ==
    /\ tlsEnable \in BOOLEAN /\ workTls \in BOOLEAN
    /\ other \in Loops
    /\ lpc \in {"new", "accept", "error", "drain", "returned", "failed"}
    /\ shutdown \in BOOLEAN /\ accepting \in BOOLEAN /\ graceOver \in BOOLEAN
    /\ errs \in 0..FatalErrs /\ bad \in 0..FatalErrs
    /\ opc \in {"none", "wait", "busy", "ended"}
    /\ pc \in [Conn -> {"free"} \cup BindPc \cup HttpPc] /\ secure \in [Conn -> BOOLEAN]
    /\ fails \in Nat /\ failOpen \in BOOLEAN /\ reqs \in 0..RequestLimit /\ reqOpen \in BOOLEAN
    /\ tried \in Nat /\ answered \in Nat

\* Within a window an address has at most LOGIN_FAILURE_LIMIT wrong tokens looked at,
\* plus one for every further connection that passed login_allowed before the limit was
\* reached: check and record are two critical sections (control.rs:79, state.rs:136-165).
\* Of the dashboard's requests no more than the limit are served: there it is one.
RatesHeld ==
    /\ tried <= FailureLimit + Cardinality(Conn) - 1
    /\ answered <= RequestLimit

\* Once it listens, the bind port is given up only after MAX_CONSECUTIVE_ACCEPT_ERRORS
\* failures with no connection accepted in between (accept.rs:1-8, server.rs:234-254).
ListenersPersist == lpc = "failed" /\ opc # "none" => bad = FatalErrs

\* A connection whose peer falls silent before its first frame is closed
\* (server.rs:406-418, 423-434, 444-457), and so is one silent within a request head.
SilentPeersDropped ==
    \A c \in Conn :
        pc[c] \in {"peek", "handshake", "frame", "tls", "head"} ~>
        pc[c] \notin {"peek", "handshake", "frame", "tls", "head"}

\* A finished task does not stay in the JoinSet (server.rs:258-260).
TasksReaped == \A c \in Conn : pc[c] = "done" ~> pc[c] # "done"

\* After a shutdown run returns, although work connections and a sweep that is closing
\* users take no notice of it: the grace period ends (server.rs:267-280).
Drains == (shutdown /\ lpc # "failed") ~> (lpc \in {"returned", "failed"})

=============================================================================
