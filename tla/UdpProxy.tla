------------------------------ MODULE UdpProxy ------------------------------
(***************************************************************************)
(* A UDP proxy of rfrps.  One listener task receives the datagrams of all  *)
(* users.  The first datagram of a peer opens a pending session under a    *)
(* fresh work_id, waits in its queue, and has the client asked for a work  *)
(* connection; the handler of that connection takes the pending session    *)
(* out, makes it a session and writes the queue to the client.  The three  *)
(* tables have a lock each, so the listener, the tasks that send the       *)
(* requests and the handlers interleave between any two lock scopes.       *)
(*                                                                         *)
(* A datagram is <<peer, k>>, the k-th of its peer.  A channel is named by *)
(* the work_id it was made for.  Clocks are left out: a session may become *)
(* idle and a pending session expire at any time.  WorkConn has the checks *)
(* a work connection passes before it gets here, UdpBridge the framing and *)
(* the client's half of it, SessionRegistry the cleanup that cancels stop. *)
(* A datagram the listener drains in the same wake-up is one more round of *)
(* its loop.                                                               *)
(***************************************************************************)
EXTENDS Naturals, Sequences, FiniteSets

CONSTANTS
    Peer,           \* source addresses of users
    MaxSent,        \* bound: datagrams a peer sends
    MaxId,          \* bound: work ids
    QueueDepth,     \* UDP_SESSION_QUEUE_DEPTH
    MaxPending,     \* MAX_PENDING_UDP_SESSIONS
    WriteBatch,     \* UDP_WRITE_BATCH
    None

ASSUME UdpAssumption ==
    /\ MaxSent \in Nat /\ MaxId \in Nat
    /\ QueueDepth \in Nat \ {0} /\ MaxPending \in Nat \ {0} /\ WriteBatch \in Nat \ {0}
    /\ IsFiniteSet(Peer)
    /\ None \notin Peer \cup Nat /\ None \notin Peer \X Nat
    /\ None \notin {"sweep", "request", "work"}

Id == 1..MaxId
Datagram == Peer \X (1..MaxSent)

VARIABLES
    sent,           \* peer -> datagrams it has sent so far
    \* UdpProxy
    sessions,       \* peer -> the channel of its session
    idle,           \* peers whose session has passed session_timeout
    pendingById,    \* the work ids with a pending session
    expired,        \* those past pending_timeout
    pendingClient,  \* peer -> the work id it waits for
    stop,           \* the session's stop token is cancelled
    \* channels
    workId,         \* the last work id handed out
    client,         \* work id -> the peer it was made for
    opener,         \* work id -> the datagram it was made for
    queue,          \* work id -> datagrams queued for its work connection
    \* the listener task
    lpc, hand,      \* where it is; the datagram it holds
    seen,           \* the work id it read from a table
    sweeping,       \* expired ids its sweep has still to remove
    \* request tasks and remove_pending
    asking,         \* work ids whose ReqWorkConn is being sent
    asked,          \* work ids whose ReqWorkConn was sent
    unlinking,      \* work id -> who has taken it out of pending_by_id
    \* handlers of work connections
    hpc,            \* work id -> where the handler is
    batch,          \* work id -> datagrams it is writing
    written         \* work id -> datagrams it has written

tables   == <<sessions, idle, pendingById, expired, pendingClient>>
channels == <<workId, client, opener>>
listener == <<lpc, hand, seen, sweeping>>
requests == <<asking, asked>>
handlers == <<hpc, batch, written>>

vars == <<sent, tables, stop, channels, queue, listener, requests, unlinking, handlers>>

LPC == {"select", "send", "pending", "byid", "limit", "insert", "link", "ask", "expire",
        "remove", "ended"}
HPC == {"none", "dialled", "unlink", "register", "run", "writing", "closing", "ended"}

Init ==
    /\ sent = [p \in Peer |-> 0]
    /\ sessions = [p \in Peer |-> None]
    /\ idle = {}
    /\ pendingById = {}
    /\ expired = {}
    /\ pendingClient = [p \in Peer |-> None]
    /\ stop = FALSE
    /\ workId = 0
    /\ client = [i \in Id |-> None]
    /\ opener = [i \in Id |-> None]
    /\ queue = [i \in Id |-> <<>>]
    /\ lpc = "select" /\ hand = None /\ seen = None /\ sweeping = {}
    /\ asking = {}
    /\ asked = {}
    /\ unlinking = [i \in Id |-> None]
    /\ hpc = [i \in Id |-> "none"]
    /\ batch = [i \in Id |-> <<>>]
    /\ written = [i \in Id |-> <<>>]

-----------------------------------------------------------------------------
\* touch_session: whichever session the peer has now
Touch(p) == idle' = idle \ {p}

\* The first lock scope of remove_pending: only one caller finds the entry, with its
\* time of creation.
Take(i, who) ==
    /\ i \in pendingById
    /\ pendingById' = pendingById \ {i}
    /\ expired' = expired \ {i}
    /\ unlinking' = [unlinking EXCEPT ![i] = who]

ForgetUnlink(i) ==
    /\ unlinking' = [unlinking EXCEPT ![i] = None]
    /\ UNCHANGED pendingClient

\* The second lock scope of remove_pending: the reverse entry goes only if it is
\* still this id's.
Unlink(i) ==
    /\ pendingClient' = [p \in Peer |->
           IF p = client[i] /\ pendingClient[p] = i THEN None ELSE pendingClient[p]]
    /\ unlinking' = [unlinking EXCEPT ![i] = None]

-----------------------------------------------------------------------------
\* The listener

Return == lpc' = "select" /\ hand' = None /\ seen' = None

\* recv_from, and the first lock scope of handle_datagram: a session takes it.
Receive(p) ==
    /\ lpc = "select"
    /\ sent[p] < MaxSent
    /\ sent' = [sent EXCEPT ![p] = @ + 1]
    /\ hand' = <<p, sent[p] + 1>>
    /\ seen' = sessions[p]
    /\ IF sessions[p] = None
         THEN lpc' = "pending" /\ UNCHANGED idle
         ELSE lpc' = "send" /\ Touch(p)
    /\ UNCHANGED <<sessions, pendingById, expired, pendingClient, stop, channels, queue,
                   sweeping, requests, unlinking, handlers>>

\* The receiver of channel i exists: it lies in the pending table, with whoever took
\* it out, or with the handler.
Receiving(i) ==
    \/ i \in pendingById \/ unlinking[i] # None
    \/ hpc[i] \in {"register", "run", "writing", "closing"}

\* try_send: a queue that is full or whose handler is gone drops the datagram.
TrySend ==
    /\ lpc = "send"
    /\ queue' = IF Len(queue[seen]) < QueueDepth /\ Receiving(seen)
                  THEN [queue EXCEPT ![seen] = Append(@, hand)]
                  ELSE queue
    /\ Return
    /\ UNCHANGED <<sent, tables, stop, channels, sweeping, requests, unlinking, handlers>>

LookUpPending ==
    /\ lpc = "pending"
    /\ seen' = pendingClient[hand[1]]
    /\ lpc' = IF seen' = None THEN "limit" ELSE "byid"
    /\ UNCHANGED <<sent, tables, stop, channels, queue, hand, sweeping, requests, unlinking,
                   handlers>>

\* The channel of the pending session, unless it has just been taken out.
LookUpById ==
    /\ lpc = "byid"
    /\ IF seen \in pendingById
         THEN lpc' = "send" /\ UNCHANGED <<hand, seen>>
         ELSE Return
    /\ UNCHANGED <<sent, tables, stop, channels, queue, sweeping, requests, unlinking, handlers>>

PendingFullLate == Cardinality(pendingById) > MaxPending

PendingFull == Cardinality(pendingById) >= MaxPending

\* The limit, in a lock scope of its own: the datagram of a new peer is dropped when
\* the table is full, and when the model has run out of ids.
CheckLimit ==
    /\ lpc = "limit"
    /\ IF PendingFull \/ workId = MaxId
         THEN Return
         ELSE lpc' = "insert" /\ UNCHANGED <<hand, seen>>
    /\ UNCHANGED <<sent, tables, stop, channels, queue, sweeping, requests, unlinking, handlers>>

NothingQueued(d) == <<>>

FirstQueued(d) == <<d>>

\* A new pending session under a fresh id, its first datagram queued.
InsertPending ==
    /\ lpc = "insert" /\ workId # MaxId
    /\ workId' = workId + 1
    /\ client' = [client EXCEPT ![workId'] = hand[1]]
    /\ opener' = [opener EXCEPT ![workId'] = hand]
    /\ queue' = [queue EXCEPT ![workId'] = FirstQueued(hand)]
    /\ pendingById' = pendingById \cup {workId'}
    /\ seen' = workId'
    /\ lpc' = "link"
    /\ UNCHANGED <<sent, sessions, idle, expired, pendingClient, stop, hand, sweeping, requests,
                   unlinking, handlers>>

\* The reverse entry, in a lock scope of its own.
Link ==
    /\ lpc = "link"
    /\ pendingClient' = [pendingClient EXCEPT ![hand[1]] = seen]
    /\ lpc' = "ask"
    /\ UNCHANGED <<sent, sessions, idle, pendingById, expired, stop, channels, queue, hand,
                   seen, sweeping, requests, unlinking, handlers>>

\* Spawn the task that sends ReqWorkConn.
SpawnRequest ==
    /\ lpc = "ask"
    /\ asking' = asking \cup {seen}
    /\ Return
    /\ UNCHANGED <<sent, tables, stop, channels, queue, sweeping, asked, unlinking, handlers>>

\* sweep, first lock scope: idle sessions go.  Their senders are dropped, and the
\* handler of such a session goes on: it holds a sender of its own channel.
SweepSessions ==
    /\ lpc = "select"
    /\ sessions' = [p \in Peer |-> IF p \in idle THEN None ELSE sessions[p]]
    /\ idle' = {}
    /\ lpc' = "expire"
    /\ UNCHANGED <<sent, pendingById, expired, pendingClient, stop, channels, queue, hand, seen,
                   sweeping, requests, unlinking, handlers>>

NoneTooOld == {}

TooOld == expired

\* sweep, second lock scope: the ids of expired pending sessions are collected.
SweepCollect ==
    /\ lpc = "expire"
    /\ sweeping' = TooOld
    /\ lpc' = "remove"
    /\ UNCHANGED <<sent, tables, stop, channels, queue, hand, seen, requests, unlinking, handlers>>

\* remove_pending for one of them, unless a handler or a request task was faster
SweepTake(i) ==
    /\ lpc = "remove" /\ i \in sweeping
    /\ \A j \in Id : unlinking[j] # "sweep"
    /\ \/ Take(i, "sweep")
       \/ i \notin pendingById /\ UNCHANGED <<pendingById, expired, unlinking>>
    /\ sweeping' = sweeping \ {i}
    /\ UNCHANGED <<sent, sessions, idle, pendingClient, stop, channels, queue, lpc, hand, seen,
                   requests, handlers>>

SweepUnlink(i) ==
    /\ unlinking[i] = "sweep"
    /\ Unlink(i)
    /\ queue' = [queue EXCEPT ![i] = <<>>]
    /\ UNCHANGED <<sent, sessions, idle, pendingById, expired, stop, channels, listener,
                   requests, handlers>>

SweepDone ==
    /\ lpc = "remove" /\ sweeping = {}
    /\ \A j \in Id : unlinking[j] # "sweep"
    /\ Return
    /\ UNCHANGED <<sent, tables, stop, channels, queue, sweeping, requests, unlinking, handlers>>

\* The loop is left, or the task aborted, when the session is cleaned up.
ListenerEnd ==
    /\ lpc = "select" /\ stop
    /\ lpc' = "ended"
    /\ UNCHANGED <<sent, tables, stop, channels, queue, hand, seen, sweeping, requests, unlinking,
                   handlers>>

-----------------------------------------------------------------------------
\* Request tasks

\* send_with_timeout succeeds: the message is on its way to the client.
RequestSent(i) ==
    /\ i \in asking
    /\ asking' = asking \ {i}
    /\ asked' = asked \cup {i}
    /\ UNCHANGED <<sent, tables, stop, channels, queue, listener, unlinking, handlers>>

\* It fails or times out: the task removes the pending session, if it is still there.
RequestFailed(i) ==
    /\ i \in asking
    /\ asking' = asking \ {i}
    /\ \/ Take(i, "request")
       \/ i \notin pendingById /\ UNCHANGED <<pendingById, expired, unlinking>>
    /\ UNCHANGED <<sent, sessions, idle, pendingClient, stop, channels, queue, listener, asked,
                   handlers>>

RequestUnlink(i) ==
    /\ unlinking[i] = "request"
    /\ Unlink(i)
    /\ queue' = [queue EXCEPT ![i] = <<>>]
    /\ UNCHANGED <<sent, sessions, idle, pendingById, expired, stop, channels, listener,
                   requests, handlers>>

-----------------------------------------------------------------------------
\* Handlers of work connections

Goto(i, label) == hpc' = [hpc EXCEPT ![i] = label]

\* The client dials and its StartWorkConn passes the checks.  It does so at most
\* once for a request, at any time, or never.
Dial(i) ==
    /\ i \in asked /\ hpc[i] = "none"
    /\ Goto(i, "dialled")
    /\ UNCHANGED <<sent, tables, stop, channels, queue, listener, requests, unlinking, batch,
                   written>>

\* remove_pending; a work connection that comes too late is closed.
WorkTake(i) ==
    /\ hpc[i] = "dialled"
    /\ \/ Take(i, "work") /\ Goto(i, "unlink")
       \/ /\ i \notin pendingById
          /\ Goto(i, "ended")
          /\ UNCHANGED <<pendingById, expired, unlinking>>
    /\ UNCHANGED <<sent, sessions, idle, pendingClient, stop, channels, queue, listener, requests,
                   batch, written>>

WorkUnlink(i) ==
    /\ unlinking[i] = "work"
    /\ Unlink(i)
    /\ Goto(i, "register")
    /\ UNCHANGED <<sent, sessions, idle, pendingById, expired, stop, channels, queue, listener,
                   requests, batch, written>>

\* register_session: it replaces whatever session the peer has.
RegisterSession(i) ==
    /\ hpc[i] = "register"
    /\ sessions' = [sessions EXCEPT ![client[i]] = i]
    /\ Touch(client[i])
    /\ Goto(i, "run")
    /\ UNCHANGED <<sent, pendingById, expired, pendingClient, stop, channels, queue, listener,
                   requests, unlinking, batch, written>>

\* recv_many, touch_session, and the write begins.
TakeBatch(i) ==
    /\ hpc[i] = "run" /\ queue[i] # <<>>
    /\ LET n == IF Len(queue[i]) < WriteBatch THEN Len(queue[i]) ELSE WriteBatch IN
         /\ batch' = [batch EXCEPT ![i] = SubSeq(queue[i], 1, n)]
         /\ queue' = [queue EXCEPT ![i] = SubSeq(@, n + 1, Len(@))]
    /\ Touch(client[i])
    /\ Goto(i, "writing")
    /\ UNCHANGED <<sent, sessions, pendingById, expired, pendingClient, stop, channels, listener,
                   requests, unlinking, written>>

\* write_udp_frames_buffered returns.
Written(i) ==
    /\ hpc[i] = "writing"
    /\ written' = [written EXCEPT ![i] = @ \o batch[i]]
    /\ batch' = [batch EXCEPT ![i] = <<>>]
    /\ Goto(i, "run")
    /\ UNCHANGED <<sent, tables, stop, channels, queue, listener, requests, unlinking>>

\* It fails: what was in hand is lost.
WriteFailed(i) ==
    /\ hpc[i] = "writing"
    /\ batch' = [batch EXCEPT ![i] = <<>>]
    /\ Goto(i, "closing")
    /\ UNCHANGED <<sent, tables, stop, channels, queue, listener, requests, unlinking, written>>

\* read_batch: datagrams from the client go to the peer of this connection.
Forward(i) ==
    /\ hpc[i] = "run"
    /\ Touch(client[i])
    /\ UNCHANGED <<sent, sessions, pendingById, expired, pendingClient, stop, channels, queue,
                   listener, requests, unlinking, handlers>>

\* End of file or an error on the work connection
PeerCloses(i) ==
    /\ hpc[i] = "run"
    /\ Goto(i, "closing")
    /\ UNCHANGED <<sent, tables, stop, channels, queue, listener, requests, unlinking, batch,
                   written>>

\* The stop token, which the loop looks at between two writes
StopSeen(i) ==
    /\ hpc[i] = "run" /\ stop
    /\ Goto(i, "closing")
    /\ UNCHANGED <<sent, tables, stop, channels, queue, listener, requests, unlinking, batch,
                   written>>

KeepSession(i) == UNCHANGED <<sessions, idle>>

\* sessions.remove(client): whoever's session it is
RemoveSession(i) ==
    /\ sessions' = [sessions EXCEPT ![client[i]] = None]
    /\ Touch(client[i])

\* The handler returns and drops its receiver.
CloseWork(i) ==
    /\ hpc[i] = "closing"
    /\ RemoveSession(i)
    /\ Goto(i, "ended")
    /\ queue' = [queue EXCEPT ![i] = <<>>]
    /\ UNCHANGED <<sent, pendingById, expired, pendingClient, stop, channels, listener, requests,
                   unlinking, batch, written>>

-----------------------------------------------------------------------------
\* Clocks and the control session

SessionIdle(p) ==
    /\ sessions[p] # None /\ p \notin idle
    /\ idle' = idle \cup {p}
    /\ UNCHANGED <<sent, sessions, pendingById, expired, pendingClient, stop, channels, queue,
                   listener, requests, unlinking, handlers>>

PendingExpires(i) ==
    /\ i \in pendingById \ expired
    /\ expired' = expired \cup {i}
    /\ UNCHANGED <<sent, sessions, idle, pendingById, pendingClient, stop, channels, queue,
                   listener, requests, unlinking, handlers>>

\* cleanup of the control session aborts the listener and cancels stop.
Cleanup ==
    /\ ~stop
    /\ stop' = TRUE
    /\ UNCHANGED <<sent, tables, channels, queue, listener, requests, unlinking, handlers>>

ListenerNext ==
    \/ \E p \in Peer : Receive(p)
    \/ TrySend \/ LookUpPending \/ LookUpById
    \/ CheckLimit \/ InsertPending \/ Link \/ SpawnRequest
    \/ SweepSessions \/ SweepCollect \/ SweepDone \/ ListenerEnd
    \/ \E i \in Id : SweepTake(i) \/ SweepUnlink(i)

RequestNext(i) == RequestSent(i) \/ RequestFailed(i) \/ RequestUnlink(i)

HandlerNext(i) ==
    \/ WorkTake(i) \/ WorkUnlink(i) \/ RegisterSession(i) \/ TakeBatch(i)
    \/ Written(i) \/ WriteFailed(i) \/ Forward(i) \/ PeerCloses(i) \/ StopSeen(i)
    \/ CloseWork(i)

Next ==
    \/ ListenerNext
    \/ \E i \in Id : RequestNext(i) \/ Dial(i) \/ HandlerNext(i) \/ PendingExpires(i)
    \/ \E p \in Peer : SessionIdle(p)
    \/ Cleanup

Spec == Init /\ [][Next]_vars

\* What the runtime and the clocks give: a task that can go on does, the listener's
\* select takes the sweep's tick again and again, time passes.  Users, the client and
\* the control session owe nothing.
FairSpec ==
    /\ Spec
    /\ WF_vars(TrySend \/ LookUpPending \/ LookUpById)
    /\ WF_vars(CheckLimit \/ InsertPending \/ Link \/ SpawnRequest)
    /\ WF_vars(SweepCollect \/ SweepDone \/ \E i \in Id : SweepTake(i) \/ SweepUnlink(i))
    /\ SF_vars(SweepSessions)
    /\ WF_vars(ListenerEnd)
    /\ \A i \in Id :
         /\ WF_vars(RequestNext(i))
         /\ WF_vars(WorkTake(i) \/ WorkUnlink(i) \/ RegisterSession(i))
         /\ WF_vars(TakeBatch(i))
         /\ WF_vars(Written(i) \/ WriteFailed(i))
         /\ SF_vars(StopSeen(i))
         /\ WF_vars(CloseWork(i))
         /\ WF_vars(PendingExpires(i))

-----------------------------------------------------------------------------
\* Properties

TypeOK ==
    /\ sent \in [Peer -> 0..MaxSent]
    /\ sessions \in [Peer -> Id \cup {None}]
    /\ idle \subseteq Peer
    /\ pendingById \subseteq Id /\ expired \subseteq pendingById
    /\ pendingClient \in [Peer -> Id \cup {None}]
    /\ stop \in BOOLEAN
    /\ workId \in 0..MaxId
    /\ client \in [Id -> Peer \cup {None}]
    /\ opener \in [Id -> Datagram \cup {None}]
    /\ queue \in [Id -> Seq(Datagram)]
    /\ lpc \in LPC /\ hand \in Datagram \cup {None} /\ seen \in Id \cup {None}
    /\ sweeping \subseteq Id
    /\ asking \subseteq Id /\ asked \subseteq Id
    /\ unlinking \in [Id -> {None, "sweep", "request", "work"}]
    /\ hpc \in [Id -> HPC]
    /\ batch \in [Id -> Seq(Datagram)]
    /\ written \in [Id -> Seq(Datagram)]

\* The two pending tables, which have a lock each, agree but for the lock scopes of
\* the task that is changing them.  A reverse entry left behind would have every
\* later datagram of its peer dropped (udp.rs:251-269); a missing one would open a
\* second pending session for the peer.
PendingLinked ==
    /\ \A p \in Peer : pendingClient[p] # None =>
         /\ client[pendingClient[p]] = p
         /\ pendingClient[p] \in pendingById \/ unlinking[pendingClient[p]] # None
    /\ \A i \in pendingById :
         pendingClient[client[i]] = i \/ (lpc = "link" /\ seen = i)

\* The pending table never exceeds its limit, although the limit is checked in one lock
\* scope and the entry inserted in another, with tasks that remove entries in between
\* (udp.rs:274, 293): forged source addresses cannot fill it.
PendingBounded == Cardinality(pendingById) <= MaxPending

\* A session's queue has a handler that will read it or is about to remove the
\* session.  Otherwise each datagram of the peer would be dropped, and would renew
\* the session that drops it (udp.rs:221-251).
SessionServed ==
    \A p \in Peer : sessions[p] # None =>
        /\ client[sessions[p]] = p
        /\ hpc[sessions[p]] \in {"run", "writing", "closing"}

\* What work connection i has carried, carries and has queued.
Carried(i) == written[i] \o batch[i] \o queue[i]

\* A work connection carries datagrams of one peer only, each once, in the order
\* received, beginning with the one that opened the session (udp.rs:283-301).
InOrder ==
    \A i \in Id : Carried(i) # <<>> /\ hpc[i] # "closing" /\ hpc[i] # "ended" =>
        /\ Head(Carried(i)) = opener[i]
        /\ \A k \in DOMAIN Carried(i) : Carried(i)[k][1] = client[i]
        /\ \A j, k \in DOMAIN Carried(i) : j < k => Carried(i)[j][2] < Carried(i)[k][2]

\* A pending session is paired or removed in the end, or goes with its listener: a
\* lost request or a client that never dials does not keep it (udp.rs:331-339).
PendingSettles ==
    \A i \in Id : i \in pendingById ~> (i \notin pendingById \/ lpc = "ended")

\* A handler that is no longer the session of its peer, swept after session_timeout,
\* ends and closes its work connection: DESIGN 8.6.
IdleReleased ==
    \A i \in Id : (hpc[i] = "run" /\ sessions[client[i]] # i) ~> hpc[i] = "ended"

=============================================================================
