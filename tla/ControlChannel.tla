--------------------------- MODULE ControlChannel ---------------------------
(***************************************************************************)
(* One end of a control connection after login, with the three tasks it    *)
(* has there: the loop that reads the connection, the writer that drains   *)
(* the outgoing channel, and the heartbeat.  handle_control_login in rfrps *)
(* and control_loop in rfrpc have the same tasks; they differ in what a    *)
(* message makes the loop do, and side says which of the two it is.        *)
(*                                                                         *)
(* The peer is left free: it reads and answers when it likes, sends what   *)
(* the protocol lets it send, closes, or falls silent without a trace (the *)
(* half-open connection).  A heartbeat carries the wall clock and is       *)
(* answered with the same value; a round passes when the value last        *)
(* answered is not less than its own.  While the clock goes forward this   *)
(* tells the current round from earlier ones, so a heartbeat of ours is a  *)
(* "ping", or an "oldping" once the next round has begun, and its answer a *)
(* "pong" or an "oldpong".  A clock that is set back (ClockSteps) may make *)
(* an old answer look new.  Timers may strike at any time, and do in the   *)
(* end.                                                                    *)
(***************************************************************************)
EXTENDS Naturals, Sequences

CONSTANTS
    OutCap,         \* capacity of the outgoing channel
    WireCap,        \* messages the connection buffers in one direction
    ClockSteps,     \* the wall clock may be set back
    None

ASSUME ChannelAssumption ==
    OutCap \in Nat \ {0} /\ WireCap \in Nat \ {0} /\ ClockSteps \in BOOLEAN

\* Heartbeat and HeartbeatResp of ours; the peer's Heartbeat and our answer; requests
\* (NewProxy, ReqWorkConn), their answers, and Close
OutMsg == {"ping", "oldping", "resp", "ask", "answer", "close"}
InMsg  == {"pong", "oldpong", "heartbeat", "ask", "answer", "close"}

VARIABLES
    side,           \* "server" or "client"
    replaced,       \* history: has a login replaced the server's session, and was it heard
    net,            \* "up"; "eof": the peer is gone; "silent": half-open
    sent, inbox,    \* messages on their way to the peer, and from it
    quit,           \* the shutdown token is cancelled
    \* the loop
    lpc,            \* where it is
    disconnect,     \* the heartbeat has given the connection up
    \* the writer
    out,            \* the outgoing channel
    wpc, wmsg,      \* where it is; the message it is writing
    \* the heartbeat
    hpc,            \* where it is
    fresh,          \* pong_ts is not less than the ts of this round
    permit,         \* the permit that pong.notify_one has left
    answered        \* the peer has answered this round

session   == <<side, replaced>>
writer    == <<wpc, wmsg>>
heartbeat == <<hpc, fresh, permit, answered>>

vars == <<session, net, sent, inbox, quit, lpc, disconnect, out, writer, heartbeat>>

Init ==
    /\ side \in {"server", "client"} /\ replaced = "no"
    /\ net = "up"
    /\ sent = <<>> /\ inbox = <<>>
    /\ quit = FALSE
    /\ lpc = "select" /\ disconnect = FALSE
    /\ out = <<>> /\ wpc = "recv" /\ wmsg = None
    /\ hpc = "wait" /\ fresh = FALSE /\ permit = FALSE /\ answered = FALSE

-----------------------------------------------------------------------------
\* The outgoing channel; its receiver lives in the writer.

HasRoom == wpc # "ended" /\ Len(out) < OutCap
Put(m) == out' = Append(out, m)

TrySend(m) == IF HasRoom THEN Put(m) ELSE UNCHANGED out

\* The writer task is gone, and the receiver with it.
WriterEnds == wpc' = "ended" /\ wmsg' = None /\ out' = <<>>

\* The heartbeat task is gone, and what it has seen.
HeartbeatEnds == hpc' = "ended" /\ fresh' = FALSE /\ permit' = FALSE /\ answered' = FALSE

-----------------------------------------------------------------------------
\* The loop

\* break, and the teardown begins: the heartbeat is aborted.
LeaveLoop == lpc' = "drain" /\ HeartbeatEnds

ReturnEarly == lpc' = "ended" /\ UNCHANGED heartbeat

\* The loop is left for what it reads: the end of the stream, or a frame that cannot be
\* decoded.
Break == LeaveLoop

Arrives(ms) == lpc = "select" /\ net # "silent" /\ inbox # <<>> /\ Head(inbox) \in ms

\* Heartbeat: answered at once or, when the channel is full, not at all.
OnHeartbeat ==
    /\ Arrives({"heartbeat"})
    /\ TrySend("resp")
    /\ inbox' = Tail(inbox)
    /\ UNCHANGED <<session, net, sent, quit, lpc, disconnect, writer, heartbeat>>

\* HeartbeatResp: pong_ts takes its value, and the heartbeat task is notified.
OnHeartbeatResp ==
    /\ Arrives({"pong", "oldpong"})
    /\ IF hpc = "ended" THEN UNCHANGED <<fresh, permit, answered>>
       ELSE /\ fresh' \in (IF Head(inbox) = "pong" THEN {TRUE} ELSE {FALSE, ClockSteps})
            /\ answered' = (answered \/ Head(inbox) = "pong")
            /\ permit' = TRUE
    /\ inbox' = Tail(inbox)
    /\ UNCHANGED <<session, net, sent, quit, lpc, disconnect, out, writer, hpc>>

\* NewProxy, which the server's loop answers itself; ReqWorkConn, which the client
\* hands to a task; NewProxyResp, which goes to the registration that waits for it.
OnRequest ==
    /\ Arrives({"ask", "answer"})
    /\ lpc' = IF side = "server" /\ Head(inbox) = "ask" THEN "sending" ELSE lpc
    /\ inbox' = Tail(inbox)
    /\ UNCHANGED <<session, net, sent, quit, disconnect, out, writer, heartbeat>>

OnClose ==
    /\ Arrives({"close"})
    /\ LeaveLoop
    /\ inbox' = Tail(inbox)
    /\ UNCHANGED <<session, net, sent, quit, disconnect, out, writer>>

\* A frame that cannot be read or decoded
OnBadFrame ==
    /\ Arrives(InMsg)
    /\ Break
    /\ inbox' = Tail(inbox)
    /\ UNCHANGED <<session, net, sent, quit, disconnect, out, writer>>

OnEof ==
    /\ lpc = "select" /\ net = "eof" /\ inbox = <<>>
    /\ Break
    /\ UNCHANGED <<session, net, sent, inbox, quit, disconnect, out, writer>>

\* The client's loop takes a NewProxy from the registration code.
OnCommand ==
    /\ side = "client" /\ lpc = "select"
    /\ lpc' = "sending"
    /\ UNCHANGED <<session, net, sent, inbox, quit, disconnect, out, writer, heartbeat>>

\* send_with_timeout in the loop, which reads nothing meanwhile
SendDone ==
    /\ lpc = "sending" /\ HasRoom
    /\ Put(IF side = "server" THEN "answer" ELSE "ask")
    /\ lpc' = "select"
    /\ UNCHANGED <<session, net, sent, inbox, quit, disconnect, writer, heartbeat>>

Congested == wpc # "ended" /\ ~HasRoom

\* The channel is closed, or stays full for CONTROL_SEND_TIMEOUT.
CannotSend == ~HasRoom

SendFails ==
    /\ lpc = "sending" /\ CannotSend
    /\ LeaveLoop
    /\ UNCHANGED <<session, net, sent, inbox, quit, disconnect, out, writer>>

OnDisconnect ==
    /\ lpc = "select" /\ disconnect
    /\ LeaveLoop
    /\ UNCHANGED <<session, net, sent, inbox, quit, disconnect, out, writer>>

OnQuit ==
    /\ lpc = "select" /\ quit
    /\ LeaveLoop
    /\ UNCHANGED <<session, net, sent, inbox, quit, disconnect, out, writer>>

\* The writer has ended, or is aborted after a second; the connection is dropped.
Teardown ==
    /\ lpc = "drain"
    /\ lpc' = "ended"
    /\ WriterEnds
    /\ UNCHANGED <<session, net, sent, inbox, quit, disconnect, heartbeat>>

-----------------------------------------------------------------------------
\* The writer

WriterTakes ==
    /\ wpc = "recv" /\ out # <<>>
    /\ wpc' = "writing" /\ wmsg' = Head(out)
    /\ out' = Tail(out)
    /\ UNCHANGED <<session, net, sent, inbox, quit, lpc, disconnect, heartbeat>>

WriterWrites ==
    /\ wpc = "writing" /\ Len(sent) < WireCap
    /\ sent' = Append(sent, wmsg)
    /\ wpc' = "recv" /\ wmsg' = None
    /\ UNCHANGED <<session, net, inbox, quit, lpc, disconnect, out, heartbeat>>

\* CONTROL_SEND_TIMEOUT, or an error of the connection
WriterFails ==
    /\ wpc = "writing"
    /\ WriterEnds
    /\ UNCHANGED <<session, net, sent, inbox, quit, lpc, disconnect, heartbeat>>

\* The shutdown token: graceful_close, which has no timeout.  So has the end of the
\* channel, at the client alone: the server's session keeps a sender.
WriterQuits ==
    /\ wpc = "recv"
    /\ \/ quit /\ wpc' = "closing"
       \/ /\ side = "client" /\ lpc = "drain" /\ out = <<>>
          /\ wpc' = IF quit THEN "closing" ELSE "ended"
    /\ UNCHANGED <<session, net, sent, inbox, quit, lpc, disconnect, out, wmsg, heartbeat>>

\* Sends Close and goes on with its loop.
WriterClosesAndGoesOn ==
    /\ wpc = "closing" /\ Len(sent) < WireCap
    /\ sent' = Append(sent, "close")
    /\ wpc' = "recv"
    /\ UNCHANGED <<session, net, inbox, quit, lpc, disconnect, out, wmsg, heartbeat>>

WriterCloses ==
    /\ wpc = "closing" /\ Len(sent) < WireCap
    /\ sent' = Append(sent, "close")
    /\ WriterEnds
    /\ UNCHANGED <<session, net, inbox, quit, lpc, disconnect, heartbeat>>

-----------------------------------------------------------------------------
\* The heartbeat

AgePing(m) == IF m = "ping" THEN "oldping" ELSE m
AgePong(m) == IF m = "pong" THEN "oldpong" ELSE m
Map(f(_), s) == [k \in DOMAIN s |-> f(s[k])]

\* The interval has passed: a round begins with the time read, and what is under way
\* belongs to earlier rounds.
Tick ==
    /\ hpc = "wait"
    /\ hpc' = "sending"
    /\ fresh' \in {FALSE, ClockSteps /\ fresh}
    /\ answered' = FALSE
    /\ sent' = Map(AgePing, sent) /\ out' = Map(AgePing, out)
    /\ wmsg' = IF wmsg = "ping" THEN "oldping" ELSE wmsg
    /\ inbox' = Map(AgePong, inbox)
    /\ UNCHANGED <<session, net, quit, lpc, disconnect, wpc, permit>>

Ping ==
    /\ hpc = "sending" /\ HasRoom
    /\ Put("ping")
    /\ hpc' = "await"
    /\ UNCHANGED <<session, net, sent, inbox, quit, lpc, disconnect, writer, fresh, permit, answered>>

SkipRound ==
    /\ hpc = "sending" /\ ~HasRoom
    /\ hpc' = "wait"
    /\ UNCHANGED <<session, net, sent, inbox, quit, lpc, disconnect, out, writer, fresh, permit,
                   answered>>

\* The channel is closed, or stays full for CONTROL_SEND_TIMEOUT.
PingFails ==
    /\ hpc = "sending" /\ ~HasRoom
    /\ disconnect' = TRUE
    /\ HeartbeatEnds
    /\ UNCHANGED <<session, net, sent, inbox, quit, lpc, out, writer>>

AnyAnswer == fresh \/ permit

\* pong_ts has reached the ts of this round.
Answered == fresh

Pass ==
    /\ hpc = "await" /\ Answered
    /\ hpc' = "wait"
    /\ UNCHANGED <<session, net, sent, inbox, quit, lpc, disconnect, out, writer, fresh, permit,
                   answered>>

Park ==
    /\ hpc = "await" /\ ~Answered
    /\ hpc' = "parked"
    /\ UNCHANGED <<session, net, sent, inbox, quit, lpc, disconnect, out, writer, fresh, permit,
                   answered>>

Notified ==
    /\ hpc = "parked" /\ permit
    /\ permit' = FALSE
    /\ hpc' = "await"
    /\ UNCHANGED <<session, net, sent, inbox, quit, lpc, disconnect, out, writer, fresh, answered>>

\* HEARTBEAT_TIMEOUT has passed.
PongTimeout ==
    /\ hpc = "parked"
    /\ disconnect' = TRUE
    /\ HeartbeatEnds
    /\ UNCHANGED <<session, net, sent, inbox, quit, lpc, out, writer>>

-----------------------------------------------------------------------------
\* The rest of this end, and the peer

\* Another task of the server asks for a work connection.
ServerAsks ==
    /\ side = "server" /\ lpc # "ended" /\ HasRoom
    /\ Put("ask")
    /\ UNCHANGED <<session, net, sent, inbox, quit, lpc, disconnect, writer, heartbeat>>

\* notify_waiters finds a task out of its select, or the select has another branch ready
\* and takes that one: the notification is lost on it.
LoopMisses ==
    lpc = "select" => (net # "silent" /\ inbox # <<>>) \/ net = "eof" \/ disconnect \/ quit
WriterMisses == wpc = "recv" => out # <<>> \/ quit

\* A login replaces the server's session, once: cleanup notifies the loop and the writer.
Replaced ==
    /\ side = "server" /\ replaced = "no"
    /\ \/ lpc = "select" /\ LeaveLoop
       \/ LoopMisses /\ UNCHANGED <<lpc, heartbeat>>
    /\ \/ wpc = "recv" /\ wpc' = "closing"
       \/ WriterMisses /\ UNCHANGED wpc
    /\ replaced' = IF <<lpc, wpc>>' = <<lpc, wpc>> THEN "unheard" ELSE "heard"
    /\ UNCHANGED <<side, net, sent, inbox, quit, disconnect, out, wmsg>>

Quit ==
    /\ ~quit
    /\ quit' = TRUE
    /\ UNCHANGED <<session, net, sent, inbox, lpc, disconnect, out, writer, heartbeat>>

Reply(m) == CASE m = "ping" -> <<"pong">> [] m = "oldping" -> <<"oldpong">> [] OTHER -> <<>>

\* The peer reads a message and answers a heartbeat, unless its own channel is full.
PeerReads ==
    /\ net = "up" /\ sent # <<>>
    /\ inbox' \in {inbox, inbox \o Reply(Head(sent))}
    /\ Len(inbox') <= WireCap
    /\ sent' = Tail(sent)
    /\ UNCHANGED <<session, net, quit, lpc, disconnect, out, writer, heartbeat>>

PeerSends ==
    /\ net = "up" /\ Len(inbox) < WireCap
    /\ \E m \in {"heartbeat", "ask", "close"} \cup (IF side = "client" THEN {"answer"} ELSE {}) :
         inbox' = Append(inbox, m)
    /\ UNCHANGED <<session, net, sent, quit, lpc, disconnect, out, writer, heartbeat>>

PeerCloses ==
    /\ net = "up"
    /\ net' = "eof"
    /\ UNCHANGED <<session, sent, inbox, quit, lpc, disconnect, out, writer, heartbeat>>

\* The path goes down, or the peer hangs: nothing more arrives, and nothing fails.
Silence ==
    /\ net = "up"
    /\ net' = "silent"
    /\ UNCHANGED <<session, sent, inbox, quit, lpc, disconnect, out, writer, heartbeat>>

Receive == OnHeartbeat \/ OnHeartbeatResp \/ OnRequest \/ OnClose \/ OnBadFrame \/ OnEof

Writer == WriterTakes \/ WriterWrites \/ WriterFails \/ WriterQuits \/ WriterCloses

Heartbeat == Tick \/ Ping \/ PingFails \/ Pass \/ Park \/ Notified \/ PongTimeout

Next ==
    \/ Receive \/ OnCommand \/ SendDone \/ SendFails \/ OnDisconnect \/ OnQuit \/ Teardown
    \/ Writer \/ Heartbeat
    \/ ServerAsks \/ Replaced \/ Quit \/ PeerReads \/ PeerSends \/ PeerCloses \/ Silence

Spec == Init /\ [][Next]_vars

\* Tasks run and timers strike; select takes a branch that is ready again and again.
\* Nothing is asked of the peer.
FairSpec ==
    /\ Spec
    /\ SF_vars(Receive) /\ SF_vars(OnDisconnect) /\ SF_vars(OnQuit)
    /\ WF_vars(SendDone \/ SendFails) /\ WF_vars(Teardown)
    /\ WF_vars(Writer)
    /\ WF_vars(Heartbeat) /\ SF_vars(PongTimeout)

-----------------------------------------------------------------------------
\* Properties

TypeOK ==
    /\ side \in {"server", "client"} /\ replaced \in {"no", "heard", "unheard"}
    /\ net \in {"up", "eof", "silent"}
    /\ sent \in Seq(OutMsg) /\ Len(sent) <= WireCap
    /\ inbox \in Seq(InMsg) /\ Len(inbox) <= WireCap
    /\ quit \in BOOLEAN /\ disconnect \in BOOLEAN
    /\ lpc \in {"select", "sending", "drain", "ended"}
    /\ out \in Seq(OutMsg) /\ Len(out) <= OutCap
    /\ wpc \in {"recv", "writing", "closing", "ended"} /\ wmsg \in OutMsg \cup {None}
    /\ hpc \in {"wait", "sending", "await", "parked", "ended"}
    /\ fresh \in BOOLEAN /\ permit \in BOOLEAN /\ answered \in BOOLEAN

\* A round of the heartbeat passes only if the peer has answered this round: a permit
\* left by an earlier answer does not count (control.rs:250-252, 278-284).
RoundAnswered == [][hpc = "await" /\ hpc' = "wait" => answered]_vars

\* A half-open connection is given up although no read returns, also when the channel
\* is full, the writer is blocked or gone, and the loop waits to send
\* (control.rs:261-276, rfrpc control.rs:104-130).
HalfOpenDetected == (net = "silent") ~> (lpc = "ended")

\* When the loop has returned, its writer and its heartbeat are gone, whatever made it
\* return (control.rs:308-319, 403-409, rfrpc control.rs:161-169, 244-254).
NoLeakedTasks == lpc = "ended" => hpc = "ended" /\ wpc = "ended"

\* A peer that is gone or a shutdown ends the loop, and so does the end of its writer,
\* whose errors the loop is not told of: a connection that can no longer be written to
\* is not kept, whatever else the peer does (control.rs:190-202, 265-276).
EndsWhenOver == (quit \/ net = "eof" \/ wpc = "ended") ~> (lpc = "ended")

\* A replaced session ends if one of its two tasks hears of it: also when only the writer
\* does, which tells nobody, and the peer goes on sending (control.rs:216-219, 392-395).
ReplacedEnds == (replaced = "heard") ~> (lpc = "ended")

\* DESIGN.md:1475: the login of the same run_id wakes the old control loop, which exits.
\* The loop may be registering a proxy or sending the reply, and the writer writing, when
\* the one notification is given (control.rs:449): then only the peer or the heartbeat
\* could end the connection, and a peer that answers keeps it.
ReplacedAlwaysEnds == (replaced # "no") ~> (lpc = "ended")

=============================================================================
