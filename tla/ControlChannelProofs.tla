------------------------ MODULE ControlChannelProofs ------------------------
(***************************************************************************)
(* What holds of a control connection for any capacities of its channel    *)
(* and its connection: the tasks end before the loop does, and a heartbeat *)
(* round is passed by an answer to this round.                             *)
(***************************************************************************)
EXTENDS ControlChannel, TLAPS

\* The teardown ends the heartbeat first and the writer before the loop returns.
TaskInv ==
    /\ lpc \in {"drain", "ended"} => hpc = "ended"
    /\ lpc = "ended" => wpc = "ended"

\* Everything the loop, the writer and the peer do
LEMMA LoopKeepsTasks ==
    ASSUME TaskInv,
           Receive \/ OnCommand \/ SendDone \/ SendFails \/ OnDisconnect \/ OnQuit \/ Teardown
    PROVE  TaskInv'
<1>1. CASE OnHeartbeat
  BY <1>1 DEF OnHeartbeat, TaskInv, Arrives, writer, heartbeat
<1>2. CASE OnHeartbeatResp
  BY <1>2 DEF OnHeartbeatResp, TaskInv, Arrives, writer
<1>3. CASE OnRequest
  BY <1>3 DEF OnRequest, TaskInv, Arrives, writer, heartbeat
<1>4. CASE OnClose \/ OnBadFrame \/ OnEof
  BY <1>4 DEF OnClose, OnBadFrame, OnEof, Break, LeaveLoop, HeartbeatEnds, TaskInv, Arrives
<1>5. CASE OnCommand \/ SendDone
  BY <1>5 DEF OnCommand, SendDone, TaskInv, writer, heartbeat
<1>6. CASE SendFails \/ OnDisconnect \/ OnQuit
  BY <1>6 DEF SendFails, OnDisconnect, OnQuit, LeaveLoop, HeartbeatEnds, TaskInv
<1>7. CASE Teardown
  BY <1>7 DEF Teardown, WriterEnds, TaskInv, heartbeat
<1> QED
  BY <1>1, <1>2, <1>3, <1>4, <1>5, <1>6, <1>7 DEF Receive

LEMMA OthersKeepTasks ==
    ASSUME TaskInv,
           Writer \/ Heartbeat \/ ServerAsks \/ Replaced \/ Quit \/ PeerReads \/ PeerSends
             \/ PeerCloses \/ Silence
    PROVE  TaskInv'
<1>1. CASE Writer
  BY <1>1 DEF Writer, WriterTakes, WriterWrites, WriterFails, WriterQuits, WriterCloses,
     WriterEnds, TaskInv, heartbeat
<1>2. CASE Heartbeat
  BY <1>2 DEF Heartbeat, Tick, Ping, PingFails, Pass, Park, Notified, PongTimeout,
     HeartbeatEnds, TaskInv, writer
<1>3. CASE ServerAsks \/ Quit \/ PeerReads \/ PeerSends \/ PeerCloses \/ Silence
  BY <1>3 DEF ServerAsks, Quit, PeerReads, PeerSends, PeerCloses, Silence, TaskInv, writer,
     heartbeat
<1>4. CASE Replaced
  BY <1>4 DEF Replaced, LeaveLoop, HeartbeatEnds, TaskInv, heartbeat
<1> QED
  BY <1>1, <1>2, <1>3, <1>4

\* When the loop has returned, for whatever reason, its heartbeat was aborted and its
\* writer has ended (control.rs:403-409, rfrpc control.rs:244-254).
THEOREM TasksNeverLeak == Spec => []NoLeakedTasks
<1>1. Init => TaskInv
  BY DEF Init, TaskInv
<1>2. TaskInv /\ [Next]_vars => TaskInv'
  <2> SUFFICES ASSUME TaskInv, [Next]_vars PROVE TaskInv'
    OBVIOUS
  <2>1. CASE UNCHANGED vars
    BY <2>1 DEF vars, writer, heartbeat, TaskInv
  <2>2. CASE Next
    BY <2>2, LoopKeepsTasks, OthersKeepTasks DEF Next
  <2> QED
    BY <2>1, <2>2
<1>3. TaskInv => NoLeakedTasks
  BY DEF TaskInv, NoLeakedTasks
<1> QED
  BY <1>1, <1>2, <1>3, PTL DEF Spec

-----------------------------------------------------------------------------
\* While the clock is not set back, a pong_ts that is not less than the round's ts is
\* the answer to this round.
FreshInv == fresh \in BOOLEAN /\ answered \in BOOLEAN /\ (fresh => answered)

\* What the heartbeat task itself and the loop's handling of an answer do
LEMMA AnswersKeepFresh ==
    ASSUME ClockSteps = FALSE, FreshInv, OnHeartbeatResp \/ Heartbeat
    PROVE  FreshInv'
<1>1. CASE OnHeartbeatResp
  <2>1. CASE hpc = "ended"
    BY <1>1, <2>1 DEF OnHeartbeatResp, FreshInv
  <2>2. CASE hpc # "ended" /\ Head(inbox) = "pong"
    BY <1>1, <2>2 DEF OnHeartbeatResp, FreshInv
  <2>3. CASE hpc # "ended" /\ Head(inbox) # "pong"
    BY <1>1, <2>3 DEF OnHeartbeatResp, FreshInv
  <2> QED
    BY <2>1, <2>2, <2>3
<1>2. CASE Tick
  <2>1. fresh' = FALSE /\ answered' = FALSE
    BY <1>2 DEF Tick
  <2> QED
    BY <2>1 DEF FreshInv
<1>3. CASE Ping \/ Pass \/ Park \/ Notified
  BY <1>3 DEF Ping, Pass, Park, Notified, FreshInv
<1>4. CASE PingFails \/ PongTimeout
  BY <1>4 DEF PingFails, PongTimeout, HeartbeatEnds, FreshInv
<1> QED
  BY <1>1, <1>2, <1>3, <1>4 DEF Heartbeat

LEMMA StepKeepsFresh ==
    ASSUME ClockSteps = FALSE, FreshInv, Next
    PROVE  FreshInv'
<1>1. CASE OnHeartbeatResp \/ Heartbeat
  BY <1>1, AnswersKeepFresh
<1>2. CASE OnHeartbeat \/ OnRequest \/ OnCommand \/ SendDone \/ Teardown \/ Writer
  BY <1>2 DEF OnHeartbeat, OnRequest, OnCommand, SendDone, Teardown, Writer, WriterTakes,
     WriterWrites, WriterFails, WriterQuits, WriterCloses, FreshInv, heartbeat
<1>3. CASE OnClose \/ OnBadFrame \/ OnEof \/ SendFails \/ OnDisconnect \/ OnQuit
  BY <1>3 DEF OnClose, OnBadFrame, OnEof, SendFails, OnDisconnect, OnQuit, Break, LeaveLoop,
     HeartbeatEnds, FreshInv
<1>4. CASE ServerAsks \/ Quit \/ PeerReads \/ PeerSends \/ PeerCloses \/ Silence
  BY <1>4 DEF ServerAsks, Quit, PeerReads, PeerSends, PeerCloses, Silence, FreshInv, heartbeat
<1>5. CASE Replaced
  <2>1. CASE LeaveLoop
    BY <2>1 DEF LeaveLoop, HeartbeatEnds, FreshInv
  <2>2. CASE UNCHANGED heartbeat
    BY <2>2 DEF FreshInv, heartbeat
  <2> QED
    BY <1>5, <2>1, <2>2 DEF Replaced, heartbeat
<1> QED
  BY <1>1, <1>2, <1>3, <1>4, <1>5 DEF Next, Receive

\* Only Pass takes the heartbeat from await back to wait.
LEMMA OnlyPassPasses ==
    ASSUME Next, hpc = "await", hpc' = "wait"
    PROVE  fresh
<1>1. CASE Heartbeat
  BY <1>1 DEF Heartbeat, Tick, Ping, PingFails, Pass, Park, Notified, PongTimeout,
     HeartbeatEnds, Answered
<1>2. CASE Receive \/ OnCommand \/ SendDone \/ SendFails \/ OnDisconnect \/ OnQuit \/ Teardown
  BY <1>2 DEF Receive, OnHeartbeat, OnHeartbeatResp, OnRequest, OnClose, OnBadFrame, OnEof,
     OnCommand, SendDone, SendFails, OnDisconnect, OnQuit, Teardown, Break, LeaveLoop,
     HeartbeatEnds, heartbeat
<1>3. CASE Writer
  BY <1>3 DEF Writer, WriterTakes, WriterWrites, WriterFails, WriterQuits, WriterCloses,
     heartbeat
<1>4. CASE ServerAsks \/ Replaced \/ Quit \/ PeerReads \/ PeerSends \/ PeerCloses \/ Silence
  BY <1>4 DEF ServerAsks, Replaced, Quit, PeerReads, PeerSends, PeerCloses, Silence, LeaveLoop,
     HeartbeatEnds, heartbeat
<1> QED
  BY <1>1, <1>2, <1>3, <1>4 DEF Next

\* While the wall clock is not set back, no heartbeat round is passed by the answer to
\* an earlier one or by a stored permit (control.rs:277-288, rfrpc control.rs:131-142).
THEOREM RoundsAreAnswered == ASSUME ClockSteps = FALSE PROVE Spec => RoundAnswered
<1>1. Init => FreshInv
  BY DEF Init, FreshInv
<1>2. FreshInv /\ [Next]_vars => FreshInv'
  <2> SUFFICES ASSUME FreshInv, [Next]_vars PROVE FreshInv'
    OBVIOUS
  <2>1. CASE UNCHANGED vars
    BY <2>1 DEF vars, heartbeat, FreshInv
  <2>2. CASE Next
    BY <2>2, StepKeepsFresh
  <2> QED
    BY <2>1, <2>2
<1>3. FreshInv /\ [Next]_vars => [hpc = "await" /\ hpc' = "wait" => answered]_vars
  BY OnlyPassPasses DEF FreshInv
<1> QED
  BY <1>1, <1>2, <1>3, PTL DEF Spec, RoundAnswered

=============================================================================
