-------------------------- MODULE ServerLifeProofs --------------------------
(***************************************************************************)
(* What holds of an rfrps process for any number of connections and any    *)
(* limits: the TLS rules of the bind port, the persistence of the          *)
(* listeners, and the limits on logins and dashboard requests.             *)
(***************************************************************************)
EXTENDS ServerLife, FiniteSetTheorems, TLAPS

\* The accept loop is at its errors' limit only between the error and is_fatal, and the
\* count since the last good accept is the retry's own.
LoopInv ==
    /\ bad = errs
    /\ lpc \in {"new", "accept", "drain"} => errs < FatalErrs
    /\ lpc = "failed" /\ opc # "none" => errs = FatalErrs
    /\ lpc \in {"drain", "returned"} => shutdown
    /\ lpc = "new" <=> (opc = "none" /\ lpc # "failed")
    /\ opc = "ended" => shutdown \/ lpc = "failed"

\* TypeOK in two halves, the flags and the rest
Flags ==
    /\ tlsEnable \in BOOLEAN /\ workTls \in BOOLEAN
    /\ shutdown \in BOOLEAN /\ accepting \in BOOLEAN /\ graceOver \in BOOLEAN
    /\ failOpen \in BOOLEAN /\ reqOpen \in BOOLEAN

Counts ==
    /\ other \in Loops
    /\ lpc \in {"new", "accept", "error", "drain", "returned", "failed"}
    /\ errs \in 0..FatalErrs /\ bad \in 0..FatalErrs
    /\ opc \in {"none", "wait", "busy", "ended"}
    /\ pc \in [Conn -> {"free"} \cup BindPc \cup HttpPc] /\ secure \in [Conn -> BOOLEAN]
    /\ fails \in Nat /\ reqs \in 0..RequestLimit
    /\ tried \in Nat /\ answered \in Nat

LEMMA TypeParts == TypeOK <=> Flags /\ Counts
BY DEF TypeOK, Flags, Counts

LEMMA FlagsStep == Flags /\ [Next]_vars => Flags'
<1> SUFFICES ASSUME Flags, [Next]_vars PROVE Flags'
  OBVIOUS
<1> USE DEF Flags, config, loop, logins, web
<1>1. CASE UNCHANGED vars
  BY <1>1, Zenon DEF vars
<1>2. CASE Start \/ OtherBusy \/ OtherResumes \/ OtherEnds
  BY <1>2, Zenon DEF Start, OtherBusy, OtherResumes, OtherEnds
<1>3. CASE Shutdown \/ StopAccepting \/ GraceElapses
  BY <1>3, Zenon DEF Shutdown, StopAccepting, GraceElapses
<1>4. CASE AcceptErr \/ Backoff
  BY <1>4, Zenon DEF AcceptErr, Backoff
<1>5. CASE GiveUp \/ Return
  BY <1>5, Zenon DEF GiveUp, Return, DropTasks
<1>6. CASE FailureWindowEnds \/ RequestWindowEnds
  BY <1>6, Zenon DEF FailureWindowEnds, RequestWindowEnds
<1>7. ASSUME NEW c \in Conn, AcceptOk(c) \/ JoinNext(c) \/ HttpAccept(c) PROVE Flags'
  BY <1>7, Zenon DEF AcceptOk, JoinNext, HttpAccept
<1>8. ASSUME NEW c \in Conn, Handle(c) PROVE Flags'
  <2> USE DEF Goto, Done
  <2>1. CASE Timeout(c) \/ PeerFails(c) \/ FirstByte(c) \/ HandshakeDone(c) \/ FirstFrame(c)
    BY <2>1, Zenon DEF Timeout, PeerFails, FirstByte, HandshakeDone, FirstFrame
  <2>2. CASE LoginAllowed(c) \/ Rejected(c) \/ ControlEnds(c)
    BY <2>2, Zenon DEF LoginAllowed, Rejected, ControlEnds
  <2>3. CASE LoginRefused(c)
    BY <2>3, Zenon DEF LoginRefused, RecordFailure
  <2>4. CASE LoginAccepted(c)
    BY <2>4, Zenon DEF LoginAccepted
  <2> QED
    BY <1>8, <2>1, <2>2, <2>3, <2>4 DEF Handle
<1>9. ASSUME NEW c \in Conn, Serve(c) PROVE Flags'
  <2> USE DEF Goto, Closed
  <2>1. CASE Requested(c)
    BY <2>1, Zenon DEF Requested
  <2>2. CASE HttpTimeout(c) \/ HttpEnds(c) \/ HttpTlsDone(c) \/ Routed(c) \/ BodyRead(c)
    BY <2>2, Zenon DEF HttpTimeout, HttpEnds, HttpTlsDone, Routed, BodyRead
  <2> QED
    BY <1>9, <2>1, <2>2 DEF Serve
<1> QED
  BY <1>1, <1>2, <1>3, <1>4, <1>5, <1>6, <1>7, <1>8, <1>9 DEF Next

\* A step of a connection task
LEMMA ConnCounts ==
    ASSUME Counts, NEW c \in Conn, Handle(c) \/ Serve(c)
    PROVE  Counts'
<1> USE ServerAssumption DEF Counts, BindPc, HttpPc, Goto, Done, Closed, config, loop, logins, web
<1>0. UNCHANGED <<config, shutdown, loop, opc>>
  BY DEF Handle, Serve, Timeout, PeerFails, FirstByte, HandshakeDone, FirstFrame, LoginAllowed,
     LoginRefused, LoginAccepted, Rejected, ControlEnds, HttpTimeout, HttpEnds, HttpTlsDone,
     Routed, Requested, BodyRead
<1>1. pc' \in [Conn -> {"free"} \cup BindPc \cup HttpPc] /\ secure' \in [Conn -> BOOLEAN]
  <2>1. CASE Timeout(c) \/ PeerFails(c) \/ FirstByte(c) \/ HandshakeDone(c) \/ FirstFrame(c)
    BY <2>1 DEF Timeout, PeerFails, FirstByte, HandshakeDone, FirstFrame
  <2>2. CASE LoginAllowed(c) \/ LoginRefused(c) \/ LoginAccepted(c) \/ Rejected(c) \/ ControlEnds(c)
    BY <2>2 DEF LoginAllowed, LoginRefused, LoginAccepted, Rejected, ControlEnds
  <2>3. CASE Serve(c)
    BY <2>3 DEF Serve, HttpTimeout, HttpEnds, HttpTlsDone, Routed, Requested, BodyRead
  <2> QED
    BY <2>1, <2>2, <2>3 DEF Handle
<1>2. fails' \in Nat /\ tried' \in Nat
  <2>1. CASE LoginRefused(c)
    <3>1. Cardinality(Conn) \in Nat
      BY FS_CardinalityType
    <3> QED
      BY <2>1, <3>1 DEF LoginRefused, RecordFailure, Capped
  <2>2. CASE LoginAccepted(c)
    BY <2>2 DEF LoginAccepted
  <2>3. CASE UNCHANGED logins
    BY <2>3
  <2> QED
    BY <2>1, <2>2, <2>3 DEF Handle, Serve, Timeout, PeerFails, FirstByte, HandshakeDone,
       FirstFrame, LoginAllowed, Rejected, ControlEnds, HttpTimeout, HttpEnds, HttpTlsDone,
       Routed, Requested, BodyRead
<1>3. reqs' \in 0..RequestLimit /\ answered' \in Nat
  <2>1. CASE Requested(c)
    BY <2>1 DEF Requested, Allow, Capped
  <2>2. CASE UNCHANGED web
    BY <2>2
  <2> QED
    BY <2>1, <2>2 DEF Handle, Serve, Timeout, PeerFails, FirstByte, HandshakeDone,
       FirstFrame, LoginAllowed, LoginRefused, LoginAccepted, Rejected, ControlEnds, HttpTimeout,
       HttpEnds, HttpTlsDone, Routed, BodyRead
<1> QED
  BY <1>0, <1>1, <1>2, <1>3

LEMMA CountsStep == Counts /\ LoopInv /\ [Next]_vars => Counts'
<1> SUFFICES ASSUME Counts, LoopInv, [Next]_vars PROVE Counts'
  OBVIOUS
<1> USE ServerAssumption DEF Counts, config, loop, logins, web
<1>1. CASE UNCHANGED vars
  BY <1>1 DEF vars
<1>2. CASE Start \/ OtherBusy \/ OtherResumes \/ OtherEnds
  BY <1>2 DEF Start, OtherBusy, OtherResumes, OtherEnds
<1>3. CASE Shutdown \/ StopAccepting \/ GraceElapses
  BY <1>3 DEF Shutdown, StopAccepting, GraceElapses
<1>4. CASE AcceptErr
  <2>1. errs' = errs + 1 /\ errs < FatalErrs /\ bad' = errs + 1 /\ lpc' = "error"
    BY <1>4 DEF AcceptErr, LoopInv, Capped
  <2> QED
    BY <1>4, <2>1 DEF AcceptErr
<1>5. CASE Backoff
  BY <1>5 DEF Backoff
<1>6. CASE GiveUp \/ Return
  <2>1. secure' \in [Conn -> BOOLEAN]
    BY <1>6, Zenon DEF GiveUp, Return, DropTasks
  <2> QED
    BY <1>6, <2>1 DEF GiveUp, Return, DropTasks
<1>7. CASE FailureWindowEnds \/ RequestWindowEnds
  BY <1>7 DEF FailureWindowEnds, RequestWindowEnds
<1>8. ASSUME NEW c \in Conn, AcceptOk(c) PROVE Counts'
  BY <1>8 DEF AcceptOk, RecordOk, BindPc
<1>9. ASSUME NEW c \in Conn, JoinNext(c) \/ HttpAccept(c) PROVE Counts'
  BY <1>9 DEF JoinNext, HttpAccept, HttpPc
<1>10. ASSUME NEW c \in Conn, Handle(c) \/ Serve(c) PROVE Counts'
  BY <1>10, ConnCounts
<1> QED
  BY <1>1, <1>2, <1>3, <1>4, <1>5, <1>6, <1>7, <1>8, <1>9, <1>10 DEF Next

LEMMA TypeStep == TypeOK /\ LoopInv /\ [Next]_vars => TypeOK'
BY TypeParts, FlagsStep, CountsStep DEF TypeOK, Flags, Counts

\* A step of a connection task leaves the loops alone.
LEMMA ConnKeepsLoop ==
    ASSUME NEW c \in Conn, Handle(c) \/ Serve(c)
    PROVE  UNCHANGED <<shutdown, loop, opc>>
<1> USE DEF Goto, Done, Closed
<1>1. CASE Handle(c)
  BY <1>1 DEF Handle, Timeout, PeerFails, FirstByte, HandshakeDone, FirstFrame, LoginAllowed,
     LoginRefused, LoginAccepted, Rejected, ControlEnds
<1>2. CASE Serve(c)
  BY <1>2 DEF Serve, HttpTimeout, HttpEnds, HttpTlsDone, Routed, Requested, BodyRead
<1> QED
  BY <1>1, <1>2

LEMMA LoopStep == TypeOK /\ LoopInv /\ [Next]_vars => LoopInv'
<1> SUFFICES ASSUME TypeOK, LoopInv, [Next]_vars PROVE LoopInv'
  OBVIOUS
<1> USE ServerAssumption DEF TypeOK, LoopInv, loop
<1>1. CASE UNCHANGED vars
  BY <1>1 DEF vars
<1>2. CASE Start
  BY <1>2 DEF Start
<1>3. CASE Shutdown \/ StopAccepting \/ GraceElapses
  BY <1>3 DEF Shutdown, StopAccepting, GraceElapses
<1>4. CASE OtherBusy \/ OtherResumes \/ OtherEnds
  BY <1>4 DEF OtherBusy, OtherResumes, OtherEnds
<1>5. CASE AcceptErr \/ Backoff
  BY <1>5 DEF AcceptErr, Backoff, IsFatal, Capped
<1>6. CASE GiveUp \/ Return
  BY <1>6 DEF GiveUp, Return, DropTasks, IsFatal
<1>7. CASE FailureWindowEnds \/ RequestWindowEnds
  BY <1>7 DEF FailureWindowEnds, RequestWindowEnds
<1>8. ASSUME NEW c \in Conn, AcceptOk(c) \/ JoinNext(c) \/ HttpAccept(c) PROVE LoopInv'
  BY <1>8 DEF AcceptOk, JoinNext, HttpAccept, RecordOk
<1>9. ASSUME NEW c \in Conn, Handle(c) \/ Serve(c) PROVE LoopInv'
  BY <1>9, ConnKeepsLoop
<1> QED
  BY <1>1, <1>2, <1>3, <1>4, <1>5, <1>6, <1>7, <1>8, <1>9 DEF Next

LEMMA InitInd == Init => TypeOK /\ LoopInv
<1> SUFFICES ASSUME Init PROVE TypeOK /\ LoopInv
  OBVIOUS
<1>1. PICK s \in Setups : tlsEnable = s.tls /\ workTls = s.work /\ other = s.other
  BY DEF Init
<1>2. s \in [tls : BOOLEAN, work : BOOLEAN, other : Loops]
  BY <1>1, ServerAssumption
<1>3. Flags
  <2>1. tlsEnable \in BOOLEAN /\ workTls \in BOOLEAN
    BY <1>1, <1>2
  <2> QED
    BY <2>1, Zenon DEF Init, Flags
<1>4. Counts
  BY <1>1, <1>2, ServerAssumption DEF Init, Counts
<1>5. LoopInv
  BY ServerAssumption DEF Init, LoopInv
<1> QED
  BY <1>3, <1>4, <1>5, TypeParts

\* The accept loop's bookkeeping, with the types, is inductive.
THEOREM LoopInductive == Spec => [](TypeOK /\ LoopInv)
<1>1. TypeOK /\ LoopInv /\ [Next]_vars => (TypeOK /\ LoopInv)'
  BY TypeStep, LoopStep
<1> QED
  BY InitInd, <1>1, PTL DEF Spec

\* Once it listens, the bind port is given up only after FatalErrs failures in a row
\* (server.rs:234-254, accept.rs:1-8).
THEOREM ListenersAlwaysPersist == Spec => []ListenersPersist
<1>1. TypeOK /\ LoopInv => ListenersPersist
  BY DEF TypeOK, LoopInv, ListenersPersist
<1> QED
  BY LoopInductive, <1>1, PTL

-----------------------------------------------------------------------------
\* Connections that have passed login_allowed and have not been judged yet
Verifying == {c \in Conn : pc[c] = "verify"}

\* The wrong tokens looked at are counted, and with those still to be looked at they
\* stay within the bound; the requests served are the ones the limiter counts.
RateInv ==
    /\ ~failOpen => tried = 0
    /\ tried <= fails
    /\ tried + Cardinality(Verifying) <= FailureLimit + Cardinality(Conn) - 1
    /\ answered = (IF reqOpen THEN reqs ELSE 0)

LEMMA VerifyingFinite ==
    /\ IsFiniteSet(Conn) /\ Cardinality(Conn) \in Nat
    /\ IsFiniteSet(Verifying) /\ Cardinality(Verifying) \in Nat
    /\ Cardinality(Verifying) <= Cardinality(Conn)
<1>1. IsFiniteSet(Conn) /\ Verifying \subseteq Conn
  BY ServerAssumption DEF Verifying
<1> QED
  BY <1>1, FS_Subset, FS_CardinalityType

\* A step that lets nobody into verify and leaves the counters alone
LEMMA NoneEnters ==
    ASSUME TypeOK, RateInv, UNCHANGED <<logins, web>>, Verifying' \subseteq Verifying
    PROVE  RateInv'
<1>1. IsFiniteSet(Verifying') /\ Cardinality(Verifying') <= Cardinality(Verifying)
  BY VerifyingFinite, FS_Subset
<1>2. Cardinality(Verifying') \in Nat
  BY <1>1, FS_CardinalityType
<1> QED
  BY <1>1, <1>2, VerifyingFinite, ServerAssumption DEF RateInv, TypeOK, logins, web

\* A step after which no wrong token is on record
LEMMA Cleared ==
    ASSUME TypeOK, RateInv, TypeOK', tried' = 0, UNCHANGED web
    PROVE  RateInv'
<1>1. Cardinality(Verifying') \in Nat /\ Cardinality(Verifying') <= Cardinality(Conn)
  <2>1. Verifying' \subseteq Conn
    BY DEF Verifying
  <2> QED
    BY <2>1, VerifyingFinite, FS_Subset, FS_CardinalityType
<1> QED
  BY <1>1, VerifyingFinite, ServerAssumption DEF RateInv, TypeOK, web

LEMMA HandleRates ==
    ASSUME TypeOK, RateInv, TypeOK', NEW c \in Conn, Handle(c)
    PROVE  RateInv'
<1> USE DEF Goto, Done
<1>1. CASE Timeout(c) \/ PeerFails(c) \/ Rejected(c) \/ ControlEnds(c) \/ FirstByte(c)
           \/ HandshakeDone(c) \/ FirstFrame(c)
  <2>1. UNCHANGED <<logins, web>> /\ Verifying' \subseteq Verifying
    BY <1>1 DEF Timeout, PeerFails, Rejected, ControlEnds, FirstByte, HandshakeDone, FirstFrame,
       Verifying, TypeOK
  <2> QED
    BY <2>1, NoneEnters
<1>2. CASE LoginAllowed(c)
  <2>1. CASE failOpen /\ fails >= FailureLimit
    <3>1. UNCHANGED <<logins, web>> /\ Verifying' \subseteq Verifying
      BY <1>2, <2>1 DEF LoginAllowed, Verifying, TypeOK
    <3> QED
      BY <3>1, NoneEnters
  <2>2. CASE ~(failOpen /\ fails >= FailureLimit)
    <3>1. tried <= FailureLimit - 1
      BY <2>2, ServerAssumption DEF RateInv, TypeOK
    <3>2. Verifying' \subseteq Conn
      BY DEF Verifying
    <3>3. Cardinality(Verifying') \in Nat /\ Cardinality(Verifying') <= Cardinality(Conn)
      BY <3>2, VerifyingFinite, FS_Subset, FS_CardinalityType
    <3>4. UNCHANGED <<logins, web>>
      BY <1>2 DEF LoginAllowed
    <3> QED
      BY <3>1, <3>3, <3>4, VerifyingFinite, ServerAssumption DEF RateInv, TypeOK, logins, web
  <2> QED
    BY <2>1, <2>2
<1>3. CASE LoginRefused(c)
  <2>1. c \in Verifying /\ Verifying' = Verifying \ {c} /\ UNCHANGED web
    BY <1>3 DEF LoginRefused, Verifying, TypeOK
  <2>2. Cardinality(Verifying') = Cardinality(Verifying) - 1
    BY <2>1, VerifyingFinite, FS_RemoveElement
  <2>3. CASE UNCHANGED logins
    BY <2>1, <2>3, NoneEnters
  <2>4. CASE RecordFailure /\ tried' = Capped(tried + 1, FailureLimit + Cardinality(Conn))
    <3>1. tried' <= tried + 1
      BY <2>4, VerifyingFinite, ServerAssumption DEF Capped, TypeOK
    <3>2. tried' <= fails' /\ failOpen'
      <4>1. CASE failOpen
        BY <2>4, <3>1, <4>1 DEF RecordFailure, RateInv, TypeOK
      <4>2. CASE ~failOpen
        BY <2>4, <3>1, <4>2 DEF RecordFailure, RateInv, TypeOK
      <4> QED
        BY <4>1, <4>2
    <3> QED
      BY <2>1, <2>2, <3>1, <3>2, VerifyingFinite, ServerAssumption DEF RateInv, TypeOK, web
  <2> QED
    BY <1>3, <2>3, <2>4 DEF LoginRefused
<1>4. CASE LoginAccepted(c)
  BY <1>4, Cleared DEF LoginAccepted
<1> QED
  BY <1>1, <1>2, <1>3, <1>4 DEF Handle

LEMMA ServeRates ==
    ASSUME TypeOK, RateInv, NEW c \in Conn, Serve(c)
    PROVE  RateInv'
<1> USE DEF Goto, Closed
<1>1. Verifying' \subseteq Verifying /\ UNCHANGED logins
  BY DEF Serve, HttpTimeout, HttpEnds, HttpTlsDone, Routed, Requested, BodyRead, Verifying,
     TypeOK, HttpPc
<1>2. CASE UNCHANGED web
  BY <1>1, <1>2, NoneEnters
<1>3. CASE Requested(c) /\ Allow
  <2>1. IsFiniteSet(Verifying') /\ Cardinality(Verifying') <= Cardinality(Verifying)
    BY <1>1, VerifyingFinite, FS_Subset
  <2>2. Cardinality(Verifying') \in Nat
    BY <2>1, FS_CardinalityType
  <2>3. answered' = reqs' /\ reqOpen'
    BY <1>3, ServerAssumption DEF Requested, Allow, Capped, RateInv, TypeOK
  <2> QED
    BY <1>1, <2>1, <2>2, <2>3, VerifyingFinite, ServerAssumption DEF RateInv, TypeOK, logins
<1> QED
  BY <1>2, <1>3 DEF Serve, HttpTimeout, HttpEnds, HttpTlsDone, Routed, Requested, BodyRead

LEMMA RateStep == TypeOK /\ LoopInv /\ RateInv /\ [Next]_vars => RateInv'
<1> SUFFICES ASSUME TypeOK, LoopInv, RateInv, [Next]_vars PROVE RateInv'
  OBVIOUS
<1>0. TypeOK'
  BY TypeStep
<1>1. CASE UNCHANGED <<pc, logins, web>>
  <2>1. Verifying' \subseteq Verifying
    BY <1>1 DEF Verifying
  <2> QED
    BY <1>1, <2>1, NoneEnters
<1>2. CASE GiveUp \/ Return
  <2>1. /\ tried' = 0 /\ fails' = 0 /\ answered' = 0 /\ reqs' = 0 /\ Verifying' = {}
    BY <1>2 DEF GiveUp, Return, DropTasks, Verifying
  <2>2. Cardinality(Verifying') = 0
    BY <2>1, FS_EmptySet
  <2> QED
    BY <2>1, <2>2, VerifyingFinite, ServerAssumption DEF RateInv
<1>3. CASE FailureWindowEnds
  BY <1>0, <1>3, Cleared DEF FailureWindowEnds
<1>4. CASE RequestWindowEnds
  <2>1. /\ UNCHANGED <<pc, logins>> /\ answered' = 0 /\ reqs' = 0
    BY <1>4 DEF RequestWindowEnds
  <2> QED
    BY <2>1 DEF RateInv, Verifying, logins
<1>5. ASSUME NEW c \in Conn, AcceptOk(c) \/ JoinNext(c) \/ HttpAccept(c) PROVE RateInv'
  <2>1. UNCHANGED <<logins, web>> /\ Verifying' \subseteq Verifying
    BY <1>5 DEF AcceptOk, JoinNext, HttpAccept, Verifying, TypeOK
  <2> QED
    BY <2>1, NoneEnters
<1>6. ASSUME NEW c \in Conn, Handle(c) PROVE RateInv'
  BY <1>0, <1>6, HandleRates
<1>7. ASSUME NEW c \in Conn, Serve(c) PROVE RateInv'
  BY <1>7, ServeRates
<1> QED
  BY <1>1, <1>2, <1>3, <1>4, <1>5, <1>6, <1>7 DEF Next, vars, Start, AcceptErr, Backoff,
     Shutdown, StopAccepting, GraceElapses, OtherBusy, OtherResumes, OtherEnds

\* The limit on wrong tokens is exceeded by no more than the connections that passed
\* login_allowed together, and the dashboard serves no request above its limit
\* (state.rs:135-168, control.rs:79, ratelimit.rs:28-50).
THEOREM RatesAreHeld == Spec => []RatesHeld
<1>1. Init => RateInv
  <2> SUFFICES ASSUME Init PROVE RateInv
    OBVIOUS
  <2>1. Verifying = {}
    BY DEF Init, Verifying
  <2>2. Cardinality(Verifying) = 0
    BY <2>1, FS_EmptySet
  <2> QED
    BY <2>2, VerifyingFinite, ServerAssumption DEF Init, RateInv
<1>2. TypeOK /\ RateInv => RatesHeld
  BY VerifyingFinite, ServerAssumption DEF RateInv, RatesHeld, TypeOK
<1> QED
  BY <1>1, <1>2, RateStep, LoopInductive, PTL DEF Spec

=============================================================================
