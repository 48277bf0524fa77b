--------------------------- MODULE WorkConnProofs ---------------------------
(***************************************************************************)
(* Proofs, for any number of control connections, users and work           *)
(* connections, of the safety invariants of WorkConn and of its refinement *)
(* of Rendezvous.                                                          *)
(***************************************************************************)
EXTENDS WorkConn, FiniteSetTheorems, TLAPS

\* Every step keeps the types.
LEMMA WTypeStep ==
    TypeOK /\ LocalsInv /\ UsersInv /\ [Next]_vars => TypeOK'
<1> SUFFICES ASSUME TypeOK, LocalsInv, UsersInv, [Next]_vars
             PROVE  TypeOK'
  OBVIOUS
<1> USE DEF control, uvars, wvars, Goto, CloseUsers, CloseConns, Dial
<1>1. ASSUME NEW s \in Session, Login(s)
      PROVE  TypeOK'
  BY <1>1, WorkAssumption DEF Login, TypeOK, LocalsInv, UsersInv, Active, Waiting, Pooled,
     Pool, Label, UState, WState, PoolId
<1>2. ASSUME NEW s \in Session, NEW n \in Name, Listen(s, n)
      PROVE  TypeOK'
  BY <1>2, WorkAssumption DEF Listen, TypeOK, LocalsInv, UsersInv, Active, Waiting, Pooled,
     Pool, Label, UState, WState, PoolId
<1>3. ASSUME NEW s \in Session, IndexProxy(s)
      PROVE  TypeOK'
  BY <1>3, WorkAssumption DEF IndexProxy, TypeOK, LocalsInv, UsersInv, Active, Waiting,
     Pooled, Pool, Label, UState, WState, PoolId
<1>4. ASSUME NEW s \in Session, Unregister(s)
      PROVE  TypeOK'
  BY <1>4, WorkAssumption DEF Unregister, TypeOK, LocalsInv, UsersInv, Active, Waiting,
     Pooled, Pool, Label, UState, WState, PoolId
<1>5. ASSUME NEW s \in Session, CleanAbort(s)
      PROVE  TypeOK'
  BY <1>5, WorkAssumption DEF CleanAbort, TypeOK, LocalsInv, UsersInv, Active, Waiting,
     Pooled, Pool, Label, UState, WState, PoolId
<1>6. ASSUME NEW s \in Session, CleanPools(s)
      PROVE  TypeOK'
  BY <1>6, WorkAssumption DEF CleanPools, TypeOK, LocalsInv, UsersInv, Active, Waiting,
     Pooled, Pool, Label, UState, WState, PoolId
<1>7. ASSUME NEW s \in Session, CleanPending(s)
      PROVE  TypeOK'
  BY <1>7, WorkAssumption DEF CleanPending, TypeOK, LocalsInv, UsersInv, Active, Waiting,
     Pooled, Pool, Label, UState, WState, PoolId
<1>8. ASSUME NEW s \in Session, FreeSession(s)
      PROVE  TypeOK'
  BY <1>8, WorkAssumption DEF FreeSession, TypeOK, LocalsInv, UsersInv, Active, Waiting,
     Pooled, Pool, Label, UState, WState, PoolId
<1>9. ASSUME NEW u \in User, NEW s \in Session, NEW n \in Name, Accept(u, s, n)
      PROVE  TypeOK'
  BY <1>9, WorkAssumption DEF Accept, TypeOK, LocalsInv, UsersInv, Active, Waiting, Pooled,
     Pool, Label, UState, WState, PoolId
<1>10. ASSUME NEW u \in User, NEW s \in Session, NEW n \in Name, TurnAway(u, s, n)
      PROVE  TypeOK'
  BY <1>10, WorkAssumption DEF TurnAway, TypeOK, LocalsInv, UsersInv, Active, Waiting,
     Pooled, Pool, Label, UState, WState, PoolId
<1>11. ASSUME NEW u \in User, NEW w \in Conn, PopDead(u, w)
      PROVE  TypeOK'
  BY <1>11, WorkAssumption DEF PopDead, TypeOK, LocalsInv, UsersInv, Active, Waiting,
     Pooled, Pool, Label, UState, WState, PoolId
<1>12. ASSUME NEW u \in User, NEW w \in Conn, PopLive(u, w)
      PROVE  TypeOK'
  BY <1>12, WorkAssumption DEF PopLive, TypeOK, LocalsInv, UsersInv, Active, Waiting,
     Pooled, Pool, Label, UState, WState, PoolId
<1>13. ASSUME NEW u \in User, PoolMiss(u)
      PROVE  TypeOK'
  BY <1>13, WorkAssumption DEF PoolMiss, TypeOK, LocalsInv, UsersInv, Active, Waiting,
     Pooled, Pool, Label, UState, WState, PoolId
<1>14. ASSUME NEW u \in User, PendingInsert(u)
      PROVE  TypeOK'
  BY <1>14, WorkAssumption DEF PendingInsert, TypeOK, LocalsInv, UsersInv, Active, Waiting,
     Pooled, Pool, Label, UState, WState, PoolId
<1>15. ASSUME NEW u \in User, SendReq(u)
      PROVE  TypeOK'
  BY <1>15, WorkAssumption DEF SendReq, TypeOK, LocalsInv, UsersInv, Active, Waiting,
     Pooled, Pool, Label, UState, WState, PoolId
<1>16. ASSUME NEW u \in User, SendFails(u)
      PROVE  TypeOK'
  BY <1>16, WorkAssumption DEF SendFails, TypeOK, LocalsInv, UsersInv, Active, Waiting,
     Pooled, Pool, Label, UState, WState, PoolId
<1>17. ASSUME NEW u \in User, RequestEnds(u)
      PROVE  TypeOK'
  BY <1>17, WorkAssumption DEF RequestEnds, TypeOK, LocalsInv, UsersInv, Active, Waiting,
     Pooled, Pool, Label, UState, WState, PoolId
<1>18. ASSUME NEW S \in SUBSET User, Sweep(S)
      PROVE  TypeOK'
  BY <1>18, WorkAssumption DEF Sweep, TypeOK, LocalsInv, UsersInv, Active, Waiting, Pooled,
     Pool, Label, UState, WState, PoolId
<1>19. ASSUME NEW u \in User, BridgeEnds(u)
      PROVE  TypeOK'
  BY <1>19, WorkAssumption DEF BridgeEnds, TypeOK, LocalsInv, UsersInv, Active, Waiting,
     Pooled, Pool, Label, UState, WState, PoolId
<1>20. ASSUME NEW w \in Conn, NEW s \in Session, ReceiveReq(w, s)
      PROVE  TypeOK'
  BY <1>20, WorkAssumption DEF ReceiveReq, TypeOK, LocalsInv, UsersInv, Active, Waiting,
     Pooled, Pool, Label, UState, WState, PoolId
<1>21. ASSUME NEW w \in Conn, NEW s \in Session, NEW n \in Name, Preheat(w, s, n)
      PROVE  TypeOK'
  BY <1>21, WorkAssumption DEF Preheat, TypeOK, LocalsInv, UsersInv, Active, Waiting,
     Pooled, Pool, Label, UState, WState, PoolId
<1>22. ASSUME NEW w \in Conn, DialFails(w)
      PROVE  TypeOK'
  BY <1>22, WorkAssumption DEF DialFails, TypeOK, LocalsInv, UsersInv, Active, Waiting,
     Pooled, Pool, Label, UState, WState, PoolId
<1>23. ASSUME NEW w \in Conn, StartWorkConn(w)
      PROVE  TypeOK'
  BY <1>23, WorkAssumption DEF StartWorkConn, TypeOK, LocalsInv, UsersInv, Active, Waiting,
     Pooled, Pool, Label, UState, WState, PoolId
<1>24. ASSUME NEW w \in Conn, LocalCloses(w)
      PROVE  TypeOK'
  BY <1>24, WorkAssumption DEF LocalCloses, TypeOK, LocalsInv, UsersInv, Active, Waiting,
     Pooled, Pool, Label, UState, WState, PoolId
<1>25. ASSUME NEW w \in Conn, Resolve(w)
      PROVE  TypeOK'
  BY <1>25, WorkAssumption DEF Resolve, TypeOK, LocalsInv, UsersInv, Active, Waiting,
     Pooled, Pool, Label, UState, WState, PoolId
<1>26. ASSUME NEW w \in Conn, ResolveFails(w)
      PROVE  TypeOK'
  BY <1>26, WorkAssumption DEF ResolveFails, TypeOK, LocalsInv, UsersInv, Active, Waiting,
     Pooled, Pool, Label, UState, WState, PoolId
<1>27. ASSUME NEW w \in Conn, PoolPush(w)
      PROVE  TypeOK'
  BY <1>27, WorkAssumption DEF PoolPush, TypeOK, LocalsInv, UsersInv, Active, Waiting,
     Pooled, Pool, Label, UState, WState, PoolId
<1>28. ASSUME NEW w \in Conn, PoolFull(w)
      PROVE  TypeOK'
  BY <1>28, WorkAssumption DEF PoolFull, TypeOK, LocalsInv, UsersInv, Active, Waiting,
     Pooled, Pool, Label, UState, WState, PoolId
<1>29. ASSUME NEW w \in Conn, Claim(w)
      PROVE  TypeOK'
  <2>1. PICK u \in Claimable(w) :
            /\ ustate' = [ustate EXCEPT ![u] = "bridged"]
            /\ mate' = [mate EXCEPT ![u] = w]
    BY <1>29 DEF Claim
  <2>2. u \in User /\ ustate[u] = "waiting"
    BY <2>1 DEF Claimable, Waiting
  <2>3. ustate' \in [User -> UState] /\ mate' \in [User -> Conn \cup {None}]
    BY <2>1, <2>2 DEF TypeOK, UState
  <2>4. wstate' \in [Conn -> WState] /\ wstate[w] = "auth"
    BY <1>29 DEF Claim, TypeOK, WState
  <2>5. dead' \in SUBSET {c \in Conn : wstate'[c] = "pooled"}
    BY <1>29, <2>4 DEF Claim, TypeOK
  <2> QED
    BY <1>29, <2>3, <2>4, <2>5 DEF Claim, TypeOK
<1>30. ASSUME NEW w \in Conn, ClaimFails(w)
      PROVE  TypeOK'
  BY <1>30, WorkAssumption DEF ClaimFails, TypeOK, LocalsInv, UsersInv, Active, Waiting,
     Pooled, Pool, Label, UState, WState, PoolId
<1>31. CASE UNCHANGED vars
  BY <1>31 DEF vars, TypeOK, LocalsInv, UsersInv, Active, Waiting, Pooled, Pool, Label, UState,
     WState, PoolId
<1> QED
  BY <1>1, <1>2, <1>3, <1>4, <1>5, <1>6, <1>7, <1>8, <1>9, <1>10, <1>11, <1>12, <1>13,
     <1>14, <1>15, <1>16, <1>17, <1>18, <1>19, <1>20, <1>21, <1>22, <1>23, <1>24, <1>25,
     <1>26, <1>27, <1>28, <1>29, <1>30, <1>31
     DEF Next, vars, ControlStep, CleanStep, DispatchStep, RequestStep, HandlerStep,
        ClientStep

\* A cleanup knows its target, a registration its proxy.
LEMMA WLocalsStep ==
    TypeOK /\ LocalsInv /\ [Next]_vars => LocalsInv'
<1> SUFFICES ASSUME TypeOK, LocalsInv, [Next]_vars
             PROVE  LocalsInv'
  OBVIOUS
<1> USE DEF control, uvars, wvars, Goto, CloseUsers, CloseConns, Dial
<1>1. ASSUME NEW s \in Session, Login(s)
      PROVE  LocalsInv'
  BY <1>1 DEF Login, TypeOK, LocalsInv
<1>2. ASSUME NEW s \in Session, NEW n \in Name, Listen(s, n)
      PROVE  LocalsInv'
  BY <1>2 DEF Listen, TypeOK, LocalsInv
<1>3. ASSUME NEW s \in Session, IndexProxy(s)
      PROVE  LocalsInv'
  BY <1>3 DEF IndexProxy, TypeOK, LocalsInv
<1>4. ASSUME NEW s \in Session, Unregister(s)
      PROVE  LocalsInv'
  BY <1>4 DEF Unregister, TypeOK, LocalsInv
<1>5. ASSUME NEW s \in Session, CleanAbort(s)
      PROVE  LocalsInv'
  BY <1>5 DEF CleanAbort, TypeOK, LocalsInv
<1>6. ASSUME NEW s \in Session, CleanPools(s)
      PROVE  LocalsInv'
  BY <1>6 DEF CleanPools, TypeOK, LocalsInv
<1>7. ASSUME NEW s \in Session, CleanPending(s)
      PROVE  LocalsInv'
  BY <1>7 DEF CleanPending, TypeOK, LocalsInv
<1>8. ASSUME NEW s \in Session, FreeSession(s)
      PROVE  LocalsInv'
  BY <1>8 DEF FreeSession, TypeOK, LocalsInv
<1>9. ASSUME NEW u \in User, NEW s \in Session, NEW n \in Name, Accept(u, s, n)
      PROVE  LocalsInv'
  BY <1>9 DEF Accept, TypeOK, LocalsInv
<1>10. ASSUME NEW u \in User, NEW s \in Session, NEW n \in Name, TurnAway(u, s, n)
      PROVE  LocalsInv'
  BY <1>10 DEF TurnAway, TypeOK, LocalsInv
<1>11. ASSUME NEW u \in User, NEW w \in Conn, PopDead(u, w)
      PROVE  LocalsInv'
  BY <1>11 DEF PopDead, TypeOK, LocalsInv
<1>12. ASSUME NEW u \in User, NEW w \in Conn, PopLive(u, w)
      PROVE  LocalsInv'
  BY <1>12 DEF PopLive, TypeOK, LocalsInv
<1>13. ASSUME NEW u \in User, PoolMiss(u)
      PROVE  LocalsInv'
  BY <1>13 DEF PoolMiss, TypeOK, LocalsInv
<1>14. ASSUME NEW u \in User, PendingInsert(u)
      PROVE  LocalsInv'
  BY <1>14 DEF PendingInsert, TypeOK, LocalsInv
<1>15. ASSUME NEW u \in User, SendReq(u)
      PROVE  LocalsInv'
  BY <1>15 DEF SendReq, TypeOK, LocalsInv
<1>16. ASSUME NEW u \in User, SendFails(u)
      PROVE  LocalsInv'
  BY <1>16 DEF SendFails, TypeOK, LocalsInv
<1>17. ASSUME NEW u \in User, RequestEnds(u)
      PROVE  LocalsInv'
  BY <1>17 DEF RequestEnds, TypeOK, LocalsInv
<1>18. ASSUME NEW S \in SUBSET User, Sweep(S)
      PROVE  LocalsInv'
  BY <1>18 DEF Sweep, TypeOK, LocalsInv
<1>19. ASSUME NEW u \in User, BridgeEnds(u)
      PROVE  LocalsInv'
  BY <1>19 DEF BridgeEnds, TypeOK, LocalsInv
<1>20. ASSUME NEW w \in Conn, NEW s \in Session, ReceiveReq(w, s)
      PROVE  LocalsInv'
  BY <1>20 DEF ReceiveReq, TypeOK, LocalsInv
<1>21. ASSUME NEW w \in Conn, NEW s \in Session, NEW n \in Name, Preheat(w, s, n)
      PROVE  LocalsInv'
  BY <1>21 DEF Preheat, TypeOK, LocalsInv
<1>22. ASSUME NEW w \in Conn, DialFails(w)
      PROVE  LocalsInv'
  BY <1>22 DEF DialFails, TypeOK, LocalsInv
<1>23. ASSUME NEW w \in Conn, StartWorkConn(w)
      PROVE  LocalsInv'
  BY <1>23 DEF StartWorkConn, TypeOK, LocalsInv
<1>24. ASSUME NEW w \in Conn, LocalCloses(w)
      PROVE  LocalsInv'
  BY <1>24 DEF LocalCloses, TypeOK, LocalsInv
<1>25. ASSUME NEW w \in Conn, Resolve(w)
      PROVE  LocalsInv'
  BY <1>25 DEF Resolve, TypeOK, LocalsInv
<1>26. ASSUME NEW w \in Conn, ResolveFails(w)
      PROVE  LocalsInv'
  BY <1>26 DEF ResolveFails, TypeOK, LocalsInv
<1>27. ASSUME NEW w \in Conn, PoolPush(w)
      PROVE  LocalsInv'
  BY <1>27 DEF PoolPush, TypeOK, LocalsInv
<1>28. ASSUME NEW w \in Conn, PoolFull(w)
      PROVE  LocalsInv'
  BY <1>28 DEF PoolFull, TypeOK, LocalsInv
<1>29. ASSUME NEW w \in Conn, Claim(w)
      PROVE  LocalsInv'
  BY <1>29 DEF Claim, TypeOK, LocalsInv
<1>30. ASSUME NEW w \in Conn, ClaimFails(w)
      PROVE  LocalsInv'
  BY <1>30 DEF ClaimFails, TypeOK, LocalsInv
<1>31. CASE UNCHANGED vars
  BY <1>31 DEF vars, TypeOK, LocalsInv
<1> QED
  BY <1>1, <1>2, <1>3, <1>4, <1>5, <1>6, <1>7, <1>8, <1>9, <1>10, <1>11, <1>12, <1>13,
     <1>14, <1>15, <1>16, <1>17, <1>18, <1>19, <1>20, <1>21, <1>22, <1>23, <1>24, <1>25,
     <1>26, <1>27, <1>28, <1>29, <1>30, <1>31
     DEF Next, vars, ControlStep, CleanStep, DispatchStep, RequestStep, HandlerStep,
        ClientStep

\* Users that are served or waiting belong to a session and a proxy.
LEMMA UsersStep ==
    TypeOK /\ UsersInv /\ [Next]_vars => UsersInv'
<1> SUFFICES ASSUME TypeOK, UsersInv, [Next]_vars
             PROVE  UsersInv'
  OBVIOUS
<1> USE DEF control, uvars, wvars, Goto, CloseUsers, CloseConns, Dial
<1>1. CASE UNCHANGED <<workId, uvars, wvars>>
  BY <1>1 DEF TypeOK, UsersInv, Active, Waiting
<1>2. ASSUME NEW s \in Session, CleanPools(s)
      PROVE  UsersInv'
  BY <1>2, WorkNoneAssumption DEF CleanPools, TypeOK, UsersInv, Active, Waiting
<1>3. ASSUME NEW s \in Session, CleanPending(s)
      PROVE  UsersInv'
  BY <1>3, WorkNoneAssumption DEF CleanPending, TypeOK, UsersInv, Active, Waiting
<1>4. ASSUME NEW s \in Session, FreeSession(s)
      PROVE  UsersInv'
  BY <1>4, WorkNoneAssumption DEF FreeSession, TypeOK, UsersInv, Active, Waiting
<1>5. ASSUME NEW u \in User, NEW s \in Session, NEW n \in Name, Accept(u, s, n)
      PROVE  UsersInv'
  BY <1>5, WorkNoneAssumption DEF Accept, TypeOK, UsersInv, Active, Waiting
<1>6. ASSUME NEW u \in User, NEW s \in Session, NEW n \in Name, TurnAway(u, s, n)
      PROVE  UsersInv'
  BY <1>6, WorkNoneAssumption DEF TurnAway, TypeOK, UsersInv, Active, Waiting
<1>7. ASSUME NEW u \in User, NEW w \in Conn, PopDead(u, w)
      PROVE  UsersInv'
  BY <1>7, WorkNoneAssumption DEF PopDead, TypeOK, UsersInv, Active, Waiting
<1>8. ASSUME NEW u \in User, NEW w \in Conn, PopLive(u, w)
      PROVE  UsersInv'
  BY <1>8, WorkNoneAssumption DEF PopLive, TypeOK, UsersInv, Active, Waiting
<1>9. ASSUME NEW u \in User, PoolMiss(u)
      PROVE  UsersInv'
  BY <1>9, WorkNoneAssumption DEF PoolMiss, TypeOK, UsersInv, Active, Waiting
<1>10. ASSUME NEW u \in User, PendingInsert(u)
      PROVE  UsersInv'
  BY <1>10, WorkNoneAssumption DEF PendingInsert, TypeOK, UsersInv, Active, Waiting
<1>11. ASSUME NEW u \in User, SendFails(u)
      PROVE  UsersInv'
  BY <1>11, WorkNoneAssumption DEF SendFails, TypeOK, UsersInv, Active, Waiting
<1>12. ASSUME NEW u \in User, RequestEnds(u)
      PROVE  UsersInv'
  BY <1>12, WorkNoneAssumption DEF RequestEnds, TypeOK, UsersInv, Active, Waiting
<1>13. ASSUME NEW S \in SUBSET User, Sweep(S)
      PROVE  UsersInv'
  BY <1>13, WorkNoneAssumption DEF Sweep, TypeOK, UsersInv, Active, Waiting
<1>14. ASSUME NEW u \in User, BridgeEnds(u)
      PROVE  UsersInv'
  BY <1>14, WorkNoneAssumption DEF BridgeEnds, TypeOK, UsersInv, Active, Waiting
<1>15. ASSUME NEW w \in Conn, NEW s \in Session, ReceiveReq(w, s)
      PROVE  UsersInv'
  BY <1>15, WorkNoneAssumption DEF ReceiveReq, TypeOK, UsersInv, Active, Waiting
<1>16. ASSUME NEW w \in Conn, NEW s \in Session, NEW n \in Name, Preheat(w, s, n)
      PROVE  UsersInv'
  BY <1>16, WorkNoneAssumption DEF Preheat, TypeOK, UsersInv, Active, Waiting
<1>17. ASSUME NEW w \in Conn, DialFails(w)
      PROVE  UsersInv'
  BY <1>17, WorkNoneAssumption DEF DialFails, TypeOK, UsersInv, Active, Waiting
<1>18. ASSUME NEW w \in Conn, StartWorkConn(w)
      PROVE  UsersInv'
  BY <1>18, WorkNoneAssumption DEF StartWorkConn, TypeOK, UsersInv, Active, Waiting
<1>19. ASSUME NEW w \in Conn, LocalCloses(w)
      PROVE  UsersInv'
  BY <1>19, WorkNoneAssumption DEF LocalCloses, TypeOK, UsersInv, Active, Waiting
<1>20. ASSUME NEW w \in Conn, Resolve(w)
      PROVE  UsersInv'
  BY <1>20, WorkNoneAssumption DEF Resolve, TypeOK, UsersInv, Active, Waiting
<1>21. ASSUME NEW w \in Conn, ResolveFails(w)
      PROVE  UsersInv'
  BY <1>21, WorkNoneAssumption DEF ResolveFails, TypeOK, UsersInv, Active, Waiting
<1>22. ASSUME NEW w \in Conn, PoolPush(w)
      PROVE  UsersInv'
  BY <1>22, WorkNoneAssumption DEF PoolPush, TypeOK, UsersInv, Active, Waiting
<1>23. ASSUME NEW w \in Conn, PoolFull(w)
      PROVE  UsersInv'
  BY <1>23, WorkNoneAssumption DEF PoolFull, TypeOK, UsersInv, Active, Waiting
<1>24. ASSUME NEW w \in Conn, Claim(w)
      PROVE  UsersInv'
  <2>1. PICK u \in Claimable(w) :
            /\ ustate' = [ustate EXCEPT ![u] = "bridged"]
            /\ mate' = [mate EXCEPT ![u] = w]
    BY <1>24 DEF Claim
  <2>2. u \in User /\ ustate[u] = "waiting"
    BY <2>1 DEF Claimable, Waiting
  <2> QED
    BY <1>24, <2>1, <2>2 DEF Claim, TypeOK, UsersInv, Active
<1>25. ASSUME NEW w \in Conn, ClaimFails(w)
      PROVE  UsersInv'
  BY <1>25, WorkNoneAssumption DEF ClaimFails, TypeOK, UsersInv, Active, Waiting
<1> QED
  BY <1>1, <1>2, <1>3, <1>4, <1>5, <1>6, <1>7, <1>8, <1>9, <1>10, <1>11, <1>12, <1>13,
     <1>14, <1>15, <1>16, <1>17, <1>18, <1>19, <1>20, <1>21, <1>22, <1>23, <1>24, <1>25
     DEF Next, vars, ControlStep, CleanStep, DispatchStep, RequestStep, HandlerStep,
        ClientStep, Login, Listen, IndexProxy, Unregister, CleanAbort, SendReq

\* The counter hands each id out once.
LEMMA IdsStep ==
    TypeOK /\ IdsInv /\ [Next]_vars => IdsInv'
<1> SUFFICES ASSUME TypeOK, IdsInv, [Next]_vars
             PROVE  IdsInv'
  OBVIOUS
<1> USE DEF control, uvars, wvars, Goto, CloseUsers, CloseConns, Dial
<1>1. CASE UNCHANGED <<workId, uvars, wvars>>
  BY <1>1 DEF TypeOK, IdsInv, Waiting, PoolId
<1>2. ASSUME NEW s \in Session, CleanPools(s)
      PROVE  IdsInv'
  BY <1>2 DEF CleanPools, TypeOK, IdsInv, Waiting, PoolId
<1>3. ASSUME NEW s \in Session, CleanPending(s)
      PROVE  IdsInv'
  BY <1>3 DEF CleanPending, TypeOK, IdsInv, Waiting, PoolId
<1>4. ASSUME NEW s \in Session, FreeSession(s)
      PROVE  IdsInv'
  BY <1>4 DEF FreeSession, TypeOK, IdsInv, Waiting, PoolId
<1>5. ASSUME NEW u \in User, NEW s \in Session, NEW n \in Name, Accept(u, s, n)
      PROVE  IdsInv'
  BY <1>5 DEF Accept, TypeOK, IdsInv, Waiting, PoolId
<1>6. ASSUME NEW u \in User, NEW s \in Session, NEW n \in Name, TurnAway(u, s, n)
      PROVE  IdsInv'
  BY <1>6 DEF TurnAway, TypeOK, IdsInv, Waiting, PoolId
<1>7. ASSUME NEW u \in User, NEW w \in Conn, PopDead(u, w)
      PROVE  IdsInv'
  BY <1>7 DEF PopDead, TypeOK, IdsInv, Waiting, PoolId
<1>8. ASSUME NEW u \in User, NEW w \in Conn, PopLive(u, w)
      PROVE  IdsInv'
  BY <1>8 DEF PopLive, TypeOK, IdsInv, Waiting, PoolId
<1>9. ASSUME NEW u \in User, PoolMiss(u)
      PROVE  IdsInv'
  BY <1>9 DEF PoolMiss, TypeOK, IdsInv, Waiting, PoolId
<1>10. ASSUME NEW u \in User, PendingInsert(u)
      PROVE  IdsInv'
  BY <1>10 DEF PendingInsert, TypeOK, IdsInv, Waiting, PoolId
<1>11. ASSUME NEW u \in User, SendFails(u)
      PROVE  IdsInv'
  BY <1>11 DEF SendFails, TypeOK, IdsInv, Waiting, PoolId
<1>12. ASSUME NEW u \in User, RequestEnds(u)
      PROVE  IdsInv'
  BY <1>12 DEF RequestEnds, TypeOK, IdsInv, Waiting, PoolId
<1>13. ASSUME NEW S \in SUBSET User, Sweep(S)
      PROVE  IdsInv'
  BY <1>13 DEF Sweep, TypeOK, IdsInv, Waiting, PoolId
<1>14. ASSUME NEW u \in User, BridgeEnds(u)
      PROVE  IdsInv'
  BY <1>14 DEF BridgeEnds, TypeOK, IdsInv, Waiting, PoolId
<1>15. ASSUME NEW w \in Conn, NEW s \in Session, ReceiveReq(w, s)
      PROVE  IdsInv'
  BY <1>15 DEF ReceiveReq, TypeOK, IdsInv, Waiting, PoolId
<1>16. ASSUME NEW w \in Conn, NEW s \in Session, NEW n \in Name, Preheat(w, s, n)
      PROVE  IdsInv'
  BY <1>16 DEF Preheat, TypeOK, IdsInv, Waiting, PoolId
<1>17. ASSUME NEW w \in Conn, DialFails(w)
      PROVE  IdsInv'
  BY <1>17 DEF DialFails, TypeOK, IdsInv, Waiting, PoolId
<1>18. ASSUME NEW w \in Conn, StartWorkConn(w)
      PROVE  IdsInv'
  BY <1>18 DEF StartWorkConn, TypeOK, IdsInv, Waiting, PoolId
<1>19. ASSUME NEW w \in Conn, LocalCloses(w)
      PROVE  IdsInv'
  BY <1>19 DEF LocalCloses, TypeOK, IdsInv, Waiting, PoolId
<1>20. ASSUME NEW w \in Conn, Resolve(w)
      PROVE  IdsInv'
  BY <1>20 DEF Resolve, TypeOK, IdsInv, Waiting, PoolId
<1>21. ASSUME NEW w \in Conn, ResolveFails(w)
      PROVE  IdsInv'
  BY <1>21 DEF ResolveFails, TypeOK, IdsInv, Waiting, PoolId
<1>22. ASSUME NEW w \in Conn, PoolPush(w)
      PROVE  IdsInv'
  BY <1>22 DEF PoolPush, TypeOK, IdsInv, Waiting, PoolId
<1>23. ASSUME NEW w \in Conn, PoolFull(w)
      PROVE  IdsInv'
  BY <1>23 DEF PoolFull, TypeOK, IdsInv, Waiting, PoolId
<1>24. ASSUME NEW w \in Conn, Claim(w)
      PROVE  IdsInv'
  BY <1>24 DEF Claim, TypeOK, IdsInv, Waiting, PoolId
<1>25. ASSUME NEW w \in Conn, ClaimFails(w)
      PROVE  IdsInv'
  BY <1>25 DEF ClaimFails, TypeOK, IdsInv, Waiting, PoolId
<1> QED
  BY <1>1, <1>2, <1>3, <1>4, <1>5, <1>6, <1>7, <1>8, <1>9, <1>10, <1>11, <1>12, <1>13,
     <1>14, <1>15, <1>16, <1>17, <1>18, <1>19, <1>20, <1>21, <1>22, <1>23, <1>24, <1>25
     DEF Next, vars, ControlStep, CleanStep, DispatchStep, RequestStep, HandlerStep,
        ClientStep, Login, Listen, IndexProxy, Unregister, CleanAbort, SendReq

\* The session of a work connection is the one that issued its token.
LEMMA ConnsStep ==
    TypeOK /\ ConnsInv /\ [Next]_vars => ConnsInv'
<1> SUFFICES ASSUME TypeOK, ConnsInv, [Next]_vars
             PROVE  ConnsInv'
  OBVIOUS
<1> USE DEF control, uvars, wvars, Goto, CloseUsers, CloseConns, Dial
<1>1. CASE UNCHANGED <<workId, uvars, wvars>>
  BY <1>1 DEF TypeOK, ConnsInv, PoolId
<1>2. ASSUME NEW s \in Session, CleanPools(s)
      PROVE  ConnsInv'
  BY <1>2, WorkNoneAssumption DEF CleanPools, TypeOK, ConnsInv, PoolId
<1>3. ASSUME NEW s \in Session, CleanPending(s)
      PROVE  ConnsInv'
  BY <1>3, WorkNoneAssumption DEF CleanPending, TypeOK, ConnsInv, PoolId
<1>4. ASSUME NEW s \in Session, FreeSession(s)
      PROVE  ConnsInv'
  BY <1>4, WorkNoneAssumption DEF FreeSession, TypeOK, ConnsInv, PoolId
<1>5. ASSUME NEW u \in User, NEW s \in Session, NEW n \in Name, Accept(u, s, n)
      PROVE  ConnsInv'
  BY <1>5, WorkNoneAssumption DEF Accept, TypeOK, ConnsInv, PoolId
<1>6. ASSUME NEW u \in User, NEW s \in Session, NEW n \in Name, TurnAway(u, s, n)
      PROVE  ConnsInv'
  BY <1>6, WorkNoneAssumption DEF TurnAway, TypeOK, ConnsInv, PoolId
<1>7. ASSUME NEW u \in User, NEW w \in Conn, PopDead(u, w)
      PROVE  ConnsInv'
  BY <1>7, WorkNoneAssumption DEF PopDead, TypeOK, ConnsInv, PoolId
<1>8. ASSUME NEW u \in User, NEW w \in Conn, PopLive(u, w)
      PROVE  ConnsInv'
  BY <1>8 DEF PopLive, TypeOK, ConnsInv, Pool, Pooled
<1>9. ASSUME NEW u \in User, PoolMiss(u)
      PROVE  ConnsInv'
  BY <1>9, WorkNoneAssumption DEF PoolMiss, TypeOK, ConnsInv, PoolId
<1>10. ASSUME NEW u \in User, PendingInsert(u)
      PROVE  ConnsInv'
  BY <1>10, WorkNoneAssumption DEF PendingInsert, TypeOK, ConnsInv, PoolId
<1>11. ASSUME NEW u \in User, SendFails(u)
      PROVE  ConnsInv'
  BY <1>11, WorkNoneAssumption DEF SendFails, TypeOK, ConnsInv, PoolId
<1>12. ASSUME NEW u \in User, RequestEnds(u)
      PROVE  ConnsInv'
  BY <1>12, WorkNoneAssumption DEF RequestEnds, TypeOK, ConnsInv, PoolId
<1>13. ASSUME NEW S \in SUBSET User, Sweep(S)
      PROVE  ConnsInv'
  BY <1>13, WorkNoneAssumption DEF Sweep, TypeOK, ConnsInv, PoolId
<1>14. ASSUME NEW u \in User, BridgeEnds(u)
      PROVE  ConnsInv'
  BY <1>14, WorkNoneAssumption DEF BridgeEnds, TypeOK, ConnsInv, PoolId
<1>15. ASSUME NEW w \in Conn, NEW s \in Session, ReceiveReq(w, s)
      PROVE  ConnsInv'
  BY <1>15, WorkNoneAssumption DEF ReceiveReq, TypeOK, ConnsInv, PoolId
<1>16. ASSUME NEW w \in Conn, NEW s \in Session, NEW n \in Name, Preheat(w, s, n)
      PROVE  ConnsInv'
  BY <1>16, WorkNoneAssumption DEF Preheat, TypeOK, ConnsInv, PoolId
<1>17. ASSUME NEW w \in Conn, DialFails(w)
      PROVE  ConnsInv'
  BY <1>17, WorkNoneAssumption DEF DialFails, TypeOK, ConnsInv, PoolId
<1>18. ASSUME NEW w \in Conn, StartWorkConn(w)
      PROVE  ConnsInv'
  BY <1>18, WorkNoneAssumption DEF StartWorkConn, TypeOK, ConnsInv, PoolId
<1>19. ASSUME NEW w \in Conn, LocalCloses(w)
      PROVE  ConnsInv'
  BY <1>19, WorkNoneAssumption DEF LocalCloses, TypeOK, ConnsInv, PoolId
<1>20. ASSUME NEW w \in Conn, Resolve(w)
      PROVE  ConnsInv'
  BY <1>20, WorkNoneAssumption DEF Resolve, TypeOK, ConnsInv, PoolId
<1>21. ASSUME NEW w \in Conn, ResolveFails(w)
      PROVE  ConnsInv'
  BY <1>21, WorkNoneAssumption DEF ResolveFails, TypeOK, ConnsInv, PoolId
<1>22. ASSUME NEW w \in Conn, PoolPush(w)
      PROVE  ConnsInv'
  BY <1>22, WorkNoneAssumption DEF PoolPush, TypeOK, ConnsInv, PoolId
<1>23. ASSUME NEW w \in Conn, PoolFull(w)
      PROVE  ConnsInv'
  BY <1>23, WorkNoneAssumption DEF PoolFull, TypeOK, ConnsInv, PoolId
<1>24. ASSUME NEW w \in Conn, Claim(w)
      PROVE  ConnsInv'
  BY <1>24, WorkNoneAssumption DEF Claim, TypeOK, ConnsInv, PoolId
<1>25. ASSUME NEW w \in Conn, ClaimFails(w)
      PROVE  ConnsInv'
  BY <1>25, WorkNoneAssumption DEF ClaimFails, TypeOK, ConnsInv, PoolId
<1> QED
  BY <1>1, <1>2, <1>3, <1>4, <1>5, <1>6, <1>7, <1>8, <1>9, <1>10, <1>11, <1>12, <1>13,
     <1>14, <1>15, <1>16, <1>17, <1>18, <1>19, <1>20, <1>21, <1>22, <1>23, <1>24, <1>25
     DEF Next, vars, ControlStep, CleanStep, DispatchStep, RequestStep, HandlerStep,
        ClientStep, Login, Listen, IndexProxy, Unregister, CleanAbort, SendReq

\* Bridges join the right ends, and share none.
LEMMA BridgesStep ==
    TypeOK /\ UsersInv /\ ConnsInv /\ RightWorkConn /\ ExclusiveUse /\ [Next]_vars
        => (RightWorkConn /\ ExclusiveUse)'
<1> SUFFICES ASSUME TypeOK, UsersInv, ConnsInv, RightWorkConn, ExclusiveUse, [Next]_vars
             PROVE  (RightWorkConn /\ ExclusiveUse)'
  OBVIOUS
<1> USE DEF control, uvars, wvars, Goto, CloseUsers, CloseConns, Dial
<1>1. CASE UNCHANGED <<workId, uvars, wvars>>
  BY <1>1 DEF TypeOK, UsersInv, ConnsInv, RightWorkConn, ExclusiveUse, Active, Waiting, Pooled,
     Pool, Claimable, PoolId
<1>2. ASSUME NEW s \in Session, CleanPools(s)
      PROVE  (RightWorkConn /\ ExclusiveUse)'
  BY <1>2 DEF CleanPools, TypeOK, UsersInv, ConnsInv, RightWorkConn, ExclusiveUse, Active,
     Waiting, Pooled, Pool, Claimable, PoolId
<1>3. ASSUME NEW s \in Session, CleanPending(s)
      PROVE  (RightWorkConn /\ ExclusiveUse)'
  BY <1>3 DEF CleanPending, TypeOK, UsersInv, ConnsInv, RightWorkConn, ExclusiveUse,
     Active, Waiting, Pooled, Pool, Claimable, PoolId
<1>4. ASSUME NEW s \in Session, FreeSession(s)
      PROVE  (RightWorkConn /\ ExclusiveUse)'
  BY <1>4 DEF FreeSession, TypeOK, UsersInv, ConnsInv, RightWorkConn, ExclusiveUse, Active,
     Waiting, Pooled, Pool, Claimable, PoolId
<1>5. ASSUME NEW u \in User, NEW s \in Session, NEW n \in Name, Accept(u, s, n)
      PROVE  (RightWorkConn /\ ExclusiveUse)'
  BY <1>5 DEF Accept, TypeOK, UsersInv, ConnsInv, RightWorkConn, ExclusiveUse, Active,
     Waiting, Pooled, Pool, Claimable, PoolId
<1>6. ASSUME NEW u \in User, NEW s \in Session, NEW n \in Name, TurnAway(u, s, n)
      PROVE  (RightWorkConn /\ ExclusiveUse)'
  BY <1>6 DEF TurnAway, TypeOK, UsersInv, ConnsInv, RightWorkConn, ExclusiveUse, Active,
     Waiting, Pooled, Pool, Claimable, PoolId
<1>7. ASSUME NEW u \in User, NEW w \in Conn, PopDead(u, w)
      PROVE  (RightWorkConn /\ ExclusiveUse)'
  BY <1>7 DEF PopDead, TypeOK, UsersInv, ConnsInv, RightWorkConn, ExclusiveUse, Active,
     Waiting, Pooled, Pool, Claimable, PoolId
<1>8. ASSUME NEW u \in User, NEW w \in Conn, PopLive(u, w)
      PROVE  (RightWorkConn /\ ExclusiveUse)'
  BY <1>8 DEF PopLive, TypeOK, UsersInv, ConnsInv, RightWorkConn, ExclusiveUse, Active,
     Waiting, Pooled, Pool, Claimable, PoolId
<1>9. ASSUME NEW u \in User, PoolMiss(u)
      PROVE  (RightWorkConn /\ ExclusiveUse)'
  BY <1>9 DEF PoolMiss, TypeOK, UsersInv, ConnsInv, RightWorkConn, ExclusiveUse, Active,
     Waiting, Pooled, Pool, Claimable, PoolId
<1>10. ASSUME NEW u \in User, PendingInsert(u)
      PROVE  (RightWorkConn /\ ExclusiveUse)'
  BY <1>10 DEF PendingInsert, TypeOK, UsersInv, ConnsInv, RightWorkConn, ExclusiveUse,
     Active, Waiting, Pooled, Pool, Claimable, PoolId
<1>11. ASSUME NEW u \in User, SendFails(u)
      PROVE  (RightWorkConn /\ ExclusiveUse)'
  BY <1>11 DEF SendFails, TypeOK, UsersInv, ConnsInv, RightWorkConn, ExclusiveUse, Active,
     Waiting, Pooled, Pool, Claimable, PoolId
<1>12. ASSUME NEW u \in User, RequestEnds(u)
      PROVE  (RightWorkConn /\ ExclusiveUse)'
  BY <1>12 DEF RequestEnds, TypeOK, UsersInv, ConnsInv, RightWorkConn, ExclusiveUse,
     Active, Waiting, Pooled, Pool, Claimable, PoolId
<1>13. ASSUME NEW S \in SUBSET User, Sweep(S)
      PROVE  (RightWorkConn /\ ExclusiveUse)'
  BY <1>13 DEF Sweep, TypeOK, UsersInv, ConnsInv, RightWorkConn, ExclusiveUse, Active,
     Waiting, Pooled, Pool, Claimable, PoolId
<1>14. ASSUME NEW u \in User, BridgeEnds(u)
      PROVE  (RightWorkConn /\ ExclusiveUse)'
  BY <1>14 DEF BridgeEnds, TypeOK, UsersInv, ConnsInv, RightWorkConn, ExclusiveUse, Active,
     Waiting, Pooled, Pool, Claimable, PoolId
<1>15. ASSUME NEW w \in Conn, NEW s \in Session, ReceiveReq(w, s)
      PROVE  (RightWorkConn /\ ExclusiveUse)'
  BY <1>15 DEF ReceiveReq, TypeOK, UsersInv, ConnsInv, RightWorkConn, ExclusiveUse, Active,
     Waiting, Pooled, Pool, Claimable, PoolId
<1>16. ASSUME NEW w \in Conn, NEW s \in Session, NEW n \in Name, Preheat(w, s, n)
      PROVE  (RightWorkConn /\ ExclusiveUse)'
  BY <1>16 DEF Preheat, TypeOK, UsersInv, ConnsInv, RightWorkConn, ExclusiveUse, Active,
     Waiting, Pooled, Pool, Claimable, PoolId
<1>17. ASSUME NEW w \in Conn, DialFails(w)
      PROVE  (RightWorkConn /\ ExclusiveUse)'
  BY <1>17 DEF DialFails, TypeOK, UsersInv, ConnsInv, RightWorkConn, ExclusiveUse, Active,
     Waiting, Pooled, Pool, Claimable, PoolId
<1>18. ASSUME NEW w \in Conn, StartWorkConn(w)
      PROVE  (RightWorkConn /\ ExclusiveUse)'
  BY <1>18 DEF StartWorkConn, TypeOK, UsersInv, ConnsInv, RightWorkConn, ExclusiveUse,
     Active, Waiting, Pooled, Pool, Claimable, PoolId
<1>19. ASSUME NEW w \in Conn, LocalCloses(w)
      PROVE  (RightWorkConn /\ ExclusiveUse)'
  BY <1>19 DEF LocalCloses, TypeOK, UsersInv, ConnsInv, RightWorkConn, ExclusiveUse,
     Active, Waiting, Pooled, Pool, Claimable, PoolId
<1>20. ASSUME NEW w \in Conn, Resolve(w)
      PROVE  (RightWorkConn /\ ExclusiveUse)'
  BY <1>20 DEF Resolve, TypeOK, UsersInv, ConnsInv, RightWorkConn, ExclusiveUse, Active,
     Waiting, Pooled, Pool, Claimable, PoolId
<1>21. ASSUME NEW w \in Conn, ResolveFails(w)
      PROVE  (RightWorkConn /\ ExclusiveUse)'
  BY <1>21 DEF ResolveFails, TypeOK, UsersInv, ConnsInv, RightWorkConn, ExclusiveUse,
     Active, Waiting, Pooled, Pool, Claimable, PoolId
<1>22. ASSUME NEW w \in Conn, PoolPush(w)
      PROVE  (RightWorkConn /\ ExclusiveUse)'
  BY <1>22 DEF PoolPush, TypeOK, UsersInv, ConnsInv, RightWorkConn, ExclusiveUse, Active,
     Waiting, Pooled, Pool, Claimable, PoolId
<1>23. ASSUME NEW w \in Conn, PoolFull(w)
      PROVE  (RightWorkConn /\ ExclusiveUse)'
  BY <1>23 DEF PoolFull, TypeOK, UsersInv, ConnsInv, RightWorkConn, ExclusiveUse, Active,
     Waiting, Pooled, Pool, Claimable, PoolId
<1>24. ASSUME NEW w \in Conn, Claim(w)
      PROVE  (RightWorkConn /\ ExclusiveUse)'
  BY <1>24 DEF Claim, TypeOK, UsersInv, ConnsInv, RightWorkConn, ExclusiveUse, Active,
     Waiting, Pooled, Pool, Claimable, PoolId
<1>25. ASSUME NEW w \in Conn, ClaimFails(w)
      PROVE  (RightWorkConn /\ ExclusiveUse)'
  BY <1>25 DEF ClaimFails, TypeOK, UsersInv, ConnsInv, RightWorkConn, ExclusiveUse, Active,
     Waiting, Pooled, Pool, Claimable, PoolId
<1> QED
  BY <1>1, <1>2, <1>3, <1>4, <1>5, <1>6, <1>7, <1>8, <1>9, <1>10, <1>11, <1>12, <1>13,
     <1>14, <1>15, <1>16, <1>17, <1>18, <1>19, <1>20, <1>21, <1>22, <1>23, <1>24, <1>25
     DEF Next, vars, ControlStep, CleanStep, DispatchStep, RequestStep, HandlerStep,
        ClientStep, Login, Listen, IndexProxy, Unregister, CleanAbort, SendReq

\* Only PoolPush adds to a pool.
LEMMA PoolShrinks ==
    ASSUME TypeOK, [Next]_vars, NEW t \in Session, NEW m \in Name,
           ~\E w \in Conn : PoolPush(w)
    PROVE  Pool(t, m)' \subseteq Pool(t, m)
<1> USE DEF control, uvars, wvars, Pool, Pooled, TypeOK
<1>1. CASE UNCHANGED wvars
  BY <1>1
<1>2. ASSUME NEW s \in Session, CleanPools(s)
      PROVE  Pool(t, m)' \subseteq Pool(t, m)
  BY <1>2 DEF CleanPools, CloseConns
<1>3. ASSUME NEW s \in Session, FreeSession(s)
      PROVE  Pool(t, m)' \subseteq Pool(t, m)
  BY <1>3 DEF FreeSession, CloseConns
<1>4. ASSUME NEW u \in User, NEW w \in Conn, PopDead(u, w)
      PROVE  Pool(t, m)' \subseteq Pool(t, m)
  BY <1>4 DEF PopDead, CloseConns
<1>5. ASSUME NEW u \in User, NEW w \in Conn, PopLive(u, w)
      PROVE  Pool(t, m)' \subseteq Pool(t, m)
  BY <1>5 DEF PopLive
<1>6. ASSUME NEW u \in User, BridgeEnds(u)
      PROVE  Pool(t, m)' \subseteq Pool(t, m)
  BY <1>6 DEF BridgeEnds, CloseConns
<1>7. ASSUME NEW w \in Conn, NEW s \in Session, ReceiveReq(w, s)
      PROVE  Pool(t, m)' \subseteq Pool(t, m)
  BY <1>7 DEF ReceiveReq, Dial
<1>8. ASSUME NEW w \in Conn, NEW s \in Session, NEW n \in Name, Preheat(w, s, n)
      PROVE  Pool(t, m)' \subseteq Pool(t, m)
  BY <1>8 DEF Preheat, Dial
<1>9. ASSUME NEW w \in Conn, DialFails(w)
      PROVE  Pool(t, m)' \subseteq Pool(t, m)
  BY <1>9 DEF DialFails, CloseConns
<1>10. ASSUME NEW w \in Conn, StartWorkConn(w)
      PROVE  Pool(t, m)' \subseteq Pool(t, m)
  BY <1>10 DEF StartWorkConn
<1>11. ASSUME NEW w \in Conn, LocalCloses(w)
      PROVE  Pool(t, m)' \subseteq Pool(t, m)
  BY <1>11 DEF LocalCloses
<1>12. ASSUME NEW w \in Conn, Resolve(w)
      PROVE  Pool(t, m)' \subseteq Pool(t, m)
  BY <1>12 DEF Resolve
<1>13. ASSUME NEW w \in Conn, ResolveFails(w)
      PROVE  Pool(t, m)' \subseteq Pool(t, m)
  BY <1>13 DEF ResolveFails, CloseConns
<1>14. ASSUME NEW w \in Conn, PoolFull(w)
      PROVE  Pool(t, m)' \subseteq Pool(t, m)
  BY <1>14 DEF PoolFull, CloseConns
<1>15. ASSUME NEW w \in Conn, Claim(w)
      PROVE  Pool(t, m)' \subseteq Pool(t, m)
  BY <1>15 DEF Claim
<1>16. ASSUME NEW w \in Conn, ClaimFails(w)
      PROVE  Pool(t, m)' \subseteq Pool(t, m)
  BY <1>16 DEF ClaimFails, CloseConns
<1> QED
  BY <1>1, <1>2, <1>3, <1>4, <1>5, <1>6, <1>7, <1>8, <1>9, <1>10, <1>11, <1>12, <1>13,
     <1>14, <1>15, <1>16
     DEF Next, vars, ControlStep, CleanStep, DispatchStep, RequestStep, HandlerStep,
        ClientStep, Login, Listen, IndexProxy, Unregister, CleanAbort, CleanPending,
        Accept, TurnAway, PoolMiss, PendingInsert, SendReq, SendFails, RequestEnds, Sweep

\* The limit is checked under the lock that guards the pool.
LEMMA PoolStep ==
    TypeOK /\ PoolBound /\ [Next]_vars => PoolBound'
<1> SUFFICES ASSUME TypeOK, PoolBound, [Next]_vars, NEW t \in Session, NEW m \in Name
             PROVE  Cardinality(Pool(t, m)') <= MaxPool
  BY DEF PoolBound
<1>1. IsFiniteSet(Pool(t, m))
  BY WorkAssumption, FS_Subset DEF Pool, Pooled
<1>2. Cardinality(Pool(t, m)) \in Nat /\ Cardinality(Pool(t, m)) <= MaxPool
  BY <1>1, FS_CardinalityType DEF PoolBound
<1>3. CASE Pool(t, m)' \subseteq Pool(t, m)
  <2>1. IsFiniteSet(Pool(t, m)') /\ Cardinality(Pool(t, m)') <= Cardinality(Pool(t, m))
    BY <1>1, <1>3, FS_Subset
  <2> QED
    BY <2>1, <1>2, FS_CardinalityType, WorkAssumption
<1>4. ASSUME NEW w \in Conn, PoolPush(w), ~(Pool(t, m)' \subseteq Pool(t, m))
      PROVE  Cardinality(Pool(t, m)') <= MaxPool
  <2>1. wsess[w] = t /\ wname[w] = m /\ w \notin Pool(t, m)
    BY <1>4 DEF PoolPush, TypeOK, Pool, Pooled
  <2>2. Pool(t, m)' = Pool(t, m) \cup {w}
    BY <1>4, <2>1 DEF PoolPush, TypeOK, Pool, Pooled
  <2>3. Cardinality(Pool(t, m)') = Cardinality(Pool(t, m)) + 1
    <3> DEFINE P == Pool(t, m)
    <3>1. IsFiniteSet(P) /\ w \notin P
      BY <1>1, <2>1
    <3> HIDE DEF P
    <3>2. Cardinality(P \cup {w}) = Cardinality(P) + 1
      BY <3>1, FS_AddElement
    <3> QED
      BY <2>2, <3>2 DEF P
  <2>4. Cardinality(Pool(t, m)) < MaxPool
    BY <1>4, <2>1 DEF PoolPush
  <2> QED
    BY <2>3, <2>4, <1>2, WorkAssumption
<1> QED
  BY <1>3, <1>4, PoolShrinks

\* The inductive invariant holds initially.
LEMMA WInitInd == Init => IndInv /\ PoolBound
<1> SUFFICES ASSUME Init PROVE IndInv /\ PoolBound
  OBVIOUS
<1>1. TypeOK
  BY DEF Init, TypeOK, Label, UState, WState, PoolId
<1>2. LocalsInv /\ UsersInv /\ ConnsInv
  BY DEF Init, LocalsInv, UsersInv, ConnsInv, Active
<1>3. IdsInv
  BY DEF Init, IdsInv, PoolId, Waiting
<1>4. RightWorkConn /\ ExclusiveUse
  BY DEF Init, RightWorkConn, ExclusiveUse
<1>5. PoolBound
  <2> SUFFICES ASSUME NEW s \in Session, NEW n \in Name
               PROVE  Cardinality(Pool(s, n)) <= MaxPool
    BY DEF PoolBound
  <2>1. Pool(s, n) = {}
    BY DEF Init, Pool, Pooled
  <2> QED
    BY <2>1, FS_EmptySet, WorkAssumption
<1> QED
  BY <1>1, <1>2, <1>3, <1>4, <1>5 DEF IndInv

\* Every reachable state satisfies the inductive invariant.
THEOREM WInductive == Spec => [](IndInv /\ PoolBound)
<1>1. IndInv /\ PoolBound /\ [Next]_vars => (IndInv /\ PoolBound)'
  BY WTypeStep, WLocalsStep, UsersStep, IdsStep, ConnsStep, BridgesStep, PoolStep DEF IndInv
<1> QED
  BY WInitInd, <1>1, PTL DEF Spec

\* The tables, the users and the work connections keep their types: in particular a
\* connection that the pool hands out has passed the probe (listener.rs:220-261).
THEOREM WTypeCorrect == Spec => []TypeOK
<1>1. IndInv => TypeOK
  BY DEF IndInv
<1> QED
  BY WInductive, <1>1, PTL

\* A user is bridged only with a work connection of its own session and proxy,
\* opened for the pool or for this user.
THEOREM BridgedRight == Spec => []RightWorkConn
<1>1. IndInv => RightWorkConn
  BY DEF IndInv
<1> QED
  BY WInductive, <1>1, PTL

\* No work connection serves two users or is pooled while it serves one.
THEOREM UsedExclusively == Spec => []ExclusiveUse
<1>1. IndInv => ExclusiveUse
  BY DEF IndInv
<1> QED
  BY WInductive, <1>1, PTL

\* An entry of the pending table is never overwritten.
THEOREM IdsAreUnique == Spec => []UniqueIds
<1>1. IndInv => UniqueIds
  BY DEF IndInv, IdsInv, UniqueIds, Waiting
<1> QED
  BY WInductive, <1>1, PTL

\* Pools stay within their limit and hold only connections of their own session.
THEOREM PoolsAreSound == Spec => []PoolSound
<1>1. IndInv /\ PoolBound => PoolSound
  BY DEF IndInv, PoolBound, ConnsInv, PoolSound, Pool, Pooled
<1> QED
  BY WInductive, <1>1, PTL

\* A work connection that the client dials is offered.
LEMMA DialOffers ==
    ASSUME IndInv, NEW w \in Conn, NEW s \in Session, NEW n \in Name, NEW id, Dial(w, s, n, id)
    PROVE  R!Offer(w)
<1>1. /\ wstate[w] = "none"
      /\ wstate' = [wstate EXCEPT ![w] = "dial"]
      /\ wname' = [wname EXCEPT ![w] = n]
      /\ wtok' = [wtok EXCEPT ![w] = s]
  BY DEF Dial
<1>2. Offers' = [Offers EXCEPT ![w] = <<s, n>>]
  BY <1>1 DEF IndInv, TypeOK, Offers
<1>3. UNCHANGED <<Wants, ustate, mate>>
  BY DEF Dial, uvars, Wants
<1>4. /\ ConnView(wstate[w]) = "new"
      /\ [c \in Conn |-> ConnView(wstate'[c])]
           = [[c \in Conn |-> ConnView(wstate[c])] EXCEPT ![w] = "waiting"]
  BY <1>1 DEF IndInv, TypeOK, ConnView
<1> QED
  BY <1>2, <1>3, <1>4 DEF R!Offer

\* Every step of the server is a step of the abstract rendezvous or changes
\* nothing that it sees.
LEMMA RefineStep ==
    IndInv /\ [Next]_vars => [R!RNext]_(R!rvars)
<1> SUFFICES ASSUME IndInv, [Next]_vars
             PROVE  R!RNext \/ UNCHANGED R!rvars
  OBVIOUS
<1> USE DEF IndInv, control, uvars, wvars
<1>1. CASE UNCHANGED <<workId, uvars, wvars>>
  BY <1>1 DEF R!rvars, Wants, Offers
<1>2. ASSUME NEW s \in Session, CleanPools(s)
      PROVE  R!RNext \/ UNCHANGED R!rvars
  <2>1. R!Withdraw(Pooled(target[s]))
    BY <1>2 DEF CleanPools, R!Withdraw, R!ConnGone, CloseConns, TypeOK, Wants, Offers,
       ConnView, Pooled
  <2>2. Pooled(target[s]) \in SUBSET Conn
    BY DEF Pooled
  <2> QED
    BY <2>1, <2>2 DEF R!RNext
<1>3. ASSUME NEW s \in Session, CleanPending(s)
      PROVE  R!RNext \/ UNCHANGED R!rvars
  <2>1. R!GiveUp({u \in Waiting : usess[u] = target[s]})
    BY <1>3 DEF CleanPending, R!GiveUp, R!UserGone, CloseUsers, TypeOK, UsersInv, Wants,
       Offers, UserView, Waiting
  <2>2. {u \in Waiting : usess[u] = target[s]} \in SUBSET User
    BY DEF Waiting
  <2> QED
    BY <2>1, <2>2 DEF R!RNext
<1>4. ASSUME NEW s \in Session, FreeSession(s)
      PROVE  R!RNext \/ UNCHANGED R!rvars
  <2>1. R!Withdraw(Pooled(s))
    BY <1>4 DEF FreeSession, R!Withdraw, R!ConnGone, CloseConns, TypeOK, Wants, Offers,
       ConnView, Pooled
  <2>2. Pooled(s) \in SUBSET Conn
    BY DEF Pooled
  <2> QED
    BY <2>1, <2>2 DEF R!RNext
<1>5. ASSUME NEW u \in User, NEW s \in Session, NEW n \in Name, Accept(u, s, n)
      PROVE  R!RNext \/ UNCHANGED R!rvars
  <2>1. Wants' = [Wants EXCEPT ![u] = <<s, n>>]
    BY <1>5 DEF Accept, TypeOK, Wants
  <2>2. UNCHANGED <<Offers, wstate, mate>>
    BY <1>5 DEF Accept, Offers
  <2>3. /\ UserView(ustate[u]) = "new"
        /\ [v \in User |-> UserView(ustate'[v])]
             = [[v \in User |-> UserView(ustate[v])] EXCEPT ![u] = "waiting"]
    BY <1>5 DEF Accept, TypeOK, UserView
  <2>4. R!Arrive(u)
    BY <2>1, <2>2, <2>3 DEF R!Arrive
  <2> QED
    BY <2>4 DEF R!RNext
<1>6. ASSUME NEW u \in User, NEW s \in Session, NEW n \in Name, TurnAway(u, s, n)
      PROVE  R!RNext \/ UNCHANGED R!rvars
  <2>1. R!GiveUp({u})
    BY <1>6 DEF TurnAway, R!GiveUp, R!UserGone, CloseUsers, TypeOK, UsersInv, Wants, Offers,
       UserView
  <2>2. {u} \in SUBSET User
    BY DEF Waiting
  <2> QED
    BY <2>1, <2>2 DEF R!RNext
<1>7. ASSUME NEW u \in User, NEW w \in Conn, PopDead(u, w)
      PROVE  R!RNext \/ UNCHANGED R!rvars
  <2>1. R!Withdraw({w})
    BY <1>7 DEF PopDead, R!Withdraw, R!ConnGone, CloseConns, TypeOK, Wants, Offers, ConnView,
       Pool, Pooled
  <2>2. {w} \in SUBSET Conn
    BY DEF Pooled
  <2> QED
    BY <2>1, <2>2 DEF R!RNext
<1>8. ASSUME NEW u \in User, NEW w \in Conn, PopLive(u, w)
      PROVE  R!RNext \/ UNCHANGED R!rvars
  <2>1. ustate[u] = "accepted" /\ wstate[w] = "pooled"
    BY <1>8 DEF PopLive, Pool, Pooled
  <2>2. wtok[w] = usess[u] /\ wname[w] = uname[u]
    BY <1>8 DEF PopLive, Pool, Pooled, ConnsInv
  <2>3. R!Pair(u, w)
    BY <1>8, <2>1, <2>2 DEF PopLive, R!Pair, TypeOK, Wants, Offers, UserView, ConnView
  <2> QED
    BY <2>3 DEF R!RNext
<1>9. ASSUME NEW u \in User, PoolMiss(u)
      PROVE  R!RNext \/ UNCHANGED R!rvars
  BY <1>9 DEF PoolMiss, R!rvars, TypeOK, Wants, Offers, UserView, ConnView
<1>10. ASSUME NEW u \in User, PendingInsert(u)
      PROVE  R!RNext \/ UNCHANGED R!rvars
  BY <1>10 DEF PendingInsert, R!rvars, TypeOK, Wants, Offers, UserView, ConnView
<1>11. ASSUME NEW u \in User, SendFails(u)
      PROVE  R!RNext \/ UNCHANGED R!rvars
  <2>1. R!GiveUp({u} \cap Waiting)
    BY <1>11 DEF SendFails, R!GiveUp, R!UserGone, CloseUsers, TypeOK, UsersInv, Wants, Offers,
       UserView, Waiting
  <2>2. {u} \cap Waiting \in SUBSET User
    BY DEF Waiting
  <2> QED
    BY <2>1, <2>2 DEF R!RNext
<1>12. ASSUME NEW u \in User, RequestEnds(u)
      PROVE  R!RNext \/ UNCHANGED R!rvars
  BY <1>12 DEF RequestEnds, R!rvars, TypeOK, Wants, Offers, UserView, ConnView
<1>13. ASSUME NEW S \in SUBSET User, Sweep(S)
      PROVE  R!RNext \/ UNCHANGED R!rvars
  <2>1. R!GiveUp(S)
    BY <1>13 DEF Sweep, R!GiveUp, R!UserGone, CloseUsers, TypeOK, UsersInv, Wants, Offers,
       UserView, Waiting
  <2>2. S \in SUBSET User
    BY DEF Waiting
  <2> QED
    BY <2>1, <2>2 DEF R!RNext
<1>14. ASSUME NEW u \in User, BridgeEnds(u)
      PROVE  R!RNext \/ UNCHANGED R!rvars
  <2>1. R!Part(u)
    BY <1>14 DEF BridgeEnds, R!Part, R!UserGone, R!ConnGone, CloseUsers, CloseConns, TypeOK,
         Wants, Offers, UsersInv, UserView, ConnView
  <2> QED
    BY <2>1 DEF R!RNext
<1>15. ASSUME NEW w \in Conn, NEW s \in Session, ReceiveReq(w, s)
      PROVE  R!RNext \/ UNCHANGED R!rvars
  <2>1. PICK m \in reqs[s] : Dial(w, s, m[1], m[2])
    BY <1>15 DEF ReceiveReq
  <2>2. m[1] \in Name
    BY <2>1 DEF TypeOK
  <2> QED
    BY <2>1, <2>2, DialOffers DEF R!RNext
<1>16. ASSUME NEW w \in Conn, NEW s \in Session, NEW n \in Name, Preheat(w, s, n)
      PROVE  R!RNext \/ UNCHANGED R!rvars
  BY <1>16, DialOffers DEF Preheat, R!RNext
<1>17. ASSUME NEW w \in Conn, DialFails(w)
      PROVE  R!RNext \/ UNCHANGED R!rvars
  <2>1. R!Withdraw({w})
    BY <1>17 DEF DialFails, R!Withdraw, R!ConnGone, CloseConns, TypeOK, Wants, Offers, ConnView
  <2>2. {w} \in SUBSET Conn
    BY DEF Pooled
  <2> QED
    BY <2>1, <2>2 DEF R!RNext
<1>18. ASSUME NEW w \in Conn, StartWorkConn(w)
      PROVE  R!RNext \/ UNCHANGED R!rvars
  BY <1>18 DEF StartWorkConn, R!rvars, TypeOK, Wants, Offers, UserView, ConnView
<1>19. ASSUME NEW w \in Conn, LocalCloses(w)
      PROVE  R!RNext \/ UNCHANGED R!rvars
  BY <1>19 DEF LocalCloses, R!rvars, TypeOK, Wants, Offers, UserView, ConnView
<1>20. ASSUME NEW w \in Conn, Resolve(w)
      PROVE  R!RNext \/ UNCHANGED R!rvars
  BY <1>20 DEF Resolve, R!rvars, TypeOK, Wants, Offers, UserView, ConnView
<1>21. ASSUME NEW w \in Conn, ResolveFails(w)
      PROVE  R!RNext \/ UNCHANGED R!rvars
  <2>1. R!Withdraw({w})
    BY <1>21 DEF ResolveFails, R!Withdraw, R!ConnGone, CloseConns, TypeOK, Wants, Offers,
       ConnView
  <2>2. {w} \in SUBSET Conn
    BY DEF Pooled
  <2> QED
    BY <2>1, <2>2 DEF R!RNext
<1>22. ASSUME NEW w \in Conn, PoolPush(w)
      PROVE  R!RNext \/ UNCHANGED R!rvars
  BY <1>22 DEF PoolPush, R!rvars, TypeOK, Wants, Offers, UserView, ConnView
<1>23. ASSUME NEW w \in Conn, PoolFull(w)
      PROVE  R!RNext \/ UNCHANGED R!rvars
  <2>1. R!Withdraw({w})
    BY <1>23 DEF PoolFull, R!Withdraw, R!ConnGone, CloseConns, TypeOK, Wants, Offers, ConnView
  <2>2. {w} \in SUBSET Conn
    BY DEF Pooled
  <2> QED
    BY <2>1, <2>2 DEF R!RNext
<1>24. ASSUME NEW w \in Conn, Claim(w)
      PROVE  R!RNext \/ UNCHANGED R!rvars
  <2>1. PICK u \in Claimable(w) :
            /\ ustate' = [ustate EXCEPT ![u] = "bridged"]
            /\ mate' = [mate EXCEPT ![u] = w]
    BY <1>24 DEF Claim
  <2>2. /\ u \in User /\ ustate[u] = "waiting" /\ wstate[w] = "auth"
        /\ wtok[w] = usess[u] /\ wname[w] = uname[u]
    BY <1>24 DEF Claim, Claimable, Waiting, ConnsInv
  <2>3. R!Pair(u, w)
    BY <1>24, <2>1, <2>2 DEF Claim, R!Pair, TypeOK, Wants, Offers, UserView, ConnView
  <2> QED
    BY <2>2, <2>3 DEF R!RNext
<1>25. ASSUME NEW w \in Conn, ClaimFails(w)
      PROVE  R!RNext \/ UNCHANGED R!rvars
  <2>1. R!Withdraw({w})
    BY <1>25 DEF ClaimFails, R!Withdraw, R!ConnGone, CloseConns, TypeOK, Wants, Offers, ConnView
  <2>2. {w} \in SUBSET Conn
    BY DEF Pooled
  <2> QED
    BY <2>1, <2>2 DEF R!RNext
<1> QED
  BY <1>1, <1>2, <1>3, <1>4, <1>5, <1>6, <1>7, <1>8, <1>9, <1>10, <1>11, <1>12, <1>13,
     <1>14, <1>15, <1>16, <1>17, <1>18, <1>19, <1>20, <1>21, <1>22, <1>23, <1>24, <1>25
     DEF Next, vars, ControlStep, CleanStep, DispatchStep, RequestStep, HandlerStep,
        ClientStep, Login, Listen, IndexProxy, Unregister, CleanAbort, SendReq

\* The server implements the abstract rendezvous of users and work connections.
THEOREM Refinement == Spec => Implements
<1>1. Init => R!RInit
  BY DEF Init, R!RInit, Wants, Offers, UserView, ConnView
<1> QED
  BY <1>1, RefineStep, WInductive, PTL DEF Spec, Implements, R!RSpec
=============================================================================
