--------------------------- MODULE UdpProxyProofs ---------------------------
(***************************************************************************)
(* What holds of a UDP proxy for any number of peers, datagrams and work   *)
(* ids: its pending tables agree, and every session has a handler.         *)
(***************************************************************************)
EXTENDS UdpProxy, SequenceTheorems, FiniteSetTheorems, TLAPS

\* TypeOK in two halves: the channels' contents, and the rest
SeqTypes == queue \in [Id -> Seq(Datagram)] /\ batch \in [Id -> Seq(Datagram)]
            /\ written \in [Id -> Seq(Datagram)]

Types ==
    /\ sent \in [Peer -> 0..MaxSent]
    /\ sessions \in [Peer -> Id \cup {None}]
    /\ idle \subseteq Peer
    /\ pendingById \subseteq Id /\ expired \subseteq pendingById
    /\ pendingClient \in [Peer -> Id \cup {None}]
    /\ stop \in BOOLEAN
    /\ workId \in 0..MaxId
    /\ client \in [Id -> Peer \cup {None}]
    /\ opener \in [Id -> Datagram \cup {None}]
    /\ lpc \in LPC /\ hand \in Datagram \cup {None} /\ seen \in Id \cup {None}
    /\ sweeping \subseteq Id
    /\ asking \subseteq Id /\ asked \subseteq Id
    /\ unlinking \in [Id -> {None, "sweep", "request", "work"}]
    /\ hpc \in [Id -> HPC]

\* The two halves are TypeOK.
LEMMA TypeParts == TypeOK <=> Types /\ SeqTypes
BY DEF TypeOK, Types, SeqTypes

\* What the listener holds at each label
HandInv ==
    /\ lpc \in {"send", "pending", "byid", "limit", "insert", "link", "ask"} => hand \in Datagram
    /\ lpc \in {"send", "byid", "link", "ask"} => seen \in Id

\* The id that InsertPending hands out
LEMMA NextId ==
    ASSUME workId \in 0..MaxId, workId # MaxId
    PROVE  workId + 1 \in Id /\ workId + 1 # None
BY UdpAssumption DEF Id

\* Ids are numbers, and None is no value.
LEMMA IdFacts == None \notin Id /\ None \notin Datagram /\ None \notin Peer /\ Id \subseteq Nat
BY UdpAssumption DEF Id, Datagram

\* The datagram in the listener's hand has a peer.
LEMMA HandPeer ==
    ASSUME HandInv, lpc \in {"send", "pending", "byid", "limit", "insert", "link", "ask"}
    PROVE  hand \in Datagram /\ hand[1] \in Peer
BY DEF HandInv, Datagram

\* Ids come from the counter: a later one is known nowhere, an earlier one has its peer.
\* A handler answers a request that was sent, and whoever takes a pending session out of
\* its table is the only one to do so.
IdsInv ==
    /\ \A i \in Id : i > workId =>
         i \notin pendingById /\ i \notin asking /\ i \notin asked /\ unlinking[i] = None
    /\ \A i \in Id : i <= workId => client[i] \in Peer
    /\ \A i \in Id : hpc[i] # "none" => i \in asked
    /\ \A i \in Id : unlinking[i] = "work" => hpc[i] = "unlink"
    /\ \A i \in Id : unlinking[i] # None => i \notin pendingById

\* Between the insertion of a pending session and its reverse entry nobody else touches
\* it, and its peer has no other.
LinkInv ==
    /\ lpc \in {"limit", "insert", "link"} => pendingClient[hand[1]] = None
    /\ lpc = "link" => seen \in pendingById /\ client[seen] = hand[1]
    /\ lpc \in {"link", "ask"} => seen = workId /\ seen \notin asking /\ seen \notin asked

\* Every step keeps the types of the variables without datagrams.
LEMMA TypesStep == Types /\ HandInv /\ [Next]_vars => Types'
<1> SUFFICES ASSUME Types, HandInv, [Next]_vars PROVE Types'
  OBVIOUS
<1> USE IdFacts, UdpAssumption DEF Types, HandInv, LPC, HPC, tables, channels, listener,
   requests, handlers
<1>1. CASE UNCHANGED vars
  BY <1>1 DEF vars
<1>2. ASSUME NEW p \in Peer, Receive(p) PROVE Types'
  <2>1. <<p, sent[p] + 1>> \in Datagram /\ sent[p] + 1 \in 0..MaxSent
    BY <1>2 DEF Receive, Datagram
  <2> QED
    BY <1>2, <2>1 DEF Receive, Touch
<1>3. CASE TrySend
  BY <1>3 DEF TrySend, Return
<1>4. CASE LookUpPending
  <2>1. hand[1] \in Peer
    BY <1>4, HandPeer DEF LookUpPending
  <2> QED
    BY <1>4, <2>1 DEF LookUpPending
<1>5. CASE LookUpById
  BY <1>5 DEF LookUpById, Return
<1>6. CASE InsertPending
  <2>0. workId # MaxId
    BY <1>6 DEF InsertPending
  <2>1. workId + 1 \in Id /\ workId + 1 # None /\ workId + 1 \in 0..MaxId
    BY <2>0, NextId DEF Types, Id
  <2>2. hand \in Datagram /\ hand[1] \in Peer
    BY <1>6, HandPeer DEF InsertPending, Types
  <2>3. /\ workId' \in 0..MaxId /\ client' \in [Id -> Peer \cup {None}]
        /\ opener' \in [Id -> Datagram \cup {None}]
    BY <1>6, <2>0, <2>1, <2>2 DEF InsertPending
  <2>4. pendingById' = pendingById \cup {workId + 1} /\ seen' \in Id /\ lpc' = "link"
    BY <1>6, <2>0, <2>1 DEF InsertPending
  <2> QED
    BY <1>6, <2>0, <2>1, <2>3, <2>4 DEF InsertPending
<1>7. CASE Link
  BY <1>7 DEF Link
<1>8. CASE SpawnRequest
  BY <1>8 DEF SpawnRequest, Return
<1>9. CASE SweepSessions
  BY <1>9 DEF SweepSessions
<1>10. CASE SweepCollect
  BY <1>10 DEF SweepCollect, TooOld
<1>11. ASSUME NEW i \in Id, SweepTake(i) PROVE Types'
  <2>1. CASE Take(i, "sweep")
    BY <1>11, <2>1 DEF SweepTake, Take
  <2>2. CASE UNCHANGED <<pendingById, expired, unlinking>>
    BY <1>11, <2>2 DEF SweepTake
  <2> QED
    BY <1>11, <2>1, <2>2 DEF SweepTake
<1>12. ASSUME NEW i \in Id, SweepUnlink(i) PROVE Types'
  BY <1>12 DEF SweepUnlink, Unlink
<1>13. CASE SweepDone
  BY <1>13 DEF SweepDone, Return
<1>14. CASE ListenerEnd
  BY <1>14 DEF ListenerEnd
<1>15. ASSUME NEW i \in Id, RequestSent(i) PROVE Types'
  BY <1>15 DEF RequestSent
<1>16. ASSUME NEW i \in Id, RequestFailed(i) PROVE Types'
  <2>1. CASE Take(i, "request")
    BY <1>16, <2>1 DEF RequestFailed, Take
  <2>2. CASE UNCHANGED <<pendingById, expired, unlinking>>
    BY <1>16, <2>2 DEF RequestFailed
  <2> QED
    BY <1>16, <2>1, <2>2 DEF RequestFailed
<1>17. ASSUME NEW i \in Id, RequestUnlink(i) PROVE Types'
  BY <1>17 DEF RequestUnlink, Unlink
<1>18. ASSUME NEW i \in Id, Dial(i) PROVE Types'
  BY <1>18 DEF Dial, Goto
<1>19. ASSUME NEW i \in Id, WorkTake(i) PROVE Types'
  BY <1>19, ZenonT(60) DEF WorkTake, Take, Goto
<1>20. ASSUME NEW i \in Id, WorkUnlink(i) PROVE Types'
  BY <1>20 DEF WorkUnlink, Unlink, Goto
<1>21. ASSUME NEW i \in Id, RegisterSession(i) PROVE Types'
  BY <1>21 DEF RegisterSession, Touch, Goto
<1>22. ASSUME NEW i \in Id, TakeBatch(i) PROVE Types'
  BY <1>22 DEF TakeBatch, Touch, Goto
<1>23. ASSUME NEW i \in Id, Written(i) PROVE Types'
  BY <1>23 DEF Written, Goto
<1>24. ASSUME NEW i \in Id, WriteFailed(i) PROVE Types'
  BY <1>24 DEF WriteFailed, Goto
<1>25. ASSUME NEW i \in Id, Forward(i) PROVE Types'
  BY <1>25 DEF Forward, Touch
<1>26. ASSUME NEW i \in Id, PeerCloses(i) PROVE Types'
  BY <1>26 DEF PeerCloses, Goto
<1>27. ASSUME NEW i \in Id, StopSeen(i) PROVE Types'
  BY <1>27 DEF StopSeen, Goto
<1>28. ASSUME NEW i \in Id, CloseWork(i) PROVE Types'
  BY <1>28 DEF CloseWork, RemoveSession, Touch, Goto
<1>29. ASSUME NEW p \in Peer, SessionIdle(p) PROVE Types'
  BY <1>29 DEF SessionIdle
<1>30. ASSUME NEW i \in Id, PendingExpires(i) PROVE Types'
  BY <1>30 DEF PendingExpires
<1>31. CASE Cleanup
  BY <1>31 DEF Cleanup
<1>32. CASE CheckLimit
  BY <1>32 DEF CheckLimit, Return
<1> QED
  BY <1>1, <1>2, <1>3, <1>4, <1>5, <1>6, <1>7, <1>8, <1>9, <1>10, <1>11, <1>12, <1>13, <1>14,
     <1>15, <1>16, <1>17, <1>18, <1>19, <1>20, <1>21, <1>22, <1>23, <1>24, <1>25, <1>26, <1>27,
     <1>28, <1>29, <1>30, <1>31, <1>32 DEF Next, ListenerNext, RequestNext, HandlerNext

\* Every step keeps the types of the queues.
LEMMA SeqStep == Types /\ SeqTypes /\ HandInv /\ [Next]_vars => SeqTypes'
<1> SUFFICES ASSUME Types, SeqTypes, HandInv, [Next]_vars PROVE SeqTypes'
  OBVIOUS
<1> USE IdFacts, UdpAssumption DEF SeqTypes, HandInv, tables, channels, listener, requests,
   handlers
<1>1. CASE UNCHANGED vars
  BY <1>1 DEF vars
<1>2. ASSUME NEW p \in Peer, Receive(p) PROVE SeqTypes'
  BY <1>2 DEF Receive, Touch
<1>3. CASE TrySend
  <2>1. hand \in Datagram /\ seen \in Id
    BY <1>3, HandPeer DEF TrySend
  <2>2. Append(queue[seen], hand) \in Seq(Datagram)
    BY <2>1
  <2>3. queue' = queue \/ queue' = [queue EXCEPT ![seen] = Append(queue[seen], hand)]
    BY <1>3 DEF TrySend
  <2>4. queue' \in [Id -> Seq(Datagram)]
    BY <2>1, <2>2, <2>3
  <2> QED
    BY <1>3, <2>4 DEF TrySend
<1>4. CASE LookUpPending
  BY <1>4 DEF LookUpPending
<1>5. CASE LookUpById
  BY <1>5 DEF LookUpById, Return
<1>6. CASE InsertPending
  <2>0. workId # MaxId
    BY <1>6 DEF InsertPending
  <2>1. workId + 1 \in Id /\ workId + 1 # None /\ workId + 1 \in 0..MaxId
    BY <2>0, NextId DEF Types, Id
  <2>2. hand \in Datagram /\ hand[1] \in Peer
    BY <1>6, HandPeer DEF InsertPending, Types
  <2>3. <<hand>> \in Seq(Datagram)
    BY <2>2
  <2>4. queue' = [queue EXCEPT ![workId + 1] = <<hand>>]
    BY <1>6, <2>0 DEF InsertPending, FirstQueued
  <2>5. queue' \in [Id -> Seq(Datagram)]
    BY <2>1, <2>3, <2>4
  <2> QED
    BY <1>6, <2>5 DEF InsertPending
<1>7. CASE Link
  BY <1>7 DEF Link
<1>8. CASE SpawnRequest
  BY <1>8 DEF SpawnRequest, Return
<1>9. CASE SweepSessions
  BY <1>9 DEF SweepSessions
<1>10. CASE SweepCollect
  BY <1>10 DEF SweepCollect, TooOld
<1>11. ASSUME NEW i \in Id, SweepTake(i) PROVE SeqTypes'
  BY <1>11 DEF SweepTake, Take
<1>12. ASSUME NEW i \in Id, SweepUnlink(i) PROVE SeqTypes'
  BY <1>12 DEF SweepUnlink, Unlink
<1>13. CASE SweepDone
  BY <1>13 DEF SweepDone, Return
<1>14. CASE ListenerEnd
  BY <1>14 DEF ListenerEnd
<1>15. ASSUME NEW i \in Id, RequestSent(i) PROVE SeqTypes'
  BY <1>15 DEF RequestSent
<1>16. ASSUME NEW i \in Id, RequestFailed(i) PROVE SeqTypes'
  BY <1>16 DEF RequestFailed, Take
<1>17. ASSUME NEW i \in Id, RequestUnlink(i) PROVE SeqTypes'
  BY <1>17 DEF RequestUnlink, Unlink
<1>18. ASSUME NEW i \in Id, Dial(i) PROVE SeqTypes'
  BY <1>18 DEF Dial, Goto
<1>19. ASSUME NEW i \in Id, WorkTake(i) PROVE SeqTypes'
  BY <1>19 DEF WorkTake, Take, Goto
<1>20. ASSUME NEW i \in Id, WorkUnlink(i) PROVE SeqTypes'
  BY <1>20 DEF WorkUnlink, Unlink, Goto
<1>21. ASSUME NEW i \in Id, RegisterSession(i) PROVE SeqTypes'
  BY <1>21 DEF RegisterSession, Touch, Goto
<1>22. ASSUME NEW i \in Id, TakeBatch(i) PROVE SeqTypes'
  BY <1>22 DEF TakeBatch, Touch, Goto
<1>23. ASSUME NEW i \in Id, Written(i) PROVE SeqTypes'
  BY <1>23 DEF Written, Goto
<1>24. ASSUME NEW i \in Id, WriteFailed(i) PROVE SeqTypes'
  BY <1>24 DEF WriteFailed, Goto
<1>25. ASSUME NEW i \in Id, Forward(i) PROVE SeqTypes'
  BY <1>25 DEF Forward, Touch
<1>26. ASSUME NEW i \in Id, PeerCloses(i) PROVE SeqTypes'
  BY <1>26 DEF PeerCloses, Goto
<1>27. ASSUME NEW i \in Id, StopSeen(i) PROVE SeqTypes'
  BY <1>27 DEF StopSeen, Goto
<1>28. ASSUME NEW i \in Id, CloseWork(i) PROVE SeqTypes'
  BY <1>28 DEF CloseWork, RemoveSession, Touch, Goto
<1>29. ASSUME NEW p \in Peer, SessionIdle(p) PROVE SeqTypes'
  BY <1>29 DEF SessionIdle
<1>30. ASSUME NEW i \in Id, PendingExpires(i) PROVE SeqTypes'
  BY <1>30 DEF PendingExpires
<1>31. CASE Cleanup
  BY <1>31 DEF Cleanup
<1>32. CASE CheckLimit
  BY <1>32 DEF CheckLimit, Return
<1> QED
  BY <1>1, <1>2, <1>3, <1>4, <1>5, <1>6, <1>7, <1>8, <1>9, <1>10, <1>11, <1>12, <1>13, <1>14,
     <1>15, <1>16, <1>17, <1>18, <1>19, <1>20, <1>21, <1>22, <1>23, <1>24, <1>25, <1>26, <1>27,
     <1>28, <1>29, <1>30, <1>31, <1>32 DEF Next, ListenerNext, RequestNext, HandlerNext

\* The listener has a datagram, and an id, where it uses them.
LEMMA HandStep == Types /\ HandInv /\ [Next]_vars => HandInv'
<1> SUFFICES ASSUME Types, HandInv, [Next]_vars PROVE HandInv'
  OBVIOUS
<1> USE IdFacts, UdpAssumption DEF Types, HandInv, tables, channels, listener, requests,
   handlers
<1>1. CASE UNCHANGED vars
  BY <1>1 DEF vars
<1>2. ASSUME NEW p \in Peer, Receive(p) PROVE HandInv'
  <2>1. <<p, sent[p] + 1>> \in Datagram
    BY <1>2 DEF Receive, Datagram
  <2> QED
    BY <1>2, <2>1 DEF Receive
<1>3. CASE TrySend
  BY <1>3 DEF TrySend, Return
<1>4. CASE LookUpPending
  <2>1. hand[1] \in Peer
    BY <1>4, HandPeer DEF LookUpPending
  <2> QED
    BY <1>4, <2>1 DEF LookUpPending
<1>5. CASE LookUpById
  BY <1>5 DEF LookUpById, Return
<1>6. CASE InsertPending
  <2>0. workId # MaxId
    BY <1>6 DEF InsertPending
  <2>1. workId + 1 \in Id /\ workId + 1 # None /\ workId + 1 \in 0..MaxId
    BY <2>0, NextId DEF Types, Id
  <2>2. hand \in Datagram /\ hand[1] \in Peer
    BY <1>6, HandPeer DEF InsertPending, Types
  <2> QED
    BY <1>6, <2>0, <2>1, <2>2 DEF InsertPending
<1>7. CASE Link
  BY <1>7 DEF Link
<1>8. CASE SpawnRequest
  BY <1>8 DEF SpawnRequest, Return
<1>9. CASE SweepSessions
  BY <1>9 DEF SweepSessions
<1>10. CASE SweepCollect
  BY <1>10 DEF SweepCollect, TooOld
<1>11. ASSUME NEW i \in Id, SweepTake(i) PROVE HandInv'
  BY <1>11 DEF SweepTake, Take
<1>12. ASSUME NEW i \in Id, SweepUnlink(i) PROVE HandInv'
  BY <1>12 DEF SweepUnlink, Unlink
<1>13. CASE SweepDone
  BY <1>13 DEF SweepDone, Return
<1>14. CASE ListenerEnd
  BY <1>14 DEF ListenerEnd
<1>15. ASSUME NEW i \in Id, RequestSent(i) PROVE HandInv'
  BY <1>15 DEF RequestSent
<1>16. ASSUME NEW i \in Id, RequestFailed(i) PROVE HandInv'
  BY <1>16 DEF RequestFailed, Take
<1>17. ASSUME NEW i \in Id, RequestUnlink(i) PROVE HandInv'
  BY <1>17 DEF RequestUnlink, Unlink
<1>18. ASSUME NEW i \in Id, Dial(i) PROVE HandInv'
  BY <1>18 DEF Dial, Goto
<1>19. ASSUME NEW i \in Id, WorkTake(i) PROVE HandInv'
  BY <1>19 DEF WorkTake, Take, Goto
<1>20. ASSUME NEW i \in Id, WorkUnlink(i) PROVE HandInv'
  BY <1>20 DEF WorkUnlink, Unlink, Goto
<1>21. ASSUME NEW i \in Id, RegisterSession(i) PROVE HandInv'
  BY <1>21 DEF RegisterSession, Touch, Goto
<1>22. ASSUME NEW i \in Id, TakeBatch(i) PROVE HandInv'
  BY <1>22 DEF TakeBatch, Touch, Goto
<1>23. ASSUME NEW i \in Id, Written(i) PROVE HandInv'
  BY <1>23 DEF Written, Goto
<1>24. ASSUME NEW i \in Id, WriteFailed(i) PROVE HandInv'
  BY <1>24 DEF WriteFailed, Goto
<1>25. ASSUME NEW i \in Id, Forward(i) PROVE HandInv'
  BY <1>25 DEF Forward, Touch
<1>26. ASSUME NEW i \in Id, PeerCloses(i) PROVE HandInv'
  BY <1>26 DEF PeerCloses, Goto
<1>27. ASSUME NEW i \in Id, StopSeen(i) PROVE HandInv'
  BY <1>27 DEF StopSeen, Goto
<1>28. ASSUME NEW i \in Id, CloseWork(i) PROVE HandInv'
  BY <1>28 DEF CloseWork, RemoveSession, Touch, Goto
<1>29. ASSUME NEW p \in Peer, SessionIdle(p) PROVE HandInv'
  BY <1>29 DEF SessionIdle
<1>30. ASSUME NEW i \in Id, PendingExpires(i) PROVE HandInv'
  BY <1>30 DEF PendingExpires
<1>31. CASE Cleanup
  BY <1>31 DEF Cleanup
<1>32. CASE CheckLimit
  BY <1>32 DEF CheckLimit, Return
<1> QED
  BY <1>1, <1>2, <1>3, <1>4, <1>5, <1>6, <1>7, <1>8, <1>9, <1>10, <1>11, <1>12, <1>13, <1>14,
     <1>15, <1>16, <1>17, <1>18, <1>19, <1>20, <1>21, <1>22, <1>23, <1>24, <1>25, <1>26, <1>27,
     <1>28, <1>29, <1>30, <1>31, <1>32 DEF Next, ListenerNext, RequestNext, HandlerNext

\* Ids come from the counter, and one task at a time takes a pending session.
LEMMA IdsStep == Types /\ HandInv /\ IdsInv /\ LinkInv /\ [Next]_vars => IdsInv'
<1> SUFFICES ASSUME Types, HandInv, IdsInv, LinkInv, [Next]_vars PROVE IdsInv'
  OBVIOUS
<1> USE IdFacts, UdpAssumption DEF Types, IdsInv, LinkInv, HPC, tables, channels, listener,
   requests, handlers
<1>1. CASE UNCHANGED vars
  BY <1>1 DEF vars
<1>2. ASSUME NEW p \in Peer, Receive(p) PROVE IdsInv'
  BY <1>2 DEF Receive, Touch
<1>3. CASE TrySend
  BY <1>3 DEF TrySend, Return
<1>4. CASE LookUpPending
  BY <1>4 DEF LookUpPending
<1>5. CASE LookUpById
  BY <1>5 DEF LookUpById, Return
<1>6. CASE InsertPending
  <2>0. workId # MaxId
    BY <1>6 DEF InsertPending
  <2>1. workId + 1 \in Id /\ workId + 1 # None /\ workId + 1 \in 0..MaxId
    BY <2>0, NextId DEF Types, Id
  <2>2. hand \in Datagram /\ hand[1] \in Peer
    BY <1>6, HandPeer DEF InsertPending, Types
  <2> QED
    BY <1>6, <2>0, <2>1, <2>2 DEF InsertPending
<1>7. CASE Link
  BY <1>7 DEF Link
<1>8. CASE SpawnRequest
  BY <1>8 DEF SpawnRequest, Return
<1>9. CASE SweepSessions
  BY <1>9 DEF SweepSessions
<1>10. CASE SweepCollect
  BY <1>10 DEF SweepCollect, TooOld
<1>11. ASSUME NEW i \in Id, SweepTake(i) PROVE IdsInv'
  <2>1. CASE Take(i, "sweep")
    BY <1>11, <2>1 DEF SweepTake, Take
  <2>2. CASE UNCHANGED <<pendingById, expired, unlinking>>
    BY <1>11, <2>2 DEF SweepTake
  <2> QED
    BY <1>11, <2>1, <2>2 DEF SweepTake
<1>12. ASSUME NEW i \in Id, SweepUnlink(i) PROVE IdsInv'
  BY <1>12 DEF SweepUnlink, Unlink
<1>13. CASE SweepDone
  BY <1>13 DEF SweepDone, Return
<1>14. CASE ListenerEnd
  BY <1>14 DEF ListenerEnd
<1>15. ASSUME NEW i \in Id, RequestSent(i) PROVE IdsInv'
  BY <1>15 DEF RequestSent
<1>16. ASSUME NEW i \in Id, RequestFailed(i) PROVE IdsInv'
  <2>1. CASE Take(i, "request")
    BY <1>16, <2>1 DEF RequestFailed, Take
  <2>2. CASE UNCHANGED <<pendingById, expired, unlinking>>
    BY <1>16, <2>2 DEF RequestFailed
  <2> QED
    BY <1>16, <2>1, <2>2 DEF RequestFailed
<1>17. ASSUME NEW i \in Id, RequestUnlink(i) PROVE IdsInv'
  BY <1>17 DEF RequestUnlink, Unlink
<1>18. ASSUME NEW i \in Id, Dial(i) PROVE IdsInv'
  BY <1>18 DEF Dial, Goto
<1>19. ASSUME NEW i \in Id, WorkTake(i) PROVE IdsInv'
  BY <1>19 DEF WorkTake, Take, Goto
<1>20. ASSUME NEW i \in Id, WorkUnlink(i) PROVE IdsInv'
  BY <1>20 DEF WorkUnlink, Unlink, Goto
<1>21. ASSUME NEW i \in Id, RegisterSession(i) PROVE IdsInv'
  BY <1>21 DEF RegisterSession, Touch, Goto
<1>22. ASSUME NEW i \in Id, TakeBatch(i) PROVE IdsInv'
  BY <1>22 DEF TakeBatch, Touch, Goto
<1>23. ASSUME NEW i \in Id, Written(i) PROVE IdsInv'
  BY <1>23 DEF Written, Goto
<1>24. ASSUME NEW i \in Id, WriteFailed(i) PROVE IdsInv'
  BY <1>24 DEF WriteFailed, Goto
<1>25. ASSUME NEW i \in Id, Forward(i) PROVE IdsInv'
  BY <1>25 DEF Forward, Touch
<1>26. ASSUME NEW i \in Id, PeerCloses(i) PROVE IdsInv'
  BY <1>26 DEF PeerCloses, Goto
<1>27. ASSUME NEW i \in Id, StopSeen(i) PROVE IdsInv'
  BY <1>27 DEF StopSeen, Goto
<1>28. ASSUME NEW i \in Id, CloseWork(i) PROVE IdsInv'
  BY <1>28 DEF CloseWork, RemoveSession, Touch, Goto
<1>29. ASSUME NEW p \in Peer, SessionIdle(p) PROVE IdsInv'
  BY <1>29 DEF SessionIdle
<1>30. ASSUME NEW i \in Id, PendingExpires(i) PROVE IdsInv'
  BY <1>30 DEF PendingExpires
<1>31. CASE Cleanup
  BY <1>31 DEF Cleanup
<1>32. CASE CheckLimit
  BY <1>32 DEF CheckLimit, Return
<1> QED
  BY <1>1, <1>2, <1>3, <1>4, <1>5, <1>6, <1>7, <1>8, <1>9, <1>10, <1>11, <1>12, <1>13, <1>14,
     <1>15, <1>16, <1>17, <1>18, <1>19, <1>20, <1>21, <1>22, <1>23, <1>24, <1>25, <1>26, <1>27,
     <1>28, <1>29, <1>30, <1>31, <1>32 DEF Next, ListenerNext, RequestNext, HandlerNext

\* Nobody but the listener knows an id before it is linked and asked for.
LEMMA LinkStep == Types /\ HandInv /\ IdsInv /\ LinkInv /\ [Next]_vars => LinkInv'
<1> SUFFICES ASSUME Types, HandInv, IdsInv, LinkInv, [Next]_vars PROVE LinkInv'
  OBVIOUS
<1> USE IdFacts, UdpAssumption DEF Types, HandInv, IdsInv, LinkInv, tables, channels, listener,
   requests, handlers
<1>1. CASE UNCHANGED vars
  BY <1>1 DEF vars
<1>2. ASSUME NEW p \in Peer, Receive(p) PROVE LinkInv'
  BY <1>2 DEF Receive, Touch
<1>3. CASE TrySend
  BY <1>3 DEF TrySend, Return
<1>4. CASE LookUpPending
  <2>1. hand[1] \in Peer /\ hand \in Datagram
    BY <1>4, HandPeer DEF LookUpPending
  <2> QED
    BY <1>4, <2>1 DEF LookUpPending
<1>5. CASE LookUpById
  BY <1>5 DEF LookUpById, Return
<1>6. CASE InsertPending
  <2>0. workId # MaxId
    BY <1>6 DEF InsertPending
  <2>1. workId + 1 \in Id /\ workId + 1 # None /\ workId + 1 \in 0..MaxId
    BY <2>0, NextId DEF Types, Id
  <2>2. hand \in Datagram /\ hand[1] \in Peer
    BY <1>6, HandPeer DEF InsertPending, Types
  <2> QED
    BY <1>6, <2>0, <2>1, <2>2 DEF InsertPending
<1>7. CASE Link
  BY <1>7 DEF Link
<1>8. CASE SpawnRequest
  BY <1>8 DEF SpawnRequest, Return
<1>9. CASE SweepSessions
  BY <1>9 DEF SweepSessions
<1>10. CASE SweepCollect
  BY <1>10 DEF SweepCollect, TooOld
<1>11. ASSUME NEW i \in Id, SweepTake(i) PROVE LinkInv'
  <2>1. CASE Take(i, "sweep")
    BY <1>11, <2>1 DEF SweepTake, Take
  <2>2. CASE UNCHANGED <<pendingById, expired, unlinking>>
    BY <1>11, <2>2 DEF SweepTake
  <2> QED
    BY <1>11, <2>1, <2>2 DEF SweepTake
<1>12. ASSUME NEW i \in Id, SweepUnlink(i) PROVE LinkInv'
  <2>1. \A p \in Peer : pendingClient[p] = None => pendingClient'[p] = None
    BY <1>12 DEF SweepUnlink, Unlink
  <2>2. lpc \in {"limit", "insert", "link"} => hand[1] \in Peer
    BY HandPeer
  <2> QED
    BY <1>12, <2>1, <2>2 DEF SweepUnlink
<1>13. CASE SweepDone
  BY <1>13 DEF SweepDone, Return
<1>14. CASE ListenerEnd
  BY <1>14 DEF ListenerEnd
<1>15. ASSUME NEW i \in Id, RequestSent(i) PROVE LinkInv'
  BY <1>15 DEF RequestSent
<1>16. ASSUME NEW i \in Id, RequestFailed(i) PROVE LinkInv'
  <2>1. CASE Take(i, "request")
    BY <1>16, <2>1 DEF RequestFailed, Take
  <2>2. CASE UNCHANGED <<pendingById, expired, unlinking>>
    BY <1>16, <2>2 DEF RequestFailed
  <2> QED
    BY <1>16, <2>1, <2>2 DEF RequestFailed
<1>17. ASSUME NEW i \in Id, RequestUnlink(i) PROVE LinkInv'
  <2>1. \A p \in Peer : pendingClient[p] = None => pendingClient'[p] = None
    BY <1>17 DEF RequestUnlink, Unlink
  <2>2. lpc \in {"limit", "insert", "link"} => hand[1] \in Peer
    BY HandPeer
  <2> QED
    BY <1>17, <2>1, <2>2 DEF RequestUnlink
<1>18. ASSUME NEW i \in Id, Dial(i) PROVE LinkInv'
  BY <1>18 DEF Dial, Goto
<1>19. ASSUME NEW i \in Id, WorkTake(i) PROVE LinkInv'
  BY <1>19 DEF WorkTake, Take, Goto
<1>20. ASSUME NEW i \in Id, WorkUnlink(i) PROVE LinkInv'
  <2>1. \A p \in Peer : pendingClient[p] = None => pendingClient'[p] = None
    BY <1>20 DEF WorkUnlink, Unlink
  <2>2. lpc \in {"limit", "insert", "link"} => hand[1] \in Peer
    BY HandPeer
  <2> QED
    BY <1>20, <2>1, <2>2 DEF WorkUnlink
<1>21. ASSUME NEW i \in Id, RegisterSession(i) PROVE LinkInv'
  BY <1>21 DEF RegisterSession, Touch, Goto
<1>22. ASSUME NEW i \in Id, TakeBatch(i) PROVE LinkInv'
  BY <1>22 DEF TakeBatch, Touch, Goto
<1>23. ASSUME NEW i \in Id, Written(i) PROVE LinkInv'
  BY <1>23 DEF Written, Goto
<1>24. ASSUME NEW i \in Id, WriteFailed(i) PROVE LinkInv'
  BY <1>24 DEF WriteFailed, Goto
<1>25. ASSUME NEW i \in Id, Forward(i) PROVE LinkInv'
  BY <1>25 DEF Forward, Touch
<1>26. ASSUME NEW i \in Id, PeerCloses(i) PROVE LinkInv'
  BY <1>26 DEF PeerCloses, Goto
<1>27. ASSUME NEW i \in Id, StopSeen(i) PROVE LinkInv'
  BY <1>27 DEF StopSeen, Goto
<1>28. ASSUME NEW i \in Id, CloseWork(i) PROVE LinkInv'
  BY <1>28 DEF CloseWork, RemoveSession, Touch, Goto
<1>29. ASSUME NEW p \in Peer, SessionIdle(p) PROVE LinkInv'
  BY <1>29 DEF SessionIdle
<1>30. ASSUME NEW i \in Id, PendingExpires(i) PROVE LinkInv'
  BY <1>30 DEF PendingExpires
<1>31. CASE Cleanup
  BY <1>31 DEF Cleanup
<1>32. CASE CheckLimit
  BY <1>32 DEF CheckLimit, Return
<1> QED
  BY <1>1, <1>2, <1>3, <1>4, <1>5, <1>6, <1>7, <1>8, <1>9, <1>10, <1>11, <1>12, <1>13, <1>14,
     <1>15, <1>16, <1>17, <1>18, <1>19, <1>20, <1>21, <1>22, <1>23, <1>24, <1>25, <1>26, <1>27,
     <1>28, <1>29, <1>30, <1>31, <1>32 DEF Next, ListenerNext, RequestNext, HandlerNext

\* Each of the two scopes on the pending tables leaves them in step but for its own gap.
LEMMA PendingStep == Types /\ HandInv /\ IdsInv /\ LinkInv /\ PendingLinked /\ [Next]_vars =>
   PendingLinked'
<1> SUFFICES ASSUME Types, HandInv, IdsInv, LinkInv, PendingLinked, [Next]_vars PROVE
   PendingLinked'
  OBVIOUS
<1> USE IdFacts, UdpAssumption DEF Types, IdsInv, PendingLinked, tables, channels, listener,
   requests, handlers
<1>1. CASE UNCHANGED vars
  BY <1>1 DEF vars
<1>2. ASSUME NEW p \in Peer, Receive(p) PROVE PendingLinked'
  BY <1>2 DEF Receive, Touch
<1>3. CASE TrySend
  BY <1>3 DEF TrySend, Return
<1>4. CASE LookUpPending
  BY <1>4 DEF LookUpPending
<1>5. CASE LookUpById
  BY <1>5 DEF LookUpById, Return
<1>6. CASE InsertPending
  <2>0. workId # MaxId
    BY <1>6 DEF InsertPending
  <2>1. workId + 1 \in Id /\ workId + 1 # None /\ workId + 1 \in 0..MaxId
    BY <2>0, NextId DEF Types, Id
  <2>2. hand \in Datagram /\ hand[1] \in Peer
    BY <1>6, HandPeer DEF InsertPending, Types
  <2>3. /\ pendingById' = pendingById \cup {workId + 1} /\ lpc' = "link" /\ seen' = workId + 1
        /\ client' = [client EXCEPT ![workId + 1] = hand[1]]
        /\ UNCHANGED <<pendingClient, unlinking>> /\ lpc = "insert"
    BY <1>6, <2>0 DEF InsertPending
  <2>4. workId + 1 \notin pendingById /\ unlinking[workId + 1] = None
    BY <2>1
  <2>5. ASSUME NEW p \in Peer, pendingClient[p] # None
        PROVE  /\ client'[pendingClient[p]] = p
               /\ pendingClient[p] \in pendingById' \/ unlinking[pendingClient[p]] # None
    BY <2>1, <2>3, <2>4, <2>5
  <2>6. ASSUME NEW i \in pendingById
        PROVE  pendingClient[client'[i]] = i
    BY <2>1, <2>3, <2>4
  <2> QED
    BY <2>3, <2>5, <2>6
<1>7. CASE Link
  <2>1. hand[1] \in Peer /\ pendingClient[hand[1]] = None /\ seen \in pendingById
        /\ client[seen] = hand[1]
    BY <1>7, HandPeer DEF Link, LinkInv
  <2> QED
    BY <1>7, <2>1 DEF Link
<1>8. CASE SpawnRequest
  BY <1>8 DEF SpawnRequest, Return
<1>9. CASE SweepSessions
  BY <1>9 DEF SweepSessions
<1>10. CASE SweepCollect
  BY <1>10 DEF SweepCollect, TooOld
<1>11. ASSUME NEW i \in Id, SweepTake(i) PROVE PendingLinked'
  <2>1. CASE Take(i, "sweep")
    BY <1>11, <2>1 DEF SweepTake, Take
  <2>2. CASE UNCHANGED <<pendingById, expired, unlinking>>
    BY <1>11, <2>2 DEF SweepTake
  <2> QED
    BY <1>11, <2>1, <2>2 DEF SweepTake
<1>12. ASSUME NEW i \in Id, SweepUnlink(i) PROVE PendingLinked'
  BY <1>12 DEF SweepUnlink, Unlink
<1>13. CASE SweepDone
  BY <1>13 DEF SweepDone, Return
<1>14. CASE ListenerEnd
  BY <1>14 DEF ListenerEnd
<1>15. ASSUME NEW i \in Id, RequestSent(i) PROVE PendingLinked'
  BY <1>15 DEF RequestSent
<1>16. ASSUME NEW i \in Id, RequestFailed(i) PROVE PendingLinked'
  <2>1. CASE Take(i, "request")
    BY <1>16, <2>1 DEF RequestFailed, Take
  <2>2. CASE UNCHANGED <<pendingById, expired, unlinking>>
    BY <1>16, <2>2 DEF RequestFailed
  <2> QED
    BY <1>16, <2>1, <2>2 DEF RequestFailed
<1>17. ASSUME NEW i \in Id, RequestUnlink(i) PROVE PendingLinked'
  BY <1>17 DEF RequestUnlink, Unlink
<1>18. ASSUME NEW i \in Id, Dial(i) PROVE PendingLinked'
  BY <1>18 DEF Dial, Goto
<1>19. ASSUME NEW i \in Id, WorkTake(i) PROVE PendingLinked'
  <2>1. CASE Take(i, "work")
    BY <1>19, <2>1 DEF WorkTake, Take
  <2>2. CASE UNCHANGED <<pendingById, expired, unlinking>>
    BY <1>19, <2>2 DEF WorkTake
  <2> QED
    BY <1>19, <2>1, <2>2 DEF WorkTake
<1>20. ASSUME NEW i \in Id, WorkUnlink(i) PROVE PendingLinked'
  BY <1>20 DEF WorkUnlink, Unlink, Goto
<1>21. ASSUME NEW i \in Id, RegisterSession(i) PROVE PendingLinked'
  BY <1>21 DEF RegisterSession, Touch, Goto
<1>22. ASSUME NEW i \in Id, TakeBatch(i) PROVE PendingLinked'
  BY <1>22 DEF TakeBatch, Touch, Goto
<1>23. ASSUME NEW i \in Id, Written(i) PROVE PendingLinked'
  BY <1>23 DEF Written, Goto
<1>24. ASSUME NEW i \in Id, WriteFailed(i) PROVE PendingLinked'
  BY <1>24 DEF WriteFailed, Goto
<1>25. ASSUME NEW i \in Id, Forward(i) PROVE PendingLinked'
  BY <1>25 DEF Forward, Touch
<1>26. ASSUME NEW i \in Id, PeerCloses(i) PROVE PendingLinked'
  BY <1>26 DEF PeerCloses, Goto
<1>27. ASSUME NEW i \in Id, StopSeen(i) PROVE PendingLinked'
  BY <1>27 DEF StopSeen, Goto
<1>28. ASSUME NEW i \in Id, CloseWork(i) PROVE PendingLinked'
  BY <1>28 DEF CloseWork, RemoveSession, Touch, Goto
<1>29. ASSUME NEW p \in Peer, SessionIdle(p) PROVE PendingLinked'
  BY <1>29 DEF SessionIdle
<1>30. ASSUME NEW i \in Id, PendingExpires(i) PROVE PendingLinked'
  BY <1>30 DEF PendingExpires
<1>31. CASE Cleanup
  BY <1>31 DEF Cleanup
<1>32. CASE CheckLimit
  BY <1>32 DEF CheckLimit, Return
<1> QED
  BY <1>1, <1>2, <1>3, <1>4, <1>5, <1>6, <1>7, <1>8, <1>9, <1>10, <1>11, <1>12, <1>13, <1>14,
     <1>15, <1>16, <1>17, <1>18, <1>19, <1>20, <1>21, <1>22, <1>23, <1>24, <1>25, <1>26, <1>27,
     <1>28, <1>29, <1>30, <1>31, <1>32 DEF Next, ListenerNext, RequestNext, HandlerNext

\* A session is entered by the handler that serves it, and goes before the handler does.
LEMMA ServedStep == Types /\ HandInv /\ IdsInv /\ SessionServed /\ [Next]_vars => SessionServed'
<1> SUFFICES ASSUME Types, HandInv, IdsInv, SessionServed, [Next]_vars PROVE SessionServed'
  OBVIOUS
<1> USE IdFacts, UdpAssumption DEF Types, IdsInv, SessionServed, HPC, tables, channels,
   listener, requests, handlers
<1>1. CASE UNCHANGED vars
  BY <1>1 DEF vars
<1>2. ASSUME NEW p \in Peer, Receive(p) PROVE SessionServed'
  BY <1>2 DEF Receive, Touch
<1>3. CASE TrySend
  BY <1>3 DEF TrySend, Return
<1>4. CASE LookUpPending
  BY <1>4 DEF LookUpPending
<1>5. CASE LookUpById
  BY <1>5 DEF LookUpById, Return
<1>6. CASE InsertPending
  <2>0. workId # MaxId
    BY <1>6 DEF InsertPending
  <2>1. workId + 1 \in Id /\ workId + 1 # None /\ workId + 1 \in 0..MaxId
    BY <2>0, NextId DEF Types, Id
  <2>2. hand \in Datagram /\ hand[1] \in Peer
    BY <1>6, HandPeer DEF InsertPending, Types
  <2>3. /\ client' = [client EXCEPT ![workId + 1] = hand[1]]
        /\ UNCHANGED <<sessions, hpc>>
    BY <1>6, <2>0 DEF InsertPending
  <2>4. hpc[workId + 1] = "none"
    BY <2>1
  <2> QED
    BY <2>1, <2>3, <2>4
<1>7. CASE Link
  BY <1>7 DEF Link
<1>8. CASE SpawnRequest
  BY <1>8 DEF SpawnRequest, Return
<1>9. CASE SweepSessions
  BY <1>9 DEF SweepSessions
<1>10. CASE SweepCollect
  BY <1>10 DEF SweepCollect, TooOld
<1>11. ASSUME NEW i \in Id, SweepTake(i) PROVE SessionServed'
  BY <1>11 DEF SweepTake, Take
<1>12. ASSUME NEW i \in Id, SweepUnlink(i) PROVE SessionServed'
  BY <1>12 DEF SweepUnlink, Unlink
<1>13. CASE SweepDone
  BY <1>13 DEF SweepDone, Return
<1>14. CASE ListenerEnd
  BY <1>14 DEF ListenerEnd
<1>15. ASSUME NEW i \in Id, RequestSent(i) PROVE SessionServed'
  BY <1>15 DEF RequestSent
<1>16. ASSUME NEW i \in Id, RequestFailed(i) PROVE SessionServed'
  BY <1>16 DEF RequestFailed, Take
<1>17. ASSUME NEW i \in Id, RequestUnlink(i) PROVE SessionServed'
  BY <1>17 DEF RequestUnlink, Unlink
<1>18. ASSUME NEW i \in Id, Dial(i) PROVE SessionServed'
  BY <1>18 DEF Dial, Goto
<1>19. ASSUME NEW i \in Id, WorkTake(i) PROVE SessionServed'
  <2>1. hpc[i] = "dialled" /\ UNCHANGED <<sessions, client>>
        /\ \A j \in Id : j # i => hpc'[j] = hpc[j]
    BY <1>19 DEF WorkTake, Goto
  <2>2. \A p \in Peer : sessions[p] # None => sessions[p] # i
    BY <2>1
  <2>3. ASSUME NEW p \in Peer, sessions[p] # None
        PROVE  sessions[p] \in Id /\ hpc'[sessions[p]] = hpc[sessions[p]]
    <3>1. sessions[p] \in Id /\ sessions[p] # i
      BY <2>2, <2>3
    <3> QED
      BY <2>1, <3>1
  <2> QED
    BY <2>1, <2>3
<1>20. ASSUME NEW i \in Id, WorkUnlink(i) PROVE SessionServed'
  BY <1>20 DEF WorkUnlink, Unlink, Goto
<1>21. ASSUME NEW i \in Id, RegisterSession(i) PROVE SessionServed'
  BY <1>21 DEF RegisterSession, Touch, Goto
<1>22. ASSUME NEW i \in Id, TakeBatch(i) PROVE SessionServed'
  BY <1>22 DEF TakeBatch, Touch, Goto
<1>23. ASSUME NEW i \in Id, Written(i) PROVE SessionServed'
  BY <1>23 DEF Written, Goto
<1>24. ASSUME NEW i \in Id, WriteFailed(i) PROVE SessionServed'
  BY <1>24 DEF WriteFailed, Goto
<1>25. ASSUME NEW i \in Id, Forward(i) PROVE SessionServed'
  BY <1>25 DEF Forward, Touch
<1>26. ASSUME NEW i \in Id, PeerCloses(i) PROVE SessionServed'
  BY <1>26 DEF PeerCloses, Goto
<1>27. ASSUME NEW i \in Id, StopSeen(i) PROVE SessionServed'
  BY <1>27 DEF StopSeen, Goto
<1>28. ASSUME NEW i \in Id, CloseWork(i) PROVE SessionServed'
  BY <1>28 DEF CloseWork, RemoveSession, Touch, Goto
<1>29. ASSUME NEW p \in Peer, SessionIdle(p) PROVE SessionServed'
  BY <1>29 DEF SessionIdle
<1>30. ASSUME NEW i \in Id, PendingExpires(i) PROVE SessionServed'
  BY <1>30 DEF PendingExpires
<1>31. CASE Cleanup
  BY <1>31 DEF Cleanup
<1>32. CASE CheckLimit
  BY <1>32 DEF CheckLimit, Return
<1> QED
  BY <1>1, <1>2, <1>3, <1>4, <1>5, <1>6, <1>7, <1>8, <1>9, <1>10, <1>11, <1>12, <1>13, <1>14,
     <1>15, <1>16, <1>17, <1>18, <1>19, <1>20, <1>21, <1>22, <1>23, <1>24, <1>25, <1>26, <1>27,
     <1>28, <1>29, <1>30, <1>31, <1>32 DEF Next, ListenerNext, RequestNext, HandlerNext

\* The datagram in hand is the last one its peer has sent, and the work id the listener
\* read from a table is of that peer.
SeenInv ==
    /\ lpc \in {"send", "pending", "byid", "limit", "insert", "link", "ask"} =>
         hand[2] = sent[hand[1]]
    /\ lpc \in {"send", "byid"} => client[seen] = hand[1]

\* A handler has nothing to write before it owns the queue, and nothing in hand but while
\* it writes.
StageInv ==
    \A i \in Id :
        /\ i \in pendingById => hpc[i] \in {"none", "dialled"}
        /\ unlinking[i] # None => hpc[i] \in {"none", "dialled", "unlink", "ended"}
        /\ hpc[i] # "writing" => batch[i] = <<>>
        /\ hpc[i] \in {"none", "dialled", "unlink", "register"} => written[i] = <<>>

\* The listener holds a datagram of p that is in no queue yet.
Holding(p) == lpc \in {"send", "pending", "byid", "limit", "insert"} /\ hand[1] = p

\* What work connection i carries was sent by its peer, in this order, and before the
\* datagram in the listener's hand; and it carries something while it can be given more.
InLine(i) ==
    /\ Carried(i) # <<>> => Carried(i)[1] = opener[i]
    /\ \A k \in 1..Len(Carried(i)) :
         /\ Carried(i)[k][1] = client[i]
         /\ Carried(i)[k][2] <= sent[client[i]]
         /\ Holding(client[i]) => Carried(i)[k][2] < hand[2]
    /\ \A j, k \in 1..Len(Carried(i)) : j < k => Carried(i)[j][2] < Carried(i)[k][2]
    /\ Receiving(i) => Carried(i) # <<>>

OrderInv == \A i \in Id : hpc[i] \notin {"closing", "ended"} => InLine(i)

\* Carried does not depend on how far its datagrams have come, and grows at its end.
LEMMA CarriedAppend ==
    \A w, b, q \in Seq(Datagram) : \A x \in Datagram :
        w \o b \o Append(q, x) = Append(w \o b \o q, x)
<1> SUFFICES ASSUME NEW w \in Seq(Datagram), NEW b \in Seq(Datagram), NEW q \in Seq(Datagram),
                    NEW x \in Datagram
             PROVE  w \o b \o Append(q, x) = Append(w \o b \o q, x)
  OBVIOUS
<1>1. w \o b \in Seq(Datagram) /\ <<x>> \in Seq(Datagram) /\ w \o b \o q \in Seq(Datagram)
  OBVIOUS
<1>2. Append(q, x) = q \o <<x>> /\ Append(w \o b \o q, x) = (w \o b \o q) \o <<x>>
  BY <1>1, AppendIsConcat
<1>3. (w \o b) \o (q \o <<x>>) = ((w \o b) \o q) \o <<x>>
  BY <1>1, ConcatAssociative, SMTT(60)
<1> QED
  BY <1>2, <1>3

\* Taking a batch off the queue changes nothing in what is carried.
LEMMA CarriedTaken ==
    \A w, q \in Seq(Datagram) : \A n \in 0..Len(q) :
        w \o SubSeq(q, 1, n) \o SubSeq(q, n + 1, Len(q)) = w \o <<>> \o q
<1> SUFFICES ASSUME NEW w \in Seq(Datagram), NEW q \in Seq(Datagram), NEW n \in 0..Len(q)
             PROVE  w \o SubSeq(q, 1, n) \o SubSeq(q, n + 1, Len(q)) = w \o <<>> \o q
  OBVIOUS
<1> DEFINE a == SubSeq(q, 1, n)
           z == SubSeq(q, n + 1, Len(q))
<1>1. a \in Seq(Datagram) /\ z \in Seq(Datagram)
  OBVIOUS
<1>2. a \o z = q
  <2>1. 1 \in 1..(Len(q) + 1) /\ n \in (1 - 1)..Len(q) /\ Len(q) \in n..Len(q)
    OBVIOUS
  <2>2. SubSeq(q, 1, n) \o SubSeq(q, n + 1, Len(q)) = SubSeq(q, 1, Len(q))
    BY <2>1, ConcatAdjacentSubSeq
  <2> QED
    BY <2>2, SubSeqFull
<1>3. w \o <<>> = w
  BY ConcatEmptySeq
<1> HIDE DEF a, z
<1>4. (w \o a) \o z = w \o (a \o z)
  BY <1>1, ConcatAssociative, SMTT(60)
<1> QED
  BY <1>2, <1>3, <1>4 DEF a, z

\* Nor does writing the batch.
LEMMA CarriedWritten ==
    \A w, b, q \in Seq(Datagram) : (w \o b) \o <<>> \o q = w \o b \o q
<1>1. \A w, b \in Seq(Datagram) : w \o b \in Seq(Datagram)
  OBVIOUS
<1> QED
  BY <1>1, ConcatEmptySeq

\* What is carried is a sequence of datagrams.
LEMMA CarriedType ==
    ASSUME SeqTypes, NEW i \in Id
    PROVE  /\ Carried(i) \in Seq(Datagram) /\ Len(Carried(i)) \in Nat
           /\ \A k \in 1..Len(Carried(i)) :
                /\ Carried(i)[k] \in Datagram /\ Carried(i)[k][1] \in Peer
                /\ Carried(i)[k][2] \in Nat
<1>1. Carried(i) \in Seq(Datagram) /\ Len(Carried(i)) \in Nat
  BY DEF SeqTypes, Carried
<1>2. \A d \in Datagram : d[1] \in Peer /\ d[2] \in Nat
  BY DEF Datagram
<1> HIDE DEF Carried
<1>3. \A k \in 1..Len(Carried(i)) : Carried(i)[k] \in Datagram
  BY <1>1
<1> QED
  BY <1>1, <1>2, <1>3

\* A step that leaves what i carries, and lets neither a datagram into the listener's hand
\* nor a receiver come into being, keeps InLine(i).
LEMMA LineKept ==
    ASSUME NEW i \in Id, InLine(i),
           Carried(i)' = Carried(i), client'[i] = client[i], opener'[i] = opener[i],
           UNCHANGED sent, Holding(client[i])' => Holding(client[i]) /\ UNCHANGED hand,
           Receiving(i)' => Receiving(i)
    PROVE  InLine(i)'
BY DEF InLine, Holding

\* The listener holds the last datagram received, and the id of its peer.
LEMMA SeenStep == Types /\ HandInv /\ PendingLinked /\ SessionServed /\ SeenInv /\ [Next]_vars
   => SeenInv'
<1> SUFFICES ASSUME Types, HandInv, PendingLinked, SessionServed, SeenInv, [Next]_vars PROVE
   SeenInv'
  OBVIOUS
<1> USE IdFacts DEF Types, SeenInv, tables, channels, listener, requests, handlers
<1>1. CASE UNCHANGED vars
  BY <1>1 DEF vars
<1>2. ASSUME NEW p \in Peer, Receive(p) PROVE SeenInv'
  BY <1>2 DEF Receive, SessionServed
<1>3. CASE TrySend
  BY <1>3 DEF TrySend, Return
<1>4. CASE LookUpPending
  <2>1. hand[1] \in Peer
    BY <1>4, HandPeer DEF LookUpPending
  <2> QED
    BY <1>4, <2>1 DEF LookUpPending, PendingLinked
<1>5. CASE LookUpById
  BY <1>5 DEF LookUpById, Return
<1>6. CASE InsertPending
  BY <1>6 DEF InsertPending
<1>7. CASE Link
  BY <1>7 DEF Link
<1>8. CASE SpawnRequest
  BY <1>8 DEF SpawnRequest, Return
<1>9. CASE SweepSessions
  BY <1>9 DEF SweepSessions
<1>10. CASE SweepCollect
  BY <1>10 DEF SweepCollect, TooOld
<1>11. ASSUME NEW i \in Id, SweepTake(i) PROVE SeenInv'
  BY <1>11 DEF SweepTake, Take
<1>12. ASSUME NEW i \in Id, SweepUnlink(i) PROVE SeenInv'
  BY <1>12 DEF SweepUnlink, Unlink
<1>13. CASE SweepDone
  BY <1>13 DEF SweepDone, Return
<1>14. CASE ListenerEnd
  BY <1>14 DEF ListenerEnd
<1>15. ASSUME NEW i \in Id, RequestSent(i) PROVE SeenInv'
  BY <1>15 DEF RequestSent
<1>16. ASSUME NEW i \in Id, RequestFailed(i) PROVE SeenInv'
  BY <1>16 DEF RequestFailed, Take
<1>17. ASSUME NEW i \in Id, RequestUnlink(i) PROVE SeenInv'
  BY <1>17 DEF RequestUnlink, Unlink
<1>18. ASSUME NEW i \in Id, Dial(i) PROVE SeenInv'
  BY <1>18 DEF Dial, Goto
<1>19. ASSUME NEW i \in Id, WorkTake(i) PROVE SeenInv'
  BY <1>19 DEF WorkTake, Take, Goto
<1>20. ASSUME NEW i \in Id, WorkUnlink(i) PROVE SeenInv'
  BY <1>20 DEF WorkUnlink, Unlink, Goto
<1>21. ASSUME NEW i \in Id, RegisterSession(i) PROVE SeenInv'
  BY <1>21 DEF RegisterSession, Touch, Goto
<1>22. ASSUME NEW i \in Id, TakeBatch(i) PROVE SeenInv'
  BY <1>22 DEF TakeBatch, Touch, Goto
<1>23. ASSUME NEW i \in Id, Written(i) PROVE SeenInv'
  BY <1>23 DEF Written, Goto
<1>24. ASSUME NEW i \in Id, WriteFailed(i) PROVE SeenInv'
  BY <1>24 DEF WriteFailed, Goto
<1>25. ASSUME NEW i \in Id, Forward(i) PROVE SeenInv'
  BY <1>25 DEF Forward, Touch
<1>26. ASSUME NEW i \in Id, PeerCloses(i) PROVE SeenInv'
  BY <1>26 DEF PeerCloses, Goto
<1>27. ASSUME NEW i \in Id, StopSeen(i) PROVE SeenInv'
  BY <1>27 DEF StopSeen, Goto
<1>28. ASSUME NEW i \in Id, CloseWork(i) PROVE SeenInv'
  BY <1>28 DEF CloseWork, RemoveSession, Touch, Goto
<1>29. ASSUME NEW p \in Peer, SessionIdle(p) PROVE SeenInv'
  BY <1>29 DEF SessionIdle
<1>30. ASSUME NEW i \in Id, PendingExpires(i) PROVE SeenInv'
  BY <1>30 DEF PendingExpires
<1>31. CASE Cleanup
  BY <1>31 DEF Cleanup
<1>32. CASE CheckLimit
  BY <1>32 DEF CheckLimit, Return
<1> QED
  BY <1>1, <1>2, <1>3, <1>4, <1>5, <1>6, <1>7, <1>8, <1>9, <1>10, <1>11, <1>12, <1>13, <1>14,
     <1>15, <1>16, <1>17, <1>18, <1>19, <1>20, <1>21, <1>22, <1>23, <1>24, <1>25, <1>26, <1>27,
     <1>28, <1>29, <1>30, <1>31, <1>32 DEF Next, ListenerNext, RequestNext, HandlerNext

\* A handler writes only from its own loop.
LEMMA StageStep == Types /\ SeqTypes /\ IdsInv /\ StageInv /\ [Next]_vars => StageInv'
<1> SUFFICES ASSUME Types, SeqTypes, IdsInv, StageInv, [Next]_vars PROVE StageInv'
  OBVIOUS
<1> USE IdFacts DEF Types, StageInv, HPC, tables, channels, listener, requests, handlers
<1>1. CASE UNCHANGED vars
  BY <1>1 DEF vars
<1>2. ASSUME NEW p \in Peer, Receive(p) PROVE StageInv'
  BY <1>2 DEF Receive, Touch
<1>3. CASE TrySend
  BY <1>3 DEF TrySend, Return
<1>4. CASE LookUpPending
  BY <1>4 DEF LookUpPending
<1>5. CASE LookUpById
  BY <1>5 DEF LookUpById, Return
<1>6. CASE InsertPending
  <2>0. workId # MaxId
    BY <1>6 DEF InsertPending
  <2>1. workId + 1 \in Id /\ hpc[workId + 1] = "none"
    BY <2>0, NextId DEF IdsInv
  <2> QED
    BY <1>6, <2>0, <2>1 DEF InsertPending
<1>7. CASE Link
  BY <1>7 DEF Link
<1>8. CASE SpawnRequest
  BY <1>8 DEF SpawnRequest, Return
<1>9. CASE SweepSessions
  BY <1>9 DEF SweepSessions
<1>10. CASE SweepCollect
  BY <1>10 DEF SweepCollect, TooOld
<1>11. ASSUME NEW i \in Id, SweepTake(i) PROVE StageInv'
  <2>1. CASE Take(i, "sweep")
    BY <1>11, <2>1 DEF SweepTake, Take
  <2>2. CASE UNCHANGED <<pendingById, expired, unlinking>>
    BY <1>11, <2>2 DEF SweepTake
  <2> QED
    BY <1>11, <2>1, <2>2 DEF SweepTake
<1>12. ASSUME NEW i \in Id, SweepUnlink(i) PROVE StageInv'
  BY <1>12 DEF SweepUnlink, Unlink
<1>13. CASE SweepDone
  BY <1>13 DEF SweepDone, Return
<1>14. CASE ListenerEnd
  BY <1>14 DEF ListenerEnd
<1>15. ASSUME NEW i \in Id, RequestSent(i) PROVE StageInv'
  BY <1>15 DEF RequestSent
<1>16. ASSUME NEW i \in Id, RequestFailed(i) PROVE StageInv'
  <2>1. CASE Take(i, "request")
    BY <1>16, <2>1 DEF RequestFailed, Take
  <2>2. CASE UNCHANGED <<pendingById, expired, unlinking>>
    BY <1>16, <2>2 DEF RequestFailed
  <2> QED
    BY <1>16, <2>1, <2>2 DEF RequestFailed
<1>17. ASSUME NEW i \in Id, RequestUnlink(i) PROVE StageInv'
  BY <1>17 DEF RequestUnlink, Unlink
<1>18. ASSUME NEW i \in Id, Dial(i) PROVE StageInv'
  BY <1>18 DEF Dial, Goto
<1>19. ASSUME NEW i \in Id, WorkTake(i) PROVE StageInv'
  <2>1. CASE Take(i, "work")
    BY <1>19, <2>1 DEF WorkTake, Take, Goto
  <2>2. CASE UNCHANGED <<pendingById, expired, unlinking>>
    BY <1>19, <2>2, ZenonT(60) DEF WorkTake, Take, Goto
  <2> QED
    BY <1>19, <2>1, <2>2 DEF WorkTake, Take
<1>20. ASSUME NEW i \in Id, WorkUnlink(i) PROVE StageInv'
  <2>1. hpc[i] = "unlink" /\ i \notin pendingById
    BY <1>20 DEF WorkUnlink, IdsInv
  <2>2. /\ hpc' = [hpc EXCEPT ![i] = "register"] /\ unlinking' = [unlinking EXCEPT ![i] = None]
        /\ UNCHANGED <<pendingById, batch, written>>
    BY <1>20 DEF WorkUnlink, Unlink, Goto
  <2> QED
    BY <2>1, <2>2
<1>21. ASSUME NEW i \in Id, RegisterSession(i) PROVE StageInv'
  BY <1>21 DEF RegisterSession, Touch, Goto
<1>22. ASSUME NEW i \in Id, TakeBatch(i) PROVE StageInv'
  BY <1>22 DEF TakeBatch, Touch, Goto
<1>23. ASSUME NEW i \in Id, Written(i) PROVE StageInv'
  <2>1. batch'[i] = <<>> /\ hpc'[i] \in {"run", "closing"} /\ hpc[i] = "writing"
    BY <1>23 DEF Written, Goto, SeqTypes
  <2>2. \A j \in Id \ {i} : /\ batch'[j] = batch[j] /\ hpc'[j] = hpc[j]
                          /\ written'[j] = written[j]
    BY <1>23 DEF Written, Goto, SeqTypes
  <2>3. UNCHANGED <<pendingById, unlinking>>
    BY <1>23 DEF Written
  <2> QED
    BY <2>1, <2>2, <2>3
<1>24. ASSUME NEW i \in Id, WriteFailed(i) PROVE StageInv'
  <2>1. batch'[i] = <<>> /\ hpc'[i] \in {"run", "closing"} /\ hpc[i] = "writing"
    BY <1>24 DEF WriteFailed, Goto, SeqTypes
  <2>2. \A j \in Id \ {i} : /\ batch'[j] = batch[j] /\ hpc'[j] = hpc[j]
                          /\ written'[j] = written[j]
    BY <1>24 DEF WriteFailed, Goto, SeqTypes
  <2>3. UNCHANGED <<pendingById, unlinking>>
    BY <1>24 DEF WriteFailed
  <2> QED
    BY <2>1, <2>2, <2>3
<1>25. ASSUME NEW i \in Id, Forward(i) PROVE StageInv'
  BY <1>25 DEF Forward, Touch
<1>26. ASSUME NEW i \in Id, PeerCloses(i) PROVE StageInv'
  BY <1>26 DEF PeerCloses, Goto
<1>27. ASSUME NEW i \in Id, StopSeen(i) PROVE StageInv'
  BY <1>27 DEF StopSeen, Goto
<1>28. ASSUME NEW i \in Id, CloseWork(i) PROVE StageInv'
  BY <1>28 DEF CloseWork, RemoveSession, Touch, Goto
<1>29. ASSUME NEW p \in Peer, SessionIdle(p) PROVE StageInv'
  BY <1>29 DEF SessionIdle
<1>30. ASSUME NEW i \in Id, PendingExpires(i) PROVE StageInv'
  BY <1>30 DEF PendingExpires
<1>31. CASE Cleanup
  BY <1>31 DEF Cleanup
<1>32. CASE CheckLimit
  BY <1>32 DEF CheckLimit, Return
<1> QED
  BY <1>1, <1>2, <1>3, <1>4, <1>5, <1>6, <1>7, <1>8, <1>9, <1>10, <1>11, <1>12, <1>13, <1>14,
     <1>15, <1>16, <1>17, <1>18, <1>19, <1>20, <1>21, <1>22, <1>23, <1>24, <1>25, <1>26, <1>27,
     <1>28, <1>29, <1>30, <1>31, <1>32 DEF Next, ListenerNext, RequestNext, HandlerNext

\* Only the newest datagram of a peer is added, at the end, to the queue of that peer's id.
LEMMA OrderStep ==
    ASSUME Types, SeqTypes, HandInv, IdsInv, SeenInv, StageInv, OrderInv, [Next]_vars,
           NEW j \in Id, hpc'[j] \notin {"closing", "ended"}
    PROVE  InLine(j)'
<1> USE IdFacts DEF tables, channels, listener, requests, handlers
<1> USE DEF Types
<1>1. CASE UNCHANGED vars
  <2>1. InLine(j) /\ Carried(j)' = Carried(j) /\ UNCHANGED <<client, opener, sent>>
    BY <1>1 DEF vars, OrderInv, Carried
  <2>2. /\ Holding(client[j])' => Holding(client[j]) /\ UNCHANGED hand
        /\ Receiving(j)' => Receiving(j)
    BY <1>1 DEF vars, Holding, Receiving
  <2> QED
    BY <2>1, <2>2, LineKept
<1>2. ASSUME NEW p \in Peer, Receive(p) PROVE InLine(j)'
  <2>1. InLine(j) /\ Carried(j)' = Carried(j) /\ UNCHANGED <<client, opener>>
    BY <1>2 DEF OrderInv, Carried, Receive
  <2>2. Receiving(j)' => Receiving(j)
    BY <1>2 DEF Receiving, Receive
  <2>3. /\ sent' = [sent EXCEPT ![p] = sent[p] + 1] /\ hand' = <<p, sent[p] + 1>>
        /\ sent[p] \in Nat
    BY <1>2 DEF Receive, Types
  <2>4. ASSUME NEW k \in 1..Len(Carried(j))
        PROVE  /\ Carried(j)[k][1] = client[j] /\ Carried(j)[k][2] <= sent'[client[j]]
               /\ hand'[1] = client[j] => Carried(j)[k][2] < hand'[2]
    <3>1. /\ Carried(j)[k][1] = client[j] /\ client[j] \in Peer /\ Carried(j)[k][2] \in Nat
          /\ Carried(j)[k][2] <= sent[client[j]] /\ sent[client[j]] \in Nat
      BY <2>1, CarriedType DEF InLine, Types
    <3>2. sent[client[j]] <= sent'[client[j]]
      BY <2>3, <3>1 DEF Types
    <3>3. hand'[1] = client[j] => hand'[2] = sent[client[j]] + 1
      BY <2>3
    <3>4. sent'[client[j]] \in Nat
      BY <2>3, <3>1 DEF Types
    <3> QED
      BY <3>1, <3>2, <3>3, <3>4
  <2> HIDE DEF Carried
  <2> QED
    BY <2>1, <2>2, <2>4 DEF InLine, Holding
<1>3. CASE TrySend
  <2>1. /\ seen \in Id /\ hand \in Datagram /\ hand[1] \in Peer /\ client[seen] = hand[1]
        /\ hand[2] = sent[hand[1]] /\ hand[2] \in Nat
    BY <1>3, HandPeer DEF TrySend, HandInv, SeenInv
  <2>2. InLine(j) /\ UNCHANGED <<client, opener, sent, batch, written, hpc>> /\
     ~Holding(client[j])'
    BY <1>3 DEF TrySend, OrderInv, Return, Holding
  <2>3. Receiving(j)' => Receiving(j)
    BY <1>3 DEF TrySend, Receiving
  <2>4. CASE j # seen \/ queue' = queue
    <3>1. Carried(j)' = Carried(j)
      BY <1>3, <2>1, <2>4 DEF TrySend, Carried, SeqTypes
    <3> QED
      BY <2>2, <2>3, <3>1, LineKept
  <2>5. CASE j = seen /\ queue' # queue
    <3> DEFINE c == Carried(j)
               a == Append(c, hand)
    <3>1. Receiving(j) /\ queue'[j] = Append(queue[j], hand)
      BY <1>3, <2>1, <2>5 DEF TrySend, SeqTypes
    <3>2. Carried(j)' = a
      <4>1. /\ written[j] \in Seq(Datagram) /\ batch[j] \in Seq(Datagram)
            /\ queue[j] \in Seq(Datagram)
        BY DEF SeqTypes
      <4>2. written[j] \o batch[j] \o Append(queue[j], hand)
              = Append(written[j] \o batch[j] \o queue[j], hand)
        BY ONLY <4>1, <2>1, CarriedAppend
      <4>3. Carried(j)' = written[j] \o batch[j] \o queue'[j]
        BY <2>2 DEF Carried
      <4> QED
        BY <3>1, <4>2, <4>3 DEF Carried
    <3>3. c \in Seq(Datagram) /\ Len(c) \in Nat /\ c # <<>>
      BY <2>2, <3>1, CarriedType DEF InLine
    <3>4. /\ a # <<>> /\ Len(a) = Len(c) + 1 /\ a[Len(c) + 1] = hand
          /\ \A k \in 1..Len(c) : a[k] = c[k]
      BY <2>1, <3>3, AppendProperties
    <3>5. \A k \in 1..Len(c) : /\ c[k][1] = client[j] /\ c[k][2] < hand[2]
                               /\ c[k][2] <= sent[client[j]]
      BY <1>3, <2>1, <2>2, <2>5 DEF InLine, Holding, TrySend
    <3>6. 1 \in 1..Len(c) /\ c[1] = opener[j]
      BY <3>3, <2>2 DEF InLine
    <3>7. \A k, l \in 1..Len(c) : k < l => c[k][2] < c[l][2]
      BY <2>2 DEF InLine
    <3> HIDE DEF c, a
    <3>8. a[1] = opener[j]
      BY <3>4, <3>6
    <3>9. \A k \in 1..Len(a) : k \in 1..Len(c) \/ k = Len(c) + 1
      BY <3>3, <3>4
    <3>10. \A k \in 1..Len(a) : a[k][1] = client[j] /\ a[k][2] <= sent[client[j]]
      BY <2>1, <2>5, <3>4, <3>5, <3>9
    <3>11. ASSUME NEW k \in 1..Len(a), NEW l \in 1..Len(a), k < l
           PROVE  a[k][2] < a[l][2]
      <4>1. k # Len(c) + 1
        BY <3>3, <3>4, <3>11
      <4> QED
        BY <4>1, <3>4, <3>5, <3>7, <3>9, <3>11
    <3> QED
      BY <2>2, <3>2, <3>4, <3>8, <3>10, <3>11 DEF InLine
  <2> QED
    BY <2>4, <2>5
<1>4. CASE LookUpPending
  <2>1. InLine(j) /\ Carried(j)' = Carried(j) /\ UNCHANGED <<client, opener, sent>>
    BY <1>4 DEF OrderInv, Carried, LookUpPending
  <2>2. Holding(client[j])' => Holding(client[j]) /\ UNCHANGED hand
    BY <1>4 DEF Holding, LookUpPending
  <2>3. Receiving(j)' => Receiving(j)
    BY <1>4 DEF Receiving, LookUpPending
  <2> QED
    BY <2>1, <2>2, <2>3, LineKept
<1>5. CASE LookUpById
  <2>1. InLine(j) /\ Carried(j)' = Carried(j) /\ UNCHANGED <<client, opener, sent>>
    BY <1>5 DEF OrderInv, Carried, LookUpById, Return
  <2>2. Holding(client[j])' => Holding(client[j]) /\ UNCHANGED hand
    BY <1>5 DEF Holding, LookUpById, Return
  <2>3. Receiving(j)' => Receiving(j)
    BY <1>5 DEF Receiving, LookUpById, Return
  <2> QED
    BY <2>1, <2>2, <2>3, LineKept
<1>6. CASE InsertPending
  <2>0. workId # MaxId
    BY <1>6 DEF InsertPending
  <2>1. workId + 1 \in Id
    BY <2>0, NextId DEF Types
  <2>2. /\ hand \in Datagram /\ hand[1] \in Peer /\ hand[2] = sent[hand[1]] /\ hand[2] \in Nat
    BY <1>6, HandPeer DEF InsertPending, SeenInv, Types
  <2>3. CASE j # workId + 1
    <3>1. /\ InLine(j) /\ client'[j] = client[j] /\ opener'[j] = opener[j] /\ UNCHANGED sent
          /\ queue'[j] = queue[j] /\ UNCHANGED <<batch, written>>
      BY <1>6, <2>0, <2>1, <2>3 DEF OrderInv, InsertPending, SeqTypes
    <3>4. Carried(j)' = Carried(j)
      BY <3>1 DEF Carried
    <3>2. Holding(client[j])' => Holding(client[j]) /\ UNCHANGED hand
      BY <1>6, <2>0 DEF Holding, InsertPending
    <3>3. Receiving(j)' => Receiving(j)
      BY <1>6, <2>0, <2>3 DEF Receiving, InsertPending
    <3> QED
      BY <3>1, <3>2, <3>3, <3>4, LineKept
  <2>4. CASE j = workId + 1
    <3>1. hpc[j] = "none"
      <4>1. workId \in Nat /\ j \in Id /\ j > workId
        BY <2>1, <2>4 DEF Types
      <4>2. j \notin asked
        BY <4>1 DEF IdsInv
      <4> QED
        BY <4>1, <4>2 DEF IdsInv
    <3>2. written'[j] = <<>> /\ batch'[j] = <<>> /\ queue'[j] = <<hand>>
      BY <1>6, <2>0, <2>1, <2>4, <3>1 DEF InsertPending, FirstQueued, StageInv, SeqTypes
    <3>3. Carried(j)' = <<hand>>
      <4>1. <<hand>> \in Seq(Datagram) /\ <<>> \in Seq(Datagram)
        BY <2>2
      <4>2. <<>> \o <<>> \o <<hand>> = <<hand>>
        BY <4>1, ConcatEmptySeq
      <4> QED
        BY <3>2, <4>2 DEF Carried
    <3>4. client'[j] = hand[1] /\ opener'[j] = hand /\ UNCHANGED sent /\ ~Holding(client[j])'
      BY <1>6, <2>0, <2>1, <2>4 DEF InsertPending, Types, Holding
    <3>5. /\ <<hand>> # <<>> /\ <<hand>>[1] = hand /\ Len(<<hand>>) = 1
          /\ \A k \in 1..Len(<<hand>>) : k = 1
      OBVIOUS
    <3> DEFINE s == <<hand>>
    <3>6. Carried(j)' = s /\ s # <<>> /\ s[1] = hand /\ \A k \in 1..Len(s) : k = 1
      BY <3>3, <3>5
    <3> HIDE DEF s, Carried
    <3> QED
      BY <2>2, <3>4, <3>6 DEF InLine
  <2> QED
    BY <2>3, <2>4
<1>7. CASE Link
  <2>1. InLine(j) /\ Carried(j)' = Carried(j) /\ UNCHANGED <<client, opener, sent>>
    BY <1>7 DEF OrderInv, Carried, Link
  <2>2. Holding(client[j])' => Holding(client[j]) /\ UNCHANGED hand
    BY <1>7 DEF Holding, Link
  <2>3. Receiving(j)' => Receiving(j)
    BY <1>7 DEF Receiving, Link
  <2> QED
    BY <2>1, <2>2, <2>3, LineKept
<1>8. CASE SpawnRequest
  <2>1. InLine(j) /\ Carried(j)' = Carried(j) /\ UNCHANGED <<client, opener, sent>>
    BY <1>8 DEF OrderInv, Carried, SpawnRequest, Return
  <2>2. Holding(client[j])' => Holding(client[j]) /\ UNCHANGED hand
    BY <1>8 DEF Holding, SpawnRequest, Return
  <2>3. Receiving(j)' => Receiving(j)
    BY <1>8 DEF Receiving, SpawnRequest, Return
  <2> QED
    BY <2>1, <2>2, <2>3, LineKept
<1>9. CASE SweepSessions
  <2>1. InLine(j) /\ Carried(j)' = Carried(j) /\ UNCHANGED <<client, opener, sent>>
    BY <1>9 DEF OrderInv, Carried, SweepSessions
  <2>2. Holding(client[j])' => Holding(client[j]) /\ UNCHANGED hand
    BY <1>9 DEF Holding, SweepSessions
  <2>3. Receiving(j)' => Receiving(j)
    BY <1>9 DEF Receiving, SweepSessions
  <2> QED
    BY <2>1, <2>2, <2>3, LineKept
<1>10. CASE SweepCollect
  <2>1. InLine(j) /\ Carried(j)' = Carried(j) /\ UNCHANGED <<client, opener, sent>>
    BY <1>10 DEF OrderInv, Carried, SweepCollect, TooOld
  <2>2. Holding(client[j])' => Holding(client[j]) /\ UNCHANGED hand
    BY <1>10 DEF Holding, SweepCollect, TooOld
  <2>3. Receiving(j)' => Receiving(j)
    BY <1>10 DEF Receiving, SweepCollect, TooOld
  <2> QED
    BY <2>1, <2>2, <2>3, LineKept
<1>11. ASSUME NEW i \in Id, SweepTake(i) PROVE InLine(j)'
  <2>1. InLine(j) /\ Carried(j)' = Carried(j) /\ UNCHANGED <<client, opener, sent>>
    BY <1>11 DEF OrderInv, Carried, SweepTake, Take
  <2>2. Holding(client[j])' => Holding(client[j]) /\ UNCHANGED hand
    BY <1>11 DEF Holding, SweepTake, Take
  <2>3. Receiving(j)' => Receiving(j)
    BY <1>11 DEF Receiving, SweepTake, Take
  <2> QED
    BY <2>1, <2>2, <2>3, LineKept
<1>12. ASSUME NEW i \in Id, SweepUnlink(i) PROVE InLine(j)'
  <2>1. CASE j = i
    <3>4. unlinking[i] # None /\ UNCHANGED <<hpc, pendingById>>
      BY <1>12, UdpAssumption DEF SweepUnlink
    <3>5. hpc[i] \in {"none", "dialled", "unlink"} /\ i \notin pendingById
      BY <2>1, <3>4 DEF IdsInv, StageInv
    <3>1. i \notin pendingById' /\ unlinking'[i] = None /\ hpc'[i] \in {"none", "dialled",
       "unlink"}
      BY <1>12, <3>4, <3>5 DEF SweepUnlink, Unlink
    <3>2. batch'[i] = <<>> /\ written'[i] = <<>> /\ queue'[i] = <<>>
      BY <1>12, <3>1 DEF SweepUnlink, StageInv, SeqTypes
    <3>3. Carried(i)' = <<>> /\ ~Receiving(i)'
      BY <3>1, <3>2 DEF Carried, Receiving
    <3> QED
      BY <2>1, <3>3 DEF InLine
  <2>2. CASE j # i
    <3>1. InLine(j) /\ Carried(j)' = Carried(j) /\ UNCHANGED <<client, opener, sent>>
      BY <1>12, <2>2 DEF OrderInv, Carried, SweepUnlink, SeqTypes
    <3>2. Holding(client[j])' => Holding(client[j]) /\ UNCHANGED hand
      BY <1>12 DEF Holding, SweepUnlink
    <3>3. Receiving(j)' => Receiving(j)
      BY <1>12, <2>2 DEF Receiving, SweepUnlink, Unlink
    <3> QED
      BY <3>1, <3>2, <3>3, LineKept
  <2> QED
    BY <2>1, <2>2
<1>13. CASE SweepDone
  <2>1. InLine(j) /\ Carried(j)' = Carried(j) /\ UNCHANGED <<client, opener, sent>>
    BY <1>13 DEF OrderInv, Carried, SweepDone, Return
  <2>2. Holding(client[j])' => Holding(client[j]) /\ UNCHANGED hand
    BY <1>13 DEF Holding, SweepDone, Return
  <2>3. Receiving(j)' => Receiving(j)
    BY <1>13 DEF Receiving, SweepDone, Return
  <2> QED
    BY <2>1, <2>2, <2>3, LineKept
<1>14. CASE ListenerEnd
  <2>1. InLine(j) /\ Carried(j)' = Carried(j) /\ UNCHANGED <<client, opener, sent>>
    BY <1>14 DEF OrderInv, Carried, ListenerEnd
  <2>2. Holding(client[j])' => Holding(client[j]) /\ UNCHANGED hand
    BY <1>14 DEF Holding, ListenerEnd
  <2>3. Receiving(j)' => Receiving(j)
    BY <1>14 DEF Receiving, ListenerEnd
  <2> QED
    BY <2>1, <2>2, <2>3, LineKept
<1>15. ASSUME NEW i \in Id, RequestSent(i) PROVE InLine(j)'
  <2>1. InLine(j) /\ Carried(j)' = Carried(j) /\ UNCHANGED <<client, opener, sent>>
    BY <1>15 DEF OrderInv, Carried, RequestSent
  <2>2. Holding(client[j])' => Holding(client[j]) /\ UNCHANGED hand
    BY <1>15 DEF Holding, RequestSent
  <2>3. Receiving(j)' => Receiving(j)
    BY <1>15 DEF Receiving, RequestSent
  <2> QED
    BY <2>1, <2>2, <2>3, LineKept
<1>16. ASSUME NEW i \in Id, RequestFailed(i) PROVE InLine(j)'
  <2>1. InLine(j) /\ Carried(j)' = Carried(j) /\ UNCHANGED <<client, opener, sent>>
    BY <1>16 DEF OrderInv, Carried, RequestFailed, Take
  <2>2. Holding(client[j])' => Holding(client[j]) /\ UNCHANGED hand
    BY <1>16 DEF Holding, RequestFailed, Take
  <2>3. Receiving(j)' => Receiving(j)
    BY <1>16 DEF Receiving, RequestFailed, Take
  <2> QED
    BY <2>1, <2>2, <2>3, LineKept
<1>17. ASSUME NEW i \in Id, RequestUnlink(i) PROVE InLine(j)'
  <2>1. CASE j = i
    <3>4. unlinking[i] # None /\ UNCHANGED <<hpc, pendingById>>
      BY <1>17, UdpAssumption DEF RequestUnlink
    <3>5. hpc[i] \in {"none", "dialled", "unlink"} /\ i \notin pendingById
      BY <2>1, <3>4 DEF IdsInv, StageInv
    <3>1. i \notin pendingById' /\ unlinking'[i] = None /\ hpc'[i] \in {"none", "dialled",
       "unlink"}
      BY <1>17, <3>4, <3>5 DEF RequestUnlink, Unlink
    <3>2. batch'[i] = <<>> /\ written'[i] = <<>> /\ queue'[i] = <<>>
      BY <1>17, <3>1 DEF RequestUnlink, StageInv, SeqTypes
    <3>3. Carried(i)' = <<>> /\ ~Receiving(i)'
      BY <3>1, <3>2 DEF Carried, Receiving
    <3> QED
      BY <2>1, <3>3 DEF InLine
  <2>2. CASE j # i
    <3>1. InLine(j) /\ Carried(j)' = Carried(j) /\ UNCHANGED <<client, opener, sent>>
      BY <1>17, <2>2 DEF OrderInv, Carried, RequestUnlink, SeqTypes
    <3>2. Holding(client[j])' => Holding(client[j]) /\ UNCHANGED hand
      BY <1>17 DEF Holding, RequestUnlink
    <3>3. Receiving(j)' => Receiving(j)
      BY <1>17, <2>2 DEF Receiving, RequestUnlink, Unlink
    <3> QED
      BY <3>1, <3>2, <3>3, LineKept
  <2> QED
    BY <2>1, <2>2
<1>18. ASSUME NEW i \in Id, Dial(i) PROVE InLine(j)'
  <2>1. InLine(j) /\ Carried(j)' = Carried(j) /\ UNCHANGED <<client, opener, sent>>
    BY <1>18 DEF OrderInv, Carried, Dial, Goto
  <2>2. Holding(client[j])' => Holding(client[j]) /\ UNCHANGED hand
    BY <1>18 DEF Holding, Dial, Goto
  <2>3. Receiving(j)' => Receiving(j)
    BY <1>18 DEF Receiving, Dial, Goto
  <2> QED
    BY <2>1, <2>2, <2>3, LineKept
<1>19. ASSUME NEW i \in Id, WorkTake(i) PROVE InLine(j)'
  <2>1. InLine(j) /\ Carried(j)' = Carried(j) /\ UNCHANGED <<client, opener, sent>>
    <3>1. hpc[j] \notin {"closing", "ended"}
      BY <1>19 DEF WorkTake, Goto
    <3> QED
      BY <1>19, <3>1 DEF OrderInv, Carried, WorkTake
  <2>2. Holding(client[j])' => Holding(client[j]) /\ UNCHANGED hand
    BY <1>19 DEF Holding, WorkTake
  <2>3. Receiving(j)' => Receiving(j)
    <3>1. CASE Take(i, "work")
      BY <1>19, <3>1 DEF Receiving, WorkTake, Take, Goto
    <3>2. CASE UNCHANGED <<pendingById, expired, unlinking>>
      BY <1>19, <3>2 DEF Receiving, WorkTake, Take, Goto
    <3> QED
      BY <1>19, <3>1, <3>2 DEF WorkTake
  <2> QED
    BY <2>1, <2>2, <2>3, LineKept
<1>20. ASSUME NEW i \in Id, WorkUnlink(i) PROVE InLine(j)'
  <2>1. InLine(j) /\ Carried(j)' = Carried(j) /\ UNCHANGED <<client, opener, sent>>
    BY <1>20, UdpAssumption DEF IdsInv, OrderInv, Carried, WorkUnlink, Unlink, Goto
  <2>2. Holding(client[j])' => Holding(client[j]) /\ UNCHANGED hand
    BY <1>20 DEF Holding, WorkUnlink, Unlink, Goto
  <2>3. Receiving(j)' => Receiving(j)
    BY <1>20, UdpAssumption DEF IdsInv, Receiving, WorkUnlink, Unlink, Goto
  <2> QED
    BY <2>1, <2>2, <2>3, LineKept
<1>21. ASSUME NEW i \in Id, RegisterSession(i) PROVE InLine(j)'
  <2>1. InLine(j) /\ Carried(j)' = Carried(j) /\ UNCHANGED <<client, opener, sent>>
    BY <1>21 DEF OrderInv, Carried, RegisterSession, Touch, Goto
  <2>2. Holding(client[j])' => Holding(client[j]) /\ UNCHANGED hand
    BY <1>21 DEF Holding, RegisterSession, Touch, Goto
  <2>3. Receiving(j)' => Receiving(j)
    BY <1>21 DEF Receiving, RegisterSession, Touch, Goto
  <2> QED
    BY <2>1, <2>2, <2>3, LineKept
<1>22. ASSUME NEW i \in Id, TakeBatch(i) PROVE InLine(j)'
  <2>1. InLine(j) /\ UNCHANGED <<client, opener, sent>>
    BY <1>22 DEF OrderInv, TakeBatch, Touch, Goto
  <2>2. Carried(j)' = Carried(j)
    <3>1. CASE j # i
      BY <1>22, <3>1 DEF Carried, SeqTypes, TakeBatch
    <3>2. CASE j = i
      <4>1. PICK n \in 0..Len(queue[i]) :
              /\ batch'[i] = SubSeq(queue[i], 1, n)
              /\ queue'[i] = SubSeq(queue[i], n + 1, Len(queue[i]))
              /\ UNCHANGED written
        <5> DEFINE n == IF Len(queue[i]) < WriteBatch THEN Len(queue[i]) ELSE WriteBatch
        <5>1. n \in 0..Len(queue[i])
          BY UdpAssumption DEF SeqTypes
        <5>2. /\ batch'[i] = SubSeq(queue[i], 1, n)
              /\ queue'[i] = SubSeq(queue[i], n + 1, Len(queue[i]))
              /\ UNCHANGED written
          BY <1>22 DEF TakeBatch, SeqTypes
        <5> QED
          BY <5>1, <5>2
      <4>2. batch[i] = <<>> /\ written[i] \in Seq(Datagram) /\ queue[i] \in Seq(Datagram)
        BY <1>22 DEF TakeBatch, StageInv, SeqTypes
      <4>3. written[i] \o SubSeq(queue[i], 1, n) \o SubSeq(queue[i], n + 1, Len(queue[i]))
              = written[i] \o <<>> \o queue[i]
        BY <4>2, CarriedTaken, ZenonT(60)
      <4> QED
        BY <3>2, <4>1, <4>2, <4>3 DEF Carried
    <3> QED
      BY <3>1, <3>2
  <2>3. Holding(client[j])' => Holding(client[j]) /\ UNCHANGED hand
    BY <1>22 DEF Holding, TakeBatch, Touch, Goto
  <2>4. Receiving(j)' => Receiving(j)
    BY <1>22 DEF Receiving, TakeBatch, Touch, Goto
  <2> QED
    BY <2>1, <2>2, <2>3, <2>4, LineKept
<1>23. ASSUME NEW i \in Id, Written(i) PROVE InLine(j)'
  <2>1. InLine(j) /\ UNCHANGED <<client, opener, sent>>
    BY <1>23 DEF OrderInv, Written, Goto
  <2>2. Carried(j)' = Carried(j)
    <3>1. CASE j # i
      BY <1>23, <3>1 DEF Carried, SeqTypes, Written
    <3>2. CASE j = i
      <4>1. /\ written'[i] = written[i] \o batch[i] /\ batch'[i] = <<>> /\ queue'[i] = queue[i]
            /\ written[i] \in Seq(Datagram) /\ batch[i] \in Seq(Datagram)
            /\ queue[i] \in Seq(Datagram)
        BY <1>23 DEF Written, SeqTypes
      <4> QED
        BY <3>2, <4>1, CarriedWritten DEF Carried
    <3> QED
      BY <3>1, <3>2
  <2>3. Holding(client[j])' => Holding(client[j]) /\ UNCHANGED hand
    BY <1>23 DEF Holding, Written, Goto
  <2>4. Receiving(j)' => Receiving(j)
    BY <1>23 DEF Receiving, Written, Goto
  <2> QED
    BY <2>1, <2>2, <2>3, <2>4, LineKept
<1>24. ASSUME NEW i \in Id, WriteFailed(i) PROVE InLine(j)'
  <2>1. InLine(j) /\ Carried(j)' = Carried(j) /\ UNCHANGED <<client, opener, sent>>
    BY <1>24 DEF OrderInv, Carried, SeqTypes, WriteFailed, Goto
  <2>2. Holding(client[j])' => Holding(client[j]) /\ UNCHANGED hand
    BY <1>24 DEF Holding, WriteFailed, Goto
  <2>3. Receiving(j)' => Receiving(j)
    BY <1>24 DEF Receiving, WriteFailed, Goto
  <2> QED
    BY <2>1, <2>2, <2>3, LineKept
<1>25. ASSUME NEW i \in Id, Forward(i) PROVE InLine(j)'
  <2>1. InLine(j) /\ Carried(j)' = Carried(j) /\ UNCHANGED <<client, opener, sent>>
    BY <1>25 DEF OrderInv, Carried, Forward, Touch
  <2>2. Holding(client[j])' => Holding(client[j]) /\ UNCHANGED hand
    BY <1>25 DEF Holding, Forward, Touch
  <2>3. Receiving(j)' => Receiving(j)
    BY <1>25 DEF Receiving, Forward, Touch
  <2> QED
    BY <2>1, <2>2, <2>3, LineKept
<1>26. ASSUME NEW i \in Id, PeerCloses(i) PROVE InLine(j)'
  <2>1. InLine(j) /\ Carried(j)' = Carried(j) /\ UNCHANGED <<client, opener, sent>>
    BY <1>26 DEF OrderInv, Carried, PeerCloses, Goto
  <2>2. Holding(client[j])' => Holding(client[j]) /\ UNCHANGED hand
    BY <1>26 DEF Holding, PeerCloses, Goto
  <2>3. Receiving(j)' => Receiving(j)
    BY <1>26 DEF Receiving, PeerCloses, Goto
  <2> QED
    BY <2>1, <2>2, <2>3, LineKept
<1>27. ASSUME NEW i \in Id, StopSeen(i) PROVE InLine(j)'
  <2>1. InLine(j) /\ Carried(j)' = Carried(j) /\ UNCHANGED <<client, opener, sent>>
    BY <1>27 DEF OrderInv, Carried, StopSeen, Goto
  <2>2. Holding(client[j])' => Holding(client[j]) /\ UNCHANGED hand
    BY <1>27 DEF Holding, StopSeen, Goto
  <2>3. Receiving(j)' => Receiving(j)
    BY <1>27 DEF Receiving, StopSeen, Goto
  <2> QED
    BY <2>1, <2>2, <2>3, LineKept
<1>28. ASSUME NEW i \in Id, CloseWork(i) PROVE InLine(j)'
  <2>1. InLine(j) /\ Carried(j)' = Carried(j) /\ UNCHANGED <<client, opener, sent>>
    BY <1>28 DEF OrderInv, Carried, SeqTypes, CloseWork, RemoveSession, Touch, Goto
  <2>2. Holding(client[j])' => Holding(client[j]) /\ UNCHANGED hand
    BY <1>28 DEF Holding, CloseWork, RemoveSession, Touch, Goto
  <2>3. Receiving(j)' => Receiving(j)
    BY <1>28 DEF Receiving, CloseWork, RemoveSession, Touch, Goto
  <2> QED
    BY <2>1, <2>2, <2>3, LineKept
<1>29. ASSUME NEW p \in Peer, SessionIdle(p) PROVE InLine(j)'
  <2>1. InLine(j) /\ Carried(j)' = Carried(j) /\ UNCHANGED <<client, opener, sent>>
    BY <1>29 DEF OrderInv, Carried, SessionIdle
  <2>2. Holding(client[j])' => Holding(client[j]) /\ UNCHANGED hand
    BY <1>29 DEF Holding, SessionIdle
  <2>3. Receiving(j)' => Receiving(j)
    BY <1>29 DEF Receiving, SessionIdle
  <2> QED
    BY <2>1, <2>2, <2>3, LineKept
<1>30. ASSUME NEW i \in Id, PendingExpires(i) PROVE InLine(j)'
  <2>1. InLine(j) /\ Carried(j)' = Carried(j) /\ UNCHANGED <<client, opener, sent>>
    BY <1>30 DEF OrderInv, Carried, PendingExpires
  <2>2. Holding(client[j])' => Holding(client[j]) /\ UNCHANGED hand
    BY <1>30 DEF Holding, PendingExpires
  <2>3. Receiving(j)' => Receiving(j)
    BY <1>30 DEF Receiving, PendingExpires
  <2> QED
    BY <2>1, <2>2, <2>3, LineKept
<1>31. CASE Cleanup
  <2>1. InLine(j) /\ Carried(j)' = Carried(j) /\ UNCHANGED <<client, opener, sent>>
    BY <1>31 DEF OrderInv, Carried, Cleanup
  <2>2. Holding(client[j])' => Holding(client[j]) /\ UNCHANGED hand
    BY <1>31 DEF Holding, Cleanup
  <2>3. Receiving(j)' => Receiving(j)
    BY <1>31 DEF Receiving, Cleanup
  <2> QED
    BY <2>1, <2>2, <2>3, LineKept
<1>32. CASE CheckLimit
  <2>1. InLine(j) /\ Carried(j)' = Carried(j) /\ UNCHANGED <<client, opener, sent>>
    BY <1>32 DEF OrderInv, Carried, CheckLimit
  <2>2. Holding(client[j])' => Holding(client[j]) /\ UNCHANGED hand
    BY <1>32 DEF Holding, CheckLimit, Return
  <2>3. Receiving(j)' => Receiving(j)
    BY <1>32 DEF Receiving, CheckLimit
  <2> QED
    BY <2>1, <2>2, <2>3, LineKept
<1> QED
  BY <1>1, <1>2, <1>3, <1>4, <1>5, <1>6, <1>7, <1>8, <1>9, <1>10, <1>11, <1>12, <1>13, <1>14,
     <1>15, <1>16, <1>17, <1>18, <1>19, <1>20, <1>21, <1>22, <1>23, <1>24, <1>25, <1>26, <1>27,
     <1>28, <1>29, <1>30, <1>31, <1>32 DEF Next, ListenerNext, RequestNext, HandlerNext

\* The inductive invariant.  PendingLinked rests on LinkInv, which keeps others away from
\* a pending session that has no reverse entry yet, and on IdsInv, which has one task at
\* most in remove_pending for an id; SessionServed on the ids of IdsInv; and InOrder, by
\* OrderInv, on both, since they say that the listener's datagram is of the queue's peer.
UdpInv ==
    /\ Types /\ SeqTypes /\ HandInv /\ IdsInv /\ LinkInv /\ PendingLinked /\ SessionServed
    /\ SeenInv /\ StageInv /\ OrderInv

\* The proxy begins with empty tables.
LEMMA UdpInit == Init => UdpInv
<1> SUFFICES ASSUME Init PROVE UdpInv
  OBVIOUS
<1> USE IdFacts, UdpAssumption DEF Init
<1>1. Types
  <2>1. sent \in [Peer -> 0..MaxSent] /\ workId \in 0..MaxId
    OBVIOUS
  <2>2. stop \in BOOLEAN /\ lpc \in LPC /\ hpc \in [Id -> HPC]
    BY DEF LPC, HPC
  <2>3. /\ unlinking \in [Id -> {None, "sweep", "request", "work"}]
        /\ client \in [Id -> Peer \cup {None}] /\ opener \in [Id -> Datagram \cup {None}]
    OBVIOUS
  <2>4. sessions \in [Peer -> Id \cup {None}] /\ pendingClient \in [Peer -> Id \cup {None}]
    OBVIOUS
  <2> QED
    BY <2>1, <2>2, <2>3, <2>4 DEF Types
<1>5. HandInv
  BY DEF HandInv
<1>2. SeqTypes
  <2>1. <<>> \in Seq(Datagram)
    OBVIOUS
  <2> QED
    BY <2>1 DEF SeqTypes
<1>3. IdsInv /\ LinkInv
  BY DEF IdsInv, LinkInv, Id
<1>4. PendingLinked /\ SessionServed
  BY DEF PendingLinked, SessionServed
<1>6. SeenInv /\ StageInv
  BY DEF SeenInv, StageInv
<1>7. OrderInv
  <2>1. ASSUME NEW i \in Id PROVE Carried(i) = <<>> /\ ~Receiving(i)
    BY DEF Carried, Receiving
  <2> HIDE DEF Init, Carried
  <2>2. ASSUME NEW i \in Id PROVE InLine(i)
    <3>1. 1..Len(Carried(i)) = {}
      BY <2>1
    <3> QED
      BY <2>1, <3>1 DEF InLine
  <2> QED
    BY <2>2 DEF OrderInv
<1> QED
  BY <1>1, <1>2, <1>3, <1>4, <1>5, <1>6, <1>7 DEF UdpInv

\* The invariant holds throughout: each conjunct is kept by every step of the listener,
\* the request tasks, the handlers and the clocks.
THEOREM UdpInductive == Spec => []UdpInv
<1>1. Init => UdpInv
  BY UdpInit
<1>2. UdpInv /\ [Next]_vars => UdpInv'
  <2> SUFFICES ASSUME UdpInv, [Next]_vars PROVE UdpInv'
    OBVIOUS
  <2>1. Types' /\ SeqTypes' /\ HandInv' /\ IdsInv' /\ LinkInv' /\ PendingLinked' /\
     SessionServed'
    BY TypesStep, SeqStep, HandStep, IdsStep, LinkStep, PendingStep, ServedStep DEF UdpInv
  <2>2. SeenInv' /\ StageInv'
    BY SeenStep, StageStep DEF UdpInv
  <2>3. \A j \in Id : hpc'[j] \notin {"closing", "ended"} => InLine(j)'
    BY OrderStep DEF UdpInv
  <2>4. OrderInv'
    BY <2>3 DEF OrderInv
  <2> QED
    BY <2>1, <2>2, <2>4 DEF UdpInv
<1> QED
  BY <1>1, <1>2, PTL DEF Spec

\* The variables keep their types, for any number of peers, datagrams and work ids.
THEOREM UTypeCorrect == Spec => []TypeOK
<1>1. UdpInv => TypeOK
  BY TypeParts DEF UdpInv
<1> QED
  BY <1>1, UdpInductive, PTL

\* handle_datagram, sweep, the request tasks and the handlers of work connections change
\* pending_by_id and pending_client in separate lock scopes: however these interleave, the
\* two tables agree but for the task that is between its own two (udp.rs:251-310).
THEOREM PendingStaysLinked == Spec => []PendingLinked
<1>1. UdpInv => PendingLinked
  BY DEF UdpInv
<1> QED
  BY <1>1, UdpInductive, PTL

\* The table has room between the check of the limit and the insertion: only the listener
\* inserts, and the other tasks can but remove.
BoundInv ==
    /\ PendingBounded
    /\ lpc = "insert" => Cardinality(pendingById) < MaxPending

\* A step other than the listener's check and insertion adds nothing.
LEMMA OnlyListenerInserts ==
    ASSUME [Next]_vars, ~CheckLimit, ~InsertPending
    PROVE  pendingById' \subseteq pendingById /\ (lpc' = "insert" => lpc = "insert")
<1> USE DEF tables, channels, listener, requests, handlers, Return, Take, Unlink, Goto
<1>1. CASE UNCHANGED vars
  BY <1>1 DEF vars
<1>2. CASE ListenerNext
  <2>1. CASE \E p \in Peer : Receive(p)
    BY <2>1 DEF Receive
  <2>2. CASE TrySend \/ LookUpPending \/ LookUpById \/ Link \/ SpawnRequest
    BY <2>2 DEF TrySend, LookUpPending, LookUpById, Link, SpawnRequest
  <2>3. CASE SweepSessions \/ SweepCollect \/ SweepDone \/ ListenerEnd
    BY <2>3 DEF SweepSessions, SweepCollect, SweepDone, ListenerEnd
  <2>4. CASE \E i \in Id : SweepTake(i) \/ SweepUnlink(i)
    BY <2>4 DEF SweepTake, SweepUnlink
  <2> QED
    BY <1>2, <2>1, <2>2, <2>3, <2>4 DEF ListenerNext
<1>3. ASSUME NEW i \in Id, RequestNext(i) \/ Dial(i) \/ PendingExpires(i)
      PROVE  pendingById' \subseteq pendingById /\ UNCHANGED lpc
  BY <1>3 DEF RequestNext, RequestSent, RequestFailed, RequestUnlink, Dial, PendingExpires
<1>4. ASSUME NEW i \in Id, HandlerNext(i)
      PROVE  pendingById' \subseteq pendingById /\ UNCHANGED lpc
  <2>1. CASE WorkTake(i) \/ WorkUnlink(i) \/ RegisterSession(i) \/ TakeBatch(i)
    BY <2>1 DEF WorkTake, WorkUnlink, RegisterSession, TakeBatch
  <2>2. CASE Written(i) \/ WriteFailed(i) \/ Forward(i) \/ PeerCloses(i) \/ StopSeen(i)
             \/ CloseWork(i)
    BY <2>2 DEF Written, WriteFailed, Forward, PeerCloses, StopSeen, CloseWork
  <2> QED
    BY <1>4, <2>1, <2>2 DEF HandlerNext
<1>5. CASE (\E p \in Peer : SessionIdle(p)) \/ Cleanup
  BY <1>5 DEF SessionIdle, Cleanup
<1> QED
  BY <1>1, <1>2, <1>3, <1>4, <1>5 DEF Next

\* Every step keeps the table within its limit.
LEMMA BoundStep == Types /\ BoundInv /\ [Next]_vars => BoundInv'
<1> SUFFICES ASSUME Types, BoundInv, [Next]_vars PROVE BoundInv'
  OBVIOUS
<1>1. IsFiniteSet(pendingById) /\ Cardinality(pendingById) \in Nat
  <2>1. IsFiniteSet(Id)
    BY FS_Interval, UdpAssumption DEF Id
  <2>2. IsFiniteSet(pendingById)
    BY <2>1, FS_Subset DEF Types
  <2> QED
    BY <2>2, FS_CardinalityType
<1>2. CASE CheckLimit
  BY <1>1, <1>2, UdpAssumption
  DEF CheckLimit, PendingFull, Return, BoundInv, PendingBounded, tables
<1>3. CASE InsertPending
  <2>1. pendingById' = pendingById \cup {workId + 1} /\ lpc = "insert" /\ lpc' = "link"
    BY <1>3 DEF InsertPending
  <2>2. /\ Cardinality(pendingById') <= Cardinality(pendingById) + 1
        /\ Cardinality(pendingById') \in Nat
    BY <1>1, <2>1, FS_AddElement
  <2> QED
    BY <1>1, <2>1, <2>2, UdpAssumption DEF BoundInv, PendingBounded
<1>4. CASE ~CheckLimit /\ ~InsertPending
  <2>1. pendingById' \subseteq pendingById /\ (lpc' = "insert" => lpc = "insert")
    BY <1>4, OnlyListenerInserts
  <2>2. Cardinality(pendingById') <= Cardinality(pendingById) /\ IsFiniteSet(pendingById')
    BY <1>1, <2>1, FS_Subset
  <2>3. Cardinality(pendingById') \in Nat
    BY <2>2, FS_CardinalityType
  <2> QED
    BY <1>1, <2>1, <2>2, <2>3, UdpAssumption DEF BoundInv, PendingBounded
<1> QED
  BY <1>2, <1>3, <1>4

\* The pending table stays within MAX_PENDING_UDP_SESSIONS however the removals of sweep,
\* request tasks and handlers fall between the listener's check and its insertion
\* (udp.rs:274, 293).
THEOREM PendingStaysBounded == Spec => []PendingBounded
<1>1. Init => BoundInv
  BY FS_EmptySet, UdpAssumption DEF Init, BoundInv, PendingBounded
<1>2. UdpInv /\ BoundInv /\ [Next]_vars => BoundInv'
  BY BoundStep DEF UdpInv
<1>3. BoundInv => PendingBounded
  BY DEF BoundInv
<1> QED
  BY <1>1, <1>2, <1>3, UdpInductive, PTL DEF Spec

\* A session in the table belongs to a handler of its own peer that has registered it and
\* has not ended, whichever work connections of that peer replace or remove each other's
\* session (udp.rs:383-440).
THEOREM SessionsAreServed == Spec => []SessionServed
<1>1. UdpInv => SessionServed
  BY DEF UdpInv
<1> QED
  BY <1>1, UdpInductive, PTL

\* A work connection carries the datagrams of its own peer, each once, in the order they
\* were received, beginning with the one that opened the session, whatever is lost by full
\* queues, sweeps, late work connections and failed writes in between (udp.rs:283-301).
THEOREM DatagramsInOrder == Spec => []InOrder
<1>1. UdpInv => InOrder
  <2> SUFFICES ASSUME UdpInv, NEW i \in Id, Carried(i) # <<>>,
                      hpc[i] # "closing", hpc[i] # "ended"
               PROVE  /\ Head(Carried(i)) = opener[i]
                      /\ \A k \in DOMAIN Carried(i) : Carried(i)[k][1] = client[i]
                      /\ \A j, k \in DOMAIN Carried(i) :
                           j < k => Carried(i)[j][2] < Carried(i)[k][2]
    BY DEF InOrder
  <2>1. InLine(i) /\ SeqTypes
    BY DEF UdpInv, OrderInv
  <2>2. Carried(i) \in Seq(Datagram)
    BY <2>1, CarriedType
  <2> HIDE DEF Carried
  <2>3. Head(Carried(i)) = Carried(i)[1] /\ DOMAIN Carried(i) = 1..Len(Carried(i))
    BY <2>2
  <2> QED
    BY <2>1, <2>3 DEF InLine
<1> QED
  BY <1>1, UdpInductive, PTL

=============================================================================
