------------------------ MODULE SessionRegistryProofs ------------------------
(***************************************************************************)
(* Proofs, for every set of sessions, clients, names, ports and domains,   *)
(* of the type invariant and the four safety invariants of                 *)
(* SessionRegistry.  Three rest on the inductive invariant IndInv; the     *)
(* fourth, on which names and domains lead where, has a second one of its  *)
(* own, RouteInv, built on the first.                                      *)
(***************************************************************************)
EXTENDS SessionRegistry, TLAPS

\* The domains a session asks for are domains.
LEMMA DomainsType ==
    \A s \in Session, n \in Name : Domains(s, n) \in SUBSET Domain
BY ConstantsAssumption DEF Domains

\* A task that stays between its insertion and its unregistration leaves the
\* registry invariant alone.
LEMMA RegistryFrame ==
    ASSUME TypeOK, RegistryInv, NEW s \in Session, NEW l,
           l \notin Before \cup Cleaning \cup {"done"},
           pc[s] \notin Before \cup Cleaning \cup {"done"},
           pc' = [pc EXCEPT ![s] = l],
           UNCHANGED <<sessions, target, replaced>>
    PROVE  RegistryInv'
<1>1. pc'[s] = l /\ \A t \in Session \ {s} : pc'[t] = pc[t]
  BY DEF TypeOK
<1>2. \A t \in Session : CleansItself(t)' <=> CleansItself(t)
  BY <1>1 DEF CleansItself
<1> QED
  BY <1>1, <1>2 DEF RegistryInv

\* Every step keeps the types.
LEMMA TypeStep ==
    TypeOK /\ LocalsInv /\ [Next]_vars => TypeOK'
<1> SUFFICES ASSUME TypeOK, LocalsInv, [Next]_vars
             PROVE  TypeOK'
  OBVIOUS
<1> USE DEF tables, owned, sockets, regVars, clean, events, Goto
<1>1. ASSUME NEW s \in Session, Login(s)
      PROVE  TypeOK'
  BY <1>1, ConstantsAssumption DEF Login, TypeOK, Label
<1>2. ASSUME NEW s \in Session, LoginRejected(s)
      PROVE  TypeOK'
  BY <1>2, ConstantsAssumption DEF LoginRejected, TypeOK, Label
<1>3. ASSUME NEW s \in Session, CheckLimit(s)
      PROVE  TypeOK'
  BY <1>3, ConstantsAssumption DEF CheckLimit, TypeOK, Label
<1>4. ASSUME NEW s \in Session, InsertSession(s)
      PROVE  TypeOK'
  BY <1>4, ConstantsAssumption DEF InsertSession, TypeOK, Label
<1>5. ASSUME NEW s \in Session, LoginResp(s)
      PROVE  TypeOK'
  BY <1>5, ConstantsAssumption DEF LoginResp, TypeOK, Label
<1>6. ASSUME NEW s \in Session, ConnectionEnds(s)
      PROVE  TypeOK'
  BY <1>6, ConstantsAssumption DEF ConnectionEnds, TypeOK, Label
<1>7. ASSUME NEW s \in Session, ReceiveOther(s)
      PROVE  TypeOK'
  BY <1>7, ConstantsAssumption DEF ReceiveOther, TypeOK, Label
<1>8. ASSUME NEW s \in Session, NEW n \in Name, ReceiveNewProxy(s, n)
      PROVE  TypeOK'
  <2>1. pc' \in [Session -> Label]
    BY <1>8 DEF ReceiveNewProxy, TypeOK, Label
  <2>2. reg' \in [Session -> Name \cup {None}]
    BY <1>8 DEF ReceiveNewProxy, TypeOK
  <2>3. todo' \in [Session -> SUBSET Domain]
    BY <1>8, DomainsType DEF ReceiveNewProxy, TypeOK
  <2> QED
    BY <1>8, <2>1, <2>2, <2>3 DEF ReceiveNewProxy, TypeOK
<1>9. ASSUME NEW s \in Session, Reply(s)
      PROVE  TypeOK'
  BY <1>9, ConstantsAssumption DEF Reply, TypeOK, Label
<1>10. ASSUME NEW s \in Session, LeaveLoop(s)
      PROVE  TypeOK'
  BY <1>10, ConstantsAssumption DEF LeaveLoop, TypeOK, Label
<1>11. ASSUME NEW s \in Session, UnregisterSession(s)
      PROVE  TypeOK'
  BY <1>11, ConstantsAssumption DEF UnregisterSession, TypeOK, Label
<1>12. ASSUME NEW s \in Session, LookupDomain(s)
      PROVE  TypeOK'
  <2>1. PICK d \in todo[s] :
            /\ todo' = [todo EXCEPT ![s] = @ \ {d}]
            /\ IF domainIndex[d] = None
               THEN /\ Goto(s, IF todo[s] = {d} THEN "bind" ELSE "domain")
                    /\ UNCHANGED owner
               ELSE /\ owner' = [owner EXCEPT ![s] = domainIndex[d][1]]
                    /\ Goto(s, "owner")
    BY <1>12 DEF LookupDomain
  <2>2. d \in Domain
    BY <2>1 DEF TypeOK
  <2>3. domainIndex[d] # None => domainIndex[d][1] \in RunId
    BY <2>2 DEF TypeOK
  <2>4. pc' \in [Session -> Label] /\ todo' \in [Session -> SUBSET Domain]
    BY <2>1 DEF TypeOK, Label
  <2>5. owner' \in [Session -> RunId \cup {None}]
    BY <2>1, <2>3 DEF TypeOK
  <2> QED
    BY <1>12, <2>4, <2>5 DEF LookupDomain, TypeOK
<1>13. ASSUME NEW s \in Session, LookupOwner(s)
      PROVE  TypeOK'
  BY <1>13, ConstantsAssumption DEF LookupOwner, TypeOK, Label
<1>14. ASSUME NEW s \in Session, Bind(s)
      PROVE  TypeOK'
  <2>1. reg[s] \in Name
    BY <1>14 DEF Bind, LocalsInv, Registering
  <2>2. pc' \in [Session -> Label]
    BY <1>14 DEF Bind, TypeOK, Label
  <2>3. listeners' \in SUBSET (Session \X Name) /\ stopped' \in SUBSET listeners'
    BY <1>14, <2>1 DEF Bind, TypeOK
  <2> QED
    BY <1>14, <2>1, <2>2, <2>3 DEF Bind, TypeOK
<1>15. ASSUME NEW s \in Session, BindFails(s)
      PROVE  TypeOK'
  BY <1>15, ConstantsAssumption DEF BindFails, TypeOK, Label
<1>16. ASSUME NEW s \in Session, RegisterUdp(s)
      PROVE  TypeOK'
  BY <1>16, ConstantsAssumption DEF RegisterUdp, TypeOK, Label, Domains, LocalsInv, Registering
<1>17. ASSUME NEW s \in Session, MapDomains(s)
      PROVE  TypeOK'
  <2>1. Domains(s, reg[s]) \in SUBSET Domain
    BY <1>17, DomainsType DEF MapDomains, LocalsInv, Registering
  <2>2. pc' \in [Session -> Label]
    BY <1>17 DEF MapDomains, TypeOK, Label
  <2>3. proxyDomains' \in [Session -> SUBSET Domain] /\ todo' \in [Session -> SUBSET Domain]
    BY <1>17, <2>1 DEF MapDomains, TypeOK
  <2> QED
    BY <1>17, <2>1, <2>2, <2>3 DEF MapDomains, TypeOK
<1>18. ASSUME NEW s \in Session, IndexDomain(s)
      PROVE  TypeOK'
  <2>1. PICK d \in todo[s] :
            /\ domainIndex' = [domainIndex EXCEPT ![d] = <<RunOf[s], reg[s]>>]
            /\ todo' = [todo EXCEPT ![s] = @ \ {d}]
            /\ Goto(s, IF todo[s] = {d} THEN "entry" ELSE "indexDomains")
    BY <1>18 DEF IndexDomain
  <2>2. <<RunOf[s], reg[s]>> \in RunId \X Name
    BY <1>18, ConstantsAssumption DEF IndexDomain, LocalsInv, Registering
  <2>3. domainIndex' \in [Domain -> (RunId \X Name) \cup {None}]
    BY <2>1, <2>2 DEF TypeOK
  <2>4. pc' \in [Session -> Label] /\ todo' \in [Session -> SUBSET Domain]
    BY <2>1 DEF TypeOK, Label
  <2> QED
    BY <1>18, <2>3, <2>4 DEF IndexDomain, TypeOK
<1>19. ASSUME NEW s \in Session, InsertEntry(s)
      PROVE  TypeOK'
  BY <1>19, ConstantsAssumption DEF InsertEntry, TypeOK, Label, Domains, LocalsInv, Registering
<1>20. ASSUME NEW s \in Session, IndexProxy(s)
      PROVE  TypeOK'
  BY <1>20, ConstantsAssumption DEF IndexProxy, TypeOK, Label, Domains, LocalsInv, Registering
<1>21. ASSUME NEW s \in Session, CleanNotify(s)
      PROVE  TypeOK'
  BY <1>21, ConstantsAssumption DEF CleanNotify, TypeOK, Label, LocalsInv, Cleaning
<1>22. ASSUME NEW s \in Session, CleanCollect(s)
      PROVE  TypeOK'
  BY <1>22, ConstantsAssumption DEF CleanCollect, TypeOK, Label, LocalsInv, Cleaning
<1>23. ASSUME NEW s \in Session, CleanUnindexProxies(s)
      PROVE  TypeOK'
  BY <1>23, ConstantsAssumption DEF CleanUnindexProxies, TypeOK, Label, LocalsInv, Cleaning
<1>24. ASSUME NEW s \in Session, CleanUnindexDomains(s)
      PROVE  TypeOK'
  BY <1>24, ConstantsAssumption DEF CleanUnindexDomains, TypeOK, Label, LocalsInv, Cleaning
<1>25. ASSUME NEW s \in Session, CleanDrain(s)
      PROVE  TypeOK'
  BY <1>25, ConstantsAssumption DEF CleanDrain, TypeOK, Label, LocalsInv, Cleaning
<1>26. ASSUME NEW s \in Session, CleanRest(s)
      PROVE  TypeOK'
  BY <1>26, ConstantsAssumption DEF CleanRest, TypeOK, Label, LocalsInv, Cleaning
<1>27. ASSUME NEW s \in Session, NEW n \in Name, ReleaseSocket(s, n)
      PROVE  TypeOK'
  BY <1>27, ConstantsAssumption DEF ReleaseSocket, TypeOK, Label
<1>28. ASSUME NEW s \in Session, NEW n \in Name, ListenerShutdown(s, n)
      PROVE  TypeOK'
  BY <1>28, ConstantsAssumption DEF ListenerShutdown, TypeOK, Label
<1>29. CASE Shutdown
  BY <1>29, ConstantsAssumption DEF Shutdown, TypeOK, Label
<1>30. CASE UNCHANGED vars
  BY <1>30, ConstantsAssumption DEF vars, TypeOK, Label
<1> QED
  BY <1>1, <1>2, <1>3, <1>4, <1>5, <1>6, <1>7, <1>8, <1>9, <1>10, <1>11, <1>12,
     <1>13, <1>14, <1>15, <1>16, <1>17, <1>18, <1>19, <1>20, <1>21, <1>22, <1>23,
     <1>24, <1>25, <1>26, <1>27, <1>28, <1>29, <1>30
     DEF Next, TaskStep, PeerStep, ListenerStep

\* A task inside register_proxy knows its proxy, one inside cleanup its session.
LEMMA LocalsStep ==
    TypeOK /\ LocalsInv /\ [Next]_vars => LocalsInv'
<1> SUFFICES ASSUME TypeOK, LocalsInv, [Next]_vars
             PROVE  LocalsInv'
  OBVIOUS
<1> USE DEF tables, owned, sockets, regVars, clean, events, Goto
<1>1. ASSUME NEW s \in Session, Login(s)
      PROVE  LocalsInv'
  BY <1>1, ConstantsAssumption DEF Login, TypeOK, LocalsInv, Registering, Cleaning, Label
<1>2. ASSUME NEW s \in Session, LoginRejected(s)
      PROVE  LocalsInv'
  BY <1>2, ConstantsAssumption DEF LoginRejected, TypeOK, LocalsInv, Registering, Cleaning,
     Label
<1>3. ASSUME NEW s \in Session, CheckLimit(s)
      PROVE  LocalsInv'
  BY <1>3, ConstantsAssumption DEF CheckLimit, TypeOK, LocalsInv, Registering, Cleaning, Label
<1>4. ASSUME NEW s \in Session, InsertSession(s)
      PROVE  LocalsInv'
  BY <1>4, ConstantsAssumption DEF InsertSession, TypeOK, LocalsInv, Registering, Cleaning,
     Label
<1>5. ASSUME NEW s \in Session, LoginResp(s)
      PROVE  LocalsInv'
  BY <1>5, ConstantsAssumption DEF LoginResp, TypeOK, LocalsInv, Registering, Cleaning, Label
<1>6. ASSUME NEW s \in Session, ConnectionEnds(s)
      PROVE  LocalsInv'
  BY <1>6, ConstantsAssumption DEF ConnectionEnds, TypeOK, LocalsInv, Registering, Cleaning,
     Label
<1>7. ASSUME NEW s \in Session, ReceiveOther(s)
      PROVE  LocalsInv'
  BY <1>7, ConstantsAssumption DEF ReceiveOther, TypeOK, LocalsInv, Registering, Cleaning, Label
<1>8. ASSUME NEW s \in Session, NEW n \in Name, ReceiveNewProxy(s, n)
      PROVE  LocalsInv'
  BY <1>8, ConstantsAssumption DEF ReceiveNewProxy, TypeOK, LocalsInv, Registering, Cleaning,
     Label, Domains
<1>9. ASSUME NEW s \in Session, Reply(s)
      PROVE  LocalsInv'
  BY <1>9, ConstantsAssumption DEF Reply, TypeOK, LocalsInv, Registering, Cleaning, Label
<1>10. ASSUME NEW s \in Session, LeaveLoop(s)
      PROVE  LocalsInv'
  BY <1>10, ConstantsAssumption DEF LeaveLoop, TypeOK, LocalsInv, Registering, Cleaning, Label
<1>11. ASSUME NEW s \in Session, UnregisterSession(s)
      PROVE  LocalsInv'
  BY <1>11, ConstantsAssumption DEF UnregisterSession, TypeOK, LocalsInv, Registering,
     Cleaning, Label
<1>12. ASSUME NEW s \in Session, LookupDomain(s)
      PROVE  LocalsInv'
  BY <1>12, ConstantsAssumption DEF LookupDomain, TypeOK, LocalsInv, Registering, Cleaning,
     Label
<1>13. ASSUME NEW s \in Session, LookupOwner(s)
      PROVE  LocalsInv'
  BY <1>13, ConstantsAssumption DEF LookupOwner, TypeOK, LocalsInv, Registering, Cleaning, Label
<1>14. ASSUME NEW s \in Session, Bind(s)
      PROVE  LocalsInv'
  BY <1>14, ConstantsAssumption DEF Bind, TypeOK, LocalsInv, Registering, Cleaning, Label,
     Domains
<1>15. ASSUME NEW s \in Session, BindFails(s)
      PROVE  LocalsInv'
  BY <1>15, ConstantsAssumption DEF BindFails, TypeOK, LocalsInv, Registering, Cleaning, Label
<1>16. ASSUME NEW s \in Session, RegisterUdp(s)
      PROVE  LocalsInv'
  BY <1>16, ConstantsAssumption DEF RegisterUdp, TypeOK, LocalsInv, Registering, Cleaning,
     Label, Domains
<1>17. ASSUME NEW s \in Session, MapDomains(s)
      PROVE  LocalsInv'
  BY <1>17, ConstantsAssumption DEF MapDomains, TypeOK, LocalsInv, Registering, Cleaning,
     Label, Domains
<1>18. ASSUME NEW s \in Session, IndexDomain(s)
      PROVE  LocalsInv'
  BY <1>18, ConstantsAssumption DEF IndexDomain, TypeOK, LocalsInv, Registering, Cleaning,
     Label, Domains
<1>19. ASSUME NEW s \in Session, InsertEntry(s)
      PROVE  LocalsInv'
  BY <1>19, ConstantsAssumption DEF InsertEntry, TypeOK, LocalsInv, Registering, Cleaning, Label
<1>20. ASSUME NEW s \in Session, IndexProxy(s)
      PROVE  LocalsInv'
  BY <1>20, ConstantsAssumption DEF IndexProxy, TypeOK, LocalsInv, Registering, Cleaning, Label
<1>21. ASSUME NEW s \in Session, CleanNotify(s)
      PROVE  LocalsInv'
  BY <1>21, ConstantsAssumption DEF CleanNotify, TypeOK, LocalsInv, Registering, Cleaning, Label
<1>22. ASSUME NEW s \in Session, CleanCollect(s)
      PROVE  LocalsInv'
  BY <1>22, ConstantsAssumption DEF CleanCollect, TypeOK, LocalsInv, Registering, Cleaning,
     Label
<1>23. ASSUME NEW s \in Session, CleanUnindexProxies(s)
      PROVE  LocalsInv'
  BY <1>23, ConstantsAssumption DEF CleanUnindexProxies, TypeOK, LocalsInv, Registering,
     Cleaning, Label
<1>24. ASSUME NEW s \in Session, CleanUnindexDomains(s)
      PROVE  LocalsInv'
  BY <1>24, ConstantsAssumption DEF CleanUnindexDomains, TypeOK, LocalsInv, Registering,
     Cleaning, Label
<1>25. ASSUME NEW s \in Session, CleanDrain(s)
      PROVE  LocalsInv'
  BY <1>25, ConstantsAssumption DEF CleanDrain, TypeOK, LocalsInv, Registering, Cleaning, Label
<1>26. ASSUME NEW s \in Session, CleanRest(s)
      PROVE  LocalsInv'
  BY <1>26, ConstantsAssumption DEF CleanRest, TypeOK, LocalsInv, Registering, Cleaning, Label
<1>27. ASSUME NEW s \in Session, NEW n \in Name, ReleaseSocket(s, n)
      PROVE  LocalsInv'
  BY <1>27, ConstantsAssumption DEF ReleaseSocket, TypeOK, LocalsInv, Registering, Cleaning,
     Label
<1>28. ASSUME NEW s \in Session, NEW n \in Name, ListenerShutdown(s, n)
      PROVE  LocalsInv'
  BY <1>28, ConstantsAssumption DEF ListenerShutdown, TypeOK, LocalsInv, Registering, Cleaning,
     Label
<1>29. CASE Shutdown
  BY <1>29, ConstantsAssumption DEF Shutdown, TypeOK, LocalsInv, Registering, Cleaning, Label
<1>30. CASE UNCHANGED vars
  BY <1>30, ConstantsAssumption DEF vars, TypeOK, LocalsInv, Registering, Cleaning, Label
<1> QED
  BY <1>1, <1>2, <1>3, <1>4, <1>5, <1>6, <1>7, <1>8, <1>9, <1>10, <1>11, <1>12,
     <1>13, <1>14, <1>15, <1>16, <1>17, <1>18, <1>19, <1>20, <1>21, <1>22, <1>23,
     <1>24, <1>25, <1>26, <1>27, <1>28, <1>29, <1>30
     DEF Next, TaskStep, PeerStep, ListenerStep

\* Entries and domains exist only between login and the last drain.
LEMMA EmptyStep ==
    TypeOK /\ LocalsInv /\ EmptyInv /\ [Next]_vars => EmptyInv'
<1> SUFFICES ASSUME TypeOK, LocalsInv, EmptyInv, [Next]_vars
             PROVE  EmptyInv'
  OBVIOUS
<1> USE DEF tables, owned, sockets, regVars, clean, events, Goto
<1>1. ASSUME NEW s \in Session, Login(s)
      PROVE  EmptyInv'
  BY <1>1 DEF Login, TypeOK, LocalsInv, EmptyInv, Before, Registering, Cleaning
<1>2. ASSUME NEW s \in Session, LoginRejected(s)
      PROVE  EmptyInv'
  BY <1>2 DEF LoginRejected, TypeOK, LocalsInv, EmptyInv, Before, Registering, Cleaning
<1>3. ASSUME NEW s \in Session, CheckLimit(s)
      PROVE  EmptyInv'
  BY <1>3 DEF CheckLimit, TypeOK, LocalsInv, EmptyInv, Before, Registering, Cleaning
<1>4. ASSUME NEW s \in Session, InsertSession(s)
      PROVE  EmptyInv'
  BY <1>4 DEF InsertSession, TypeOK, LocalsInv, EmptyInv, Before, Registering, Cleaning
<1>5. ASSUME NEW s \in Session, LoginResp(s)
      PROVE  EmptyInv'
  BY <1>5 DEF LoginResp, TypeOK, LocalsInv, EmptyInv, Before, Registering, Cleaning
<1>6. ASSUME NEW s \in Session, ConnectionEnds(s)
      PROVE  EmptyInv'
  BY <1>6 DEF ConnectionEnds, TypeOK, LocalsInv, EmptyInv, Before, Registering, Cleaning
<1>7. ASSUME NEW s \in Session, ReceiveOther(s)
      PROVE  EmptyInv'
  BY <1>7 DEF ReceiveOther, TypeOK, LocalsInv, EmptyInv, Before, Registering, Cleaning
<1>8. ASSUME NEW s \in Session, NEW n \in Name, ReceiveNewProxy(s, n)
      PROVE  EmptyInv'
  BY <1>8 DEF ReceiveNewProxy, TypeOK, LocalsInv, EmptyInv, Before, Registering, Cleaning,
     Domains
<1>9. ASSUME NEW s \in Session, Reply(s)
      PROVE  EmptyInv'
  BY <1>9 DEF Reply, TypeOK, LocalsInv, EmptyInv, Before, Registering, Cleaning
<1>10. ASSUME NEW s \in Session, LeaveLoop(s)
      PROVE  EmptyInv'
  BY <1>10 DEF LeaveLoop, TypeOK, LocalsInv, EmptyInv, Before, Registering, Cleaning
<1>11. ASSUME NEW s \in Session, UnregisterSession(s)
      PROVE  EmptyInv'
  BY <1>11 DEF UnregisterSession, TypeOK, LocalsInv, EmptyInv, Before, Registering, Cleaning
<1>12. ASSUME NEW s \in Session, LookupDomain(s)
      PROVE  EmptyInv'
  BY <1>12 DEF LookupDomain, TypeOK, LocalsInv, EmptyInv, Before, Registering, Cleaning
<1>13. ASSUME NEW s \in Session, LookupOwner(s)
      PROVE  EmptyInv'
  BY <1>13 DEF LookupOwner, TypeOK, LocalsInv, EmptyInv, Before, Registering, Cleaning
<1>14. ASSUME NEW s \in Session, Bind(s)
      PROVE  EmptyInv'
  BY <1>14 DEF Bind, TypeOK, LocalsInv, EmptyInv, Before, Registering, Cleaning, Domains
<1>15. ASSUME NEW s \in Session, BindFails(s)
      PROVE  EmptyInv'
  BY <1>15 DEF BindFails, TypeOK, LocalsInv, EmptyInv, Before, Registering, Cleaning
<1>16. ASSUME NEW s \in Session, RegisterUdp(s)
      PROVE  EmptyInv'
  BY <1>16 DEF RegisterUdp, TypeOK, LocalsInv, EmptyInv, Before, Registering, Cleaning, Domains
<1>17. ASSUME NEW s \in Session, MapDomains(s)
      PROVE  EmptyInv'
  BY <1>17 DEF MapDomains, TypeOK, LocalsInv, EmptyInv, Before, Registering, Cleaning, Domains
<1>18. ASSUME NEW s \in Session, IndexDomain(s)
      PROVE  EmptyInv'
  BY <1>18 DEF IndexDomain, TypeOK, LocalsInv, EmptyInv, Before, Registering, Cleaning, Domains
<1>19. ASSUME NEW s \in Session, InsertEntry(s)
      PROVE  EmptyInv'
  BY <1>19 DEF InsertEntry, TypeOK, LocalsInv, EmptyInv, Before, Registering, Cleaning
<1>20. ASSUME NEW s \in Session, IndexProxy(s)
      PROVE  EmptyInv'
  BY <1>20 DEF IndexProxy, TypeOK, LocalsInv, EmptyInv, Before, Registering, Cleaning
<1>21. ASSUME NEW s \in Session, CleanNotify(s)
      PROVE  EmptyInv'
  BY <1>21 DEF CleanNotify, TypeOK, LocalsInv, EmptyInv, Before, Registering, Cleaning
<1>22. ASSUME NEW s \in Session, CleanCollect(s)
      PROVE  EmptyInv'
  BY <1>22 DEF CleanCollect, TypeOK, LocalsInv, EmptyInv, Before, Registering, Cleaning
<1>23. ASSUME NEW s \in Session, CleanUnindexProxies(s)
      PROVE  EmptyInv'
  BY <1>23 DEF CleanUnindexProxies, TypeOK, LocalsInv, EmptyInv, Before, Registering, Cleaning
<1>24. ASSUME NEW s \in Session, CleanUnindexDomains(s)
      PROVE  EmptyInv'
  BY <1>24 DEF CleanUnindexDomains, TypeOK, LocalsInv, EmptyInv, Before, Registering, Cleaning
<1>25. ASSUME NEW s \in Session, CleanDrain(s)
      PROVE  EmptyInv'
  BY <1>25 DEF CleanDrain, TypeOK, LocalsInv, EmptyInv, Before, Registering, Cleaning
<1>26. ASSUME NEW s \in Session, CleanRest(s)
      PROVE  EmptyInv'
  BY <1>26 DEF CleanRest, TypeOK, LocalsInv, EmptyInv, Before, Registering, Cleaning
<1>27. ASSUME NEW s \in Session, NEW n \in Name, ReleaseSocket(s, n)
      PROVE  EmptyInv'
  BY <1>27 DEF ReleaseSocket, TypeOK, LocalsInv, EmptyInv, Before, Registering, Cleaning
<1>28. ASSUME NEW s \in Session, NEW n \in Name, ListenerShutdown(s, n)
      PROVE  EmptyInv'
  BY <1>28 DEF ListenerShutdown, TypeOK, LocalsInv, EmptyInv, Before, Registering, Cleaning
<1>29. CASE Shutdown
  BY <1>29 DEF Shutdown, TypeOK, LocalsInv, EmptyInv, Before, Registering, Cleaning
<1>30. CASE UNCHANGED vars
  BY <1>30 DEF vars, TypeOK, LocalsInv, EmptyInv, Before, Registering, Cleaning
<1> QED
  BY <1>1, <1>2, <1>3, <1>4, <1>5, <1>6, <1>7, <1>8, <1>9, <1>10, <1>11, <1>12,
     <1>13, <1>14, <1>15, <1>16, <1>17, <1>18, <1>19, <1>20, <1>21, <1>22, <1>23,
     <1>24, <1>25, <1>26, <1>27, <1>28, <1>29, <1>30
     DEF Next, TaskStep, PeerStep, ListenerStep

\* Only unregister_session and a login of the same run_id change a registry entry.
LEMMA RegistryStep ==
    TypeOK /\ LocalsInv /\ RegistryInv /\ [Next]_vars => RegistryInv'
<1> SUFFICES ASSUME TypeOK, LocalsInv, RegistryInv, [Next]_vars
             PROVE  RegistryInv'
  OBVIOUS
<1> USE DEF tables, owned, sockets, regVars, clean, events, Goto
<1>1. ASSUME NEW s \in Session, Login(s)
      PROVE  RegistryInv'
  BY <1>1, ConstantsAssumption, NoneAssumption DEF Login, TypeOK, LocalsInv, RegistryInv,
     CleansItself, Before, Cleaning, Registering
<1>2. ASSUME NEW s \in Session, LoginRejected(s)
      PROVE  RegistryInv'
  BY <1>2, ConstantsAssumption, NoneAssumption DEF LoginRejected, TypeOK, LocalsInv,
     RegistryInv, CleansItself, Before, Cleaning, Registering
<1>3. ASSUME NEW s \in Session, CheckLimit(s)
      PROVE  RegistryInv'
  BY <1>3, ConstantsAssumption, NoneAssumption DEF CheckLimit, TypeOK, LocalsInv, RegistryInv,
     CleansItself, Before, Cleaning, Registering
<1>4. ASSUME NEW s \in Session, InsertSession(s)
      PROVE  RegistryInv'
  <2> DEFINE old == sessions[RunOf[s]]
  <2>1. /\ pc[s] \in Before
        /\ RunOf[s] \in RunId
        /\ old # s
        /\ s \notin replaced
    BY <1>4, ConstantsAssumption DEF InsertSession, RegistryInv, Before
  <2>2. /\ sessions' = [sessions EXCEPT ![RunOf[s]] = s]
        /\ target' = [target EXCEPT ![s] = old]
        /\ pc'[s] \notin Before \cup {"done"}
        /\ \A t \in Session \ {s} : pc'[t] = pc[t] /\ target'[t] = target[t]
    BY <1>4 DEF InsertSession, TypeOK, Before
  <2>3. ~CleansItself(s)'
    BY <2>1, <2>2 DEF CleansItself, TypeOK
  <2>4. \A t \in Session \ {s} : CleansItself(t)' <=> CleansItself(t)
    BY <2>2 DEF CleansItself
  <2>5. \A r \in RunId, t \in Session : sessions'[r] = t => r = RunOf[t]
    BY <2>2 DEF RegistryInv, TypeOK
  <2>6. \A t \in Session : pc'[t] \in Before => t \notin replaced'
    <3> SUFFICES ASSUME NEW t \in Session, pc'[t] \in Before
                 PROVE  t \notin replaced'
      OBVIOUS
    <3>1. t # s /\ pc[t] \in Before
      BY <2>2
    <3>2. old # t
      BY <2>1, <3>1 DEF RegistryInv
    <3> QED
      BY <1>4, <3>1, <3>2 DEF InsertSession, RegistryInv
  <2>7. \A t \in Session :
            pc'[t] \in Before \cup {"done"} \/ CleansItself(t)' => sessions'[RunOf[t]] # t
    BY <2>1, <2>2, <2>3, <2>4, ConstantsAssumption DEF RegistryInv, TypeOK
  <2>8. \A t \in Session :
            pc'[t] \notin Before \cup {"done"} /\ ~CleansItself(t)' /\ t \notin replaced'
                => sessions'[RunOf[t]] = t
    <3> SUFFICES ASSUME NEW t \in Session, t # s, pc'[t] \notin Before \cup {"done"},
                        ~CleansItself(t)', t \notin replaced'
                 PROVE  sessions'[RunOf[t]] = t
      BY <2>1, <2>2 DEF TypeOK
    <3>1. t \notin replaced /\ old # t
      BY <1>4, NoneAssumption DEF InsertSession
    <3>2. sessions[RunOf[t]] = t
      BY <2>2, <2>4, <3>1 DEF RegistryInv
    <3> QED
      BY <2>2, <3>1, <3>2, ConstantsAssumption DEF TypeOK
  <2> QED
    BY <2>5, <2>6, <2>7, <2>8 DEF RegistryInv
<1>5. ASSUME NEW s \in Session, LoginResp(s)
      PROVE  RegistryInv'
  <2>1. \E l \in {"loop", "unregister"} : pc' = [pc EXCEPT ![s] = l]
    BY <1>5 DEF LoginResp
  <2>2. pc[s] \notin Before \cup Cleaning \cup {"done"}
    BY <1>5 DEF LoginResp, Before, Cleaning
  <2> QED
    BY <1>5, <2>1, <2>2, RegistryFrame DEF LoginResp, Before, Cleaning
<1>6. ASSUME NEW s \in Session, ConnectionEnds(s)
      PROVE  RegistryInv'
  <2>1. \E l \in {"unregister"} : pc' = [pc EXCEPT ![s] = l]
    BY <1>6 DEF ConnectionEnds
  <2>2. pc[s] \notin Before \cup Cleaning \cup {"done"}
    BY <1>6 DEF ConnectionEnds, Before, Cleaning
  <2> QED
    BY <1>6, <2>1, <2>2, RegistryFrame DEF ConnectionEnds, Before, Cleaning
<1>7. ASSUME NEW s \in Session, ReceiveOther(s)
      PROVE  RegistryInv'
  BY <1>7, ConstantsAssumption, NoneAssumption DEF ReceiveOther, TypeOK, LocalsInv,
     RegistryInv, CleansItself, Before, Cleaning, Registering
<1>8. ASSUME NEW s \in Session, NEW n \in Name, ReceiveNewProxy(s, n)
      PROVE  RegistryInv'
  <2>1. \E l \in {"reply", "bind", "domain"} : pc' = [pc EXCEPT ![s] = l]
    BY <1>8 DEF ReceiveNewProxy
  <2>2. pc[s] \notin Before \cup Cleaning \cup {"done"}
    BY <1>8 DEF ReceiveNewProxy, Before, Cleaning
  <2> QED
    BY <1>8, <2>1, <2>2, RegistryFrame DEF ReceiveNewProxy, Before, Cleaning
<1>9. ASSUME NEW s \in Session, Reply(s)
      PROVE  RegistryInv'
  <2>1. \E l \in {"loop", "unregister"} : pc' = [pc EXCEPT ![s] = l]
    BY <1>9 DEF Reply
  <2>2. pc[s] \notin Before \cup Cleaning \cup {"done"}
    BY <1>9 DEF Reply, Before, Cleaning
  <2> QED
    BY <1>9, <2>1, <2>2, RegistryFrame DEF Reply, Before, Cleaning
<1>10. ASSUME NEW s \in Session, LeaveLoop(s)
      PROVE  RegistryInv'
  <2>1. \E l \in {"unregister"} : pc' = [pc EXCEPT ![s] = l]
    BY <1>10 DEF LeaveLoop
  <2>2. pc[s] \notin Before \cup Cleaning \cup {"done"}
    BY <1>10 DEF LeaveLoop, Before, Cleaning
  <2> QED
    BY <1>10, <2>1, <2>2, RegistryFrame DEF LeaveLoop, Before, Cleaning
<1>11. ASSUME NEW s \in Session, UnregisterSession(s)
      PROVE  RegistryInv'
  <2>1. /\ sessions' = [sessions EXCEPT ![RunOf[s]] = IF @ = s THEN None ELSE @]
        /\ replaced' = replaced
        /\ RunOf[s] \in RunId
    BY <1>11, ConstantsAssumption DEF UnregisterSession
  <2>2. /\ pc'[s] = "notify"
        /\ target'[s] = s
        /\ \A t \in Session \ {s} : pc'[t] = pc[t] /\ target'[t] = target[t]
    BY <1>11 DEF UnregisterSession, TypeOK
  <2>3. CleansItself(s)' /\ pc'[s] \notin Before \cup {"done"}
    BY <2>2 DEF CleansItself, Cleaning, Before
  <2>4. \A t \in Session \ {s} : CleansItself(t)' <=> CleansItself(t)
    BY <2>2 DEF CleansItself
  <2>5. sessions'[RunOf[s]] # s
    BY <2>1, NoneAssumption DEF TypeOK
  <2>6. \A t \in Session \ {s}, r \in RunId : sessions'[r] = t <=> sessions[r] = t
    BY <2>1, NoneAssumption DEF TypeOK
  <2>7. \A r \in RunId, t \in Session : sessions'[r] = t => r = RunOf[t]
    BY <2>1, NoneAssumption DEF RegistryInv, TypeOK
  <2>8. \A t \in Session : pc'[t] \in Before => t \notin replaced'
    BY <2>1, <2>2, <2>3 DEF RegistryInv
  <2>9. \A t \in Session :
            pc'[t] \in Before \cup {"done"} \/ CleansItself(t)' => sessions'[RunOf[t]] # t
    BY <2>2, <2>4, <2>5, <2>6, ConstantsAssumption DEF RegistryInv
  <2>10. \A t \in Session :
            pc'[t] \notin Before \cup {"done"} /\ ~CleansItself(t)' /\ t \notin replaced'
                => sessions'[RunOf[t]] = t
    BY <2>1, <2>2, <2>3, <2>4, <2>6, ConstantsAssumption DEF RegistryInv
  <2> QED
    BY <2>7, <2>8, <2>9, <2>10 DEF RegistryInv
<1>12. ASSUME NEW s \in Session, LookupDomain(s)
      PROVE  RegistryInv'
  <2>1. \E l \in {"bind", "domain", "owner"} : pc' = [pc EXCEPT ![s] = l]
    BY <1>12 DEF LookupDomain
  <2>2. pc[s] \notin Before \cup Cleaning \cup {"done"}
    BY <1>12 DEF LookupDomain, Before, Cleaning
  <2> QED
    BY <1>12, <2>1, <2>2, RegistryFrame DEF LookupDomain, Before, Cleaning
<1>13. ASSUME NEW s \in Session, LookupOwner(s)
      PROVE  RegistryInv'
  <2>1. \E l \in {"reply", "bind", "domain"} : pc' = [pc EXCEPT ![s] = l]
    BY <1>13 DEF LookupOwner
  <2>2. pc[s] \notin Before \cup Cleaning \cup {"done"}
    BY <1>13 DEF LookupOwner, Before, Cleaning
  <2> QED
    BY <1>13, <2>1, <2>2, RegistryFrame DEF LookupOwner, Before, Cleaning
<1>14. ASSUME NEW s \in Session, Bind(s)
      PROVE  RegistryInv'
  <2>1. \E l \in {"mapDomains", "udp", "entry"} : pc' = [pc EXCEPT ![s] = l]
    BY <1>14 DEF Bind
  <2>2. pc[s] \notin Before \cup Cleaning \cup {"done"}
    BY <1>14 DEF Bind, Before, Cleaning
  <2> QED
    BY <1>14, <2>1, <2>2, RegistryFrame DEF Bind, Before, Cleaning
<1>15. ASSUME NEW s \in Session, BindFails(s)
      PROVE  RegistryInv'
  <2>1. \E l \in {"reply"} : pc' = [pc EXCEPT ![s] = l]
    BY <1>15 DEF BindFails
  <2>2. pc[s] \notin Before \cup Cleaning \cup {"done"}
    BY <1>15 DEF BindFails, Before, Cleaning
  <2> QED
    BY <1>15, <2>1, <2>2, RegistryFrame DEF BindFails, Before, Cleaning
<1>16. ASSUME NEW s \in Session, RegisterUdp(s)
      PROVE  RegistryInv'
  <2>1. \E l \in {"entry", "mapDomains"} : pc' = [pc EXCEPT ![s] = l]
    BY <1>16 DEF RegisterUdp
  <2>2. pc[s] \notin Before \cup Cleaning \cup {"done"}
    BY <1>16 DEF RegisterUdp, Before, Cleaning
  <2> QED
    BY <1>16, <2>1, <2>2, RegistryFrame DEF RegisterUdp, Before, Cleaning
<1>17. ASSUME NEW s \in Session, MapDomains(s)
      PROVE  RegistryInv'
  <2>1. \E l \in {"indexDomains"} : pc' = [pc EXCEPT ![s] = l]
    BY <1>17 DEF MapDomains
  <2>2. pc[s] \notin Before \cup Cleaning \cup {"done"}
    BY <1>17 DEF MapDomains, Before, Cleaning
  <2> QED
    BY <1>17, <2>1, <2>2, RegistryFrame DEF MapDomains, Before, Cleaning
<1>18. ASSUME NEW s \in Session, IndexDomain(s)
      PROVE  RegistryInv'
  <2>1. \E l \in {"entry", "indexDomains"} : pc' = [pc EXCEPT ![s] = l]
    BY <1>18 DEF IndexDomain
  <2>2. pc[s] \notin Before \cup Cleaning \cup {"done"}
    BY <1>18 DEF IndexDomain, Before, Cleaning
  <2> QED
    BY <1>18, <2>1, <2>2, RegistryFrame DEF IndexDomain, Before, Cleaning
<1>19. ASSUME NEW s \in Session, InsertEntry(s)
      PROVE  RegistryInv'
  <2>1. \E l \in {"index"} : pc' = [pc EXCEPT ![s] = l]
    BY <1>19 DEF InsertEntry
  <2>2. pc[s] \notin Before \cup Cleaning \cup {"done"}
    BY <1>19 DEF InsertEntry, Before, Cleaning
  <2> QED
    BY <1>19, <2>1, <2>2, RegistryFrame DEF InsertEntry, Before, Cleaning
<1>20. ASSUME NEW s \in Session, IndexProxy(s)
      PROVE  RegistryInv'
  <2>1. \E l \in {"reply"} : pc' = [pc EXCEPT ![s] = l]
    BY <1>20 DEF IndexProxy
  <2>2. pc[s] \notin Before \cup Cleaning \cup {"done"}
    BY <1>20 DEF IndexProxy, Before, Cleaning
  <2> QED
    BY <1>20, <2>1, <2>2, RegistryFrame DEF IndexProxy, Before, Cleaning
<1>21. ASSUME NEW s \in Session, CleanNotify(s)
      PROVE  RegistryInv'
  BY <1>21, ConstantsAssumption, NoneAssumption DEF CleanNotify, TypeOK, LocalsInv,
     RegistryInv, CleansItself, Before, Cleaning, Registering
<1>22. ASSUME NEW s \in Session, CleanCollect(s)
      PROVE  RegistryInv'
  BY <1>22, ConstantsAssumption, NoneAssumption DEF CleanCollect, TypeOK, LocalsInv,
     RegistryInv, CleansItself, Before, Cleaning, Registering
<1>23. ASSUME NEW s \in Session, CleanUnindexProxies(s)
      PROVE  RegistryInv'
  BY <1>23, ConstantsAssumption, NoneAssumption DEF CleanUnindexProxies, TypeOK, LocalsInv,
     RegistryInv, CleansItself, Before, Cleaning, Registering
<1>24. ASSUME NEW s \in Session, CleanUnindexDomains(s)
      PROVE  RegistryInv'
  BY <1>24, ConstantsAssumption, NoneAssumption DEF CleanUnindexDomains, TypeOK, LocalsInv,
     RegistryInv, CleansItself, Before, Cleaning, Registering
<1>25. ASSUME NEW s \in Session, CleanDrain(s)
      PROVE  RegistryInv'
  BY <1>25, ConstantsAssumption, NoneAssumption DEF CleanDrain, TypeOK, LocalsInv, RegistryInv,
     CleansItself, Before, Cleaning, Registering
<1>26. ASSUME NEW s \in Session, CleanRest(s)
      PROVE  RegistryInv'
  BY <1>26, ConstantsAssumption, NoneAssumption DEF CleanRest, TypeOK, LocalsInv, RegistryInv,
     CleansItself, Before, Cleaning, Registering
<1>27. ASSUME NEW s \in Session, NEW n \in Name, ReleaseSocket(s, n)
      PROVE  RegistryInv'
  BY <1>27, ConstantsAssumption, NoneAssumption DEF ReleaseSocket, TypeOK, LocalsInv,
     RegistryInv, CleansItself, Before, Cleaning, Registering
<1>28. ASSUME NEW s \in Session, NEW n \in Name, ListenerShutdown(s, n)
      PROVE  RegistryInv'
  BY <1>28, ConstantsAssumption, NoneAssumption DEF ListenerShutdown, TypeOK, LocalsInv,
     RegistryInv, CleansItself, Before, Cleaning, Registering
<1>29. CASE Shutdown
  BY <1>29, ConstantsAssumption, NoneAssumption DEF Shutdown, TypeOK, LocalsInv, RegistryInv,
     CleansItself, Before, Cleaning, Registering
<1>30. CASE UNCHANGED vars
  BY <1>30, ConstantsAssumption, NoneAssumption DEF vars, TypeOK, LocalsInv, RegistryInv,
     CleansItself, Before, Cleaning, Registering
<1> QED
  BY <1>1, <1>2, <1>3, <1>4, <1>5, <1>6, <1>7, <1>8, <1>9, <1>10, <1>11, <1>12,
     <1>13, <1>14, <1>15, <1>16, <1>17, <1>18, <1>19, <1>20, <1>21, <1>22, <1>23,
     <1>24, <1>25, <1>26, <1>27, <1>28, <1>29, <1>30
     DEF Next, TaskStep, PeerStep, ListenerStep

\* cleanup aborts exactly the accept tasks whose entries it drains.
LEMMA ListenerStepInv ==
    TypeOK /\ LocalsInv /\ ListenerOwned /\ [Next]_vars => ListenerOwned'
<1> SUFFICES ASSUME TypeOK, LocalsInv, ListenerOwned, [Next]_vars
             PROVE  ListenerOwned'
  OBVIOUS
<1> USE DEF tables, owned, sockets, regVars, clean, events, Goto
<1>1. ASSUME NEW s \in Session, Login(s)
      PROVE  ListenerOwned'
  BY <1>1 DEF Login, TypeOK, LocalsInv, ListenerOwned, Registering, Cleaning
<1>2. ASSUME NEW s \in Session, LoginRejected(s)
      PROVE  ListenerOwned'
  BY <1>2 DEF LoginRejected, TypeOK, LocalsInv, ListenerOwned, Registering, Cleaning
<1>3. ASSUME NEW s \in Session, CheckLimit(s)
      PROVE  ListenerOwned'
  BY <1>3 DEF CheckLimit, TypeOK, LocalsInv, ListenerOwned, Registering, Cleaning
<1>4. ASSUME NEW s \in Session, InsertSession(s)
      PROVE  ListenerOwned'
  BY <1>4 DEF InsertSession, TypeOK, LocalsInv, ListenerOwned, Registering, Cleaning
<1>5. ASSUME NEW s \in Session, LoginResp(s)
      PROVE  ListenerOwned'
  BY <1>5 DEF LoginResp, TypeOK, LocalsInv, ListenerOwned, Registering, Cleaning
<1>6. ASSUME NEW s \in Session, ConnectionEnds(s)
      PROVE  ListenerOwned'
  BY <1>6 DEF ConnectionEnds, TypeOK, LocalsInv, ListenerOwned, Registering, Cleaning
<1>7. ASSUME NEW s \in Session, ReceiveOther(s)
      PROVE  ListenerOwned'
  BY <1>7 DEF ReceiveOther, TypeOK, LocalsInv, ListenerOwned, Registering, Cleaning
<1>8. ASSUME NEW s \in Session, NEW n \in Name, ReceiveNewProxy(s, n)
      PROVE  ListenerOwned'
  BY <1>8 DEF ReceiveNewProxy, TypeOK, LocalsInv, ListenerOwned, Registering, Cleaning, Domains
<1>9. ASSUME NEW s \in Session, Reply(s)
      PROVE  ListenerOwned'
  BY <1>9 DEF Reply, TypeOK, LocalsInv, ListenerOwned, Registering, Cleaning
<1>10. ASSUME NEW s \in Session, LeaveLoop(s)
      PROVE  ListenerOwned'
  BY <1>10 DEF LeaveLoop, TypeOK, LocalsInv, ListenerOwned, Registering, Cleaning
<1>11. ASSUME NEW s \in Session, UnregisterSession(s)
      PROVE  ListenerOwned'
  BY <1>11 DEF UnregisterSession, TypeOK, LocalsInv, ListenerOwned, Registering, Cleaning
<1>12. ASSUME NEW s \in Session, LookupDomain(s)
      PROVE  ListenerOwned'
  BY <1>12 DEF LookupDomain, TypeOK, LocalsInv, ListenerOwned, Registering, Cleaning
<1>13. ASSUME NEW s \in Session, LookupOwner(s)
      PROVE  ListenerOwned'
  BY <1>13 DEF LookupOwner, TypeOK, LocalsInv, ListenerOwned, Registering, Cleaning
<1>14. ASSUME NEW s \in Session, Bind(s)
      PROVE  ListenerOwned'
  BY <1>14 DEF Bind, TypeOK, LocalsInv, ListenerOwned, Registering, Cleaning, Domains
<1>15. ASSUME NEW s \in Session, BindFails(s)
      PROVE  ListenerOwned'
  BY <1>15 DEF BindFails, TypeOK, LocalsInv, ListenerOwned, Registering, Cleaning
<1>16. ASSUME NEW s \in Session, RegisterUdp(s)
      PROVE  ListenerOwned'
  BY <1>16 DEF RegisterUdp, TypeOK, LocalsInv, ListenerOwned, Registering, Cleaning, Domains
<1>17. ASSUME NEW s \in Session, MapDomains(s)
      PROVE  ListenerOwned'
  BY <1>17 DEF MapDomains, TypeOK, LocalsInv, ListenerOwned, Registering, Cleaning, Domains
<1>18. ASSUME NEW s \in Session, IndexDomain(s)
      PROVE  ListenerOwned'
  BY <1>18 DEF IndexDomain, TypeOK, LocalsInv, ListenerOwned, Registering, Cleaning, Domains
<1>19. ASSUME NEW s \in Session, InsertEntry(s)
      PROVE  ListenerOwned'
  BY <1>19 DEF InsertEntry, TypeOK, LocalsInv, ListenerOwned, Registering, Cleaning
<1>20. ASSUME NEW s \in Session, IndexProxy(s)
      PROVE  ListenerOwned'
  BY <1>20 DEF IndexProxy, TypeOK, LocalsInv, ListenerOwned, Registering, Cleaning
<1>21. ASSUME NEW s \in Session, CleanNotify(s)
      PROVE  ListenerOwned'
  BY <1>21 DEF CleanNotify, TypeOK, LocalsInv, ListenerOwned, Registering, Cleaning
<1>22. ASSUME NEW s \in Session, CleanCollect(s)
      PROVE  ListenerOwned'
  BY <1>22 DEF CleanCollect, TypeOK, LocalsInv, ListenerOwned, Registering, Cleaning
<1>23. ASSUME NEW s \in Session, CleanUnindexProxies(s)
      PROVE  ListenerOwned'
  BY <1>23 DEF CleanUnindexProxies, TypeOK, LocalsInv, ListenerOwned, Registering, Cleaning
<1>24. ASSUME NEW s \in Session, CleanUnindexDomains(s)
      PROVE  ListenerOwned'
  BY <1>24 DEF CleanUnindexDomains, TypeOK, LocalsInv, ListenerOwned, Registering, Cleaning
<1>25. ASSUME NEW s \in Session, CleanDrain(s)
      PROVE  ListenerOwned'
  BY <1>25 DEF CleanDrain, TypeOK, LocalsInv, ListenerOwned, Registering, Cleaning
<1>26. ASSUME NEW s \in Session, CleanRest(s)
      PROVE  ListenerOwned'
  BY <1>26 DEF CleanRest, TypeOK, LocalsInv, ListenerOwned, Registering, Cleaning
<1>27. ASSUME NEW s \in Session, NEW n \in Name, ReleaseSocket(s, n)
      PROVE  ListenerOwned'
  BY <1>27 DEF ReleaseSocket, TypeOK, LocalsInv, ListenerOwned, Registering, Cleaning
<1>28. ASSUME NEW s \in Session, NEW n \in Name, ListenerShutdown(s, n)
      PROVE  ListenerOwned'
  BY <1>28 DEF ListenerShutdown, TypeOK, LocalsInv, ListenerOwned, Registering, Cleaning
<1>29. CASE Shutdown
  BY <1>29 DEF Shutdown, TypeOK, LocalsInv, ListenerOwned, Registering, Cleaning
<1>30. CASE UNCHANGED vars
  BY <1>30 DEF vars, TypeOK, LocalsInv, ListenerOwned, Registering, Cleaning
<1> QED
  BY <1>1, <1>2, <1>3, <1>4, <1>5, <1>6, <1>7, <1>8, <1>9, <1>10, <1>11, <1>12,
     <1>13, <1>14, <1>15, <1>16, <1>17, <1>18, <1>19, <1>20, <1>21, <1>22, <1>23,
     <1>24, <1>25, <1>26, <1>27, <1>28, <1>29, <1>30
     DEF Next, TaskStep, PeerStep, ListenerStep

\* The inductive invariant holds initially.
LEMMA InitInd == Init => IndInv
<1> SUFFICES ASSUME Init PROVE IndInv
  OBVIOUS
<1>1. TypeOK
  BY ConstantsAssumption DEF Init, TypeOK, Label
<1>2. LocalsInv
  BY DEF Init, LocalsInv, Registering, Cleaning
<1>3. EmptyInv
  BY DEF Init, EmptyInv
<1>4. RegistryInv
  BY ConstantsAssumption, NoneAssumption DEF Init, RegistryInv, Before, CleansItself, Cleaning
<1>5. ListenerOwned
  BY DEF Init, ListenerOwned
<1> QED
  BY <1>1, <1>2, <1>3, <1>4, <1>5 DEF IndInv

\* Every reachable state satisfies the inductive invariant.
THEOREM Inductive == Spec => []IndInv
<1>1. IndInv /\ [Next]_vars => IndInv'
  BY TypeStep, LocalsStep, EmptyStep, RegistryStep, ListenerStepInv DEF IndInv
<1> QED
  BY InitInd, <1>1, PTL DEF Spec

\* The tables, sockets and task locals of the server keep their types.
THEOREM TypeCorrect == Spec => []TypeOK
<1>1. IndInv => TypeOK
  BY DEF IndInv
<1> QED
  BY Inductive, <1>1, PTL

\* The teardown of an old connection never unregisters its successor.
THEOREM LiveSessionIsRegistered == Spec => []LiveSessionRegistered
<1>1. IndInv => LiveSessionRegistered
  BY DEF IndInv, RegistryInv, LiveSessionRegistered, Established, Registering, Before,
         CleansItself, Cleaning
<1> QED
  BY Inductive, <1>1, PTL

\* No accept task is ever without an owner that will abort it.
THEOREM ListenersAreOwned == Spec => []ListenerOwned
<1>1. IndInv => ListenerOwned
  BY DEF IndInv
<1> QED
  BY Inductive, <1>1, PTL

\* A session whose control task has returned leaves nothing behind: no registry
\* entry, no proxy entry, no domain and no running accept task.
THEOREM NoGhostSession == Spec => []NoGhost
<1>1. IndInv => NoGhost
  <2> SUFFICES ASSUME IndInv, NEW s \in Session, pc[s] = "done"
               PROVE  /\ \A r \in RunId : sessions[r] # s
                      /\ proxies[s] = {}
                      /\ proxyDomains[s] = {}
                      /\ \A n \in Name : <<s, n>> \in listeners => <<s, n>> \in stopped
    BY DEF NoGhost
  <2>1. \A r \in RunId : sessions[r] # s
    BY DEF IndInv, RegistryInv
  <2>2. proxies[s] = {} /\ proxyDomains[s] = {}
    BY DEF IndInv, EmptyInv
  <2>3. \A n \in Name : <<s, n>> \in listeners => <<s, n>> \in stopped
    BY <2>2 DEF IndInv, ListenerOwned
  <2> QED
    BY <2>1, <2>2, <2>3
<1> QED
  BY Inductive, <1>1, PTL

-----------------------------------------------------------------------------
(***************************************************************************)
(* Isolation of routing, for every instance.  A client on its first    *)
(* connection whose names and domains no other client uses keeps the       *)
(* routing of its proxies: the index entries are written by name and       *)
(* domain and cleaned up by name and domain, so the argument is about      *)
(* whose names and domains each task can hold.                             *)
(***************************************************************************)

\* Every domain the client r may ask for.
ConfigDomains(r) == UNION {DomainsOf[r][m] : m \in Offers[r]}

\* A task works only on names and domains of its own client's configuration,
\* and cleans up only sessions of its own client.
ConfigInv ==
    \A s \in Session :
        /\ proxies[s] \cup names[s] \subseteq Offers[RunOf[s]]
        /\ proxyDomains[s] \cup doms[s] \subseteq ConfigDomains(RunOf[s])
        /\ pc[s] \in Registering =>
            reg[s] \in Offers[RunOf[s]] /\ todo[s] \subseteq Domains(s, reg[s])
        /\ pc[s] \in Cleaning => RunOf[target[s]] = RunOf[s]

\* A session is only ever replaced by another connection of its client.
ReplacedInv ==
    \A s \in replaced : \E t \in Session \ {s} : RunOf[t] = RunOf[s] /\ pc[t] # "idle"

\* A session has no proxy before its login has been answered.
FreshInv ==
    \A s \in Session :
        pc[s] = "resp" \/ (pc[s] \in Cleaning /\ target[s] # s) => proxies[s] = {}

\* The domain index leads from the domains ds to the proxy n of s.
Leads(s, n, ds) == \A d \in ds : domainIndex[d] = <<RunOf[s], n>>

\* What s has looked up so far and found free, or what it has checked.
CheckedDomains(s) ==
    IF pc[s] \in {"domain", "owner"} THEN Domains(s, reg[s]) \ todo[s] ELSE Domains(s, reg[s])

\* The registered proxy n of s is routed but for the last step of its own
\* registration, and no later registration of s has got past a domain of n.
Kept(s, n) ==
    /\ proxyIndex[n] = RunOf[s] \/ (pc[s] = "index" /\ reg[s] = n)
    /\ Leads(s, n, Domains(s, n))
    /\ KindOf[n] = "udp" => udp[n] = s
    /\ pc[s] \in Registering /\ reg[s] = n => pc[s] = "index"
    /\ pc[s] \in Registering /\ reg[s] # n =>
        \/ CheckedDomains(s) \cap Domains(s, n) = {}
        \/ pc[s] = "owner" /\ owner[s] = RunOf[s]

\* What the registration of n has done before it inserts the entry.
Making(s, n) ==
    /\ pc[s] = "indexDomains" => Leads(s, n, Domains(s, n) \ todo[s])
    /\ pc[s] = "entry" => Leads(s, n, Domains(s, n))
    /\ pc[s] \in {"mapDomains", "indexDomains", "entry"} /\ KindOf[n] = "udp" => udp[n] = s

\* The two parts for one session and one proxy.
RouteOf(s, n) ==
    /\ n \in proxies[s] => Kept(s, n)
    /\ pc[s] \in Registering /\ reg[s] = n => Making(s, n)

\* On the first connection of a client, for a proxy no other client shares.
RouteInv ==
    \A s \in Session, n \in Name :
        pc[s] \in Established /\ Unshared(s, n) => RouteOf(s, n)

\* A name and a domain that one client's configuration does not share.
LEMMA OwnConfig ==
    ASSUME TypeOK, LocalsInv, ConfigInv, NEW s \in Session, NEW n \in Name, Unshared(s, n),
           NEW c \in Session, RunOf[c] # RunOf[s]
    PROVE  /\ n \notin Offers[RunOf[c]]
           /\ n \notin names[c]
           /\ doms[c] \cap Domains(s, n) = {}
           /\ pc[c] \in Registering =>
                reg[c] # n /\ todo[c] \cap Domains(s, n) = {}
           /\ pc[c] \in Cleaning => target[c] # s
<1>1. RunOf[c] \in RunId \ {RunOf[s]}
  BY ConstantsAssumption
<1>2. \A m \in Offers[RunOf[c]] : m # n /\ DomainsOf[RunOf[c]][m] \cap Domains(s, n) = {}
  BY <1>1 DEF Unshared
<1>3. n \notin Offers[RunOf[c]]
  BY <1>2
<1>4. ConfigDomains(RunOf[c]) \cap Domains(s, n) = {}
  BY <1>2 DEF ConfigDomains
<1>5. names[c] \subseteq Offers[RunOf[c]] /\ doms[c] \subseteq ConfigDomains(RunOf[c])
  BY DEF ConfigInv
<1>6. ASSUME pc[c] \in Registering
      PROVE  reg[c] # n /\ todo[c] \cap Domains(s, n) = {}
  <2>1. reg[c] \in Offers[RunOf[c]] /\ todo[c] \subseteq DomainsOf[RunOf[c]][reg[c]]
    BY <1>6 DEF ConfigInv, Domains
  <2> QED
    BY <1>2, <2>1
<1>7. pc[c] \in Cleaning => target[c] # s
  BY DEF ConfigInv
<1> QED
  BY <1>3, <1>4, <1>5, <1>6, <1>7

\* Every step works inside the client's own configuration.
LEMMA ConfigStep == TypeOK /\ LocalsInv /\ RegistryInv /\ ConfigInv /\ [Next]_vars => ConfigInv'
<1> SUFFICES ASSUME TypeOK, LocalsInv, RegistryInv, ConfigInv, [Next]_vars PROVE ConfigInv'
  OBVIOUS
<1> USE ConstantsAssumption, NoneAssumption DEF TypeOK, LocalsInv, RegistryInv, ConfigInv,
   Registering, Cleaning, tables, owned, sockets, regVars, clean, events, Goto
<1>1. CASE UNCHANGED vars
  BY <1>1 DEF vars
<1>2. ASSUME NEW s \in Session, CheckLimit(s) PROVE ConfigInv'
  BY <1>2 DEF CheckLimit
<1>3. ASSUME NEW s \in Session, InsertSession(s) PROVE ConfigInv'
  <2>1. sessions[RunOf[s]] # None => sessions[RunOf[s]] \in Session /\ RunOf[sessions[RunOf[s]]]
     = RunOf[s]
    OBVIOUS
  <2> QED
    BY <1>3, <2>1 DEF InsertSession
<1>4. ASSUME NEW s \in Session, LoginResp(s) PROVE ConfigInv'
  BY <1>4 DEF LoginResp
<1>5. ASSUME NEW s \in Session, Reply(s) PROVE ConfigInv'
  BY <1>5 DEF Reply
<1>6. ASSUME NEW s \in Session, UnregisterSession(s) PROVE ConfigInv'
  BY <1>6 DEF UnregisterSession
<1>7. ASSUME NEW s \in Session, LookupDomain(s) PROVE ConfigInv'
  <2>1. PICK d \in todo[s] :
            /\ todo' = [todo EXCEPT ![s] = @ \ {d}]
            /\ IF domainIndex[d] = None
               THEN /\ Goto(s, IF todo[s] = {d} THEN "bind" ELSE "domain")
                    /\ UNCHANGED owner
               ELSE /\ owner' = [owner EXCEPT ![s] = domainIndex[d][1]]
                    /\ Goto(s, "owner")
    BY <1>7 DEF LookupDomain
  <2>2. pc'[s] \in Registering /\ todo'[s] \subseteq todo[s] /\ \A t \in Session \ {s} : pc'[t]
     = pc[t] /\ todo'[t] = todo[t]
    BY <2>1
  <2> QED
    BY <1>7, <2>2 DEF LookupDomain
<1>8. ASSUME NEW s \in Session, LookupOwner(s) PROVE ConfigInv'
  <2>1. pc'[s] \in {"reply", "bind", "domain"} /\ \A t \in Session \ {s} : pc'[t] = pc[t]
    BY <1>8 DEF LookupOwner
  <2> QED
    BY <1>8, <2>1 DEF LookupOwner
<1>9. ASSUME NEW s \in Session, Bind(s) PROVE ConfigInv'
  BY <1>9 DEF Bind
<1>10. ASSUME NEW s \in Session, BindFails(s) PROVE ConfigInv'
  BY <1>10 DEF BindFails
<1>11. ASSUME NEW s \in Session, RegisterUdp(s) PROVE ConfigInv'
  BY <1>11 DEF RegisterUdp
<1>12. ASSUME NEW s \in Session, MapDomains(s) PROVE ConfigInv'
  <2>1. reg[s] \in Offers[RunOf[s]]
    BY <1>12 DEF MapDomains
  <2>2. Domains(s, reg[s]) \subseteq ConfigDomains(RunOf[s])
    BY <2>1 DEF ConfigDomains, Domains
  <2>3. pc' = [pc EXCEPT ![s] = "indexDomains"] /\ todo' = [todo EXCEPT ![s] = Domains(s,
     reg[s])]
    BY <1>12 DEF MapDomains
  <2>4. \A t \in Session : proxyDomains'[t] \subseteq ConfigDomains(RunOf[t])
    BY <1>12, <2>2 DEF MapDomains
  <2> QED
    BY <1>12, <2>1, <2>3, <2>4 DEF MapDomains
<1>13. ASSUME NEW s \in Session, IndexDomain(s) PROVE ConfigInv'
  <2>1. PICK d \in todo[s] :
            /\ domainIndex' = [domainIndex EXCEPT ![d] = <<RunOf[s], reg[s]>>]
            /\ todo' = [todo EXCEPT ![s] = @ \ {d}]
            /\ Goto(s, IF todo[s] = {d} THEN "entry" ELSE "indexDomains")
    BY <1>13 DEF IndexDomain
  <2>2. pc'[s] \in Registering /\ todo'[s] \subseteq todo[s] /\ \A t \in Session \ {s} : pc'[t]
     = pc[t] /\ todo'[t] = todo[t]
    BY <2>1
  <2> QED
    BY <1>13, <2>2 DEF IndexDomain
<1>14. ASSUME NEW s \in Session, InsertEntry(s) PROVE ConfigInv'
  BY <1>14 DEF InsertEntry
<1>15. ASSUME NEW s \in Session, IndexProxy(s) PROVE ConfigInv'
  BY <1>15 DEF IndexProxy
<1>16. ASSUME NEW s \in Session, CleanNotify(s) PROVE ConfigInv'
  BY <1>16 DEF CleanNotify
<1>17. ASSUME NEW s \in Session, CleanCollect(s) PROVE ConfigInv'
  BY <1>17 DEF CleanCollect
<1>18. ASSUME NEW s \in Session, CleanUnindexProxies(s) PROVE ConfigInv'
  BY <1>18 DEF CleanUnindexProxies
<1>19. ASSUME NEW s \in Session, CleanUnindexDomains(s) PROVE ConfigInv'
  BY <1>19 DEF CleanUnindexDomains
<1>20. ASSUME NEW s \in Session, CleanDrain(s) PROVE ConfigInv'
  BY <1>20 DEF CleanDrain
<1>21. ASSUME NEW s \in Session, CleanRest(s) PROVE ConfigInv'
  BY <1>21 DEF CleanRest
<1>22. ASSUME NEW s \in Session, Login(s) PROVE ConfigInv'
  BY <1>22 DEF Login
<1>23. ASSUME NEW s \in Session, LoginRejected(s) PROVE ConfigInv'
  BY <1>23 DEF LoginRejected
<1>24. ASSUME NEW s \in Session, ConnectionEnds(s) PROVE ConfigInv'
  BY <1>24 DEF ConnectionEnds
<1>25. ASSUME NEW s \in Session, ReceiveOther(s) PROVE ConfigInv'
  BY <1>25 DEF ReceiveOther
<1>26. ASSUME NEW s \in Session, NEW n \in Name, ReceiveNewProxy(s, n) PROVE ConfigInv'
  <2>1. pc'[s] \in {"reply", "bind", "domain"} /\ \A t \in Session \ {s} : pc'[t] = pc[t]
    BY <1>26 DEF ReceiveNewProxy
  <2>2. pc'[s] \in Registering => reg'[s] = n /\ todo'[s] = Domains(s, n)
    BY <1>26, <2>1 DEF ReceiveNewProxy
  <2>3. \A t \in Session \ {s} : reg'[t] = reg[t] /\ todo'[t] = todo[t]
    BY <1>26 DEF ReceiveNewProxy
  <2> QED
    BY <1>26, <2>1, <2>2, <2>3 DEF ReceiveNewProxy
<1>27. ASSUME NEW s \in Session, LeaveLoop(s) PROVE ConfigInv'
  BY <1>27 DEF LeaveLoop
<1>28. ASSUME NEW s \in Session, NEW n \in Name, ReleaseSocket(s, n) PROVE ConfigInv'
  BY <1>28 DEF ReleaseSocket
<1>29. ASSUME NEW s \in Session, NEW n \in Name, ListenerShutdown(s, n) PROVE ConfigInv'
  BY <1>29 DEF ListenerShutdown
<1>30. CASE Shutdown
  BY <1>30 DEF Shutdown
<1> QED
  BY <1>1, <1>2, <1>3, <1>4, <1>5, <1>6, <1>7, <1>8, <1>9, <1>10, <1>11, <1>12, <1>13, <1>14,
     <1>15, <1>16, <1>17, <1>18, <1>19, <1>20, <1>21, <1>22, <1>23, <1>24, <1>25, <1>26, <1>27,
     <1>28, <1>29, <1>30 DEF Next, TaskStep, PeerStep, ListenerStep

\* Only the login of another connection of the same client replaces a session.
LEMMA ReplacedStep == TypeOK /\ LocalsInv /\ RegistryInv /\ ReplacedInv /\ [Next]_vars =>
   ReplacedInv'
<1> SUFFICES ASSUME TypeOK, LocalsInv, RegistryInv, ReplacedInv, [Next]_vars PROVE ReplacedInv'
  OBVIOUS
<1> USE ConstantsAssumption, NoneAssumption DEF TypeOK, LocalsInv, RegistryInv, ReplacedInv,
   Before, CleansItself, Cleaning, tables, owned, sockets, regVars, clean, events, Goto
<1>1. CASE UNCHANGED vars
  BY <1>1 DEF vars
<1>2. ASSUME NEW s \in Session, CheckLimit(s) PROVE ReplacedInv'
  BY <1>2 DEF CheckLimit
<1>3. ASSUME NEW s \in Session, InsertSession(s) PROVE ReplacedInv'
  BY <1>3 DEF InsertSession
<1>4. ASSUME NEW s \in Session, LoginResp(s) PROVE ReplacedInv'
  BY <1>4 DEF LoginResp
<1>5. ASSUME NEW s \in Session, Reply(s) PROVE ReplacedInv'
  BY <1>5 DEF Reply
<1>6. ASSUME NEW s \in Session, UnregisterSession(s) PROVE ReplacedInv'
  BY <1>6 DEF UnregisterSession
<1>7. ASSUME NEW s \in Session, LookupDomain(s) PROVE ReplacedInv'
  BY <1>7 DEF LookupDomain
<1>8. ASSUME NEW s \in Session, LookupOwner(s) PROVE ReplacedInv'
  BY <1>8 DEF LookupOwner
<1>9. ASSUME NEW s \in Session, Bind(s) PROVE ReplacedInv'
  BY <1>9 DEF Bind
<1>10. ASSUME NEW s \in Session, BindFails(s) PROVE ReplacedInv'
  BY <1>10 DEF BindFails
<1>11. ASSUME NEW s \in Session, RegisterUdp(s) PROVE ReplacedInv'
  BY <1>11 DEF RegisterUdp
<1>12. ASSUME NEW s \in Session, MapDomains(s) PROVE ReplacedInv'
  BY <1>12 DEF MapDomains
<1>13. ASSUME NEW s \in Session, IndexDomain(s) PROVE ReplacedInv'
  BY <1>13 DEF IndexDomain
<1>14. ASSUME NEW s \in Session, InsertEntry(s) PROVE ReplacedInv'
  BY <1>14 DEF InsertEntry
<1>15. ASSUME NEW s \in Session, IndexProxy(s) PROVE ReplacedInv'
  BY <1>15 DEF IndexProxy
<1>16. ASSUME NEW s \in Session, CleanNotify(s) PROVE ReplacedInv'
  BY <1>16 DEF CleanNotify
<1>17. ASSUME NEW s \in Session, CleanCollect(s) PROVE ReplacedInv'
  BY <1>17 DEF CleanCollect
<1>18. ASSUME NEW s \in Session, CleanUnindexProxies(s) PROVE ReplacedInv'
  BY <1>18 DEF CleanUnindexProxies
<1>19. ASSUME NEW s \in Session, CleanUnindexDomains(s) PROVE ReplacedInv'
  BY <1>19 DEF CleanUnindexDomains
<1>20. ASSUME NEW s \in Session, CleanDrain(s) PROVE ReplacedInv'
  BY <1>20 DEF CleanDrain
<1>21. ASSUME NEW s \in Session, CleanRest(s) PROVE ReplacedInv'
  BY <1>21 DEF CleanRest
<1>22. ASSUME NEW s \in Session, Login(s) PROVE ReplacedInv'
  BY <1>22 DEF Login
<1>23. ASSUME NEW s \in Session, LoginRejected(s) PROVE ReplacedInv'
  BY <1>23 DEF LoginRejected
<1>24. ASSUME NEW s \in Session, ConnectionEnds(s) PROVE ReplacedInv'
  BY <1>24 DEF ConnectionEnds
<1>25. ASSUME NEW s \in Session, ReceiveOther(s) PROVE ReplacedInv'
  BY <1>25 DEF ReceiveOther
<1>26. ASSUME NEW s \in Session, NEW n \in Name, ReceiveNewProxy(s, n) PROVE ReplacedInv'
  BY <1>26 DEF ReceiveNewProxy
<1>27. ASSUME NEW s \in Session, LeaveLoop(s) PROVE ReplacedInv'
  BY <1>27 DEF LeaveLoop
<1>28. ASSUME NEW s \in Session, NEW n \in Name, ReleaseSocket(s, n) PROVE ReplacedInv'
  BY <1>28 DEF ReleaseSocket
<1>29. ASSUME NEW s \in Session, NEW n \in Name, ListenerShutdown(s, n) PROVE ReplacedInv'
  BY <1>29 DEF ListenerShutdown
<1>30. CASE Shutdown
  BY <1>30 DEF Shutdown
<1> QED
  BY <1>1, <1>2, <1>3, <1>4, <1>5, <1>6, <1>7, <1>8, <1>9, <1>10, <1>11, <1>12, <1>13, <1>14,
     <1>15, <1>16, <1>17, <1>18, <1>19, <1>20, <1>21, <1>22, <1>23, <1>24, <1>25, <1>26, <1>27,
     <1>28, <1>29, <1>30 DEF Next, TaskStep, PeerStep, ListenerStep

\* A session has no proxy until it is told that it is logged in.
LEMMA FreshStep == TypeOK /\ LocalsInv /\ EmptyInv /\ RegistryInv /\ FreshInv /\ [Next]_vars =>
   FreshInv'
<1> SUFFICES ASSUME TypeOK, LocalsInv, EmptyInv, RegistryInv, FreshInv, [Next]_vars PROVE
   FreshInv'
  OBVIOUS
<1> USE ConstantsAssumption, NoneAssumption DEF TypeOK, LocalsInv, EmptyInv, RegistryInv,
   FreshInv, Before, Cleaning, Registering, tables, owned, sockets, regVars, clean, events, Goto
<1>1. CASE UNCHANGED vars
  BY <1>1 DEF vars
<1>2. ASSUME NEW s \in Session, CheckLimit(s) PROVE FreshInv'
  BY <1>2 DEF CheckLimit
<1>3. ASSUME NEW s \in Session, InsertSession(s) PROVE FreshInv'
  BY <1>3 DEF InsertSession
<1>4. ASSUME NEW s \in Session, LoginResp(s) PROVE FreshInv'
  <2>1. pc'[s] \notin {"resp"} \cup Cleaning /\ \A t \in Session \ {s} : pc'[t] = pc[t]
    BY <1>4 DEF LoginResp
  <2>2. UNCHANGED <<proxies, target>>
    BY <1>4 DEF LoginResp
  <2> QED
    BY <2>1, <2>2
<1>5. ASSUME NEW s \in Session, Reply(s) PROVE FreshInv'
  <2>1. pc'[s] \notin {"resp"} \cup Cleaning /\ \A t \in Session \ {s} : pc'[t] = pc[t]
    BY <1>5 DEF Reply
  <2>2. UNCHANGED <<proxies, target>>
    BY <1>5 DEF Reply
  <2> QED
    BY <2>1, <2>2
<1>6. ASSUME NEW s \in Session, UnregisterSession(s) PROVE FreshInv'
  BY <1>6 DEF UnregisterSession
<1>7. ASSUME NEW s \in Session, LookupDomain(s) PROVE FreshInv'
  <2>1. pc'[s] \notin {"resp"} \cup Cleaning /\ \A t \in Session \ {s} : pc'[t] = pc[t]
    BY <1>7 DEF LookupDomain
  <2>2. UNCHANGED <<proxies, target>>
    BY <1>7 DEF LookupDomain
  <2> QED
    BY <2>1, <2>2
<1>8. ASSUME NEW s \in Session, LookupOwner(s) PROVE FreshInv'
  BY <1>8 DEF LookupOwner
<1>9. ASSUME NEW s \in Session, Bind(s) PROVE FreshInv'
  <2>1. pc'[s] \notin {"resp"} \cup Cleaning /\ \A t \in Session \ {s} : pc'[t] = pc[t]
    BY <1>9 DEF Bind
  <2>2. UNCHANGED <<proxies, target>>
    BY <1>9 DEF Bind
  <2> QED
    BY <2>1, <2>2
<1>10. ASSUME NEW s \in Session, BindFails(s) PROVE FreshInv'
  BY <1>10 DEF BindFails
<1>11. ASSUME NEW s \in Session, RegisterUdp(s) PROVE FreshInv'
  BY <1>11 DEF RegisterUdp
<1>12. ASSUME NEW s \in Session, MapDomains(s) PROVE FreshInv'
  BY <1>12 DEF MapDomains
<1>13. ASSUME NEW s \in Session, IndexDomain(s) PROVE FreshInv'
  BY <1>13 DEF IndexDomain
<1>14. ASSUME NEW s \in Session, InsertEntry(s) PROVE FreshInv'
  BY <1>14 DEF InsertEntry
<1>15. ASSUME NEW s \in Session, IndexProxy(s) PROVE FreshInv'
  BY <1>15 DEF IndexProxy
<1>16. ASSUME NEW s \in Session, CleanNotify(s) PROVE FreshInv'
  BY <1>16 DEF CleanNotify
<1>17. ASSUME NEW s \in Session, CleanCollect(s) PROVE FreshInv'
  BY <1>17 DEF CleanCollect
<1>18. ASSUME NEW s \in Session, CleanUnindexProxies(s) PROVE FreshInv'
  BY <1>18 DEF CleanUnindexProxies
<1>19. ASSUME NEW s \in Session, CleanUnindexDomains(s) PROVE FreshInv'
  BY <1>19 DEF CleanUnindexDomains
<1>20. ASSUME NEW s \in Session, CleanDrain(s) PROVE FreshInv'
  BY <1>20 DEF CleanDrain
<1>21. ASSUME NEW s \in Session, CleanRest(s) PROVE FreshInv'
  BY <1>21 DEF CleanRest
<1>22. ASSUME NEW s \in Session, Login(s) PROVE FreshInv'
  BY <1>22 DEF Login
<1>23. ASSUME NEW s \in Session, LoginRejected(s) PROVE FreshInv'
  BY <1>23 DEF LoginRejected
<1>24. ASSUME NEW s \in Session, ConnectionEnds(s) PROVE FreshInv'
  BY <1>24 DEF ConnectionEnds
<1>25. ASSUME NEW s \in Session, ReceiveOther(s) PROVE FreshInv'
  BY <1>25 DEF ReceiveOther
<1>26. ASSUME NEW s \in Session, NEW n \in Name, ReceiveNewProxy(s, n) PROVE FreshInv'
  <2>1. pc'[s] \notin {"resp"} \cup Cleaning /\ \A t \in Session \ {s} : pc'[t] = pc[t]
    BY <1>26 DEF ReceiveNewProxy
  <2>2. UNCHANGED <<proxies, target>>
    BY <1>26 DEF ReceiveNewProxy
  <2> QED
    BY <2>1, <2>2
<1>27. ASSUME NEW s \in Session, LeaveLoop(s) PROVE FreshInv'
  BY <1>27 DEF LeaveLoop
<1>28. ASSUME NEW s \in Session, NEW n \in Name, ReleaseSocket(s, n) PROVE FreshInv'
  BY <1>28 DEF ReleaseSocket
<1>29. ASSUME NEW s \in Session, NEW n \in Name, ListenerShutdown(s, n) PROVE FreshInv'
  BY <1>29 DEF ListenerShutdown
<1>30. CASE Shutdown
  BY <1>30 DEF Shutdown
<1> QED
  BY <1>1, <1>2, <1>3, <1>4, <1>5, <1>6, <1>7, <1>8, <1>9, <1>10, <1>11, <1>12, <1>13, <1>14,
     <1>15, <1>16, <1>17, <1>18, <1>19, <1>20, <1>21, <1>22, <1>23, <1>24, <1>25, <1>26, <1>27,
     <1>28, <1>29, <1>30 DEF Next, TaskStep, PeerStep, ListenerStep

\* What the routing of proxy n of s depends on is unchanged by the step.
Untouched(s, n) ==
    /\ proxyIndex'[n] = proxyIndex[n]
    /\ udp'[n] = udp[n]
    /\ \A d \in Domains(s, n) : domainIndex'[d] = domainIndex[d]
    /\ proxies'[s] = proxies[s]
    /\ pc'[s] = pc[s]
    /\ reg'[s] = reg[s]
    /\ todo'[s] = todo[s]
    /\ owner'[s] = owner[s]

\* Then the routing is unchanged too.
LEMMA UntouchedRoute ==
    ASSUME NEW s \in Session, NEW n \in Name, Untouched(s, n), RouteOf(s, n)
    PROVE  RouteOf(s, n)'
BY DEF Untouched, RouteOf, Kept, Making, Leads, CheckedDomains, Domains

\* No step of another client's task touches a proxy that is not shared.
LEMMA OtherClient ==
    ASSUME TypeOK, LocalsInv, ConfigInv, NEW s \in Session, NEW n \in Name, Unshared(s, n),
           NEW c \in Session, RunOf[c] # RunOf[s],
           TaskStep(c) \/ PeerStep(c) \/ LeaveLoop(c)
    PROVE  Untouched(s, n)
<1>1. c # s
  OBVIOUS
<1>2. n \notin names[c] /\ doms[c] \cap Domains(s, n) = {}
  BY OwnConfig
<1>3. pc[c] \in Registering => reg[c] # n /\ todo[c] \cap Domains(s, n) = {}
  BY OwnConfig
<1>4. pc[c] \in Cleaning => target[c] # s
  BY OwnConfig
<1>5. Domains(s, n) \subseteq Domain
  BY DomainsType
<1> USE <1>1, <1>2, <1>3, <1>4, <1>5 DEF Untouched, TypeOK, LocalsInv, Registering, Cleaning,
   tables, owned, sockets, regVars, clean, events, Goto
<1>6. ASSUME CheckLimit(c) PROVE Untouched(s, n)
  BY <1>6 DEF CheckLimit
<1>7. ASSUME InsertSession(c) PROVE Untouched(s, n)
  BY <1>7 DEF InsertSession
<1>8. ASSUME LoginResp(c) PROVE Untouched(s, n)
  BY <1>8 DEF LoginResp
<1>9. ASSUME Reply(c) PROVE Untouched(s, n)
  BY <1>9 DEF Reply
<1>10. ASSUME UnregisterSession(c) PROVE Untouched(s, n)
  BY <1>10 DEF UnregisterSession
<1>11. ASSUME LookupDomain(c) PROVE Untouched(s, n)
  BY <1>11 DEF LookupDomain
<1>12. ASSUME LookupOwner(c) PROVE Untouched(s, n)
  BY <1>12 DEF LookupOwner
<1>13. ASSUME Bind(c) PROVE Untouched(s, n)
  BY <1>13 DEF Bind
<1>14. ASSUME BindFails(c) PROVE Untouched(s, n)
  BY <1>14 DEF BindFails
<1>15. ASSUME RegisterUdp(c) PROVE Untouched(s, n)
  BY <1>15 DEF RegisterUdp
<1>16. ASSUME MapDomains(c) PROVE Untouched(s, n)
  BY <1>16 DEF MapDomains
<1>17. ASSUME IndexDomain(c) PROVE Untouched(s, n)
  BY <1>17 DEF IndexDomain
<1>18. ASSUME InsertEntry(c) PROVE Untouched(s, n)
  BY <1>18 DEF InsertEntry
<1>19. ASSUME IndexProxy(c) PROVE Untouched(s, n)
  BY <1>19 DEF IndexProxy
<1>20. ASSUME CleanNotify(c) PROVE Untouched(s, n)
  BY <1>20 DEF CleanNotify
<1>21. ASSUME CleanCollect(c) PROVE Untouched(s, n)
  BY <1>21 DEF CleanCollect
<1>22. ASSUME CleanUnindexProxies(c) PROVE Untouched(s, n)
  BY <1>22 DEF CleanUnindexProxies
<1>23. ASSUME CleanUnindexDomains(c) PROVE Untouched(s, n)
  BY <1>23 DEF CleanUnindexDomains
<1>24. ASSUME CleanDrain(c) PROVE Untouched(s, n)
  BY <1>24 DEF CleanDrain
<1>25. ASSUME CleanRest(c) PROVE Untouched(s, n)
  BY <1>25 DEF CleanRest
<1>26. ASSUME Login(c) PROVE Untouched(s, n)
  BY <1>26 DEF Login
<1>27. ASSUME LoginRejected(c) PROVE Untouched(s, n)
  BY <1>27 DEF LoginRejected
<1>28. ASSUME ConnectionEnds(c) PROVE Untouched(s, n)
  BY <1>28 DEF ConnectionEnds
<1>29. ASSUME ReceiveOther(c) PROVE Untouched(s, n)
  BY <1>29 DEF ReceiveOther
<1>30. ASSUME LeaveLoop(c) PROVE Untouched(s, n)
  BY <1>30 DEF LeaveLoop
<1>31. ASSUME NEW m \in Name, ReceiveNewProxy(c, m) PROVE Untouched(s, n)
  BY <1>31 DEF ReceiveNewProxy
<1> QED
  BY <1>6, <1>7, <1>8, <1>9, <1>10, <1>11, <1>12, <1>13, <1>14, <1>15, <1>16, <1>17, <1>18,
     <1>19, <1>20, <1>21, <1>22, <1>23, <1>24, <1>25, <1>26, <1>27, <1>28, <1>29, <1>30, <1>31
     DEF TaskStep, PeerStep

\* A client's first connection is the one its run_id is registered with.
LEMMA FirstIsRegistered ==
    ASSUME TypeOK, RegistryInv, ReplacedInv, NEW s \in Session, NEW n \in Name,
           Unshared(s, n), pc[s] \in Established
    PROVE  sessions[RunOf[s]] = s
<1>1. s \notin replaced
  BY DEF ReplacedInv, Unshared
<1> QED
  BY <1>1 DEF RegistryInv, Established, Registering, Before, Cleaning, CleansItself

\* No step of the session's own task loses the routing of a proxy it has
\* registered, and a registration has routed the proxy when it ends.
LEMMA OwnRoute ==
    ASSUME IndInv, ConfigInv, ReplacedInv, FreshInv, NEW s \in Session, NEW n \in Name,
           Unshared(s, n), pc[s] \in Established => RouteOf(s, n),
           TaskStep(s) \/ PeerStep(s) \/ LeaveLoop(s), pc'[s] \in Established
    PROVE  RouteOf(s, n)'
<1>1. TypeOK /\ LocalsInv /\ EmptyInv /\ RegistryInv
  BY DEF IndInv
<1>2. \A m : Domains(s, m)' = Domains(s, m)
  BY DEF Domains
<1>3. Domains(s, n) \subseteq Domain
  BY DomainsType
<1>4. <<RunOf[s], n>> # None
  BY ConstantsAssumption, NoneAssumption
<1> USE <1>1, <1>2, <1>3 DEF TypeOK, LocalsInv, Registering, Cleaning, Established, tables,
   owned, sockets, regVars, clean, events, Goto
<1>5. ASSUME CheckLimit(s) PROVE RouteOf(s, n)'
  BY <1>5 DEF CheckLimit, RouteOf, Kept, Making, Leads, CheckedDomains
<1>6. ASSUME InsertSession(s) PROVE RouteOf(s, n)'
  BY <1>6 DEF InsertSession, RouteOf, Kept, Making, Leads, CheckedDomains
<1>7. ASSUME LoginResp(s) PROVE RouteOf(s, n)'
  BY <1>7 DEF LoginResp, FreshInv, RouteOf, Kept, Making, Leads, CheckedDomains
<1>8. ASSUME Reply(s) PROVE RouteOf(s, n)'
  BY <1>8 DEF Reply, RouteOf, Kept, Making, Leads, CheckedDomains
<1>9. ASSUME UnregisterSession(s) PROVE RouteOf(s, n)'
  BY <1>9 DEF UnregisterSession, RouteOf, Kept, Making, Leads, CheckedDomains
<1>10. ASSUME LookupDomain(s) PROVE RouteOf(s, n)'
  <2>1. PICK d \in todo[s] :
            /\ todo' = [todo EXCEPT ![s] = @ \ {d}]
            /\ IF domainIndex[d] = None
               THEN /\ Goto(s, IF todo[s] = {d} THEN "bind" ELSE "domain")
                    /\ UNCHANGED owner
               ELSE /\ owner' = [owner EXCEPT ![s] = domainIndex[d][1]]
                    /\ Goto(s, "owner")
    BY <1>10 DEF LookupDomain
  <2>2. pc[s] = "domain" /\ todo'[s] = todo[s] \ {d}
    BY <1>10, <2>1 DEF LookupDomain
  <2>3. UNCHANGED <<proxyIndex, domainIndex, udp, proxies, reg>>
    BY <1>10 DEF LookupDomain
  <2>4. pc'[s] \in {"bind", "domain", "owner"}
    BY <2>1
  <2>5. reg[s] = n => Making(s, n)'
    BY <2>4 DEF Making
  <2>6. ASSUME n \in proxies[s] PROVE Kept(s, n)'
    <3>1. Kept(s, n)
      BY <2>2, <2>6 DEF RouteOf
    <3>2. reg[s] # n /\ CheckedDomains(s) = Domains(s, reg[s]) \ todo[s]
      BY <3>1, <2>2 DEF Kept, CheckedDomains
    <3>3. (Domains(s, reg[s]) \ todo[s]) \cap Domains(s, n) = {}
      BY <3>1, <3>2, <2>2 DEF Kept
    <3>4. d \in Domains(s, n) => pc'[s] = "owner" /\ owner'[s] = RunOf[s]
      <4> SUFFICES ASSUME d \in Domains(s, n)
                   PROVE  pc'[s] = "owner" /\ owner'[s] = RunOf[s]
        OBVIOUS
      <4>1. domainIndex[d] = <<RunOf[s], n>>
        BY <3>1 DEF Kept, Leads
      <4>2. owner' = [owner EXCEPT ![s] = domainIndex[d][1]] /\ pc'[s] = "owner"
        BY <4>1, <2>1, <1>4
      <4> QED
        BY <4>1, <4>2
    <3>5. pc'[s] = "bind" => todo'[s] = {}
      BY <2>1
    <3>6. CheckedDomains(s)' = Domains(s, reg[s]) \ todo'[s]
      BY <2>3, <2>4, <3>5 DEF CheckedDomains
    <3>7. d \notin Domains(s, n) => CheckedDomains(s)' \cap Domains(s, n) = {}
      BY <3>3, <3>6, <2>2
    <3> QED
      BY <3>1, <3>2, <3>4, <3>7, <2>2, <2>3 DEF Kept, Leads
  <2> QED
    BY <2>3, <2>5, <2>6 DEF RouteOf
<1>11. ASSUME LookupOwner(s) PROVE RouteOf(s, n)'
  <2>1. pc[s] = "owner" /\ UNCHANGED <<proxyIndex, domainIndex, udp, proxies, reg, todo>>
    BY <1>11 DEF LookupOwner
  <2>2. sessions[RunOf[s]] = s
    BY <2>1, FirstIsRegistered
  <2>3. owner[s] = RunOf[s] => pc'[s] = "reply"
    BY <1>11, <2>2, NoneAssumption DEF LookupOwner
  <2>4. pc'[s] \in {"reply", "bind", "domain"} /\ (pc'[s] = "bind" => todo[s] = {})
    BY <1>11 DEF LookupOwner
  <2>5. Making(s, n)'
    BY <2>4 DEF Making
  <2>6. ASSUME n \in proxies[s] PROVE Kept(s, n)'
    <3>1. Kept(s, n)
      BY <2>1, <2>6 DEF RouteOf
    <3>2. reg[s] # n
      BY <3>1, <2>1 DEF Kept
    <3>3. owner[s] # RunOf[s] => (Domains(s, reg[s]) \ todo[s]) \cap Domains(s, n) = {}
      BY <3>1, <3>2, <2>1 DEF Kept, CheckedDomains
    <3>4. pc'[s] # "reply" => CheckedDomains(s)' = Domains(s, reg[s]) \ todo[s]
      BY <2>1, <2>4 DEF CheckedDomains
    <3> QED
      BY <3>1, <3>2, <3>3, <3>4, <2>1, <2>3, <2>4 DEF Kept, Leads
  <2> QED
    BY <2>1, <2>5, <2>6 DEF RouteOf
<1>12. ASSUME Bind(s) PROVE RouteOf(s, n)'
  BY <1>12 DEF Bind, RouteOf, Kept, Making, Leads, CheckedDomains
<1>13. ASSUME BindFails(s) PROVE RouteOf(s, n)'
  BY <1>13 DEF BindFails, RouteOf, Kept, Making, Leads, CheckedDomains
<1>14. ASSUME RegisterUdp(s) PROVE RouteOf(s, n)'
  BY <1>14 DEF RegisterUdp, RouteOf, Kept, Making, Leads, CheckedDomains
<1>15. ASSUME MapDomains(s) PROVE RouteOf(s, n)'
  BY <1>15 DEF MapDomains, RouteOf, Kept, Making, Leads, CheckedDomains
<1>16. ASSUME IndexDomain(s) PROVE RouteOf(s, n)'
  <2>1. PICK d \in todo[s] :
            /\ domainIndex' = [domainIndex EXCEPT ![d] = <<RunOf[s], reg[s]>>]
            /\ todo' = [todo EXCEPT ![s] = @ \ {d}]
            /\ Goto(s, IF todo[s] = {d} THEN "entry" ELSE "indexDomains")
    BY <1>16 DEF IndexDomain
  <2>2. pc[s] = "indexDomains" /\ UNCHANGED <<proxyIndex, udp, proxies, reg>>
    BY <1>16 DEF IndexDomain
  <2>3. d \in Domain /\ d \in Domains(s, reg[s])
    BY <2>1, <2>2 DEF ConfigInv
  <2>4. pc'[s] \in {"entry", "indexDomains"} /\ (pc'[s] = "entry" => todo[s] = {d})
    BY <2>1
  <2>5. ASSUME n \in proxies[s] PROVE Kept(s, n)'
    <3>1. Kept(s, n)
      BY <2>2, <2>5 DEF RouteOf
    <3>2. reg[s] # n /\ Domains(s, reg[s]) \cap Domains(s, n) = {}
      BY <3>1, <2>2 DEF Kept, CheckedDomains
    <3>3. Leads(s, n, Domains(s, n))'
      BY <3>1, <3>2, <2>1, <2>3 DEF Kept, Leads
    <3>4. CheckedDomains(s)' = Domains(s, reg[s])
      BY <2>2, <2>4 DEF CheckedDomains
    <3> QED
      BY <3>1, <3>2, <3>3, <3>4, <2>2, <2>4 DEF Kept
  <2>6. ASSUME reg[s] = n PROVE Making(s, n)'
    <3>1. Making(s, n)
      BY <2>2, <2>6 DEF RouteOf
    <3>2. Leads(s, n, Domains(s, n) \ todo[s])
      BY <3>1, <2>2 DEF Making
    <3>3. \A x \in Domains(s, n) \ todo'[s] : domainIndex'[x] = <<RunOf[s], n>>
      BY <3>2, <2>1, <2>3, <2>6 DEF Leads
    <3>4. pc'[s] = "entry" => todo'[s] = {}
      BY <2>1, <2>4
    <3> QED
      BY <3>1, <3>3, <3>4, <2>2, <2>4 DEF Making, Leads
  <2> QED
    BY <2>2, <2>5, <2>6 DEF RouteOf
<1>17. ASSUME InsertEntry(s) PROVE RouteOf(s, n)'
  BY <1>17 DEF InsertEntry, RouteOf, Kept, Making, Leads, CheckedDomains
<1>18. ASSUME IndexProxy(s) PROVE RouteOf(s, n)'
  BY <1>18 DEF IndexProxy, RouteOf, Kept, Making, Leads, CheckedDomains
<1>19. ASSUME CleanNotify(s) PROVE RouteOf(s, n)'
  BY <1>19 DEF CleanNotify, RouteOf, Kept, Making, Leads, CheckedDomains
<1>20. ASSUME CleanCollect(s) PROVE RouteOf(s, n)'
  BY <1>20 DEF CleanCollect, RouteOf, Kept, Making, Leads, CheckedDomains
<1>21. ASSUME CleanUnindexProxies(s) PROVE RouteOf(s, n)'
  BY <1>21 DEF CleanUnindexProxies, RouteOf, Kept, Making, Leads, CheckedDomains
<1>22. ASSUME CleanUnindexDomains(s) PROVE RouteOf(s, n)'
  BY <1>22 DEF CleanUnindexDomains, RouteOf, Kept, Making, Leads, CheckedDomains
<1>23. ASSUME CleanDrain(s) PROVE RouteOf(s, n)'
  BY <1>23 DEF CleanDrain, RouteOf, Kept, Making, Leads, CheckedDomains
<1>24. ASSUME CleanRest(s) PROVE RouteOf(s, n)'
  BY <1>24 DEF CleanRest, FreshInv, RouteOf, Kept, Making, Leads, CheckedDomains
<1>25. ASSUME Login(s) PROVE RouteOf(s, n)'
  BY <1>25 DEF Login, RouteOf, Kept, Making, Leads, CheckedDomains
<1>26. ASSUME LoginRejected(s) PROVE RouteOf(s, n)'
  BY <1>26 DEF LoginRejected, RouteOf, Kept, Making, Leads, CheckedDomains
<1>27. ASSUME ConnectionEnds(s) PROVE RouteOf(s, n)'
  BY <1>27 DEF ConnectionEnds, RouteOf, Kept, Making, Leads, CheckedDomains
<1>28. ASSUME ReceiveOther(s) PROVE RouteOf(s, n)'
  BY <1>28 DEF ReceiveOther, RouteOf, Kept, Making, Leads, CheckedDomains
<1>29. ASSUME LeaveLoop(s) PROVE RouteOf(s, n)'
  BY <1>29 DEF LeaveLoop, RouteOf, Kept, Making, Leads, CheckedDomains
<1>30. ASSUME NEW m \in Name, ReceiveNewProxy(s, m) PROVE RouteOf(s, n)'
  BY <1>30 DEF ReceiveNewProxy, Refused, RouteOf, Kept, Making, Leads, CheckedDomains
<1> QED
  BY <1>5, <1>6, <1>7, <1>8, <1>9, <1>10, <1>11, <1>12, <1>13, <1>14, <1>15, <1>16, <1>17,
     <1>18, <1>19, <1>20, <1>21, <1>22, <1>23, <1>24, <1>25, <1>26, <1>27, <1>28, <1>29, <1>30
     DEF TaskStep, PeerStep

\* A connection that is unshared after a step was so before it: pc never
\* returns to "idle".
LEMMA UnsharedBefore ==
    ASSUME TypeOK, LocalsInv, [Next]_vars, NEW s \in Session, NEW n \in Name, Unshared(s, n)'
    PROVE  Unshared(s, n)
<1>1. \A t \in Session : pc'[t] = "idle" => pc[t] = "idle"
  <2> USE DEF TypeOK, tables, owned, sockets, regVars, clean, events, Goto
  <2>1. ASSUME NEW c \in Session, CheckLimit(c) PROVE \A t \in Session : pc'[t] = "idle" =>
     pc[t] = "idle"
    BY <2>1 DEF CheckLimit
  <2>2. ASSUME NEW c \in Session, InsertSession(c) PROVE \A t \in Session : pc'[t] = "idle" =>
     pc[t] = "idle"
    BY <2>2 DEF InsertSession
  <2>3. ASSUME NEW c \in Session, LoginResp(c) PROVE \A t \in Session : pc'[t] = "idle" => pc[t]
     = "idle"
    BY <2>3 DEF LoginResp
  <2>4. ASSUME NEW c \in Session, Reply(c) PROVE \A t \in Session : pc'[t] = "idle" => pc[t] =
     "idle"
    BY <2>4 DEF Reply
  <2>5. ASSUME NEW c \in Session, UnregisterSession(c) PROVE \A t \in Session : pc'[t] = "idle"
     => pc[t] = "idle"
    BY <2>5 DEF UnregisterSession
  <2>6. ASSUME NEW c \in Session, LookupDomain(c) PROVE \A t \in Session : pc'[t] = "idle" =>
     pc[t] = "idle"
    BY <2>6 DEF LookupDomain
  <2>7. ASSUME NEW c \in Session, LookupOwner(c) PROVE \A t \in Session : pc'[t] = "idle" =>
     pc[t] = "idle"
    BY <2>7 DEF LookupOwner
  <2>8. ASSUME NEW c \in Session, Bind(c) PROVE \A t \in Session : pc'[t] = "idle" => pc[t] =
     "idle"
    BY <2>8 DEF Bind
  <2>9. ASSUME NEW c \in Session, BindFails(c) PROVE \A t \in Session : pc'[t] = "idle" => pc[t]
     = "idle"
    BY <2>9 DEF BindFails
  <2>10. ASSUME NEW c \in Session, RegisterUdp(c) PROVE \A t \in Session : pc'[t] = "idle" =>
     pc[t] = "idle"
    BY <2>10 DEF RegisterUdp
  <2>11. ASSUME NEW c \in Session, MapDomains(c) PROVE \A t \in Session : pc'[t] = "idle" =>
     pc[t] = "idle"
    BY <2>11 DEF MapDomains
  <2>12. ASSUME NEW c \in Session, IndexDomain(c) PROVE \A t \in Session : pc'[t] = "idle" =>
     pc[t] = "idle"
    BY <2>12 DEF IndexDomain
  <2>13. ASSUME NEW c \in Session, InsertEntry(c) PROVE \A t \in Session : pc'[t] = "idle" =>
     pc[t] = "idle"
    BY <2>13 DEF InsertEntry
  <2>14. ASSUME NEW c \in Session, IndexProxy(c) PROVE \A t \in Session : pc'[t] = "idle" =>
     pc[t] = "idle"
    BY <2>14 DEF IndexProxy
  <2>15. ASSUME NEW c \in Session, CleanNotify(c) PROVE \A t \in Session : pc'[t] = "idle" =>
     pc[t] = "idle"
    BY <2>15 DEF CleanNotify
  <2>16. ASSUME NEW c \in Session, CleanCollect(c) PROVE \A t \in Session : pc'[t] = "idle" =>
     pc[t] = "idle"
    BY <2>16 DEF CleanCollect
  <2>17. ASSUME NEW c \in Session, CleanUnindexProxies(c) PROVE \A t \in Session : pc'[t] =
     "idle" => pc[t] = "idle"
    BY <2>17 DEF CleanUnindexProxies
  <2>18. ASSUME NEW c \in Session, CleanUnindexDomains(c) PROVE \A t \in Session : pc'[t] =
     "idle" => pc[t] = "idle"
    BY <2>18 DEF CleanUnindexDomains
  <2>19. ASSUME NEW c \in Session, CleanDrain(c) PROVE \A t \in Session : pc'[t] = "idle" =>
     pc[t] = "idle"
    BY <2>19 DEF CleanDrain
  <2>20. ASSUME NEW c \in Session, CleanRest(c) PROVE \A t \in Session : pc'[t] = "idle" =>
     pc[t] = "idle"
    BY <2>20 DEF CleanRest
  <2>21. ASSUME NEW c \in Session, Login(c) PROVE \A t \in Session : pc'[t] = "idle" => pc[t] =
     "idle"
    BY <2>21 DEF Login
  <2>22. ASSUME NEW c \in Session, LoginRejected(c) PROVE \A t \in Session : pc'[t] = "idle" =>
     pc[t] = "idle"
    BY <2>22 DEF LoginRejected
  <2>23. ASSUME NEW c \in Session, ConnectionEnds(c) PROVE \A t \in Session : pc'[t] = "idle" =>
     pc[t] = "idle"
    BY <2>23 DEF ConnectionEnds
  <2>24. ASSUME NEW c \in Session, ReceiveOther(c) PROVE \A t \in Session : pc'[t] = "idle" =>
     pc[t] = "idle"
    BY <2>24 DEF ReceiveOther
  <2>25. ASSUME NEW c \in Session, LeaveLoop(c) PROVE \A t \in Session : pc'[t] = "idle" =>
     pc[t] = "idle"
    BY <2>25 DEF LeaveLoop
  <2>26. ASSUME NEW c \in Session, NEW m \in Name, ReceiveNewProxy(c, m) PROVE \A t \in Session
     : pc'[t] = "idle" => pc[t] = "idle"
    BY <2>26 DEF ReceiveNewProxy
  <2>27. ASSUME NEW c \in Session, NEW m \in Name, ReleaseSocket(c, m) PROVE \A t \in Session :
     pc'[t] = "idle" => pc[t] = "idle"
    BY <2>27 DEF ReleaseSocket
  <2>28. ASSUME NEW c \in Session, NEW m \in Name, ListenerShutdown(c, m) PROVE \A t \in Session
     : pc'[t] = "idle" => pc[t] = "idle"
    BY <2>28 DEF ListenerShutdown
  <2>29. CASE Shutdown
    BY <2>29 DEF Shutdown
  <2>30. CASE UNCHANGED vars
    BY <2>30 DEF vars
  <2> QED
    BY <2>1, <2>2, <2>3, <2>4, <2>5, <2>6, <2>7, <2>8, <2>9, <2>10, <2>11, <2>12, <2>13, <2>14,
       <2>15, <2>16, <2>17, <2>18, <2>19, <2>20, <2>21, <2>22, <2>23, <2>24, <2>25, <2>26,
       <2>27, <2>28, <2>29, <2>30 DEF Next, TaskStep, PeerStep, ListenerStep
<1>2. Domains(s, n)' = Domains(s, n)
  BY DEF Domains
<1> QED
  BY <1>1, <1>2 DEF Unshared

\* A connection that is idle before and after a step did not take it.
LEMMA IdleStep ==
    ASSUME TypeOK, NEW c \in Session, TaskStep(c) \/ PeerStep(c) \/ LeaveLoop(c),
           pc[c] = "idle", pc'[c] = "idle"
    PROVE  FALSE
<1> USE DEF TypeOK, Goto
<1>1. ~TaskStep(c) /\ ~LeaveLoop(c)
  BY DEF TaskStep, LeaveLoop, CheckLimit, InsertSession, LoginResp, Reply, UnregisterSession,
     LookupDomain, LookupOwner, Bind, BindFails, RegisterUdp, MapDomains, IndexDomain,
     InsertEntry, IndexProxy, CleanNotify, CleanCollect, CleanUnindexProxies,
     CleanUnindexDomains, CleanDrain, CleanRest
<1>2. ~PeerStep(c)
  BY DEF PeerStep, Login, LoginRejected, ConnectionEnds, ReceiveOther, ReceiveNewProxy
<1> QED
  BY <1>1, <1>2

\* Every step keeps the routing invariant.
LEMMA RouteStep ==
    IndInv /\ ConfigInv /\ ReplacedInv /\ FreshInv /\ RouteInv /\ [Next]_vars => RouteInv'
<1> SUFFICES ASSUME IndInv, ConfigInv, ReplacedInv, FreshInv, RouteInv, [Next]_vars,
                    NEW s \in Session, NEW n \in Name, pc'[s] \in Established, Unshared(s, n)'
             PROVE  RouteOf(s, n)'
  BY DEF RouteInv
<1>1. TypeOK /\ LocalsInv
  BY DEF IndInv
<1>2. Unshared(s, n)
  BY <1>1, UnsharedBefore
<1>3. pc[s] \in Established => RouteOf(s, n)
  BY <1>2 DEF RouteInv
<1>4. ASSUME NEW c \in Session, TaskStep(c) \/ PeerStep(c) \/ LeaveLoop(c)
      PROVE  RouteOf(s, n)'
  <2>1. CASE c = s
    BY <1>2, <1>3, <1>4, <2>1, OwnRoute
  <2>2. CASE RunOf[c] # RunOf[s]
    <3>1. Untouched(s, n)
      BY <1>1, <1>2, <1>4, <2>2, OtherClient
    <3>2. pc[s] \in Established
      BY <3>1 DEF Untouched
    <3> QED
      BY <1>3, <3>1, <3>2, UntouchedRoute
  <2>3. CASE c # s /\ RunOf[c] = RunOf[s]
    <3>1. pc'[c] = "idle" /\ pc[c] = "idle"
      BY <1>2, <2>3 DEF Unshared
    <3>2. FALSE
      BY <1>1, <1>4, <3>1, IdleStep
    <3> QED
      BY <3>2
  <2> QED
    BY <2>1, <2>2, <2>3
<1>5. ASSUME NEW c \in Session, NEW m \in Name, ListenerStep(c, m)
      PROVE  RouteOf(s, n)'
  <2>1. Untouched(s, n) /\ pc[s] \in Established
    BY <1>5 DEF ListenerStep, ReleaseSocket, ListenerShutdown, Untouched, tables, owned,
       sockets, regVars, clean, events, Goto
  <2> QED
    BY <1>3, <2>1, UntouchedRoute
<1>6. CASE Shutdown
  <2>1. Untouched(s, n) /\ pc[s] \in Established
    BY <1>6 DEF Shutdown, Untouched, tables, owned, sockets, regVars, clean, events, Goto
  <2> QED
    BY <1>3, <2>1, UntouchedRoute
<1>7. CASE UNCHANGED vars
  <2>1. Untouched(s, n) /\ pc[s] \in Established
    BY <1>7 DEF vars, Untouched, tables, owned, sockets, regVars, clean, events, Goto
  <2> QED
    BY <1>3, <2>1, UntouchedRoute
<1> QED
  BY <1>4, <1>5, <1>6, <1>7 DEF Next

\* The strengthening of the routing property is inductive relative to IndInv.
THEOREM RoutingInductive ==
    Spec => [](ConfigInv /\ ReplacedInv /\ FreshInv /\ RouteInv)
<1> DEFINE I == IndInv /\ ConfigInv /\ ReplacedInv /\ FreshInv /\ RouteInv
<1>1. Init => I
  <2> SUFFICES ASSUME Init PROVE I
    OBVIOUS
  <2>1. IndInv
    BY InitInd
  <2>2. ConfigInv
    BY DEF Init, ConfigInv, Registering, Cleaning
  <2>3. ReplacedInv /\ FreshInv
    BY DEF Init, ReplacedInv, FreshInv
  <2>4. RouteInv
    BY DEF Init, RouteInv, Established, Registering
  <2> QED
    BY <2>1, <2>2, <2>3, <2>4
<1>2. I /\ [Next]_vars => I'
  <2> SUFFICES ASSUME I, [Next]_vars PROVE I'
    OBVIOUS
  <2>1. TypeOK /\ LocalsInv /\ EmptyInv /\ RegistryInv /\ ListenerOwned
    BY DEF IndInv
  <2>2. IndInv'
    BY <2>1, TypeStep, LocalsStep, EmptyStep, RegistryStep, ListenerStepInv DEF IndInv
  <2>3. ConfigInv' /\ ReplacedInv' /\ FreshInv'
    BY <2>1, ConfigStep, ReplacedStep, FreshStep
  <2>4. RouteInv'
    BY RouteStep
  <2> QED
    BY <2>2, <2>3, <2>4
<1>3. I => ConfigInv /\ ReplacedInv /\ FreshInv /\ RouteInv
  OBVIOUS
<1> QED
  BY <1>1, <1>2, <1>3, PTL DEF Spec

\* Isolation: a client on its first connection keeps the routing of every proxy
\* it serves, whatever clients with other proxies do.
THEOREM RoutingIsIsolated == Spec => []RoutedWhenUnshared
<1>1. ConfigInv /\ ReplacedInv /\ FreshInv /\ RouteInv => RoutedWhenUnshared
  <2> SUFFICES ASSUME RouteInv, NEW s \in Session, NEW n \in Name, Serves(s, n), Unshared(s, n)
               PROVE  Routed(s, n)
    BY DEF RoutedWhenUnshared
  <2>1. pc[s] = "loop" /\ n \in proxies[s]
    BY DEF Serves
  <2>2. Kept(s, n)
    BY <2>1 DEF RouteInv, Established, RouteOf
  <2> QED
    BY <2>1, <2>2 DEF Kept, Leads, Routed
<1> QED
  BY RoutingInductive, <1>1, PTL
=============================================================================
