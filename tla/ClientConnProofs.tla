-------------------------- MODULE ClientConnProofs --------------------------
(***************************************************************************)
(* What holds of the client for any configuration, any number of attempts  *)
(* and of retry rounds.                                                    *)
(***************************************************************************)
EXTENDS ClientConn, SequenceTheorems, TLAPS

\* TypeOK in two halves: the messages under way, and the rest
SeqTypes ==
    /\ cmds \in [Conn -> Seq(Name)] /\ asked \in [Conn -> Seq(Name)]
    /\ back \in [Conn -> Seq(Name \X Outcome)]

Types ==
    /\ setup \in Setups
    /\ shutdown \in BOOLEAN /\ lived \in {"short", "attempt", "session"} /\ connected \in BOOLEAN
    /\ rpc \in {"connect", "handshake", "login", "register", "await", "serve", "backoff",
                "returned", "fatal"}
    /\ conn \in 0..MaxConn /\ backoff \in BackoffInit..BackoffMax
    /\ todo \subseteq Name /\ again \subseteq Name /\ keep \subseteq Name /\ refused \subseteq
       Name
    /\ task \in [Conn -> {"none", "run", "ended"}]
    /\ waiting \in [Conn -> Name \cup {None}]
    /\ served \in [Conn -> SUBSET Name] /\ believed \in [Conn -> SUBSET Name]
    /\ tpc \in [Conn -> {"none", "sleep", "send", "await", "ended"}]
    /\ round \in [Conn -> 0..Rounds]
    /\ list \in [Conn -> SUBSET Name] /\ second \in [Conn -> SUBSET Name]
    /\ left \in [Conn -> SUBSET Name]

\* The two halves are TypeOK.
LEMMA TypeParts == TypeOK <=> Types /\ SeqTypes
BY DEF TypeOK, Types, SeqTypes

\* The retry task of an attempt begins when the attempt is served: until then nobody but
\* connect_once waits for an answer there.
PhaseInv ==
    /\ rpc \in {"handshake", "login", "register", "await", "serve"} => conn \in Conn
    /\ \A c \in Conn : tpc[c] # "none" =>
         c <= conn /\ (c = conn => rpc \notin {"handshake", "login", "register", "await"})
    /\ rpc = "await" => waiting[conn] \in Name

\* An attempt without a retry task has nothing on its lists.
Idle == \A c \in Conn : tpc[c] = "none" => second[c] = {}

\* A loop sleeps only while it has rounds left.
RoundInv ==
    \A c \in Conn :
        /\ round[c] <= setup.rounds
        /\ tpc[c] \in {"none", "sleep"} => round[c] < setup.rounds

\* An ok that is under way, or waits to be dropped, is of a proxy the server has.
AnswersTrue ==
    \A c \in Conn : \A k \in 1..Len(back[c]) :
        back[c][k][2] = "ok" => back[c][k][1] \in served[c]

\* What connect_once has made of the configured proxies while it registers them
Accounted ==
    rpc \in {"register", "await"} =>
        \A p \in setup.proxies :
            \/ p \in todo \cup believed[conn] \cup again \cup keep \cup refused
            \/ rpc = "await" /\ waiting[conn] = p

\* The second list is the persistent proxies, and waits behind the retryable ones.
Queued ==
    rpc = "serve" /\ second[conn] # {} => list[conn] \subseteq again /\ second[conn] \subseteq
       keep

\* What a sequence has, as far as the messages need it
LEMMA SeqFacts ==
    ASSUME NEW S, NEW s \in Seq(S)
    PROVE  /\ <<>> \in Seq(S)
           /\ \A x \in S : Append(s, x) \in Seq(S)
           /\ s # <<>> => Head(s) \in S /\ Tail(s) \in Seq(S)
OBVIOUS

\* What the bounds and the numbers of the attempts are.
LEMMA Facts ==
    /\ MaxConn \in Nat /\ Rounds \in Nat /\ BackoffInit \in Nat /\ BackoffMax \in Nat
    /\ BackoffInit > 0 /\ BackoffInit <= BackoffMax /\ None \notin Name
    /\ \A c \in Conn : c \in Nat /\ c > 0 /\ c <= MaxConn
    /\ \A n \in 0..MaxConn : n > 0 => n \in Conn
BY ClientAssumption DEF Conn

\* What a configuration is.
LEMMA SetupFacts ==
    ASSUME setup \in Setups
    PROVE  /\ setup.proxies \subseteq Name /\ setup.tls \in BOOLEAN
           /\ setup.attempts \in 0..MaxConn /\ setup.rounds \in 1..Rounds
BY ClientAssumption

\* Every step keeps the types of the variables without messages.
LEMMA TypesStep == Types /\ SeqTypes /\ PhaseInv /\ RoundInv /\ [Next]_vars => Types'
<1> SUFFICES ASSUME Types, SeqTypes, PhaseInv, RoundInv, [Next]_vars PROVE Types'
  OBVIOUS
<1> USE Facts, SetupFacts DEF Types, PhaseInv, run, lists, control, retry
<1>1. CASE UNCHANGED vars
  BY <1>1 DEF vars
<1>2. CASE Connect
  <2>1. CASE UNCHANGED <<conn, lived, task>>
    BY <1>2, <2>1 DEF Connect
  <2>2. CASE conn < setup.attempts /\ conn' = conn + 1
    <3>1. conn + 1 \in Conn /\ conn + 1 \in 0..MaxConn
      BY <2>2 DEF Conn
    <3>2. task' \in [Conn -> {"none", "run", "ended"}]
      BY <1>2, <2>2, <3>1 DEF Connect
    <3> QED
      BY <1>2, <2>2, <3>1, <3>2 DEF Connect
  <2> QED
    BY <1>2, <2>1, <2>2 DEF Connect
<1>3. CASE Handshake
  BY <1>3 DEF Handshake, Goto, Over
<1>4. CASE LoginOk
  BY <1>4 DEF LoginOk, Goto
<1>5. CASE LoginFails
  BY <1>5 DEF LoginFails, Goto, Over, EndTask
<1>6. ASSUME NEW p \in Name, Register(p) PROVE Types'
  BY <1>6 DEF Register, Ask, Goto
<1>7. CASE RegisterLost
  BY <1>7 DEF RegisterLost, Goto, Over
<1>8. ASSUME NEW o \in Outcome, Registered(o) PROVE Types'
  BY <1>8 DEF Registered, TakeAnswer, ForWaiter, Goto
<1>9. CASE RegisterTimeout
  BY <1>9 DEF RegisterTimeout, TriedAgain, Goto
<1>10. CASE Serve
  BY <1>10 DEF Serve, Goto
<1>11. CASE SessionEnds
  <2>1. backoff' \in BackoffInit..BackoffMax
    BY <1>11 DEF SessionEnds
  <2>2. waiting' \in [Conn -> Name \cup {None}] /\ rpc' \in {"returned", "backoff"}
    BY <1>11 DEF SessionEnds
  <2> QED
    BY <1>11, <2>1, <2>2 DEF SessionEnds
<1>12. CASE WaitBackoff
  BY <1>12 DEF WaitBackoff, NextBackoff
<1>13. CASE Lasts
  BY <1>13 DEF Lasts
<1>14. CASE Shutdown
  BY <1>14 DEF Shutdown
<1>15. ASSUME NEW c \in Conn, TaskLost(c) PROVE Types'
  BY <1>15 DEF TaskLost, EndTask
<1>16. ASSUME NEW c \in Conn, TaskReturns(c) PROVE Types'
  BY <1>16 DEF TaskReturns, EndTask
<1>17. ASSUME NEW c \in Conn, SendOn(c) PROVE Types'
  BY <1>17 DEF SendOn
<1>18. ASSUME NEW c \in Conn, ServerAnswers(c) PROVE Types'
  <2>1. Head(asked[c]) \in Name
    BY <1>18, SeqFacts DEF ServerAnswers, SeqTypes
  <2>2. served' = served \/ served' = [served EXCEPT ![c] = served[c]]
        \/ served' = [served EXCEPT ![c] = served[c] \cup {Head(asked[c])}]
    BY <1>18 DEF ServerAnswers
  <2>3. served' \in [Conn -> SUBSET Name]
    BY <2>1, <2>2
  <2> QED
    BY <1>18, <2>3 DEF ServerAnswers
<1>19. ASSUME NEW c \in Conn, DropAnswer(c) PROVE Types'
  BY <1>19 DEF DropAnswer
<1>20. ASSUME NEW c \in Conn, RetryWakes(c) PROVE Types'
  <2>1. CASE shutdown /\ LoopOver(c)
    BY <1>20, <2>1 DEF RetryWakes, LoopOver
  <2>2. CASE ~(shutdown /\ LoopOver(c))
    <3>1. round[c] + 1 \in 0..Rounds
      BY <1>20 DEF RetryWakes, RoundInv
    <3>2. /\ round' = [round EXCEPT ![c] = round[c] + 1] /\ left' = [left EXCEPT ![c] = list[c]]
          /\ tpc' = [tpc EXCEPT ![c] = "send"] /\ UNCHANGED <<list, second>>
      BY <1>20, <2>2 DEF RetryWakes
    <3>3. round' \in [Conn -> 0..Rounds] /\ left' \in [Conn -> SUBSET Name]
      BY <3>1, <3>2
    <3> QED
      BY <1>20, <3>2, <3>3 DEF RetryWakes
  <2> QED
    BY <2>1, <2>2
<1>21. ASSUME NEW c \in Conn, NEW p \in Name, RetryAsks(c, p) PROVE Types'
  BY <1>21 DEF RetryAsks, Ask
<1>22. ASSUME NEW c \in Conn, RetryLost(c) PROVE Types'
  BY <1>22 DEF RetryLost, LoopOver
<1>23. ASSUME NEW c \in Conn, NEW o \in Outcome, RetryAnswered(c, o) PROVE Types'
  <2>1. waiting[c] \in Name
    BY <1>23, SeqFacts DEF RetryAnswered, TakeAnswer, ForWaiter, SeqTypes
  <2>2. believed' \in [Conn -> SUBSET Name]
    BY <1>23, <2>1 DEF RetryAnswered, TakeAnswer
  <2>3. list' \in [Conn -> SUBSET Name] /\ waiting' \in [Conn -> Name \cup {None}]
    BY <1>23 DEF RetryAnswered, TakeAnswer
  <2> QED
    BY <1>23, <2>2, <2>3 DEF RetryAnswered, TakeAnswer
<1>24. ASSUME NEW c \in Conn, RetryTimeout(c) PROVE Types'
  BY <1>24 DEF RetryTimeout
<1>25. ASSUME NEW c \in Conn, RetryRoundDone(c) PROVE Types'
  BY <1>25 DEF RetryRoundDone, LoopOver
<1> QED
  BY <1>1, <1>2, <1>3, <1>4, <1>5, <1>6, <1>7, <1>8, <1>9, <1>10, <1>11, <1>12, <1>13, <1>14,
     <1>15, <1>16, <1>17, <1>18, <1>19, <1>20, <1>21, <1>22, <1>23, <1>24, <1>25 DEF Next, Main,
     Retry

\* Every step keeps the types of the messages under way.
LEMMA SeqStep == Types /\ SeqTypes /\ PhaseInv /\ [Next]_vars => SeqTypes'
<1> SUFFICES ASSUME Types, SeqTypes, PhaseInv, [Next]_vars PROVE SeqTypes'
  OBVIOUS
<1> USE Facts DEF SeqTypes, PhaseInv, run, lists, control, retry
<1>1. CASE UNCHANGED vars
  BY <1>1 DEF vars
<1>2. CASE Connect
  BY <1>2 DEF Connect
<1>3. CASE Handshake
  BY <1>3 DEF Handshake, Goto, Over
<1>4. CASE LoginOk
  BY <1>4 DEF LoginOk, Goto
<1>5. CASE LoginFails
  <2>1. /\ cmds' = [cmds EXCEPT ![conn] = <<>>] /\ asked' = [asked EXCEPT ![conn] = <<>>]
        /\ back' = [back EXCEPT ![conn] = <<>>]
    BY <1>5 DEF LoginFails, EndTask
  <2>2. <<>> \in Seq(Name) /\ <<>> \in Seq(Name \X Outcome)
    OBVIOUS
  <2> QED
    BY <2>1, <2>2
<1>6. ASSUME NEW p \in Name, Register(p) PROVE SeqTypes'
  <2>1. conn \in Conn /\ cmds[conn] \in Seq(Name)
    BY <1>6 DEF Register
  <2>2. Append(cmds[conn], p) \in Seq(Name)
    BY <2>1, SeqFacts
  <2>3. cmds' = [cmds EXCEPT ![conn] = Append(cmds[conn], p)] /\ UNCHANGED <<asked, back>>
    BY <1>6 DEF Register, Ask
  <2> QED
    BY <2>2, <2>3
<1>7. CASE RegisterLost
  BY <1>7 DEF RegisterLost, Goto, Over
<1>8. ASSUME NEW o \in Outcome, Registered(o) PROVE SeqTypes'
  <2>1. conn \in Conn /\ back[conn] # <<>> /\ UNCHANGED <<cmds, asked>>
        /\ back' = [back EXCEPT ![conn] = Tail(back[conn])]
    BY <1>8 DEF Registered, TakeAnswer
  <2>2. Tail(back[conn]) \in Seq(Name \X Outcome)
    BY <2>1, SeqFacts
  <2> QED
    BY <2>1, <2>2
<1>9. CASE RegisterTimeout
  BY <1>9 DEF RegisterTimeout, TriedAgain, Goto
<1>10. CASE Serve
  BY <1>10 DEF Serve, Goto
<1>11. CASE SessionEnds
  BY <1>11 DEF SessionEnds
<1>12. CASE WaitBackoff
  BY <1>12 DEF WaitBackoff, NextBackoff
<1>13. CASE Lasts
  BY <1>13 DEF Lasts
<1>14. CASE Shutdown
  BY <1>14 DEF Shutdown
<1>15. ASSUME NEW c \in Conn, TaskLost(c) PROVE SeqTypes'
  <2>1. /\ cmds' = [cmds EXCEPT ![c] = <<>>] /\ asked' = [asked EXCEPT ![c] = <<>>]
        /\ back' = [back EXCEPT ![c] = <<>>]
    BY <1>15 DEF TaskLost, EndTask
  <2>2. <<>> \in Seq(Name) /\ <<>> \in Seq(Name \X Outcome)
    OBVIOUS
  <2> QED
    BY <2>1, <2>2
<1>16. ASSUME NEW c \in Conn, TaskReturns(c) PROVE SeqTypes'
  <2>1. /\ cmds' = [cmds EXCEPT ![c] = <<>>] /\ asked' = [asked EXCEPT ![c] = <<>>]
        /\ back' = [back EXCEPT ![c] = <<>>]
    BY <1>16 DEF TaskReturns, EndTask
  <2>2. <<>> \in Seq(Name) /\ <<>> \in Seq(Name \X Outcome)
    OBVIOUS
  <2> QED
    BY <2>1, <2>2
<1>17. ASSUME NEW c \in Conn, SendOn(c) PROVE SeqTypes'
  <2>1. Head(cmds[c]) \in Name /\ Tail(cmds[c]) \in Seq(Name)
    BY <1>17, SeqFacts DEF SendOn
  <2>2. Append(asked[c], Head(cmds[c])) \in Seq(Name)
    BY <2>1, SeqFacts
  <2>3. /\ cmds' = [cmds EXCEPT ![c] = Tail(cmds[c])] /\ UNCHANGED back
        /\ asked' = [asked EXCEPT ![c] = Append(asked[c], Head(cmds[c]))]
    BY <1>17 DEF SendOn
  <2> QED
    BY <2>1, <2>2, <2>3
<1>18. ASSUME NEW c \in Conn, ServerAnswers(c) PROVE SeqTypes'
  <2>1. PICK o \in Outcome :
          /\ back' = [back EXCEPT ![c] = Append(back[c], <<Head(asked[c]), o>>)]
          /\ asked' = [asked EXCEPT ![c] = Tail(asked[c])] /\ UNCHANGED cmds
    BY <1>18 DEF ServerAnswers, Outcome
  <2>2. Head(asked[c]) \in Name /\ Tail(asked[c]) \in Seq(Name)
    BY <1>18, SeqFacts DEF ServerAnswers
  <2>3. <<Head(asked[c]), o>> \in Name \X Outcome
    BY <2>2
  <2>4. Append(back[c], <<Head(asked[c]), o>>) \in Seq(Name \X Outcome)
    BY <2>3, SeqFacts
  <2> QED
    BY <2>1, <2>2, <2>4
<1>19. ASSUME NEW c \in Conn, DropAnswer(c) PROVE SeqTypes'
  <2>1. c \in Conn /\ back[c] # <<>> /\ UNCHANGED <<cmds, asked>>
        /\ back' = [back EXCEPT ![c] = Tail(back[c])]
    BY <1>19 DEF DropAnswer
  <2>2. Tail(back[c]) \in Seq(Name \X Outcome)
    BY <2>1, SeqFacts
  <2> QED
    BY <2>1, <2>2
<1>20. ASSUME NEW c \in Conn, RetryWakes(c) PROVE SeqTypes'
  BY <1>20 DEF RetryWakes, LoopOver
<1>21. ASSUME NEW c \in Conn, NEW p \in Name, RetryAsks(c, p) PROVE SeqTypes'
  <2>1. c \in Conn /\ cmds[c] \in Seq(Name)
    BY <1>21 DEF RetryAsks
  <2>2. Append(cmds[c], p) \in Seq(Name)
    BY <2>1, SeqFacts
  <2>3. cmds' = [cmds EXCEPT ![c] = Append(cmds[c], p)] /\ UNCHANGED <<asked, back>>
    BY <1>21 DEF RetryAsks, Ask
  <2> QED
    BY <2>2, <2>3
<1>22. ASSUME NEW c \in Conn, RetryLost(c) PROVE SeqTypes'
  BY <1>22 DEF RetryLost, LoopOver
<1>23. ASSUME NEW c \in Conn, NEW o \in Outcome, RetryAnswered(c, o) PROVE SeqTypes'
  <2>1. c \in Conn /\ back[c] # <<>> /\ UNCHANGED <<cmds, asked>>
        /\ back' = [back EXCEPT ![c] = Tail(back[c])]
    BY <1>23 DEF RetryAnswered, TakeAnswer
  <2>2. Tail(back[c]) \in Seq(Name \X Outcome)
    BY <2>1, SeqFacts
  <2> QED
    BY <2>1, <2>2
<1>24. ASSUME NEW c \in Conn, RetryTimeout(c) PROVE SeqTypes'
  BY <1>24 DEF RetryTimeout
<1>25. ASSUME NEW c \in Conn, RetryRoundDone(c) PROVE SeqTypes'
  BY <1>25 DEF RetryRoundDone, LoopOver
<1> QED
  BY <1>1, <1>2, <1>3, <1>4, <1>5, <1>6, <1>7, <1>8, <1>9, <1>10, <1>11, <1>12, <1>13, <1>14,
     <1>15, <1>16, <1>17, <1>18, <1>19, <1>20, <1>21, <1>22, <1>23, <1>24, <1>25 DEF Next, Main,
     Retry

\* No retry task begins before its attempt is served.
LEMMA PhaseStep == Types /\ SeqTypes /\ PhaseInv /\ [Next]_vars => PhaseInv'
<1> SUFFICES ASSUME Types, SeqTypes, PhaseInv, [Next]_vars PROVE PhaseInv'
  OBVIOUS
<1> USE Facts, SetupFacts DEF Types, PhaseInv, run, lists, control, retry
<1>1. CASE UNCHANGED vars
  BY <1>1 DEF vars
<1>2. CASE Connect
  BY <1>2 DEF Connect
<1>3. CASE Handshake
  BY <1>3 DEF Handshake, Goto, Over
<1>4. CASE LoginOk
  BY <1>4 DEF LoginOk, Goto
<1>5. CASE LoginFails
  BY <1>5 DEF LoginFails, Goto, Over, EndTask
<1>6. ASSUME NEW p \in Name, Register(p) PROVE PhaseInv'
  BY <1>6 DEF Register, Ask, Goto
<1>7. CASE RegisterLost
  BY <1>7 DEF RegisterLost, Goto, Over
<1>8. ASSUME NEW o \in Outcome, Registered(o) PROVE PhaseInv'
  BY <1>8 DEF Registered, TakeAnswer, ForWaiter, Goto
<1>9. CASE RegisterTimeout
  BY <1>9 DEF RegisterTimeout, TriedAgain, Goto
<1>10. CASE Serve
  BY <1>10 DEF Serve, Goto
<1>11. CASE SessionEnds
  BY <1>11 DEF SessionEnds
<1>12. CASE WaitBackoff
  BY <1>12 DEF WaitBackoff, NextBackoff
<1>13. CASE Lasts
  BY <1>13 DEF Lasts
<1>14. CASE Shutdown
  BY <1>14 DEF Shutdown
<1>15. ASSUME NEW c \in Conn, TaskLost(c) PROVE PhaseInv'
  BY <1>15 DEF TaskLost, EndTask
<1>16. ASSUME NEW c \in Conn, TaskReturns(c) PROVE PhaseInv'
  BY <1>16 DEF TaskReturns, EndTask
<1>17. ASSUME NEW c \in Conn, SendOn(c) PROVE PhaseInv'
  BY <1>17 DEF SendOn
<1>18. ASSUME NEW c \in Conn, ServerAnswers(c) PROVE PhaseInv'
  BY <1>18 DEF ServerAnswers
<1>19. ASSUME NEW c \in Conn, DropAnswer(c) PROVE PhaseInv'
  BY <1>19 DEF DropAnswer
<1>20. ASSUME NEW c \in Conn, RetryWakes(c) PROVE PhaseInv'
  BY <1>20 DEF RetryWakes, LoopOver
<1>21. ASSUME NEW c \in Conn, NEW p \in Name, RetryAsks(c, p) PROVE PhaseInv'
  BY <1>21 DEF RetryAsks, Ask
<1>22. ASSUME NEW c \in Conn, RetryLost(c) PROVE PhaseInv'
  BY <1>22 DEF RetryLost, LoopOver
<1>23. ASSUME NEW c \in Conn, NEW o \in Outcome, RetryAnswered(c, o) PROVE PhaseInv'
  BY <1>23 DEF RetryAnswered, TakeAnswer, ForWaiter
<1>24. ASSUME NEW c \in Conn, RetryTimeout(c) PROVE PhaseInv'
  BY <1>24 DEF RetryTimeout
<1>25. ASSUME NEW c \in Conn, RetryRoundDone(c) PROVE PhaseInv'
  BY <1>25 DEF RetryRoundDone, LoopOver
<1> QED
  BY <1>1, <1>2, <1>3, <1>4, <1>5, <1>6, <1>7, <1>8, <1>9, <1>10, <1>11, <1>12, <1>13, <1>14,
     <1>15, <1>16, <1>17, <1>18, <1>19, <1>20, <1>21, <1>22, <1>23, <1>24, <1>25 DEF Next, Main,
     Retry

\* A retry loop ends with its last round.
LEMMA RoundStep == Types /\ PhaseInv /\ RoundInv /\ [Next]_vars => RoundInv'
<1> SUFFICES ASSUME Types, PhaseInv, RoundInv, [Next]_vars PROVE RoundInv'
  OBVIOUS
<1> USE Facts, SetupFacts DEF Types, RoundInv, run, lists, control, retry
<1>1. CASE UNCHANGED vars
  BY <1>1 DEF vars
<1>2. CASE Connect
  BY <1>2 DEF Connect
<1>3. CASE Handshake
  BY <1>3 DEF Handshake, Goto, Over
<1>4. CASE LoginOk
  BY <1>4 DEF LoginOk, Goto
<1>5. CASE LoginFails
  BY <1>5 DEF LoginFails, Goto, Over, EndTask
<1>6. ASSUME NEW p \in Name, Register(p) PROVE RoundInv'
  BY <1>6 DEF Register, Ask, Goto
<1>7. CASE RegisterLost
  BY <1>7 DEF RegisterLost, Goto, Over
<1>8. ASSUME NEW o \in Outcome, Registered(o) PROVE RoundInv'
  BY <1>8 DEF Registered, TakeAnswer, ForWaiter, Goto
<1>9. CASE RegisterTimeout
  BY <1>9 DEF RegisterTimeout, TriedAgain, Goto
<1>10. CASE Serve
  BY <1>10 DEF Serve, Goto, PhaseInv
<1>11. CASE SessionEnds
  BY <1>11 DEF SessionEnds
<1>12. CASE WaitBackoff
  BY <1>12 DEF WaitBackoff, NextBackoff
<1>13. CASE Lasts
  BY <1>13 DEF Lasts
<1>14. CASE Shutdown
  BY <1>14 DEF Shutdown
<1>15. ASSUME NEW c \in Conn, TaskLost(c) PROVE RoundInv'
  BY <1>15 DEF TaskLost, EndTask
<1>16. ASSUME NEW c \in Conn, TaskReturns(c) PROVE RoundInv'
  BY <1>16 DEF TaskReturns, EndTask
<1>17. ASSUME NEW c \in Conn, SendOn(c) PROVE RoundInv'
  BY <1>17 DEF SendOn
<1>18. ASSUME NEW c \in Conn, ServerAnswers(c) PROVE RoundInv'
  BY <1>18 DEF ServerAnswers
<1>19. ASSUME NEW c \in Conn, DropAnswer(c) PROVE RoundInv'
  BY <1>19 DEF DropAnswer
<1>20. ASSUME NEW c \in Conn, RetryWakes(c) PROVE RoundInv'
  BY <1>20 DEF RetryWakes, LoopOver
<1>21. ASSUME NEW c \in Conn, NEW p \in Name, RetryAsks(c, p) PROVE RoundInv'
  BY <1>21 DEF RetryAsks, Ask
<1>22. ASSUME NEW c \in Conn, RetryLost(c) PROVE RoundInv'
  BY <1>22 DEF RetryLost, LoopOver
<1>23. ASSUME NEW c \in Conn, NEW o \in Outcome, RetryAnswered(c, o) PROVE RoundInv'
  BY <1>23 DEF RetryAnswered, TakeAnswer, ForWaiter
<1>24. ASSUME NEW c \in Conn, RetryTimeout(c) PROVE RoundInv'
  BY <1>24 DEF RetryTimeout
<1>25. ASSUME NEW c \in Conn, RetryRoundDone(c) PROVE RoundInv'
  BY <1>25 DEF RetryRoundDone, LoopOver
<1> QED
  BY <1>1, <1>2, <1>3, <1>4, <1>5, <1>6, <1>7, <1>8, <1>9, <1>10, <1>11, <1>12, <1>13, <1>14,
     <1>15, <1>16, <1>17, <1>18, <1>19, <1>20, <1>21, <1>22, <1>23, <1>24, <1>25 DEF Next, Main,
     Retry

\* The positions of a sequence before its last.
LEMMA UpTo == \A n \in Nat : \A k \in 1..(n + 1) : k # n + 1 => k \in 1..n
OBVIOUS

\* Taking an answer leaves the others true.
LEMMA TailTrue ==
    ASSUME SeqTypes, AnswersTrue, NEW c \in Conn, back[c] # <<>>, UNCHANGED served,
           back' = [back EXCEPT ![c] = Tail(back[c])]
    PROVE  AnswersTrue'
<1> DEFINE t == Tail(back[c])
<1>1. Len(t) = Len(back[c]) - 1 /\ \A k \in 1..Len(t) : t[k] = back[c][k + 1]
  BY HeadTailProperties DEF SeqTypes
<1>2. Len(back[c]) \in Nat
  BY DEF SeqTypes
<1>3. ASSUME NEW k \in 1..Len(t), t[k][2] = "ok" PROVE t[k][1] \in served[c]
  <2>1. k + 1 \in 1..Len(back[c]) /\ t[k] = back[c][k + 1]
    BY <1>1, <1>2
  <2> QED
    BY <2>1, <1>3 DEF AnswersTrue
<1>4. back'[c] = t /\ \A d \in Conn : d # c => back'[d] = back[d]
  BY DEF SeqTypes
<1> HIDE DEF t
<1> QED
  BY <1>3, <1>4 DEF AnswersTrue

\* An answer that is taken is of the proxy waited for, which the server has if it is ok.
LEMMA TakenTrue ==
    ASSUME SeqTypes, AnswersTrue, NEW c \in Conn, NEW o \in Outcome, TakeAnswer(c, o)
    PROVE  waiting[c] \in Name /\ (o = "ok" => waiting[c] \in served[c])
<1>1. back[c] \in Seq(Name \X Outcome) /\ back[c] # <<>> /\ Head(back[c]) = back[c][1]
  BY DEF SeqTypes, TakeAnswer
<1>2. Head(back[c]) \in Name \X Outcome /\ 1 \in 1..Len(back[c])
  BY <1>1
<1> QED
  BY <1>1, <1>2 DEF AnswersTrue, TakeAnswer, ForWaiter

\* The server answers ok only for what it has entered, and never takes it out again.
LEMMA AnswerStep == Types /\ SeqTypes /\ PhaseInv /\ AnswersTrue /\ [Next]_vars => AnswersTrue'
<1> SUFFICES ASSUME Types, SeqTypes, PhaseInv, AnswersTrue, [Next]_vars PROVE AnswersTrue'
  OBVIOUS
<1> USE Facts DEF Types, SeqTypes, AnswersTrue, run, lists, control, retry
<1>1. CASE UNCHANGED vars
  BY <1>1 DEF vars
<1>2. CASE Connect
  BY <1>2 DEF Connect
<1>3. CASE Handshake
  BY <1>3 DEF Handshake, Goto, Over
<1>4. CASE LoginOk
  BY <1>4 DEF LoginOk, Goto
<1>5. CASE LoginFails
  BY <1>5 DEF LoginFails, Goto, Over, EndTask
<1>6. ASSUME NEW p \in Name, Register(p) PROVE AnswersTrue'
  BY <1>6 DEF Register, Ask, Goto
<1>7. CASE RegisterLost
  BY <1>7 DEF RegisterLost, Goto, Over
<1>8. ASSUME NEW o \in Outcome, Registered(o) PROVE AnswersTrue'
  <2>1. /\ conn \in Conn /\ back[conn] # <<>> /\ UNCHANGED served
        /\ back' = [back EXCEPT ![conn] = Tail(back[conn])]
    BY <1>8 DEF Registered, TakeAnswer, PhaseInv
  <2> QED
    BY <2>1, TailTrue
<1>9. CASE RegisterTimeout
  BY <1>9 DEF RegisterTimeout, TriedAgain, Goto
<1>10. CASE Serve
  BY <1>10 DEF Serve, Goto
<1>11. CASE SessionEnds
  BY <1>11 DEF SessionEnds
<1>12. CASE WaitBackoff
  BY <1>12 DEF WaitBackoff, NextBackoff
<1>13. CASE Lasts
  BY <1>13 DEF Lasts
<1>14. CASE Shutdown
  BY <1>14 DEF Shutdown
<1>15. ASSUME NEW c \in Conn, TaskLost(c) PROVE AnswersTrue'
  BY <1>15 DEF TaskLost, EndTask
<1>16. ASSUME NEW c \in Conn, TaskReturns(c) PROVE AnswersTrue'
  BY <1>16 DEF TaskReturns, EndTask
<1>17. ASSUME NEW c \in Conn, SendOn(c) PROVE AnswersTrue'
  BY <1>17 DEF SendOn
<1>18. ASSUME NEW c \in Conn, ServerAnswers(c) PROVE AnswersTrue'
  <2> DEFINE p == Head(asked[c])
  <2>1. PICK o \in Outcome :
          /\ back' = [back EXCEPT ![c] = Append(back[c], <<p, o>>)]
          /\ served' = [served EXCEPT ![c] = IF o = "ok" THEN served[c] \cup {p} ELSE served[c]]
    BY <1>18 DEF ServerAnswers, Outcome
  <2>2. p \in Name
    BY <1>18, SeqFacts DEF ServerAnswers
  <2>3. <<p, o>> \in Name \X Outcome /\ back[c] \in Seq(Name \X Outcome)
    BY <2>2
  <2>4. /\ Len(Append(back[c], <<p, o>>)) = Len(back[c]) + 1 /\ Len(back[c]) \in Nat
        /\ \A k \in 1..Len(back[c]) : Append(back[c], <<p, o>>)[k] = back[c][k]
        /\ Append(back[c], <<p, o>>)[Len(back[c]) + 1] = <<p, o>>
    <3> DEFINE s == back[c]
    <3> DEFINE a == <<p, o>>
    <3>1. a \in Name \X Outcome /\ s \in Seq(Name \X Outcome)
      BY <2>3
    <3> HIDE DEF s, a
    <3>2. /\ Len(Append(s, a)) = Len(s) + 1 /\ Len(s) \in Nat
          /\ \A k \in 1..Len(s) : Append(s, a)[k] = s[k]
          /\ Append(s, a)[Len(s) + 1] = a
      <4>1. Len(s) \in Nat
        BY <3>1
      <4>2. Len(Append(s, a)) = Len(s) + 1 /\ Append(s, a)[Len(s) + 1] = a
        BY <3>1, AppendProperties, SMTT(30)
      <4>3. \A k \in 1..Len(s) : Append(s, a)[k] = s[k]
        BY <3>1, AppendProperties, SMTT(30)
      <4> QED
        BY <4>1, <4>2, <4>3
    <3> QED
      BY <3>2 DEF s, a
  <2>5. back'[c] = Append(back[c], <<p, o>>) /\ \A d \in Conn : d # c => back'[d] = back[d]
    BY <2>1
  <2>6. \A d \in Conn : served[d] \subseteq served'[d]
    BY <2>1
  <2>7. o = "ok" => p \in served'[c]
    BY <2>1
  <2> HIDE DEF p
  <2>8. ASSUME NEW k \in 1..Len(back'[c]), back'[c][k][2] = "ok"
        PROVE  back'[c][k][1] \in served'[c]
    <3>1. CASE k = Len(back[c]) + 1
      <4>1. back'[c][k] = <<p, o>>
        BY <3>1, <2>4, <2>5
      <4>2. back'[c][k][1] = p /\ back'[c][k][2] = o
        BY <4>1
      <4> QED
        BY <4>2, <2>7, <2>8
    <3>2. CASE k # Len(back[c]) + 1
      <4>1. k \in 1..(Len(back[c]) + 1) /\ Len(back[c]) \in Nat
        BY <2>4, <2>5
      <4>2. k \in 1..Len(back[c])
        BY <3>2, <4>1, UpTo
      <4>3. back'[c][k] = back[c][k]
        BY <4>2, <2>4, <2>5
      <4> QED
        BY <4>2, <4>3, <2>6, <2>8
    <3> QED
      BY <3>1, <3>2
  <2> QED
    BY <2>5, <2>6, <2>8
<1>19. ASSUME NEW c \in Conn, DropAnswer(c) PROVE AnswersTrue'
  <2>1. /\ c \in Conn /\ back[c] # <<>> /\ UNCHANGED served
        /\ back' = [back EXCEPT ![c] = Tail(back[c])]
    BY <1>19 DEF DropAnswer, PhaseInv
  <2> QED
    BY <2>1, TailTrue
<1>20. ASSUME NEW c \in Conn, RetryWakes(c) PROVE AnswersTrue'
  BY <1>20 DEF RetryWakes, LoopOver
<1>21. ASSUME NEW c \in Conn, NEW p \in Name, RetryAsks(c, p) PROVE AnswersTrue'
  BY <1>21 DEF RetryAsks, Ask
<1>22. ASSUME NEW c \in Conn, RetryLost(c) PROVE AnswersTrue'
  BY <1>22 DEF RetryLost, LoopOver
<1>23. ASSUME NEW c \in Conn, NEW o \in Outcome, RetryAnswered(c, o) PROVE AnswersTrue'
  <2>1. /\ c \in Conn /\ back[c] # <<>> /\ UNCHANGED served
        /\ back' = [back EXCEPT ![c] = Tail(back[c])]
    BY <1>23 DEF RetryAnswered, TakeAnswer, PhaseInv
  <2> QED
    BY <2>1, TailTrue
<1>24. ASSUME NEW c \in Conn, RetryTimeout(c) PROVE AnswersTrue'
  BY <1>24 DEF RetryTimeout
<1>25. ASSUME NEW c \in Conn, RetryRoundDone(c) PROVE AnswersTrue'
  BY <1>25 DEF RetryRoundDone, LoopOver
<1> QED
  BY <1>1, <1>2, <1>3, <1>4, <1>5, <1>6, <1>7, <1>8, <1>9, <1>10, <1>11, <1>12, <1>13, <1>14,
     <1>15, <1>16, <1>17, <1>18, <1>19, <1>20, <1>21, <1>22, <1>23, <1>24, <1>25 DEF Next, Main,
     Retry

\* The client believes only an ok, for the proxy the ok names.
LEMMA ServedStep == Types /\ SeqTypes /\ PhaseInv /\ AnswersTrue /\ RegisteredServed /\
   [Next]_vars => RegisteredServed'
<1> SUFFICES ASSUME Types, SeqTypes, PhaseInv, AnswersTrue, RegisteredServed, [Next]_vars PROVE
   RegisteredServed'
  OBVIOUS
<1> USE Facts DEF Types, RegisteredServed, run, lists, control, retry
<1>1. CASE UNCHANGED vars
  BY <1>1 DEF vars
<1>2. CASE Connect
  BY <1>2 DEF Connect
<1>3. CASE Handshake
  BY <1>3 DEF Handshake, Goto, Over
<1>4. CASE LoginOk
  BY <1>4 DEF LoginOk, Goto
<1>5. CASE LoginFails
  BY <1>5 DEF LoginFails, Goto, Over, EndTask
<1>6. ASSUME NEW p \in Name, Register(p) PROVE RegisteredServed'
  BY <1>6 DEF Register, Ask, Goto
<1>7. CASE RegisterLost
  BY <1>7 DEF RegisterLost, Goto, Over
<1>8. ASSUME NEW o \in Outcome, Registered(o) PROVE RegisteredServed'
  <2>1. conn \in Conn /\ TakeAnswer(conn, o) /\ UNCHANGED served
    BY <1>8 DEF Registered, PhaseInv
  <2>2. o = "ok" => waiting[conn] \in served[conn]
    BY <2>1, TakenTrue
  <2> QED
    BY <2>1, <2>2 DEF TakeAnswer
<1>9. CASE RegisterTimeout
  BY <1>9 DEF RegisterTimeout, TriedAgain, Goto
<1>10. CASE Serve
  BY <1>10 DEF Serve, Goto
<1>11. CASE SessionEnds
  BY <1>11 DEF SessionEnds
<1>12. CASE WaitBackoff
  BY <1>12 DEF WaitBackoff, NextBackoff
<1>13. CASE Lasts
  BY <1>13 DEF Lasts
<1>14. CASE Shutdown
  BY <1>14 DEF Shutdown
<1>15. ASSUME NEW c \in Conn, TaskLost(c) PROVE RegisteredServed'
  BY <1>15 DEF TaskLost, EndTask
<1>16. ASSUME NEW c \in Conn, TaskReturns(c) PROVE RegisteredServed'
  BY <1>16 DEF TaskReturns, EndTask
<1>17. ASSUME NEW c \in Conn, SendOn(c) PROVE RegisteredServed'
  BY <1>17 DEF SendOn
<1>18. ASSUME NEW c \in Conn, ServerAnswers(c) PROVE RegisteredServed'
  BY <1>18 DEF ServerAnswers
<1>19. ASSUME NEW c \in Conn, DropAnswer(c) PROVE RegisteredServed'
  BY <1>19 DEF DropAnswer
<1>20. ASSUME NEW c \in Conn, RetryWakes(c) PROVE RegisteredServed'
  BY <1>20 DEF RetryWakes, LoopOver
<1>21. ASSUME NEW c \in Conn, NEW p \in Name, RetryAsks(c, p) PROVE RegisteredServed'
  BY <1>21 DEF RetryAsks, Ask
<1>22. ASSUME NEW c \in Conn, RetryLost(c) PROVE RegisteredServed'
  BY <1>22 DEF RetryLost, LoopOver
<1>23. ASSUME NEW c \in Conn, NEW o \in Outcome, RetryAnswered(c, o) PROVE RegisteredServed'
  <2>1. c \in Conn /\ TakeAnswer(c, o) /\ UNCHANGED served
    BY <1>23 DEF RetryAnswered, PhaseInv
  <2>2. o = "ok" => waiting[c] \in served[c]
    BY <2>1, TakenTrue
  <2> QED
    BY <2>1, <2>2 DEF TakeAnswer
<1>24. ASSUME NEW c \in Conn, RetryTimeout(c) PROVE RegisteredServed'
  BY <1>24 DEF RetryTimeout
<1>25. ASSUME NEW c \in Conn, RetryRoundDone(c) PROVE RegisteredServed'
  BY <1>25 DEF RetryRoundDone, LoopOver
<1> QED
  BY <1>1, <1>2, <1>3, <1>4, <1>5, <1>6, <1>7, <1>8, <1>9, <1>10, <1>11, <1>12, <1>13, <1>14,
     <1>15, <1>16, <1>17, <1>18, <1>19, <1>20, <1>21, <1>22, <1>23, <1>24, <1>25 DEF Next, Main,
     Retry

\* A proxy leaves todo for one of the other lists, or for the wait for its answer.
LEMMA AccountStep == Types /\ SeqTypes /\ PhaseInv /\ Accounted /\ [Next]_vars => Accounted'
<1> SUFFICES ASSUME Types, SeqTypes, PhaseInv, Accounted, [Next]_vars PROVE Accounted'
  OBVIOUS
<1> USE Facts DEF Types, PhaseInv, Accounted, run, lists, control, retry
<1>1. CASE UNCHANGED vars
  BY <1>1 DEF vars
<1>2. CASE Connect
  BY <1>2 DEF Connect
<1>3. CASE Handshake
  BY <1>3 DEF Handshake, Goto, Over
<1>4. CASE LoginOk
  BY <1>4 DEF LoginOk, Goto
<1>5. CASE LoginFails
  BY <1>5 DEF LoginFails, Goto, Over, EndTask
<1>6. ASSUME NEW p \in Name, Register(p) PROVE Accounted'
  BY <1>6 DEF Register, Ask, Goto
<1>7. CASE RegisterLost
  BY <1>7 DEF RegisterLost, Goto, Over
<1>8. ASSUME NEW o \in Outcome, Registered(o) PROVE Accounted'
  <2>1. conn \in Conn /\ rpc = "await"
    BY <1>8 DEF Registered
  <2>2. believed'[conn] = IF o = "ok" THEN believed[conn] \cup {waiting[conn]} ELSE
     believed[conn]
    BY <1>8, <2>1 DEF Registered, TakeAnswer
  <2>3. /\ again \subseteq again' /\ keep \subseteq keep' /\ refused \subseteq refused'
        /\ UNCHANGED <<todo, setup, conn>> /\ rpc' = "register"
    BY <1>8 DEF Registered, Goto
  <2>4. waiting[conn] \in believed'[conn] \cup again' \cup keep' \cup refused'
    BY <1>8, <2>2 DEF Registered, Outcome
  <2> QED
    BY <2>1, <2>2, <2>3, <2>4
<1>9. CASE RegisterTimeout
  BY <1>9 DEF RegisterTimeout, TriedAgain, Goto
<1>10. CASE Serve
  BY <1>10 DEF Serve, Goto
<1>11. CASE SessionEnds
  BY <1>11 DEF SessionEnds
<1>12. CASE WaitBackoff
  BY <1>12 DEF WaitBackoff, NextBackoff
<1>13. CASE Lasts
  BY <1>13 DEF Lasts
<1>14. CASE Shutdown
  BY <1>14 DEF Shutdown
<1>15. ASSUME NEW c \in Conn, TaskLost(c) PROVE Accounted'
  BY <1>15 DEF TaskLost, EndTask
<1>16. ASSUME NEW c \in Conn, TaskReturns(c) PROVE Accounted'
  BY <1>16 DEF TaskReturns, EndTask
<1>17. ASSUME NEW c \in Conn, SendOn(c) PROVE Accounted'
  BY <1>17 DEF SendOn
<1>18. ASSUME NEW c \in Conn, ServerAnswers(c) PROVE Accounted'
  BY <1>18 DEF ServerAnswers
<1>19. ASSUME NEW c \in Conn, DropAnswer(c) PROVE Accounted'
  BY <1>19 DEF DropAnswer
<1>20. ASSUME NEW c \in Conn, RetryWakes(c) PROVE Accounted'
  BY <1>20 DEF RetryWakes, LoopOver
<1>21. ASSUME NEW c \in Conn, NEW p \in Name, RetryAsks(c, p) PROVE Accounted'
  BY <1>21 DEF RetryAsks, Ask
<1>22. ASSUME NEW c \in Conn, RetryLost(c) PROVE Accounted'
  BY <1>22 DEF RetryLost, LoopOver
<1>23. ASSUME NEW c \in Conn, NEW o \in Outcome, RetryAnswered(c, o) PROVE Accounted'
  BY <1>23 DEF RetryAnswered, TakeAnswer, ForWaiter
<1>24. ASSUME NEW c \in Conn, RetryTimeout(c) PROVE Accounted'
  BY <1>24 DEF RetryTimeout
<1>25. ASSUME NEW c \in Conn, RetryRoundDone(c) PROVE Accounted'
  BY <1>25 DEF RetryRoundDone, LoopOver
<1> QED
  BY <1>1, <1>2, <1>3, <1>4, <1>5, <1>6, <1>7, <1>8, <1>9, <1>10, <1>11, <1>12, <1>13, <1>14,
     <1>15, <1>16, <1>17, <1>18, <1>19, <1>20, <1>21, <1>22, <1>23, <1>24, <1>25 DEF Next, Main,
     Retry

\* The lists are filled only when the retry task begins.
LEMMA IdleStep == Types /\ PhaseInv /\ Idle /\ [Next]_vars => Idle'
<1> SUFFICES ASSUME Types, PhaseInv, Idle, [Next]_vars PROVE Idle'
  OBVIOUS
<1> USE Facts DEF Types, PhaseInv, Idle, run, lists, control, retry
<1>1. CASE UNCHANGED vars
  BY <1>1 DEF vars
<1>2. CASE Connect
  BY <1>2 DEF Connect
<1>3. CASE Handshake
  BY <1>3 DEF Handshake, Goto, Over
<1>4. CASE LoginOk
  BY <1>4 DEF LoginOk, Goto
<1>5. CASE LoginFails
  BY <1>5 DEF LoginFails, Goto, Over, EndTask
<1>6. ASSUME NEW p \in Name, Register(p) PROVE Idle'
  BY <1>6 DEF Register, Ask, Goto
<1>7. CASE RegisterLost
  BY <1>7 DEF RegisterLost, Goto, Over
<1>8. ASSUME NEW o \in Outcome, Registered(o) PROVE Idle'
  BY <1>8 DEF Registered, TakeAnswer, ForWaiter, Goto
<1>9. CASE RegisterTimeout
  BY <1>9 DEF RegisterTimeout, TriedAgain, Goto
<1>10. CASE Serve
  BY <1>10 DEF Serve, Goto
<1>11. CASE SessionEnds
  BY <1>11 DEF SessionEnds
<1>12. CASE WaitBackoff
  BY <1>12 DEF WaitBackoff, NextBackoff
<1>13. CASE Lasts
  BY <1>13 DEF Lasts
<1>14. CASE Shutdown
  BY <1>14 DEF Shutdown
<1>15. ASSUME NEW c \in Conn, TaskLost(c) PROVE Idle'
  BY <1>15 DEF TaskLost, EndTask
<1>16. ASSUME NEW c \in Conn, TaskReturns(c) PROVE Idle'
  BY <1>16 DEF TaskReturns, EndTask
<1>17. ASSUME NEW c \in Conn, SendOn(c) PROVE Idle'
  BY <1>17 DEF SendOn
<1>18. ASSUME NEW c \in Conn, ServerAnswers(c) PROVE Idle'
  BY <1>18 DEF ServerAnswers
<1>19. ASSUME NEW c \in Conn, DropAnswer(c) PROVE Idle'
  BY <1>19 DEF DropAnswer
<1>20. ASSUME NEW c \in Conn, RetryWakes(c) PROVE Idle'
  BY <1>20 DEF RetryWakes, LoopOver
<1>21. ASSUME NEW c \in Conn, NEW p \in Name, RetryAsks(c, p) PROVE Idle'
  BY <1>21 DEF RetryAsks, Ask
<1>22. ASSUME NEW c \in Conn, RetryLost(c) PROVE Idle'
  BY <1>22 DEF RetryLost, LoopOver
<1>23. ASSUME NEW c \in Conn, NEW o \in Outcome, RetryAnswered(c, o) PROVE Idle'
  BY <1>23 DEF RetryAnswered, TakeAnswer, ForWaiter
<1>24. ASSUME NEW c \in Conn, RetryTimeout(c) PROVE Idle'
  BY <1>24 DEF RetryTimeout
<1>25. ASSUME NEW c \in Conn, RetryRoundDone(c) PROVE Idle'
  BY <1>25 DEF RetryRoundDone, LoopOver
<1> QED
  BY <1>1, <1>2, <1>3, <1>4, <1>5, <1>6, <1>7, <1>8, <1>9, <1>10, <1>11, <1>12, <1>13, <1>14,
     <1>15, <1>16, <1>17, <1>18, <1>19, <1>20, <1>21, <1>22, <1>23, <1>24, <1>25 DEF Next, Main,
     Retry

\* The second list is started when the first is done.
LEMMA QueuedStep == Types /\ PhaseInv /\ Idle /\ Queued /\ [Next]_vars => Queued'
<1> SUFFICES ASSUME Types, PhaseInv, Idle, Queued, [Next]_vars PROVE Queued'
  OBVIOUS
<1> USE Facts DEF Types, PhaseInv, Queued, run, lists, control, retry
<1>1. CASE UNCHANGED vars
  BY <1>1 DEF vars
<1>2. CASE Connect
  BY <1>2 DEF Connect
<1>3. CASE Handshake
  BY <1>3 DEF Handshake, Goto, Over
<1>4. CASE LoginOk
  BY <1>4 DEF LoginOk, Goto
<1>5. CASE LoginFails
  BY <1>5 DEF LoginFails, Goto, Over, EndTask
<1>6. ASSUME NEW p \in Name, Register(p) PROVE Queued'
  BY <1>6 DEF Register, Ask, Goto
<1>7. CASE RegisterLost
  BY <1>7 DEF RegisterLost, Goto, Over
<1>8. ASSUME NEW o \in Outcome, Registered(o) PROVE Queued'
  BY <1>8 DEF Registered, TakeAnswer, ForWaiter, Goto
<1>9. CASE RegisterTimeout
  BY <1>9 DEF RegisterTimeout, TriedAgain, Goto
<1>10. CASE Serve
  <2>1. conn \in Conn
    BY <1>10 DEF Serve
  <2>2. CASE again \cup keep = {}
    BY <1>10, <2>1, <2>2 DEF Serve, Goto, Idle
  <2>3. CASE again \cup keep # {}
    <3>1. /\ list'[conn] = IF again # {} THEN again ELSE keep
          /\ second'[conn] = IF again # {} THEN keep ELSE {}
      BY <1>10, <2>1, <2>3 DEF Serve
    <3> QED
      BY <1>10, <2>1, <3>1 DEF Serve, Goto
  <2> QED
    BY <2>2, <2>3
<1>11. CASE SessionEnds
  BY <1>11 DEF SessionEnds
<1>12. CASE WaitBackoff
  BY <1>12 DEF WaitBackoff, NextBackoff
<1>13. CASE Lasts
  BY <1>13 DEF Lasts
<1>14. CASE Shutdown
  BY <1>14 DEF Shutdown
<1>15. ASSUME NEW c \in Conn, TaskLost(c) PROVE Queued'
  BY <1>15 DEF TaskLost, EndTask
<1>16. ASSUME NEW c \in Conn, TaskReturns(c) PROVE Queued'
  BY <1>16 DEF TaskReturns, EndTask
<1>17. ASSUME NEW c \in Conn, SendOn(c) PROVE Queued'
  BY <1>17 DEF SendOn
<1>18. ASSUME NEW c \in Conn, ServerAnswers(c) PROVE Queued'
  BY <1>18 DEF ServerAnswers
<1>19. ASSUME NEW c \in Conn, DropAnswer(c) PROVE Queued'
  BY <1>19 DEF DropAnswer
<1>20. ASSUME NEW c \in Conn, RetryWakes(c) PROVE Queued'
  BY <1>20 DEF RetryWakes, LoopOver
<1>21. ASSUME NEW c \in Conn, NEW p \in Name, RetryAsks(c, p) PROVE Queued'
  BY <1>21 DEF RetryAsks, Ask
<1>22. ASSUME NEW c \in Conn, RetryLost(c) PROVE Queued'
  BY <1>22 DEF RetryLost, LoopOver
<1>23. ASSUME NEW c \in Conn, NEW o \in Outcome, RetryAnswered(c, o) PROVE Queued'
  BY <1>23 DEF RetryAnswered, TakeAnswer, ForWaiter
<1>24. ASSUME NEW c \in Conn, RetryTimeout(c) PROVE Queued'
  BY <1>24 DEF RetryTimeout
<1>25. ASSUME NEW c \in Conn, RetryRoundDone(c) PROVE Queued'
  BY <1>25 DEF RetryRoundDone, LoopOver
<1> QED
  BY <1>1, <1>2, <1>3, <1>4, <1>5, <1>6, <1>7, <1>8, <1>9, <1>10, <1>11, <1>12, <1>13, <1>14,
     <1>15, <1>16, <1>17, <1>18, <1>19, <1>20, <1>21, <1>22, <1>23, <1>24, <1>25 DEF Next, Main,
     Retry

\* Handing over to the retry task, and going from its first list to the second, loses no proxy.
LEMMA NoneStep == Types /\ SeqTypes /\ PhaseInv /\ Accounted /\ Queued /\ NoneForgotten /\
   [Next]_vars => NoneForgotten'
<1> SUFFICES ASSUME Types, SeqTypes, PhaseInv, Accounted, Queued, NoneForgotten, [Next]_vars
   PROVE NoneForgotten'
  OBVIOUS
<1> USE Facts DEF Types, PhaseInv, NoneForgotten, run, lists, control, retry
<1>1. CASE UNCHANGED vars
  BY <1>1 DEF vars
<1>2. CASE Connect
  BY <1>2 DEF Connect
<1>3. CASE Handshake
  BY <1>3 DEF Handshake, Goto, Over
<1>4. CASE LoginOk
  BY <1>4 DEF LoginOk, Goto
<1>5. CASE LoginFails
  BY <1>5 DEF LoginFails, Goto, Over, EndTask
<1>6. ASSUME NEW p \in Name, Register(p) PROVE NoneForgotten'
  BY <1>6 DEF Register, Ask, Goto
<1>7. CASE RegisterLost
  BY <1>7 DEF RegisterLost, Goto, Over
<1>8. ASSUME NEW o \in Outcome, Registered(o) PROVE NoneForgotten'
  BY <1>8 DEF Registered, TakeAnswer, ForWaiter, Goto
<1>9. CASE RegisterTimeout
  BY <1>9 DEF RegisterTimeout, TriedAgain, Goto
<1>10. CASE Serve
  <2>1. conn \in Conn /\ tpc[conn] = "none"
    BY <1>10 DEF Serve
  <2>2. \A p \in setup.proxies : p \in believed[conn] \cup again \cup keep \cup refused
    BY <1>10 DEF Serve, Accounted
  <2>3. CASE again \cup keep = {}
    BY <1>10, <2>1, <2>2, <2>3 DEF Serve, Goto
  <2>4. CASE again \cup keep # {}
    <3>1. /\ list'[conn] = IF again # {} THEN again ELSE keep
          /\ second'[conn] = IF again # {} THEN keep ELSE {}
      BY <1>10, <2>1, <2>4 DEF Serve
    <3> QED
      BY <1>10, <2>1, <2>2, <3>1 DEF Serve, Goto
  <2> QED
    BY <2>3, <2>4
<1>11. CASE SessionEnds
  BY <1>11 DEF SessionEnds
<1>12. CASE WaitBackoff
  BY <1>12 DEF WaitBackoff, NextBackoff
<1>13. CASE Lasts
  BY <1>13 DEF Lasts
<1>14. CASE Shutdown
  BY <1>14 DEF Shutdown
<1>15. ASSUME NEW c \in Conn, TaskLost(c) PROVE NoneForgotten'
  BY <1>15 DEF TaskLost, EndTask
<1>16. ASSUME NEW c \in Conn, TaskReturns(c) PROVE NoneForgotten'
  BY <1>16 DEF TaskReturns, EndTask
<1>17. ASSUME NEW c \in Conn, SendOn(c) PROVE NoneForgotten'
  BY <1>17 DEF SendOn
<1>18. ASSUME NEW c \in Conn, ServerAnswers(c) PROVE NoneForgotten'
  BY <1>18 DEF ServerAnswers
<1>19. ASSUME NEW c \in Conn, DropAnswer(c) PROVE NoneForgotten'
  BY <1>19 DEF DropAnswer
<1>20. ASSUME NEW c \in Conn, RetryWakes(c) PROVE NoneForgotten'
  <2>1. CASE LoopOver(c)
    BY <1>20, <2>1 DEF RetryWakes, LoopOver, Queued
  <2>2. CASE ~LoopOver(c)
    BY <1>20, <2>2 DEF RetryWakes
  <2> QED
    BY <2>1, <2>2
<1>21. ASSUME NEW c \in Conn, NEW p \in Name, RetryAsks(c, p) PROVE NoneForgotten'
  BY <1>21 DEF RetryAsks, Ask
<1>22. ASSUME NEW c \in Conn, RetryLost(c) PROVE NoneForgotten'
  BY <1>22 DEF RetryLost, LoopOver, Queued
<1>23. ASSUME NEW c \in Conn, NEW o \in Outcome, RetryAnswered(c, o) PROVE NoneForgotten'
  BY <1>23 DEF RetryAnswered, TakeAnswer, ForWaiter
<1>24. ASSUME NEW c \in Conn, RetryTimeout(c) PROVE NoneForgotten'
  BY <1>24 DEF RetryTimeout
<1>25. ASSUME NEW c \in Conn, RetryRoundDone(c) PROVE NoneForgotten'
  <2>1. CASE LoopOver(c)
    BY <1>25, <2>1 DEF RetryRoundDone, LoopOver, Queued
  <2>2. CASE ~LoopOver(c)
    BY <1>25, <2>2 DEF RetryRoundDone
  <2> QED
    BY <2>1, <2>2
<1> QED
  BY <1>1, <1>2, <1>3, <1>4, <1>5, <1>6, <1>7, <1>8, <1>9, <1>10, <1>11, <1>12, <1>13, <1>14,
     <1>15, <1>16, <1>17, <1>18, <1>19, <1>20, <1>21, <1>22, <1>23, <1>24, <1>25 DEF Next, Main,
     Retry

\* The inductive invariant.  RegisteredServed needs that no ok under way is of a proxy the
\* server does not have, NoneForgotten that the proxies are accounted for before the retry
\* task gets them.
ClientInv ==
    /\ Types /\ SeqTypes /\ PhaseInv /\ RoundInv /\ Idle
    /\ AnswersTrue /\ RegisteredServed
    /\ Accounted /\ Queued /\ NoneForgotten

\* The client begins with nothing asked, answered or believed.
LEMMA ClientInit == Init => ClientInv
<1> SUFFICES ASSUME Init PROVE ClientInv
  OBVIOUS
<1> USE Facts DEF Init
<1>1. Types
  <2>1. backoff \in BackoffInit..BackoffMax /\ conn \in 0..MaxConn /\ round \in [Conn ->
     0..Rounds]
    OBVIOUS
  <2>2. /\ shutdown \in BOOLEAN /\ lived \in {"short", "attempt", "session"} /\ connected \in BOOLEAN
        /\ setup \in Setups
    OBVIOUS
  <2>3. /\ served \in [Conn -> SUBSET Name] /\ believed \in [Conn -> SUBSET Name]
        /\ list \in [Conn -> SUBSET Name] /\ second \in [Conn -> SUBSET Name]
        /\ left \in [Conn -> SUBSET Name] /\ waiting \in [Conn -> Name \cup {None}]
    OBVIOUS
  <2>4. /\ task \in [Conn -> {"none", "run", "ended"}]
        /\ tpc \in [Conn -> {"none", "sleep", "send", "await", "ended"}]
    OBVIOUS
  <2> QED
    BY <2>1, <2>2, <2>3, <2>4 DEF Types
<1>2. SeqTypes
  <2>1. <<>> \in Seq(Name) /\ <<>> \in Seq(Name \X Outcome)
    OBVIOUS
  <2> QED
    BY <2>1 DEF SeqTypes
<1>3. PhaseInv /\ RoundInv /\ Idle
  BY SetupFacts DEF PhaseInv, RoundInv, Idle
<1>4. AnswersTrue /\ RegisteredServed
  BY DEF AnswersTrue, RegisteredServed
<1>5. Accounted /\ Queued /\ NoneForgotten
  BY DEF Accounted, Queued, NoneForgotten
<1> QED
  BY <1>1, <1>2, <1>3, <1>4, <1>5 DEF ClientInv

\* The invariant is kept by run, by the control and retry tasks of every attempt and by
\* the server's answers, in whatever order they come.
THEOREM ClientInductive == Spec => []ClientInv
<1>1. Init => ClientInv
  BY ClientInit
<1>2. ClientInv /\ [Next]_vars => ClientInv'
  BY TypesStep, SeqStep, PhaseStep, RoundStep, IdleStep, AnswerStep, ServedStep, AccountStep,
     QueuedStep, NoneStep DEF ClientInv
<1> QED
  BY <1>1, <1>2, PTL DEF Spec

\* The variables keep their types, for any configuration and number of attempts.
THEOREM ClTypeCorrect == Spec => []TypeOK
<1>1. ClientInv => TypeOK
  BY TypeParts DEF ClientInv
<1> QED
  BY <1>1, ClientInductive, PTL

\* A proxy the client has logged as registered is registered at the server, however late
\* the answers to requests it has given up on arrive (client.rs:448-499).
THEOREM BeliefsAreServed == Spec => []RegisteredServed
<1>1. ClientInv => RegisteredServed
  BY DEF ClientInv
<1> QED
  BY <1>1, ClientInductive, PTL

\* No configured proxy drops out between connect_once and the two loops of its retry task
\* (client.rs:337-360, 543-618).
THEOREM NoProxyForgotten == Spec => []NoneForgotten
<1>1. ClientInv => NoneForgotten
  BY DEF ClientInv
<1> QED
  BY <1>1, ClientInductive, PTL

=============================================================================
