----------------------------- MODULE Rendezvous -----------------------------
(***************************************************************************)
(* What rfrps promises about user connections and work connections,        *)
(* without its tables, tasks and messages.  A user connection arrives at   *)
(* the proxy of a session and waits there; the client of that session      *)
(* offers work connections.  A waiting user and an offered work connection *)
(* of the same session and proxy are paired, each of them at most once,    *)
(* and a pair is parted for good.                                          *)
(***************************************************************************)
CONSTANTS
    User,       \* user connections
    Conn,       \* work connections
    Service,    \* a proxy of a session
    None

VARIABLES
    wants,      \* user -> the service it connected to, while it is connected
    offers,     \* work connection -> the service it is open for
    user,       \* user -> "new", "waiting", "paired", "gone"
    conn,       \* work connection -> the same
    partner     \* user -> its work connection

rvars == <<wants, offers, user, conn, partner>>

RInit ==
    /\ wants = [u \in User |-> None]
    /\ offers = [w \in Conn |-> None]
    /\ user = [u \in User |-> "new"]
    /\ conn = [w \in Conn |-> "new"]
    /\ partner = [u \in User |-> None]

UserGone(S) ==
    /\ user' = [u \in User |-> IF u \in S THEN "gone" ELSE user[u]]
    /\ wants' = [u \in User |-> IF u \in S THEN None ELSE wants[u]]
    /\ partner' = [u \in User |-> IF u \in S THEN None ELSE partner[u]]

ConnGone(S) ==
    /\ conn' = [w \in Conn |-> IF w \in S THEN "gone" ELSE conn[w]]
    /\ offers' = [w \in Conn |-> IF w \in S THEN None ELSE offers[w]]

Arrive(u) ==
    /\ user[u] = "new"
    /\ \E k \in Service : wants' = [wants EXCEPT ![u] = k]
    /\ user' = [user EXCEPT ![u] = "waiting"]
    /\ UNCHANGED <<offers, conn, partner>>

Offer(w) ==
    /\ conn[w] = "new"
    /\ \E k \in Service : offers' = [offers EXCEPT ![w] = k]
    /\ conn' = [conn EXCEPT ![w] = "waiting"]
    /\ UNCHANGED <<wants, user, partner>>

Pair(u, w) ==
    /\ user[u] = "waiting"
    /\ conn[w] = "waiting"
    /\ wants[u] = offers[w]
    /\ user' = [user EXCEPT ![u] = "paired"]
    /\ conn' = [conn EXCEPT ![w] = "paired"]
    /\ partner' = [partner EXCEPT ![u] = w]
    /\ UNCHANGED <<wants, offers>>

Part(u) ==
    /\ user[u] = "paired"
    /\ UserGone({u})
    /\ ConnGone({partner[u]})

\* Users that are new (turned away) or waiting may be closed, many at a time,
\* and so may work connections that wait.
GiveUp(S) ==
    /\ \A u \in S : user[u] \in {"new", "waiting"}
    /\ UserGone(S)
    /\ UNCHANGED <<offers, conn>>

Withdraw(S) ==
    /\ \A w \in S : conn[w] = "waiting"
    /\ ConnGone(S)
    /\ UNCHANGED <<wants, user, partner>>

RNext ==
    \/ \E u \in User : Arrive(u) \/ Part(u)
    \/ \E w \in Conn : Offer(w)
    \/ \E u \in User, w \in Conn : Pair(u, w)
    \/ \E S \in SUBSET User : GiveUp(S)
    \/ \E S \in SUBSET Conn : Withdraw(S)

RSpec == RInit /\ [][RNext]_rvars
=============================================================================
