-------------------------- MODULE MCSessionRegistry --------------------------
(***************************************************************************)
(* Instances of SessionRegistry for TLC.  The sessions are split in two     *)
(* groups, the connections of client alice and those of client bob; the    *)
(* cfg files choose how many of each there are and what each one offers.    *)
(***************************************************************************)
EXTENDS SessionRegistry, TLC

CONSTANTS
    AliceSessions, BobSessions,     \* connections of each client
    AliceOffers, BobOffers,         \* proxies in each client's configuration
    SshDomains,                     \* custom_domains of ssh, which a TCP proxy may have too
    alice, bob, home, ssh, dns, site,
    p22, p53, p2222, example

MCSession == AliceSessions \cup BobSessions
MCRunOf == [s \in MCSession |-> IF s \in AliceSessions THEN alice ELSE bob]
MCIpOf == [s \in MCSession |-> home]
MCOffers == (alice :> AliceOffers) @@ (bob :> BobOffers)
MCName == AliceOffers \cup BobOffers
MCKindOf == [n \in MCName |-> CASE n = dns -> "udp" [] n = site -> "vhost" [] OTHER -> "tcp"]
MCPortOf == [r \in {alice, bob} |-> [n \in MCName |->
    CASE n = ssh -> (IF r = alice THEN p22 ELSE p2222) [] n = dns -> p53 [] OTHER -> None]]
MCDomainsOf == [r \in {alice, bob} |->
    [n \in MCName |->
        CASE n = site -> {example} [] n = ssh -> SshDomains [] OTHER -> {}]]

Symmetry == Permutations(AliceSessions) \cup Permutations(BobSessions)
=============================================================================
