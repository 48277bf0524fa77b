\* A client that reconnects (alice) and one that does not (bob), behind one address that
\* may have one session; all three proxy kinds.
CONSTANTS
    None = None
    alice = alice
    bob = bob
    home = home
    ssh = ssh
    dns = dns
    site = site
    p22 = p22
    p53 = p53
    p2222 = p2222
    example = example
    AliceSessions = {a1, a2}
    BobSessions = {b1}
    AliceOffers = {ssh}
    BobOffers = {dns, site}
    SshDomains = {}
    Session <- MCSession
    RunId = {alice, bob}
    Ip = {home}
    Name <- MCName
    Port = {p22, p53, p2222}
    Domain = {example}
    RunOf <- MCRunOf
    IpOf <- MCIpOf
    Offers <- MCOffers
    KindOf <- MCKindOf
    PortOf <- MCPortOf
    DomainsOf <- MCDomainsOf
    MaxSessions = 2
    MaxSessionsPerIp = 1
    MaxProxies = 2
SPECIFICATION Spec
\* Every control connection is used once, so a run of the server may come to rest.
CHECK_DEADLOCK FALSE
SYMMETRY Symmetry
INVARIANTS TypeOK NoGhost LiveSessionRegistered ListenerOwned RoutedWhenUnshared
