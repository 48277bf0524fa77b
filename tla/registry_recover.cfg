\* One reconnect with one TCP proxy: what the old session's cleanup removes.
CONSTANTS
    None = None
    alice = alice
    bob = bob
    home = home
    ssh = ssh
    dns = dns
    site = site
    p22 = p22
    p53 = p53
    p2222 = p2222
    example = example
    AliceSessions = {a1, a2}
    BobSessions = {}
    AliceOffers = {ssh}
    BobOffers = {}
    SshDomains = {}
    Session <- MCSession
    RunId = {alice, bob}
    Ip = {home}
    Name <- MCName
    Port = {p22, p53, p2222}
    Domain = {example}
    RunOf <- MCRunOf
    IpOf <- MCIpOf
    Offers <- MCOffers
    KindOf <- MCKindOf
    PortOf <- MCPortOf
    DomainsOf <- MCDomainsOf
    MaxSessions = 2
    MaxSessionsPerIp = 2
    MaxProxies = 2
SPECIFICATION Spec
\* Every control connection is used once, so a run of the server may come to rest.
CHECK_DEADLOCK FALSE
INVARIANT Recovered
