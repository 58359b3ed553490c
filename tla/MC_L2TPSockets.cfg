CONSTANTS
    r1 = r1  r2 = r2  r3 = r3
    s1 = s1  s2 = s2
    A = A  P = P  Q = Q
    NoAddr = NoAddr  NoSock = NoSock
    Rfcs <- MCControlRfcs
    ControlRfcs <- MCControlRfcs
    Socks <- MCSocks
    OurAddrs = {A}
    PeerAddrs = {P, Q}
    TidSpace <- MCTidSpace
SPECIFICATION Spec
INVARIANTS TypeOK NoSocketLeak DomainDownOnlyWhenIdle TunnelIdUnique ControlDemuxAsSpecified
