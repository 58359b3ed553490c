CONSTANTS
    r1 = r1  r2 = r2  r3 = r3
    s1 = s1  s2 = s2
    A = A  P = P
    NoAddr = NoAddr  NoSock = NoSock
    Rfcs <- MCRfcs
    ControlRfcs <- MCControlRfcs
    Socks <- MCSocks
    OurAddrs = {A}
    PeerAddrs = {P}
    TidSpace <- MCTidSpaceOne
SYMMETRY MCSymmetry
SPECIFICATION Spec
INVARIANTS NoDanglingSocket
