SPECIFICATION FairSpec
CONSTANTS
    n1 = n1   n2 = n2   p1 = p1   p2 = p2
    k1 = k1   k2 = k2   k3 = k3   kx = kx
    c1 = c1   c2 = c2   v1 = v1   v2 = v2
    bad = bad   worse = worse   wide = wide   junk = junk   here = here
    NoKey = NoKey   NoCidr = NoCidr   Absent = Absent
    Key = {k1, k2, k3, kx}
    BadKey = {kx}
    Cidr = {c1, c2, v1, bad, junk}
    Withheld = {bad, junk}
    Malformed = {junk}
    Local = {}
    Overlap <- MCOverlap
    Virtual <- MCVirtual
    LossyDelete = FALSE
    Node = {n1, n2}
    Name = {p1, p2}
    PeerSpec <- MCMove
    RemapPool = FALSE
    Handshake <- MCSameHandshake
    MaxEdits = 3
    MaxDeletes = 0
    MaxRestarts = 0
    MaxFaults = 0
CHECK_DEADLOCK FALSE
INVARIANT IndexExact
PROPERTIES Converges 
