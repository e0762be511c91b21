SPECIFICATION FairSpec
CONSTANTS
    n1 = n1   n2 = n2   p1 = p1   p2 = p2
    k1 = k1   k2 = k2   k3 = k3   kx = kx
    c1 = c1   c2 = c2   v1 = v1   v2 = v2
    bad = bad   worse = worse   wide = wide   junk = junk   here = here
    NoKey = NoKey   NoCidr = NoCidr   Absent = Absent
    Key = {k1, k2, kx}
    BadKey = {kx}
    Cidr = {c1, c2, v1, v2, bad, worse, wide, junk}
    Withheld = {bad, worse, wide, junk}
    Malformed = {junk}
    Local = {here}
    Overlap <- MCOverlap
    Virtual <- MCVirtual
    LossyDelete = FALSE
    Node = {n1}
    Name = {p1}
    PeerSpec <- MCRemap
    RemapPool = TRUE
    Handshake <- MCSameHandshake
    MaxEdits = 3
    MaxDeletes = 1
    MaxRestarts = 1
    MaxFaults = 1
CHECK_DEADLOCK FALSE
INVARIANTS TypeOK NeverRoutesWithheld
PROPERTIES Converges DeletionCompletes
