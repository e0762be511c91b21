SPECIFICATION AgentSpec
CONSTANTS
    Key = {k1, k2, kx}
    BadKey = {kx}
    NoKey = NoKey
    Cidr = {c1, c2, c6}
    V6Cidr = {c6}
    Hop = {v4, w4, v6, vx}
    V6Hop = {v6}
    BadHop = {vx}
    NoHop = NoHop
    LossyDelete = FALSE
INVARIANT RoutesTracked
PROPERTY AgentImplementsPeerDataPlane
