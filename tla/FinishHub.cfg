SPECIFICATION Spec
CONSTANTS
    Event = {e1}
    Race = {r1}
    Client = {c1, c2}
    Hub = {h1, h2}
    Group = {g1, g2, g3}
    None = None
    MaxClients = 2
    BuildSlots = 1
    MaxCommit = 1
    MaxEpoch = 3
SYMMETRY Symmetric
INVARIANTS OneDispatcher FreshFrames StreamReachable WithinLimits
