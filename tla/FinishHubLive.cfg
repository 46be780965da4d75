SPECIFICATION FairSpec
CONSTANTS
    Event = {e1}
    Race = {r1}
    Client = {c1, c2}
    Hub = {h1}
    Group = {g1, g2}
    None = None
    MaxClients = 2
    BuildSlots = 1
    MaxCommit = 1
    MaxEpoch = 1
PROPERTIES StreamsCatchUp
