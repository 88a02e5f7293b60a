SPECIFICATION InterceptionSpec
CONSTANTS
    Clients = {"app", "sdk", "h2"}
    Stack <- MCStack
    Pinned = {"sdk"}
    OnlyH2 = {"h2"}
    Hosts = {"api", "API", "fb"}
    Norm <- MCNorm
    Seeded = {"fb"}
    Conns = {k1}
    Rotators = {r1}
    MaxCa = 3
INVARIANTS
    CurrentHasKey
    TunnelsAreEarned
PROPERTIES
    RestartKeepsTheCa
    SacrificeEnds
