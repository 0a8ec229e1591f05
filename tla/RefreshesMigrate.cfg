CONSTANTS
    d1 = d1  d2 = d2  d3 = d3
    r1 = r1  r2 = r2
    NoToken = NoToken
    Tokens = {d1, d2, d3}
    Legacy = d1
    LegacyExpiry = 1
    Refreshes = {r1, r2}
    MaxSessions = 2
    TTL = 2
    LastDay = 2
    Allowed = {"overlap"}
SPECIFICATION Spec
PROPERTY NeverRefusedAlive
