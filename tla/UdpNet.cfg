\* Two hosts under every pairing of socket configurations, and a star of three.
CONSTANTS
    a = a
    b = b
    c = c
    Host = {a, b, c}
    Declared <- MCDeclared
    Configs <- MCConfigs
    EphemeralBase = 2
    PortMax = 4
    MaxSends = 2
    MaxMints = 2
SPECIFICATION Spec
INVARIANTS
    OneFacePerNeighbour
    SocketsSound
CHECK_DEADLOCK FALSE
