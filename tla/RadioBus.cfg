\* A chain of three radios: the outer two hear each other but cannot decode each other.
\* They send in monitor and in managed mode.
CONSTANTS
    a = a
    b = b
    c = c
    Node = {a, b, c}
    Pos <- ChainPos
    Chan <- OneChan
    Skew <- NoSkew
    Decode = 5
    Interfere = 10
    Prop = 0
    Erasure = FALSE
    Airtimes = {2}
    HalfDuplex = TRUE
    MaxAttempts = 2
    CWmin = 1
    CWmax = 2
    Slot = 1
    InAirCap = 4
    MaxTime = 3
    MaxFrames = 3
SPECIFICATION Spec
INVARIANTS
    AirSound
    CsmaSerialises
CHECK_DEADLOCK FALSE
