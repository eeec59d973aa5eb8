\* Two racing threads, airtimes 2 and 5, a backlog bound of 4.
CONSTANTS
    Sender = {s1, s2}
    Datagram <- MCDatagram
    RateBps = 8
    NsPerSec = 1
    FrameOverhead = 1
    MaxBacklog = 4
    MaxTime = 5
    MaxGrants = 4
SPECIFICATION Spec
SYMMETRY Symmetry
CONSTRAINT Bounded
INVARIANTS
    MediumSound
