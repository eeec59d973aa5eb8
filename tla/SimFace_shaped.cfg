\* A dedicated zero-delay stream with a bandwidth cursor and one place in the far queue:
\* inline deliveries, blocked senders, holds on a matched packet type.
CONSTANTS
    stream = stream
    dgram = dgram
    shaped = shaped
    Face = {shaped}
    Profile <- MCProfile
    Kinds = {"interest", "data"}
    Sizes = {1}
    HoldRules <- SecondData
    LossRates = {"always"}
    ExtraDelays = {2}
    Capacity = 1
    RateBps = 1
    NsPerSec = 1
    FrameOverhead = 0
    MaxBacklog = 0
    MaxTime = 10
    SendUntil = 2
    MaxPkts = 3
    MaxFaults = 2
    Mtus = {}
    MaxLen = 0
SPECIFICATION FairSpec
INVARIANTS
    DeliverySound
PROPERTIES
    InFlightArrives
CHECK_DEADLOCK FALSE
