\* A stream and a datagram face contending for one channel; faults at any moment.
\* Fragment arithmetic for MTUs below, at and above the smallest fragment, aligned and not.
CONSTANTS
    stream = stream
    dgram = dgram
    shaped = shaped
    Face = {stream, dgram}
    Profile <- MCProfile
    Kinds = {"data"}
    Sizes = {1}
    HoldRules <- FirstFrame
    LossRates = {"always"}
    ExtraDelays = {2}
    Capacity = 1
    RateBps = 392
    NsPerSec = 1
    FrameOverhead = 1
    MaxBacklog = 1
    MaxTime = 9
    SendUntil = 1
    MaxPkts = 3
    MaxFaults = 2
    Mtus = {0, 20, 27, 28, 35, 36, 37, 44, 60}
    MaxLen = 80
SPECIFICATION Spec
PROPERTIES
    ImplementsChannel
CHECK_DEADLOCK FALSE
