\* Three nodes: wired, unit disk, Wi-Fi with an access point, LoRa with and without duty cycle.
CONSTANTS
    Networks <- MCNetworks
    Places <- MCPlaces
    Range2 = 4
    RadioRange2 = 4
    Airtime = 2
    OffTime = 1
    InitTtl = 3
    MaxIdle = 3
SPECIFICATION IpSpec
INVARIANTS
    TrafficSound
    LoopsDieOut
    TablesSound
    LoraSound
CHECK_DEADLOCK FALSE
