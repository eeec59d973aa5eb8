\* One part of the lab per behaviour: a wrong clock, a field consumer, flows, the world, a session, a sweep.
CONSTANTS
    \* clock: a 3-bit clock, drift in halves; a setter races with a reader
    Reader = {t1}
    Setter = {s1}
    Skews <- MCSkews
    Million = 2
    UMax = 7
    MaxTrue = 3
    MaxSets = 2
    \* catchup
    Replica = {q1}
    Honest = {p1}
    Hostile = {h1}
    Cells <- MCCells
    StallTicks = 2
    BudgetTicks = 3
    MaxSeq = 2
    MaxBoots = 2
    MaxFaults = 1
    \* flows
    Flows <- MCFlows
    MaxRequests = 3
    MaxVersions = 2
    MaxClock = 2
    \* world
    n1 = n1
    r1 = r1
    Body = {n1}
    Points <- MCPoints
    Feeds <- MCFeeds
    Cell = 2
    Radius = 3
    MaxTick = 2
    \* session
    Client = {k1, k2}
    Command <- MCCommands
    Scenes <- MCScenes
    MaxCommands = 3
    \* validation
    Specs <- MCSpecs
    Luck = {0, 1, 2}
SPECIFICATION ToolkitSpec
INVARIANTS
    NoPoison
    EventsReported
    NoHole
    StallIsSilence
    StatisticsSound
    RangeQuerySound
    FeedRecorded
    SessionSound
    VerdictStands
PROPERTIES
    Monotone
    Drains
    FlowsEnd
CHECK_DEADLOCK FALSE
