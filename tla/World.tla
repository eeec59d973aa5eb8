--------------------------------- MODULE World ---------------------------------
(***************************************************************************)
(* The live world and co-simulation: crates/ndn-sim/src/world.rs (World,   *)
(* WorldView, SpatialGrid), radio.rs (RadioBus::view_at) and cosim.rs      *)
(* (MobilitySource, drive_cosim, MobilityTrace, SampledMobility).          *)
(*                                                                         *)
(* A driver polls a feed and places nodes, while an operator edits the     *)
(* world and the radio asks who is in range, through a view it caches by   *)
(* instant and generation.  An edit is in the map before its generation is *)
(* bumped.  Positions are points of a small plane, instants whole ticks.   *)
(***************************************************************************)
EXTENDS Integers, Sequences, FiniteSets, TLC, SequencesExt, Functions

CONSTANTS
    Body,       \* nodes
    Points,     \* where they may be: <<x, y>>
    Feeds,      \* [kind: "channel", "scripted" or "lockstep", script: timed states,
                \*  edits, sends: how often the operator edits and the channel's peer sends,
                \*  readers: who transmits meanwhile]
    Cell, Radius,   \* the grid's cell and the radio's range
    MaxTick

ASSUME WorldAssumption ==
    /\ Cell \in Nat \ {0} /\ Radius \in Nat
    /\ MaxTick \in Nat
    /\ Body # {} /\ Points \subseteq Int \X Int
    /\ \A f \in Feeds :
          /\ f.kind \in {"channel", "scripted", "lockstep"}
          /\ f.script \in Seq([node : Body, t : Nat, point : Int \X Int])
          /\ f.kind = "lockstep" => f.script = <<>>   \* a stepped source makes its states

VARIABLES
    feed,
    tick,        \* the scenario's time
    mobility,    \* node -> its model: <<t, point>> samples, one for a static node
    generation,
    edit,        \* a set_mobility or place between the map and the bump, if there is one
    edits,       \* edits of the operator so far
    viewCache,   \* [tick, generation, view], or NoView
    query,       \* reader -> [at, generation, tick, clean]
    answer,      \* history: what the latest query was told and what it should be
    toCome,      \* states in the channel, or left of the script
    senderGone,
    cancelled,
    driver,      \* [at, batch, done, wake]
    trace, sent  \* the recording; history: all states that were to be driven

worldVars == <<feed, tick, mobility, generation, edit, edits, viewCache, query, answer,
               toCome, senderGone, cancelled, driver, trace, sent>>

NoView == [tick |-> -1]
Idle == [at |-> "idle"]

\* The orders in which i is before j: in time, and as they were at the same time.
SortedBy(script, i, j) == script[i].t < script[j].t \/ (script[i].t = script[j].t /\ i <= j)

\* ScriptedSource::new sorts by time, keeping ties in order.
ByTime(script) ==
    {[i \in DOMAIN script |-> script[p[i]]] :
        p \in {p \in [DOMAIN script -> DOMAIN script] :
                 \A i, j \in DOMAIN script : i < j => p[i] # p[j] /\ SortedBy(script, p[i], p[j])}}

WorldInit ==
    /\ feed \in Feeds /\ tick = 0
    /\ mobility = <<>> /\ generation = 0 /\ edit = <<>> /\ edits = 0
    /\ viewCache = NoView /\ query = [r \in feed.readers |-> Idle]
    /\ answer = [told |-> {}, due |-> {}]
    /\ toCome \in ByTime(feed.script) /\ sent = toCome
    /\ senderGone = FALSE /\ cancelled = FALSE
    /\ driver = [at |-> "poll", batch |-> <<>>, done |-> FALSE, wake |-> 0] /\ trace = <<>>

feedVars == <<feed, toCome, senderGone, cancelled, driver, trace, sent>>
mapVars == <<mobility, generation, edit, edits>>
readVars == <<viewCache, query, answer>>

-----------------------------------------------------------------------------
(* Positions.                                                              *)

Between(p, q, n, d) == <<p[1] + ((q[1] - p[1]) * n) \div d, p[2] + ((q[2] - p[2]) * n) \div d>>

\* SampledMobility and WaypointMobility: the ends are held, between two samples the way is straight.
PositionAt(samples, t) ==
    LET n == Len(samples)
        hi == CHOOSE i \in 2..n : samples[i - 1][1] <= t /\ t < samples[i][1]
    IN CASE t <= samples[1][1] -> samples[1][2]
         [] t >= samples[n][1] -> samples[n][2]
         [] OTHER -> Between(samples[hi - 1][2], samples[hi][2],
                             t - samples[hi - 1][1], samples[hi][1] - samples[hi - 1][1])

\* World::snapshot.
Snapshot(t) == [n \in DOMAIN mobility |-> PositionAt(mobility[n], t)]

Near(p, q) == (p[1] - q[1]) * (p[1] - q[1]) + (p[2] - q[2]) * (p[2] - q[2]) <= Radius * Radius

Apart(i, j) == IF i > j THEN i - j ELSE j - i

CellOf(p) == <<p[1] \div Cell, p[2] \div Cell>>

Reach == (Radius + Cell - 1) \div Cell + 1

\* SpatialGrid::query: only the nodes of cells within reach are looked at.
WithinRange(view, center) ==
    {n \in DOMAIN view :
        /\ \A axis \in 1..2 : Apart(CellOf(view[n])[axis], CellOf(center)[axis]) <= Reach
        /\ Near(view[n], center)}

-----------------------------------------------------------------------------
(* Edits of the map: place, set_mobility, remove.                          *)

\* A query that overlaps an edit may be answered either way.
Disturbed == [r \in feed.readers |-> IF query[r].at = "keyed" THEN [query[r] EXCEPT !.clean = FALSE] ELSE query[r]]

\* Fault: the generation is bumped before the map is changed.
BumpFirst(map) ==
    /\ generation' = generation + 1
    /\ edit' = <<[map |-> map, bump |-> 0]>>
    /\ UNCHANGED mobility

\* The write lock is released before the generation is bumped.
Insert(map) ==
    /\ mobility' = map
    /\ edit' = <<[map |-> map, bump |-> 1]>>
    /\ UNCHANGED generation

Edit(map) ==
    /\ edit = <<>>
    /\ Insert(map)
    /\ query' = Disturbed
    /\ UNCHANGED <<viewCache, answer>>

EndEdit ==
    /\ edit # <<>>
    /\ mobility' = edit[1].map /\ generation' = generation + edit[1].bump
    /\ edit' = <<>> /\ query' = Disturbed
    /\ UNCHANGED <<feedVars, tick, edits, viewCache, answer>>

With(node, model) ==
    [n \in DOMAIN mobility \cup {node} |-> IF n = node THEN model ELSE mobility[n]]

\* The operator places a node, sends it from one point to another, or takes it out.
Operate ==
    /\ edits < feed.edits /\ edits' = edits + 1
    /\ \E n \in Body :
          \/ \E p \in Points : Edit(With(n, <<<<0, p>>>>))
          \/ \E p, q \in Points : p # q /\ Edit(With(n, <<<<tick, p>>, <<tick + 2, q>>>>))
          \/ n \in DOMAIN mobility /\ Edit(Restrict(mobility, DOMAIN mobility \ {n}))
    /\ UNCHANGED <<feedVars, tick>>

Pass ==
    /\ tick < MaxTick /\ tick' = tick + 1
    /\ UNCHANGED <<feedVars, mapVars, readVars>>

-----------------------------------------------------------------------------
(* RadioBus::view_at and the range query on the view.                      *)

\* The generation is read before the cache is locked.
Key(r) ==
    /\ query[r].at = "idle"
    /\ query' = [query EXCEPT ![r] =
          [at |-> "keyed", generation |-> generation, tick |-> tick, clean |-> edit = <<>>]]
    /\ UNCHANGED <<feedVars, tick, mapVars, viewCache, answer>>

\* A hit needs the same instant and the same generation; a miss caches a new snapshot.
ViewAt(r) ==
    LET hit == viewCache # NoView /\ viewCache.tick = query[r].tick
                   /\ viewCache.generation = query[r].generation
        view == IF hit THEN viewCache.view ELSE Snapshot(query[r].tick)
        due == Snapshot(query[r].tick)
    IN /\ query[r].at = "keyed"
       /\ viewCache' = [tick |-> query[r].tick, generation |-> query[r].generation, view |-> view]
       /\ query' = [query EXCEPT ![r] = Idle]
       /\ answer' \in {IF query[r].clean
                       THEN [told |-> WithinRange(view, p), due |-> {n \in DOMAIN due : Near(due[n], p)}]
                       ELSE [told |-> {}, due |-> {}] : p \in Points}
       /\ UNCHANGED <<feedVars, tick, mapVars>>

-----------------------------------------------------------------------------
(* drive_cosim over its sources.                                           *)

\* A state arrives in the channel, whatever the instant it is stamped with.
Send ==
    /\ feed.kind = "channel" /\ ~senderGone /\ Len(sent) < feed.sends
    /\ \E n \in Body, t \in 0..MaxTick, p \in Points :
          LET s == [node |-> n, t |-> t, point |-> p]
          IN toCome' = Append(toCome, s) /\ sent' = Append(sent, s)
    /\ UNCHANGED <<feed, tick, mapVars, readVars, senderGone, cancelled, driver, trace>>

DropSender ==
    /\ feed.kind = "channel" /\ ~senderGone /\ senderGone' = TRUE
    /\ UNCHANGED <<feed, tick, mapVars, readVars, toCome, cancelled, driver, trace, sent>>

CancelDriver ==
    /\ ~cancelled /\ cancelled' = TRUE
    /\ UNCHANGED <<feed, tick, mapVars, readVars, toCome, senderGone, driver, trace, sent>>

\* How many of the states to come a poll returns: what is in the channel, or what is due.
Due == IF feed.kind = "scripted" THEN Cardinality({i \in DOMAIN toCome : toCome[i].t <= tick})
       ELSE Len(toCome)

\* A stepped source is advanced to the instant; its body moves along the points.
Stepped == [node |-> CHOOSE n \in Body : TRUE, t |-> tick, point |-> <<tick, 0>>]

\* Whether the source is exhausted by this poll: the channel closed and drained, the script at
\* its end, the stepped source at its last instant.
DoneByPoll == CASE feed.kind = "channel" -> senderGone
                [] feed.kind = "scripted" -> Due = Len(toCome)
                [] OTHER -> tick = MaxTick

Poll ==
    /\ driver.at = "poll" /\ ~cancelled
    /\ IF feed.kind = "lockstep"
       THEN /\ driver' = [driver EXCEPT !.at = "apply", !.batch = <<Stepped>>, !.done = DoneByPoll]
            /\ sent' = Append(sent, Stepped) /\ UNCHANGED toCome
       ELSE /\ driver' = [driver EXCEPT !.at = "apply", !.batch = SubSeq(toCome, 1, Due), !.done = DoneByPoll]
            /\ toCome' = SubSeq(toCome, Due + 1, Len(toCome)) /\ UNCHANGED sent
    /\ UNCHANGED <<feed, tick, mapVars, readVars, senderGone, cancelled, trace>>

\* world.place, then the recording.
Place ==
    /\ driver.at = "apply" /\ driver.batch # <<>>
    /\ Edit(With(Head(driver.batch).node, <<<<0, Head(driver.batch).point>>>>))
    /\ driver' = [driver EXCEPT !.at = "record"]
    /\ UNCHANGED <<feed, tick, edits, toCome, senderGone, cancelled, trace, sent>>

Record ==
    /\ driver.at = "record" /\ edit = <<>>
    /\ trace' = Append(trace, Head(driver.batch))
    /\ driver' = [driver EXCEPT !.at = "apply", !.batch = Tail(@)]
    /\ UNCHANGED <<feed, tick, mapVars, readVars, toCome, senderGone, cancelled, sent>>

\* is_done is what the poll found; the loop ends on it, and on a cancel at its top.
BatchOver ==
    /\ driver.at = "apply" /\ driver.batch = <<>>
    /\ driver' = [driver EXCEPT !.at = IF driver.done THEN "done" ELSE "sleep", !.wake = tick + 1]
    /\ UNCHANGED <<feed, tick, mapVars, readVars, toCome, senderGone, cancelled, trace, sent>>

Wake ==
    /\ (driver.at = "sleep" /\ tick >= driver.wake) \/ (driver.at = "poll" /\ cancelled)
    /\ driver' = [driver EXCEPT !.at = IF @ = "sleep" THEN "poll" ELSE "done"]
    /\ UNCHANGED <<feed, tick, mapVars, readVars, toCome, senderGone, cancelled, trace, sent>>

\* A node's entries in the recording.
Mine(n) == {i \in DOMAIN trace : trace[i].node = n}

\* Fault: the samples stay in the order they were recorded in.
AsRecorded(mine) ==
    [k \in 1..Cardinality(mine) |-> CHOOSE i \in mine : Cardinality({j \in mine : j <= i}) = k]

\* MobilityTrace::into_models sorts a node's samples by their stamp, keeping ties in order: the
\* k-th is the one with k, itself among them, up to it.
Rank(mine, i) == Cardinality({j \in mine : SortedBy(trace, j, i)})
Replayed(mine) == [k \in 1..Cardinality(mine) |-> CHOOSE i \in mine : Rank(mine, i) = k]

\* The recording as one sampled model per node.
IntoModels ==
    [n \in {trace[i].node : i \in DOMAIN trace} |->
        LET order == Replayed(Mine(n))
        IN [k \in DOMAIN order |-> <<trace[order[k]].t, trace[order[k]].point>>]]

WorldNext ==
    \/ Operate \/ EndEdit \/ Pass
    \/ \E r \in feed.readers : Key(r) \/ ViewAt(r)
    \/ Send \/ DropSender \/ CancelDriver
    \/ Poll \/ Place \/ Record \/ BatchOver \/ Wake

WorldSpec == WorldInit /\ [][WorldNext]_worldVars

-----------------------------------------------------------------------------
(* Properties.                                                             *)

\* A transmission that no edit overlaps is told exactly the nodes within its range where they
\* are at its instant: neither the cached view nor the grid's cells hide or keep a node.
RangeQuerySound == answer.told = answer.due

\* Every state fed is recorded in its turn, and none is left behind by a driver
\* that ended by itself; the replay of a recording passes through every sample that is alone at
\* its instant, in whatever order the live feed delivered them.
FeedRecorded ==
    /\ trace \o driver.batch \o toCome = sent
    /\ driver.at = "done" /\ ~cancelled => trace = sent
    /\ \A i \in DOMAIN trace :
          (\A j \in DOMAIN trace \ {i} : <<trace[j].node, trace[j].t>> # <<trace[i].node, trace[i].t>>)
              => PositionAt(IntoModels[trace[i].node], trace[i].t) = trace[i].point

================================================================================
