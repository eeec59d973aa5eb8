-------------------------------- MODULE Fabric --------------------------------
(***************************************************************************)
(* The live fabric: crates/ndn-sim/src/topology.rs (RunningSimulation,     *)
(* FabricInner, wire_link).                                                *)
(*                                                                         *)
(* Callers share the fabric through an Arc (tests, the control plane, the  *)
(* MCP server), so their operations interleave at every await and between  *)
(* any two acquisitions of a lock.  One critical section is one step.      *)
(*                                                                         *)
(* A face stands for its own LinkState, the knobs that govern what it      *)
(* sends; of the knobs only `down` matters here (the others: SimFace).     *)
(* The engines, and what they do with a face whose peer is gone, are       *)
(* external.  next_node and next_app hand out each id once.                *)
(***************************************************************************)
EXTENDS Integers, Sequences, FiniteSets

CONSTANTS
    MaxNodes,   \* bound on nodes spawned
    MaxApps,    \* bound on apps spawned
    MaxFaces,   \* bound on link faces
    MaxCuts     \* bound on uses of set_link_up, partition and heal

ASSUME BoundsAssumption == MaxNodes \in Nat /\ MaxApps \in Nat /\ MaxFaces \in Nat /\ MaxCuts \in Nat

NodeId == 1..MaxNodes
AppId  == 1..MaxApps

VARIABLES
    nodes,      \* FabricInner.nodes
    links,      \* FabricInner.links: (from, to) -> face
    linkStates, \* FabricInner.link_states: (from, to) -> the face whose LinkState it is
    engine,     \* node -> its engine: "none", "building", "up", "stopping" or "down"
    faces,      \* every link face: [node, peer, down]
    apps,       \* RunningSimulation.apps: the ids it holds
    running,    \* app tasks that run: [app, node]
    spawning,   \* spawn_app calls past engine_of, their app numbered: [app, node]
    cutting,    \* set_link_up calls past link_state_pair: [knobs left to set, up]
    removing,   \* nodes that a remove_node call has taken out and is stopping
    shutting,   \* shutdown's progress: "no", "apps", "nodes" or "done"
    stopList,   \* nodes that shutdown has taken out and is stopping
    lateNodes, lateApps, \* history: put in the maps after shutdown had taken what they held
    nextNode, nextApp, cuts

graph == <<nodes, links, linkStates, engine, faces>>
tasks == <<apps, running, spawning, nextApp>>
calls == <<cutting, removing, shutting, stopList>>
late  == <<lateNodes, lateApps>>
vars  == <<graph, tasks, calls, late, nextNode, cuts>>

Init ==
    /\ nodes = {} /\ links = <<>> /\ linkStates = <<>>
    /\ engine = [n \in NodeId |-> "none"]
    /\ faces = <<>>
    /\ apps = {} /\ running = {} /\ spawning = {}
    /\ cutting = {} /\ removing = {} /\ shutting = "no" /\ stopList = {}
    /\ lateNodes = {} /\ lateApps = {}
    /\ nextNode = 1 /\ nextApp = 1 /\ cuts = 0

\* HashMap::insert of several entries.
Insert(map, new) == [p \in DOMAIN map \cup DOMAIN new |-> IF p \in DOMAIN new THEN new[p] ELSE map[p]]
Keep(map, P) == [p \in P |-> map[p]]

-----------------------------------------------------------------------------
(* spawn_node: the engine is built off the lock.                           *)

SpawnNode ==
    /\ nextNode <= MaxNodes
    /\ engine' = [engine EXCEPT ![nextNode] = "building"]
    /\ nextNode' = nextNode + 1
    /\ UNCHANGED <<nodes, links, linkStates, faces, tasks, calls, late, cuts>>

NodeBuilt(n) ==
    /\ engine[n] = "building"
    /\ engine' = [engine EXCEPT ![n] = "up"]
    /\ nodes' = nodes \cup {n}
    /\ lateNodes' = lateNodes \cup (IF shutting \in {"nodes", "done"} THEN {n} ELSE {})
    /\ UNCHANGED <<links, linkStates, faces, tasks, calls, lateApps, nextNode, cuts>>

\* The builder fails; the id is spent.
BuildFails(n) ==
    /\ engine[n] = "building"
    /\ engine' = [engine EXCEPT ![n] = "none"]
    /\ UNCHANGED <<nodes, links, linkStates, faces, tasks, calls, late, nextNode, cuts>>

-----------------------------------------------------------------------------
(* connect_profiled, wire_link.                                            *)

\* The new faces' knobs replace whatever was recorded for the pair.
RecordKnobs(new) == Insert(linkStates, new)

Connect(a, b) ==
    /\ {a, b} \subseteq nodes /\ Len(faces) + 2 <= MaxFaces
    /\ LET fa == Len(faces) + 1
           fb == Len(faces) + 2
           new == [p \in {<<a, b>>, <<b, a>>} |-> IF p = <<b, a>> THEN fb ELSE fa]
       IN /\ faces' = faces \o <<[node |-> a, peer |-> b, down |-> FALSE],
                                 [node |-> b, peer |-> a, down |-> FALSE]>>
          /\ linkStates' = RecordKnobs(new)
          /\ links' = Insert(links, new)
    /\ UNCHANGED <<nodes, engine, tasks, calls, late, nextNode, cuts>>

-----------------------------------------------------------------------------
(* set_link_up, partition, heal.                                           *)

\* link_state_pair: both knobs are read under the lock and set after it.
SetLinkUp(a, b, up) ==
    /\ cuts < MaxCuts
    /\ {<<a, b>>, <<b, a>>} \subseteq DOMAIN linkStates
    /\ cutting' = cutting \cup
          {[id |-> cuts, knobs |-> <<linkStates[<<a, b>>], linkStates[<<b, a>>]>>, up |-> up]}
    /\ cuts' = cuts + 1
    /\ UNCHANGED <<graph, tasks, removing, shutting, stopList, late, nextNode>>

SetKnob(c) ==
    /\ faces' = [faces EXCEPT ![Head(c.knobs)].down = ~c.up]
    /\ cutting' = (cutting \ {c}) \cup
          (IF Len(c.knobs) = 1 THEN {} ELSE {[c EXCEPT !.knobs = Tail(c.knobs)]})
    /\ UNCHANGED <<nodes, links, linkStates, engine, tasks, removing, shutting, stopList,
                   late, nextNode, cuts>>

Across(p, group) == (p[1] \in group) # (p[2] \in group)

\* The knobs a partition turns.
CutBy(group) == {linkStates[p] : p \in {q \in DOMAIN linkStates : Across(q, group)}}

SetAll(F, isDown) == faces' = [f \in 1..Len(faces) |->
                              IF f \in F THEN [faces[f] EXCEPT !.down = isDown] ELSE faces[f]]

Partition(group) ==
    /\ cuts < MaxCuts
    /\ SetAll(CutBy(group), TRUE)
    /\ cuts' = cuts + 1
    /\ UNCHANGED <<nodes, links, linkStates, engine, tasks, calls, late, nextNode>>

Heal ==
    /\ cuts < MaxCuts
    /\ SetAll({linkStates[p] : p \in DOMAIN linkStates}, FALSE)
    /\ cuts' = cuts + 1
    /\ UNCHANGED <<nodes, links, linkStates, engine, tasks, calls, late, nextNode>>

-----------------------------------------------------------------------------
(* remove_node.                                                            *)

\* Fault: only the links that leave the node are dropped.
LinksWithoutFrom(n) == Keep(links, {p \in DOMAIN links : p[1] # n})

LinksWithout(n) == Keep(links, {p \in DOMAIN links : p[1] # n /\ p[2] # n})

\* Its links go (the knobs stay recorded); a node it does not know is an error after that.
RemoveNode(n) ==
    /\ n < nextNode
    /\ links' = LinksWithout(n)
    /\ IF n \in nodes
       THEN /\ nodes' = nodes \ {n}
            /\ engine' = [engine EXCEPT ![n] = "stopping"]
            /\ removing' = removing \cup {n}
       ELSE UNCHANGED <<nodes, engine, removing>>
    /\ UNCHANGED <<linkStates, faces, tasks, cutting, shutting, stopList, late, nextNode, cuts>>

Removed(n) ==
    /\ n \in removing
    /\ removing' = removing \ {n}
    /\ engine' = [engine EXCEPT ![n] = "down"]
    /\ UNCHANGED <<nodes, links, linkStates, faces, tasks, cutting, shutting, stopList,
                   late, nextNode, cuts>>

-----------------------------------------------------------------------------
(* spawn_app, stop_app.                                                    *)

\* engine_of; the lock is released before the app is spawned.
SpawnApp(n) ==
    /\ n \in nodes /\ nextApp <= MaxApps
    /\ spawning' = spawning \cup {[app |-> nextApp, node |-> n]}
    /\ nextApp' = nextApp + 1
    /\ UNCHANGED <<graph, apps, running, calls, late, nextNode, cuts>>

\* The app's tasks start, then its handle is recorded.
AppStarts(s) ==
    /\ s \in spawning /\ s \notin running
    /\ running' = running \cup {s}
    /\ UNCHANGED <<graph, apps, spawning, nextApp, calls, late, nextNode, cuts>>

\* The app's prefix does not parse: the number is spent, nothing runs.
AppFails(s) ==
    /\ s \in spawning /\ s \notin running
    /\ spawning' = spawning \ {s}
    /\ UNCHANGED <<graph, apps, running, nextApp, calls, late, nextNode, cuts>>

AppRecorded(s) ==
    /\ s \in spawning /\ s \in running
    /\ apps' = apps \cup {s.app}
    /\ spawning' = spawning \ {s}
    /\ lateApps' = lateApps \cup (IF shutting # "no" THEN {s.app} ELSE {})
    /\ UNCHANGED <<graph, running, nextApp, calls, lateNodes, nextNode, cuts>>

Stop(A) == running' = {r \in running : r.app \notin A}

StopApp(i) ==
    /\ i \in apps
    /\ apps' = apps \ {i}
    /\ Stop({i})
    /\ UNCHANGED <<graph, spawning, nextApp, calls, late, nextNode, cuts>>

-----------------------------------------------------------------------------
(* shutdown: stop the apps, take the nodes, stop their engines one by one.  *)

ShutdownApps ==
    /\ shutting = "no"
    /\ shutting' = "apps"
    /\ Stop(apps)
    /\ apps' = {}
    /\ UNCHANGED <<graph, spawning, nextApp, cutting, removing, stopList, late, nextNode, cuts>>

\* Fault: the nodes are stopped while they are still in the map.
TakeNodesLeaves ==
    /\ stopList' = nodes
    /\ engine' = [n \in NodeId |-> IF n \in nodes THEN "stopping" ELSE engine[n]]
    /\ UNCHANGED nodes

TakeNodes ==
    /\ stopList' = nodes
    /\ nodes' = {}
    /\ engine' = [n \in NodeId |-> IF n \in nodes THEN "stopping" ELSE engine[n]]

ShutdownNodes ==
    /\ shutting = "apps"
    /\ shutting' = "nodes"
    /\ TakeNodes
    /\ UNCHANGED <<links, linkStates, faces, tasks, cutting, removing, late, nextNode, cuts>>

ShutdownStops(n) ==
    /\ shutting = "nodes" /\ n \in stopList
    /\ stopList' = stopList \ {n}
    /\ engine' = [engine EXCEPT ![n] = "down"]
    /\ UNCHANGED <<nodes, links, linkStates, faces, tasks, cutting, removing, shutting,
                   late, nextNode, cuts>>

ShutdownDone ==
    /\ shutting = "nodes" /\ stopList = {}
    /\ shutting' = "done"
    /\ UNCHANGED <<graph, tasks, cutting, removing, stopList, late, nextNode, cuts>>

-----------------------------------------------------------------------------
Calls ==
    \/ SpawnNode
    \/ \E a, b \in NodeId : Connect(a, b) \/ \E up \in BOOLEAN : SetLinkUp(a, b, up)
    \/ \E g \in SUBSET NodeId : Partition(g)
    \/ Heal
    \/ \E n \in NodeId : RemoveNode(n) \/ SpawnApp(n)
    \/ \E i \in AppId : StopApp(i)
    \/ ShutdownApps

\* What a call that has begun does next.
Progress ==
    \/ \E n \in NodeId : NodeBuilt(n) \/ BuildFails(n) \/ Removed(n) \/ ShutdownStops(n)
    \/ \E c \in cutting : SetKnob(c)
    \/ \E s \in spawning : AppStarts(s) \/ AppFails(s) \/ AppRecorded(s)
    \/ ShutdownNodes \/ ShutdownDone

Next == Calls \/ Progress

Spec == Init /\ [][Next]_vars

-----------------------------------------------------------------------------
(* Properties.                                                             *)

TypeOK ==
    /\ nodes \subseteq NodeId /\ removing \subseteq NodeId /\ stopList \subseteq NodeId
    /\ \A p \in DOMAIN links : p \in NodeId \X NodeId /\ links[p] \in 1..Len(faces)
    /\ \A p \in DOMAIN linkStates : p \in NodeId \X NodeId /\ linkStates[p] \in 1..Len(faces)
    /\ engine \in [NodeId -> {"none", "building", "up", "stopping", "down"}]
    /\ apps \subseteq AppId
    /\ \A c \in cutting : Len(c.knobs) \in 1..2 /\ \A i \in 1..Len(c.knobs) : c.knobs[i] \in 1..Len(faces)

\* The graph is sound under every interleaving of spawns, connects and removals: a link has two
\* directions and two nodes that the fabric has, until a shutdown takes the nodes away.
LinksSound ==
    \A p \in DOMAIN links :
        /\ <<p[2], p[1]>> \in DOMAIN links
        /\ shutting \in {"no", "apps"} => {p[1], p[2]} \subseteq nodes

\* A fault aimed at a pair of nodes reaches the face that routes between them go out on, however
\* often the pair was connected, removed and connected again.
KnobGoverns ==
    \A p \in DOMAIN links : p \in DOMAIN linkStates /\ linkStates[p] = links[p]

\* No engine leaks or is stopped twice: one that runs is in the map, one that is being stopped
\* is with exactly one call.
EnginesOwned ==
    /\ \A n \in NodeId : engine[n] = "up" <=> n \in nodes
    /\ \A n \in NodeId : engine[n] = "stopping" <=> n \in removing \cup stopList
    /\ removing \cap stopList = {}

\* Nobody's app runs on: one that runs has a handle to stop it by, or its spawn is in progress.
AppsOwned == \A r \in running : r.app \in apps \/ r \in spawning

\* What the operations of the fabric rely on of its graph, whatever calls are under way.
GraphSound == TypeOK /\ LinksSound /\ KnobGoverns

\* A shutdown takes all there is: what is left in the maps once it has is what calls under way put
\* there since, a node whose engine was being built or an app that was being started.  (Nobody
\* stops those, and the fabric is then not empty.)
OnlyLateLeft ==
    /\ shutting \in {"nodes", "done"} => nodes \subseteq lateNodes
    /\ shutting # "no" => apps \subseteq lateApps

\* No engine and no app runs that no map and no call holds, and a shutdown leaves none but those
\* whose spawn it overtook.
NothingLeaks == EnginesOwned /\ AppsOwned /\ OnlyLateLeft

================================================================================
