------------------------------- MODULE Scenario -------------------------------
(***************************************************************************)
(* A fabric as one value, and the calls that change it one at a time:      *)
(* crates/ndn-sim/src/scenario.rs (Scenario::build), topology.rs           *)
(* (Simulation::start, RunningSimulation) and validate.rs (Fault).         *)
(*                                                                         *)
(* Sequential drivers (a scenario's start, the replay of a recording, a    *)
(* fault schedule) fold these over what they are given; how the calls of   *)
(* concurrent callers interleave is the module Fabric's matter.            *)
(* Config-booted nodes (UdpNet), bridges, strategies and link profiles are *)
(* left out; a fault's knob is "up", "cut" or "bad".                       *)
(***************************************************************************)
EXTENDS Integers, Sequences, FiniteSets, TLC, SequencesExt, Functions

EmptyFabric ==
    [nodes |-> <<>>,     \* id -> label
     links |-> <<>>,     \* (from, to) -> face
     knobs |-> <<>>,     \* (from, to) -> its latest face's fault knob
     radios |-> {},      \* nodes with a radio face
     routes |-> {},      \* (node, face)
     apps |-> <<>>,      \* id -> node
     places |-> <<>>,    \* node -> where it is
     nextNode |-> 0, nextApp |-> 0, nextFace |-> 0]

RadioFace == -1
Origin == 0

-----------------------------------------------------------------------------
(* RunningSimulation: what a call does to the fabric where it succeeds.    *)

\* A map with an entry more, or another entry in its place.
Bind(map, key, value) == [x \in DOMAIN map \cup {key} |-> IF x = key THEN value ELSE map[x]]

\* spawn_node draws the id before it builds the engine and inserts the node after.
Draws(f) == [f EXCEPT !.nextNode = @ + 1]
Inserts(f, id, label) == [f EXCEPT !.nodes = Bind(@, id, label)]

\* spawn_app draws the app's number before the app is started and records its handle after.
DrawsApp(f) == [f EXCEPT !.nextApp = @ + 1]
RecordsApp(f, id, node) == [f EXCEPT !.apps = Bind(@, id, node)]

\* remove_node: the links and the entry go; knobs, places, and apps' handles stay.
Removes(f, node) ==
    [f EXCEPT !.links = Restrict(@, {p \in DOMAIN @ : node \notin {p[1], p[2]}}),
              !.nodes = Restrict(@, DOMAIN @ \ {node}),
              !.routes = {r \in @ : r[1] # node}]

Connects(f, a, b) ==
    [f EXCEPT !.links = Bind(Bind(@, <<a, b>>, f.nextFace), <<b, a>>, f.nextFace + 1),
              !.knobs = Bind(Bind(@, <<a, b>>, "up"), <<b, a>>, "up"),
              !.nextFace = @ + 2]

Routes(f, node, nexthop) == [f EXCEPT !.routes = @ \cup {<<node, f.links[<<node, nexthop>>]>>}]
RoutesOverRadio(f, node) == [f EXCEPT !.routes = @ \cup {<<node, RadioFace>>}]
Moves(f, node, place) == [f EXCEPT !.places = Bind(@, node, place)]
StopsApp(f, app) == [f EXCEPT !.apps = Restrict(@, DOMAIN @ \ {app})]

SpawnsApps(f, node, count) ==
    [f EXCEPT !.apps = [a \in DOMAIN @ \cup f.nextApp..(f.nextApp + count - 1) |->
                           IF a \in DOMAIN @ THEN @[a] ELSE node],
              !.nextApp = @ + count]

\* set_link_up and degrade_link turn both directions, partition every pair across.
Turns(f, pairs, knob) == [f EXCEPT !.knobs = [p \in DOMAIN @ |-> IF p \in pairs THEN knob ELSE @[p]]]
Across(f, group) == {p \in DOMAIN f.knobs : (p[1] \in group) # (p[2] \in group)}

\* A scenario's node is there with its place and radio as it is declared.
Declares(f, n) ==
    [f EXCEPT !.nodes = Bind(@, f.nextNode, n.label), !.nextNode = @ + 1,
              !.radios = IF n.radio THEN @ \cup {f.nextNode} ELSE @,
              !.places = IF n.place # <<>> THEN Bind(@, f.nextNode, n.place[1])
                         ELSE IF n.radio THEN Bind(@, f.nextNode, Origin) ELSE @]

\* Whether the call succeeds; one that fails changes nothing.
Succeeds(f, c) ==
    CASE c.cmd \in {"remove", "app"} -> c.node \in DOMAIN f.nodes
      [] c.cmd = "connect" -> {c.a, c.b} \subseteq DOMAIN f.nodes
      [] c.cmd = "route" -> <<c.node, c.nexthop>> \in DOMAIN f.links /\ c.node \in DOMAIN f.nodes
      [] c.cmd = "radio" -> c.node \in f.radios \cap DOMAIN f.nodes
      [] c.cmd = "stop" -> c.app \in DOMAIN f.apps
      [] c.cmd = "link" -> <<c.a, c.b>> \in DOMAIN f.knobs /\ <<c.b, c.a>> \in DOMAIN f.knobs
      [] OTHER -> TRUE

Does(f, c) ==
    CASE c.cmd = "spawn"   -> Draws(f)
      [] c.cmd = "remove"  -> Removes(f, c.node)
      [] c.cmd = "connect" -> Connects(f, c.a, c.b)
      [] c.cmd = "route"   -> Routes(f, c.node, c.nexthop)
      [] c.cmd = "radio"   -> RoutesOverRadio(f, c.node)
      [] c.cmd = "move"    -> Moves(f, c.node, c.to)
      [] c.cmd = "app"     -> SpawnsApps(f, c.node, 1)
      [] c.cmd = "stop"    -> StopsApp(f, c.app)
      [] c.cmd = "link"    -> Turns(f, {<<c.a, c.b>>, <<c.b, c.a>>}, c.knob)
      [] c.cmd = "part"    -> Turns(f, Across(f, c.group), "cut")
      [] c.cmd = "heal"    -> Turns(f, DOMAIN f.knobs, "up")
      [] c.cmd = "declare" -> Declares(f, c.node)
      [] c.cmd = "apps"    -> SpawnsApps(f, c.node, c.count)
      [] OTHER             -> f

\* What the call does up to its first await: of a spawn, the drawing of the id.
Effect(f, c) == IF Succeeds(f, c) THEN Does(f, c) ELSE f

\* What it has done when it returns.
Executes(f, c) == IF c.cmd = "spawn" THEN Inserts(Draws(f), f.nextNode, c.label) ELSE Effect(f, c)

\* One call after another, the first n of them or all.
ExecutesFirst(f, calls, n) ==
    LET after[k \in 0..n] == IF k = 0 THEN f ELSE Executes(after[k - 1], calls[k])
    IN after[n]
ExecutesAll(f, calls) == ExecutesFirst(f, calls, Len(calls))

-----------------------------------------------------------------------------
(* Scenario::build and Simulation::start.                                  *)
(* A scenario: [nodes: a sequence of [label, radio, place, apps], medium,  *)
(* links, routes: sequences of pairs, radioRoutes: a sequence of nodes].   *)

\* Scenario::build refuses a radio node without a medium and an index beyond the nodes declared.
Builds(s) ==
    LET declared == 0..Len(s.nodes) - 1
    IN /\ s.medium \/ \A i \in DOMAIN s.nodes : ~s.nodes[i].radio
       /\ \A p \in Range(s.links) \cup Range(s.routes) : {p[1], p[2]} \subseteq declared
       /\ Range(s.radioRoutes) \subseteq declared

\* Simulation::start refuses a route without its link and a radio route without its radio.
Starts(s) ==
    /\ Builds(s)
    /\ \A p \in Range(s.routes) : p \in Range(s.links) \/ <<p[2], p[1]>> \in Range(s.links)
    /\ \A n \in Range(s.radioRoutes) : s.nodes[n + 1].radio

\* The nodes first, in their order, then links, routes, radio routes, and the apps.
Plan(s) ==
    LET declared == [i \in DOMAIN s.nodes |-> [cmd |-> "declare", node |-> s.nodes[i]]]
        links == [i \in DOMAIN s.links |-> [cmd |-> "connect", a |-> s.links[i][1], b |-> s.links[i][2]]]
        routes == [i \in DOMAIN s.routes |->
                      [cmd |-> "route", node |-> s.routes[i][1], nexthop |-> s.routes[i][2]]]
        radios == [i \in DOMAIN s.radioRoutes |-> [cmd |-> "radio", node |-> s.radioRoutes[i]]]
        apps == [i \in DOMAIN s.nodes |-> [cmd |-> "apps", node |-> i - 1, count |-> s.nodes[i].apps]]
    IN declared \o links \o routes \o radios \o apps

\* What the start of a scenario that starts makes: none of the calls fails.
Started(s) == ExecutesAll(EmptyFabric, Plan(s))

================================================================================
