------------------------------- MODULE MCToolkit -------------------------------
(* Small instances of the parts of Toolkit for TLC. *)
EXTENDS Toolkit

CONSTANTS n1, r1   \* a body of the world, a transmission

\* Clocks behind, ahead past the top of the range, drifting both ways, standing still, backwards.
MCSkews ==
    {[offset |-> -2, ppm |-> 1], [offset |-> -2, ppm |-> -3], [offset |-> 6, ppm |-> -2],
     [offset |-> 0, ppm |-> -1]}

\* The shapes of consumer the field kit builds, fixed ones and broken ones.
Fixed == [consumer |-> "ledgered", fetch |-> "stock", window |-> 2, bound |-> "none",
          wedge |-> 0, persistent |-> TRUE, watched |-> FALSE]
MCCells ==
    {Fixed, [Fixed EXCEPT !.bound = "wait", !.window = 1], [Fixed EXCEPT !.watched = TRUE],
     [Fixed EXCEPT !.bound = "whole"], [Fixed EXCEPT !.fetch = "arrival"],
     [Fixed EXCEPT !.persistent = FALSE], [Fixed EXCEPT !.wedge = 1, !.watched = TRUE],
     [Fixed EXCEPT !.consumer = "latency", !.window = 1], [Fixed EXCEPT !.consumer = "verifying"]}

MCFlows ==
    {[window |-> 2, open |-> FALSE, versioned |-> FALSE, count |-> 3],
     [window |-> 2, open |-> TRUE, versioned |-> FALSE, count |-> 0],
     [window |-> 2, open |-> TRUE, versioned |-> TRUE, count |-> 2]}

\* A live feed out of order, a stepped engine under a reader, an operator under a reader, and a
\* script with an operator.
MCPoints == {<<0, 0>>, <<3, 0>>}
State(t, x) == [node |-> n1, t |-> t, point |-> <<x, 0>>]
Feed(kind, script, editing, sending, readers) ==
    [kind |-> kind, script |-> script, edits |-> editing, sends |-> sending, readers |-> readers]
MCFeeds ==
    {Feed("channel", <<>>, 0, 2, {}), Feed("lockstep", <<>>, 0, 0, {r1}),
     Feed("scripted", <<>>, 2, 0, {r1}), Feed("scripted", <<State(1, 3), State(0, 1)>>, 1, 0, {})}

\* Scenarios: nothing; a line with a radio, a place, a route and an app; the line without its link.
Plain(label, n) == [label |-> label, radio |-> FALSE, place |-> <<>>, apps |-> n]
Bare == [nodes |-> <<>>, medium |-> FALSE, links |-> <<>>, routes |-> <<>>, radioRoutes |-> <<>>]
Line == [nodes |-> <<[Plain("n0", 1) EXCEPT !.radio = TRUE], [Plain("n1", 1) EXCEPT !.place = <<2>>]>>,
         medium |-> TRUE, links |-> <<<<0, 1>>>>, routes |-> <<<<0, 1>>>>, radioRoutes |-> <<0>>]
Broken == [Line EXCEPT !.links = <<>>]
MCScenes == {Bare, Line}

MCCommands ==
    {[cmd |-> "spawn", label |-> "a"], [cmd |-> "spawn", label |-> "b"],
     [cmd |-> "remove", node |-> 0], [cmd |-> "connect", a |-> 0, b |-> 1],
     [cmd |-> "route", node |-> 0, nexthop |-> 1], [cmd |-> "radio", node |-> 0],
     [cmd |-> "move", node |-> 1, to |-> 1], [cmd |-> "app", node |-> 1], [cmd |-> "stop", app |-> 2]}

\* Schedules out of order, past the end, and with a fault that fails.
On(t, f) == [at |-> t, fault |-> f]
MCFaults ==
    {<<>>,
     <<On(2, [cmd |-> "heal"]), On(1, [cmd |-> "part", group |-> {0}])>>,
     <<On(1, [cmd |-> "link", a |-> 0, b |-> 1, knob |-> "bad"]), On(2, [cmd |-> "stop", app |-> 0]),
       On(9, [cmd |-> "move", node |-> 0, to |-> 1])>>,
     <<On(1, [cmd |-> "remove", node |-> 1]), On(2, [cmd |-> "app", node |-> 1])>>,
     <<On(2, [cmd |-> "connect", a |-> 0, b |-> 1]), On(1, [cmd |-> "remove", node |-> 0])>>}
MCProps ==
    <<[probe |-> [kind |-> "app", app |-> 0], cmp |-> "ge", value |-> 1, need |-> 100],
      [probe |-> [kind |-> "sum"], cmp |-> "le", value |-> 3, need |-> 50],
      [probe |-> [kind |-> "node", node |-> 0], cmp |-> "ne", value |-> 3, need |-> 100]>>
MCGates ==
    <<[probe |-> [kind |-> "app", app |-> 1], dir |-> "at_least", tol |-> 50],
      [probe |-> [kind |-> "node", node |-> 0], dir |-> "within", tol |-> 100]>>
MCSpecs ==
    {[scene |-> s, faults |-> f, duration |-> 3, props |-> MCProps, kernels |-> k, seeds |-> <<1, 2>>,
      gates |-> MCGates, recorded |-> r]
        : s \in {Line, Broken}, f \in MCFaults, k \in {<<"des">>, <<"des", "virtual">>},
          r \in {<<>>, <<<<2>>, <<1>>>>, <<<<1>>, <<>>>>}}

================================================================================
