------------------------------ MODULE MCIpPlane ------------------------------
EXTENDS IpPlane

Line == <<<<0, 1>>, <<1, 2>>>>
Mesh == <<<<0, 1>>, <<0, 2>>, <<1, 2>>>>
Twice == <<<<0, 1>>, <<1, 2>>, <<0, 1>>>>
Ring4 == <<<<0, 1>>, <<1, 3>>, <<3, 2>>, <<2, 0>>>>
Mesh4 == <<<<0, 3>>, <<0, 1>>, <<1, 3>>, <<0, 2>>, <<2, 3>>, <<1, 2>>>>

\* Positions: a line in range of its neighbours, all close, the last node far, a void
\* between the first and the last (greedy fails at node 1), a square.
At(x, y) == [u \in 0 .. 3 |-> <<x[u + 1], y[u + 1]>>]
Apart == At(<<0, 2, 4, 6>>, <<0, 0, 0, 0>>)
Close == At(<<0, 1, 2, 3>>, <<0, 0, 0, 0>>)
Split == At(<<0, 1, 9, 2>>, <<0, 0, 0, 0>>)
Void == At(<<2, 0, 1, 4>>, <<0, 0, 2, 0>>)
Square == At(<<0, 2, 0, 2>>, <<0, 0, 2, 2>>)

Net(n, k, l, at, a, regulated, station, c, m) ==
    [n |-> n, kind |-> k, links |-> l, pos |-> at, algo |-> a, duty |-> regulated, ap |-> station,
     count |-> c, moves |-> m]

Traffic ==
    {Net(3, "wired", Twice, Apart, "distance-vector", FALSE, NoAp, 2, 2),
     Net(3, "disk", Mesh, Void, "gpsr", FALSE, NoAp, 2, 2),
     Net(3, "wifi", Mesh, Close, "shortest-path", FALSE, 1, 2, 1),
     Net(3, "lora", Mesh, Close, "shortest-path", TRUE, NoAp, 2, 1),
     Net(3, "lora", Mesh, Apart, "shortest-path", FALSE, NoAp, 2, 1)}
Tables ==
    {Net(4, "disk", l, at, a, FALSE, NoAp, 0, 2) :
        l \in {Ring4, Mesh4}, at \in {Apart, Void, Square},
        a \in {"shortest-path", "distance-vector", "gpsr-greedy", "gpsr", "olsr"}}
MCNetworks == Traffic \cup Tables
MCPlaces == {Apart, Split}
=============================================================================
