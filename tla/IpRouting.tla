------------------------------ MODULE IpRouting ------------------------------
(***************************************************************************)
(* The routing algorithms of the in-sim IP plane, as operators:            *)
(* crates/ndn-sim-studies/src/routing.rs.                                  *)
(*                                                                         *)
(* A view is [n, adj, pos]: nodes 0 .. n-1; adj[u] the sequence of         *)
(* <<neighbour, cost>> out of u in the order the links were listed (ties   *)
(* are broken by it); pos[u] a point <<x, y>>, or pos is NoPos.  A table   *)
(* maps each destination a node has a route to, to the next hop; a row's   *)
(* metric decides nothing and is left out.  Distances are compared         *)
(* squared, angles by half-plane and cross product.                        *)
(***************************************************************************)
EXTENDS Integers, SequencesExt

NoPos == <<>>
Unreached == 2147483647   \* for u32::MAX: larger than the cost of any path
Nodes(view) == 0 .. view.n - 1

\* Undirected links of unit cost: each is an edge out of both its ends.
FromLinks(n, links) ==
    LET Far(l, u) == IF l[1] = u THEN l[2] ELSE l[1]
        Row(u) ==
            LET row[k \in 0 .. Len(links)] ==
                    IF k = 0 THEN <<>>
                    ELSE IF u \in {links[k][1], links[k][2]}
                         THEN Append(row[k - 1], <<Far(links[k], u), 1>>) ELSE row[k - 1]
            IN row[Len(links)]
    IN [n |-> n, pos |-> NoPos, adj |-> [u \in 0 .. n - 1 |-> Row(u)]]

WithPositions(view, pos) == [view EXCEPT !.pos = pos]

Neighbours(view, u) == {view.adj[u][i][1] : i \in DOMAIN view.adj[u]}

\* The rows a search leaves: reached destinations other than the node itself.
Rows(view, u, hop) == [d \in {d \in Nodes(view) \ {u} : hop[d] # Unreached} |-> hop[d]]

-----------------------------------------------------------------------------
(* Link state: Dijkstra from src, remembering the first hop of each path.   *)

\* The heap's least <<cost, node>>.
Top(heap) == CHOOSE e \in heap : \A f \in heap : e[1] < f[1] \/ (e[1] = f[1] /\ e[2] <= f[2])

\* The edge <<v, weight>> out of node u, which is popped at the given cost, is relaxed.
Relax(src, u, cost, s, edge) ==
    LET v == edge[1]
        through == cost + edge[2]
    IN IF through < s.dist[v]
       THEN [dist |-> [s.dist EXCEPT ![v] = through],
             hop  |-> [s.hop EXCEPT ![v] = IF u = src THEN v ELSE s.hop[u]],
             heap |-> s.heap \cup {<<through, v>>}]
       ELSE s

\* Pop the least entry and relax its node's edges in order, unless the entry is stale.
Settle(view, src, s) ==
    LET e == Top(s.heap)
        row == view.adj[e[2]]
        popped == [s EXCEPT !.heap = @ \ {e}]
        relaxed[i \in 0 .. Len(row)] ==
            IF i = 0 THEN popped ELSE Relax(src, e[2], e[1], relaxed[i - 1], row[i])
    IN IF e[1] > s.dist[e[2]] THEN popped ELSE relaxed[Len(row)]

\* Until the heap is empty; it gets one entry for src and at most one for each edge.
Settled(view, src) ==
    LET start == [dist |-> [d \in Nodes(view) |-> IF d = src THEN 0 ELSE Unreached],
                  hop  |-> [d \in Nodes(view) |-> Unreached], heap |-> {<<0, src>>}]
        pops == 1 + Cardinality(UNION {{u} \X DOMAIN view.adj[u] : u \in Nodes(view)})
        after[k \in 0 .. pops] ==
            IF k = 0 THEN start
            ELSE LET s == after[k - 1] IN IF s.heap = {} THEN s ELSE Settle(view, src, s)
    IN after[pops]

Dijkstra(view, src) == Rows(view, src, Settled(view, src).hop)

ShortestPath(view) == [u \in Nodes(view) |-> Dijkstra(view, u)]

-----------------------------------------------------------------------------
(* Distance vector: relax the neighbours' vectors in place, n rounds at     *)
(* most, costs of max_metric and above being infinite.                     *)

\* Node h.u takes from its neighbour h.v every destination it is cheaper through.
Through(view, maxMetric, t, h) ==
    LET Cand(d) == h.cost + t.dist[h.v][d]
        better == {d \in Nodes(view) : /\ t.dist[h.v][d] # Unreached
                                       /\ Cand(d) < maxMetric /\ Cand(d) < t.dist[h.u][d]}
        Taken(vectors, x(_)) ==
            [u \in Nodes(view) |-> [d \in Nodes(view) |-> IF u = h.u /\ d \in better THEN x(d) ELSE vectors[u][d]]]
    IN [dist |-> Taken(t.dist, Cand), next |-> Taken(t.next, LAMBDA d : h.v)]

\* The edges out of u, in order.
RelaxRow(view, maxMetric, u, vectors) ==
    LET row == view.adj[u]
        after[i \in 0 .. Len(row)] ==
            IF i = 0 THEN vectors
            ELSE Through(view, maxMetric, after[i - 1], [u |-> u, v |-> row[i][1], cost |-> row[i][2]])
    IN after[Len(row)]

\* One round, node by node; one that changes nothing ends them (later ones would change nothing).
Round(view, maxMetric, vectors) ==
    LET after[k \in 0 .. view.n] ==
            IF k = 0 THEN vectors ELSE RelaxRow(view, maxMetric, k - 1, after[k - 1])
    IN after[view.n]

DistanceVector(view, maxMetric) ==
    LET start == [dist |-> [u \in Nodes(view) |-> [d \in Nodes(view) |-> IF u = d THEN 0 ELSE Unreached]],
                  next |-> [u \in Nodes(view) |-> [d \in Nodes(view) |-> Unreached]]]
        after[k \in 0 .. view.n] == IF k = 0 THEN start ELSE Round(view, maxMetric, after[k - 1])
    IN [u \in Nodes(view) |-> Rows(view, u, after[view.n].next[u])]

-----------------------------------------------------------------------------
(* Geographic: greedy progress, and its right-hand-rule recovery.           *)

Dist2(p, q) == (p[1] - q[1]) * (p[1] - q[1]) + (p[2] - q[2]) * (p[2] - q[2])

\* The places in u's row of the neighbours strictly closer to d than u is.
Closer(view, u, d) ==
    {i \in DOMAIN view.adj[u] :
        Dist2(view.pos[view.adj[u][i][1]], view.pos[d]) < Dist2(view.pos[u], view.pos[d])}

\* The first nearest of them, or Unreached at a local minimum.
GreedyHop(view, u, d) ==
    LET Away(i) == Dist2(view.pos[view.adj[u][i][1]], view.pos[d])
    IN IF Closer(view, u, d) = {} THEN Unreached
       ELSE view.adj[u][CHOOSE i \in Closer(view, u, d) : \A j \in Closer(view, u, d) :
                            Away(i) < Away(j) \/ (Away(i) = Away(j) /\ i <= j)][1]

\* The neighbour first met turning counter-clockwise from the line u -> d; one on the
\* line itself comes last.
PerimeterHop(view, u, d) ==
    LET Vec(v) == <<view.pos[v][1] - view.pos[u][1], view.pos[v][2] - view.pos[u][2]>>
        Cross(p, q) == p[1] * q[2] - p[2] * q[1]
        Dot(p, q) == p[1] * q[1] + p[2] * q[2]
        ref == Vec(d)
        Turn(v) == IF Cross(ref, Vec(v)) > 0 \/ (Cross(ref, Vec(v)) = 0 /\ Dot(ref, Vec(v)) < 0) THEN 1
                   ELSE IF Cross(ref, Vec(v)) < 0 THEN 2 ELSE 3
        Before(v, w) == Turn(v) < Turn(w) \/ (Turn(v) = Turn(w) /\ Cross(Vec(v), Vec(w)) > 0)
        row == view.adj[u]
    IN IF row = <<>> THEN Unreached
       ELSE row[CHOOSE i \in DOMAIN row : \A j \in DOMAIN row \ {i} :
                  Before(row[i][1], row[j][1]) \/ (~Before(row[j][1], row[i][1]) /\ i < j)][1]

GreedyGeographic(view) ==
    IF view.pos = NoPos THEN [u \in Nodes(view) |-> <<>>]
    ELSE [u \in Nodes(view) |-> Rows(view, u, [d \in Nodes(view) |-> GreedyHop(view, u, d)])]

Gpsr(view) ==
    IF view.pos = NoPos THEN [u \in Nodes(view) |-> <<>>]
    ELSE [u \in Nodes(view) |-> Rows(view, u, [d \in Nodes(view) |->
            IF GreedyHop(view, u, d) # Unreached THEN GreedyHop(view, u, d)
            ELSE PerimeterHop(view, u, d)])]

\* The routes each algorithm installs; AODV, DSR and OLSR converge to Dijkstra's.
Compute(algo, view) ==
    CASE algo \in {"shortest-path", "aodv", "dsr", "olsr"} -> ShortestPath(view)
      [] algo = "distance-vector" -> DistanceVector(view, 16)
      [] algo = "gpsr-greedy" -> GreedyGeographic(view)
      [] algo = "gpsr" -> Gpsr(view)

-----------------------------------------------------------------------------
(* OLSR's multipoint relays: greedily the neighbour covering most of the    *)
(* 2-hop nodes still uncovered, the lowest number on a tie.                 *)

TwoHop(view, u) ==
    UNION {Neighbours(view, v) : v \in Neighbours(view, u)} \ (Neighbours(view, u) \cup {u})

\* The next relay, or none where no neighbour left covers anything.
MoreRelays(view, u, s) ==
    LET Covers(v) == Cardinality({i \in DOMAIN view.adj[v] : view.adj[v][i][1] \in s.open})
        left == Neighbours(view, u) \ s.mprs
        best == CHOOSE v \in left : \A w \in left :
                    Covers(v) > Covers(w) \/ (Covers(v) = Covers(w) /\ v <= w)
    IN IF s.open = {} \/ \A v \in left : Covers(v) = 0 THEN s
       ELSE [mprs |-> s.mprs \cup {best}, open |-> s.open \ Neighbours(view, best)]

MprSet(view, u) ==
    LET rounds == Cardinality(Neighbours(view, u))
        after[k \in 0 .. rounds] ==
            IF k = 0 THEN [mprs |-> {}, open |-> TwoHop(view, u)] ELSE MoreRelays(view, u, after[k - 1])
    IN after[rounds].mprs

-----------------------------------------------------------------------------
(* What tables are measured by.                                            *)

\* The nodes within k hops of u.
Ball(view, u, k) ==
    LET within[j \in 0 .. k] ==
            IF j = 0 THEN {u}
            ELSE LET before == within[j - 1]
                 IN before \cup UNION {Neighbours(view, v) : v \in before}
    IN within[k]

Hops(view, u, d) ==
    CHOOSE h \in 0 .. view.n : d \in Ball(view, u, h) /\ (h > 0 => d \notin Ball(view, u, h - 1))
=============================================================================
