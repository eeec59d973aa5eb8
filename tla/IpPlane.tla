------------------------------- MODULE IpPlane -------------------------------
(***************************************************************************)
(* The in-sim IP forwarding plane: crates/ndn-sim-studies/src/ip.rs        *)
(* (Inner, RunningIpNode, IpNetwork), over faces or over the LoRa medium.  *)
(*                                                                         *)
(* A node has one receive loop per face and, when it pings, one flow loop: *)
(* each of these tasks handles one packet at a time and, over LoRa, sleeps *)
(* out the frame's airtime inside it.  A link's transit time is arbitrary, *)
(* its order first in first out (SimFace.InOrder).  A link change and a    *)
(* re-route have no suspension point: each is one step.                    *)
(***************************************************************************)
EXTENDS IpRouting, LoraMedium

CONSTANTS
    Networks,      \* networks built: [n, kind, links, pos, algo, duty, ap, count, moves]; kind is
                   \* "wired" (from_links_with), "disk", "wifi" or "lora" (from_positions, _wifi,
                   \* _lora); node 0 pings node n-1 count times; moves bounds the changes
    Places,        \* position vectors mobility may bring
    Range2,        \* connectivity range, squared
    InitTtl,       \* 64 in the code
    MaxIdle        \* bound on time passing with nothing on the air

Point == Int \X Int
ASSUME NetworkAssumption ==
    \A k \in Networks :
        /\ k.n \in Nat \ {0} /\ k.links \in Seq((0 .. k.n - 1) \X (0 .. k.n - 1))
        /\ k.duty \in BOOLEAN
        /\ \A places \in Places \cup {k.pos} : \A u \in 0 .. k.n - 1 : places[u] \in Point
\* No path is as long as the number that stands for none.
ASSUME SizeAssumption == \A k \in Networks : k.n <= Unreached
ASSUME TtlAssumption == InitTtl \in Nat \ {0}

NoAp == -1         \* IBSS or mesh: no access point

VARIABLES
    net,           \* the network built
    now,
    up,            \* link -> link_up (and both directed link states)
    lossy,         \* link -> does set_loss's rate lose frames?
    pos,           \* node positions
    routes,        \* node -> table: destination -> link
    routedOver,    \* ghost: the links up and positions when the tables were installed
    wire,          \* <<link, sender>> -> packets in flight
    onAir,         \* task -> the LoRa frame its task is sleeping out, or Idle
    flow,          \* node 0's flow: [st, seq, sent, received, lost]
    replies,       \* reply_rx of node 0: sequence numbers of echoes
    stats,         \* counters: [forwarded, delivered, noRoute, ttl]
    made, gone,    \* ghost: packets created; packets lost on a link or in the air
    assoc, handoffs,
    moves          \* link changes and re-routes made

topo == <<up, lossy, pos, routes, routedOver, assoc, handoffs, moves>>
ipVars == <<net, now, topo, wire, onAir, flow, replies, stats, made, gone, medium>>

Node == 0 .. net.n - 1
Links == net.links
LinkIds == DOMAIN Links
OtherEnd(i, u) == IF Links[i][1] = u THEN Links[i][2] ELSE Links[i][1]
Flow == <<0, 0>>
Tasks == (LinkIds \X Node) \cup {Flow}   \* a face's receive loop is <<link, node>>
Idle == [id |-> 0]

\* face_to: the face towards a neighbour is that of the last link listed between the two.
FaceTo(u, v) ==
    LET between == {i \in LinkIds : {Links[i][1], Links[i][2]} = {u, v}}
    IN IF between = {} THEN 0 ELSE Max(between)

\* The table of node u as face routes: a next hop without a face leaves no route.
Install(tables, u) ==
    [d \in {d \in DOMAIN tables[u] : FaceTo(u, tables[u][d]) # 0} |-> FaceTo(u, tables[u][d])]

UpLinks(alive) ==
    LET kept[i \in 0 .. Len(Links)] ==
            IF i = 0 THEN <<>>
            ELSE IF alive[i] THEN Append(kept[i - 1], Links[i]) ELSE kept[i - 1]
    IN kept[Len(Links)]

View(alive, places) == WithPositions(FromLinks(net.n, UpLinks(alive)), places)

\* Fault: the tables are computed over every link, up or not.
RoutesIgnoringCuts(alive, places) ==
    LET tables == Compute(net.algo, View([i \in LinkIds |-> TRUE], places))
    IN [u \in Node |-> Install(tables, u)]

RoutesOver(alive, places) ==
    LET tables == Compute(net.algo, View(alive, places))
    IN [u \in Node |-> Install(tables, u)]

InRange(i, places) == Gap2(places[Links[i][1]], places[Links[i][2]]) <= Range2

\* WifiOperatingMode::link_allowed: with an AP, a star through it.
LinkAllowed(i) == net.ap = NoAp \/ net.ap \in {Links[i][1], Links[i][2]}

\* The links each builder's and reconnect's rule brings up at given positions.
UpAt(kind, places) ==
    [i \in LinkIds |->
        CASE kind = "wired" -> TRUE
          [] kind = "wifi" -> LinkAllowed(i) /\ InRange(i, places)
          [] kind \in {"disk", "lora"} -> InRange(i, places)]

\* Wi-Fi and LoRa give a link that is up a loss rate; one that is down keeps its last.
LossyAt(kind, alive, before) == [i \in LinkIds |-> before[i] \/ (kind \in {"wifi", "lora"} /\ alive[i])]

\* The station end of an AP link.
StationOf(i) == IF net.ap = Links[i][1] THEN Links[i][2] ELSE Links[i][1]

\* A station in range of the AP is associated, one out of range is not.
AssocAt(alive) ==
    [u \in Node |-> \E i \in LinkIds : net.ap \in {Links[i][1], Links[i][2]} /\ StationOf(i) = u /\ alive[i]]

NoTraffic ==
    /\ wire = [k \in LinkIds \X Node |-> <<>>]
    /\ onAir = [t \in Tasks |-> Idle]
    /\ flow = [st |-> "idle", seq |-> 0, sent |-> 0, received |-> 0, lost |-> 0]
    /\ replies = <<>>
    /\ stats = [forwarded |-> 0, delivered |-> 0, noRoute |-> 0, ttl |-> 0]
    /\ made = 0 /\ gone = 0

IpInit ==
    /\ net \in Networks
    /\ now = 0
    /\ pos = net.pos
    /\ up = UpAt(net.kind, pos)
    /\ lossy = LossyAt(net.kind, up, [i \in LinkIds |-> FALSE])
    /\ routes = RoutesOver(up, pos) /\ routedOver = [up |-> up, pos |-> pos]
    /\ assoc = IF net.kind = "wifi" THEN AssocAt(up) ELSE [u \in Node |-> FALSE]
    /\ handoffs = Cardinality({u \in Node : assoc[u]})
    /\ moves = 0
    /\ NoTraffic
    /\ MediumInit(Node, pos, net.duty)

-----------------------------------------------------------------------------
(* Topology: set_link, reroute_with, reconnect, reconnect_wifi, _lora.      *)

MayMove == moves < net.moves /\ moves' = moves + 1

Reroute(alive, places) ==
    /\ routes' = RoutesOver(alive, places)
    /\ routedOver' = [up |-> alive, pos |-> places]

\* set_link finds the first link between the two nodes; the tables keep their routes.
SetLink(i, alive) ==
    /\ MayMove
    /\ \A j \in LinkIds : {Links[j][1], Links[j][2]} = {Links[i][1], Links[i][2]} => i <= j
    /\ up' = [up EXCEPT ![i] = alive]
    /\ UNCHANGED <<net, now, lossy, pos, routes, routedOver, assoc, handoffs,
                   wire, onAir, flow, replies, stats, made, gone, medium>>

RerouteWith ==
    /\ MayMove
    /\ Reroute(up, pos)
    /\ UNCHANGED <<net, now, up, lossy, pos, assoc, handoffs,
                   wire, onAir, flow, replies, stats, made, gone, medium>>

\* reconnect (and each round of spawn_router): the unit disk, whatever the network is over.
Reconnect(places) ==
    /\ MayMove
    /\ pos' = places
    /\ up' = UpAt("disk", places)
    /\ Reroute(up', places)
    /\ UNCHANGED <<net, now, lossy, assoc, handoffs,
                   wire, onAir, flow, replies, stats, made, gone, medium>>

\* reconnect_wifi: a station that comes into the AP's range pays one association.
ReconnectWifi(places) ==
    /\ net.kind = "wifi" /\ MayMove
    /\ pos' = places
    /\ up' = UpAt("wifi", places)
    /\ lossy' = LossyAt("wifi", up', lossy)
    /\ assoc' = AssocAt(up')
    /\ handoffs' = handoffs + Cardinality({u \in Node : assoc'[u] /\ ~assoc[u]})
    /\ Reroute(up', places)
    /\ UNCHANGED <<net, now, wire, onAir, flow, replies, stats, made, gone, medium>>

\* reconnect_lora: the medium learns the positions too.
ReconnectLora(places) ==
    /\ net.kind = "lora" /\ MayMove
    /\ pos' = places
    /\ SetPositions(places)
    /\ up' = UpAt("lora", places)
    /\ lossy' = LossyAt("lora", up', lossy)
    /\ Reroute(up', places)
    /\ UNCHANGED <<net, now, assoc, handoffs, wire, onAir, flow, replies, stats, made, gone>>

-----------------------------------------------------------------------------
(* Inner::send_on and handle.                                               *)

\* The face drops what is sent on a link that is down, or by its loss rate.
PutOnFace(queues, i, u, p) ==
    \/ up[i] /\ wire' = [queues EXCEPT ![<<i, u>>] = Append(@, p)] /\ gone' = gone
    \/ (~up[i] \/ lossy[i]) /\ wire' = queues /\ gone' = gone + 1

\* send_on by task t of node u: straight onto the face or, over LoRa, first onto the air
\* unless the duty-cycle regulator gates it.
SendOn(queues, t, u, i, p) ==
    IF net.kind # "lora" THEN PutOnFace(queues, i, u, p) /\ UNCHANGED <<onAir, medium>>
    ELSE /\ wire' = queues
         /\ IF DutyGated(u, now)
            THEN gone' = gone + 1 /\ UNCHANGED <<onAir, medium>>
            ELSE /\ Register(u, OtherEnd(i, u), now)
                 /\ onAir' = [onAir EXCEPT ![t] = [id |-> Len(airLog) + 1, link |-> i, pkt |-> p]]
                 /\ gone' = gone

\* The end of the airtime: the frame, if it survived, goes onto the face.
AirtimeOver(t, u) ==
    /\ onAir[t] # Idle
    /\ now = airLog[onAir[t].id].start + Airtime
    /\ Verdict(onAir[t].id)
    /\ IF Survives(onAir[t].id) THEN PutOnFace(wire, onAir[t].link, u, onAir[t].pkt)
       ELSE wire' = wire /\ gone' = gone + 1
    /\ onAir' = [onAir EXCEPT ![t] = Idle]
    /\ flow' = IF t = Flow THEN [flow EXCEPT !.st = "waiting"] ELSE flow
    /\ UNCHANGED <<net, now, topo, replies, stats, made>>

\* A packet for this node: an echo goes to the local pinger, a request is echoed back if
\* there is a route (silently not, if there is none).
Deliver(queues, t, u, p) ==
    /\ p.dst = u
    /\ stats' = [stats EXCEPT !.delivered = @ + 1]
    /\ IF p.reply
       THEN /\ replies' = IF u = 0 THEN Append(replies, p.seq) ELSE replies
            /\ wire' = queues /\ UNCHANGED <<onAir, medium, made, gone>>
       ELSE /\ replies' = replies
            /\ IF p.src \in DOMAIN routes[u]
               THEN /\ SendOn(queues, t, u, routes[u][p.src],
                              [src |-> u, dst |-> p.src, ttl |-> InitTtl, reply |-> TRUE, seq |-> p.seq])
                    /\ made' = made + 1
               ELSE wire' = queues /\ UNCHANGED <<onAir, medium, made, gone>>

\* Fault: forwarding does not take from the time to live.
ForwardForever(queues, t, u, p) ==
    /\ p.dst # u /\ p.ttl > 1 /\ p.dst \in DOMAIN routes[u]
    /\ stats' = [stats EXCEPT !.forwarded = @ + 1]
    /\ SendOn(queues, t, u, routes[u][p.dst], p)
    /\ UNCHANGED <<replies, made>>

Forward(queues, t, u, p) ==
    /\ p.dst # u /\ p.ttl > 1 /\ p.dst \in DOMAIN routes[u]
    /\ stats' = [stats EXCEPT !.forwarded = @ + 1]
    /\ SendOn(queues, t, u, routes[u][p.dst], [p EXCEPT !.ttl = @ - 1])
    /\ UNCHANGED <<replies, made>>

\* Fault: a packet dropped for want of a route is not counted.
DropUncounted(queues, u, p) ==
    /\ p.dst # u
    /\ \/ p.ttl <= 1 /\ stats' = [stats EXCEPT !.ttl = @ + 1]
       \/ p.ttl > 1 /\ p.dst \notin DOMAIN routes[u] /\ stats' = stats
    /\ wire' = queues
    /\ UNCHANGED <<replies, made, onAir, medium, gone>>

Drop(queues, u, p) ==
    /\ p.dst # u
    /\ \/ p.ttl <= 1 /\ stats' = [stats EXCEPT !.ttl = @ + 1]
       \/ p.ttl > 1 /\ p.dst \notin DOMAIN routes[u] /\ stats' = [stats EXCEPT !.noRoute = @ + 1]
    /\ wire' = queues
    /\ UNCHANGED <<replies, made, onAir, medium, gone>>

\* One round of a face's receive loop.
Receive(i, u) ==
    LET from == <<i, OtherEnd(i, u)>>
        p == Head(wire[from])
        queues == [wire EXCEPT ![from] = Tail(@)]
    IN /\ u \in {Links[i][1], Links[i][2]}
       /\ onAir[<<i, u>>] = Idle
       /\ wire[from] # <<>>
       /\ Deliver(queues, <<i, u>>, u, p) \/ Forward(queues, <<i, u>>, u, p) \/ Drop(queues, u, p)
       /\ UNCHANGED <<net, now, topo, flow>>

-----------------------------------------------------------------------------
(* flow_loop at node 0: one request outstanding at a time.                  *)

Request == [src |-> 0, dst |-> net.n - 1, ttl |-> InitTtl, reply |-> FALSE, seq |-> flow.seq]

Ping ==
    /\ flow.st = "idle" /\ flow.seq < net.count
    /\ IF net.n - 1 \in DOMAIN routes[0]
       THEN SendOn(wire, Flow, 0, routes[0][net.n - 1], Request) /\ made' = made + 1
       ELSE UNCHANGED <<wire, onAir, medium, gone, made>>
    /\ flow' = [flow EXCEPT !.sent = @ + 1, !.st = IF onAir' = onAir THEN "waiting" ELSE "sending"]
    /\ UNCHANGED <<net, now, topo, replies, stats>>

\* The next echo in reply_rx ends the wait; one of an earlier ping counts as a loss.
GotReply ==
    /\ flow.st = "waiting" /\ replies # <<>>
    /\ flow' = IF Head(replies) = flow.seq
               THEN [flow EXCEPT !.st = "idle", !.seq = @ + 1, !.received = @ + 1]
               ELSE [flow EXCEPT !.st = "idle", !.seq = @ + 1, !.lost = @ + 1]
    /\ replies' = Tail(replies)
    /\ UNCHANGED <<net, now, topo, wire, onAir, stats, made, gone, medium>>

LifetimeOver ==
    /\ flow.st = "waiting"
    /\ flow' = [flow EXCEPT !.st = "idle", !.seq = @ + 1, !.lost = @ + 1]
    /\ UNCHANGED <<net, now, topo, wire, onAir, replies, stats, made, gone, medium>>

\* Time matters to the air only: it passes no frame's end, nor MaxIdle with the air silent.
Tick ==
    /\ net.kind = "lora"
    /\ \A t \in Tasks : onAir[t] # Idle => now < airLog[onAir[t].id].start + Airtime
    /\ (\E t \in Tasks : onAir[t] # Idle) \/ now < MaxIdle
    /\ now' = now + 1
    /\ UNCHANGED <<net, topo, wire, onAir, flow, replies, stats, made, gone, medium>>

IpNext ==
    \/ \E i \in LinkIds, alive \in BOOLEAN : SetLink(i, alive)
    \/ RerouteWith
    \/ \E places \in Places : Reconnect(places) \/ ReconnectWifi(places) \/ ReconnectLora(places)
    \/ \E i \in LinkIds, u \in Node : Receive(i, u)
    \/ \E t \in Tasks : AirtimeOver(t, t[2])
    \/ Ping \/ GotReply \/ LifetimeOver
    \/ Tick

IpSpec == IpInit /\ [][IpNext]_ipVars

-----------------------------------------------------------------------------
\* The places packets are at: in a queue, or with a task that is sending one.
InQueues(queues) == UNION {{k} \X DOMAIN queues[k] : k \in LinkIds \X Node}
Sending(air) == {t \in Tasks : air[t] # Idle}
InFlight == Cardinality(InQueues(wire)) + Cardinality(Sending(onAir))

\* Every packet put into the network is in flight, or was delivered, dropped and counted by a
\* node, or lost on a link or in the air, exactly once (Inner::handle, send_on).
EveryPacketAccounted ==
    made = InFlight + stats.delivered + stats.noRoute + stats.ttl + gone

\* However the tables loop (a stale table, or gpsr's recovery) a packet is forwarded less
\* often than its time to live (Inner::handle).
LoopsDieOut == stats.forwarded <= (InitTtl - 1) * made

\* A ping is received, lost or outstanding; of all the packets delivered, requests and echoes, no
\* fewer are there than pings received and echoes waiting to be counted.
FlowAccounts ==
    /\ flow.sent = flow.received + flow.lost + (IF flow.st = "idle" THEN 0 ELSE 1)
    /\ flow.received + Len(replies) <= stats.delivered

\* The counters a study reads are true of what happened, packet by packet and ping by ping.
TrafficSound == EveryPacketAccounted /\ FlowAccounts

\* The view the tables were last computed over, and the node a route leads to next.
LastView == View(routedOver.up, routedOver.pos)
NextNode(u, d) == OtherEnd(routes[u][d], u)

\* The farthest a table of the path algorithms reaches: distance-vector's metric ends at 16.
Reach == IF net.algo = "distance-vector" THEN 15 ELSE net.n

\* Tables of the path algorithms reach exactly what is connected and within reach, and every hop
\* is one step nearer: they are shortest and hold no loop (dijkstra_table,
\* DistanceVector::compute, face_to).
PathsAreShortest ==
    net.algo \in {"shortest-path", "distance-vector", "olsr"} =>
        \A u \in Node : \A d \in Node \ {u} :
            /\ d \in DOMAIN routes[u] <=> d \in Ball(LastView, u, Reach)
            /\ d \in DOMAIN routes[u] => Hops(LastView, NextNode(u, d), d) = Hops(LastView, u, d) - 1

\* Greedy geographic tables get strictly closer at each hop, so they hold no loop
\* (GreedyGeographic::compute, face_to).
GreedyGetsCloser ==
    net.algo = "gpsr-greedy" =>
        \A u \in Node : \A d \in DOMAIN routes[u] :
            Gap2(routedOver.pos[NextNode(u, d)], routedOver.pos[d]) < Gap2(routedOver.pos[u], routedOver.pos[d])

\* OLSR's relays reach every two-hop neighbour (mpr_set).
RelaysCover ==
    \A u \in Node : TwoHop(LastView, u) \subseteq UNION {Neighbours(LastView, w) : w \in MprSet(LastView, u)}

\* Whatever was cut, moved and re-routed, the tables are those of the topology they were computed
\* over: shortest, strictly nearer, relayed in full (routing.rs, reroute_with).
TablesAreRight == PathsAreShortest /\ GreedyGetsCloser /\ RelaysCover

\* The tables are right until the first ping: as no packet touches a table, this is all there is to
\* look at (routing.rs, reroute_with).
TablesSound == flow.sent = 0 => TablesAreRight
=============================================================================
