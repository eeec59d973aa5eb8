-------------------------------- MODULE UdpNet --------------------------------
(***************************************************************************)
(* The UDP stacks of config-booted nodes: crates/ndn-sim/src/sim_udp.rs.   *)
(*                                                                         *)
(* UdpNet::build binds one socket per configured peer entry and the        *)
(* listeners; afterwards faces send datagrams and the destination host     *)
(* picks the socket.  What a face's send path does to a datagram (loss,    *)
(* delay, reordering, a full receive queue) is SimFace's: here a datagram  *)
(* on the wire arrives in any order or never.  The engine's idle reaper    *)
(* (external) removes on-demand faces at any moment.                       *)
(***************************************************************************)
EXTENDS Integers, Sequences, FiniteSets

CONSTANTS
    Host,
    Declared,     \* host -> its place in declaration order
    Configs,      \* host -> [peers: Seq of [ip, port, local, connected], listen: set of ports]
    EphemeralBase, PortMax,   \* the ephemeral range, u16::MAX at its end
    MaxSends,     \* bound on datagrams
    MaxMints      \* bound on on-demand faces

Ports == 1..PortMax

ASSUME PortAssumption == EphemeralBase \in Nat \ {0} /\ PortMax \in Nat /\ EphemeralBase <= PortMax
ASSUME HostAssumption == Declared \in [Host -> Nat] /\ \A g, h \in Host : g # h => Declared[g] # Declared[h]
\* (The address of a peer entry may be no host's.)
ASSUME ConfigAssumption ==
    \A c \in Configs : \A h \in Host :
        /\ c[h].listen \subseteq Ports
        /\ Len(c[h].peers) \in Nat
        /\ \A i \in 1..Len(c[h].peers) :
              /\ c[h].peers[i].port \in Ports /\ c[h].peers[i].local \in {0} \cup Ports
              /\ c[h].peers[i].connected \in BOOLEAN

VARIABLES
    config,     \* the hosts' configurations, fixed from the start
    pc,         \* "link" (resolving entries), "bind", "up" or "failed"
    todo,       \* peer entries still to be bound: [host, nth]
    faces,      \* every face attached: [host, port, remote, knob, minted, alive]
    connected,  \* connected sockets: [host, port, peer, face]
    bound,      \* peer faces on sockets of their own: [host, port, peer, face]
    listening,  \* listeners' on-demand faces: [host, port, peer, face]
    nextEph,    \* host -> next_ephemeral
    cancelled,  \* hosts whose node was removed or shut down
    down,       \* (host, peer) pairs whose link state is down
    wire,       \* datagrams in flight: [n, src, dst]
    fed,        \* history: [n, src, dst, face] for each datagram a socket took
    sends       \* datagrams sent

sockets == <<connected, bound, listening, nextEph>>
vars == <<config, pc, todo, faces, sockets, cancelled, down, wire, fed, sends>>

At(h, p) == [ip |-> h, port |-> p]

\* A remote that is no other host gets no face.
Entries(h) == {i \in 1..Len(config[h].peers) : config[h].peers[i].ip \in Host \ {h}}

Entry(x) == config[x.host].peers[x.nth]

\* The peer entries of all hosts.
AllEntries == UNION {{[host |-> h, nth |-> i] : i \in Entries(h)} : h \in Host}

\* Peer faces are bound in node declaration order, then entry order.
InOrder(x, y) ==
    IF x.host = y.host THEN x.nth <= y.nth ELSE Declared[x.host] < Declared[y.host]

Links(h) == {config[h].peers[i].ip : i \in Entries(h)}

\* The peers of h: the hosts that exchange datagrams with it, whoever configured the link.
Peers(h) == Links(h) \cup {g \in Host : h \in Links(g)}

Init ==
    /\ config \in Configs
    /\ pc = "link" /\ todo = {} /\ faces = <<>>
    /\ connected = {} /\ bound = {} /\ listening = {}
    /\ nextEph = [h \in Host |-> EphemeralBase]
    /\ cancelled = {} /\ down = {} /\ wire = {} /\ fed = {} /\ sends = 0

-----------------------------------------------------------------------------
(* UdpNet::build.                                                          *)

LinkedTwice ==
    \E h \in Host : \E i, j \in Entries(h) : i # j /\ config[h].peers[i].ip = config[h].peers[j].ip

\* Resolve the entries; a pair linked twice fails the start.
LinkPeers ==
    /\ pc = "link"
    /\ IF LinkedTwice THEN pc' = "failed" /\ UNCHANGED todo
       ELSE pc' = "bind" /\ todo' = AllEntries
    /\ UNCHANGED <<config, faces, sockets, cancelled, down, wire, fed, sends>>

\* The port is taken for an unconnected socket: by another, or by a listener.
BoundAt(h, p) == p \in config[h].listen \/ \E s \in bound : s.host = h /\ s.port = p

InUse(h, p) == BoundAt(h, p) \/ \E s \in connected : s.host = h /\ s.port = p

\* Sockets::ephemeral_port: p is the next free port, wrapping round at the top.  (With none
\* free the code does not return.)
EphemeralPort(h, p) ==
    LET size == PortMax - EphemeralBase + 1
        ahead(q) == (q - nextEph[h] + size) % size
        freePorts == {q \in EphemeralBase..PortMax : ~InUse(h, q)}
    IN p \in freePorts /\ \A q \in freePorts : ahead(p) <= ahead(q)

Following(p) == IF p = PortMax THEN EphemeralBase ELSE p + 1

\* The fault knob of every face of h towards a host is the one of that direction.
KnobOf(h, remote, isMinted) == <<h, remote.ip>>

\* attach_face: datagrams leave from the local port.
Attach(h, p, remote, isMinted) ==
    faces' = Append(faces, [host |-> h, port |-> p, remote |-> remote, minted |-> isMinted,
                            knob |-> KnobOf(h, remote, isMinted), alive |-> TRUE])

Socket(h, p, peer, f) == [host |-> h, port |-> p, peer |-> peer, face |-> f]

Taken(h, p, e) ==
    IF e.connected THEN \E s \in connected : s.host = h /\ s.port = p /\ s.peer = At(e.ip, e.port)
    ELSE BoundAt(h, p)

\* bind_peer_face for the entry x, on port p.  A local port of 0 asks for an ephemeral one.
BindPeerFace(x, p) ==
    /\ pc = "bind" /\ x \in todo /\ \A y \in todo : InOrder(x, y)
    /\ LET h == x.host
           e == Entry(x)
           s == Socket(h, p, At(e.ip, e.port), Len(faces) + 1)
       IN /\ IF e.local = 0 THEN EphemeralPort(h, p) ELSE p = e.local
          /\ nextEph' = IF e.local # 0 THEN nextEph
                        ELSE [nextEph EXCEPT ![h] = Following(p)]
          /\ IF Taken(h, p, e)
             THEN pc' = "failed" /\ UNCHANGED <<todo, faces, connected, bound>>
             ELSE /\ Attach(h, p, At(e.ip, e.port), FALSE)
                  /\ connected' = IF e.connected THEN connected \cup {s} ELSE connected
                  /\ bound' = IF e.connected THEN bound ELSE bound \cup {s}
                  /\ todo' = todo \ {x}
                  /\ UNCHANGED pc
    /\ UNCHANGED <<config, listening, cancelled, down, wire, fed, sends>>

BuildDone ==
    /\ pc = "bind" /\ todo = {}
    /\ pc' = "up"
    /\ UNCHANGED <<config, todo, faces, sockets, cancelled, down, wire, fed, sends>>

-----------------------------------------------------------------------------
(* Sending (UdpPath::deliver) and receiving (UdpNet::deliver, demux).       *)

Local(f) == At(faces[f].host, faces[f].port)

\* An engine sends on one of its faces; a downed link drops the datagram.
SendOn(f) ==
    /\ pc = "up" /\ sends < MaxSends
    /\ faces[f].alive
    /\ sends' = sends + 1
    /\ wire' = IF faces[f].knob \in down THEN wire
               ELSE wire \cup {[n |-> sends + 1, src |-> Local(f), dst |-> faces[f].remote]}
    /\ UNCHANGED <<config, pc, todo, faces, sockets, cancelled, down, fed>>

To(S, d) == {s \in S : s.host = d.dst.ip /\ s.port = d.dst.port /\ s.peer = d.src}

Connected(d) == To(connected, d)

\* Fault: a peer face on an unconnected socket takes any source.
BoundToAny(d) == {s \in bound : s.host = d.dst.ip /\ s.port = d.dst.port}

\* A peer face on an unconnected socket takes only its peer's datagrams.
BoundTo(d) == To(bound, d)

AtListener(d) == d.dst.port \in config[d.dst.ip].listen

\* The listener's face for the source, unless the engine has removed it.
LiveOnDemand(d) == {s \in To(listening, d) : faces[s.face].alive}

Feed(d, f) ==
    /\ wire' = wire \ {d}
    /\ fed' = fed \cup {[n |-> d.n, src |-> d.src, dst |-> d.dst, face |-> f]}

Up(d) == pc = "up" /\ d.dst.ip \notin cancelled

\* Fault: the socket bound to the port wins over the connected one.
ToListenerFirst(d) == AtListener(d)

\* No connected socket matches and a listener owns the port.
ToListener(d) == Connected(d) = {} /\ AtListener(d)

\* demux found a face that is there.
DeliverToFace(d) ==
    /\ Up(d)
    /\ LET S == IF ToListener(d) THEN LiveOnDemand(d)
                ELSE IF Connected(d) # {} THEN Connected(d) ELSE BoundTo(d)
       IN \E s \in S : Feed(d, s.face)
    /\ UNCHANGED <<config, pc, todo, faces, sockets, cancelled, down, sends>>

\* The listener meets a source it has no live face for: a known host's gets one.
Mint(d) ==
    /\ Up(d) /\ ToListener(d) /\ LiveOnDemand(d) = {}
    /\ d.src.ip \in Peers(d.dst.ip)
    /\ Cardinality({f \in 1..Len(faces) : faces[f].minted}) < MaxMints
    /\ Attach(d.dst.ip, d.dst.port, d.src, TRUE)
    /\ listening' = (listening \ To(listening, d))
                    \cup {Socket(d.dst.ip, d.dst.port, d.src, Len(faces) + 1)}
    /\ Feed(d, Len(faces) + 1)
    /\ UNCHANGED <<config, pc, todo, connected, bound, nextEph, cancelled, down, sends>>

\* No socket takes the datagram, or it is lost on the way.
Drop(d) ==
    /\ pc = "up"
    /\ wire' = wire \ {d}
    /\ UNCHANGED <<config, pc, todo, faces, sockets, cancelled, down, fed, sends>>

-----------------------------------------------------------------------------
(* The engine's idle reaper, node removal, the fabric's link knobs.         *)

Reap(f) ==
    /\ pc = "up" /\ faces[f].minted /\ faces[f].alive
    /\ faces' = [faces EXCEPT ![f].alive = FALSE]
    /\ UNCHANGED <<config, pc, todo, sockets, cancelled, down, wire, fed, sends>>

Cancel(h) ==
    /\ pc = "up" /\ h \notin cancelled
    /\ cancelled' = cancelled \cup {h}
    /\ faces' = [f \in 1..Len(faces) |->
                    IF faces[f].host = h THEN [faces[f] EXCEPT !.alive = FALSE] ELSE faces[f]]
    /\ UNCHANGED <<config, pc, todo, sockets, down, wire, fed, sends>>

\* set_link_up and the like act on both directions of a link.
SetLink(g, h, up) ==
    /\ pc = "up" /\ h \in Peers(g)
    /\ down' = IF up THEN down \ {<<g, h>>, <<h, g>>} ELSE down \cup {<<g, h>>, <<h, g>>}
    /\ down' # down
    /\ UNCHANGED <<config, pc, todo, faces, sockets, cancelled, wire, fed, sends>>

Stay == pc = "failed" /\ UNCHANGED vars

Next ==
    \/ LinkPeers \/ BuildDone \/ Stay
    \/ \E x \in todo, p \in Ports : BindPeerFace(x, p)
    \/ \E f \in 1..Len(faces) : SendOn(f) \/ Reap(f)
    \/ \E d \in wire : DeliverToFace(d) \/ Mint(d) \/ Drop(d)
    \/ \E h \in Host : Cancel(h) \/ \E g \in Host, up \in BOOLEAN : SetLink(g, h, up)

Spec == Init /\ [][Next]_vars

-----------------------------------------------------------------------------
(* Properties.                                                             *)

Live == {f \in 1..Len(faces) : faces[f].alive}
Towards(h, p) == {f \in Live : faces[f].host = h /\ faces[f].remote.ip = p}

TypeOK ==
    /\ pc \in {"link", "bind", "up", "failed"}
    /\ \A f \in 1..Len(faces) : /\ faces[f].host \in Host /\ faces[f].port \in Ports
                                /\ faces[f].knob \in Host \X Host
    /\ \A s \in connected \cup bound \cup listening : s.face \in 1..Len(faces)
    /\ \A h \in Host : nextEph[h] \in EphemeralBase..PortMax

\* The endpoints of two neighbours mirror each other: each entry's remote is the other's local.
Mirrored(g, h) ==
    \A x, y \in {g, h} : x # y => \E i \in Entries(x), j \in Entries(y) :
        /\ config[x].peers[i].ip = y /\ config[y].peers[j].ip = x
        /\ config[x].peers[i].port = config[y].peers[j].local

\* A neighbour occupies one face, so the nexthop exclusion sees its Interests come back, exactly
\* as long as the two configurations mirror each other; no order of datagrams mints a second.
OneFacePerNeighbour ==
    pc = "up" => \A g, h \in Host : g # h /\ Mirrored(g, h) => Cardinality(Towards(g, h)) <= 1

\* Sockets the kernel could not tell apart never coexist: no two live faces of a host have the
\* same local port and the same peer, whatever is reaped and minted again.
DistinctEndpoints ==
    \A f, g \in Live : f # g => Local(f) # Local(g) \/ faces[f].remote # faces[g].remote

\* A datagram ends up in a face of its destination that talks to its very source, so the answer
\* to an on-demand face's datagram comes back to the face that caused it.
FromItsPeer ==
    \A x \in fed : Local(x.face) = x.dst /\ faces[x.face].remote = x.src

\* A bind to port 0 never makes the start fail: the port picked is free also of listeners and of
\* the sockets bound so far.
EphemeralNeverClashes ==
    pc = "failed" => \A x \in todo : (\A y \in todo : InOrder(x, y)) => Entry(x).local # 0

\* What the demultiplexer relies on: endpoints that tell sockets apart, datagrams at the face of
\* their own conversation, and ephemeral ports nobody else holds.
SocketsSound == TypeOK /\ DistinctEndpoints /\ FromItsPeer /\ EphemeralNeverClashes

=============================================================================
