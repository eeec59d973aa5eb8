----------------------------- MODULE UdpNetProofs -----------------------------
(***************************************************************************)
(* Proofs about UdpNet: its sockets are sound (SocketsSound), and a        *)
(* neighbour whose configuration mirrors ours occupies one face            *)
(* (OneFacePerNeighbour), for every set of hosts, every configuration and  *)
(* every number of datagrams and on-demand faces.                          *)
(*                                                                         *)
(* The inductive invariant UdpInv says where faces come from.  A face not  *)
(* minted belongs to exactly one peer entry (FromEntries, EntriesBound,    *)
(* OwnPeer) and a minted one to a listener's port that no connected socket *)
(* shadows (Apart, Agree); a datagram on the wire was sent by a face whose *)
(* endpoints it carries (OnTheWire).  So what reaches a host from a        *)
(* neighbour it mirrors comes from that neighbour's entry and meets its    *)
(* own entry's socket, never a listener (Shy).                             *)
(***************************************************************************)
EXTENDS UdpNet, FiniteSetTheorems, SequenceTheorems, TLAPS

Address == [ip : Host, port : Ports]
FaceType == [host : Host, port : Ports, remote : Address, minted : BOOLEAN,
             knob : Host \X Host, alive : BOOLEAN]
SocketType == [host : Host, port : Ports, peer : Address, face : Nat]

Types ==
    /\ config \in Configs
    /\ pc \in {"link", "bind", "up", "failed"}
    /\ todo \subseteq AllEntries
    /\ faces \in Seq(FaceType)
    /\ connected \in SUBSET SocketType
    /\ bound \in SUBSET SocketType
    /\ listening \in SUBSET SocketType
    /\ nextEph \in [Host -> EphemeralBase..PortMax]
    /\ wire \in SUBSET [n : Nat, src : Address, dst : Address]
    /\ sends \in Nat

\* f is a face of F with these endpoints, on demand or not.
IsFace(F, f, h, p, r, m) ==
    /\ f \in 1..Len(F)
    /\ F[f].host = h /\ F[f].port = p /\ F[f].remote = r /\ F[f].minted = m

Agree ==
    /\ \A s \in connected \cup bound : IsFace(faces, s.face, s.host, s.port, s.peer, FALSE)
    /\ \A s \in listening : IsFace(faces, s.face, s.host, s.port, s.peer, TRUE)

SameEnds(s, t) == s.host = t.host /\ s.port = t.port /\ s.peer = t.peer

Apart ==
    /\ \A s, t \in connected : SameEnds(s, t) => s = t
    /\ \A s, t \in bound : s.host = t.host /\ s.port = t.port => s = t
    /\ \A s, t \in listening : SameEnds(s, t) => s = t
    /\ \A s \in bound : s.port \notin config[s.host].listen
    /\ \A s \in listening : s.port \in config[s.host].listen
    /\ \A s \in listening, t \in connected : ~SameEnds(s, t)

Owned == \A f \in 1..Len(faces) :
            faces[f].alive => \E s \in connected \cup bound \cup listening : s.face = f

FromEntries ==
    \A f \in 1..Len(faces) : ~faces[f].minted =>
        \E x \in AllEntries \ todo :
            /\ x.host = faces[f].host
            /\ faces[f].remote = At(Entry(x).ip, Entry(x).port)
            /\ Entry(x).local # 0 => faces[f].port = Entry(x).local

\* s is the socket of the entry x.
Serves(s, x) ==
    /\ s.host = x.host /\ s.peer = At(Entry(x).ip, Entry(x).port)
    /\ Entry(x).local # 0 => s.port = Entry(x).local

EntriesBound ==
    pc \in {"bind", "up"} =>
        /\ ~LinkedTwice
        /\ \A x \in AllEntries \ todo :
              \E s \in (IF Entry(x).connected THEN connected ELSE bound) : Serves(s, x)

OwnPeer ==
    \A f, g \in 1..Len(faces) :
        /\ ~faces[f].minted /\ ~faces[g].minted
        /\ faces[f].host = faces[g].host /\ faces[f].remote.ip = faces[g].remote.ip
        => f = g

OnTheWire == \A d \in wire : \E f \in 1..Len(faces) : Local(f) = d.src /\ faces[f].remote = d.dst

FedRight == \A x \in fed : /\ x.face \in 1..Len(faces)
                           /\ Local(x.face) = x.dst /\ faces[x.face].remote = x.src

Shy == \A f \in 1..Len(faces) : faces[f].minted => ~Mirrored(faces[f].host, faces[f].remote.ip)

Unstarted ==
    /\ pc = "link" => todo = {} /\ faces = <<>>
    /\ pc = "up" => todo = {}
    /\ pc # "up" => listening = {}

UdpInv ==
    /\ Types /\ Agree /\ Apart /\ Owned /\ FromEntries /\ EntriesBound /\ OwnPeer
    /\ OnTheWire /\ FedRight /\ Shy /\ Unstarted /\ EphemeralNeverClashes

-----------------------------------------------------------------------------
(* Facts about configurations.                                             *)

\* What a configuration determines does not change while it stands.
LEMMA Steady ==
    ASSUME config' = config
    PROVE  /\ AllEntries' = AllEntries /\ (LinkedTwice' <=> LinkedTwice)
           /\ \A x : Entry(x)' = Entry(x)
           /\ \A g, h : Mirrored(g, h)' <=> Mirrored(g, h)
  <1>1. \A h : Entries(h)' = Entries(h)
    BY DEF Entries
  <1>2. AllEntries' = AllEntries
    BY <1>1 DEF AllEntries
  <1>3. LinkedTwice' <=> LinkedTwice
    BY <1>1 DEF LinkedTwice
  <1>4. \A x : Entry(x)' = Entry(x)
    BY DEF Entry
  <1>5. \A g, h : Mirrored(g, h)' <=> Mirrored(g, h)
    BY <1>1 DEF Mirrored
  <1> QED
    BY <1>2, <1>3, <1>4, <1>5

\* An entry belongs to a host and its remote is another host; its ports are ports.
LEMMA EntryTypes ==
    ASSUME config \in Configs, NEW x \in AllEntries
    PROVE  /\ x = [host |-> x.host, nth |-> x.nth] /\ x.host \in Host /\ x.nth \in Entries(x.host)
           /\ x.nth \in Nat /\ Entry(x) = config[x.host].peers[x.nth]
           /\ Entry(x).ip \in Host \ {x.host} /\ Entry(x).port \in Ports
           /\ Entry(x).local \in {0} \cup Ports /\ Entry(x).connected \in BOOLEAN
  <1>1. PICK h \in Host : x \in {[host |-> h, nth |-> i] : i \in Entries(h)}
    BY Zenon DEF AllEntries
  <1>2. PICK i \in Entries(h) : x = [host |-> h, nth |-> i]
    BY <1>1, Zenon
  <1>3. x.host = h /\ x.nth = i
    BY <1>2
  <1>4. i \in 1..Len(config[h].peers) /\ config[h].peers[i].ip \in Host \ {h}
    BY DEF Entries
  <1>5. Len(config[h].peers) \in Nat /\ config[h].peers[i].port \in Ports
        /\ config[h].peers[i].local \in {0} \cup Ports /\ config[h].peers[i].connected \in BOOLEAN
    BY <1>4, ConfigAssumption, Zenon
  <1> QED
    BY <1>2, <1>3, <1>4, <1>5 DEF Entry

\* Without a pair linked twice, an entry is told by its host and its remote.
LEMMA OneEntryEach ==
    ASSUME config \in Configs, ~LinkedTwice, NEW x \in AllEntries, NEW y \in AllEntries,
           x.host = y.host, Entry(x).ip = Entry(y).ip
    PROVE  x = y
  <1>1. /\ x.host \in Host /\ x.nth \in Entries(x.host) /\ y.nth \in Entries(x.host)
        /\ Entry(x) = config[x.host].peers[x.nth] /\ Entry(y) = config[x.host].peers[y.nth]
    BY EntryTypes
  <1>2. config[x.host].peers[x.nth].ip = config[x.host].peers[y.nth].ip
    BY <1>1, Zenon
  <1>3. x.nth = y.nth
    BY <1>1, <1>2, Zenon DEF LinkedTwice
  <1> QED
    BY <1>3, EntryTypes, Zenon

\* Two entries of which neither is bound after the other are one.
LEMMA OrderTotal ==
    ASSUME config \in Configs, NEW x \in AllEntries, NEW y \in AllEntries,
           InOrder(x, y), InOrder(y, x)
    PROVE  x = y
  <1>1. x.host \in Host /\ y.host \in Host /\ x.nth \in Nat /\ y.nth \in Nat
    BY EntryTypes, Zenon
  <1>2. x.host = y.host
    BY <1>1, HostAssumption DEF InOrder
  <1>3. x.nth = y.nth
    BY <1>1, <1>2 DEF InOrder
  <1> QED
    BY <1>2, <1>3, EntryTypes, Zenon

\* Mirroring works both ways.
LEMMA MirroredBack ==
    ASSUME NEW g, NEW h, Mirrored(g, h)
    PROVE  Mirrored(h, g)
  <1>1. {h, g} = {g, h}
    OBVIOUS
  <1> QED
    BY <1>1 DEF Mirrored

\* What h's entry for a neighbour it mirrors says of the neighbour's own entry.
LEMMA MirroredEnds ==
    ASSUME config \in Configs, ~LinkedTwice, NEW g \in Host, NEW h \in Host, Mirrored(g, h),
           NEW x \in AllEntries, x.host = h, Entry(x).ip = g
    PROVE  \E y \in AllEntries : /\ y.host = g /\ Entry(y).ip = h
                                 /\ Entry(y).port = Entry(x).local
                                 /\ Entry(x).port = Entry(y).local
  <1>1. x.nth \in Entries(h) /\ Entry(x) = config[h].peers[x.nth] /\ g # h
    BY EntryTypes, Zenon
  <1>2. PICK i \in Entries(g), j \in Entries(h) :
           /\ config[g].peers[i].ip = h /\ config[h].peers[j].ip = g
           /\ config[g].peers[i].port = config[h].peers[j].local
    BY <1>1, Zenon DEF Mirrored
  <1>3. PICK k \in Entries(h), l \in Entries(g) :
           /\ config[h].peers[k].ip = g /\ config[g].peers[l].ip = h
           /\ config[h].peers[k].port = config[g].peers[l].local
    BY <1>1, Zenon DEF Mirrored
  <1>4. j = x.nth /\ k = x.nth /\ i = l
    BY <1>1, <1>2, <1>3, Zenon DEF LinkedTwice
  <1> DEFINE y == [host |-> g, nth |-> i]
  <1>5. y \in AllEntries
    BY <1>2 DEF AllEntries
  <1>6. y.host = g /\ Entry(y) = config[g].peers[i]
    BY DEF Entry
  <1> QED
    BY <1>1, <1>2, <1>3, <1>4, <1>5, <1>6, Zenon

-----------------------------------------------------------------------------
(* Steps that keep the faces' endpoints.                                   *)

\* The faces of F are those of G, perhaps fewer of them alive.
Kept(F, G) ==
    /\ G \in Seq(FaceType) /\ Len(G) = Len(F)
    /\ \A f \in 1..Len(F) : /\ G[f].host = F[f].host /\ G[f].port = F[f].port
                            /\ G[f].remote = F[f].remote /\ G[f].minted = F[f].minted
                            /\ G[f].alive => F[f].alive

\* A datagram between the endpoints of a face.
Sent(d) == \E f \in 1..Len(faces) : Local(f) = d.src /\ faces[f].remote = d.dst

\* A datagram taken by a face whose endpoints it carries.
RightFace(x) ==
    x.face \in 1..Len(faces) /\ Local(x.face) = x.dst /\ faces[x.face].remote = x.src

\* Sends, deliveries, losses, reaping, cancelling and link knobs make no face and no socket.
LEMMA QuietStep ==
    ASSUME UdpInv, UNCHANGED <<config, todo, sockets>>,
           pc' = pc \/ (pc = "bind" /\ pc' = "up" /\ todo = {}),
           Kept(faces, faces'),
           wire' \in SUBSET [n : Nat, src : Address, dst : Address], sends' \in Nat,
           \A d \in wire' : d \in wire \/ Sent(d),
           \A x \in fed' : x \in fed \/ RightFace(x)
    PROVE  UdpInv'
  <1> USE DEF sockets
  <1>s. /\ AllEntries' = AllEntries /\ (LinkedTwice' <=> LinkedTwice)
        /\ \A x : Entry(x)' = Entry(x)
        /\ \A g, h : Mirrored(g, h)' <=> Mirrored(g, h)
    BY Steady
  <1>k. /\ faces' \in Seq(FaceType) /\ Len(faces') = Len(faces)
        /\ \A f \in 1..Len(faces) :
              /\ faces'[f].host = faces[f].host /\ faces'[f].port = faces[f].port
              /\ faces'[f].remote = faces[f].remote /\ faces'[f].minted = faces[f].minted
              /\ faces'[f].alive => faces[f].alive
    BY DEF Kept
  <1>1. Types'
    BY <1>s, <1>k DEF UdpInv, Types
  <1>2. Agree'
    BY <1>k DEF UdpInv, Agree, IsFace
  <1>3. Apart'
    BY DEF UdpInv, Apart
  <1>4. Owned'
    BY <1>k DEF UdpInv, Owned
  <1>5. FromEntries'
    BY <1>s, <1>k DEF UdpInv, FromEntries
  <1>6. EntriesBound'
    BY <1>s DEF UdpInv, EntriesBound, Serves
  <1>7. OwnPeer'
    BY <1>k DEF UdpInv, OwnPeer
  <1>8. OnTheWire'
    BY <1>k DEF UdpInv, OnTheWire, Sent, Local
  <1>9. FedRight'
    BY <1>k DEF UdpInv, FedRight, RightFace, Local
  <1>10. Shy'
    BY <1>s, <1>k DEF UdpInv, Shy
  <1>11. Unstarted'
    <2>1. pc = "link" => faces' = <<>>
      <3>1. faces = <<>> => Len(faces') = 0
        BY <1>k
      <3>2. Len(faces') = 0 => faces' = <<>>
        BY <1>k, EmptySeq
      <3> QED
        BY <3>1, <3>2, Zenon DEF UdpInv, Unstarted
    <2> QED
      BY <2>1 DEF UdpInv, Unstarted
  <1>12. EphemeralNeverClashes'
    BY <1>s DEF UdpInv, EphemeralNeverClashes, InOrder
  <1> QED
    BY <1>1, <1>2, <1>3, <1>4, <1>5, <1>6, <1>7, <1>8, <1>9, <1>10, <1>11, <1>12 DEF UdpInv

-----------------------------------------------------------------------------
(* A new face.                                                             *)

\* G is F with one more face.
Longer(F, G, r) ==
    /\ G \in Seq(FaceType) /\ Len(G) = Len(F) + 1
    /\ \A f \in 1..Len(F) : f \in 1..Len(G) /\ G[f] = F[f]
    /\ \A f \in 1..Len(G) : f \in 1..Len(F) \/ f = Len(F) + 1
    /\ Len(F) + 1 \in 1..Len(G) /\ Len(F) + 1 \notin 1..Len(F)
    /\ G[Len(F) + 1] = r

LEMMA AppendIsLonger ==
    ASSUME NEW F \in Seq(FaceType), NEW r \in FaceType
    PROVE  Longer(F, Append(F, r), r)
  BY DEF Longer

\* What attach_face adds.
NewFace(h, p, remote, isMinted) ==
    [host |-> h, port |-> p, remote |-> remote, minted |-> isMinted,
     knob |-> <<h, remote.ip>>, alive |-> TRUE]

LEMMA Attached ==
    ASSUME faces \in Seq(FaceType), NEW h \in Host, NEW p \in Ports, NEW r \in Address,
           NEW m \in BOOLEAN, Attach(h, p, r, m)
    PROVE  Longer(faces, faces', NewFace(h, p, r, m))
  <1>1. NewFace(h, p, r, m) \in FaceType
    BY DEF NewFace, FaceType, Address
  <1>2. faces' = Append(faces, NewFace(h, p, r, m))
    BY Zenon DEF Attach, NewFace, KnobOf
  <1> QED
    BY <1>1, <1>2, AppendIsLonger, Zenon


\* Binding an entry: one face and one socket more, or the start fails.
LEMMA BindStep ==
    ASSUME UdpInv, NEW x \in todo, NEW p \in Ports, BindPeerFace(x, p)
    PROVE  UdpInv'
  <1> DEFINE h == x.host
             e == Entry(x)
             n == Len(faces) + 1
             s == Socket(x.host, p, At(e.ip, e.port), n)
             r == NewFace(x.host, p, At(e.ip, e.port), FALSE)
  <1>0. /\ pc = "bind" /\ config' = config /\ listening' = listening /\ listening = {}
        /\ cancelled' = cancelled /\ down' = down /\ wire' = wire /\ fed' = fed /\ sends' = sends
    BY DEF BindPeerFace, UdpInv, Unstarted
  <1>s. /\ AllEntries' = AllEntries /\ (LinkedTwice' <=> LinkedTwice)
        /\ \A y : Entry(y)' = Entry(y)
        /\ \A g, k : Mirrored(g, k)' <=> Mirrored(g, k)
    BY <1>0, Steady
  <1>x. /\ x \in AllEntries /\ h \in Host /\ e.ip \in Host /\ At(e.ip, e.port) \in Address
        /\ e.local \in {0} \cup Ports /\ e.connected \in BOOLEAN
    BY EntryTypes DEF UdpInv, Types, At, Address
  <1>t. s \in SocketType
    BY <1>x DEF Socket, SocketType, UdpInv, Types
  <1>e. nextEph' \in [Host -> EphemeralBase..PortMax]
    <2>1. CASE e.local # 0
      BY <2>1 DEF BindPeerFace, UdpInv, Types
    <2>2. CASE e.local = 0
      <3>1. EphemeralPort(h, p) /\ nextEph' = [nextEph EXCEPT ![h] = Following(p)]
        BY <2>2, Zenon DEF BindPeerFace
      <3>2. p \in EphemeralBase..PortMax
        BY <3>1 DEF EphemeralPort
      <3>3. Following(p) \in EphemeralBase..PortMax
        BY <3>2, PortAssumption DEF Following
      <3> QED
        BY <3>1, <3>3 DEF UdpInv, Types
    <2> QED
      BY <2>1, <2>2
  <1>o. e.local # 0 => p = e.local
    BY Zenon DEF BindPeerFace
  <1>1. CASE Taken(h, p, e)
    <2>1. pc' = "failed" /\ UNCHANGED <<todo, faces, connected, bound>>
      BY <1>1, Zenon DEF BindPeerFace
    <2>2. e.local # 0
      <3>1. SUFFICES ASSUME e.local = 0 PROVE FALSE
        OBVIOUS
      <3>2. ~InUse(h, p)
        BY <3>1 DEF BindPeerFace, EphemeralPort
      <3> QED
        BY <1>1, <3>2 DEF Taken, InUse
    <2>3. EphemeralNeverClashes'
      <3>1. SUFFICES ASSUME NEW y \in todo, \A z \in todo : InOrder(y, z)
                     PROVE  Entry(y).local # 0
        BY <1>s, <2>1 DEF EphemeralNeverClashes, InOrder
      <3>2. InOrder(x, y) /\ InOrder(y, x) /\ y \in AllEntries
        BY <3>1 DEF BindPeerFace, UdpInv, Types
      <3>3. x = y
        BY <1>x, <3>2, OrderTotal DEF UdpInv, Types
      <3> QED
        BY <2>2, <3>3
    <2>4. Types'
      BY <1>0, <1>s, <1>e, <2>1 DEF UdpInv, Types
    <2>5. Agree' /\ Apart' /\ Owned' /\ OwnPeer' /\ OnTheWire' /\ FedRight'
      BY <1>0, <2>1 DEF UdpInv, Agree, Apart, Owned, OwnPeer, OnTheWire, FedRight, Local, IsFace
    <2>6. FromEntries'
      BY <1>s, <2>1 DEF UdpInv, FromEntries
    <2>7. EntriesBound' /\ Unstarted' /\ Shy'
      BY <1>0, <1>s, <2>1 DEF UdpInv, EntriesBound, Unstarted, Shy
    <2> QED
      BY <2>3, <2>4, <2>5, <2>6, <2>7 DEF UdpInv
  <1>2. CASE ~Taken(h, p, e)
    <2>1. /\ Attach(h, p, At(e.ip, e.port), FALSE)
          /\ connected' = (IF e.connected THEN connected \cup {s} ELSE connected)
          /\ bound' = (IF e.connected THEN bound ELSE bound \cup {s})
          /\ todo' = todo \ {x} /\ pc' = pc
      BY <1>2, Zenon DEF BindPeerFace
    <2>2. Longer(faces, faces', r)
      BY <1>x, <2>1, Attached DEF UdpInv, Types
    <2>l. /\ faces' \in Seq(FaceType)
          /\ \A f \in 1..Len(faces) : f \in 1..Len(faces') /\ faces'[f] = faces[f]
          /\ \A f \in 1..Len(faces') : f \in 1..Len(faces) \/ f = n
          /\ n \in 1..Len(faces') /\ n \notin 1..Len(faces) /\ faces'[n] = r
      BY <2>2 DEF Longer
    <2>r. /\ r.host = h /\ r.port = p /\ r.remote = At(e.ip, e.port) /\ ~r.minted /\ r.alive
          /\ r.minted = FALSE /\ r.remote.ip = e.ip
          /\ s.host = h /\ s.port = p /\ s.peer = At(e.ip, e.port) /\ s.face = n
      BY DEF NewFace, Socket, At
    <2> HIDE DEF s, r, n
    <2>3. Types'
      BY <1>0, <1>s, <1>e, <1>t, <2>1, <2>l DEF UdpInv, Types
    <2>4. Agree'
      BY <1>0, <2>1, <2>l, <2>r DEF UdpInv, Agree, IsFace
    <2>5. Apart'
      BY <1>0, <1>2, <2>1, <2>r DEF UdpInv, Apart, SameEnds, Taken, BoundAt
    <2>6. Owned'
      BY <1>0, <1>x, <2>1, <2>l, <2>r DEF UdpInv, Owned
    <2>7. FromEntries'
      <3>1. SUFFICES ASSUME NEW f \in 1..Len(faces'), ~faces'[f].minted
                     PROVE  \E y \in AllEntries \ todo' :
                                /\ y.host = faces'[f].host
                                /\ faces'[f].remote = At(Entry(y).ip, Entry(y).port)
                                /\ Entry(y).local # 0 => faces'[f].port = Entry(y).local
        BY <1>s DEF FromEntries
      <3>2. CASE f \in 1..Len(faces)
        BY <2>1, <2>l, <3>1, <3>2 DEF UdpInv, FromEntries
      <3>3. CASE f = n
        <4>1. x \in AllEntries \ todo'
          BY <1>x, <2>1
        <4> QED
          BY <1>o, <2>l, <2>r, <3>3, <4>1
      <3> QED
        BY <2>l, <3>2, <3>3
    <2>8. EntriesBound'
      <3>1. ~LinkedTwice
        BY <1>0 DEF UdpInv, EntriesBound
      <3>2. ASSUME NEW y \in AllEntries \ todo'
            PROVE  \E t \in (IF Entry(y).connected THEN connected' ELSE bound') : Serves(t, y)
        <4>1. CASE y = x
          <5>1. Serves(s, x)
            BY <1>o, <2>r DEF Serves
          <5>2. s \in (IF Entry(x).connected THEN connected' ELSE bound')
            BY <2>1
          <5> QED
            BY <4>1, <5>1, <5>2
        <4>2. CASE y # x
          <5>1. y \in AllEntries \ todo
            BY <2>1, <4>2
          <5>2. PICK t \in (IF Entry(y).connected THEN connected ELSE bound) : Serves(t, y)
            BY <1>0, <5>1 DEF UdpInv, EntriesBound
          <5>3. t \in (IF Entry(y).connected THEN connected' ELSE bound')
            BY <2>1, <5>2
          <5> QED
            BY <5>2, <5>3
        <4> QED
          BY <4>1, <4>2
      <3>3. \A y, t : Serves(t, y)' <=> Serves(t, y)
        BY <1>s DEF Serves
      <3> QED
        BY <1>0, <1>s, <3>1, <3>2, <3>3 DEF EntriesBound
    <2>9. OwnPeer'
      <3>1. ASSUME NEW f \in 1..Len(faces), ~faces[f].minted, faces[f].host = h,
                   faces[f].remote.ip = e.ip
            PROVE  FALSE
        <4>1. PICK y \in AllEntries \ todo :
                 /\ y.host = faces[f].host
                 /\ faces[f].remote = At(Entry(y).ip, Entry(y).port)
          BY <3>1 DEF UdpInv, FromEntries
        <4>2. Entry(y).ip = e.ip
          BY <3>1, <4>1 DEF At
        <4>3. y = x
          BY <1>0, <1>x, <3>1, <4>1, <4>2, OneEntryEach DEF UdpInv, Types, EntriesBound
        <4> QED
          BY <4>1, <4>3
      <3>2. SUFFICES ASSUME NEW f \in 1..Len(faces'), NEW g \in 1..Len(faces'),
                            ~faces'[f].minted, ~faces'[g].minted,
                            faces'[f].host = faces'[g].host,
                            faces'[f].remote.ip = faces'[g].remote.ip
                     PROVE  f = g
        BY DEF OwnPeer
      <3>3. CASE f \in 1..Len(faces) /\ g \in 1..Len(faces)
        BY <2>l, <3>2, <3>3 DEF UdpInv, OwnPeer
      <3>4. CASE f = n \/ g = n
        BY <2>l, <2>r, <3>1, <3>2, <3>4
      <3> QED
        BY <2>l, <3>3, <3>4
    <2>10. OnTheWire'
      BY <1>0, <2>l DEF UdpInv, OnTheWire, Local
    <2>11. FedRight'
      BY <1>0, <2>l DEF UdpInv, FedRight, Local
    <2>12. Shy'
      BY <1>s, <2>l, <2>r DEF UdpInv, Shy
    <2>13. Unstarted' /\ EphemeralNeverClashes'
      BY <1>0, <2>1 DEF Unstarted, EphemeralNeverClashes
    <2> QED
      BY <2>3, <2>4, <2>5, <2>6, <2>7, <2>8, <2>9, <2>10, <2>11, <2>12, <2>13 DEF UdpInv
  <1> QED
    BY <1>1, <1>2


\* A datagram between two hosts that mirror each other meets the receiver's own entry: a
\* connected socket, or a port that is no listener's.
LEMMA MirroredNotListened ==
    ASSUME UdpInv, pc = "up", NEW d \in wire, NEW f \in 1..Len(faces),
           Local(f) = d.src, faces[f].remote = d.dst, ~faces[f].minted,
           Mirrored(d.dst.ip, d.src.ip), ToListener(d)
    PROVE  FALSE
  <1> DEFINE g == d.dst.ip
             h == d.src.ip
  <1>0. /\ config \in Configs /\ todo = {} /\ ~LinkedTwice
        /\ g \in Host /\ h \in Host
        /\ d.src = [ip |-> d.src.ip, port |-> d.src.port]
        /\ d.dst = [ip |-> d.dst.ip, port |-> d.dst.port]
        /\ d.src.port \in Ports /\ d.dst.port \in Ports
    BY DEF UdpInv, Types, EntriesBound, Unstarted, Address
  <1>1. PICK x \in AllEntries : /\ x.host = faces[f].host
                                /\ faces[f].remote = At(Entry(x).ip, Entry(x).port)
                                /\ Entry(x).local # 0 => faces[f].port = Entry(x).local
    BY DEF UdpInv, FromEntries
  <1>2. x.host = h /\ Entry(x).ip = g /\ Entry(x).port = d.dst.port
        /\ (Entry(x).local # 0 => Entry(x).local = d.src.port)
    BY <1>1 DEF Local, At
  <1>3. PICK y \in AllEntries : /\ y.host = g /\ Entry(y).ip = h
                                /\ Entry(y).port = Entry(x).local
                                /\ Entry(x).port = Entry(y).local
    BY <1>0, <1>2, MirroredEnds
  <1>4. Entry(y).port \in Ports /\ Entry(y).local \in Ports
    BY <1>0, <1>2, <1>3, EntryTypes
  <1>5. Entry(y).local = d.dst.port /\ Entry(y).port = d.src.port /\ Entry(y).local # 0
    BY <1>2, <1>3, <1>4 DEF Ports
  <1>6. PICK s \in (IF Entry(y).connected THEN connected ELSE bound) : Serves(s, y)
    BY <1>0 DEF UdpInv, EntriesBound
  <1>7. s.host = g /\ s.port = d.dst.port /\ s.peer = d.src
    BY <1>0, <1>3, <1>5, <1>6 DEF Serves, At
  <1>8. s \notin connected
    BY <1>7 DEF ToListener, Connected, To
  <1>9. s \in bound
    BY <1>6, <1>8
  <1>10. d.dst.port \notin config[g].listen
    BY <1>7, <1>9 DEF UdpInv, Apart
  <1> QED
    BY <1>10 DEF ToListener, AtListener

\* Meeting a new source: one on-demand face more, and the datagram is its first.
LEMMA MintStep ==
    ASSUME UdpInv, NEW d \in wire, Mint(d)
    PROVE  UdpInv'
  <1> DEFINE g == d.dst.ip
             n == Len(faces) + 1
             s == Socket(d.dst.ip, d.dst.port, d.src, n)
             r == NewFace(d.dst.ip, d.dst.port, d.src, TRUE)
  <1>0. /\ pc = "up" /\ pc' = pc /\ config' = config /\ todo' = todo /\ connected' = connected
        /\ bound' = bound /\ nextEph' = nextEph /\ sends' = sends /\ todo = {}
        /\ Attach(g, d.dst.port, d.src, TRUE)
        /\ listening' = (listening \ To(listening, d)) \cup {s}
        /\ wire' = wire \ {d}
        /\ fed' = fed \cup {[n |-> d.n, src |-> d.src, dst |-> d.dst, face |-> n]}
    BY DEF Mint, Feed, Up, UdpInv, Unstarted
  <1>s. /\ AllEntries' = AllEntries /\ (LinkedTwice' <=> LinkedTwice)
        /\ \A y : Entry(y)' = Entry(y)
        /\ \A a, b : Mirrored(a, b)' <=> Mirrored(a, b)
    BY <1>0, Steady
  <1>d. /\ g \in Host /\ d.dst.port \in Ports /\ d.src \in Address
        /\ d.dst = At(d.dst.ip, d.dst.port)
    BY DEF UdpInv, Types, Address, At
  <1>t. s \in SocketType
    BY <1>d DEF Socket, SocketType, UdpInv, Types
  <1>2. Longer(faces, faces', r)
    BY <1>0, <1>d, Attached DEF UdpInv, Types
  <1>l. /\ faces' \in Seq(FaceType)
        /\ \A f \in 1..Len(faces) : f \in 1..Len(faces') /\ faces'[f] = faces[f]
        /\ \A f \in 1..Len(faces') : f \in 1..Len(faces) \/ f = n
        /\ n \in 1..Len(faces') /\ n \notin 1..Len(faces) /\ faces'[n] = r
    BY <1>2 DEF Longer
  <1>r. /\ r.host = g /\ r.port = d.dst.port /\ r.remote = d.src /\ r.minted = TRUE /\ r.alive
        /\ s.host = g /\ s.port = d.dst.port /\ s.peer = d.src /\ s.face = n
    BY DEF NewFace, Socket
  <1>g. /\ \A t \in connected : ~(t.host = g /\ t.port = d.dst.port /\ t.peer = d.src)
        /\ \A t \in listening : t.host = g /\ t.port = d.dst.port /\ t.peer = d.src
                                  => ~faces[t.face].alive
        /\ d.dst.port \in config[g].listen
    BY DEF Mint, ToListener, AtListener, Connected, LiveOnDemand, To
  <1>k. \A t \in listening' : t = s \/ (/\ t \in listening
                                        /\ ~(t.host = g /\ t.port = d.dst.port /\ t.peer = d.src))
    BY <1>0 DEF To
  <1>m. /\ s \in listening'
        /\ \A t \in listening : t \in listening' \/ (t.host = g /\ t.port = d.dst.port /\ t.peer = d.src)
    BY <1>0 DEF To
  <1> HIDE DEF s, r, n
  <1>3. Types'
    BY <1>0, <1>s, <1>t, <1>l DEF UdpInv, Types
  <1>4. Agree'
    <2>1. \A t \in connected \cup bound :
             IsFace(faces', t.face, t.host, t.port, t.peer, FALSE)
      BY <1>l DEF UdpInv, Agree, IsFace
    <2>2. \A t \in listening' : IsFace(faces', t.face, t.host, t.port, t.peer, TRUE)
      BY <1>k, <1>l, <1>r DEF UdpInv, Agree, IsFace
    <2> QED
      BY <1>0, <2>1, <2>2 DEF Agree, IsFace
  <1>5. Apart'
    BY <1>0, <1>g, <1>k, <1>r DEF UdpInv, Apart, SameEnds
  <1>6. Owned'
    <2>1. SUFFICES ASSUME NEW f \in 1..Len(faces'), faces'[f].alive
                   PROVE  \E t \in connected' \cup bound' \cup listening' : t.face = f
      BY DEF Owned
    <2>2. CASE f = n
      BY <1>m, <1>r, <2>2
    <2>3. CASE f \in 1..Len(faces)
      <3>1. PICK t \in connected \cup bound \cup listening : t.face = f
        BY <1>l, <2>1, <2>3 DEF UdpInv, Owned
      <3>2. CASE t \in connected \cup bound
        BY <1>0, <3>1, <3>2
      <3>3. CASE t \in listening
        BY <1>g, <1>l, <1>m, <2>1, <2>3, <3>1, <3>3
      <3> QED
        BY <3>2, <3>3
    <2> QED
      BY <1>l, <2>2, <2>3
  <1>7. FromEntries'
    BY <1>0, <1>s, <1>l, <1>r DEF UdpInv, FromEntries
  <1>8. EntriesBound'
    BY <1>0, <1>s DEF UdpInv, EntriesBound, Serves
  <1>9. OwnPeer'
    BY <1>l, <1>r DEF UdpInv, OwnPeer
  <1>10. OnTheWire'
    BY <1>0, <1>l DEF UdpInv, OnTheWire, Local
  <1>11. FedRight'
    <2>1. At(faces'[n].host, faces'[n].port) = d.dst /\ faces'[n].remote = d.src
      BY <1>l, <1>r, <1>d, Zenon
    <2>2. SUFFICES ASSUME NEW x \in fed'
                   PROVE  /\ x.face \in 1..Len(faces')
                          /\ At(faces'[x.face].host, faces'[x.face].port) = x.dst
                          /\ faces'[x.face].remote = x.src
      BY DEF FedRight, Local
    <2>3. CASE x \in fed
      BY <1>l, <2>3 DEF UdpInv, FedRight, Local
    <2>4. CASE x \notin fed
      <3>1. x.face = n /\ x.src = d.src /\ x.dst = d.dst
        BY <1>0, <2>4
      <3> QED
        BY <1>l, <2>1, <3>1, Zenon
    <2> QED
      BY <2>3, <2>4
  <1>12. Shy'
    <2>1. ~Mirrored(g, d.src.ip)
      <3>1. SUFFICES ASSUME Mirrored(g, d.src.ip) PROVE FALSE
        OBVIOUS
      <3>2. PICK f \in 1..Len(faces) : Local(f) = d.src /\ faces[f].remote = d.dst
        BY DEF UdpInv, OnTheWire
      <3>3. CASE faces[f].minted
        <4>1. ~Mirrored(d.src.ip, g)
          BY <3>2, <3>3 DEF UdpInv, Shy, Local, At
        <4> QED
          BY <3>1, <4>1, MirroredBack
      <3>4. CASE ~faces[f].minted
        BY <1>0, <3>1, <3>2, <3>4, MirroredNotListened DEF Mint
      <3> QED
        BY <3>3, <3>4
    <2> QED
      BY <1>s, <1>l, <1>r, <2>1 DEF UdpInv, Shy
  <1>13. Unstarted' /\ EphemeralNeverClashes'
    BY <1>0 DEF Unstarted, EphemeralNeverClashes
  <1> QED
    BY <1>3, <1>4, <1>5, <1>6, <1>7, <1>8, <1>9, <1>10, <1>11, <1>12, <1>13 DEF UdpInv

-----------------------------------------------------------------------------
(* The invariant holds, and what follows from it.                          *)

LEMMA UdpInit == Init => UdpInv
  <1> SUFFICES ASSUME Init PROVE UdpInv
    OBVIOUS
  <1>1. nextEph \in [Host -> EphemeralBase..PortMax]
    BY PortAssumption DEF Init
  <1>2. Types
    BY <1>1 DEF Init, Types
  <1>3. Agree /\ Apart /\ Owned /\ FromEntries /\ EntriesBound /\ OwnPeer /\ OnTheWire
        /\ FedRight /\ Shy
    BY DEF Init, Agree, Apart, Owned, FromEntries, EntriesBound, OwnPeer, OnTheWire, FedRight, Shy
  <1>4. Unstarted /\ EphemeralNeverClashes
    BY DEF Init, Unstarted, EphemeralNeverClashes
  <1> QED
    BY <1>2, <1>3, <1>4 DEF UdpInv

LEMMA UdpStep == UdpInv /\ [Next]_vars => UdpInv'
  <1> SUFFICES ASSUME UdpInv, [Next]_vars PROVE UdpInv'
    OBVIOUS
  <1>f. faces \in Seq(FaceType) /\ Kept(faces, faces)
    BY DEF UdpInv, Types, Kept
  <1>w. wire \in SUBSET [n : Nat, src : Address, dst : Address] /\ sends \in Nat
    BY DEF UdpInv, Types
  <1>1. CASE LinkPeers
    <2>0. /\ pc = "link" /\ config' = config /\ faces' = faces /\ connected' = connected
          /\ bound' = bound /\ listening' = listening /\ nextEph' = nextEph
          /\ wire' = wire /\ fed' = fed /\ sends' = sends /\ faces = <<>>
          /\ \/ LinkedTwice /\ pc' = "failed" /\ todo' = todo /\ todo = {}
             \/ ~LinkedTwice /\ pc' = "bind" /\ todo' = AllEntries
      BY <1>1 DEF LinkPeers, sockets, UdpInv, Unstarted
    <2>s. /\ AllEntries' = AllEntries /\ (LinkedTwice' <=> LinkedTwice)
          /\ \A x : Entry(x)' = Entry(x)
      BY <2>0, Steady
    <2>1. Types'
      BY <2>0, <2>s DEF UdpInv, Types
    <2>2. Agree' /\ Apart' /\ Owned' /\ OwnPeer' /\ OnTheWire' /\ FedRight'
      BY <2>0 DEF UdpInv, Agree, Apart, Owned, OwnPeer, OnTheWire, FedRight, Local, IsFace
    <2>3. FromEntries' /\ Shy'
      BY <2>0 DEF FromEntries, Shy
    <2>4. EntriesBound' /\ Unstarted' /\ EphemeralNeverClashes'
      BY <2>0, <2>s DEF UdpInv, EntriesBound, Unstarted, EphemeralNeverClashes
    <2> QED
      BY <2>1, <2>2, <2>3, <2>4 DEF UdpInv
  <1>2. CASE BuildDone
    BY <1>2, <1>f, <1>w, QuietStep DEF BuildDone
  <1>3. CASE Stay \/ UNCHANGED vars
    BY <1>3, <1>f, <1>w, QuietStep DEF Stay, vars
  <1>4. ASSUME NEW x \in todo, NEW p \in Ports, BindPeerFace(x, p) PROVE UdpInv'
    BY <1>4, BindStep
  <1>5. ASSUME NEW f \in 1..Len(faces), SendOn(f) PROVE UdpInv'
    <2> DEFINE d == [n |-> sends + 1, src |-> Local(f), dst |-> faces[f].remote]
    <2>1. d.src = Local(f) /\ d.dst = faces[f].remote
          /\ d \in [n : Nat, src : Address, dst : Address]
      <3>1. faces[f] \in FaceType
        BY <1>f
      <3>2. Local(f) \in Address /\ faces[f].remote \in Address
        BY <3>1 DEF FaceType, Address, Local, At
      <3> QED
        BY <1>w, <3>2
    <2>2. Sent(d)
      BY <2>1 DEF Sent
    <2>3. wire' \subseteq wire \cup {d}
      BY <1>5 DEF SendOn
    <2> HIDE DEF d
    <2>4. sends' \in Nat
      BY <1>5, <1>w DEF SendOn
    <2> QED
      BY <1>5, <1>f, <1>w, <2>1, <2>2, <2>3, <2>4, QuietStep DEF SendOn
  <1>6. ASSUME NEW f \in 1..Len(faces), Reap(f) PROVE UdpInv'
    <2>1. Kept(faces, faces')
      <3>1. faces' = [faces EXCEPT ![f].alive = FALSE] /\ faces[f] \in FaceType
        BY <1>6, <1>f DEF Reap
      <3>2. [faces[f] EXCEPT !.alive = FALSE] \in FaceType
        BY <3>1 DEF FaceType
      <3>3. faces' \in Seq(FaceType) /\ Len(faces') = Len(faces)
        BY <1>f, <3>1, <3>2
      <3>4. ASSUME NEW g \in 1..Len(faces)
            PROVE  /\ faces'[g].host = faces[g].host /\ faces'[g].port = faces[g].port
                   /\ faces'[g].remote = faces[g].remote /\ faces'[g].minted = faces[g].minted
                   /\ faces'[g].alive => faces[g].alive
        <4>1. faces[g] \in FaceType
          BY <1>f
        <4>2. PICK r : r = [faces[f] EXCEPT !.alive = FALSE]
          OBVIOUS
        <4>3. faces' = [faces EXCEPT ![f] = r]
          BY <3>1, <4>2
        <4>4. faces'[g] = IF g = f THEN r ELSE faces[g]
          BY <1>f, <4>3
        <4> QED
          BY <4>1, <4>2, <4>4 DEF FaceType
      <3> QED
        BY <3>3, <3>4 DEF Kept
    <2> QED
      BY <1>6, <1>w, <2>1, QuietStep DEF Reap
  <1>7. ASSUME NEW d \in wire, DeliverToFace(d) PROVE UdpInv'
    <2>1. PICK s \in connected \cup bound \cup listening :
             s.host = d.dst.ip /\ s.port = d.dst.port /\ s.peer = d.src /\ Feed(d, s.face)
      BY <1>7 DEF DeliverToFace, LiveOnDemand, Connected, BoundTo, To
    <2>2. s.face \in 1..Len(faces) /\ faces[s.face].host = s.host /\ faces[s.face].port = s.port
          /\ faces[s.face].remote = s.peer
      BY DEF UdpInv, Agree, IsFace
    <2>3. d.dst = At(d.dst.ip, d.dst.port)
      BY <1>w DEF Address, At
    <2>4. \A x \in fed' : x \in fed \/ RightFace(x)
      BY <2>1, <2>2, <2>3 DEF Feed, RightFace, Local
    <2>5. wire' \subseteq wire
      BY <2>1 DEF Feed
    <2> QED
      BY <1>7, <1>f, <1>w, <2>4, <2>5, QuietStep DEF DeliverToFace
  <1>8. ASSUME NEW d \in wire, Mint(d) PROVE UdpInv'
    BY <1>8, MintStep
  <1>9. ASSUME NEW d \in wire, Drop(d) PROVE UdpInv'
    BY <1>9, <1>f, <1>w, QuietStep DEF Drop
  <1>10. ASSUME NEW h \in Host, Cancel(h) PROVE UdpInv'
    <2>1. Kept(faces, faces')
      <3>1. faces' = [f \in 1..Len(faces) |->
                        IF faces[f].host = h THEN [faces[f] EXCEPT !.alive = FALSE] ELSE faces[f]]
        BY <1>10, Zenon DEF Cancel
      <3>2. ASSUME NEW f \in 1..Len(faces)
            PROVE  /\ faces'[f] \in FaceType
                   /\ faces'[f].host = faces[f].host /\ faces'[f].port = faces[f].port
                   /\ faces'[f].remote = faces[f].remote /\ faces'[f].minted = faces[f].minted
                   /\ faces'[f].alive => faces[f].alive
        <4>1. faces[f] \in FaceType
          BY <1>f
        <4>2. faces'[f] = IF faces[f].host = h THEN [faces[f] EXCEPT !.alive = FALSE] ELSE faces[f]
          BY <3>1
        <4> QED
          BY <4>1, <4>2 DEF FaceType
      <3>3. Len(faces) \in Nat
        BY <1>f
      <3>4. faces' \in Seq(FaceType) /\ Len(faces') = Len(faces)
        BY <3>1, <3>2, <3>3
      <3> QED
        BY <3>2, <3>4 DEF Kept
    <2> QED
      BY <1>10, <1>w, <2>1, QuietStep DEF Cancel
  <1>11. ASSUME NEW h \in Host, NEW g \in Host, NEW up \in BOOLEAN, SetLink(g, h, up)
         PROVE UdpInv'
    BY <1>11, <1>f, <1>w, QuietStep DEF SetLink
  <1> QED
    BY <1>1, <1>2, <1>3, <1>4, <1>5, <1>6, <1>7, <1>8, <1>9, <1>10, <1>11 DEF Next

LEMMA UdpAlways == Spec => []UdpInv
  <1> QED
    BY UdpInit, UdpStep, PTL DEF Spec

\* A neighbour that mirrors our configuration occupies one face: for every set of hosts and
\* every configuration, no order of sends, deliveries, losses, reapings and removals mints a
\* second one.
THEOREM OneFaceEach == Spec => []OneFacePerNeighbour
  <1>1. UdpInv => OneFacePerNeighbour
    <2>1. SUFFICES ASSUME UdpInv, pc = "up", NEW g \in Host, NEW h \in Host, Mirrored(g, h)
                   PROVE  Cardinality(Towards(g, h)) <= 1
      BY DEF OneFacePerNeighbour
    <2>2. \A e, f \in Towards(g, h) : e = f
      BY <2>1 DEF Towards, Live, UdpInv, OwnPeer, Shy
    <2>3. CASE Towards(g, h) = {}
      BY <2>3, FS_EmptySet
    <2>4. CASE Towards(g, h) # {}
      <3>1. PICK f \in Towards(g, h) : TRUE
        BY <2>4
      <3>2. Towards(g, h) = {f}
        BY <2>2, <3>1
      <3> QED
        <4>1. Cardinality(Towards(g, h)) = 1
          BY <3>2, FS_Singleton, Zenon
        <4> QED
          BY <4>1
    <2> QED
      BY <2>3, <2>4
  <1> QED
    BY <1>1, UdpAlways, PTL

\* What the demultiplexer relies on, for every configuration: no two live faces of a host share
\* their endpoints, a datagram ends at the face of its own conversation, and a bind to port 0
\* never clashes.
THEOREM SocketsAreSound == Spec => []SocketsSound
  <1>1. UdpInv => SocketsSound
    <2> SUFFICES ASSUME UdpInv PROVE SocketsSound
      OBVIOUS
    <2>1. TypeOK
      <3>1. \A f \in 1..Len(faces) : faces[f] \in FaceType
        BY DEF UdpInv, Types
      <3>2. \A f \in 1..Len(faces) : /\ faces[f].host \in Host /\ faces[f].port \in Ports
                                     /\ faces[f].knob \in Host \X Host
        BY <3>1 DEF FaceType
      <3>3. \A s \in connected \cup bound \cup listening : s.face \in 1..Len(faces)
        BY DEF UdpInv, Agree, IsFace
      <3>4. pc \in {"link", "bind", "up", "failed"}
            /\ \A h \in Host : nextEph[h] \in EphemeralBase..PortMax
        BY DEF UdpInv, Types
      <3> QED
        BY <3>2, <3>3, <3>4, Zenon DEF TypeOK
    <2>2. DistinctEndpoints
      <3>1. SUFFICES ASSUME NEW f \in Live, NEW g \in Live, Local(f) = Local(g),
                            faces[f].remote = faces[g].remote
                     PROVE  f = g
        BY DEF DistinctEndpoints
      <3>2. faces[f].host = faces[g].host /\ faces[f].port = faces[g].port
        BY <3>1 DEF Local, At
      <3>3. PICK s \in connected \cup bound \cup listening : s.face = f
        BY DEF Live, UdpInv, Owned
      <3>4. PICK t \in connected \cup bound \cup listening : t.face = g
        BY DEF Live, UdpInv, Owned
      <3>5. SameEnds(s, t)
        BY <3>1, <3>2, <3>3, <3>4 DEF SameEnds, UdpInv, Agree, IsFace
      <3>6. CASE faces[f].minted /\ faces[g].minted
        <4>1. s \in listening /\ t \in listening
          BY <3>3, <3>4, <3>6 DEF UdpInv, Agree, IsFace
        <4> QED
          BY <3>3, <3>4, <3>5, <4>1 DEF UdpInv, Apart
      <3>7. CASE ~faces[f].minted /\ ~faces[g].minted
        BY <3>1, <3>2, <3>7 DEF Live, UdpInv, OwnPeer
      <3>8. CASE faces[f].minted # faces[g].minted
        <4>1. ASSUME NEW u \in connected \cup bound, NEW v \in listening, SameEnds(u, v)
              PROVE  FALSE
          BY <4>1 DEF UdpInv, Apart, SameEnds
        <4>2. \/ s \in connected \cup bound /\ t \in listening
              \/ t \in connected \cup bound /\ s \in listening
          BY <3>3, <3>4, <3>8 DEF UdpInv, Agree, IsFace
        <4> QED
          BY <3>5, <4>1, <4>2 DEF SameEnds
      <3> QED
        BY <3>6, <3>7, <3>8, Zenon
    <2>3. FromItsPeer
      BY DEF UdpInv, FedRight, FromItsPeer
    <2>4. EphemeralNeverClashes
      BY DEF UdpInv
    <2> QED
      BY <2>1, <2>2, <2>3, <2>4 DEF SocketsSound
  <1> QED
    BY <1>1, UdpAlways, PTL

=============================================================================
