----------------------------- MODULE NetworkProofs -----------------------------
(***************************************************************************)
(* The two networks of nodes, for any number of nodes and links.  First    *)
(* the fabric: its link graph stays sound and nothing it started outlives  *)
(* its owner, whatever the interleaving of the calls of its users.  Then   *)
(* the IP plane it is compared with: every packet is accounted for, loops  *)
(* die out, the LoRa medium decides and regulates rightly although it      *)
(* forgets, and the routing algorithms, loop by loop, leave shortest, ever *)
(* nearer and fully relayed tables.                                        *)
(***************************************************************************)
EXTENDS Fabric, IpPlane, TLAPS, SequenceTheorems, FiniteSetTheorems, FunctionTheorems,
        WellFoundedInduction

\* What the calls under way hold.
CallTypes ==
    /\ nextNode \in Nat /\ nextApp \in Nat \ {0} /\ cuts \in Nat
    /\ spawning \subseteq [app : AppId, node : NodeId]
    /\ faces \in Seq([node : NodeId, peer : NodeId, down : BOOLEAN])
    /\ cutting \subseteq [id : Int, knobs : Seq(Nat), up : BOOLEAN]
    /\ shutting \in {"no", "apps", "nodes", "done"}

\* Ids are handed out once, and a shutdown stops nodes only after it took them.
Fresh ==
    /\ \A n \in NodeId : n >= nextNode => engine[n] = "none"
    /\ shutting \in {"no", "apps"} => stopList = {}

FabricInv == TypeOK /\ CallTypes /\ Fresh /\ LinksSound /\ KnobGoverns /\ EnginesOwned /\ AppsOwned

LEMMA FabricInit == Init => FabricInv
  <1> SUFFICES ASSUME Init PROVE FabricInv
    OBVIOUS
  <1>1. DOMAIN links = {} /\ DOMAIN linkStates = {} /\ faces \in Seq([node : NodeId, peer : NodeId, down : BOOLEAN])
    BY EmptySeq DEF Init
  <1>2. TypeOK /\ CallTypes
    BY <1>1 DEF Init, TypeOK, CallTypes
  <1>3. Fresh /\ LinksSound /\ KnobGoverns /\ EnginesOwned /\ AppsOwned
    BY <1>1 DEF Init, Fresh, LinksSound, KnobGoverns, EnginesOwned, AppsOwned
  <1> QED BY <1>2, <1>3 DEF FabricInv

-----------------------------------------------------------------------------
(* The parts of the invariant that a call on the other parts leaves alone. *)

GraphPart == /\ \A p \in DOMAIN links : p \in NodeId \X NodeId /\ links[p] \in 1..Len(faces)
             /\ \A p \in DOMAIN linkStates : p \in NodeId \X NodeId /\ linkStates[p] \in 1..Len(faces)
             /\ faces \in Seq([node : NodeId, peer : NodeId, down : BOOLEAN])
             /\ KnobGoverns

CutPart == /\ cuts \in Nat
           /\ cutting \subseteq [id : Int, knobs : Seq(Nat), up : BOOLEAN]
           /\ \A c \in cutting : /\ Len(c.knobs) \in 1..2
                                 /\ \A i \in 1..Len(c.knobs) : c.knobs[i] \in 1..Len(faces)

EnginePart == /\ nodes \subseteq NodeId /\ removing \subseteq NodeId /\ stopList \subseteq NodeId
              /\ engine \in [NodeId -> {"none", "building", "up", "stopping", "down"}]
              /\ nextNode \in Nat /\ shutting \in {"no", "apps", "nodes", "done"}
              /\ EnginesOwned /\ Fresh

AppPart == /\ apps \subseteq AppId /\ nextApp \in Nat \ {0}
           /\ spawning \subseteq [app : AppId, node : NodeId]
           /\ AppsOwned

LEMMA Parts == FabricInv <=> (GraphPart /\ CutPart /\ EnginePart /\ AppPart /\ LinksSound)
  BY DEF FabricInv, TypeOK, CallTypes, GraphPart, CutPart, EnginePart, AppPart

LEMMA PartsNext == (GraphPart' /\ CutPart' /\ EnginePart' /\ AppPart' /\ LinksSound') => FabricInv'
  BY DEF FabricInv, TypeOK, CallTypes, GraphPart, CutPart, EnginePart, AppPart

LEMMA GraphSame ==
  ASSUME GraphPart, UNCHANGED <<links, linkStates, faces>> PROVE GraphPart'
  BY DEF GraphPart, KnobGoverns

LEMMA CutSame ==
  ASSUME CutPart, UNCHANGED <<cutting, faces, cuts>> PROVE CutPart'
  BY DEF CutPart

LEMMA EngineSame ==
  ASSUME EnginePart, UNCHANGED <<nodes, removing, stopList, engine, nextNode, shutting>>
  PROVE  EnginePart'
  BY DEF EnginePart, EnginesOwned, Fresh

LEMMA AppSame ==
  ASSUME AppPart, UNCHANGED <<apps, running, spawning, nextApp>> PROVE AppPart'
  BY DEF AppPart, AppsOwned

LEMMA LinksSame ==
  ASSUME LinksSound, UNCHANGED <<links, nodes, shutting>> PROVE LinksSound'
  BY DEF LinksSound

-----------------------------------------------------------------------------
(* Steps on the graph.                                                     *)

LEMMA ConnectKeeps ==
  ASSUME FabricInv, NEW a \in NodeId, NEW b \in NodeId, Connect(a, b)
  PROVE  GraphPart' /\ CutPart' /\ LinksSound'
  <1> DEFINE n == Len(faces)
             fa == n + 1
             fb == n + 2
             new == [p \in {<<a, b>>, <<b, a>>} |-> IF p = <<b, a>> THEN fb ELSE fa]
             Face == [node : NodeId, peer : NodeId, down : BOOLEAN]
             two == <<[node |-> a, peer |-> b, down |-> FALSE],
                      [node |-> b, peer |-> a, down |-> FALSE]>>
  <1>1. /\ {a, b} \subseteq nodes /\ faces' = faces \o two
        /\ linkStates' = Insert(linkStates, new) /\ links' = Insert(links, new)
        /\ UNCHANGED <<nodes, shutting, cutting, cuts>>
    BY DEF Connect, RecordKnobs, calls
  <1>2. faces \in Seq(Face) /\ n \in Nat
    BY LenProperties DEF FabricInv, CallTypes
  <1>3. faces' \in Seq(Face) /\ Len(faces') = n + 2
    <2>1. two \in Seq(Face) /\ Len(two) = 2
      OBVIOUS
    <2> QED BY <1>1, <1>2, <2>1, ConcatProperties
  <1>4. /\ DOMAIN links' = DOMAIN links \cup {<<a, b>>, <<b, a>>}
        /\ DOMAIN linkStates' = DOMAIN linkStates \cup {<<a, b>>, <<b, a>>}
        /\ \A p \in DOMAIN links' :
              links'[p] = IF p \in {<<a, b>>, <<b, a>>} THEN new[p] ELSE links[p]
        /\ \A p \in DOMAIN linkStates' :
              linkStates'[p] = IF p \in {<<a, b>>, <<b, a>>} THEN new[p] ELSE linkStates[p]
    BY <1>1 DEF Insert
  <1>5. \A p \in {<<a, b>>, <<b, a>>} : new[p] \in 1..(n + 2) /\ p \in NodeId \X NodeId
    BY <1>2
  <1> HIDE DEF new, two, fa, fb
  <1>6. GraphPart'
    <2>1. ASSUME NEW p \in DOMAIN links' PROVE p \in NodeId \X NodeId /\ links'[p] \in 1..(n + 2)
      <3>1. CASE p \in {<<a, b>>, <<b, a>>}
        BY <3>1, <1>4, <1>5
      <3>2. CASE p \notin {<<a, b>>, <<b, a>>}
        <4>1. p \in DOMAIN links /\ links'[p] = links[p]
          BY <3>2, <1>4
        <4>2. p \in NodeId \X NodeId /\ links[p] \in 1..n
          BY <4>1 DEF FabricInv, TypeOK
        <4> QED BY <4>1, <4>2, <1>2
      <3> QED BY <3>1, <3>2
    <2>2. ASSUME NEW p \in DOMAIN linkStates'
          PROVE  p \in NodeId \X NodeId /\ linkStates'[p] \in 1..(n + 2)
      <3>1. CASE p \in {<<a, b>>, <<b, a>>}
        BY <3>1, <1>4, <1>5
      <3>2. CASE p \notin {<<a, b>>, <<b, a>>}
        <4>1. p \in DOMAIN linkStates /\ linkStates'[p] = linkStates[p]
          BY <3>2, <1>4
        <4>2. p \in NodeId \X NodeId /\ linkStates[p] \in 1..n
          BY <4>1 DEF FabricInv, TypeOK
        <4> QED BY <4>1, <4>2, <1>2
      <3> QED BY <3>1, <3>2
    <2>3. KnobGoverns'
      BY <1>4 DEF FabricInv, KnobGoverns
    <2> QED BY <1>3, <2>1, <2>2, <2>3 DEF GraphPart
  <1>7. CutPart'
    <2>1. \A i \in Nat : i \in 1..n => i \in 1..(n + 2)
      BY <1>2
    <2> QED BY <1>1, <1>2, <1>3, <2>1 DEF CutPart, FabricInv, TypeOK, CallTypes
  <1>8. LinksSound'
    <2>1. ASSUME NEW p \in DOMAIN links'
          PROVE  /\ <<p[2], p[1]>> \in DOMAIN links'
                 /\ shutting \in {"no", "apps"} => {p[1], p[2]} \subseteq nodes
      <3>1. CASE p \in DOMAIN links
        BY <3>1, <1>4 DEF FabricInv, LinksSound
      <3>2. CASE p = <<a, b>> \/ p = <<b, a>>
        BY <3>2, <1>1, <1>4
      <3> QED BY <3>1, <3>2, <1>4
    <2> QED BY <1>1, <2>1 DEF LinksSound
  <1> QED BY <1>6, <1>7, <1>8

LEMMA RemoveNodeKeeps ==
  ASSUME FabricInv, NEW n \in NodeId, RemoveNode(n)
  PROVE  GraphPart' /\ EnginePart' /\ LinksSound'
  <1>1. /\ links' = Keep(links, {p \in DOMAIN links : p[1] # n /\ p[2] # n})
        /\ n < nextNode /\ UNCHANGED <<linkStates, faces, stopList, nextNode, shutting>>
    BY DEF RemoveNode, LinksWithout
  <1>2. /\ DOMAIN links' = {p \in DOMAIN links : p[1] # n /\ p[2] # n}
        /\ \A p \in DOMAIN links' : links'[p] = links[p]
    BY <1>1 DEF Keep
  <1>3. GraphPart'
    BY <1>1, <1>2, Parts DEF GraphPart, KnobGoverns
  <1>4. EnginePart'
    <2>1. EnginePart
      BY Parts
    <2>2. CASE n \in nodes
      <3>1. /\ nodes' = nodes \ {n} /\ removing' = removing \cup {n}
            /\ engine' = [engine EXCEPT ![n] = "stopping"]
        BY <2>2 DEF RemoveNode
      <3>2. engine[n] = "up" /\ n \notin removing \cup stopList
        BY <2>1, <2>2 DEF EnginePart, EnginesOwned
      <3>3. \A m \in NodeId : engine'[m] = IF m = n THEN "stopping" ELSE engine[m]
        BY <2>1, <3>1 DEF EnginePart
      <3>4. EnginesOwned'
        BY <1>1, <2>1, <3>1, <3>2, <3>3 DEF EnginePart, EnginesOwned
      <3>5. Fresh'
        BY <1>1, <2>1, <3>2, <3>3 DEF EnginePart, Fresh
      <3>6. engine' \in [NodeId -> {"none", "building", "up", "stopping", "down"}]
        BY <2>1, <3>1 DEF EnginePart
      <3> QED BY <1>1, <2>1, <3>1, <3>4, <3>5, <3>6 DEF EnginePart
    <2>3. CASE n \notin nodes
      BY <1>1, <2>1, <2>3, EngineSame DEF RemoveNode
    <2> QED BY <2>2, <2>3
  <1>5. LinksSound'
    <2>1. \A m \in nodes : m # n => m \in nodes'
      BY DEF RemoveNode
    <2>2. ASSUME NEW p \in DOMAIN links'
          PROVE  /\ <<p[2], p[1]>> \in DOMAIN links'
                 /\ shutting \in {"no", "apps"} => {p[1], p[2]} \subseteq nodes'
      BY <1>2, <2>1 DEF FabricInv, LinksSound
    <2> QED BY <1>1, <2>2 DEF LinksSound
  <1> QED BY <1>3, <1>4, <1>5

-----------------------------------------------------------------------------
(* Steps of the cuts.                                                      *)

LEMMA SetLinkUpKeeps ==
  ASSUME FabricInv, NEW a \in NodeId, NEW b \in NodeId, NEW alive \in BOOLEAN, SetLinkUp(a, b, alive)
  PROVE  CutPart'
  <1>1. /\ <<a, b>> \in DOMAIN linkStates /\ <<b, a>> \in DOMAIN linkStates
        /\ cutting' = cutting \cup
             {[id |-> cuts, knobs |-> <<linkStates[<<a, b>>], linkStates[<<b, a>>]>>, up |-> alive]}
        /\ faces' = faces
    BY DEF SetLinkUp, graph
  <1>2. PICK x, y : x = linkStates[<<a, b>>] /\ y = linkStates[<<b, a>>]
    OBVIOUS
  <1>3. x \in 1..Len(faces) /\ y \in 1..Len(faces) /\ x \in Nat /\ y \in Nat
    BY <1>1, <1>2 DEF FabricInv, TypeOK
  <1>4. <<x, y>> \in Seq(Nat) /\ Len(<<x, y>>) = 2 /\ \A i \in 1..2 : <<x, y>>[i] \in 1..Len(faces)
    BY <1>3
  <1>5. PICK k : k = <<x, y>>
    OBVIOUS
  <1>6. [id |-> cuts, knobs |-> k, up |-> alive] \in [id : Int, knobs : Seq(Nat), up : BOOLEAN]
    BY <1>4, <1>5, Parts DEF CutPart
  <1>7. ASSUME NEW c \in cutting'
        PROVE  /\ c \in [id : Int, knobs : Seq(Nat), up : BOOLEAN]
               /\ Len(c.knobs) \in 1..2
               /\ \A i \in 1..Len(c.knobs) : c.knobs[i] \in 1..Len(faces)
    <2>1. CASE c \in cutting
      BY <2>1, Parts DEF CutPart
    <2>x. cutting' = cutting \cup {[id |-> cuts, knobs |-> k, up |-> alive]}
      BY <1>1, <1>2, <1>5
    <2>2. CASE c = [id |-> cuts, knobs |-> k, up |-> alive]
      <3>1. c \in [id : Int, knobs : Seq(Nat), up : BOOLEAN]
        BY <2>2, <1>6
      <3>2. Len(k) \in 1..2 /\ \A i \in 1..Len(k) : k[i] \in 1..Len(faces)
        BY <1>4, <1>5
      <3>3. c.knobs = k
        BY <2>2
      <3> QED BY <3>1, <3>2, <3>3, Zenon
    <2> QED BY <2>x, <2>1, <2>2
  <1>8. cuts' \in Nat
    BY Parts DEF CutPart, SetLinkUp
  <1> QED BY <1>1, <1>7, <1>8 DEF CutPart

LEMMA FacesKept ==
  ASSUME FabricInv, faces' \in Seq([node : NodeId, peer : NodeId, down : BOOLEAN]),
         Len(faces') = Len(faces), UNCHANGED <<links, linkStates>>
  PROVE  GraphPart'
  BY Parts DEF GraphPart, KnobGoverns

LEMMA SetAllKeeps ==
  ASSUME FabricInv, NEW F, NEW isDown \in BOOLEAN, SetAll(F, isDown)
  PROVE  /\ faces' \in Seq([node : NodeId, peer : NodeId, down : BOOLEAN])
         /\ Len(faces') = Len(faces)
  <1> DEFINE Face == [node : NodeId, peer : NodeId, down : BOOLEAN]
  <1>1. faces \in Seq(Face) /\ Len(faces) \in Nat
    BY LenProperties DEF FabricInv, CallTypes
  <1>2. \A f \in 1..Len(faces) : faces[f] \in Face
    BY <1>1, ElementOfSeq
  <1>3. \A f \in 1..Len(faces) :
            (IF f \in F THEN [faces[f] EXCEPT !.down = isDown] ELSE faces[f]) \in Face
    BY <1>2
  <1> QED BY <1>1, <1>3 DEF SetAll

LEMMA SomeSeq ==
  ASSUME NEW s \in Seq(Nat), Len(s) \in 1..2 PROVE s # <<>>
  <1> SUFFICES ASSUME s = <<>> PROVE FALSE
    OBVIOUS
  <1>1. Len(s) = 0
    BY EmptySeq
  <1> QED BY <1>1

LEMMA OneOrTwo ==
  ASSUME NEW s \in Seq(Nat), Len(s) \in 1..2
  PROVE  /\ Head(s) = s[1]
         /\ Len(s) # 1 => Tail(s) \in Seq(Nat) /\ Len(Tail(s)) = 1 /\ Tail(s)[1] = s[2]
  <1>1. s # <<>>
    BY SomeSeq
  <1>2. Head(s) = s[1]
    BY <1>1
  <1>3. /\ Tail(s) \in Seq(Nat) /\ Len(Tail(s)) = Len(s) - 1
        /\ \A i \in 1..Len(s) - 1 : Tail(s)[i] = s[i + 1]
    BY <1>1, HeadTailProperties
  <1>4. ASSUME Len(s) # 1 PROVE Len(s) = 2
    BY <1>4
  <1> QED BY <1>2, <1>3, <1>4

LEMMA SetKnobKeeps ==
  ASSUME FabricInv, NEW c \in cutting, SetKnob(c)
  PROVE  /\ faces' \in Seq([node : NodeId, peer : NodeId, down : BOOLEAN])
         /\ Len(faces') = Len(faces) /\ CutPart'
  <1> DEFINE Face == [node : NodeId, peer : NodeId, down : BOOLEAN]
  <1>1. faces \in Seq(Face) /\ Len(faces) \in Nat
    BY LenProperties DEF FabricInv, CallTypes
  <1>2. /\ c.knobs \in Seq(Nat) /\ Len(c.knobs) \in 1..2 /\ c.id \in Int /\ c.up \in BOOLEAN
        /\ \A i \in 1..Len(c.knobs) : c.knobs[i] \in 1..Len(faces)
        /\ c \in [id : Int, knobs : Seq(Nat), up : BOOLEAN]
    BY Parts DEF CutPart
  <1>k. PICK k \in Seq(Nat) : k = c.knobs
    BY <1>2
  <1>3. PICK h : h = Head(k)
    OBVIOUS
  <1>4. h \in 1..Len(faces)
    <2>1. Len(k) \in 1..2 /\ \A i \in 1..Len(k) : k[i] \in 1..Len(faces)
      BY <1>2, <1>k
    <2>2. h = k[1]
      BY <1>3, <2>1, OneOrTwo
    <2> QED BY <2>1, <2>2
  <1>5. faces' \in Seq(Face) /\ Len(faces') = Len(faces)
    <2>1. faces' = [faces EXCEPT ![h] = [faces[h] EXCEPT !.down = ~c.up]]
      BY <1>1, <1>3, <1>4, <1>k DEF SetKnob
    <2>2. faces[h] \in Face
      BY <1>1, <1>4, ElementOfSeq
    <2>3. [faces[h] EXCEPT !.down = ~c.up] \in Face
      BY <1>2, <2>2
    <2> QED BY <1>1, <1>4, <2>1, <2>3, ExceptSeq
  <1>6. CutPart'
    <2>1. CASE Len(c.knobs) = 1
      <3>1. cutting' \subseteq cutting
        BY <2>1 DEF SetKnob
      <3>2. cuts' = cuts
        BY DEF SetKnob
      <3> QED BY <3>1, <3>2, <1>5, Parts DEF CutPart
    <2>2. CASE Len(c.knobs) # 1
      <3>1. cutting' = (cutting \ {c}) \cup {[c EXCEPT !.knobs = Tail(c.knobs)]}
        BY <2>2 DEF SetKnob
      <3>2. Len(k) = 2 /\ \A i \in 1..2 : k[i] \in 1..Len(faces)
        BY <1>2, <1>k, <2>2
      <3>3. PICK t : t = Tail(k)
        OBVIOUS
      <3>4. t \in Seq(Nat) /\ Len(t) = 1 /\ t[1] = k[2]
        <4>1. Len(k) \in 1..2 /\ Len(k) # 1
          BY <3>2
        <4>2. Tail(k) \in Seq(Nat) /\ Len(Tail(k)) = 1 /\ Tail(k)[1] = k[2]
          BY <4>1, OneOrTwo
        <4> QED BY <4>2, <3>3, Zenon
      <3>5. \A i \in 1..Len(t) : t[i] \in 1..Len(faces)
        BY <3>2, <3>4
      <3>6. [c EXCEPT !.knobs = t] = [id |-> c.id, knobs |-> t, up |-> c.up]
        BY <1>2
      <3>7. ASSUME NEW d \in cutting'
            PROVE  /\ d \in [id : Int, knobs : Seq(Nat), up : BOOLEAN]
                   /\ Len(d.knobs) \in 1..2
                   /\ \A i \in 1..Len(d.knobs) : d.knobs[i] \in 1..Len(faces)
        <4>1. CASE d \in cutting
          BY <4>1, Parts DEF CutPart
        <4>2. CASE d = [id |-> c.id, knobs |-> t, up |-> c.up]
          <5>1. [id |-> c.id, knobs |-> t, up |-> c.up] \in [id : Int, knobs : Seq(Nat), up : BOOLEAN]
            BY <1>2, <3>4
          <5>2. d \in [id : Int, knobs : Seq(Nat), up : BOOLEAN] /\ d.knobs = t
            BY <4>2, <5>1
          <5>3. Len(t) \in 1..2
            BY <3>4
          <5> QED BY <5>2, <5>3, <3>5, Zenon
        <4> QED BY <1>k, <3>1, <3>3, <3>6, <4>1, <4>2
      <3>8. cuts' = cuts
        BY DEF SetKnob
      <3> QED BY <3>7, <3>8, <1>5, Parts DEF CutPart
    <2> QED BY <2>1, <2>2
  <1> QED BY <1>5, <1>6

-----------------------------------------------------------------------------
(* Steps of the engines.                                                   *)

States == {"none", "building", "up", "stopping", "down"}

LEMMA SpawnNodeKeeps ==
  ASSUME EnginePart, SpawnNode PROVE EnginePart'
  <1>1. /\ engine' = [engine EXCEPT ![nextNode] = "building"] /\ nextNode' = nextNode + 1
        /\ UNCHANGED <<nodes, removing, stopList, shutting>>
    BY DEF SpawnNode, calls
  <1>2. engine' \in [NodeId -> States]
    BY <1>1 DEF EnginePart, States
  <1>3. \A n \in NodeId : engine'[n] = IF n = nextNode THEN "building" ELSE engine[n]
    BY <1>1 DEF EnginePart
  <1>4. nextNode \in NodeId => engine[nextNode] = "none"
    BY DEF EnginePart, Fresh
  <1>5. EnginesOwned'
    BY <1>1, <1>3, <1>4 DEF EnginePart, EnginesOwned
  <1>6. Fresh'
    <2>1. ASSUME NEW n \in NodeId, n >= nextNode + 1 PROVE engine'[n] = "none"
      BY <2>1, <1>3 DEF EnginePart, Fresh, NodeId
    <2> QED BY <1>1, <2>1 DEF EnginePart, Fresh
  <1> QED BY <1>1, <1>2, <1>5, <1>6 DEF EnginePart, States

LEMMA NodeBuiltKeeps ==
  ASSUME EnginePart, LinksSound, NEW n \in NodeId, NodeBuilt(n)
  PROVE  EnginePart' /\ LinksSound'
  <1>1. /\ engine[n] = "building" /\ engine' = [engine EXCEPT ![n] = "up"]
        /\ nodes' = nodes \cup {n}
        /\ UNCHANGED <<links, removing, stopList, shutting, nextNode>>
    BY DEF NodeBuilt, calls
  <1>2. engine' \in [NodeId -> States]
    BY <1>1 DEF EnginePart, States
  <1>3. \A m \in NodeId : engine'[m] = IF m = n THEN "up" ELSE engine[m]
    BY <1>1 DEF EnginePart
  <1>4. EnginesOwned'
    BY <1>1, <1>3 DEF EnginePart, EnginesOwned
  <1>5. Fresh'
    BY <1>1, <1>3 DEF EnginePart, Fresh
  <1>6. LinksSound'
    BY <1>1 DEF LinksSound
  <1> QED BY <1>1, <1>2, <1>4, <1>5, <1>6 DEF EnginePart, States

LEMMA BuildFailsKeeps ==
  ASSUME EnginePart, NEW n \in NodeId, BuildFails(n) PROVE EnginePart'
  <1>1. /\ engine[n] = "building" /\ engine' = [engine EXCEPT ![n] = "none"]
        /\ UNCHANGED <<nodes, removing, stopList, shutting, nextNode>>
    BY DEF BuildFails, calls
  <1>2. engine' \in [NodeId -> States]
    BY <1>1 DEF EnginePart, States
  <1>3. \A m \in NodeId : engine'[m] = IF m = n THEN "none" ELSE engine[m]
    BY <1>1 DEF EnginePart
  <1>4. EnginesOwned' /\ Fresh'
    BY <1>1, <1>3 DEF EnginePart, EnginesOwned, Fresh
  <1> QED BY <1>1, <1>2, <1>4 DEF EnginePart, States

LEMMA RemovedKeeps ==
  ASSUME EnginePart, NEW n \in NodeId, Removed(n) PROVE EnginePart'
  <1>1. /\ n \in removing /\ removing' = removing \ {n}
        /\ engine' = [engine EXCEPT ![n] = "down"]
        /\ UNCHANGED <<nodes, stopList, shutting, nextNode>>
    BY DEF Removed
  <1>2. engine' \in [NodeId -> States]
    BY <1>1 DEF EnginePart, States
  <1>3. \A m \in NodeId : engine'[m] = IF m = n THEN "down" ELSE engine[m]
    BY <1>1 DEF EnginePart
  <1>4. EnginesOwned'
    BY <1>1, <1>3 DEF EnginePart, EnginesOwned
  <1>5. Fresh'
    BY <1>1, <1>3 DEF EnginePart, EnginesOwned, Fresh
  <1> QED BY <1>1, <1>2, <1>4, <1>5 DEF EnginePart, States

LEMMA ShutdownStopsKeeps ==
  ASSUME EnginePart, NEW n \in NodeId, ShutdownStops(n) PROVE EnginePart'
  <1>1. /\ n \in stopList /\ stopList' = stopList \ {n} /\ shutting = "nodes"
        /\ engine' = [engine EXCEPT ![n] = "down"]
        /\ UNCHANGED <<nodes, removing, shutting, nextNode>>
    BY DEF ShutdownStops
  <1>2. engine' \in [NodeId -> States]
    BY <1>1 DEF EnginePart, States
  <1>3. \A m \in NodeId : engine'[m] = IF m = n THEN "down" ELSE engine[m]
    BY <1>1 DEF EnginePart
  <1>4. EnginesOwned'
    BY <1>1, <1>3 DEF EnginePart, EnginesOwned
  <1>5. Fresh'
    BY <1>1, <1>3 DEF EnginePart, EnginesOwned, Fresh
  <1> QED BY <1>1, <1>2, <1>4, <1>5 DEF EnginePart, States

LEMMA ShutdownNodesKeeps ==
  ASSUME EnginePart, LinksSound, ShutdownNodes PROVE EnginePart' /\ LinksSound'
  <1>1. /\ shutting = "apps" /\ shutting' = "nodes" /\ stopList' = nodes /\ nodes' = {}
        /\ engine' = [n \in NodeId |-> IF n \in nodes THEN "stopping" ELSE engine[n]]
        /\ UNCHANGED <<links, removing, nextNode>>
    BY DEF ShutdownNodes, TakeNodes
  <1>2. engine' \in [NodeId -> States]
    BY <1>1 DEF EnginePart, States
  <1>3. \A m \in NodeId : engine'[m] = IF m \in nodes THEN "stopping" ELSE engine[m]
    BY <1>1
  <1>4. stopList = {} /\ nodes \cap removing = {}
    BY <1>1 DEF EnginePart, EnginesOwned, Fresh
  <1>5. EnginesOwned'
    BY <1>1, <1>3, <1>4 DEF EnginePart, EnginesOwned
  <1>6. Fresh'
    BY <1>1, <1>3 DEF EnginePart, EnginesOwned, Fresh
  <1>7. LinksSound'
    BY <1>1 DEF LinksSound
  <1> QED BY <1>1, <1>2, <1>5, <1>6, <1>7 DEF EnginePart, States

\* The two steps of shutdown that move no engine.
LEMMA ShutdownMarks ==
  ASSUME EnginePart, LinksSound, UNCHANGED <<nodes, links, removing, stopList, engine, nextNode>>,
         \/ shutting = "no" /\ shutting' = "apps"
         \/ shutting = "nodes" /\ shutting' = "done"
  PROVE  EnginePart' /\ LinksSound'
  BY DEF EnginePart, EnginesOwned, Fresh, LinksSound

-----------------------------------------------------------------------------
(* Steps of the apps.                                                      *)

LEMMA AppStep ==
  ASSUME AppPart,
         \/ \E n \in NodeId : SpawnApp(n)
         \/ \E s \in spawning : AppStarts(s) \/ AppFails(s) \/ AppRecorded(s)
         \/ \E i \in AppId : StopApp(i)
         \/ ShutdownApps
  PROVE  AppPart'
  <1>1. ASSUME NEW n \in NodeId, SpawnApp(n) PROVE AppPart'
    BY <1>1 DEF AppPart, AppsOwned, SpawnApp, AppId
  <1>2. ASSUME NEW s \in spawning, AppStarts(s) PROVE AppPart'
    BY <1>2 DEF AppPart, AppsOwned, AppStarts
  <1>3. ASSUME NEW s \in spawning, AppFails(s) PROVE AppPart'
    BY <1>3 DEF AppPart, AppsOwned, AppFails
  <1>4. ASSUME NEW s \in spawning, AppRecorded(s) PROVE AppPart'
    <2>1. s.app \in AppId
      BY DEF AppPart
    <2> QED BY <1>4, <2>1 DEF AppPart, AppsOwned, AppRecorded
  <1>5. ASSUME NEW i \in AppId, StopApp(i) PROVE AppPart'
    BY <1>5 DEF AppPart, AppsOwned, StopApp, Stop
  <1>6. ASSUME ShutdownApps PROVE AppPart'
    BY <1>6 DEF AppPart, AppsOwned, ShutdownApps, Stop
  <1> QED BY <1>1, <1>2, <1>3, <1>4, <1>5, <1>6

-----------------------------------------------------------------------------
LEMMA FabricStep == FabricInv /\ [Next]_vars => FabricInv'
  <1> SUFFICES ASSUME FabricInv, [Next]_vars PROVE FabricInv'
    OBVIOUS
  <1>1. GraphPart /\ CutPart /\ EnginePart /\ AppPart /\ LinksSound
    BY Parts
  <1> USE PartsNext
  <1>2. CASE SpawnNode
    BY <1>1, <1>2, SpawnNodeKeeps, GraphSame, CutSame, AppSame, LinksSame
    DEF SpawnNode, calls, tasks
  <1>3. ASSUME NEW a \in NodeId, NEW b \in NodeId, Connect(a, b) PROVE FabricInv'
    BY <1>1, <1>3, ConnectKeeps, EngineSame, AppSame DEF Connect, calls, tasks
  <1>4. ASSUME NEW a \in NodeId, NEW b \in NodeId, NEW alive \in BOOLEAN, SetLinkUp(a, b, alive)
        PROVE  FabricInv'
    BY <1>1, <1>4, SetLinkUpKeeps, GraphSame, EngineSame, AppSame, LinksSame
    DEF SetLinkUp, graph, tasks
  <1>5. ASSUME NEW F, NEW isDown \in BOOLEAN, cuts' = cuts + 1, SetAll(F, isDown),
               UNCHANGED <<nodes, links, linkStates, engine, tasks, calls, late, nextNode>>
        PROVE  FabricInv'
    <2>1. /\ faces' \in Seq([node : NodeId, peer : NodeId, down : BOOLEAN])
          /\ Len(faces') = Len(faces)
      BY <1>5, SetAllKeeps
    <2>2. CutPart'
      BY <1>1, <1>5, <2>1 DEF CutPart, calls
    <2> QED BY <1>1, <1>5, <2>1, <2>2, FacesKept, EngineSame, AppSame, LinksSame DEF calls, tasks
  <1>6. ASSUME NEW g \in SUBSET NodeId, Partition(g) PROVE FabricInv'
    BY <1>5, <1>6 DEF Partition
  <1>7. CASE Heal
    BY <1>5, <1>7 DEF Heal
  <1>8. ASSUME NEW n \in NodeId, RemoveNode(n) PROVE FabricInv'
    BY <1>1, <1>8, RemoveNodeKeeps, CutSame, AppSame DEF RemoveNode, tasks
  <1>9. ASSUME NEW n \in NodeId, SpawnApp(n) PROVE FabricInv'
    BY <1>1, <1>9, AppStep, GraphSame, CutSame, EngineSame, LinksSame DEF SpawnApp, graph, calls
  <1>10. ASSUME NEW i \in AppId, StopApp(i) PROVE FabricInv'
    BY <1>1, <1>10, AppStep, GraphSame, CutSame, EngineSame, LinksSame DEF StopApp, graph, calls
  <1>11. CASE ShutdownApps
    BY <1>1, <1>11, AppStep, ShutdownMarks, GraphSame, CutSame DEF ShutdownApps, graph
  <1>12. ASSUME NEW n \in NodeId, NodeBuilt(n) PROVE FabricInv'
    BY <1>1, <1>12, NodeBuiltKeeps, GraphSame, CutSame, AppSame DEF NodeBuilt, calls, tasks
  <1>13. ASSUME NEW n \in NodeId, BuildFails(n) PROVE FabricInv'
    BY <1>1, <1>13, BuildFailsKeeps, GraphSame, CutSame, AppSame, LinksSame
    DEF BuildFails, calls, tasks
  <1>14. ASSUME NEW n \in NodeId, Removed(n) PROVE FabricInv'
    BY <1>1, <1>14, RemovedKeeps, GraphSame, CutSame, AppSame, LinksSame DEF Removed, tasks
  <1>15. ASSUME NEW n \in NodeId, ShutdownStops(n) PROVE FabricInv'
    BY <1>1, <1>15, ShutdownStopsKeeps, GraphSame, CutSame, AppSame, LinksSame
    DEF ShutdownStops, tasks
  <1>16. ASSUME NEW c \in cutting, SetKnob(c) PROVE FabricInv'
    BY <1>1, <1>16, SetKnobKeeps, FacesKept, EngineSame, AppSame, LinksSame DEF SetKnob, tasks
  <1>17. ASSUME NEW s \in spawning, AppStarts(s) \/ AppFails(s) \/ AppRecorded(s)
         PROVE  FabricInv'
    BY <1>1, <1>17, AppStep, GraphSame, CutSame, EngineSame, LinksSame
    DEF AppStarts, AppFails, AppRecorded, graph, calls
  <1>18. CASE ShutdownNodes
    BY <1>1, <1>18, ShutdownNodesKeeps, GraphSame, CutSame, AppSame DEF ShutdownNodes, tasks
  <1>19. CASE ShutdownDone
    BY <1>1, <1>19, ShutdownMarks, GraphSame, CutSame, AppSame DEF ShutdownDone, graph, tasks
  <1>20. CASE UNCHANGED vars
    BY <1>1, <1>20, GraphSame, CutSame, EngineSame, AppSame, LinksSame
    DEF vars, graph, tasks, calls
  <1> QED
    BY <1>2, <1>3, <1>4, <1>6, <1>7, <1>8, <1>9, <1>10, <1>11, <1>12, <1>13, <1>14, <1>15, <1>16,
       <1>17, <1>18, <1>19, <1>20
    DEF Next, Calls, Progress

\* However the calls of the fabric's users interleave, a link joins two nodes that the fabric has,
\* in both directions, and the knobs recorded for a pair are those of the face that routes go out on.
THEOREM GraphIsSound == Spec => []GraphSound
  <1>1. FabricInv => GraphSound
    BY DEF FabricInv, GraphSound
  <1> QED BY <1>1, FabricInit, FabricStep, PTL DEF Spec

\* What a shutdown took does not come back: only what is put in a map after it is late, and only
\* that is added.
LEMMA LateStep == OnlyLateLeft /\ [Next]_vars => OnlyLateLeft'
  <1> SUFFICES ASSUME OnlyLateLeft, [Next]_vars PROVE OnlyLateLeft'
    OBVIOUS
  <1>1. ASSUME nodes' \subseteq nodes, apps' \subseteq apps, UNCHANGED <<late, shutting>>
        PROVE  OnlyLateLeft'
    BY <1>1 DEF OnlyLateLeft, late
  <1>2. CASE \/ SpawnNode \/ Heal
             \/ \E a, b \in NodeId : Connect(a, b) \/ \E alive \in BOOLEAN : SetLinkUp(a, b, alive)
             \/ \E g \in SUBSET NodeId : Partition(g)
    BY <1>1, <1>2 DEF SpawnNode, Connect, SetLinkUp, Partition, Heal, graph, tasks, calls
  <1>3. CASE \/ \E n \in NodeId : RemoveNode(n) \/ SpawnApp(n)
             \/ \E i \in AppId : StopApp(i)
    BY <1>1, <1>3 DEF RemoveNode, SpawnApp, StopApp, graph, tasks, calls
  <1>4. CASE ShutdownApps
    BY <1>4 DEF ShutdownApps, OnlyLateLeft, late
  <1>5. ASSUME NEW n \in NodeId, NodeBuilt(n) PROVE OnlyLateLeft'
    BY <1>5 DEF NodeBuilt, OnlyLateLeft, tasks, calls
  <1>6. ASSUME NEW n \in NodeId, BuildFails(n) \/ Removed(n) \/ ShutdownStops(n) PROVE OnlyLateLeft'
    BY <1>1, <1>6 DEF BuildFails, Removed, ShutdownStops, tasks, calls
  <1>7. ASSUME NEW c \in cutting, SetKnob(c) PROVE OnlyLateLeft'
    BY <1>1, <1>7 DEF SetKnob, tasks
  <1>8. ASSUME NEW s \in spawning, AppStarts(s) \/ AppFails(s) PROVE OnlyLateLeft'
    BY <1>1, <1>8 DEF AppStarts, AppFails, graph, calls
  <1>9. ASSUME NEW s \in spawning, AppRecorded(s) PROVE OnlyLateLeft'
    BY <1>9 DEF AppRecorded, OnlyLateLeft, graph, calls
  <1>10. CASE ShutdownNodes
    BY <1>10 DEF ShutdownNodes, TakeNodes, OnlyLateLeft, tasks, late
  <1>11. CASE ShutdownDone
    BY <1>11 DEF ShutdownDone, OnlyLateLeft, graph, tasks, late
  <1>12. CASE UNCHANGED vars
    BY <1>1, <1>12 DEF vars, graph, tasks, calls
  <1> QED
    BY <1>2, <1>3, <1>4, <1>5, <1>6, <1>7, <1>8, <1>9, <1>10, <1>11, <1>12 DEF Next, Calls, Progress

\* Every engine and every app that runs has an owner that can stop it, the fabric's maps or one
\* call that is under way, and what is in the maps once a shutdown took what they held was put
\* there since, by a spawn that the shutdown overtook.
THEOREM NothingIsLeaked == Spec => []NothingLeaks
  <1>1. FabricInv /\ OnlyLateLeft => NothingLeaks
    BY DEF FabricInv, NothingLeaks
  <1>2. Init => OnlyLateLeft
    BY DEF Init, OnlyLateLeft
  <1> QED BY <1>1, <1>2, FabricInit, FabricStep, LateStep, PTL DEF Spec

-----------------------------------------------------------------------------
(* The IP plane.  What its traffic is made of.                             *)

Packet == [src : Node, dst : Node, ttl : 1 .. InitTtl, reply : BOOLEAN, seq : Nat]
Busy == [id : Nat \ {0}, link : LinkIds, pkt : Packet]
Queues == [LinkIds \X Node -> Seq(Packet)]
Air == [Tasks -> Busy \cup {Idle}]
Flows == [st : {"idle", "waiting", "sending"}, seq : Nat, sent : Nat, received : Nat, lost : Nat]
Counters == [forwarded : Nat, delivered : Nat, noRoute : Nat, ttl : Nat]

-----------------------------------------------------------------------------
(* How many hops the packets in a finite set of places may still take.     *)

\* Place x stands for ttl[x] - 1 hops.
HopsOf(S, ttl) == {y \in S \X (1 .. InitTtl) : y[2] < ttl[y[1]]}

LEMMA HopsFinite ==
    ASSUME NEW S, IsFiniteSet(S), NEW ttl
    PROVE  IsFiniteSet(HopsOf(S, ttl)) /\ Cardinality(HopsOf(S, ttl)) \in Nat
  <1>1. IsFiniteSet(1 .. InitTtl)
    BY FS_Interval, TtlAssumption
  <1>2. IsFiniteSet(S \X (1 .. InitTtl))
    BY <1>1, FS_Product
  <1>3. HopsOf(S, ttl) \subseteq S \X (1 .. InitTtl)
    BY DEF HopsOf
  <1> QED
    BY <1>2, <1>3, FS_Subset, FS_CardinalityType

\* One more place adds its packet's hops.
OneMore(S, x, R, ttl, more) ==
    /\ IsFiniteSet(S) /\ x \notin S /\ R = S \cup {x}
    /\ more[x] \in 1 .. InitTtl /\ \A y \in S : more[y] = ttl[y]

LEMMA HopsAdded ==
    ASSUME NEW S, NEW x, NEW R, NEW ttl, NEW more, OneMore(S, x, R, ttl, more)
    PROVE  Cardinality(HopsOf(R, more)) = Cardinality(HopsOf(S, ttl)) + (more[x] - 1)
  <1>0. /\ IsFiniteSet(S) /\ x \notin S /\ R = S \cup {x}
        /\ more[x] \in 1 .. InitTtl /\ \A y \in S : more[y] = ttl[y]
    BY DEF OneMore
  <1> DEFINE T == {x} \X (1 .. more[x] - 1)
  <1>1. HopsOf(S \cup {x}, more) = HopsOf(S, ttl) \cup T
    <2>1. ASSUME NEW y \in HopsOf(S \cup {x}, more) PROVE y \in HopsOf(S, ttl) \cup T
      BY <1>0, <2>1, TtlAssumption DEF HopsOf
    <2>2. ASSUME NEW y \in HopsOf(S, ttl) PROVE y \in HopsOf(S \cup {x}, more)
      BY <1>0, <2>2 DEF HopsOf
    <2>3. ASSUME NEW y \in T PROVE y \in HopsOf(S \cup {x}, more)
      <3>1. y[1] = x /\ y[2] \in 1 .. more[x] - 1 /\ y = <<y[1], y[2]>>
        BY <2>3
      <3>2. y[2] \in 1 .. InitTtl /\ y[2] < more[x]
        BY <1>0, <3>1, TtlAssumption
      <3> QED
        BY <3>1, <3>2 DEF HopsOf
    <2> QED
      BY <2>1, <2>2, <2>3
  <1>2. HopsOf(S, ttl) \cap T = {}
    BY <1>0 DEF HopsOf
  <1>3. IsFiniteSet(T) /\ Cardinality(T) = more[x] - 1
    <2> DEFINE I == 1 .. more[x] - 1
    <2>1. IsFiniteSet(I) /\ Cardinality(I) = more[x] - 1
      BY <1>0, FS_Interval, TtlAssumption
    <2>2. IsFiniteSet({x}) /\ Cardinality({x}) = 1
      BY FS_Singleton
    <2> HIDE DEF I
    <2>3. IsFiniteSet({x} \X I) /\ Cardinality({x} \X I) = Cardinality({x}) * Cardinality(I)
      BY <2>1, <2>2, FS_Product
    <2>4. Cardinality({x}) * Cardinality(I) = more[x] - 1
      BY <1>0, <2>1, <2>2, TtlAssumption
    <2> QED
      BY <2>3, <2>4 DEF I
  <1> HIDE DEF T
  <1>4. IsFiniteSet(HopsOf(S, ttl)) /\ Cardinality(HopsOf(S, ttl)) \in Nat
    BY <1>0, HopsFinite
  <1>5. Cardinality(HopsOf(S, ttl) \cup T) = Cardinality(HopsOf(S, ttl)) + Cardinality(T) - Cardinality({})
    BY <1>2, <1>3, <1>4, FS_Union
  <1>6. Cardinality(HopsOf(S, ttl) \cup T) = Cardinality(HopsOf(S, ttl)) + (more[x] - 1)
    BY <1>0, <1>3, <1>4, <1>5, FS_EmptySet, TtlAssumption
  <1> QED
    BY <1>0, <1>1, <1>6

\* Packets that change places keep their hops.
LEMMA HopsMoved ==
    ASSUME NEW S, IsFiniteSet(S), NEW T, NEW f \in Bijection(S, T), NEW ttl, NEW moved,
           \A x \in S : moved[f[x]] = ttl[x]
    PROVE  Cardinality(HopsOf(T, moved)) = Cardinality(HopsOf(S, ttl))
  <1> DEFINE A == HopsOf(S, ttl)
             B == HopsOf(T, moved)
             g == [y \in A |-> <<f[y[1]], y[2]>>]
  <1>0. f \in [S -> T] /\ (\A a, b \in S : f[a] = f[b] => a = b) /\ (\A t \in T : \E s \in S : f[s] = t)
    BY Fun_BijectionProperties
  <1>1. g \in [A -> B]
    BY <1>0 DEF HopsOf
  <1>2. ASSUME NEW a \in A, NEW b \in A, g[a] = g[b] PROVE a = b
    <2>1. f[a[1]] = f[b[1]] /\ a[2] = b[2] /\ a[1] \in S /\ b[1] \in S /\ a = <<a[1], a[2]>> /\ b = <<b[1], b[2]>>
      BY <1>2 DEF HopsOf
    <2> QED
      BY <2>1, <1>0
  <1>3. ASSUME NEW b \in B PROVE \E a \in A : g[a] = b
    <2>1. b[1] \in T /\ b[2] \in 1 .. InitTtl /\ b[2] < moved[b[1]] /\ b = <<b[1], b[2]>>
      BY DEF HopsOf
    <2>2. PICK s \in S : f[s] = b[1]
      BY <2>1, <1>0
    <2>3. <<s, b[2]>> \in A
      BY <2>1, <2>2 DEF HopsOf
    <2> QED
      BY <2>1, <2>2, <2>3
  <1>4. g \in Bijection(A, B)
    <2> HIDE DEF A, B, g
    <2> QED
      BY <1>1, <1>2, <1>3, Fun_IsBij
  <1> HIDE DEF A, B, g
  <1>5. IsFiniteSet(A)
    BY HopsFinite DEF A
  <1>6. Cardinality(B) = Cardinality(A)
    BY <1>4, <1>5, FS_Bijection DEF ExistsBijection
  <1> QED
    BY <1>6 DEF A, B

-----------------------------------------------------------------------------
(* Packets in queues and with tasks that send them.                        *)

TtlIn(queues) == [x \in InQueues(queues) |-> queues[x[1]][x[2]].ttl]
HopsIn(queues) == Cardinality(HopsOf(InQueues(queues), TtlIn(queues)))
Queued(queues) == queues \in Queues /\ IsFiniteSet(InQueues(queues))

TtlOn(air) == [t \in Sending(air) |-> air[t].pkt.ttl]
HopsOn(air) == Cardinality(HopsOf(Sending(air), TtlOn(air)))

LEMMA NetFacts ==
    ASSUME net \in Networks
    PROVE  /\ net.n \in Nat \ {0} /\ 0 \in Node /\ net.n - 1 \in Node
           /\ LinkIds = 1 .. Len(Links) /\ Len(Links) \in Nat
           /\ \A i \in LinkIds : Links[i][1] \in Node /\ Links[i][2] \in Node
           /\ Flow \in Tasks /\ Flow \notin LinkIds \X Node
           /\ IsFiniteSet(Tasks)
  <1>1. net.n \in Nat \ {0} /\ Links \in Seq(Node \X Node)
    BY NetworkAssumption DEF Links, Node
  <1>2. 0 \in Node /\ net.n - 1 \in Node
    BY <1>1 DEF Node
  <1>3. LinkIds = 1 .. Len(Links) /\ Len(Links) \in Nat /\ \A i \in LinkIds : Links[i] \in Node \X Node
    BY <1>1 DEF LinkIds
  <1>4. Flow \in Tasks /\ Flow \notin LinkIds \X Node
    BY <1>3 DEF Flow, Tasks
  <1>5. IsFiniteSet(LinkIds) /\ IsFiniteSet(Node)
    BY <1>1, <1>3, FS_Interval DEF Node
  <1>6. IsFiniteSet(LinkIds \X Node) /\ IsFiniteSet({Flow})
    BY <1>5, FS_Product, FS_Singleton
  <1>7. IsFiniteSet(Tasks)
    BY <1>6, FS_Union DEF Tasks
  <1> QED
    BY <1>1, <1>2, <1>3, <1>4, <1>7

LEMMA PlacesInQueues ==
    ASSUME NEW queues, NEW x
    PROVE  x \in InQueues(queues) <=>
             \E k \in LinkIds \X Node : \E j \in DOMAIN queues[k] : x = <<k, j>>
  <1>1. ASSUME x \in InQueues(queues)
        PROVE \E k \in LinkIds \X Node : \E j \in DOMAIN queues[k] : x = <<k, j>>
    <2>1. PICK k \in LinkIds \X Node : x \in {k} \X DOMAIN queues[k]
      BY <1>1 DEF InQueues
    <2>2. x[1] = k /\ x[2] \in DOMAIN queues[k] /\ x = <<x[1], x[2]>>
      BY <2>1
    <2> QED
      BY <2>2
  <1>2. ASSUME NEW k \in LinkIds \X Node, NEW j \in DOMAIN queues[k], x = <<k, j>>
        PROVE x \in InQueues(queues)
    <2>1. x \in {k} \X DOMAIN queues[k]
      BY <1>2
    <2> QED
      BY <2>1 DEF InQueues
  <1> QED
    BY <1>1, <1>2

WithPacket(queues, k, p) == [queues EXCEPT ![k] = Append(@, p)]
WithoutHead(queues, k) == [queues EXCEPT ![k] = Tail(@)]
WithTask(air, t, b) == [air EXCEPT ![t] = b]

LEMMA PacketAppended ==
    ASSUME net \in Networks, NEW queues, Queued(queues),
           NEW k \in LinkIds \X Node, NEW p \in Packet, NEW more,
           more = WithPacket(queues, k, p)
    PROVE  /\ Queued(more)
           /\ Cardinality(InQueues(more)) = Cardinality(InQueues(queues)) + 1
           /\ HopsIn(more) = HopsIn(queues) + (p.ttl - 1)
  <1> DEFINE x == <<k, Len(queues[k]) + 1>>
  <1>1. queues \in Queues /\ IsFiniteSet(InQueues(queues)) /\ queues[k] \in Seq(Packet)
    BY DEF Queued, Queues
  <1>2. more \in Queues
    BY <1>1 DEF Queues, WithPacket
  <1>3. /\ more[k] = Append(queues[k], p)
        /\ \A l \in LinkIds \X Node : l # k => more[l] = queues[l]
    BY <1>1 DEF Queues, WithPacket
  <1>4. /\ DOMAIN more[k] = DOMAIN queues[k] \cup {x[2]} /\ x[2] \notin DOMAIN queues[k]
        /\ more[k][x[2]] = p
        /\ \A j \in DOMAIN queues[k] : more[k][j] = queues[k][j]
    BY <1>1, <1>3
  <1>5. x[1] = k /\ x[2] = Len(queues[k]) + 1
    OBVIOUS
  <1> HIDE DEF x
  <1>6. x = <<k, x[2]>>
    BY <1>5 DEF x
  <1>7. x \notin InQueues(queues)
    <2>1. SUFFICES ASSUME x \in InQueues(queues) PROVE FALSE
      OBVIOUS
    <2>2a. PICK l \in LinkIds \X Node : \E j \in DOMAIN queues[l] : x = <<l, j>>
      BY <2>1, PlacesInQueues
    <2>2. PICK j \in DOMAIN queues[l] : x = <<l, j>>
      BY <2>2a
    <2> QED
      BY <2>2, <1>4, <1>6
  <1>8. InQueues(more) = InQueues(queues) \cup {x}
    <2>1. ASSUME NEW y \in InQueues(more) PROVE y \in InQueues(queues) \cup {x}
      <3>1a. PICK l \in LinkIds \X Node : \E j \in DOMAIN more[l] : y = <<l, j>>
        BY PlacesInQueues
      <3>1. PICK j \in DOMAIN more[l] : y = <<l, j>>
        BY <3>1a
      <3>2. CASE l = k /\ j = x[2]
        BY <3>1, <3>2, <1>6
      <3>3. CASE ~(l = k /\ j = x[2])
        <4>1. j \in DOMAIN queues[l]
          BY <3>1, <3>3, <1>3, <1>4
        <4> QED
          BY <3>1, <4>1, PlacesInQueues
      <3> QED
        BY <3>2, <3>3
    <2>2. ASSUME NEW y \in InQueues(queues) PROVE y \in InQueues(more)
      <3>1a. PICK l \in LinkIds \X Node : \E j \in DOMAIN queues[l] : y = <<l, j>>
        BY PlacesInQueues
      <3>1. PICK j \in DOMAIN queues[l] : y = <<l, j>>
        BY <3>1a
      <3>2. j \in DOMAIN more[l]
        BY <3>1, <1>3, <1>4
      <3> QED
        BY <3>1, <3>2, PlacesInQueues
    <2>3. x \in InQueues(more)
      BY <1>4, <1>6, PlacesInQueues
    <2> QED
      BY <2>1, <2>2, <2>3
  <1>9. TtlIn(more)[x] = p.ttl /\ TtlIn(more)[x] \in 1 .. InitTtl
    <2>1. x \in InQueues(more)
      BY <1>8
    <2>2. TtlIn(more)[x] = more[x[1]][x[2]].ttl
      BY <2>1, Zenon DEF TtlIn
    <2> QED
      BY <2>2, <1>4, <1>5 DEF Packet
  <1>10. \A y \in InQueues(queues) : TtlIn(more)[y] = TtlIn(queues)[y]
    <2> SUFFICES ASSUME NEW y \in InQueues(queues) PROVE TtlIn(more)[y] = TtlIn(queues)[y]
      OBVIOUS
    <2>1. y \in InQueues(more)
      BY <1>8
    <2>2a. PICK l \in LinkIds \X Node : \E j \in DOMAIN queues[l] : y = <<l, j>>
      BY PlacesInQueues
    <2>2. PICK j \in DOMAIN queues[l] : y = <<l, j>>
      BY <2>2a
    <2>3. more[l][j] = queues[l][j]
      BY <2>2, <1>3, <1>4
    <2>4. more[y[1]][y[2]] = queues[y[1]][y[2]]
      BY <2>2, <2>3
    <2> QED
      BY <2>1, <2>4, Zenon DEF TtlIn
  <1>11. IsFiniteSet(InQueues(more)) /\ Cardinality(InQueues(more)) = Cardinality(InQueues(queues)) + 1
    BY <1>1, <1>7, <1>8, FS_AddElement
  <1>12. HopsIn(more) = HopsIn(queues) + (p.ttl - 1)
    <2> DEFINE S == InQueues(queues)
               R == InQueues(more)
               before == TtlIn(queues)
               after == TtlIn(more)
    <2>1. OneMore(S, x, R, before, after)
      BY <1>1, <1>7, <1>8, <1>9, <1>10 DEF OneMore
    <2> HIDE DEF S, R, before, after
    <2>2. Cardinality(HopsOf(R, after)) = Cardinality(HopsOf(S, before)) + (after[x] - 1)
      BY <2>1, HopsAdded
    <2>3. Cardinality(HopsOf(InQueues(more), TtlIn(more))) =
            Cardinality(HopsOf(InQueues(queues), TtlIn(queues))) + (TtlIn(more)[x] - 1)
      BY <2>2 DEF S, R, before, after
    <2> QED
      BY <2>3, <1>9 DEF HopsIn
  <1> QED
    BY <1>2, <1>11, <1>12 DEF Queued

LEMMA PacketTaken ==
    ASSUME net \in Networks, NEW queues, Queued(queues),
           NEW k \in LinkIds \X Node, queues[k] # <<>>, NEW rest,
           rest = WithoutHead(queues, k)
    PROVE  /\ Queued(rest) /\ Head(queues[k]) \in Packet
           /\ Cardinality(InQueues(queues)) = Cardinality(InQueues(rest)) + 1
           /\ HopsIn(queues) = HopsIn(rest) + (Head(queues[k]).ttl - 1)
  <1> DEFINE first == <<k, 1>>
             f == [y \in InQueues(rest) |-> IF y[1] = k THEN <<k, y[2] + 1>> ELSE y]
             others == InQueues(queues) \ {first}
  <1>1. queues \in Queues /\ IsFiniteSet(InQueues(queues)) /\ queues[k] \in Seq(Packet)
    BY DEF Queued, Queues
  <1>2. rest \in Queues /\ Head(queues[k]) \in Packet /\ Head(queues[k]) = queues[k][1]
    BY <1>1 DEF Queues, WithoutHead
  <1>3. /\ rest[k] = Tail(queues[k])
        /\ \A l \in LinkIds \X Node : l # k => rest[l] = queues[l]
    BY <1>1 DEF Queues, WithoutHead
  <1>4. /\ DOMAIN queues[k] = 1 .. Len(queues[k]) /\ Len(queues[k]) \in Nat \ {0}
        /\ DOMAIN rest[k] = 1 .. Len(queues[k]) - 1
        /\ \A j \in DOMAIN rest[k] : rest[k][j] = queues[k][j + 1]
    BY <1>1, <1>3
  <1>5. first[1] = k /\ first[2] = 1 /\ first \in InQueues(queues)
    BY <1>4, PlacesInQueues
  <1>6. ASSUME NEW y \in InQueues(rest)
        PROVE /\ f[y] \in others /\ f[y][1] = y[1] /\ y = <<y[1], y[2]>>
              /\ f[y][2] = IF y[1] = k THEN y[2] + 1 ELSE y[2]
              /\ y[1] = k => y[2] \in Nat \ {0}
              /\ queues[f[y][1]][f[y][2]] = rest[y[1]][y[2]]
    <2>1a. PICK l \in LinkIds \X Node : \E j \in DOMAIN rest[l] : y = <<l, j>>
      BY PlacesInQueues
    <2>1. PICK j \in DOMAIN rest[l] : y = <<l, j>>
      BY <2>1a
    <2>2. y[1] = l /\ y[2] = j
      BY <2>1
    <2>3. CASE l = k
      <3>1. f[y] = <<k, j + 1>> /\ j + 1 \in DOMAIN queues[k] /\ j + 1 # 1 /\ j \in Nat \ {0}
        BY <2>1, <2>2, <2>3, <1>4
      <3>2. f[y] \in InQueues(queues) /\ f[y] # first /\ f[y][1] = k /\ f[y][2] = j + 1
        BY <3>1, PlacesInQueues
      <3> QED
        BY <3>1, <3>2, <2>1, <2>2, <2>3, <1>4
    <2>4. CASE l # k
      <3>1. f[y] = y /\ rest[l] = queues[l]
        BY <2>1, <2>2, <2>4, <1>3
      <3>2. f[y] \in InQueues(queues) /\ f[y] # first
        BY <3>1, <2>1, <2>2, <2>4, <1>5, PlacesInQueues
      <3> QED
        BY <3>1, <3>2, <2>1, <2>2, <2>4
    <2> QED
      BY <2>3, <2>4
  <1>7. f \in [InQueues(rest) -> others]
    BY <1>6
  <1>8. ASSUME NEW y \in InQueues(rest), NEW z \in InQueues(rest), f[y] = f[z] PROVE y = z
    <2> HIDE DEF f
    <2>1. y[1] = z[1] /\ y = <<y[1], y[2]>> /\ z = <<z[1], z[2]>>
      BY <1>6, <1>8
    <2>2. y[2] = z[2]
      BY <1>6, <1>8, <2>1
    <2> QED
      BY <2>1, <2>2
  <1>9. ASSUME NEW z \in others PROVE \E y \in InQueues(rest) : f[y] = z
    <2>1a. PICK l \in LinkIds \X Node : \E j \in DOMAIN queues[l] : z = <<l, j>>
      BY PlacesInQueues
    <2>1. PICK j \in DOMAIN queues[l] : z = <<l, j>>
      BY <2>1a
    <2>2. CASE l = k
      <3>1. j \in 2 .. Len(queues[k])
        BY <2>1, <2>2, <1>4
      <3>2. j - 1 \in DOMAIN rest[k] /\ (j - 1) + 1 = j
        BY <3>1, <1>4
      <3>3. <<k, j - 1>> \in InQueues(rest)
        BY <3>2, PlacesInQueues
      <3> QED
        BY <3>2, <3>3, <2>1, <2>2
    <2>3. CASE l # k
      <3>1. z \in InQueues(rest)
        BY <2>1, <2>3, <1>3, PlacesInQueues
      <3> QED
        BY <3>1, <2>1, <2>3
    <2> QED
      BY <2>2, <2>3
  <1> HIDE DEF f
  <1>10. f \in Bijection(InQueues(rest), others)
    <2> HIDE DEF others
    <2> QED
      BY <1>7, <1>8, <1>9, Fun_IsBij
  <1>11. IsFiniteSet(others) /\ Cardinality(InQueues(queues)) = Cardinality(others) + 1
    <2>1. InQueues(queues) = others \cup {first} /\ first \notin others
      BY <1>5
    <2>2. IsFiniteSet(others)
      BY <1>1, FS_RemoveElement
    <2> HIDE DEF others, first
    <2> QED
      BY <2>1, <2>2, FS_AddElement
  <1>12. IsFiniteSet(InQueues(rest)) /\ Cardinality(InQueues(rest)) = Cardinality(others)
    <2> HIDE DEF others
    <2>1. f \in Injection(InQueues(rest), others) /\ f \in Surjection(InQueues(rest), others)
      BY <1>10, Fun_BijectionProperties
    <2> QED
      BY <2>1, <1>11, FS_Injection
  <1>13. HopsIn(queues) = HopsIn(rest) + (Head(queues[k]).ttl - 1)
    <2>1. \A y \in InQueues(rest) : TtlIn(queues)[f[y]] = TtlIn(rest)[y]
      <3> SUFFICES ASSUME NEW y \in InQueues(rest) PROVE TtlIn(queues)[f[y]] = TtlIn(rest)[y]
        OBVIOUS
      <3>1. f[y] \in InQueues(queues) /\ queues[f[y][1]][f[y][2]] = rest[y[1]][y[2]]
        BY <1>6
      <3> QED
        BY <3>1, Zenon DEF TtlIn
    <2>2. TtlIn(queues)[first] = Head(queues[k]).ttl /\ TtlIn(queues)[first] \in 1 .. InitTtl
      <3>1. TtlIn(queues)[first] = queues[first[1]][first[2]].ttl
        BY <1>5, Zenon DEF TtlIn
      <3> QED
        BY <3>1, <1>5, <1>2 DEF Packet
    <2>3. InQueues(queues) = others \cup {first} /\ first \notin others
      BY <1>5
    <2> HIDE DEF others, first
    <2>4. Cardinality(HopsOf(others, TtlIn(queues))) = Cardinality(HopsOf(InQueues(rest), TtlIn(rest)))
      BY <1>10, <1>12, <2>1, HopsMoved
    <2>5. Cardinality(HopsOf(InQueues(queues), TtlIn(queues))) =
            Cardinality(HopsOf(others, TtlIn(queues))) + (TtlIn(queues)[first] - 1)
      <3> DEFINE R == InQueues(queues)
                 ttl == TtlIn(queues)
      <3>1. OneMore(others, first, R, ttl, ttl)
        BY <1>11, <2>2, <2>3 DEF OneMore
      <3> HIDE DEF R, ttl
      <3>2. Cardinality(HopsOf(R, ttl)) = Cardinality(HopsOf(others, ttl)) + (ttl[first] - 1)
        BY <3>1, HopsAdded
      <3> QED
        BY <3>2 DEF R, ttl
    <2> QED
      BY <2>2, <2>3, <2>4, <2>5 DEF HopsIn
  <1> QED
    BY <1>2, <1>11, <1>12, <1>13 DEF Queued

LEMMA SendStarts ==
    ASSUME net \in Networks, NEW air \in Air, NEW t \in Tasks, air[t] = Idle, NEW b \in Busy,
           NEW more, more = WithTask(air, t, b)
    PROVE  /\ more \in Air /\ t \in Sending(more)
           /\ Cardinality(Sending(more)) = Cardinality(Sending(air)) + 1
           /\ HopsOn(more) = HopsOn(air) + (b.pkt.ttl - 1)
  <1>1. b.id # 0 /\ Idle.id = 0 /\ b # Idle /\ b.pkt.ttl \in 1 .. InitTtl
    BY DEF Busy, Idle, Packet
  <1>2. more \in Air /\ more[t] = b /\ \A s \in Tasks : s # t => more[s] = air[s]
    BY DEF Air, WithTask
  <1>3. Sending(more) = Sending(air) \cup {t} /\ t \notin Sending(air)
    BY <1>1, <1>2 DEF Sending
  <1>4. IsFiniteSet(Sending(air))
    BY NetFacts, FS_Subset DEF Sending
  <1>5. TtlOn(more)[t] = b.pkt.ttl /\ TtlOn(more)[t] \in 1 .. InitTtl /\ \A s \in Sending(air) : TtlOn(more)[s] = TtlOn(air)[s]
    <2>1. \A s \in Sending(more) : TtlOn(more)[s] = more[s].pkt.ttl
      BY Zenon DEF TtlOn
    <2>2. \A s \in Sending(air) : TtlOn(air)[s] = air[s].pkt.ttl
      BY Zenon DEF TtlOn
    <2>3. t \in Sending(more) /\ \A s \in Sending(air) : s \in Sending(more) /\ more[s] = air[s]
      BY <1>2, <1>3 DEF Sending
    <2> QED
      BY <2>1, <2>2, <2>3, <1>1, <1>2
  <1>6. Cardinality(HopsOf(Sending(more), TtlOn(more))) =
          Cardinality(HopsOf(Sending(air), TtlOn(air))) + (TtlOn(more)[t] - 1)
    <2>1. OneMore(Sending(air), t, Sending(more), TtlOn(air), TtlOn(more))
      BY <1>1, <1>3, <1>4, <1>5 DEF OneMore
    <2> QED
      BY <2>1, HopsAdded
  <1>7. Cardinality(Sending(more)) = Cardinality(Sending(air)) + 1
    BY <1>3, <1>4, FS_AddElement
  <1> QED
    BY <1>2, <1>3, <1>5, <1>6, <1>7 DEF HopsOn

LEMMA SendEnds ==
    ASSUME net \in Networks, NEW air \in Air, NEW t \in Tasks, air[t] # Idle,
           NEW fewer, fewer = WithTask(air, t, Idle)
    PROVE  /\ fewer \in Air /\ air[t] \in Busy
           /\ Cardinality(Sending(air)) = Cardinality(Sending(fewer)) + 1
           /\ HopsOn(air) = HopsOn(fewer) + (air[t].pkt.ttl - 1)
  <1>1. fewer \in Air /\ air[t] \in Busy /\ fewer[t] = Idle
    BY DEF Air, WithTask
  <1>2. air = WithTask(fewer, t, air[t])
    BY DEF Air, WithTask
  <1> QED
    BY <1>1, <1>2, SendStarts

\* What is in flight, and the hops it may still take.
Flying(queues, air) == Cardinality(InQueues(queues)) + Cardinality(Sending(air))
MayHop(queues, air) == HopsIn(queues) + HopsOn(air)

LEMMA FlightCounts ==
    ASSUME net \in Networks, NEW queues, Queued(queues), NEW air \in Air
    PROVE  /\ Cardinality(InQueues(queues)) \in Nat /\ HopsIn(queues) \in Nat
           /\ Cardinality(Sending(air)) \in Nat /\ HopsOn(air) \in Nat
           /\ Flying(queues, air) \in Nat /\ MayHop(queues, air) \in Nat
  <1>1. IsFiniteSet(Sending(air))
    BY NetFacts, FS_Subset DEF Sending
  <1>2. /\ Cardinality(InQueues(queues)) \in Nat /\ HopsIn(queues) \in Nat
        /\ Cardinality(Sending(air)) \in Nat /\ HopsOn(air) \in Nat
    BY <1>1, HopsFinite, FS_CardinalityType DEF HopsIn, HopsOn, Queued
  <1> QED
    BY <1>2 DEF Flying, MayHop

-----------------------------------------------------------------------------
(* The invariant of the traffic: every packet is accounted for, and what   *)
(* was forwarded and may still be is at most what the packets made allow.  *)

TrafficTypes ==
    /\ net \in Networks
    /\ Queued(wire) /\ onAir \in Air
    /\ flow \in Flows
    /\ replies \in Seq(Nat)
    /\ stats \in Counters
    /\ made \in Nat /\ gone \in Nat

\* A route is over a link.
RoutesOverLinks == \A u \in Node : \A d \in DOMAIN routes[u] : routes[u][d] \in LinkIds

\* The flow's task is on the air exactly while it sends.
FlowOnAir == flow.st = "sending" <=> onAir[Flow] # Idle

\* The hops that m packets may take.
Allowed(m) == (InitTtl - 1) * m
Handled(counters) == counters.delivered + counters.noRoute + counters.ttl

HopsLeft == stats.forwarded + MayHop(wire, onAir) <= Allowed(made)

TrafficInv ==
    TrafficTypes /\ RoutesOverLinks /\ FlowOnAir /\ EveryPacketAccounted /\ FlowAccounts /\ HopsLeft

\* What send_on and the end of an airtime do to what is in flight.
LEMMA PutSomewhere ==
    ASSUME net \in Networks, NEW queues, Queued(queues), gone \in Nat,
           NEW u \in Node, NEW i \in LinkIds, NEW p \in Packet, PutOnFace(queues, i, u, p)
    PROVE  /\ Queued(wire') /\ gone' \in Nat
           /\ Cardinality(InQueues(wire')) + gone' = Cardinality(InQueues(queues)) + gone + 1
           /\ HopsIn(wire') <= HopsIn(queues) + (p.ttl - 1)
  <1>0. /\ p.ttl \in 1 .. InitTtl /\ <<i, u>> \in LinkIds \X Node
        /\ Cardinality(InQueues(queues)) \in Nat /\ HopsIn(queues) \in Nat
    BY HopsFinite, FS_CardinalityType DEF Packet, HopsIn, Queued
  <1>1. CASE wire' = WithPacket(queues, <<i, u>>, p) /\ gone' = gone
    <2>1. /\ Queued(wire')
          /\ Cardinality(InQueues(wire')) = Cardinality(InQueues(queues)) + 1
          /\ HopsIn(wire') = HopsIn(queues) + (p.ttl - 1)
      BY <1>0, <1>1, PacketAppended
    <2> QED
      BY <1>0, <1>1, <2>1, TtlAssumption
  <1>2. CASE wire' = queues /\ gone' = gone + 1
    BY <1>0, <1>2, TtlAssumption
  <1>3. \/ wire' = WithPacket(queues, <<i, u>>, p) /\ gone' = gone
        \/ wire' = queues /\ gone' = gone + 1
    BY Zenon DEF PutOnFace, WithPacket
  <1> QED
    BY <1>1, <1>2, <1>3

\* A task with nothing on the air sends.
Sends(queues, t, u, i, p) ==
    /\ net \in Networks /\ Queued(queues) /\ onAir \in Air /\ gone \in Nat /\ Len(airLog) \in Nat
    /\ t \in Tasks /\ onAir[t] = Idle /\ u \in Node /\ i \in LinkIds /\ p \in Packet
    /\ SendOn(queues, t, u, i, p)

LEMMA SentSomewhere ==
    ASSUME NEW queues, NEW t, NEW u, NEW i, NEW p, Sends(queues, t, u, i, p)
    PROVE  /\ Queued(wire') /\ onAir' \in Air /\ gone' \in Nat
           /\ Flying(wire', onAir') + gone' = Flying(queues, onAir) + gone + 1
           /\ MayHop(wire', onAir') <= MayHop(queues, onAir) + (p.ttl - 1)
           /\ \A s \in Tasks : s # t => onAir'[s] = onAir[s]
           /\ onAir' = onAir <=> onAir'[t] = Idle
  <1>1. /\ net \in Networks /\ Queued(queues) /\ onAir \in Air /\ gone \in Nat /\ Len(airLog) \in Nat
        /\ t \in Tasks /\ onAir[t] = Idle /\ u \in Node /\ i \in LinkIds /\ p \in Packet
    BY DEF Sends
  <1>2. gone \in Nat
    BY <1>1
  <1>3. /\ p.ttl \in 1 .. InitTtl
        /\ Cardinality(InQueues(queues)) \in Nat /\ HopsIn(queues) \in Nat
        /\ Cardinality(Sending(onAir)) \in Nat /\ HopsOn(onAir) \in Nat
    BY <1>1, FlightCounts DEF Packet
  <1>4. CASE PutOnFace(queues, i, u, p) /\ onAir' = onAir
    <2>0. onAir' = onAir
      BY <1>4
    <2>1. Queued(wire')
      BY <1>1, <1>4, PutSomewhere
    <2>2. /\ gone' \in Nat
          /\ Cardinality(InQueues(wire')) + gone' = Cardinality(InQueues(queues)) + gone + 1
          /\ HopsIn(wire') <= HopsIn(queues) + (p.ttl - 1)
      BY <1>1, <1>4, PutSomewhere
    <2>3. Cardinality(InQueues(wire')) \in Nat /\ HopsIn(wire') \in Nat
      BY <1>1, <2>1, FlightCounts
    <2>4. MayHop(wire', onAir') <= MayHop(queues, onAir) + (p.ttl - 1)
      BY <1>3, <2>0, <2>2, <2>3, TtlAssumption DEF MayHop
    <2>5. Flying(wire', onAir') + gone' = Flying(queues, onAir) + gone + 1
      BY <1>3, <1>2, <2>0, <2>2, <2>3 DEF Flying
    <2> QED
      BY <1>1, <2>0, <2>1, <2>2, <2>4, <2>5
  <1>5. CASE wire' = queues /\ gone' = gone + 1 /\ onAir' = onAir
    <2>1. gone' \in Nat /\ Flying(wire', onAir') + gone' = Flying(queues, onAir) + gone + 1
      BY <1>3, <1>2, <1>5 DEF Flying
    <2>2. MayHop(wire', onAir') <= MayHop(queues, onAir) + (p.ttl - 1)
      BY <1>3, <1>5, TtlAssumption DEF MayHop
    <2> QED
      BY <1>1, <1>5, <2>1, <2>2
  <1>6. CASE wire' = queues /\ gone' = gone
             /\ onAir' = WithTask(onAir, t, [id |-> Len(airLog) + 1, link |-> i, pkt |-> p])
    <2> DEFINE b == [id |-> Len(airLog) + 1, link |-> i, pkt |-> p]
    <2>1. b \in Busy /\ b.pkt = p
      BY <1>1 DEF Busy
    <2>2. onAir' = WithTask(onAir, t, b)
      BY <1>6
    <2> HIDE DEF b
    <2>3. /\ onAir' \in Air /\ t \in Sending(onAir')
          /\ Cardinality(Sending(onAir')) = Cardinality(Sending(onAir)) + 1
          /\ HopsOn(onAir') = HopsOn(onAir) + (p.ttl - 1)
      BY <1>1, <2>1, <2>2, SendStarts
    <2>4. /\ \A s \in Tasks : s # t => onAir'[s] = onAir[s]
          /\ onAir'[t] # Idle
      BY <1>1, <2>2, <2>3 DEF Air, Sending, WithTask
    <2>5. Flying(wire', onAir') + gone' = Flying(queues, onAir) + gone + 1
      BY <1>3, <1>2, <1>6, <2>3 DEF Flying
    <2>6. MayHop(wire', onAir') <= MayHop(queues, onAir) + (p.ttl - 1)
      BY <1>3, <1>6, <2>3, TtlAssumption DEF MayHop
    <2> QED
      BY <1>1, <1>6, <2>3, <2>4, <2>5, <2>6
  <1>7. \/ PutOnFace(queues, i, u, p) /\ onAir' = onAir
        \/ wire' = queues /\ gone' = gone + 1 /\ onAir' = onAir
        \/ /\ wire' = queues /\ gone' = gone
           /\ onAir' = WithTask(onAir, t, [id |-> Len(airLog) + 1, link |-> i, pkt |-> p])
    BY Zenon DEF Sends, SendOn, WithTask
  <1> QED
    BY <1>4, <1>5, <1>6, <1>7

\* The totals a step leaves, from what it does to what is in flight.
LEMMA Totals ==
    ASSUME TrafficInv, net' = net
    PROVE  /\ HopsLeft' <=> stats'.forwarded + MayHop(wire', onAir') <= Allowed(made')
           /\ TrafficTypes' <=>
                 /\ Queued(wire') /\ onAir' \in Air
                 /\ flow' \in Flows
                 /\ replies' \in Seq(Nat)
                 /\ stats' \in Counters
                 /\ made' \in Nat /\ gone' \in Nat
  BY DEF HopsLeft, HopsIn, HopsOn, TtlIn, TtlOn, InQueues, Sending, MayHop, Allowed,
         TrafficTypes, TrafficInv, Queued, Queues, Air, Busy, Packet, Tasks, LinkIds, Links, Node

LEMMA Accounts ==
    ASSUME TrafficTypes
    PROVE  EveryPacketAccounted <=> made = Flying(wire, onAir) + Handled(stats) + gone
  <1>1. Flying(wire, onAir) \in Nat /\ InFlight = Flying(wire, onAir)
    BY FlightCounts DEF TrafficTypes, InFlight, Flying
  <1>2. stats.delivered \in Nat /\ stats.noRoute \in Nat /\ stats.ttl \in Nat /\ gone \in Nat
    BY DEF TrafficTypes, Counters
  <1> QED
    BY <1>1, <1>2 DEF EveryPacketAccounted, Handled

LEMMA AccountsNext ==
    ASSUME TrafficInv, net' = net, TrafficTypes',
           made' = Flying(wire', onAir') + Handled(stats') + gone'
    PROVE  EveryPacketAccounted'
  <1>1. Flying(wire', onAir') \in Nat
    BY Totals, FlightCounts DEF TrafficInv, TrafficTypes
  <1>2. InFlight' = Flying(wire', onAir')
    BY DEF InFlight, Flying, InQueues, Sending, Tasks, LinkIds, Links, Node
  <1>3. stats'.delivered \in Nat /\ stats'.noRoute \in Nat /\ stats'.ttl \in Nat /\ gone' \in Nat
    BY DEF TrafficTypes, Counters
  <1>4. made' = InFlight' + stats'.delivered + stats'.noRoute + stats'.ttl + gone'
    BY <1>1, <1>2, <1>3 DEF Handled
  <1> QED
    BY <1>4 DEF EveryPacketAccounted

LEMMA AllowedMore ==
    ASSUME NEW m \in Nat
    PROVE  Allowed(m) \in Nat /\ Allowed(m + 1) = Allowed(m) + (InitTtl - 1)
  BY TtlAssumption DEF Allowed

-----------------------------------------------------------------------------
(* Routes.                                                                 *)

LEMMA GreatestOne ==
    ASSUME NEW n \in Nat, NEW S \in SUBSET (0 .. n), S # {}
    PROVE  Max(S) \in S /\ \A y \in S : Max(S) >= y
  <1> DEFINE T == {m \in Nat : \E s \in S : m = n - s}
  <1>1. T # {} /\ T \subseteq Nat
    <2>1. PICK s \in S : TRUE
      OBVIOUS
    <2>2. n - s \in Nat
      BY <2>1
    <2>3. n - s \in T
      BY <2>2
    <2> QED
      BY <2>3
  <1> HIDE DEF T
  <1>2. PICK m \in T : \A k \in T : ~(<<k, m>> \in OpToRel(<, Nat))
    BY <1>1, NatLessThanWellFounded, WFMin
  <1>3. ASSUME NEW k \in T PROVE m <= k
    <2>1. ~(k < m)
      BY <1>1, <1>2, Zenon DEF OpToRel
    <2> QED
      BY <2>1, <1>1
  <1>4. PICK s \in S : m = n - s
    BY DEF T
  <1>5. ASSUME NEW y \in S PROVE s >= y
    <2>1. n - y \in T
      BY DEF T
    <2> QED
      BY <2>1, <1>3, <1>4
  <1>6. \E x \in S : \A y \in S : x >= y
    BY <1>5
  <1> QED
    BY <1>6 DEF Max

LEMMA FacesAreLinks ==
    ASSUME net \in Networks, NEW u, NEW v, FaceTo(u, v) # 0
    PROVE  FaceTo(u, v) \in LinkIds /\ {Links[FaceTo(u, v)][1], Links[FaceTo(u, v)][2]} = {u, v}
  <1> DEFINE between == {i \in LinkIds : {Links[i][1], Links[i][2]} = {u, v}}
  <1>1. between \in SUBSET (0 .. Len(Links)) /\ Len(Links) \in Nat
    BY NetFacts
  <1>2. FaceTo(u, v) = IF between = {} THEN 0 ELSE Max(between)
    BY DEF FaceTo
  <1>3. between # {} /\ FaceTo(u, v) = Max(between)
    BY <1>2
  <1> HIDE DEF between
  <1>4. FaceTo(u, v) \in between
    BY <1>1, <1>3, GreatestOne
  <1> QED
    BY <1>4 DEF between

LEMMA TablesAreOverLinks ==
    ASSUME net \in Networks, NEW alive, NEW places, NEW u \in Node,
           NEW d \in DOMAIN RoutesOver(alive, places)[u]
    PROVE  RoutesOver(alive, places)[u][d] \in LinkIds
  <1> DEFINE tables == Compute(net.algo, View(alive, places))
  <1>1. RoutesOver(alive, places) = [w \in Node |-> Install(tables, w)]
    BY DEF RoutesOver
  <1> HIDE DEF tables
  <1>2. RoutesOver(alive, places)[u] = Install(tables, u)
    BY <1>1
  <1>3. FaceTo(u, tables[u][d]) # 0 /\ Install(tables, u)[d] = FaceTo(u, tables[u][d])
    BY <1>2 DEF Install
  <1> QED
    BY <1>2, <1>3, FacesAreLinks

-----------------------------------------------------------------------------
(* Each step keeps the traffic's invariant.                                *)

LEMMA TrafficInit == IpInit => TrafficInv
  <1> SUFFICES ASSUME IpInit PROVE TrafficInv
    OBVIOUS
  <1>1. net \in Networks
    BY DEF IpInit
  <1>2. InQueues(wire) = {} /\ wire \in Queues
    <2>1. wire = [k \in LinkIds \X Node |-> <<>>]
      BY DEF IpInit, NoTraffic
    <2>2. ASSUME NEW x \in InQueues(wire) PROVE FALSE
      BY <2>1, PlacesInQueues
    <2> QED
      BY <2>1, <2>2 DEF Queues
  <1>3. onAir \in Air /\ Sending(onAir) = {} /\ onAir[Flow] = Idle
    BY <1>1, NetFacts DEF IpInit, NoTraffic, Air, Sending
  <1>4. IsFiniteSet(InQueues(wire)) /\ Cardinality(InQueues(wire)) = 0 /\ Cardinality(Sending(onAir)) = 0
    BY <1>2, <1>3, FS_EmptySet
  <1>5. HopsIn(wire) = 0 /\ HopsOn(onAir) = 0
    <2>1. \A ttl : HopsOf({}, ttl) = {}
      BY DEF HopsOf
    <2> QED
      BY <2>1, <1>2, <1>3, FS_EmptySet DEF HopsIn, HopsOn
  <1>6. TrafficTypes
    BY <1>1, <1>2, <1>3, <1>4 DEF IpInit, NoTraffic, TrafficTypes, Queued, Flows, Counters
  <1>7. RoutesOverLinks
    BY <1>1, TablesAreOverLinks DEF IpInit, RoutesOverLinks
  <1>8. FlowOnAir /\ FlowAccounts
    BY <1>3 DEF IpInit, NoTraffic, FlowOnAir, FlowAccounts
  <1>9. EveryPacketAccounted
    BY <1>4 DEF IpInit, NoTraffic, EveryPacketAccounted, InFlight
  <1>10. HopsLeft
    BY <1>5, TtlAssumption DEF IpInit, NoTraffic, HopsLeft, MayHop, Allowed
  <1> QED
    BY <1>6, <1>7, <1>8, <1>9, <1>10 DEF TrafficInv

traffic == <<net, wire, onAir, flow, replies, stats, made, gone>>

LEMMA TopologyKeeps ==
    ASSUME TrafficInv, UNCHANGED traffic, RoutesOverLinks'
    PROVE  TrafficInv'
  <1>1. /\ net' = net /\ wire' = wire /\ onAir' = onAir /\ flow' = flow /\ replies' = replies
        /\ stats' = stats /\ made' = made /\ gone' = gone
    BY DEF traffic
  <1>2. TrafficTypes /\ FlowOnAir /\ FlowAccounts /\ EveryPacketAccounted /\ HopsLeft
    BY DEF TrafficInv
  <1>3. FlowOnAir' /\ FlowAccounts'
    BY <1>1, <1>2 DEF FlowOnAir, FlowAccounts, Flow
  <1>4. TrafficTypes'
    BY <1>1, <1>2, Totals DEF TrafficTypes
  <1>5. EveryPacketAccounted'
    <2>1. made' = Flying(wire', onAir') + Handled(stats') + gone'
      BY <1>1, <1>2, Accounts
    <2> QED
      BY <1>1, <1>4, <2>1, AccountsNext
  <1>6. HopsLeft'
    BY <1>1, <1>2, Totals DEF HopsLeft
  <1> QED
    BY <1>2, <1>3, <1>4, <1>5, <1>6 DEF TrafficInv

LEMMA RoutesStay ==
    ASSUME TrafficInv, UNCHANGED <<net, routes>>
    PROVE  RoutesOverLinks'
  BY DEF TrafficInv, RoutesOverLinks, LinkIds, Links, Node

LEMMA RoutesNew ==
    ASSUME TrafficInv, net' = net, NEW alive, NEW places, routes' = RoutesOver(alive, places)
    PROVE  RoutesOverLinks'
  <1>1. net \in Networks
    BY DEF TrafficInv, TrafficTypes
  <1>2. \A u \in Node : \A d \in DOMAIN routes'[u] : routes'[u][d] \in LinkIds
    BY <1>1, TablesAreOverLinks
  <1> QED
    BY <1>2 DEF RoutesOverLinks, LinkIds, Links, Node

LEMMA MovesKeepTraffic ==
    ASSUME TrafficInv,
           \/ \E i \in LinkIds, alive \in BOOLEAN : SetLink(i, alive)
           \/ RerouteWith
           \/ \E places \in Places : Reconnect(places) \/ ReconnectWifi(places) \/ ReconnectLora(places)
    PROVE  TrafficInv' /\ net' = net
  <1>1. ASSUME NEW i, NEW alive, SetLink(i, alive) PROVE TrafficInv' /\ net' = net
    BY <1>1, TopologyKeeps, RoutesStay DEF SetLink, traffic
  <1>2. ASSUME RerouteWith PROVE TrafficInv' /\ net' = net
    BY <1>2, TopologyKeeps, RoutesNew DEF RerouteWith, Reroute, traffic
  <1>3. ASSUME NEW places, Reconnect(places) PROVE TrafficInv' /\ net' = net
    BY <1>3, TopologyKeeps, RoutesNew DEF Reconnect, Reroute, traffic
  <1>4. ASSUME NEW places, ReconnectWifi(places) PROVE TrafficInv' /\ net' = net
    BY <1>4, TopologyKeeps, RoutesNew DEF ReconnectWifi, Reroute, traffic
  <1>5. ASSUME NEW places, ReconnectLora(places) PROVE TrafficInv' /\ net' = net
    BY <1>5, TopologyKeeps, RoutesNew DEF ReconnectLora, Reroute, traffic
  <1> QED
    BY <1>1, <1>2, <1>3, <1>4, <1>5

\* What is left to show of a step that moves packets, once its effect on the counters is known.
LEMMA CountsKeep ==
    ASSUME TrafficInv, net' = net, RoutesOverLinks', FlowOnAir', FlowAccounts',
           Queued(wire'), onAir' \in Air, gone' \in Nat, made' \in Nat, replies' \in Seq(Nat),
           stats' \in Counters,
           flow' \in Flows,
           made' = Flying(wire', onAir') + Handled(stats') + gone',
           stats'.forwarded + MayHop(wire', onAir') <= Allowed(made')
    PROVE  TrafficInv'
  <1>1. TrafficTypes' /\ HopsLeft'
    BY Totals
  <1>2. EveryPacketAccounted'
    BY <1>1, AccountsNext
  <1> QED
    BY <1>1, <1>2 DEF TrafficInv

LEMMA ReceiveKeepsTraffic ==
    ASSUME TrafficInv, Len(airLog) \in Nat, NEW i \in LinkIds, NEW u \in Node, Receive(i, u)
    PROVE  TrafficInv'
  <1> DEFINE from == <<i, OtherEnd(i, u)>>
             p == Head(wire[from])
             queues == [wire EXCEPT ![from] = Tail(@)]
             t == <<i, u>>
  <1>1. TrafficTypes /\ RoutesOverLinks /\ FlowOnAir /\ EveryPacketAccounted /\ FlowAccounts /\ HopsLeft
    BY DEF TrafficInv
  <1>2. net \in Networks /\ Queued(wire) /\ onAir \in Air /\ made \in Nat /\ gone \in Nat
        /\ stats \in Counters /\ replies \in Seq(Nat)
    BY <1>1 DEF TrafficTypes
  <1>3. /\ onAir[t] = Idle /\ wire[from] # <<>> /\ net' = net /\ flow' = flow /\ routes' = routes
        /\ Deliver(queues, t, u, p) \/ Forward(queues, t, u, p) \/ Drop(queues, u, p)
    BY DEF Receive, topo
  <1>4. t \in Tasks /\ t # Flow /\ from \in LinkIds \X Node
    <2>1. OtherEnd(i, u) \in Node
      BY <1>2, NetFacts DEF OtherEnd
    <2> QED
      BY <2>1, <1>2, NetFacts DEF Tasks
  <1> HIDE DEF from, t
  <1>5. /\ Queued(queues) /\ p \in Packet
        /\ Cardinality(InQueues(wire)) = Cardinality(InQueues(queues)) + 1
        /\ HopsIn(wire) = HopsIn(queues) + (p.ttl - 1)
    <2>1. queues = WithoutHead(wire, from)
      BY DEF WithoutHead
    <2> QED
      BY <2>1, <1>2, <1>3, <1>4, PacketTaken
  <1> HIDE DEF p, queues
  <1>6. p.ttl - 1 \in Nat /\ p.ttl \in 1 .. InitTtl /\ p.src \in Node /\ p.seq \in Nat /\ InitTtl \in 1 .. InitTtl
    BY <1>5, TtlAssumption DEF Packet
  <1>7. Flying(queues, onAir) \in Nat /\ MayHop(queues, onAir) \in Nat
    BY <1>2, <1>5, FlightCounts
  <1>8. /\ Flying(wire, onAir) = Flying(queues, onAir) + 1
        /\ MayHop(wire, onAir) = MayHop(queues, onAir) + (p.ttl - 1)
    <2>1. /\ Cardinality(InQueues(queues)) \in Nat /\ HopsIn(queues) \in Nat
          /\ Cardinality(Sending(onAir)) \in Nat /\ HopsOn(onAir) \in Nat
      BY <1>2, <1>5, FlightCounts
    <2>2. p.ttl - 1 \in Nat
      BY <1>6
    <2> QED
      BY <2>1, <2>2, <1>5 DEF Flying, MayHop
  <1>9. made = Flying(wire, onAir) + Handled(stats) + gone
    BY <1>1, Accounts
  <1>10. stats.forwarded + MayHop(wire, onAir) <= Allowed(made)
    BY <1>1 DEF HopsLeft
  <1>11. stats.forwarded \in Nat /\ stats.delivered \in Nat /\ Handled(stats) \in Nat
    BY <1>2 DEF Handled, Counters
  <1>12. Len(replies) \in Nat
    BY <1>2
  <1>13. made \in Nat /\ gone \in Nat
    BY <1>2
  <1>14. Allowed(made) \in Nat /\ InitTtl - 1 \in Nat
    <2>1. made \in Nat
      BY <1>13
    <2>2. Allowed(made) \in Nat
      BY <2>1, AllowedMore
    <2>3. InitTtl - 1 \in Nat
      BY TtlAssumption
    <2> QED
      BY <2>2, <2>3
  <1>15. p.ttl - 1 \in Nat
    BY <1>6
  <1>16. made = (Flying(queues, onAir) + 1) + Handled(stats) + gone
    BY <1>8, <1>9
  <1>17. stats.forwarded + (MayHop(queues, onAir) + (p.ttl - 1)) <= Allowed(made)
    BY <1>8, <1>10
  <1>18. Flying(queues, onAir) \in Nat
    BY <1>7
  <1>19. MayHop(queues, onAir) \in Nat
    BY <1>7
  \* What is left to show once the step's effect on the counters is known.
  <1>20. ASSUME Queued(wire'), onAir' \in Air, gone' \in Nat, made' \in Nat, replies' \in Seq(Nat),
                stats' \in Counters,
                onAir'[Flow] = onAir[Flow],
                made' = Flying(wire', onAir') + Handled(stats') + gone',
                stats'.forwarded + MayHop(wire', onAir') <= Allowed(made'),
                Len(replies') <= Len(replies) + (stats'.delivered - stats.delivered)
         PROVE  TrafficInv'
    <2>1. RoutesOverLinks'
      BY <1>3, RoutesStay
    <2>2. FlowOnAir'
      BY <1>1, <1>3, <1>20 DEF FlowOnAir, Flow
    <2>3. FlowAccounts'
      <3>1. flow.received \in Nat
        BY <1>1 DEF TrafficTypes, Flows
      <3>2. stats'.delivered \in Nat /\ stats.delivered \in Nat /\ Len(replies') \in Nat
        BY <1>2, <1>20 DEF Counters
      <3>3. flow.received + Len(replies) <= stats.delivered
        BY <1>1 DEF FlowAccounts
      <3>4. Len(replies') <= Len(replies) + (stats'.delivered - stats.delivered)
        BY <1>20
      <3>5. flow.received + Len(replies') <= stats'.delivered
        BY <3>1, <3>2, <3>3, <3>4, <1>12
      <3> QED
        BY <1>1, <1>3, <3>5 DEF FlowAccounts
    <2>4. flow' \in Flows
      BY <1>1, <1>3 DEF TrafficTypes
    <2> QED
      BY <1>3, <1>20, <2>1, <2>2, <2>3, <2>4, CountsKeep
  <1>21. CASE Deliver(queues, t, u, p)
    <2>1. stats' = [stats EXCEPT !.delivered = @ + 1]
      BY <1>21 DEF Deliver
    <2>2. stats' \in Counters
      BY <1>2, <2>1 DEF Counters
    <2>3. /\ stats'.forwarded = stats.forwarded /\ Handled(stats') = Handled(stats) + 1
          /\ stats'.delivered - stats.delivered = 1
      BY <1>2, <2>1 DEF Handled, Counters
    <2>4. CASE wire' = queues /\ UNCHANGED <<onAir, made, gone>>
      <3>0. wire' = queues /\ onAir' = onAir /\ made' = made /\ gone' = gone
        BY <2>4
      <3>1. replies' \in Seq(Nat) /\ Len(replies') <= Len(replies) + 1
        <4>1. replies' = Append(replies, p.seq) \/ replies' = replies
          BY <1>21, Zenon DEF Deliver
        <4>2. CASE replies' = Append(replies, p.seq)
          BY <4>2, <1>2, <1>6
        <4>3. CASE replies' = replies
          BY <4>3, <1>2, <1>12
        <4> QED
          BY <4>1, <4>2, <4>3
      <3>2. stats'.forwarded + MayHop(wire', onAir') <= Allowed(made')
        <4>1. stats'.forwarded = stats.forwarded
          BY <2>3
        <4> QED
          BY <4>1, <1>19, <1>17, <1>11, <1>14, <1>15, <3>0
      <3>3. made' = Flying(wire', onAir') + Handled(stats') + gone'
        BY <1>18, <1>16, <1>11, <1>13, <2>3, <3>0
      <3>4. Len(replies') <= Len(replies) + (stats'.delivered - stats.delivered)
        BY <3>1, <2>3
      <3> QED
        BY <3>0, <3>1, <3>2, <3>3, <3>4, <1>2, <1>5, <1>20, <2>2
    <2>5. ASSUME p.src \in DOMAIN routes[u], ~p.reply,
                 SendOn(queues, t, u, routes[u][p.src],
                        [src |-> u, dst |-> p.src, ttl |-> InitTtl, reply |-> TRUE, seq |-> p.seq]),
                 made' = made + 1
          PROVE  TrafficInv'
      <3> DEFINE echo == [src |-> u, dst |-> p.src, ttl |-> InitTtl, reply |-> TRUE, seq |-> p.seq]
      <3>0. made' = made + 1
        BY <2>5
      <3>1. echo \in Packet /\ echo.ttl = InitTtl
        BY <1>6 DEF Packet
      <3>2. routes[u][p.src] \in LinkIds
        BY <1>1, <2>5 DEF RoutesOverLinks
      <3>3. Sends(queues, t, u, routes[u][p.src], echo)
        BY <1>2, <1>3, <1>4, <1>5, <2>5, <3>1, <3>2 DEF Sends
      <3> HIDE DEF echo
      <3>4. /\ Queued(wire') /\ onAir' \in Air
            /\ \A s \in Tasks : s # t => onAir'[s] = onAir[s]
        BY <3>3, SentSomewhere
      <3>5. /\ gone' \in Nat
            /\ Flying(wire', onAir') + gone' = Flying(queues, onAir) + gone + 1
            /\ MayHop(wire', onAir') <= MayHop(queues, onAir) + (InitTtl - 1)
        BY <3>1, <3>3, SentSomewhere
      <3>6. Flying(wire', onAir') \in Nat /\ MayHop(wire', onAir') \in Nat
        BY <1>2, <3>4, FlightCounts
      <3>7. onAir'[Flow] = onAir[Flow]
        BY <1>2, <1>4, <3>4, NetFacts
      <3>8. replies' = replies
        BY <2>5, <1>21, Zenon DEF Deliver
      <3>9. made' = Flying(wire', onAir') + Handled(stats') + gone'
        <4>1. gone' \in Nat /\ Flying(wire', onAir') + gone' = Flying(queues, onAir) + gone + 1
          BY <3>5
        <4>2. Flying(wire', onAir') \in Nat
          BY <3>6
        <4>3. Handled(stats') = Handled(stats) + 1 /\ Handled(stats) \in Nat
          BY <2>3, <1>11
        <4>4. made' = (Flying(queues, onAir) + gone + 1) + (Handled(stats) + 1)
          BY <1>18, <1>16, <1>13, <3>0, <4>3
        <4>5. made' = (Flying(wire', onAir') + gone') + Handled(stats')
          BY <4>1, <4>3, <4>4
        <4> QED
          BY <4>1, <4>2, <4>3, <4>5
      <3>10. stats'.forwarded + MayHop(wire', onAir') <= Allowed(made')
        <4>1. Allowed(made') = Allowed(made) + (InitTtl - 1)
          BY <1>13, <3>0, AllowedMore
        <4>2. stats'.forwarded = stats.forwarded
          BY <2>3
        <4>3. MayHop(wire', onAir') <= MayHop(queues, onAir) + (InitTtl - 1)
          BY <3>5
        <4> QED
          BY <4>1, <4>2, <4>3, <1>19, <1>17, <1>11, <1>14, <1>15, <3>6
      <3>11. Len(replies') <= Len(replies) + (stats'.delivered - stats.delivered)
        BY <1>12, <2>3, <3>8
      <3>12. made' \in Nat
        BY <1>13, <3>0
      <3> QED
        BY <1>2, <1>20, <2>2, <3>4, <3>5, <3>7, <3>8, <3>9, <3>10, <3>11, <3>12
    <2>6. \/ wire' = queues /\ UNCHANGED <<onAir, made, gone>>
          \/ /\ p.src \in DOMAIN routes[u] /\ ~p.reply
             /\ SendOn(queues, t, u, routes[u][p.src],
                       [src |-> u, dst |-> p.src, ttl |-> InitTtl, reply |-> TRUE, seq |-> p.seq])
             /\ made' = made + 1
      BY <1>21, Zenon DEF Deliver
    <2> QED
      BY <2>4, <2>5, <2>6
  <1>22. CASE Forward(queues, t, u, p)
    <2> DEFINE q == [p EXCEPT !.ttl = @ - 1]
    <2>1. /\ p.ttl > 1 /\ p.dst \in DOMAIN routes[u] /\ SendOn(queues, t, u, routes[u][p.dst], q)
          /\ stats' = [stats EXCEPT !.forwarded = @ + 1] /\ replies' = replies /\ made' = made
      BY <1>22 DEF Forward
    <2>2. q \in Packet /\ q.ttl - 1 = (p.ttl - 1) - 1
      BY <1>5, <1>6, <2>1, TtlAssumption DEF Packet
    <2>3. stats' \in Counters
      BY <1>2, <2>1 DEF Counters
    <2>4. /\ stats'.forwarded = stats.forwarded + 1 /\ Handled(stats') = Handled(stats)
          /\ stats'.delivered - stats.delivered = 0
      BY <1>2, <2>1 DEF Handled, Counters
    <2>5. routes[u][p.dst] \in LinkIds
      BY <1>1, <2>1 DEF RoutesOverLinks
    <2>6. replies' = replies /\ made' = made
      BY <2>1
    <2>7. Sends(queues, t, u, routes[u][p.dst], q)
      BY <1>2, <1>3, <1>4, <1>5, <2>1, <2>2, <2>5 DEF Sends
    <2> HIDE DEF q
    <2>8. /\ Queued(wire') /\ onAir' \in Air
          /\ \A s \in Tasks : s # t => onAir'[s] = onAir[s]
      BY <2>7, SentSomewhere
    <2>9. /\ gone' \in Nat
          /\ Flying(wire', onAir') + gone' = Flying(queues, onAir) + gone + 1
          /\ MayHop(wire', onAir') <= MayHop(queues, onAir) + ((p.ttl - 1) - 1)
      BY <2>2, <2>7, SentSomewhere
    <2>10. Flying(wire', onAir') \in Nat /\ MayHop(wire', onAir') \in Nat
      BY <1>2, <2>8, FlightCounts
    <2>11. onAir'[Flow] = onAir[Flow]
      BY <1>2, <1>4, <2>8, NetFacts
    <2>12. made' = Flying(wire', onAir') + Handled(stats') + gone'
      <3>1. gone' \in Nat /\ Flying(wire', onAir') + gone' = Flying(queues, onAir) + gone + 1
        BY <2>9
      <3>2. Flying(wire', onAir') \in Nat
        BY <2>10
      <3>3. Handled(stats') = Handled(stats) /\ Handled(stats) \in Nat
        BY <2>4, <1>11
      <3>4. made' = made
        BY <2>6
      <3>5. made' = (Flying(queues, onAir) + gone + 1) + Handled(stats)
        BY <1>18, <1>16, <1>13, <3>3, <3>4
      <3>6. made' = (Flying(wire', onAir') + gone') + Handled(stats')
        BY <3>1, <3>3, <3>5
      <3> QED
        BY <3>1, <3>2, <3>3, <3>6
    <2>13. stats'.forwarded + MayHop(wire', onAir') <= Allowed(made')
      <3>1. stats'.forwarded = stats.forwarded + 1
        BY <2>4
      <3>2. MayHop(wire', onAir') <= MayHop(queues, onAir) + ((p.ttl - 1) - 1)
        BY <2>9
      <3> QED
        <4>1. stats.forwarded \in Nat /\ made' = made
          BY <1>11, <2>6
        <4>2. MayHop(wire', onAir') \in Nat
          BY <2>10
        <4> QED
          BY <3>1, <3>2, <4>1, <4>2, <1>19, <1>17, <1>14, <1>15
    <2>14. Len(replies') <= Len(replies) + (stats'.delivered - stats.delivered)
      BY <1>12, <2>4, <2>6
    <2> QED
      BY <1>2, <1>20, <2>3, <2>6, <2>8, <2>9, <2>11, <2>12, <2>13, <2>14
  <1>23. CASE Drop(queues, u, p)
    <2>1. /\ wire' = queues /\ replies' = replies /\ made' = made /\ onAir' = onAir /\ gone' = gone
          /\ \/ stats' = [stats EXCEPT !.ttl = @ + 1]
             \/ stats' = [stats EXCEPT !.noRoute = @ + 1]
      BY <1>23 DEF Drop
    <2>2. wire' = queues /\ replies' = replies /\ made' = made /\ onAir' = onAir /\ gone' = gone
      BY <2>1
    <2>3. stats' \in Counters
      BY <1>2, <2>1 DEF Counters
    <2>4. /\ stats'.forwarded = stats.forwarded /\ Handled(stats') = Handled(stats) + 1
          /\ stats'.delivered - stats.delivered = 0
      BY <1>2, <2>1 DEF Handled, Counters
    <2>5. made' = Flying(wire', onAir') + Handled(stats') + gone'
      BY <1>18, <1>16, <1>11, <1>13, <2>2, <2>4
    <2>6. stats'.forwarded + MayHop(wire', onAir') <= Allowed(made')
      <3>1. stats'.forwarded = stats.forwarded
        BY <2>4
      <3> QED
        BY <3>1, <1>19, <1>17, <1>11, <1>14, <1>15, <2>2
    <2>7. Len(replies') <= Len(replies) + (stats'.delivered - stats.delivered)
      BY <1>12, <2>2, <2>4
    <2> QED
      BY <1>2, <1>5, <1>20, <2>2, <2>3, <2>5, <2>6, <2>7
  <1> QED
    BY <1>3, <1>21, <1>22, <1>23

LEMMA AirtimeOverKeepsTraffic ==
    ASSUME TrafficInv, NEW t \in Tasks, AirtimeOver(t, t[2])
    PROVE  TrafficInv'
  <1> DEFINE p == onAir[t].pkt
             i == onAir[t].link
  <1>1. TrafficTypes /\ RoutesOverLinks /\ FlowOnAir /\ FlowAccounts
    BY DEF TrafficInv
  <1>2. net \in Networks /\ Queued(wire) /\ onAir \in Air /\ made \in Nat /\ gone \in Nat
    BY <1>1 DEF TrafficTypes
  <1>3. /\ onAir[t] # Idle /\ onAir' = WithTask(onAir, t, Idle)
        /\ net' = net /\ routes' = routes /\ replies' = replies /\ stats' = stats /\ made' = made
        /\ flow' = IF t = Flow THEN [flow EXCEPT !.st = "waiting"] ELSE flow
    BY DEF AirtimeOver, topo, WithTask
  <1>4. PutOnFace(wire, i, t[2], p) \/ (wire' = wire /\ gone' = gone + 1)
    BY Zenon DEF AirtimeOver
  <1>5. /\ onAir' \in Air /\ onAir[t] \in Busy
        /\ Cardinality(Sending(onAir)) = Cardinality(Sending(onAir')) + 1
        /\ HopsOn(onAir) = HopsOn(onAir') + (p.ttl - 1)
    BY <1>2, <1>3, SendEnds
  <1>6. p \in Packet /\ i \in LinkIds /\ t[2] \in Node
    <2>1. t[2] \in Node
      BY <1>2, NetFacts DEF Tasks, Flow
    <2> QED
      BY <1>5, <2>1 DEF Busy
  <1> HIDE DEF p, i
  <1>7. p.ttl - 1 \in Nat
    BY <1>6, TtlAssumption DEF Packet
  <1>8. /\ Cardinality(InQueues(wire)) \in Nat /\ HopsIn(wire) \in Nat
        /\ Cardinality(Sending(onAir')) \in Nat /\ HopsOn(onAir') \in Nat
    BY <1>2, <1>5, FlightCounts
  <1>9. /\ Queued(wire') /\ gone' \in Nat
        /\ Cardinality(InQueues(wire')) + gone' = Cardinality(InQueues(wire)) + gone + 1
        /\ HopsIn(wire') <= HopsIn(wire) + (p.ttl - 1)
    <2>1. CASE PutOnFace(wire, i, t[2], p)
      BY <1>2, <1>6, <2>1, PutSomewhere
    <2>2. CASE wire' = wire /\ gone' = gone + 1
      BY <1>2, <1>7, <1>8, <2>2
    <2> QED
      BY <1>4, <2>1, <2>2
  <1>10. Cardinality(InQueues(wire')) \in Nat /\ HopsIn(wire') \in Nat
    BY <1>2, <1>5, <1>9, FlightCounts
  <1>11. Flying(wire', onAir') + gone' = Flying(wire, onAir) + gone
    BY <1>2, <1>5, <1>8, <1>9, <1>10 DEF Flying
  <1>12. MayHop(wire', onAir') <= MayHop(wire, onAir)
    BY <1>5, <1>7, <1>8, <1>9, <1>10 DEF MayHop
  <1>13. made' = Flying(wire', onAir') + Handled(stats') + gone'
    <2>1. made = Flying(wire, onAir) + Handled(stats) + gone
      BY <1>1, Accounts DEF TrafficInv
    <2>2. Flying(wire, onAir) \in Nat /\ Flying(wire', onAir') \in Nat
      BY <1>2, <1>5, <1>9, FlightCounts
    <2>3. Handled(stats) \in Nat
      BY <1>1 DEF TrafficTypes, Handled, Counters
    <2>4. gone \in Nat /\ gone' \in Nat
      BY <1>2, <1>9
    <2> QED
      BY <1>3, <1>11, <2>1, <2>2, <2>3, <2>4
  <1>14. stats'.forwarded + MayHop(wire', onAir') <= Allowed(made')
    <2>1. stats.forwarded + MayHop(wire, onAir) <= Allowed(made)
      BY DEF TrafficInv, HopsLeft
    <2>2. MayHop(wire, onAir) \in Nat /\ MayHop(wire', onAir') \in Nat
      BY <1>2, <1>5, <1>9, FlightCounts
    <2>3. stats.forwarded \in Nat
      BY <1>1 DEF TrafficTypes, Counters
    <2>4. Allowed(made) \in Nat
      BY <1>2, AllowedMore
    <2> QED
      BY <1>3, <1>12, <2>1, <2>2, <2>3, <2>4
  <1>15. FlowOnAir' /\ FlowAccounts'
         /\ flow' \in Flows
    <2>1. CASE t = Flow
      <3>1. flow.st = "sending"
        BY <1>1, <1>3, <2>1 DEF FlowOnAir
      <3>2. flow' = [flow EXCEPT !.st = "waiting"]
        BY <1>3, <2>1
      <3>3. flow \in Flows
        BY <1>1 DEF TrafficTypes
      <3>4. /\ flow'.st = "waiting" /\ flow'.sent = flow.sent /\ flow'.received = flow.received
            /\ flow'.lost = flow.lost
        BY <3>2, <3>3 DEF Flows
      <3>5. onAir'[Flow] = Idle
        BY <1>2, <1>3, <2>1 DEF Air, WithTask
      <3>6. FlowOnAir'
        BY <3>4, <3>5 DEF FlowOnAir, Flow
      <3>7. FlowAccounts'
        BY <1>1, <1>3, <3>1, <3>4 DEF FlowAccounts
      <3> QED
        BY <3>2, <3>3, <3>6, <3>7 DEF Flows
    <2>2. CASE t # Flow
      <3>1. flow' = flow /\ onAir'[Flow] = onAir[Flow]
        BY <1>2, <1>3, <2>2, NetFacts DEF Air, WithTask
      <3> QED
        BY <1>1, <1>3, <3>1 DEF FlowOnAir, FlowAccounts, Flow, TrafficTypes
    <2> QED
      BY <2>1, <2>2
  <1>16. RoutesOverLinks'
    BY <1>3, RoutesStay
  <1>17. /\ stats' \in Counters
         /\ replies' \in Seq(Nat) /\ made' \in Nat
    BY <1>1, <1>3 DEF TrafficTypes
  <1> QED
    BY <1>3, <1>5, <1>9, <1>13, <1>14, <1>15, <1>16, <1>17, CountsKeep

LEMMA PingKeepsTraffic ==
    ASSUME TrafficInv, Len(airLog) \in Nat, Ping
    PROVE  TrafficInv'
  <1>1. TrafficTypes /\ RoutesOverLinks /\ FlowOnAir /\ FlowAccounts
    BY DEF TrafficInv
  <1>2. net \in Networks /\ Queued(wire) /\ onAir \in Air /\ made \in Nat /\ gone \in Nat
        /\ flow \in Flows
    BY <1>1 DEF TrafficTypes
  <1>3. /\ flow.st = "idle" /\ net' = net /\ routes' = routes /\ replies' = replies /\ stats' = stats
        /\ flow' = [flow EXCEPT !.sent = @ + 1, !.st = IF onAir' = onAir THEN "waiting" ELSE "sending"]
    BY DEF Ping, topo
  <1>4. Flow \in Tasks /\ onAir[Flow] = Idle /\ 0 \in Node
    BY <1>1, <1>2, <1>3, NetFacts DEF FlowOnAir
  <1>5. made = Flying(wire, onAir) + Handled(stats) + gone
    BY <1>1, Accounts DEF TrafficInv
  <1>6. stats.forwarded + MayHop(wire, onAir) <= Allowed(made)
    BY DEF TrafficInv, HopsLeft
  <1>7. Flying(wire, onAir) \in Nat /\ MayHop(wire, onAir) \in Nat
    BY <1>2, FlightCounts
  <1>8. /\ Queued(wire') /\ onAir' \in Air /\ gone' \in Nat /\ made' \in Nat
        /\ onAir' = onAir <=> onAir'[Flow] = Idle
        /\ made' = Flying(wire', onAir') + Handled(stats') + gone'
        /\ stats'.forwarded + MayHop(wire', onAir') <= Allowed(made')
    <2>1. CASE UNCHANGED <<wire, onAir, medium, gone, made>>
      <3>1. wire' = wire /\ onAir' = onAir /\ gone' = gone /\ made' = made
        BY <2>1
      <3> QED
        BY <1>2, <1>3, <1>4, <1>5, <1>6, <3>1
    <2>2. CASE /\ net.n - 1 \in DOMAIN routes[0]
               /\ SendOn(wire, Flow, 0, routes[0][net.n - 1], Request) /\ made' = made + 1
      <3>1. Request \in Packet /\ Request.ttl = InitTtl
        <4>1. 0 \in Node /\ net.n - 1 \in Node /\ InitTtl \in 1 .. InitTtl /\ flow.seq \in Nat
          BY <1>2, NetFacts, TtlAssumption DEF Flows
        <4> QED
          BY <4>1 DEF Request, Packet
      <3>2. routes[0][net.n - 1] \in LinkIds
        BY <1>1, <1>4, <2>2 DEF RoutesOverLinks
      <3>3. Sends(wire, Flow, 0, routes[0][net.n - 1], Request)
        BY <1>2, <1>4, <2>2, <3>1, <3>2 DEF Sends
      <3>4. /\ Queued(wire') /\ onAir' \in Air
            /\ onAir' = onAir <=> onAir'[Flow] = Idle
        BY <3>3, SentSomewhere
      <3>5. gone' \in Nat /\ Flying(wire', onAir') + gone' = Flying(wire, onAir) + gone + 1
        BY <3>3, SentSomewhere
      <3>6. MayHop(wire', onAir') <= MayHop(wire, onAir) + (InitTtl - 1)
        BY <3>1, <3>3, SentSomewhere
      <3>7. Flying(wire', onAir') \in Nat /\ MayHop(wire', onAir') \in Nat
        BY <1>2, <3>4, FlightCounts
      <3>8. made \in Nat /\ gone \in Nat /\ made' = made + 1
        BY <1>2, <2>2
      <3>9. Handled(stats) \in Nat /\ Handled(stats') = Handled(stats)
        BY <1>1, <1>3 DEF TrafficTypes, Handled, Counters
      <3>10. made' = Flying(wire', onAir') + Handled(stats') + gone'
        <4>1. Flying(wire, onAir) \in Nat /\ Flying(wire', onAir') \in Nat
          BY <1>7, <3>7
        <4>2. made' = (Flying(wire, onAir) + gone + 1) + Handled(stats)
          BY <1>5, <3>8, <3>9, <4>1
        <4>3. made' = (Flying(wire', onAir') + gone') + Handled(stats')
          BY <3>5, <3>9, <4>2
        <4> QED
          BY <3>5, <3>9, <4>1, <4>3
      <3>11. stats'.forwarded + MayHop(wire', onAir') <= Allowed(made')
        <4>1. Allowed(made') = Allowed(made) + (InitTtl - 1) /\ Allowed(made) \in Nat
          BY <3>8, AllowedMore
        <4>2. stats.forwarded \in Nat /\ stats'.forwarded = stats.forwarded
          BY <1>1, <1>3 DEF TrafficTypes, Counters
        <4>3. InitTtl - 1 \in Nat
          BY TtlAssumption
        <4>4. MayHop(wire, onAir) \in Nat /\ MayHop(wire', onAir') \in Nat
          BY <1>7, <3>7
        <4> QED
          BY <1>6, <3>6, <4>1, <4>2, <4>3, <4>4
      <3>12. made' \in Nat
        BY <3>8
      <3> QED
        BY <3>4, <3>5, <3>10, <3>11, <3>12
    <2> QED
      BY <2>1, <2>2, Zenon DEF Ping
  <1>9. /\ flow'.st = IF onAir' = onAir THEN "waiting" ELSE "sending"
        /\ flow'.sent = flow.sent + 1 /\ flow'.received = flow.received /\ flow'.lost = flow.lost
        /\ flow' \in Flows
    <2> DEFINE s == IF onAir' = onAir THEN "waiting" ELSE "sending"
    <2>1. s \in {"waiting", "sending"} /\ flow' = [flow EXCEPT !.sent = @ + 1, !.st = s]
      BY <1>3
    <2> HIDE DEF s
    <2>2. flow'.st = s /\ flow'.sent = flow.sent + 1 /\ flow'.received = flow.received /\ flow'.lost = flow.lost
      BY <1>2, <2>1 DEF Flows
    <2>3. flow' \in Flows
      <3>1. flow \in Flows
        BY <1>2
      <3>2. flow' = [st |-> s, seq |-> flow.seq, sent |-> flow.sent + 1, received |-> flow.received,
                     lost |-> flow.lost]
        BY <2>1, <3>1 DEF Flows
      <3>3. flow.seq \in Nat /\ flow.sent + 1 \in Nat /\ flow.received \in Nat /\ flow.lost \in Nat
        BY <3>1 DEF Flows
      <3> QED
        BY <2>1, <3>2, <3>3 DEF Flows
    <2> QED
      BY <2>2, <2>3 DEF s
  <1>10. FlowOnAir'
    BY <1>8, <1>9 DEF FlowOnAir, Flow
  <1>11. FlowAccounts'
    <2>1. flow.sent \in Nat /\ flow.received \in Nat /\ flow.lost \in Nat
      BY <1>2 DEF Flows
    <2>2. flow.sent = flow.received + flow.lost /\ flow.received + Len(replies) <= stats.delivered
      BY <1>1, <1>3, <2>1 DEF FlowAccounts
    <2>3. flow'.sent = flow'.received + flow'.lost + 1 /\ flow'.st # "idle"
      BY <1>9, <2>1, <2>2
    <2> QED
      BY <1>3, <1>9, <2>2, <2>3 DEF FlowAccounts
  <1>12. RoutesOverLinks'
    BY <1>3, RoutesStay
  <1>13. /\ stats' \in Counters /\ replies' \in Seq(Nat)
    BY <1>1, <1>3 DEF TrafficTypes
  <1> QED
    BY <1>3, <1>8, <1>9, <1>10, <1>11, <1>12, <1>13, CountsKeep

\* A step that touches the flow and its replies only.
LEMMA FlowSteps ==
    ASSUME TrafficInv, UNCHANGED <<net, routes, wire, onAir, stats, made, gone>>,
           flow' \in Flows,
           replies' \in Seq(Nat), FlowOnAir', FlowAccounts'
    PROVE  TrafficInv'
  <1>1. /\ net' = net /\ wire' = wire /\ onAir' = onAir /\ stats' = stats /\ made' = made /\ gone' = gone
        /\ UNCHANGED <<net, routes>>
    OBVIOUS
  <1>2. TrafficTypes /\ EveryPacketAccounted /\ HopsLeft
    BY DEF TrafficInv
  <1>3. made' = Flying(wire', onAir') + Handled(stats') + gone'
    BY <1>1, <1>2, Accounts
  <1>4. stats'.forwarded + MayHop(wire', onAir') <= Allowed(made')
    BY <1>1, <1>2 DEF HopsLeft
  <1>5. RoutesOverLinks'
    BY <1>1, RoutesStay
  <1>6. /\ Queued(wire') /\ onAir' \in Air /\ gone' \in Nat /\ made' \in Nat
        /\ stats' \in Counters
    BY <1>1, <1>2 DEF TrafficTypes
  <1> QED
    BY <1>1, <1>3, <1>4, <1>5, <1>6, CountsKeep

LEMMA WaitEnds ==
    ASSUME flow \in Flows
    PROVE  /\ flow' = [flow EXCEPT !.st = "idle", !.seq = @ + 1, !.received = @ + 1] =>
                /\ flow' \in Flows /\ flow'.st = "idle" /\ flow'.sent = flow.sent
                /\ flow'.received = flow.received + 1 /\ flow'.lost = flow.lost
           /\ flow' = [flow EXCEPT !.st = "idle", !.seq = @ + 1, !.lost = @ + 1] =>
                /\ flow' \in Flows /\ flow'.st = "idle" /\ flow'.sent = flow.sent
                /\ flow'.received = flow.received /\ flow'.lost = flow.lost + 1
  <1>1. ASSUME flow' = [flow EXCEPT !.st = "idle", !.seq = @ + 1, !.received = @ + 1]
        PROVE  /\ flow' \in Flows /\ flow'.st = "idle" /\ flow'.sent = flow.sent
               /\ flow'.received = flow.received + 1 /\ flow'.lost = flow.lost
    <2>1. flow' = [st |-> "idle", seq |-> flow.seq + 1, sent |-> flow.sent,
                   received |-> flow.received + 1, lost |-> flow.lost]
      BY <1>1 DEF Flows
    <2>2. flow.seq + 1 \in Nat /\ flow.sent \in Nat /\ flow.received + 1 \in Nat /\ flow.lost \in Nat
      BY DEF Flows
    <2> QED
      BY <2>1, <2>2 DEF Flows
  <1>2. ASSUME flow' = [flow EXCEPT !.st = "idle", !.seq = @ + 1, !.lost = @ + 1]
        PROVE  /\ flow' \in Flows /\ flow'.st = "idle" /\ flow'.sent = flow.sent
               /\ flow'.received = flow.received /\ flow'.lost = flow.lost + 1
    <2>1. flow' = [st |-> "idle", seq |-> flow.seq + 1, sent |-> flow.sent,
                   received |-> flow.received, lost |-> flow.lost + 1]
      BY <1>2 DEF Flows
    <2>2. flow.seq + 1 \in Nat /\ flow.sent \in Nat /\ flow.received \in Nat /\ flow.lost + 1 \in Nat
      BY DEF Flows
    <2> QED
      BY <2>1, <2>2 DEF Flows
  <1> QED
    BY <1>1, <1>2

LEMMA WaitsEndKeepTraffic ==
    ASSUME TrafficInv, GotReply \/ LifetimeOver
    PROVE  TrafficInv'
  <1>1. TrafficTypes /\ FlowOnAir /\ FlowAccounts
    BY DEF TrafficInv
  <1>2. /\ flow \in Flows
        /\ replies \in Seq(Nat) /\ stats.delivered \in Nat
    BY <1>1 DEF TrafficTypes, Counters
  <1>3. UNCHANGED <<net, routes, wire, onAir, stats, made, gone>> /\ flow.st = "waiting"
    BY DEF GotReply, LifetimeOver, topo
  <1>4. \/ /\ flow' = [flow EXCEPT !.st = "idle", !.seq = @ + 1, !.received = @ + 1]
           /\ replies # <<>> /\ replies' = Tail(replies)
        \/ /\ flow' = [flow EXCEPT !.st = "idle", !.seq = @ + 1, !.lost = @ + 1]
           /\ replies' = replies \/ (replies # <<>> /\ replies' = Tail(replies))
    BY DEF GotReply, LifetimeOver
  <1>5. /\ replies' \in Seq(Nat) /\ Len(replies') \in Nat /\ Len(replies) \in Nat /\ Len(replies') <= Len(replies)
        /\ replies' # replies => Len(replies') = Len(replies) - 1
    <2>1. replies \in Seq(Nat)
      BY <1>2
    <2>2. CASE replies' = replies
      BY <2>1, <2>2
    <2>3. CASE replies # <<>> /\ replies' = Tail(replies)
      <3>1. Len(replies) \in Nat /\ Len(replies') = Len(replies) - 1 /\ replies' \in Seq(Nat)
        BY <2>1, <2>3
      <3>2. Len(replies') \in Nat
        BY <3>1
      <3> QED
        BY <3>1, <3>2
    <2> QED
      BY <1>4, <2>2, <2>3
  <1>6. flow \in Flows
    BY <1>2
  <1>7. flow.sent \in Nat /\ flow.received \in Nat /\ flow.lost \in Nat
    BY <1>2 DEF Flows
  <1>8. /\ flow' \in Flows /\ flow'.st = "idle" /\ flow'.sent = flow.sent
        /\ flow'.received + flow'.lost = flow.received + flow.lost + 1
        /\ flow'.received + Len(replies') <= flow.received + Len(replies)
    <2>1. CASE /\ flow' = [flow EXCEPT !.st = "idle", !.seq = @ + 1, !.received = @ + 1]
               /\ replies # <<>> /\ replies' = Tail(replies)
      <3>1. Len(replies') = Len(replies) - 1
        BY <1>2, <2>1
      <3>2. /\ flow' \in Flows /\ flow'.st = "idle" /\ flow'.sent = flow.sent
            /\ flow'.received = flow.received + 1 /\ flow'.lost = flow.lost
        BY <1>6, <2>1, WaitEnds
      <3> QED
        BY <1>5, <1>7, <3>1, <3>2
    <2>2. CASE flow' = [flow EXCEPT !.st = "idle", !.seq = @ + 1, !.lost = @ + 1]
      <3>1. /\ flow' \in Flows /\ flow'.st = "idle" /\ flow'.sent = flow.sent
            /\ flow'.received = flow.received /\ flow'.lost = flow.lost + 1
        BY <1>6, <2>2, WaitEnds
      <3>2. Len(replies') <= Len(replies) /\ Len(replies') \in Nat /\ Len(replies) \in Nat
        BY <1>5
      <3> QED
        BY <1>7, <3>1, <3>2
    <2> QED
      BY <1>4, <2>1, <2>2
  <1>9. FlowOnAir'
    BY <1>1, <1>3, <1>8 DEF FlowOnAir, Flow
  <1>10. FlowAccounts'
    <2>1. flow.sent = flow.received + flow.lost + 1
      BY <1>1, <1>3 DEF FlowAccounts
    <2>2. flow.received + Len(replies) <= stats.delivered
      BY <1>1 DEF FlowAccounts
    <2>3. flow'.sent = flow'.received + flow'.lost + 0
      BY <1>7, <1>8, <2>1
    <2>4. flow'.received + Len(replies') <= stats.delivered
      <3>1. stats.delivered \in Nat /\ flow'.received \in Nat /\ Len(replies) \in Nat /\ Len(replies') \in Nat
        BY <1>2, <1>5, <1>8 DEF Flows
      <3> QED
        BY <1>7, <1>8, <2>2, <3>1
    <2> QED
      BY <1>3, <1>8, <2>3, <2>4 DEF FlowAccounts
  <1> QED
    <2>1. flow' \in Flows
      BY <1>8
    <2>2. replies' \in Seq(Nat)
      BY <1>5
    <2>3. UNCHANGED <<net, routes, wire, onAir, stats, made, gone>>
      BY <1>3
    <2> QED
      BY <2>1, <2>2, <2>3, <1>9, <1>10, FlowSteps, Zenon

LEMMA TrafficNext ==
    ASSUME TrafficInv, Len(airLog) \in Nat, IpNext
    PROVE  TrafficInv'
  <1>1. ASSUME NEW i \in LinkIds, NEW u \in Node, Receive(i, u) PROVE TrafficInv'
    BY <1>1, ReceiveKeepsTraffic
  <1>2. ASSUME NEW t \in Tasks, AirtimeOver(t, t[2]) PROVE TrafficInv'
    BY <1>2, AirtimeOverKeepsTraffic
  <1>3. ASSUME Ping PROVE TrafficInv'
    BY <1>3, PingKeepsTraffic
  <1>4. ASSUME Tick PROVE TrafficInv'
    <2>1. UNCHANGED traffic /\ UNCHANGED <<net, routes>>
      BY <1>4 DEF Tick, traffic, topo
    <2> QED
      BY <2>1, RoutesStay, TopologyKeeps
  <1> QED
    BY <1>1, <1>2, <1>3, <1>4, MovesKeepTraffic, WaitsEndKeepTraffic, Zenon DEF IpNext

-----------------------------------------------------------------------------
(* The LoRa medium: what it remembers is enough to decide and regulate.    *)

Positions == Places \cup {k.pos : k \in Networks}
Transmission ==
    [node : Node, start : Nat, rx : Node, verdict : {"air", "clear", "lost"}, pos : Positions]

\* A frame that is loud enough at the receiver of frame f, while f is on the air, to destroy it.
Drowns(g, f) ==
    /\ g.node # f.node
    /\ g.start < f.start + Airtime /\ f.start < g.start + Airtime
    /\ Gap2(f.pos[g.node], f.pos[f.rx]) <= RadioRange2
    /\ ~Captures(f.node, g.node, f.rx, f.pos)

VerdictRight(log, i) ==
    log[i].verdict # "air" => (log[i].verdict = "clear" <=> \A j \in DOMAIN log : ~Drowns(log[j], log[i]))

WindowOf(log, i) ==
    [id |-> i, node |-> log[i].node, start |-> log[i].start, stop |-> log[i].start + Airtime]

AirTypes ==
    /\ net \in Networks /\ now \in Nat /\ mpos \in Positions
    /\ airLog \in Seq(Transmission) /\ nextAllowed \in [Node -> Nat]
TasksOnAir == \A t \in Tasks : onAir[t] # Idle => onAir[t].id \in DOMAIN airLog
WindowsTrue == \A w \in windows : \E i \in DOMAIN airLog : w = WindowOf(airLog, i)
\* Pruning keeps every window that may overlap a frame on the air now or later.
WindowsKept ==
    \A i \in DOMAIN airLog : airLog[i].start + Airtime + Airtime >= now => WindowOf(airLog, i) \in windows
FramesPast ==
    \A i \in DOMAIN airLog :
        /\ airLog[i].start <= now
        /\ airLog[i].verdict # "air" => airLog[i].start + Airtime <= now
Regulated ==
    dutyEnforced =>
        \A i \in DOMAIN airLog : nextAllowed[airLog[i].node] >= airLog[i].start + Airtime + OffTime
VerdictsRight == \A i \in DOMAIN airLog : VerdictRight(airLog, i)

AirInv ==
    /\ AirTypes /\ TasksOnAir /\ WindowsTrue /\ WindowsKept /\ FramesPast /\ Regulated
    /\ VerdictsRight /\ DutyHolds

LEMMA VerdictsAreSound == VerdictsRight => VerdictsSound
  <1> SUFFICES ASSUME VerdictsRight PROVE VerdictsSound
    OBVIOUS
  <1> DEFINE all == {[node |-> airLog[i].node, start |-> airLog[i].start, stop |-> airLog[i].start + Airtime] :
                     i \in DOMAIN airLog}
             heard(f) == Interferers(all, f.node, f.start, f.rx, f.pos)
  <1>1. ASSUME NEW i \in DOMAIN airLog, airLog[i].verdict # "air"
        PROVE  airLog[i].verdict = "clear" <=>
                 \A w \in heard(airLog[i]) : Captures(airLog[i].node, w.node, airLog[i].rx, airLog[i].pos)
    <2> DEFINE f == airLog[i]
    <2>1. f.verdict = "clear" <=> \A j \in DOMAIN airLog : ~Drowns(airLog[j], f)
      BY <1>1, Zenon DEF VerdictsRight, VerdictRight
    <2>2. ASSUME NEW j \in DOMAIN airLog, Drowns(airLog[j], f)
          PROVE  \E w \in heard(f) : ~Captures(f.node, w.node, f.rx, f.pos)
      <3> DEFINE w == [node |-> airLog[j].node, start |-> airLog[j].start, stop |-> airLog[j].start + Airtime]
      <3>1. w \in all /\ w.node = airLog[j].node /\ w.start = airLog[j].start /\ w.stop = airLog[j].start + Airtime
        OBVIOUS
      <3> HIDE DEF w, all, f
      <3>2. w \in heard(f) /\ ~Captures(f.node, w.node, f.rx, f.pos)
        BY <2>2, <3>1, Zenon DEF Drowns, Interferers
      <3> QED
        BY <3>2
    <2>3. ASSUME NEW w \in heard(f), ~Captures(f.node, w.node, f.rx, f.pos)
          PROVE  \E j \in DOMAIN airLog : Drowns(airLog[j], f)
      <3>1. w \in all
        BY DEF Interferers
      <3>2. PICK j \in DOMAIN airLog :
               w = [node |-> airLog[j].node, start |-> airLog[j].start, stop |-> airLog[j].start + Airtime]
        BY <3>1
      <3>3. w.node = airLog[j].node /\ w.start = airLog[j].start /\ w.stop = airLog[j].start + Airtime
        BY <3>2
      <3> HIDE DEF all, f
      <3>4. Drowns(airLog[j], f)
        BY <2>3, <3>3, Zenon DEF Drowns, Interferers
      <3> QED
        BY <3>4
    <2> HIDE DEF heard, f
    <2>4. f.verdict = "clear" <=> \A w \in heard(f) : Captures(f.node, w.node, f.rx, f.pos)
      BY <2>1, <2>2, <2>3, Zenon
    <2> QED
      BY <2>4 DEF f
  <1> QED
    BY <1>1, Zenon DEF VerdictsSound

LEMMA AirInit == IpInit => AirInv
  <1> SUFFICES ASSUME IpInit PROVE AirInv
    OBVIOUS
  <1>1. /\ net \in Networks /\ now = 0 /\ windows = {} /\ airLog = <<>> /\ mpos = net.pos
        /\ nextAllowed = [u \in Node |-> 0] /\ onAir = [t \in Tasks |-> Idle]
    BY DEF IpInit, MediumInit, NoTraffic
  <1>2. AirTypes
    BY <1>1 DEF AirTypes, Positions
  <1>3. DOMAIN airLog = {} /\ \A t \in Tasks : onAir[t] = Idle
    BY <1>1
  <1> QED
    BY <1>1, <1>2, <1>3 DEF AirInv, TasksOnAir, WindowsTrue, WindowsKept, FramesPast, Regulated,
                            VerdictsRight, DutyHolds

\* A frame takes the air.
LEMMA RegisterKeepsAir ==
    ASSUME AirInv, net' = net, now' = now, NEW u \in Node, NEW rx \in Node, ~DutyGated(u, now),
           Register(u, rx, now), TasksOnAir'
    PROVE  AirInv'
  <1> DEFINE n == Len(airLog) + 1
             f == [node |-> u, start |-> now, rx |-> rx, verdict |-> "air", pos |-> mpos]
  <1>1. /\ now \in Nat /\ mpos \in Positions /\ airLog \in Seq(Transmission) /\ nextAllowed \in [Node -> Nat]
        /\ net \in Networks /\ Airtime \in Nat \ {0} /\ OffTime \in Nat
    BY LoraAssumption DEF AirInv, AirTypes
  <1>2. /\ airLog' = Append(airLog, f) /\ dutyEnforced' = dutyEnforced /\ mpos' = mpos
        /\ windows' = Pruned(now) \cup {[id |-> n, node |-> u, start |-> now, stop |-> now + Airtime]}
        /\ nextAllowed' = IF dutyEnforced
                          THEN [nextAllowed EXCEPT ![u] = now + Airtime + OffTime] ELSE nextAllowed
    BY DEF Register
  <1>3. f \in Transmission /\ f.node = u /\ f.start = now /\ f.verdict = "air"
    BY <1>1 DEF Transmission
  <1> HIDE DEF f
  <1>4. /\ n \in Nat /\ n \notin DOMAIN airLog /\ DOMAIN airLog' = DOMAIN airLog \cup {n}
        /\ airLog'[n] = f /\ (\A i \in DOMAIN airLog : airLog'[i] = airLog[i] /\ i \in Nat /\ i < n)
        /\ airLog' \in Seq(Transmission)
    BY <1>1, <1>2, <1>3
  <1> HIDE DEF n
  <1>5. \A i \in DOMAIN airLog : airLog[i].start \in Nat /\ airLog[i].node \in Node
    <2>1. \A i \in DOMAIN airLog : airLog[i] \in Transmission
      BY <1>1
    <2> QED
      BY <2>1 DEF Transmission
  <1>6. \A i \in DOMAIN airLog : WindowOf(airLog', i) = WindowOf(airLog, i)
    BY <1>4 DEF WindowOf
  <1>7. WindowOf(airLog', n) \in windows'
    BY <1>2, <1>3, <1>4 DEF WindowOf
  <1>8. AirTypes'
    <2>1. nextAllowed' \in [Node -> Nat]
      BY <1>1, <1>2
    <2>2. Node' = Node /\ Transmission' = Transmission
      BY DEF Node, Transmission
    <2> QED
      BY <1>1, <1>2, <1>4, <2>1, <2>2 DEF AirTypes
  <1>9. WindowsTrue'
    <2> SUFFICES ASSUME NEW w \in windows' PROVE \E i \in DOMAIN airLog' : w = WindowOf(airLog', i)
      BY DEF WindowsTrue, WindowOf
    <2>1. CASE w \in windows
      <3>1. PICK i \in DOMAIN airLog : w = WindowOf(airLog, i)
        BY <2>1 DEF AirInv, WindowsTrue
      <3> QED
        BY <3>1, <1>4, <1>6
    <2>2. CASE w = [id |-> n, node |-> u, start |-> now, stop |-> now + Airtime]
      <3>1. w = WindowOf(airLog', n)
        BY <2>2, <1>3, <1>4 DEF WindowOf
      <3> QED
        BY <3>1, <1>4
    <2> QED
      BY <1>2, <2>1, <2>2 DEF Pruned
  <1>10. WindowsKept'
    <2> SUFFICES ASSUME NEW i \in DOMAIN airLog', airLog'[i].start + Airtime + Airtime >= now
                 PROVE  WindowOf(airLog', i) \in windows'
      BY DEF WindowsKept, WindowOf
    <2>1. CASE i = n
      BY <2>1, <1>7
    <2>2. CASE i \in DOMAIN airLog
      <3>1. airLog[i].start + Airtime + Airtime >= now
        BY <2>2, <1>4
      <3>2. WindowOf(airLog, i) \in windows
        BY <2>2, <3>1 DEF AirInv, WindowsKept
      <3>3. WindowOf(airLog, i).stop = airLog[i].start + Airtime
        BY DEF WindowOf
      <3>4. WindowOf(airLog, i).stop >= now - Airtime
        BY <2>2, <3>1, <3>3, <1>1, <1>5
      <3>5. WindowOf(airLog, i) \in Pruned(now)
        BY <3>2, <3>4 DEF Pruned
      <3> QED
        BY <2>2, <3>5, <1>2, <1>6
    <2> QED
      BY <1>4, <2>1, <2>2
  <1>11. FramesPast'
    BY <1>1, <1>3, <1>4 DEF AirInv, FramesPast
  <1>12. Regulated'
    <2> SUFFICES ASSUME dutyEnforced, NEW i \in DOMAIN airLog'
                 PROVE  nextAllowed'[airLog'[i].node] >= airLog'[i].start + Airtime + OffTime
      BY <1>2 DEF Regulated
    <2>1. /\ nextAllowed'[u] = now + Airtime + OffTime
          /\ \A v \in Node : v # u => nextAllowed'[v] = nextAllowed[v]
      BY <1>1, <1>2
    <2>2. CASE i = n
      BY <2>1, <2>2, <1>1, <1>3, <1>4
    <2>3. CASE i \in DOMAIN airLog
      <3>1. /\ airLog'[i] = airLog[i] /\ airLog[i].start \in Nat /\ airLog[i].node \in Node
            /\ airLog[i].start <= now
            /\ nextAllowed[airLog[i].node] >= airLog[i].start + Airtime + OffTime
        BY <2>3, <1>4, <1>5 DEF AirInv, FramesPast, Regulated
      <3>2. CASE airLog[i].node = u
        BY <2>1, <3>1, <3>2, <1>1
      <3>3. CASE airLog[i].node # u
        BY <2>1, <3>1, <3>3
      <3> QED
        BY <3>2, <3>3
    <2> QED
      BY <1>4, <2>2, <2>3
  <1>13. VerdictsRight'
    <2> SUFFICES ASSUME NEW i \in DOMAIN airLog' PROVE VerdictRight(airLog', i)
      BY DEF VerdictsRight, VerdictRight, Drowns, Captures, Gap2, AtLeast1
    <2>1. CASE i = n
      BY <2>1, <1>3, <1>4 DEF VerdictRight
    <2>2. CASE i \in DOMAIN airLog
      <3>1. airLog'[i] = airLog[i] /\ VerdictRight(airLog, i)
        BY <2>2, <1>4 DEF AirInv, VerdictsRight
      <3>2. ASSUME airLog[i].verdict # "air" PROVE ~Drowns(airLog'[n], airLog[i])
        <4>1. airLog[i].start + Airtime <= now /\ airLog[i].start \in Nat
          BY <2>2, <3>2, <1>5 DEF AirInv, FramesPast
        <4> QED
          BY <4>1, <1>1, <1>3, <1>4 DEF Drowns
      <3>3. \A j \in DOMAIN airLog : airLog'[j] = airLog[j]
        BY <1>4
      <3> QED
        BY <3>1, <3>2, <3>3, <1>4, Zenon DEF VerdictRight
    <2> QED
      BY <1>4, <2>1, <2>2
  <1>14. DutyHolds'
    <2> SUFFICES ASSUME dutyEnforced, NEW i \in DOMAIN airLog', NEW j \in DOMAIN airLog', i < j,
                        airLog'[i].node = airLog'[j].node
                 PROVE  airLog'[j].start >= airLog'[i].start + Airtime + OffTime
      BY <1>2 DEF DutyHolds
    <2>1. i \in DOMAIN airLog
      BY <1>4
    <2>2. CASE j = n
      <3>1. airLog[i].node = u /\ airLog'[j].start = now /\ airLog'[i] = airLog[i]
        BY <2>1, <2>2, <1>3, <1>4
      <3>2. nextAllowed[u] >= airLog[i].start + Airtime + OffTime
        BY <2>1, <3>1 DEF AirInv, Regulated
      <3>3. ~(now < nextAllowed[u])
        BY DEF DutyGated
      <3>4. nextAllowed[u] \in Nat /\ airLog[i].start \in Nat
        BY <2>1, <1>1, <1>5
      <3> QED
        BY <3>1, <3>2, <3>3, <3>4, <1>1
    <2>3. CASE j \in DOMAIN airLog
      BY <2>1, <2>3, <1>4 DEF AirInv, DutyHolds
    <2> QED
      BY <1>4, <2>2, <2>3
  <1> QED
    BY <1>8, <1>9, <1>10, <1>11, <1>12, <1>13, <1>14 DEF AirInv

\* The end of a frame's airtime: the windows kept tell what every frame did to it.
LEMMA VerdictKeepsAir ==
    ASSUME AirInv, net' = net, now' = now, NEW n \in DOMAIN airLog, now = airLog[n].start + Airtime,
           Verdict(n), TasksOnAir'
    PROVE  AirInv'
  <1> DEFINE v == IF Survives(n) THEN "clear" ELSE "lost"
             g == airLog[n]
             f == airLog'[n]
  <1>1. /\ now \in Nat /\ mpos \in Positions /\ airLog \in Seq(Transmission) /\ nextAllowed \in [Node -> Nat]
        /\ net \in Networks /\ Airtime \in Nat \ {0}
    BY LoraAssumption DEF AirInv, AirTypes
  <1>2. /\ airLog' = [airLog EXCEPT ![n].verdict = v, ![n].pos = mpos]
        /\ dutyEnforced' = dutyEnforced /\ mpos' = mpos /\ windows' = windows /\ nextAllowed' = nextAllowed
    BY DEF Verdict
  <1>3. now' = now
    OBVIOUS
  <1>4. now = airLog[n].start + Airtime
    OBVIOUS
  <1>5. v \in {"clear", "lost"} /\ (v = "clear" <=> Survives(n))
    OBVIOUS
  <1> HIDE DEF v
  <1>6. \A i \in DOMAIN airLog : airLog[i] \in Transmission
    BY <1>1
  <1>7. \A i \in DOMAIN airLog : airLog[i].start \in Nat /\ airLog[i].node \in Node
    BY <1>6 DEF Transmission
  <1>8. /\ DOMAIN airLog' = DOMAIN airLog /\ (\A i \in DOMAIN airLog : i # n => airLog'[i] = airLog[i])
        /\ f.node = g.node /\ f.start = g.start /\ f.rx = g.rx /\ f.verdict = v /\ f.pos = mpos
        /\ f \in Transmission
    BY <1>1, <1>2, <1>5, <1>6 DEF Transmission
  <1>9. airLog' \in Seq(Transmission)
    <2>1. airLog \in Seq(Transmission) /\ DOMAIN airLog = 1 .. Len(airLog) /\ Len(airLog) \in Nat
      BY <1>1
    <2>2. \A i \in DOMAIN airLog : airLog'[i] \in Transmission
      BY <1>6, <1>8
    <2>3. airLog' = [i \in 1 .. Len(airLog) |-> airLog'[i]]
      BY <1>2, <2>1
    <2> HIDE DEF f, g
    <2>4. airLog' \in [1 .. Len(airLog) -> Transmission]
      BY <2>1, <2>2, <2>3
    <2> QED
      BY <2>1, <2>4, SeqDef
  <1> HIDE DEF f, g
  <1>10. \A i \in DOMAIN airLog : airLog'[i].node = airLog[i].node /\ airLog'[i].start = airLog[i].start
    BY <1>8 DEF f, g
  <1>11. \A i \in DOMAIN airLog : WindowOf(airLog', i) = WindowOf(airLog, i)
    BY <1>10 DEF WindowOf
  <1>12. AirTypes'
    <2>1. Node' = Node /\ Transmission' = Transmission
      BY DEF Node, Transmission
    <2> QED
      BY <1>1, <1>2, <1>9, <2>1 DEF AirTypes
  <1>13. WindowsTrue' /\ WindowsKept'
    <2>1. WindowsTrue /\ WindowsKept
      BY DEF AirInv
    <2>2. \A w \in windows' : \E i \in DOMAIN airLog' : w = WindowOf(airLog', i)
      <3> SUFFICES ASSUME NEW w \in windows PROVE \E i \in DOMAIN airLog' : w = WindowOf(airLog', i)
        BY <1>2
      <3>1. PICK i \in DOMAIN airLog : w = WindowOf(airLog, i)
        BY <2>1 DEF WindowsTrue
      <3>2. w = WindowOf(airLog', i)
        BY <3>1, <1>11
      <3> QED
        BY <3>2, <1>8
    <2>3. \A i \in DOMAIN airLog' : airLog'[i].start + Airtime + Airtime >= now => WindowOf(airLog', i) \in windows'
      BY <2>1, <1>2, <1>8, <1>10, <1>11 DEF WindowsKept
    <2> QED
      BY <2>2, <2>3 DEF WindowsTrue, WindowsKept, WindowOf
  <1>14. FramesPast'
    <2>1. FramesPast
      BY DEF AirInv
    <2> QED
      <3> SUFFICES ASSUME NEW i \in DOMAIN airLog
                   PROVE  /\ airLog'[i].start <= now
                          /\ airLog'[i].verdict # "air" => airLog'[i].start + Airtime <= now
        BY <1>8, <1>3 DEF FramesPast
      <3>1. /\ airLog[i].start <= now /\ airLog'[i].start = airLog[i].start
            /\ airLog[i].verdict # "air" => airLog[i].start + Airtime <= now
        BY <2>1, <1>10 DEF FramesPast
      <3>2. CASE i = n
        BY <3>1, <3>2, <1>1, <1>7, <1>4
      <3>3. CASE i # n
        <4>1. airLog'[i] = airLog[i]
          BY <3>3, <1>8
        <4> QED
          BY <3>1, <4>1
      <3> QED
        BY <3>2, <3>3
  <1>15. Regulated'
    BY <1>2, <1>8, <1>10 DEF AirInv, Regulated
  <1>16. DutyHolds'
    BY <1>2, <1>8, <1>10 DEF AirInv, DutyHolds
  \* What the windows say of the frame is what all the frames say.
  <1>17. WindowOf(airLog, n) \in windows
    <2>1. airLog[n].start + Airtime + Airtime >= now
      BY <1>1, <1>7
    <2> QED
      BY <2>1 DEF AirInv, WindowsKept
  <1>18. Survives(n) <=>
           \A w \in windows :
               ~ /\ w.node # g.node /\ w.start < g.start + Airtime /\ g.start < w.stop
                 /\ Gap2(mpos[w.node], mpos[g.rx]) <= RadioRange2
                 /\ ~Captures(g.node, w.node, g.rx, mpos)
    <2>1. \E w \in windows : w.id = n
      <3>1. WindowOf(airLog, n).id = n
        BY DEF WindowOf
      <3> QED
        BY <3>1, <1>17
    <2> QED
      BY <2>1, Zenon DEF Survives, Interferers, g
  <1>19. Survives(n) <=> \A j \in DOMAIN airLog : ~Drowns(airLog'[j], f)
    <2>1. ASSUME NEW w \in windows,
                 w.node # g.node, w.start < g.start + Airtime, g.start < w.stop,
                 Gap2(mpos[w.node], mpos[g.rx]) <= RadioRange2,
                 ~Captures(g.node, w.node, g.rx, mpos)
          PROVE  \E j \in DOMAIN airLog : Drowns(airLog'[j], f)
      <3>1. PICK j \in DOMAIN airLog : w = WindowOf(airLog, j)
        BY DEF AirInv, WindowsTrue
      <3>2. w.node = airLog'[j].node /\ w.start = airLog'[j].start /\ w.stop = airLog'[j].start + Airtime
        BY <3>1, <1>10 DEF WindowOf
      <3>3. Drowns(airLog'[j], f)
        BY <2>1, <3>2, <1>8, Zenon DEF Drowns
      <3> QED
        BY <3>3
    <2>2. ASSUME NEW j \in DOMAIN airLog, Drowns(airLog'[j], f)
          PROVE  \E w \in windows :
                     /\ w.node # g.node /\ w.start < g.start + Airtime /\ g.start < w.stop
                     /\ Gap2(mpos[w.node], mpos[g.rx]) <= RadioRange2
                     /\ ~Captures(g.node, w.node, g.rx, mpos)
      <3> DEFINE w == WindowOf(airLog, j)
      <3>1. w.node = airLog'[j].node /\ w.start = airLog'[j].start /\ w.stop = airLog'[j].start + Airtime
        BY <1>10 DEF WindowOf
      <3>2. f.start < airLog'[j].start + Airtime
        BY <2>2, Zenon DEF Drowns
      <3>3. airLog[j].start + Airtime + Airtime >= now
        BY <3>2, <1>1, <1>7, <1>8, <1>10 DEF g
      <3>4. w \in windows
        BY <3>3 DEF AirInv, WindowsKept
      <3> HIDE DEF w
      <3>5. /\ w.node # g.node /\ w.start < g.start + Airtime /\ g.start < w.stop
            /\ Gap2(mpos[w.node], mpos[g.rx]) <= RadioRange2
            /\ ~Captures(g.node, w.node, g.rx, mpos)
        BY <2>2, <3>1, <1>8, Zenon DEF Drowns
      <3> QED
        BY <3>4, <3>5
    <2> QED
      BY <2>1, <2>2, <1>18, Zenon
  <1>20. VerdictsRight'
    <2> SUFFICES ASSUME NEW i \in DOMAIN airLog' PROVE VerdictRight(airLog', i)
      BY DEF VerdictsRight, VerdictRight, Drowns, Captures, Gap2, AtLeast1
    <2>1. CASE i = n
      BY <2>1, <1>5, <1>8, <1>19, Zenon DEF VerdictRight, f
    <2>2. CASE i # n
      <3>1. airLog'[i] = airLog[i] /\ VerdictRight(airLog, i)
        BY <2>2, <1>8 DEF AirInv, VerdictsRight
      <3>2. \A j \in DOMAIN airLog : Drowns(airLog'[j], airLog[i]) <=> Drowns(airLog[j], airLog[i])
        BY <1>10, Zenon DEF Drowns
      <3> QED
        BY <3>1, <3>2, <1>8, Zenon DEF VerdictRight
    <2> QED
      BY <2>1, <2>2
  <1> QED
    BY <1>12, <1>13, <1>14, <1>15, <1>16, <1>20 DEF AirInv

\* A step that leaves the log of the frames alone.
LEMMA QuietKeepsAir ==
    ASSUME AirInv, net' = net, now' \in {now, now + 1}, mpos' \in Positions, TasksOnAir',
           UNCHANGED <<dutyEnforced, windows, nextAllowed, airLog>>
    PROVE  AirInv'
  <1>1. /\ dutyEnforced' = dutyEnforced /\ windows' = windows /\ nextAllowed' = nextAllowed /\ airLog' = airLog
        /\ now \in Nat /\ Airtime \in Nat
    BY LoraAssumption DEF AirInv, AirTypes
  <1>2. \A i \in DOMAIN airLog : airLog[i].start \in Nat
    <2>1. \A i \in DOMAIN airLog : airLog[i] \in Transmission
      BY DEF AirInv, AirTypes
    <2> QED
      BY <2>1 DEF Transmission
  <1>3. AirTypes'
    <2>1. Node' = Node /\ Transmission' = Transmission
      BY DEF Node, Transmission
    <2>2. now' \in Nat
      BY <1>1
    <2> QED
      BY <1>1, <2>1, <2>2 DEF AirInv, AirTypes
  <1>4. WindowsTrue' /\ Regulated' /\ DutyHolds'
    BY <1>1 DEF AirInv, WindowsTrue, WindowOf, Regulated, DutyHolds
  <1>5. WindowsKept'
    BY <1>1, <1>2 DEF AirInv, WindowsKept, WindowOf
  <1>6. FramesPast'
    BY <1>1, <1>2 DEF AirInv, FramesPast
  <1>7. VerdictsRight'
    <2>1. \A i \in DOMAIN airLog : VerdictRight(airLog', i)
      BY <1>1 DEF AirInv, VerdictsRight
    <2> QED
      BY <1>1, <2>1 DEF VerdictsRight, VerdictRight, Drowns, Captures, Gap2, AtLeast1
  <1> QED
    BY <1>3, <1>4, <1>5, <1>6, <1>7 DEF AirInv

LEMMA SendKeepsAir ==
    ASSUME AirInv, net' = net, now' = now, onAir \in Air, NEW queues, NEW t \in Tasks,
           NEW u \in Node, NEW i \in LinkIds, NEW p, SendOn(queues, t, u, i, p)
    PROVE  AirInv'
  <1>1. CASE UNCHANGED <<onAir, medium>>
    <2>1. UNCHANGED <<dutyEnforced, windows, nextAllowed, airLog>> /\ mpos' = mpos /\ onAir' = onAir
      BY <1>1 DEF medium
    <2>2. TasksOnAir' /\ mpos' \in Positions
      BY <2>1 DEF AirInv, AirTypes, TasksOnAir, Tasks, LinkIds, Links, Node
    <2> QED
      BY <2>1, <2>2, QuietKeepsAir
  <1>2. CASE /\ ~DutyGated(u, now) /\ Register(u, OtherEnd(i, u), now)
             /\ onAir' = [onAir EXCEPT ![t] = [id |-> Len(airLog) + 1, link |-> i, pkt |-> p]]
    <2>1. OtherEnd(i, u) \in Node
      BY NetFacts DEF AirInv, AirTypes, OtherEnd
    <2>2. /\ airLog \in Seq(Transmission)
          /\ airLog' = Append(airLog, [node |-> u, start |-> now, rx |-> OtherEnd(i, u), verdict |-> "air", pos |-> mpos])
      BY <1>2 DEF AirInv, AirTypes, Register
    <2>3. DOMAIN airLog \subseteq DOMAIN airLog' /\ Len(airLog) + 1 \in DOMAIN airLog'
      BY <2>2
    <2>4. \A s \in Tasks : onAir'[s] = IF s = t THEN [id |-> Len(airLog) + 1, link |-> i, pkt |-> p] ELSE onAir[s]
      BY <1>2 DEF Air
    <2>5. ASSUME NEW s \in Tasks, onAir'[s] # Idle PROVE onAir'[s].id \in DOMAIN airLog'
      <3>1. CASE s = t
        BY <3>1, <2>3, <2>4
      <3>2. CASE s # t
        BY <3>2, <2>3, <2>4, <2>5 DEF AirInv, TasksOnAir
      <3> QED
        BY <3>1, <3>2
    <2>6. TasksOnAir'
      BY <2>5 DEF TasksOnAir, Tasks, LinkIds, Links, Node, Idle
    <2> QED
      BY <1>2, <2>1, <2>6, RegisterKeepsAir
  <1> QED
    BY <1>1, <1>2, Zenon DEF SendOn

LEMMA AirNext ==
    ASSUME AirInv, TrafficInv, IpNext
    PROVE  AirInv'
  <1>1. /\ net \in Networks /\ onAir \in Air /\ mpos \in Positions /\ now \in Nat
        /\ \A u \in Node : \A d \in DOMAIN routes[u] : routes[u][d] \in LinkIds
    BY DEF AirInv, AirTypes, TrafficInv, TrafficTypes, RoutesOverLinks
  <1>2. ASSUME UNCHANGED <<net, onAir, medium>>, now' \in {now, now + 1} PROVE AirInv'
    <2>1. /\ UNCHANGED <<dutyEnforced, windows, nextAllowed, airLog>>
          /\ mpos' = mpos /\ onAir' = onAir /\ net' = net /\ airLog' = airLog
      BY <1>2 DEF medium
    <2>2. TasksOnAir'
      BY <2>1 DEF AirInv, TasksOnAir, Tasks, LinkIds, Links, Node
    <2> QED
      BY <2>1, <2>2, <1>1, <1>2, QuietKeepsAir
  <1>3. ASSUME NEW i, NEW alive, SetLink(i, alive) PROVE AirInv'
    BY <1>2, <1>3 DEF SetLink
  <1>4. ASSUME RerouteWith PROVE AirInv'
    BY <1>2, <1>4 DEF RerouteWith
  <1>5. ASSUME NEW places, Reconnect(places) \/ ReconnectWifi(places) PROVE AirInv'
    BY <1>2, <1>5 DEF Reconnect, ReconnectWifi
  <1>6. ASSUME NEW places \in Places, ReconnectLora(places) PROVE AirInv'
    <2>1. /\ UNCHANGED <<dutyEnforced, windows, nextAllowed, airLog>> /\ mpos' = places
          /\ net' = net /\ now' = now /\ onAir' = onAir /\ airLog' = airLog
      BY <1>6 DEF ReconnectLora, SetPositions
    <2>2. TasksOnAir'
      BY <2>1 DEF AirInv, TasksOnAir, Tasks, LinkIds, Links, Node
    <2>3. mpos' \in Positions
      BY <2>1 DEF Positions
    <2> QED
      BY <2>1, <2>2, <2>3, QuietKeepsAir
  <1>7. ASSUME NEW i \in LinkIds, NEW u \in Node, Receive(i, u) PROVE AirInv'
    <2> DEFINE from == <<i, OtherEnd(i, u)>>
               p == Head(wire[from])
               queues == [wire EXCEPT ![from] = Tail(@)]
               t == <<i, u>>
    <2>1. /\ net' = net /\ now' = now /\ t \in Tasks
          /\ Deliver(queues, t, u, p) \/ Forward(queues, t, u, p) \/ Drop(queues, u, p)
      BY <1>7 DEF Receive, Tasks
    <2> HIDE DEF from, p, queues, t
    <2>2. CASE UNCHANGED <<onAir, medium>>
      BY <1>2, <2>1, <2>2
    <2>3. ASSUME NEW d \in DOMAIN routes[u], NEW q, SendOn(queues, t, u, routes[u][d], q) PROVE AirInv'
      BY <1>1, <2>1, <2>3, SendKeepsAir
    <2> QED
      BY <2>1, <2>2, <2>3, Zenon DEF Deliver, Forward, Drop
  <1>8. ASSUME NEW t \in Tasks, AirtimeOver(t, t[2]) PROVE AirInv'
    <2> DEFINE n == onAir[t].id
    <2>1. /\ onAir[t] # Idle /\ now = airLog[n].start + Airtime /\ Verdict(n)
          /\ net' = net /\ now' = now /\ onAir' = [onAir EXCEPT ![t] = Idle]
      BY <1>8 DEF AirtimeOver
    <2>2. n \in DOMAIN airLog
      BY <2>1 DEF AirInv, TasksOnAir
    <2>3. DOMAIN airLog' = DOMAIN airLog
      BY <2>1, <2>2 DEF Verdict, AirInv, AirTypes
    <2>4. \A s \in Tasks : onAir'[s] = IF s = t THEN Idle ELSE onAir[s]
      BY <1>1, <2>1 DEF Air
    <2>5. \A s \in Tasks : onAir'[s] # Idle => onAir'[s].id \in DOMAIN airLog'
      BY <2>3, <2>4 DEF AirInv, TasksOnAir
    <2>6. TasksOnAir'
      BY <2>1, <2>5 DEF TasksOnAir, Tasks, LinkIds, Links, Node, Idle
    <2> QED
      BY <2>1, <2>2, <2>6, VerdictKeepsAir
  <1>9. ASSUME Ping PROVE AirInv'
    <2>1. net' = net /\ now' = now /\ Flow \in Tasks /\ 0 \in Node
      BY <1>1, <1>9, NetFacts DEF Ping
    <2>2. CASE UNCHANGED <<onAir, medium>>
      BY <1>2, <2>1, <2>2
    <2>3. ASSUME NEW d \in DOMAIN routes[0], SendOn(wire, Flow, 0, routes[0][d], Request) PROVE AirInv'
      BY <1>1, <2>1, <2>3, SendKeepsAir
    <2> QED
      BY <1>9, <2>2, <2>3, Zenon DEF Ping
  <1>10. ASSUME GotReply \/ LifetimeOver PROVE AirInv'
    BY <1>2, <1>10 DEF GotReply, LifetimeOver
  <1>11. ASSUME Tick PROVE AirInv'
    BY <1>2, <1>11 DEF Tick
  <1> QED
    BY <1>3, <1>4, <1>5, <1>6, <1>7, <1>8, <1>9, <1>10, <1>11, Zenon DEF IpNext

-----------------------------------------------------------------------------
(* Counting up, and loops: functions each of whose values is made from the *)
(* one before.                                                             *)

\* A set of naturals has a least one.
LEMMA LeastOne ==
    ASSUME NEW T, T \subseteq Nat, T # {}
    PROVE  \E m \in T : \A k \in T : m <= k
  <1>1. PICK m \in T : \A k \in T : ~(<<k, m>> \in OpToRel(<, Nat))
    BY NatLessThanWellFounded, WFMin
  <1>2. ASSUME NEW k \in T PROVE m <= k
    <2>1. ~(k < m)
      BY <1>1, Zenon DEF OpToRel
    <2> QED
      BY <2>1
  <1> QED
    BY <1>2

\* What holds of 0 and is handed on holds of every number.
LEMMA CountUp ==
    ASSUME NEW P, 0 \in P, \A k \in Nat : k \in P => k + 1 \in P
    PROVE  \A k \in Nat : k \in P
  <1> DEFINE T == {k \in Nat : k \notin P}
  <1> SUFFICES ASSUME T # {} PROVE FALSE
    OBVIOUS
  <1>1. PICK m \in T : \A k \in T : m <= k
    <2>1. T \subseteq Nat
      OBVIOUS
    <2> HIDE DEF T
    <2> QED
      BY <2>1, LeastOne
  <1>2. m # 0 /\ m \in Nat /\ m \notin P
    BY <1>1
  <1>3. m - 1 \in Nat /\ m - 1 + 1 = m /\ ~(m <= m - 1)
    BY <1>2
  <1>4. m - 1 \in P
    BY <1>1, <1>3
  <1> QED
    BY <1>2, <1>3, <1>4

\* f is the loop of N turns from x: turn k takes its value from step[<<k - 1, the value before>>].
IsLoop(N, x, step, f) == f = [k \in 0 .. N |-> IF k = 0 THEN x ELSE step[<<k - 1, f[k - 1]>>]]

LEMMA LoopValues ==
    ASSUME NEW N \in Nat, NEW x, NEW step, NEW f, IsLoop(N, x, step, f)
    PROVE  f[0] = x /\ \A k \in 0 .. N - 1 : f[k + 1] = step[<<k, f[k]>>]
  <1>1. ASSUME NEW k \in 0 .. N PROVE f[k] = IF k = 0 THEN x ELSE step[<<k - 1, f[k - 1]>>]
    BY DEF IsLoop
  <1>2. f[0] = x
    <2>1. 0 \in 0 .. N
      OBVIOUS
    <2> QED
      BY <1>1, <2>1
  <1>3. ASSUME NEW k \in 0 .. N - 1 PROVE f[k + 1] = step[<<k, f[k]>>]
    <2>1. k + 1 \in 0 .. N /\ k + 1 # 0 /\ k + 1 - 1 = k
      OBVIOUS
    <2> QED
      BY <1>1, <2>1
  <1> QED
    BY <1>2, <1>3

LEMMA LoopExists ==
    ASSUME NEW N \in Nat, NEW x, NEW step
    PROVE  \E f : IsLoop(N, x, step, f)
  <1> DEFINE P == {k \in Nat : \E f : IsLoop(k, x, step, f)}
  <1>1. 0 \in P
    <2> DEFINE f == [k \in 0 .. 0 |-> x]
    <2>1. \A k \in 0 .. 0 : k = 0
      OBVIOUS
    <2>2. IsLoop(0, x, step, f)
      BY <2>1 DEF IsLoop
    <2> QED
      BY <2>2
  <1>2. ASSUME NEW m \in Nat, m \in P PROVE m + 1 \in P
    <2>1. PICK f : IsLoop(m, x, step, f)
      BY <1>2
    <2> DEFINE g == [k \in 0 .. m + 1 |-> IF k = m + 1 THEN step[<<m, f[m]>>] ELSE f[k]]
    <2>2. ASSUME NEW k \in 0 .. m + 1 PROVE g[k] = IF k = 0 THEN x ELSE step[<<k - 1, g[k - 1]>>]
      <3>1. CASE k = m + 1
        <4>1. k # 0 /\ k - 1 = m /\ m \in 0 .. m + 1 /\ m # m + 1
          BY <3>1
        <4> QED
          BY <3>1, <4>1
      <3>2. CASE k = 0
        <4>1. k # m + 1 /\ f[0] = x
          BY <2>1, <3>2, LoopValues
        <4> QED
          BY <3>2, <4>1
      <3>3. CASE k # m + 1 /\ k # 0
        <4>1. k - 1 \in 0 .. m - 1 /\ k - 1 + 1 = k /\ k - 1 # m + 1 /\ k - 1 \in 0 .. m + 1
          BY <3>3
        <4>2. f[k] = step[<<k - 1, f[k - 1]>>]
          <5>1. \A j \in 0 .. m - 1 : f[j + 1] = step[<<j, f[j]>>]
            BY <2>1, LoopValues
          <5> QED
            BY <4>1, <5>1
        <4> QED
          BY <3>3, <4>1, <4>2
      <3> QED
        BY <3>1, <3>2, <3>3
    <2>3. g = [k \in 0 .. m + 1 |-> g[k]]
      OBVIOUS
    <2> HIDE DEF g
    <2>4. IsLoop(m + 1, x, step, g)
      BY <2>2, <2>3 DEF IsLoop
    <2> QED
      BY <2>4
  <1> HIDE DEF P
  <1>3. N \in P
    BY <1>1, <1>2, CountUp
  <1> QED
    BY <1>3 DEF P

\* What holds of the first value and is handed on by each turn holds of every value.
LEMMA LoopKeeps ==
    ASSUME NEW N \in Nat, NEW x, NEW step, NEW f, IsLoop(N, x, step, f),
           NEW P, <<0, x>> \in P,
           \A k \in 0 .. N - 1 : \A y : <<k, y>> \in P => <<k + 1, step[<<k, y>>]>> \in P
    PROVE  \A k \in 0 .. N : <<k, f[k]>> \in P
  <1> DEFINE T == {k \in Nat : k <= N => <<k, f[k]>> \in P}
  <1>0. f[0] = x /\ \A k \in 0 .. N - 1 : f[k + 1] = step[<<k, f[k]>>]
    BY LoopValues
  <1>1. 0 \in T
    BY <1>0
  <1>2. ASSUME NEW k \in Nat, k \in T PROVE k + 1 \in T
    <2> SUFFICES ASSUME k + 1 <= N PROVE <<k + 1, f[k + 1]>> \in P
      OBVIOUS
    <2>1. k \in 0 .. N - 1 /\ <<k, f[k]>> \in P
      BY <1>2
    <2> QED
      BY <1>0, <2>1
  <1> HIDE DEF T
  <1>3. \A k \in Nat : k \in T
    BY <1>1, <1>2, CountUp
  <1> QED
    BY <1>3 DEF T

\* The best of some places: the least value of f, the first place on a tie.
LEMMA BestOf ==
    ASSUME NEW S, S \subseteq Nat, S # {}, NEW f, \A i \in S : f[i] \in Nat
    PROVE  \E i \in S : \A j \in S : f[i] < f[j] \/ (f[i] = f[j] /\ i <= j)
  <1> DEFINE V == {f[i] : i \in S}
  <1>1. V \subseteq Nat /\ V # {}
    OBVIOUS
  <1> HIDE DEF V
  <1>2. PICK m \in V : \A k \in V : m <= k
    BY <1>1, LeastOne
  <1> DEFINE T == {i \in S : f[i] = m}
  <1>3. T \subseteq Nat /\ T # {}
    BY <1>2 DEF V
  <1> HIDE DEF T
  <1>4. PICK i \in T : \A k \in T : i <= k
    BY <1>3, LeastOne
  <1>5. i \in S /\ f[i] = m
    BY DEF T
  <1>6. ASSUME NEW j \in S PROVE f[i] < f[j] \/ (f[i] = f[j] /\ i <= j)
    <2>1. m <= f[j] /\ f[j] \in Nat /\ m \in Nat
      BY <1>1, <1>2 DEF V
    <2>2. CASE f[j] = m
      BY <1>4, <1>5, <2>2 DEF T
    <2>3. CASE f[j] # m
      BY <1>5, <2>1, <2>3
    <2> QED
      BY <2>2, <2>3
  <1> QED
    BY <1>5, <1>6

\* Two loops that start alike and turn alike are alike.
LEMMA LoopsAlike ==
    ASSUME NEW N \in Nat, NEW f, NEW g, f[0] = g[0],
           \A k \in 0 .. N - 1 : f[k] = g[k] => f[k + 1] = g[k + 1]
    PROVE  \A k \in 0 .. N : f[k] = g[k]
  <1> DEFINE T == {k \in Nat : k <= N => f[k] = g[k]}
  <1>1. 0 \in T
    OBVIOUS
  <1>2. ASSUME NEW k \in Nat, k \in T PROVE k + 1 \in T
    BY <1>2
  <1> HIDE DEF T
  <1>3. \A k \in Nat : k \in T
    BY <1>1, <1>2, CountUp
  <1> QED
    BY <1>3 DEF T

TurnAlike(N, f, g) == f[0] = g[0] /\ \A k \in 0 .. N - 1 : f[k] = g[k] => f[k + 1] = g[k + 1]

LEMMA AlikeThroughout ==
    ASSUME NEW N \in Nat, NEW f, NEW g, TurnAlike(N, f, g)
    PROVE  \A k \in 0 .. N : f[k] = g[k]
  BY LoopsAlike DEF TurnAlike

-----------------------------------------------------------------------------
(* Balls: the nodes within so many hops.                                   *)

IsView(view) ==
    /\ view.n \in Nat \ {0} /\ view.n <= Unreached
    /\ view.adj \in [Nodes(view) -> Seq(Nodes(view) \X {1})]

LEMMA EdgesOut ==
    ASSUME NEW view, IsView(view), NEW u \in Nodes(view)
    PROVE  /\ view.adj[u] \in Seq(Nodes(view) \X {1}) /\ Len(view.adj[u]) \in Nat
           /\ DOMAIN view.adj[u] = 1 .. Len(view.adj[u])
           /\ \A i \in DOMAIN view.adj[u] : /\ view.adj[u][i] \in Nodes(view) \X {1}
                                            /\ view.adj[u][i][1] \in Neighbours(view, u)
                                            /\ view.adj[u][i][2] = 1
           /\ Neighbours(view, u) \subseteq Nodes(view)
  <1>1. view.adj[u] \in Seq(Nodes(view) \X {1})
    BY DEF IsView
  <1>2. Len(view.adj[u]) \in Nat /\ DOMAIN view.adj[u] = 1 .. Len(view.adj[u])
    BY <1>1
  <1>3. \A i \in DOMAIN view.adj[u] : view.adj[u][i] \in Nodes(view) \X {1}
    BY <1>1, <1>2
  <1> QED
    BY <1>1, <1>2, <1>3 DEF Neighbours

Wider(view, B) == B \cup UNION {Neighbours(view, v) : v \in B}
Widen(view) == [p \in Nat \X SUBSET Nodes(view) |-> Wider(view, p[2])]

LEMMA BallIs ==
    ASSUME NEW view, IsView(view), NEW u \in Nodes(view), NEW k \in Nat, NEW N \in Nat, k <= N,
           NEW g, NEW x, x = {u}, IsLoop(N, x, Widen(view), g)
    PROVE  /\ Ball(view, u, k) = g[k]
           /\ \A j \in 0 .. N : g[j] \subseteq Nodes(view)
           /\ \A j \in 0 .. N - 1 : g[j + 1] = Wider(view, g[j])
  <1> DEFINE P == Nat \X SUBSET Nodes(view)
  <1>1. \A B \in SUBSET Nodes(view) : Wider(view, B) \in SUBSET Nodes(view)
    <2>1. ASSUME NEW B \in SUBSET Nodes(view), NEW y \in Wider(view, B) PROVE y \in Nodes(view)
      <3>1. y \in B \/ \E v \in B : y \in Neighbours(view, v)
        BY DEF Wider
      <3>2. \A v \in Nodes(view) : Neighbours(view, v) \subseteq Nodes(view)
        BY EdgesOut
      <3> QED
        BY <3>1, <3>2
    <2> QED
      BY <2>1
  <1>2. \A j \in 0 .. N : <<j, g[j]>> \in P
    <2>1. <<0, x>> \in P
      OBVIOUS
    <2>2. ASSUME NEW j \in 0 .. N - 1, NEW y, <<j, y>> \in P PROVE <<j + 1, Widen(view)[<<j, y>>]>> \in P
      BY <1>1, <2>2 DEF Widen
    <2> HIDE DEF P
    <2> QED
      BY <2>1, <2>2, LoopKeeps
  <1>3. g[0] = {u} /\ \A j \in 0 .. N - 1 : g[j + 1] = Wider(view, g[j])
    <2>1. g[0] = {u} /\ \A j \in 0 .. N - 1 : g[j + 1] = Widen(view)[<<j, g[j]>>]
      BY LoopValues
    <2>2. ASSUME NEW j \in 0 .. N - 1 PROVE g[j + 1] = Wider(view, g[j])
      <3>1. j \in 0 .. N
        OBVIOUS
      <3>2. <<j, g[j]>> \in Nat \X SUBSET Nodes(view)
        BY <1>2, <3>1
      <3>3. Widen(view)[<<j, g[j]>>] = Wider(view, g[j])
        BY <3>2 DEF Widen
      <3> QED
        BY <2>1, <3>3
    <2> QED
      BY <2>1, <2>2
  <1> DEFINE R(f) == f = [j \in 0 .. k |-> IF j = 0 THEN {u} ELSE Wider(view, f[j - 1])]
  <1> DEFINE w == CHOOSE f : R(f)
  <1>4. Ball(view, u, k) = w[k]
    BY DEF Ball, Wider
  <1>5. R(w)
    <2> DEFINE f == [j \in 0 .. k |-> g[j]]
    <2>1. ASSUME NEW j \in 0 .. k PROVE f[j] = IF j = 0 THEN {u} ELSE Wider(view, f[j - 1])
      <3>1. CASE j = 0
        BY <1>3, <3>1
      <3>2. CASE j # 0
        <4>1. j - 1 \in 0 .. N - 1 /\ j - 1 + 1 = j /\ j - 1 \in 0 .. k
          BY <3>2
        <4> QED
          BY <1>3, <3>2, <4>1
      <3> QED
        BY <3>1, <3>2
    <2>2. f = [j \in 0 .. k |-> f[j]]
      OBVIOUS
    <2> HIDE DEF f
    <2>3. R(f)
      BY <2>1, <2>2
    <2> QED
      BY <2>3
  <1> HIDE DEF w
  <1>6. \A j \in 0 .. k : w[j] = g[j]
    <2>1. \A j \in 0 .. k : w[j] = IF j = 0 THEN {u} ELSE Wider(view, w[j - 1])
      BY <1>5
    <2>2. w[0] = g[0]
      BY <1>3, <2>1
    <2>3. ASSUME NEW j \in 0 .. k - 1, w[j] = g[j] PROVE w[j + 1] = g[j + 1]
      <3>1. j + 1 \in 0 .. k /\ j + 1 # 0 /\ j + 1 - 1 = j /\ j \in 0 .. N - 1
        OBVIOUS
      <3>2. w[j + 1] = Wider(view, w[j])
        BY <2>1, <3>1
      <3> QED
        BY <1>3, <2>3, <3>1, <3>2
    <2> QED
      BY <2>2, <2>3, LoopsAlike
  <1>7. \A j \in 0 .. N : g[j] \subseteq Nodes(view)
    BY <1>2
  <1>8. k \in 0 .. k
    OBVIOUS
  <1>9. Ball(view, u, k) = g[k]
    BY <1>4, <1>6, <1>8
  <1> HIDE DEF P, R
  <1> QED
    BY <1>3, <1>7, <1>9

LEMMA BallGrows ==
    ASSUME NEW view, IsView(view), NEW u \in Nodes(view)
    PROVE  /\ Ball(view, u, 0) = {u}
           /\ \A k \in Nat : /\ Ball(view, u, k + 1) = Wider(view, Ball(view, u, k))
                              /\ Ball(view, u, k) \subseteq Nodes(view)
  <1>1. ASSUME NEW k \in Nat
        PROVE  /\ Ball(view, u, k + 1) = Wider(view, Ball(view, u, k))
               /\ Ball(view, u, k) \subseteq Nodes(view)
               /\ Ball(view, u, 0) = {u}
    <2> DEFINE x == {u}
    <2> HIDE DEF x
    <2>1. PICK g : IsLoop(k + 1, x, Widen(view), g)
      BY LoopExists
    <2>2. /\ Ball(view, u, k) = g[k] /\ Ball(view, u, k + 1) = g[k + 1] /\ Ball(view, u, 0) = g[0]
          /\ \A j \in 0 .. k + 1 : g[j] \subseteq Nodes(view)
          /\ \A j \in 0 .. k : g[j + 1] = Wider(view, g[j])
      <3> DEFINE M == k + 1
      <3>1. M - 1 = k /\ M \in Nat /\ k <= M /\ 0 <= M /\ M <= M /\ 0 \in Nat
        OBVIOUS
      <3> HIDE DEF M
      <3>2. IsLoop(M, x, Widen(view), g) /\ x = {u}
        BY <2>1 DEF M, x
      <3>3. Ball(view, u, k) = g[k] /\ Ball(view, u, M) = g[M] /\ Ball(view, u, 0) = g[0]
        <4>1. ASSUME NEW j \in Nat, j <= M PROVE Ball(view, u, j) = g[j]
          BY <3>1, <3>2, <4>1, BallIs
        <4> QED
          BY <3>1, <4>1
      <3>4. /\ \A j \in 0 .. M : g[j] \subseteq Nodes(view)
            /\ \A j \in 0 .. M - 1 : g[j + 1] = Wider(view, g[j])
        BY <3>1, <3>2, BallIs
      <3> QED
        BY <3>1, <3>3, <3>4 DEF M
    <2>3. g[0] = {u}
      BY <2>1, LoopValues DEF x
    <2> QED
      BY <2>2, <2>3
  <1> QED
    BY <1>1

\* One hop farther out.
LEMMA BallOut ==
    ASSUME NEW view, IsView(view), NEW u \in Nodes(view), NEW k \in Nat, NEW d \in Ball(view, u, k)
    PROVE  /\ d \in Ball(view, u, k + 1)
           /\ Neighbours(view, d) \subseteq Ball(view, u, k + 1)
  BY BallGrows DEF Wider

LEMMA BallWidens ==
    ASSUME NEW view, IsView(view), NEW u \in Nodes(view), NEW j \in Nat, NEW k \in Nat, j <= k
    PROVE  Ball(view, u, j) \subseteq Ball(view, u, k)
  <1> DEFINE T == {m \in Nat : Ball(view, u, j) \subseteq Ball(view, u, j + m)}
  <1>1. 0 \in T
    OBVIOUS
  <1>2. ASSUME NEW m \in Nat, m \in T PROVE m + 1 \in T
    <2>1. j + m \in Nat /\ j + (m + 1) = j + m + 1
      OBVIOUS
    <2>2. Ball(view, u, j + m) \subseteq Ball(view, u, j + (m + 1))
      BY <2>1, BallOut
    <2> QED
      BY <1>2, <2>2
  <1> HIDE DEF T
  <1>3. k - j \in T
    BY <1>1, <1>2, CountUp
  <1> QED
    BY <1>3 DEF T

\* One hop more at the beginning.
LEMMA BallFrom ==
    ASSUME NEW view, IsView(view), NEW u \in Nodes(view), NEW v \in Neighbours(view, u), NEW k \in Nat
    PROVE  Ball(view, v, k) \subseteq Ball(view, u, k + 1)
  <1>0. v \in Nodes(view)
    BY EdgesOut
  <1> DEFINE T == {m \in Nat : Ball(view, v, m) \subseteq Ball(view, u, m + 1)}
  <1>1. 0 \in T
    <2>1. u \in Ball(view, u, 0) /\ Ball(view, v, 0) = {v}
      BY <1>0, BallGrows
    <2>2. v \in Ball(view, u, 0 + 1)
      BY <2>1, BallOut
    <2> QED
      BY <2>1, <2>2
  <1>2. ASSUME NEW m \in Nat, m \in T PROVE m + 1 \in T
    <2>1. Ball(view, v, m + 1) = Wider(view, Ball(view, v, m))
      BY <1>0, BallGrows
    <2>2. Ball(view, u, m + 1 + 1) = Wider(view, Ball(view, u, m + 1))
      BY BallGrows
    <2> QED
      BY <1>2, <2>1, <2>2 DEF Wider
  <1> HIDE DEF T
  <1>3. k \in T
    BY <1>1, <1>2, CountUp
  <1> QED
    BY <1>3 DEF T

\* The first hop of a path.
LEMMA BallThrough ==
    ASSUME NEW view, IsView(view), NEW u \in Nodes(view), NEW k \in Nat, NEW d \in Ball(view, u, k + 1)
    PROVE  d = u \/ \E v \in Neighbours(view, u) : d \in Ball(view, v, k)
  <1> DEFINE Via(m) == {u} \cup UNION {Ball(view, v, m) : v \in Neighbours(view, u)}
             T == {m \in Nat : Ball(view, u, m + 1) \subseteq Via(m)}
  <1>0. Neighbours(view, u) \subseteq Nodes(view)
    BY EdgesOut
  <1>1. 0 \in T
    <2>1. Ball(view, u, 0 + 1) = {u} \cup Neighbours(view, u)
      <3>1. Ball(view, u, 0 + 1) = Wider(view, {u})
        BY BallGrows
      <3> QED
        BY <3>1 DEF Wider
    <2>2. \A v \in Neighbours(view, u) : v \in Ball(view, v, 0)
      BY <1>0, BallGrows
    <2> QED
      BY <2>1, <2>2
  <1>2. ASSUME NEW m \in Nat, m \in T PROVE m + 1 \in T
    <2> SUFFICES ASSUME NEW e \in Ball(view, u, m + 1 + 1) PROVE e \in Via(m + 1)
      OBVIOUS
    <2>1. PICK x \in Ball(view, u, m + 1) : e = x \/ e \in Neighbours(view, x)
      <3>1. Ball(view, u, m + 1 + 1) = Wider(view, Ball(view, u, m + 1))
        BY BallGrows
      <3> QED
        BY <3>1 DEF Wider
    <2>2. x \in Via(m)
      BY <1>2
    <2>3. CASE x = u
      <3>1. ASSUME e \in Neighbours(view, u) PROVE e \in Via(m + 1)
        <4>1. e \in Ball(view, e, 0) /\ e \in Nodes(view)
          BY <1>0, <3>1, BallGrows
        <4>2. e \in Ball(view, e, m + 1)
          BY <4>1, BallWidens
        <4> QED
          BY <3>1, <4>2
      <3> QED
        BY <2>1, <2>3, <3>1
    <2>4. ASSUME NEW v \in Neighbours(view, u), x \in Ball(view, v, m) PROVE e \in Via(m + 1)
      <3>1. e \in Ball(view, v, m + 1)
        BY <1>0, <2>1, <2>4, BallOut
      <3> QED
        BY <3>1
    <2> QED
      BY <2>2, <2>3, <2>4
  <1> HIDE DEF T
  <1>3. k \in T
    BY <1>1, <1>2, CountUp
  <1> QED
    BY <1>3 DEF T

-----------------------------------------------------------------------------
(* Dijkstra's search.                                                      *)

LEMMA NodesFinite ==
    ASSUME NEW view, IsView(view)
    PROVE  /\ IsFiniteSet(Nodes(view)) /\ Cardinality(Nodes(view)) = view.n /\ view.n \in Nat
           /\ Nodes(view) \subseteq Nat /\ \A u \in Nodes(view) : u < view.n /\ u # Unreached
           /\ Unreached \in Nat
  <1>1. view.n \in Nat /\ view.n <= Unreached /\ Nodes(view) = 0 .. view.n - 1
    BY DEF IsView, Nodes
  <1>2. IsFiniteSet(Nodes(view)) /\ Cardinality(Nodes(view)) = view.n
    BY <1>1, FS_Interval
  <1> QED
    BY <1>1, <1>2 DEF Unreached

Reached(view, s) == {d \in Nodes(view) : s.dist[d] # Unreached}

Searches(view) == [dist : [Nodes(view) -> Nat], hop : [Nodes(view) -> Nat], heap : SUBSET (Nat \X Nodes(view))]
SearchTypes(view, s) == s \in Searches(view)

\* What is reached is that near, through a neighbour of the source; what is not has no hop.
PathsFound(view, src, s) ==
    /\ s.dist[src] = 0
    /\ \A d \in Reached(view, s) :
          /\ d \in Ball(view, src, s.dist[d])
          /\ d # src => /\ s.dist[d] >= 1 /\ s.hop[d] \in Neighbours(view, src)
                        /\ d \in Ball(view, s.hop[d], s.dist[d] - 1)
    /\ \A d \in Nodes(view) \ Reached(view, s) : s.hop[d] = Unreached

\* A path is shorter than there are nodes reached; the heap holds the distances of its nodes.
DistancesFound(view, s) ==
    /\ \A d \in Reached(view, s) : s.dist[d] < Cardinality(Reached(view, s))
    /\ \A e \in s.heap : e[2] \in Reached(view, s) /\ s.dist[e[2]] = e[1]

SearchOK(view, src, s) == SearchTypes(view, s) /\ PathsFound(view, src, s) /\ DistancesFound(view, s)

LEMMA ReachedFinite ==
    ASSUME NEW view, IsView(view), NEW s
    PROVE  /\ IsFiniteSet(Reached(view, s)) /\ Cardinality(Reached(view, s)) \in Nat
           /\ \A w \in Nodes(view) \ Reached(view, s) :
                 /\ Cardinality(Reached(view, s)) < view.n
                 /\ Cardinality(Reached(view, s) \cup {w}) = Cardinality(Reached(view, s)) + 1
  <1>1. IsFiniteSet(Nodes(view)) /\ Cardinality(Nodes(view)) = view.n /\ Reached(view, s) \subseteq Nodes(view)
    BY NodesFinite DEF Reached
  <1>2. IsFiniteSet(Reached(view, s))
    BY <1>1, FS_Subset
  <1>3. Cardinality(Reached(view, s)) \in Nat
    BY <1>2, FS_CardinalityType
  <1>4. ASSUME NEW w \in Nodes(view) \ Reached(view, s)
        PROVE  /\ Cardinality(Reached(view, s)) < view.n
               /\ Cardinality(Reached(view, s) \cup {w}) = Cardinality(Reached(view, s)) + 1
    <2>1. Reached(view, s) # Nodes(view)
      BY <1>4
    <2>2. Cardinality(Reached(view, s)) < Cardinality(Nodes(view))
      <3>1. /\ Cardinality(Reached(view, s)) <= Cardinality(Nodes(view))
            /\ Cardinality(Nodes(view)) = Cardinality(Reached(view, s)) => Nodes(view) = Reached(view, s)
        BY <1>1, FS_Subset
      <3> QED
        BY <1>1, <1>3, <2>1, <3>1, NodesFinite
    <2>3. Cardinality(Reached(view, s) \cup {w}) = Cardinality(Reached(view, s)) + 1
      BY <1>2, <1>4, FS_AddElement
    <2> QED
      BY <1>1, <2>2, <2>3
  <1> QED
    BY <1>2, <1>3, <1>4

\* An edge to a node already as near changes nothing; one to a new node reaches it.
LEMMA RelaxOld ==
    ASSUME NEW view, IsView(view), NEW src \in Nodes(view), NEW s, SearchTypes(view, s),
           NEW u \in Nodes(view), NEW cost \in Nat, NEW edge \in Nodes(view) \X {1},
           s.dist[edge[1]] <= cost + 1
    PROVE  Relax(src, u, cost, s, edge) = s
  <1>1. edge[1] \in Nodes(view) /\ edge[2] = 1
    OBVIOUS
  <1>2. s.dist[edge[1]] \in Nat
    BY <1>1 DEF SearchTypes, Searches
  <1>3. ~(cost + edge[2] < s.dist[edge[1]])
    BY <1>1, <1>2
  <1> QED
    BY <1>3 DEF Relax

LEMMA RelaxNew ==
    ASSUME NEW view, IsView(view), NEW src \in Nodes(view), NEW s, SearchOK(view, src, s),
           NEW u \in Reached(view, s), NEW edge \in Nodes(view) \X {1},
           edge[1] \in Neighbours(view, u), edge[1] \notin Reached(view, s),
           NEW t, t = Relax(src, u, s.dist[u], s, edge)
    PROVE  /\ SearchOK(view, src, t)
           /\ Reached(view, t) = Reached(view, s) \cup {edge[1]}
           /\ t.dist = [s.dist EXCEPT ![edge[1]] = s.dist[u] + 1]
           /\ t.heap = s.heap \cup {<<s.dist[u] + 1, edge[1]>>}
  <1> DEFINE w == edge[1]
             c == s.dist[u]
             near == c + 1
  <1>1. w \in Nodes(view) /\ edge[2] = 1 /\ u \in Nodes(view) /\ w \in Nat
    BY NodesFinite DEF Reached
  <1>2. SearchTypes(view, s) /\ PathsFound(view, src, s) /\ DistancesFound(view, s)
    BY DEF SearchOK
  <1>3. /\ s.dist \in [Nodes(view) -> Nat] /\ s.hop \in [Nodes(view) -> Nat]
        /\ s.heap \in SUBSET (Nat \X Nodes(view)) /\ c \in Nat /\ near \in Nat
    BY <1>1, <1>2 DEF SearchTypes, Searches
  <1>4. s.dist[w] = Unreached
    BY <1>1 DEF Reached
  <1>5. near <= Cardinality(Reached(view, s)) /\ near < Unreached
    <2>1. c < Cardinality(Reached(view, s))
      BY <1>2 DEF DistancesFound
    <2>2. Cardinality(Reached(view, s)) < view.n /\ Cardinality(Reached(view, s)) \in Nat
      BY <1>1, ReachedFinite
    <2>3. view.n <= Unreached /\ view.n \in Nat /\ Unreached \in Nat
      BY NodesFinite DEF IsView
    <2> QED
      BY <1>3, <2>1, <2>2, <2>3
  <1> DEFINE h == IF u = src THEN w ELSE s.hop[u]
  <1>6. t = [dist |-> [s.dist EXCEPT ![w] = near], hop |-> [s.hop EXCEPT ![w] = h],
             heap |-> s.heap \cup {<<near, w>>}]
    BY <1>1, <1>4, <1>5 DEF Relax
  <1>7. h \in Nat
    BY <1>1, <1>3
  <1> HIDE DEF h
  <1>8. /\ t.dist = [s.dist EXCEPT ![w] = near] /\ t.hop = [s.hop EXCEPT ![w] = h]
        /\ t.heap = s.heap \cup {<<near, w>>}
    BY <1>6
  <1>9. SearchTypes(view, t)
    BY <1>1, <1>3, <1>6, <1>7 DEF SearchTypes, Searches
  <1>10. /\ t.dist[w] = near /\ t.hop[w] = h
         /\ \A d \in Nodes(view) \ {w} : t.dist[d] = s.dist[d] /\ t.hop[d] = s.hop[d]
    BY <1>1, <1>3, <1>8
  <1>11. Reached(view, t) = Reached(view, s) \cup {w}
    <2>1. near # Unreached
      BY <1>3, <1>5, NodesFinite
    <2> QED
      BY <1>1, <1>10, <2>1 DEF Reached
  <1>12. src \in Reached(view, s) /\ src # w
    <2>1. s.dist[src] = 0
      BY <1>2 DEF PathsFound
    <2> QED
      BY <1>4, <2>1 DEF Reached, Unreached
  <1>13. PathsFound(view, src, t)
    <2>1. t.dist[src] = 0
      BY <1>2, <1>10, <1>12 DEF PathsFound
    <2>2. w \in Ball(view, src, near)
      <3>1. u \in Ball(view, src, c)
        BY <1>2 DEF PathsFound
      <3> QED
        BY <1>3, <3>1, BallOut
    <2>3. near >= 1 /\ h \in Neighbours(view, src) /\ w \in Ball(view, h, near - 1)
      <3>1. CASE u = src
        <4>1. c = 0 /\ h = w
          BY <1>2, <3>1 DEF PathsFound, h
        <4>2. w \in Ball(view, w, 0)
          BY <1>1, BallGrows
        <4> QED
          BY <3>1, <4>1, <4>2
      <3>2. CASE u # src
        <4>1. c >= 1 /\ h \in Neighbours(view, src) /\ u \in Ball(view, h, c - 1)
          BY <1>2, <3>2 DEF PathsFound, h
        <4>2. h \in Nodes(view) /\ c - 1 \in Nat /\ c - 1 + 1 = near - 1
          <5>1. h \in Nodes(view)
            BY <4>1, EdgesOut
          <5> QED
            BY <1>3, <4>1, <5>1
        <4>3. w \in Ball(view, h, c - 1 + 1)
          BY <4>1, <4>2, BallOut
        <4> QED
          BY <1>3, <4>1, <4>2, <4>3
      <3> QED
        BY <3>1, <3>2
    <2>4. ASSUME NEW d \in Reached(view, s)
          PROVE  /\ d \in Ball(view, src, t.dist[d])
                 /\ d # src => /\ t.dist[d] >= 1 /\ t.hop[d] \in Neighbours(view, src)
                               /\ d \in Ball(view, t.hop[d], t.dist[d] - 1)
      <3>1. d \in Nodes(view) \ {w}
        BY <2>4 DEF Reached
      <3> QED
        BY <1>2, <1>10, <3>1 DEF PathsFound
    <2>5. ASSUME NEW d \in Nodes(view) \ Reached(view, t) PROVE t.hop[d] = Unreached
      BY <1>2, <1>10, <1>11, <2>5 DEF PathsFound
    <2> QED
      BY <1>10, <1>11, <2>1, <2>2, <2>3, <2>4, <2>5 DEF PathsFound
  <1>14. DistancesFound(view, t)
    <2>1. /\ Cardinality(Reached(view, t)) = Cardinality(Reached(view, s)) + 1
          /\ Cardinality(Reached(view, s)) \in Nat
      BY <1>1, <1>11, ReachedFinite
    <2>2. ASSUME NEW d \in Reached(view, t) PROVE t.dist[d] < Cardinality(Reached(view, t))
      <3>1. CASE d = w
        BY <1>3, <1>5, <1>10, <2>1, <3>1
      <3>2. CASE d # w
        <4>1. d \in Reached(view, s) /\ t.dist[d] = s.dist[d] /\ s.dist[d] \in Nat
          BY <1>3, <1>10, <1>11, <3>2 DEF Reached
        <4>2. s.dist[d] < Cardinality(Reached(view, s))
          BY <1>2, <4>1 DEF DistancesFound
        <4> QED
          BY <2>1, <4>1, <4>2
      <3> QED
        BY <3>1, <3>2
    <2>3. ASSUME NEW e \in t.heap PROVE e[2] \in Reached(view, t) /\ t.dist[e[2]] = e[1]
      <3>1. CASE e = <<near, w>>
        BY <1>10, <1>11, <3>1
      <3>2. CASE e \in s.heap
        <4>1. e[2] \in Reached(view, s) /\ s.dist[e[2]] = e[1]
          BY <1>2, <3>2 DEF DistancesFound
        <4>2. e[2] \in Nodes(view) \ {w}
          BY <4>1 DEF Reached
        <4> QED
          BY <1>10, <1>11, <4>1, <4>2
      <3> QED
        BY <1>8, <3>1, <3>2
    <2> QED
      BY <2>2, <2>3 DEF DistancesFound
  <1> QED
    BY <1>8, <1>9, <1>11, <1>13, <1>14 DEF SearchOK

LEMMA TopIs ==
    ASSUME NEW S, NEW heap \in SUBSET (Nat \X S), S \subseteq Nat, heap # {}
    PROVE  Top(heap) \in heap /\ \A e \in heap : Top(heap)[1] <= e[1]
  <1> DEFINE V == {e[1] : e \in heap}
  <1>1. V \subseteq Nat /\ V # {}
    OBVIOUS
  <1> HIDE DEF V
  <1>2. PICK m \in V : \A k \in V : m <= k
    BY <1>1, LeastOne
  <1> DEFINE W == {e[2] : e \in {f \in heap : f[1] = m}}
  <1>3. W \subseteq Nat /\ W # {}
    BY <1>2 DEF V
  <1> HIDE DEF W
  <1>4. PICK w \in W : \A k \in W : w <= k
    BY <1>3, LeastOne
  <1>5. PICK e \in heap : e[1] = m /\ e[2] = w
    BY <1>4 DEF W
  <1>6. ASSUME NEW f \in heap PROVE e[1] < f[1] \/ (e[1] = f[1] /\ e[2] <= f[2])
    <2>1. m <= f[1] /\ m \in Nat /\ f[1] \in Nat
      BY <1>1, <1>2 DEF V
    <2>2. CASE f[1] = m
      BY <1>4, <1>5, <2>2 DEF W
    <2>3. CASE f[1] # m
      BY <1>5, <2>1, <2>3
    <2> QED
      BY <2>2, <2>3
  <1> DEFINE Least(x) == x \in heap /\ \A f \in heap : x[1] < f[1] \/ (x[1] = f[1] /\ x[2] <= f[2])
  <1>7. Top(heap) = CHOOSE x : Least(x)
    BY DEF Top
  <1>8. Least(e)
    BY <1>6
  <1> HIDE DEF Least
  <1>9. Least(Top(heap))
    BY <1>7, <1>8
  <1>10. Top(heap) \in heap /\ \A f \in heap : Top(heap)[1] < f[1] \/ Top(heap)[1] = f[1]
    BY <1>9 DEF Least
  <1>11. \A f \in heap : f[1] \in Nat
    OBVIOUS
  <1>12. ASSUME NEW f \in heap PROVE Top(heap)[1] <= f[1]
    BY <1>10, <1>11
  <1> QED
    BY <1>10, <1>12

\* Every neighbour of d is reached, at most one hop farther.
Closed(view, s, d) == \A w \in Neighbours(view, d) : w \in Reached(view, s) /\ s.dist[w] <= s.dist[d] + 1

\* Nothing is reached farther than a hop from the heap's entries; what has left it is closed.
SearchInv(view, src, s) ==
    /\ SearchOK(view, src, s)
    /\ \A e \in s.heap : \A d \in Reached(view, s) : s.dist[d] <= e[1] + 1
    /\ \A d \in Reached(view, s) : <<s.dist[d], d>> \notin s.heap => Closed(view, s, d)

Targets(view) == UNION {Neighbours(view, u) : u \in Nodes(view)}

\* The nodes that may still be popped.
ToDo(view, s) == {e[2] : e \in s.heap} \cup (Targets(view) \ Reached(view, s))

\* The edges of u, popped at cost c, are relaxed up to the i-th; T may be popped after it.
Relaxing(view, src, u, c, T, i, s) ==
    /\ SearchOK(view, src, s)
    /\ u \in Reached(view, s) /\ s.dist[u] = c
    /\ \A d \in Reached(view, s) : s.dist[d] <= c + 1
    /\ \A e \in s.heap : c <= e[1] /\ e[2] # u
    /\ \A d \in Reached(view, s) \ {u} : <<s.dist[d], d>> \notin s.heap => Closed(view, s, d)
    /\ \A j \in 1 .. i : view.adj[u][j][1] \in Reached(view, s)
    /\ ToDo(view, s) \subseteq T

LEMMA RelaxGoesOn ==
    ASSUME NEW view, IsView(view), NEW src \in Nodes(view), NEW u \in Nodes(view), NEW c \in Nat, NEW T,
           NEW i \in Nat, i < Len(view.adj[u]), NEW s, Relaxing(view, src, u, c, T, i, s),
           NEW t, t = Relax(src, u, c, s, view.adj[u][i + 1])
    PROVE  Relaxing(view, src, u, c, T, i + 1, t)
  <1> DEFINE edge == view.adj[u][i + 1]
             w == edge[1]
  <1>1. edge \in Nodes(view) \X {1} /\ w \in Neighbours(view, u) /\ w \in Nodes(view)
    <2>1. i + 1 \in 1 .. Len(view.adj[u]) /\ Len(view.adj[u]) \in Nat
      BY EdgesOut
    <2> QED
      BY <2>1, EdgesOut
  <1>2. /\ SearchOK(view, src, s) /\ SearchTypes(view, s)
        /\ u \in Reached(view, s) /\ s.dist[u] = c
        /\ \A d \in Reached(view, s) : s.dist[d] <= c + 1
    BY DEF Relaxing, SearchOK
  <1>3. \A j \in 1 .. i + 1 : j \in 1 .. i \/ j = i + 1
    OBVIOUS
  <1>4. CASE w \in Reached(view, s)
    <2>1. s.dist[w] <= c + 1
      BY <1>2, <1>4
    <2> HIDE DEF edge
    <2>2. Relax(src, u, c, s, edge) = s
      BY <1>1, <1>2, <2>1, RelaxOld
    <2> USE DEF edge
    <2>3. t = s
      BY <2>2
    <2>4. \A j \in 1 .. i + 1 : view.adj[u][j][1] \in Reached(view, s)
      BY <1>3, <1>4 DEF Relaxing
    <2> QED
      BY <2>3, <2>4 DEF Relaxing
  <1>5. CASE w \notin Reached(view, s)
    <2>1. t = Relax(src, u, s.dist[u], s, edge)
      BY <1>2
    <2> HIDE DEF edge
    <2>2. /\ SearchOK(view, src, t)
          /\ Reached(view, t) = Reached(view, s) \cup {w}
          /\ t.dist = [s.dist EXCEPT ![w] = c + 1]
          /\ t.heap = s.heap \cup {<<c + 1, w>>}
      BY <1>1, <1>2, <1>5, <2>1, RelaxNew
    <2> USE DEF edge
    <2> HIDE DEF w
    <2>3. t.dist[w] = c + 1 /\ \A d \in Reached(view, s) : t.dist[d] = s.dist[d]
      <3>1. s.dist \in [Nodes(view) -> Nat]
        BY <1>2 DEF SearchTypes, Searches
      <3> QED
        BY <1>1, <1>5, <2>2, <3>1 DEF Reached
    <2>4. \A d \in Reached(view, t) : t.dist[d] <= c + 1
      BY <1>2, <2>2, <2>3
    <2>5. \A e \in t.heap : c <= e[1] /\ e[2] # u
      <3>1. \A e \in s.heap : c <= e[1] /\ e[2] # u
        BY DEF Relaxing
      <3>2. c <= c + 1 /\ w # u
        BY <1>2, <1>5
      <3> QED
        BY <2>2, <3>1, <3>2
    <2>6. ASSUME NEW d \in Reached(view, t) \ {u}, <<t.dist[d], d>> \notin t.heap PROVE Closed(view, t, d)
      <3>1. d \in Reached(view, s) \ {u} /\ t.dist[d] = s.dist[d]
        BY <2>2, <2>3, <2>6
      <3>2. Closed(view, s, d)
        BY <2>2, <2>6, <3>1 DEF Relaxing
      <3> QED
        BY <2>2, <2>3, <3>1, <3>2 DEF Closed
    <2>7. \A j \in 1 .. i + 1 : view.adj[u][j][1] \in Reached(view, t)
      BY <1>3, <2>2 DEF Relaxing, w
    <2>8. ToDo(view, t) \subseteq T
      <3>1. w \in Targets(view)
        BY <1>1 DEF Targets
      <3>2. w \in ToDo(view, s)
        BY <1>5, <3>1 DEF ToDo
      <3>3. ToDo(view, t) \subseteq ToDo(view, s)
        BY <2>2, <3>2 DEF ToDo
      <3> QED
        BY <3>3 DEF Relaxing
    <2>9. u \in Reached(view, t) /\ t.dist[u] = c
      BY <1>2, <2>2, <2>3
    <2> QED
      BY <2>2, <2>4, <2>5, <2>6, <2>7, <2>8, <2>9 DEF Relaxing
  <1> QED
    BY <1>4, <1>5

LEMMA RelaxBegins ==
    ASSUME NEW view, IsView(view), NEW src \in Nodes(view), NEW s, SearchInv(view, src, s),
           NEW e \in s.heap, \A f \in s.heap : e[1] <= f[1],
           NEW x, x = [s EXCEPT !.heap = @ \ {e}]
    PROVE  /\ Relaxing(view, src, e[2], e[1], ToDo(view, s) \ {e[2]}, 0, x)
           /\ e[2] \in ToDo(view, s) /\ e[2] \in Nodes(view) /\ e[1] \in Nat /\ s.dist[e[2]] = e[1]
  <1>1. SearchOK(view, src, s) /\ SearchTypes(view, s) /\ PathsFound(view, src, s) /\ DistancesFound(view, s)
    BY DEF SearchInv, SearchOK
  <1>2. /\ e \in Nat \X Nodes(view) /\ e = <<e[1], e[2]>> /\ e[2] \in Nodes(view) /\ e[1] \in Nat
        /\ \A f \in s.heap : f = <<f[1], f[2]>>
    BY <1>1 DEF SearchTypes, Searches
  <1>3. x.dist = s.dist /\ x.hop = s.hop /\ x.heap = s.heap \ {e}
    BY <1>1 DEF SearchTypes, Searches
  <1>4. Reached(view, x) = Reached(view, s)
    BY <1>3 DEF Reached
  <1>5. SearchTypes(view, x)
    <2>1. /\ s \in [dist : [Nodes(view) -> Nat], hop : [Nodes(view) -> Nat], heap : SUBSET (Nat \X Nodes(view))]
          /\ s.heap \ {e} \in SUBSET (Nat \X Nodes(view))
      BY <1>1 DEF SearchTypes, Searches
    <2> QED
      BY <2>1 DEF SearchTypes, Searches
  <1>6. PathsFound(view, src, x) /\ DistancesFound(view, x)
    BY <1>1, <1>3, <1>4 DEF PathsFound, DistancesFound
  <1>7. e[2] \in Reached(view, s) /\ s.dist[e[2]] = e[1]
    BY <1>1 DEF DistancesFound
  <1>8. \A d \in Reached(view, s) : s.dist[d] <= e[1] + 1
    BY DEF SearchInv
  <1>9. ASSUME NEW f \in x.heap PROVE e[1] <= f[1] /\ f[2] # e[2]
    <2>1. f \in s.heap /\ f # e
      BY <1>3
    <2>2. s.dist[f[2]] = f[1]
      BY <1>1, <2>1 DEF DistancesFound
    <2> QED
      BY <1>2, <1>7, <2>1, <2>2
  <1>10. ASSUME NEW d \in Reached(view, s) \ {e[2]}, <<s.dist[d], d>> \notin x.heap PROVE Closed(view, x, d)
    <2>1. <<s.dist[d], d>> # e
      BY <1>2
    <2>2. <<s.dist[d], d>> \notin s.heap
      BY <1>3, <1>10, <2>1
    <2>3. Closed(view, s, d)
      BY <2>2 DEF SearchInv
    <2> QED
      BY <1>3, <1>4, <2>3 DEF Closed
  <1>11. ToDo(view, x) \subseteq ToDo(view, s) \ {e[2]}
    BY <1>3, <1>4, <1>7, <1>9 DEF ToDo
  <1>12. e[2] \in ToDo(view, s)
    BY DEF ToDo
  <1>13. \A j \in 1 .. 0 : view.adj[e[2]][j][1] \in Reached(view, x)
    OBVIOUS
  <1>14. Relaxing(view, src, e[2], e[1], ToDo(view, s) \ {e[2]}, 0, x)
    BY <1>3, <1>4, <1>5, <1>6, <1>7, <1>8, <1>9, <1>10, <1>11, <1>13 DEF Relaxing, SearchOK
  <1> QED
    BY <1>2, <1>7, <1>12, <1>14

LEMMA RelaxEnds ==
    ASSUME NEW view, IsView(view), NEW src \in Nodes(view), NEW u \in Nodes(view), NEW c \in Nat, NEW T,
           NEW s, Relaxing(view, src, u, c, T, Len(view.adj[u]), s)
    PROVE  SearchInv(view, src, s)
  <1>1. /\ SearchOK(view, src, s) /\ SearchTypes(view, s)
        /\ u \in Reached(view, s) /\ s.dist[u] = c
        /\ \A d \in Reached(view, s) : s.dist[d] <= c + 1
    BY DEF Relaxing, SearchOK
  <1>2. ASSUME NEW e \in s.heap, NEW d \in Reached(view, s) PROVE s.dist[d] <= e[1] + 1
    <2>1. s.dist[d] \in Nat /\ e[1] \in Nat
      BY <1>1 DEF SearchTypes, Searches, Reached
    <2>2. c <= e[1] /\ s.dist[d] <= c + 1
      BY <1>1 DEF Relaxing
    <2> QED
      BY <2>1, <2>2
  <1>3. Closed(view, s, u)
    <2> SUFFICES ASSUME NEW w \in Neighbours(view, u)
                 PROVE  w \in Reached(view, s) /\ s.dist[w] <= s.dist[u] + 1
      BY DEF Closed
    <2>1. PICK j \in DOMAIN view.adj[u] : view.adj[u][j][1] = w
      BY DEF Neighbours
    <2>2. j \in 1 .. Len(view.adj[u])
      BY EdgesOut
    <2> QED
      BY <1>1, <2>1, <2>2 DEF Relaxing
  <1>4. \A d \in Reached(view, s) : <<s.dist[d], d>> \notin s.heap => Closed(view, s, d)
    BY <1>3 DEF Relaxing
  <1> QED
    BY <1>1, <1>2, <1>4 DEF SearchInv

LEMMA SettleKeeps ==
    ASSUME NEW view, IsView(view), NEW src \in Nodes(view), NEW s, SearchInv(view, src, s), s.heap # {}
    PROVE  /\ SearchInv(view, src, Settle(view, src, s))
           /\ \E u \in ToDo(view, s) : ToDo(view, Settle(view, src, s)) \subseteq ToDo(view, s) \ {u}
  <1> DEFINE e == Top(s.heap)
             u == e[2]
             c == e[1]
             row == view.adj[u]
             N == Len(row)
             x == [s EXCEPT !.heap = @ \ {e}]
             T == ToDo(view, s) \ {u}
             P == {p \in Nat \X Searches(view) : Relaxing(view, src, u, c, T, p[1], p[2])}
             step == [p \in P |-> Relax(src, u, c, p[2], row[p[1] + 1])]
  <1>1. e \in s.heap /\ \A f \in s.heap : e[1] <= f[1]
    <2>1. s.heap \in SUBSET (Nat \X Nodes(view))
      BY DEF SearchInv, SearchOK, SearchTypes, Searches
    <2> QED
      BY <2>1, TopIs, NodesFinite
  <1>2. /\ Relaxing(view, src, u, c, T, 0, x)
        /\ u \in ToDo(view, s) /\ u \in Nodes(view) /\ c \in Nat /\ s.dist[u] = c
    <2> HIDE DEF e
    <2> QED
      BY <1>1, RelaxBegins
  <1>3. N \in Nat
    BY <1>2, EdgesOut
  <1> HIDE DEF e, u, c, T, x
  <1>4. \A i \in Nat : \A y : Relaxing(view, src, u, c, T, i, y) => y \in Searches(view)
    BY DEF Relaxing, SearchOK, SearchTypes
  <1>5. <<0, x>> \in P
    BY <1>2, <1>4
  <1>6. ASSUME NEW i \in 0 .. N - 1, NEW y, <<i, y>> \in P
        PROVE  /\ step[<<i, y>>] = Relax(src, u, c, y, row[i + 1])
               /\ <<i + 1, step[<<i, y>>]>> \in P
    <2>1. Relaxing(view, src, u, c, T, i, y) /\ i \in Nat /\ i < Len(view.adj[u])
      BY <1>3, <1>6
    <2>2. Relaxing(view, src, u, c, T, i + 1, Relax(src, u, c, y, row[i + 1]))
      BY <1>2, <2>1, RelaxGoesOn
    <2>3. step[<<i, y>>] = Relax(src, u, c, y, row[i + 1])
      BY <1>6
    <2> QED
      BY <1>4, <2>1, <2>2, <2>3
  <1> DEFINE R(f) == f = [i \in 0 .. N |-> IF i = 0 THEN x ELSE Relax(src, u, c, f[i - 1], row[i])]
             w == CHOOSE f : R(f)
  <1>7. Settle(view, src, s) = w[N]
    <2>1. Settle(view, src, s) = IF c > s.dist[u] THEN x ELSE w[N]
      BY DEF Settle, e, u, c, x
    <2>2. ~(c > s.dist[u])
      BY <1>2
    <2> QED
      BY <2>1, <2>2
  <1> HIDE DEF P, step, N
  <1>8. PICK g : IsLoop(N, x, step, g)
    BY <1>3, LoopExists
  <1>9. \A i \in 0 .. N : <<i, g[i]>> \in P
    BY <1>3, <1>5, <1>6, <1>8, LoopKeeps
  <1>10. g[0] = x /\ \A i \in 0 .. N - 1 : g[i + 1] = Relax(src, u, c, g[i], row[i + 1])
    <2>1. g[0] = x /\ \A i \in 0 .. N - 1 : g[i + 1] = step[<<i, g[i]>>]
      BY <1>3, <1>8, LoopValues
    <2>2. \A i \in 0 .. N - 1 : <<i, g[i]>> \in P
      BY <1>3, <1>9
    <2> QED
      BY <1>6, <2>1, <2>2
  <1>11. R(w)
    <2>1. ASSUME NEW i \in 0 .. N PROVE g[i] = IF i = 0 THEN x ELSE Relax(src, u, c, g[i - 1], row[i])
      <3>1. CASE i # 0
        <4>1. i - 1 \in 0 .. N - 1 /\ i - 1 + 1 = i
          BY <1>3, <3>1
        <4> QED
          BY <1>10, <3>1, <4>1
      <3> QED
        BY <1>10, <3>1
    <2>2. g = [i \in 0 .. N |-> g[i]]
      BY <1>8 DEF IsLoop
    <2>3. R(g)
      BY <2>1, <2>2
    <2> QED
      BY <2>3
  <1> HIDE DEF w
  <1>12. w[N] = g[N]
    <2>1. \A i \in 0 .. N : w[i] = IF i = 0 THEN x ELSE Relax(src, u, c, w[i - 1], row[i])
      BY <1>11
    <2>2. w[0] = g[0]
      BY <1>3, <1>10, <2>1
    <2>3. ASSUME NEW i \in 0 .. N - 1, w[i] = g[i] PROVE w[i + 1] = g[i + 1]
      <3>1. i + 1 \in 0 .. N /\ i + 1 # 0 /\ i + 1 - 1 = i
        BY <1>3
      <3> QED
        BY <1>10, <2>1, <2>3, <3>1
    <2>4. \A i \in 0 .. N : w[i] = g[i]
      BY <1>3, <2>2, <2>3, LoopsAlike
    <2> QED
      BY <1>3, <2>4
  <1>13. Relaxing(view, src, u, c, T, N, g[N])
    <2>1. <<N, g[N]>> \in P
      BY <1>3, <1>9
    <2> HIDE DEF T
    <2>2. \A i, y : <<i, y>> \in P => Relaxing(view, src, u, c, T, i, y)
      BY DEF P
    <2> QED
      BY <2>1, <2>2
  <1>14. SearchInv(view, src, g[N])
    BY <1>2, <1>13, RelaxEnds DEF N
  <1>15. ToDo(view, g[N]) \subseteq T
    BY <1>13 DEF Relaxing
  <1> QED
    BY <1>2, <1>7, <1>12, <1>14, <1>15 DEF T

EdgePlaces(view) == UNION {{u} \X DOMAIN view.adj[u] : u \in Nodes(view)}

\* There are no more targets than edges.
LEMMA TargetsFew ==
    ASSUME NEW view, IsView(view)
    PROVE  /\ IsFiniteSet(EdgePlaces(view)) /\ Cardinality(EdgePlaces(view)) \in Nat
           /\ IsFiniteSet(Targets(view)) /\ Cardinality(Targets(view)) <= Cardinality(EdgePlaces(view))
           /\ Targets(view) \subseteq Nodes(view) /\ Cardinality(Targets(view)) \in Nat
  <1> DEFINE Out(u) == {u} \X DOMAIN view.adj[u]
             Outs == {Out(u) : u \in Nodes(view)}
             f == [u \in Nodes(view) |-> Out(u)]
  <1>1. IsFiniteSet(Nodes(view))
    BY NodesFinite
  <1>2. f \in Surjection(Nodes(view), Outs)
    BY DEF Surjection
  <1>3. IsFiniteSet(Outs)
    <2> HIDE DEF f, Outs
    <2> QED
      BY <1>1, <1>2, FS_Surjection
  <1>4. ASSUME NEW u \in Nodes(view) PROVE IsFiniteSet(Out(u))
    <2>1. DOMAIN view.adj[u] = 1 .. Len(view.adj[u]) /\ Len(view.adj[u]) \in Nat
      BY EdgesOut
    <2> DEFINE L == Len(view.adj[u])
    <2>2. IsFiniteSet(1 .. L) /\ IsFiniteSet({u})
      <3>1. L \in Nat
        BY <2>1
      <3> HIDE DEF L
      <3>2. IsFiniteSet(1 .. L)
        BY <3>1, FS_Interval
      <3>3. IsFiniteSet({u})
        BY FS_Singleton
      <3> QED
        BY <3>2, <3>3
    <2>3. IsFiniteSet({u} \X (1 .. Len(view.adj[u])))
      BY <2>2, FS_Product
    <2> QED
      BY <2>1, <2>3
  <1>5. IsFiniteSet(EdgePlaces(view))
    <2>1. \A T \in Outs : IsFiniteSet(T)
      BY <1>4
    <2>2. EdgePlaces(view) = UNION Outs
      BY DEF EdgePlaces
    <2> HIDE DEF Outs
    <2> QED
      BY <1>3, <2>1, <2>2, FS_UNION
  <1> DEFINE g == [p \in EdgePlaces(view) |-> view.adj[p[1]][p[2]][1]]
  <1>6. g \in Surjection(EdgePlaces(view), Targets(view))
    <2>1. ASSUME NEW p \in EdgePlaces(view) PROVE g[p] \in Targets(view)
      <3>1. p[1] \in Nodes(view) /\ p[2] \in DOMAIN view.adj[p[1]]
        BY DEF EdgePlaces
      <3> QED
        BY <3>1 DEF Targets, Neighbours
    <2>2. ASSUME NEW w \in Targets(view) PROVE \E p \in EdgePlaces(view) : g[p] = w
      <3>1. PICK u \in Nodes(view) : w \in Neighbours(view, u)
        BY DEF Targets
      <3>2. PICK i \in DOMAIN view.adj[u] : view.adj[u][i][1] = w
        BY <3>1 DEF Neighbours
      <3>3. <<u, i>> \in EdgePlaces(view)
        BY <3>1, <3>2 DEF EdgePlaces
      <3> QED
        BY <3>2, <3>3
    <2>3. g \in [EdgePlaces(view) -> Targets(view)]
      BY <2>1
    <2> HIDE DEF g
    <2> QED
      BY <2>2, <2>3 DEF Surjection
  <1>7. IsFiniteSet(Targets(view)) /\ Cardinality(Targets(view)) <= Cardinality(EdgePlaces(view))
    <2> HIDE DEF g
    <2> QED
      BY <1>5, <1>6, FS_Surjection
  <1>8. Targets(view) \subseteq Nodes(view)
    BY EdgesOut DEF Targets
  <1> QED
    BY <1>5, <1>7, <1>8, FS_CardinalityType

SearchStart(view, src) ==
    [dist |-> [d \in Nodes(view) |-> IF d = src THEN 0 ELSE Unreached],
     hop  |-> [d \in Nodes(view) |-> Unreached], heap |-> {<<0, src>>}]

Pops(view) == 1 + Cardinality(EdgePlaces(view))

LEMMA SearchBegins ==
    ASSUME NEW view, IsView(view), NEW src \in Nodes(view)
    PROVE  /\ SearchInv(view, src, SearchStart(view, src))
           /\ Cardinality(ToDo(view, SearchStart(view, src))) <= Pops(view)
  <1> DEFINE s == SearchStart(view, src)
  <1>1. SearchTypes(view, s)
    <2>1. [d \in Nodes(view) |-> IF d = src THEN 0 ELSE Unreached] \in [Nodes(view) -> Nat]
      BY NodesFinite
    <2>2. [d \in Nodes(view) |-> Unreached] \in [Nodes(view) -> Nat]
      BY NodesFinite
    <2>3. {<<0, src>>} \in SUBSET (Nat \X Nodes(view))
      OBVIOUS
    <2> QED
      BY <2>1, <2>2, <2>3 DEF SearchTypes, Searches, SearchStart
  <1>2. s.dist[src] = 0 /\ s.heap = {<<0, src>>} /\ \A d \in Nodes(view) : s.hop[d] = Unreached
    BY DEF SearchStart
  <1>3. Reached(view, s) = {src}
    BY DEF Reached, SearchStart, Unreached
  <1>4. PathsFound(view, src, s)
    <2>1. src \in Ball(view, src, 0)
      BY BallGrows
    <2> QED
      BY <1>2, <1>3, <2>1 DEF PathsFound
  <1>5. DistancesFound(view, s)
    <2>1. Cardinality({src}) = 1
      BY FS_Singleton
    <2> QED
      BY <1>2, <1>3, <2>1 DEF DistancesFound
  <1>6. SearchInv(view, src, s)
    BY <1>1, <1>2, <1>3, <1>4, <1>5 DEF SearchInv, SearchOK
  <1>7. ToDo(view, s) = Targets(view) \cup {src}
    BY <1>2, <1>3 DEF ToDo
  <1>8. /\ Cardinality(Targets(view) \cup {src}) <= Cardinality(Targets(view)) + 1
        /\ Cardinality(Targets(view) \cup {src}) \in Nat
    <2>1. IsFiniteSet(Targets(view)) /\ Cardinality(Targets(view)) \in Nat
      BY TargetsFew
    <2>2. Cardinality(Targets(view) \cup {src}) =
              IF src \in Targets(view) THEN Cardinality(Targets(view)) ELSE Cardinality(Targets(view)) + 1
      BY <2>1, FS_AddElement
    <2> QED
      BY <2>1, <2>2
  <1>9. Cardinality(ToDo(view, s)) <= Pops(view)
    BY <1>7, <1>8, TargetsFew DEF Pops
  <1> QED
    BY <1>6, <1>9

LEMMA ToDoFinite ==
    ASSUME NEW view, IsView(view), NEW src, NEW s, SearchInv(view, src, s)
    PROVE  IsFiniteSet(ToDo(view, s)) /\ Cardinality(ToDo(view, s)) \in Nat
  <1>1. ToDo(view, s) \subseteq Nodes(view)
    <2>1. \A e \in s.heap : e[2] \in Nodes(view)
      BY DEF SearchInv, SearchOK, SearchTypes, Searches
    <2> QED
      BY <2>1, TargetsFew DEF ToDo
  <1> QED
    BY <1>1, NodesFinite, FS_Subset, FS_CardinalityType

\* The search ends with its heap empty.
LEMMA SearchEnds ==
    ASSUME NEW view, IsView(view), NEW src \in Nodes(view)
    PROVE  SearchInv(view, src, Settled(view, src)) /\ Settled(view, src).heap = {}
  <1> DEFINE N == Pops(view)
             x == SearchStart(view, src)
             Turn(s) == IF s.heap = {} THEN s ELSE Settle(view, src, s)
             Good(k, s) == SearchInv(view, src, s) /\ (s.heap = {} \/ Cardinality(ToDo(view, s)) <= N - k)
             P == {p \in Nat \X Searches(view) : Good(p[1], p[2])}
             step == [p \in P |-> Turn(p[2])]
  <1>1. N \in Nat
    BY TargetsFew DEF Pops
  <1>2. \A k, s : Good(k, s) => s \in Searches(view)
    BY DEF SearchInv, SearchOK, SearchTypes
  <1>3. Good(0, x)
    BY <1>1, SearchBegins
  <1> HIDE DEF N, x
  <1>4. ASSUME NEW k \in 0 .. N - 1, NEW s, Good(k, s) PROVE Good(k + 1, Turn(s))
    <2>1. CASE s.heap = {}
      BY <1>4, <2>1
    <2>2. CASE s.heap # {}
      <3> DEFINE t == Settle(view, src, s)
      <3>1. /\ SearchInv(view, src, t)
            /\ \E u \in ToDo(view, s) : ToDo(view, t) \subseteq ToDo(view, s) \ {u}
        BY <1>4, <2>2, SettleKeeps
      <3> HIDE DEF t
      <3>2. PICK u \in ToDo(view, s) : ToDo(view, t) \subseteq ToDo(view, s) \ {u}
        BY <3>1
      <3>3. /\ IsFiniteSet(ToDo(view, s)) /\ Cardinality(ToDo(view, s)) \in Nat
            /\ Cardinality(ToDo(view, t)) \in Nat
        BY <1>4, <3>1, ToDoFinite
      <3>4. IsFiniteSet(ToDo(view, s) \ {u}) /\ Cardinality(ToDo(view, s) \ {u}) = Cardinality(ToDo(view, s)) - 1
        BY <3>2, <3>3, FS_RemoveElement
      <3>5. Cardinality(ToDo(view, t)) <= Cardinality(ToDo(view, s) \ {u})
        BY <3>2, <3>4, FS_Subset
      <3>6. Cardinality(ToDo(view, s)) <= N - k
        BY <1>4, <2>2
      <3>7. Cardinality(ToDo(view, t)) <= N - (k + 1)
        BY <1>1, <3>3, <3>4, <3>5, <3>6
      <3> QED
        BY <2>2, <3>1, <3>7 DEF t
    <2> QED
      BY <2>1, <2>2
  <1> HIDE DEF Good, Turn
  <1>5. <<0, x>> \in P
    BY <1>2, <1>3
  <1>6. ASSUME NEW k \in 0 .. N - 1, NEW s, <<k, s>> \in P
        PROVE step[<<k, s>>] = Turn(s) /\ <<k + 1, step[<<k, s>>]>> \in P
    <2>1. Good(k, s) /\ step[<<k, s>>] = Turn(s)
      BY <1>6
    <2>2. Good(k + 1, Turn(s))
      BY <1>4, <2>1
    <2>3. Turn(s) \in Searches(view)
      BY <1>2, <2>2
    <2> QED
      BY <2>1, <2>2, <2>3
  <1> DEFINE R(f) == f = [k \in 0 .. N |-> IF k = 0 THEN x ELSE Turn(f[k - 1])]
             w == CHOOSE f : R(f)
  <1>7. Settled(view, src) = w[N]
    BY DEF Settled, Turn, N, x, SearchStart, Pops, EdgePlaces
  <1> HIDE DEF P, step
  <1>8. PICK g : IsLoop(N, x, step, g)
    BY <1>1, LoopExists
  <1>9. \A k \in 0 .. N : <<k, g[k]>> \in P
    BY <1>1, <1>5, <1>6, <1>8, LoopKeeps
  <1>10. g[0] = x /\ \A k \in 0 .. N - 1 : g[k + 1] = Turn(g[k])
    <2>1. g[0] = x /\ \A k \in 0 .. N - 1 : g[k + 1] = step[<<k, g[k]>>]
      BY <1>1, <1>8, LoopValues
    <2>2. \A k \in 0 .. N - 1 : <<k, g[k]>> \in P
      BY <1>1, <1>9
    <2> QED
      BY <1>6, <2>1, <2>2
  <1>11. R(w)
    <2>1. ASSUME NEW k \in 0 .. N PROVE g[k] = IF k = 0 THEN x ELSE Turn(g[k - 1])
      <3>1. CASE k # 0
        <4>1. k - 1 \in 0 .. N - 1 /\ k - 1 + 1 = k
          BY <1>1, <3>1
        <4> QED
          BY <1>10, <3>1, <4>1
      <3> QED
        BY <1>10, <3>1
    <2>2. g = [k \in 0 .. N |-> g[k]]
      BY <1>8 DEF IsLoop
    <2>3. R(g)
      BY <2>1, <2>2
    <2> QED
      BY <2>3
  <1> HIDE DEF w
  <1>12. w[N] = g[N]
    <2>1. \A k \in 0 .. N : w[k] = IF k = 0 THEN x ELSE Turn(w[k - 1])
      BY <1>11
    <2>2. w[0] = g[0]
      BY <1>1, <1>10, <2>1
    <2>3. ASSUME NEW k \in 0 .. N - 1, w[k] = g[k] PROVE w[k + 1] = g[k + 1]
      <3>1. k + 1 \in 0 .. N /\ k + 1 # 0 /\ k + 1 - 1 = k
        BY <1>1
      <3> QED
        BY <1>10, <2>1, <2>3, <3>1
    <2>4. \A k \in 0 .. N : w[k] = g[k]
      BY <1>1, <2>2, <2>3, LoopsAlike
    <2> QED
      BY <1>1, <2>4
  <1>13. Good(N, g[N])
    <2>1. <<N, g[N]>> \in P
      BY <1>1, <1>9
    <2>2. \A k, s : <<k, s>> \in P => Good(k, s)
      BY DEF P
    <2> QED
      BY <2>1, <2>2
  <1>14. g[N].heap = {}
    <2> SUFFICES ASSUME g[N].heap # {} PROVE FALSE
      OBVIOUS
    <2>1. SearchInv(view, src, g[N]) /\ Cardinality(ToDo(view, g[N])) <= N - N
      BY <1>13 DEF Good
    <2>2. IsFiniteSet(ToDo(view, g[N])) /\ Cardinality(ToDo(view, g[N])) \in Nat
      BY <2>1, ToDoFinite
    <2>3. ToDo(view, g[N]) = {}
      BY <1>1, <2>1, <2>2, FS_EmptySet
    <2> QED
      BY <2>3 DEF ToDo
  <1> QED
    BY <1>7, <1>12, <1>13, <1>14 DEF Good

-----------------------------------------------------------------------------
(* Shortest tables.                                                        *)

\* d is k hops from u.
Apart(view, u, d, k) == k \in Nat /\ k >= 1 /\ d \in Ball(view, u, k) /\ d \notin Ball(view, u, k - 1)

\* A table of u that has the nodes within the given reach, each by a neighbour that is nearer to it.
IsShortest(view, u, reach, table) ==
    /\ DOMAIN table = Ball(view, u, reach) \ {u}
    /\ \A d \in DOMAIN table : \E k \in 1 .. view.n - 1 :
          /\ Apart(view, u, d, k)
          /\ table[d] \in Neighbours(view, u) /\ d \in Ball(view, table[d], k - 1)

\* A search that has ended found all there is, by shortest paths.
LEMMA SearchFinds ==
    ASSUME NEW view, IsView(view), NEW src \in Nodes(view), NEW s, SearchInv(view, src, s), s.heap = {}
    PROVE  \A k \in Nat : \A d \in Ball(view, src, k) : d \in Reached(view, s) /\ s.dist[d] <= k
  <1> DEFINE T == {k \in Nat : \A d \in Ball(view, src, k) : d \in Reached(view, s) /\ s.dist[d] <= k}
  <1>0. s.dist \in [Nodes(view) -> Nat] /\ s.dist[src] = 0
    BY DEF SearchInv, SearchOK, SearchTypes, Searches, PathsFound
  <1>1. 0 \in T
    <2>1. Ball(view, src, 0) = {src}
      BY BallGrows
    <2> QED
      BY <1>0, <2>1 DEF Reached, Unreached
  <1>2. ASSUME NEW k \in Nat, k \in T PROVE k + 1 \in T
    <2> SUFFICES ASSUME NEW d \in Ball(view, src, k + 1) PROVE d \in Reached(view, s) /\ s.dist[d] <= k + 1
      OBVIOUS
    <2>1. PICK x \in Ball(view, src, k) : d = x \/ d \in Neighbours(view, x)
      <3>1. Ball(view, src, k + 1) = Wider(view, Ball(view, src, k))
        BY BallGrows
      <3> QED
        BY <3>1 DEF Wider
    <2>2. x \in Reached(view, s) /\ s.dist[x] <= k
      BY <1>2
    <2>3. Closed(view, s, x)
      BY <2>2 DEF SearchInv
    <2>4. s.dist[x] \in Nat
      BY <1>0, <2>2 DEF Reached
    <2>5. CASE d = x
      BY <2>2, <2>4, <2>5
    <2>6. CASE d \in Neighbours(view, x)
      <3>1. d \in Reached(view, s) /\ s.dist[d] <= s.dist[x] + 1
        BY <2>3, <2>6 DEF Closed
      <3>2. s.dist[d] \in Nat
        BY <1>0, <3>1 DEF Reached
      <3> QED
        BY <2>2, <2>4, <3>1, <3>2
    <2> QED
      BY <2>1, <2>5, <2>6
  <1> HIDE DEF T
  <1>3. \A k \in Nat : k \in T
    BY <1>1, <1>2, CountUp
  <1> QED
    BY <1>3 DEF T

\* Dijkstra's table has every node that is connected, by shortest paths.
LEMMA DijkstraIsShortest ==
    ASSUME NEW view, IsView(view), NEW src \in Nodes(view)
    PROVE  IsShortest(view, src, view.n, Dijkstra(view, src))
  <1> DEFINE s == Settled(view, src)
             table == Dijkstra(view, src)
  <1>1. SearchInv(view, src, s) /\ s.heap = {}
    BY SearchEnds
  <1> HIDE DEF s
  <1>2. /\ s.dist \in [Nodes(view) -> Nat] /\ PathsFound(view, src, s) /\ DistancesFound(view, s)
    BY <1>1 DEF SearchInv, SearchOK, SearchTypes, Searches
  <1>3. \A k \in Nat : \A d \in Ball(view, src, k) : d \in Reached(view, s) /\ s.dist[d] <= k
    BY <1>1, SearchFinds
  <1>4. ASSUME NEW d \in Reached(view, s), d # src
        PROVE  /\ s.dist[d] \in 1 .. view.n - 1 /\ Apart(view, src, d, s.dist[d])
               /\ s.hop[d] \in Neighbours(view, src) /\ s.hop[d] # Unreached
               /\ d \in Ball(view, s.hop[d], s.dist[d] - 1)
    <2>1. /\ s.dist[d] >= 1 /\ s.hop[d] \in Neighbours(view, src) /\ d \in Ball(view, src, s.dist[d])
          /\ d \in Ball(view, s.hop[d], s.dist[d] - 1)
      BY <1>2, <1>4 DEF PathsFound
    <2>2. s.dist[d] \in Nat
      BY <1>2 DEF Reached
    <2>3. s.dist[d] < view.n
      <3>1. s.dist[d] < Cardinality(Reached(view, s))
        BY <1>2 DEF DistancesFound
      <3>2. IsFiniteSet(Nodes(view)) /\ Cardinality(Nodes(view)) = view.n /\ view.n \in Nat
        BY NodesFinite
      <3>3. Reached(view, s) \subseteq Nodes(view)
        BY DEF Reached
      <3>4. Cardinality(Reached(view, s)) <= view.n /\ Cardinality(Reached(view, s)) \in Nat
        BY <3>2, <3>3, FS_Subset, FS_CardinalityType
      <3> QED
        BY <2>2, <3>1, <3>2, <3>4
    <2>4. d \notin Ball(view, src, s.dist[d] - 1)
      <3>1. s.dist[d] - 1 \in Nat /\ ~(s.dist[d] <= s.dist[d] - 1)
        BY <2>1, <2>2
      <3> QED
        BY <1>3, <3>1
    <2>5. s.hop[d] # Unreached
      BY <2>1, EdgesOut, NodesFinite
    <2>6. view.n \in Nat
      BY NodesFinite
    <2> QED
      BY <2>1, <2>2, <2>3, <2>4, <2>5, <2>6 DEF Apart
  <1>5. table = [d \in {d \in Nodes(view) \ {src} : s.hop[d] # Unreached} |-> s.hop[d]]
    BY DEF Dijkstra, Rows, s
  <1>6. {d \in Nodes(view) \ {src} : s.hop[d] # Unreached} = Reached(view, s) \ {src}
    <2>1. \A d \in Nodes(view) \ Reached(view, s) : s.hop[d] = Unreached
      BY <1>2 DEF PathsFound
    <2>2. Reached(view, s) \subseteq Nodes(view)
      BY DEF Reached
    <2> QED
      BY <1>4, <2>1, <2>2
  <1>7. Reached(view, s) \ {src} = Ball(view, src, view.n) \ {src}
    <2>1. view.n \in Nat
      BY NodesFinite
    <2>2. ASSUME NEW d \in Reached(view, s) \ {src} PROVE d \in Ball(view, src, view.n)
      <3>1. s.dist[d] \in Nat /\ s.dist[d] <= view.n /\ d \in Ball(view, src, s.dist[d])
        BY <1>4, <2>1, <2>2 DEF Apart
      <3> QED
        BY <2>1, <3>1, BallWidens
    <2> QED
      BY <1>3, <2>1, <2>2
  <1> HIDE DEF table
  <1>8. DOMAIN table = Reached(view, s) \ {src} /\ \A d \in DOMAIN table : table[d] = s.hop[d]
    BY <1>5, <1>6
  <1>9. IsShortest(view, src, view.n, table)
    BY <1>4, <1>7, <1>8 DEF IsShortest
  <1> QED
    BY <1>9 DEF table

\* No node is farther from another than there are other nodes.
LEMMA BallsEnd ==
    ASSUME NEW view, IsView(view), NEW u \in Nodes(view), NEW k \in Nat, NEW d \in Ball(view, u, k), d # u
    PROVE  \E j \in 1 .. view.n - 1 : j <= k /\ Apart(view, u, d, j)
  <1> DEFINE s == Settled(view, u)
  <1>1. SearchInv(view, u, s) /\ s.heap = {}
    BY SearchEnds
  <1> HIDE DEF s
  <1>2. d \in Reached(view, s) /\ s.dist[d] <= k
    BY <1>1, SearchFinds
  <1>3. d \in DOMAIN Dijkstra(view, u)
    <2>1. s.hop[d] # Unreached
      <3>1. s.hop[d] \in Neighbours(view, u)
        BY <1>1, <1>2 DEF SearchInv, SearchOK, PathsFound
      <3> QED
        BY <3>1, EdgesOut, NodesFinite
    <2> QED
      BY <1>2, <2>1 DEF Dijkstra, Rows, s, Reached
  <1>4. PICK j \in 1 .. view.n - 1 : Apart(view, u, d, j)
    BY <1>3, DijkstraIsShortest DEF IsShortest
  <1>5. j <= k
    <2> SUFFICES ASSUME ~(j <= k) PROVE FALSE
      OBVIOUS
    <2>1. k <= j - 1 /\ j - 1 \in Nat
      BY <1>4
    <2>2. d \in Ball(view, u, j - 1)
      BY <2>1, BallWidens
    <2> QED
      BY <1>4, <2>2 DEF Apart
  <1> QED
    BY <1>4, <1>5

-----------------------------------------------------------------------------
(* Distance vector.                                                        *)

Vectors(view) == [dist : [Nodes(view) -> [Nodes(view) -> Nat]], next : [Nodes(view) -> [Nodes(view) -> Nat]]]

\* A finite distance is that of a path through the neighbour it names, and below the metric's end.
VectorsOK(view, m, t) ==
    /\ t \in Vectors(view)
    /\ \A u \in Nodes(view) : t.dist[u][u] = 0
    /\ \A u, d \in Nodes(view) :
          /\ t.dist[u][d] = Unreached => t.next[u][d] = Unreached
          /\ t.dist[u][d] # Unreached => t.dist[u][d] < m /\ d \in Ball(view, u, t.dist[u][d])
          /\ t.dist[u][d] # Unreached /\ u # d =>
                /\ t.dist[u][d] >= 1 /\ t.next[u][d] \in Neighbours(view, u)
                /\ d \in Ball(view, t.next[u][d], t.dist[u][d] - 1)

NoFarther(view, s, t) == \A u, d \in Nodes(view) : t.dist[u][d] <= s.dist[u][d]

Edge(view, u, i) == [u |-> u, v |-> view.adj[u][i][1], cost |-> view.adj[u][i][2]]

LEMMA ThroughKeeps ==
    ASSUME NEW view, IsView(view), NEW m \in Nat, m < Unreached, NEW t, VectorsOK(view, m, t),
           NEW u \in Nodes(view), NEW i \in 1 .. Len(view.adj[u]),
           NEW x, x = Through(view, m, t, Edge(view, u, i))
    PROVE  /\ VectorsOK(view, m, x) /\ NoFarther(view, t, x)
           /\ \A d \in Nodes(view) : LET far == 1 + t.dist[view.adj[u][i][1]][d]
                                     IN far < m => x.dist[u][d] <= far
  <1> DEFINE v == view.adj[u][i][1]
             better == {d \in Nodes(view) : /\ t.dist[v][d] # Unreached
                                            /\ 1 + t.dist[v][d] < m /\ 1 + t.dist[v][d] < t.dist[u][d]}
             Better(a, d) == a = u /\ d \in better
  <1>1. v \in Neighbours(view, u) /\ v \in Nodes(view) /\ view.adj[u][i][2] = 1 /\ v \in Nat
    <2>1. i \in DOMAIN view.adj[u] /\ Neighbours(view, u) \subseteq Nodes(view)
      BY EdgesOut
    <2>2. v \in Neighbours(view, u) /\ view.adj[u][i][2] = 1
      BY <2>1, EdgesOut
    <2> QED
      BY <2>1, <2>2, NodesFinite
  <1>2. /\ t.dist \in [Nodes(view) -> [Nodes(view) -> Nat]] /\ t.next \in [Nodes(view) -> [Nodes(view) -> Nat]]
    BY DEF VectorsOK, Vectors
  <1>3. /\ Edge(view, u, i).u = u /\ Edge(view, u, i).v = v /\ Edge(view, u, i).cost = 1
    BY <1>1 DEF Edge
  <1> HIDE DEF v
  <1>4. x = [dist |-> [a \in Nodes(view) |-> [d \in Nodes(view) |-> IF Better(a, d) THEN 1 + t.dist[v][d] ELSE t.dist[a][d]]],
             next |-> [a \in Nodes(view) |-> [d \in Nodes(view) |-> IF Better(a, d) THEN v ELSE t.next[a][d]]]]
    BY <1>3 DEF Through
  <1>5. ASSUME NEW a \in Nodes(view), NEW d \in Nodes(view)
        PROVE  /\ x.dist[a][d] = IF Better(a, d) THEN 1 + t.dist[v][d] ELSE t.dist[a][d]
               /\ x.next[a][d] = IF Better(a, d) THEN v ELSE t.next[a][d]
    BY <1>4
  <1>6. x \in Vectors(view)
    <2>1. ASSUME NEW a \in Nodes(view), NEW d \in Nodes(view)
          PROVE  /\ (IF Better(a, d) THEN 1 + t.dist[v][d] ELSE t.dist[a][d]) \in Nat
                 /\ (IF Better(a, d) THEN v ELSE t.next[a][d]) \in Nat
      <3>1. t.dist[v][d] \in Nat /\ t.dist[a][d] \in Nat /\ t.next[a][d] \in Nat
        BY <1>1, <1>2
      <3> QED
        BY <1>1, <3>1
    <2> HIDE DEF Better
    <2> DEFINE D == [a \in Nodes(view) |-> [d \in Nodes(view) |-> IF Better(a, d) THEN 1 + t.dist[v][d] ELSE t.dist[a][d]]]
               H == [a \in Nodes(view) |-> [d \in Nodes(view) |-> IF Better(a, d) THEN v ELSE t.next[a][d]]]
    <2>2. D \in [Nodes(view) -> [Nodes(view) -> Nat]]
      BY <2>1
    <2>3. H \in [Nodes(view) -> [Nodes(view) -> Nat]]
      BY <2>1
    <2>4. x = [dist |-> D, next |-> H]
      BY <1>4
    <2> HIDE DEF D, H
    <2> QED
      BY <2>2, <2>3, <2>4 DEF Vectors
  <1>8. NoFarther(view, t, x)
    <2> SUFFICES ASSUME NEW a \in Nodes(view), NEW d \in Nodes(view) PROVE x.dist[a][d] <= t.dist[a][d]
      BY DEF NoFarther
    <2>1. t.dist[a][d] \in Nat /\ t.dist[v][d] \in Nat
      BY <1>1, <1>2
    <2> QED
      BY <1>5, <2>1
  <1>9. ASSUME NEW d \in Nodes(view), 1 + t.dist[v][d] < m PROVE x.dist[u][d] <= 1 + t.dist[v][d]
    <2>1. t.dist[u][d] \in Nat /\ t.dist[v][d] \in Nat /\ Unreached \in Nat
      BY <1>1, <1>2, NodesFinite
    <2>2. t.dist[v][d] # Unreached
      BY <1>9, <2>1
    <2> QED
      BY <1>5, <1>9, <2>1, <2>2
  <1>10. ASSUME NEW a \in Nodes(view), NEW d \in Nodes(view)
         PROVE  /\ x.dist[d][d] = 0
                /\ x.dist[a][d] = Unreached => x.next[a][d] = Unreached
                /\ x.dist[a][d] # Unreached => x.dist[a][d] < m /\ d \in Ball(view, a, x.dist[a][d])
                /\ x.dist[a][d] # Unreached /\ a # d =>
                      /\ x.dist[a][d] >= 1 /\ x.next[a][d] \in Neighbours(view, a)
                      /\ d \in Ball(view, x.next[a][d], x.dist[a][d] - 1)
    <2>1. t.dist[v][d] \in Nat /\ t.dist[a][d] \in Nat
      BY <1>1, <1>2
    <2>2. x.dist[d][d] = 0
      <3>1. t.dist[d][d] = 0
        BY DEF VectorsOK
      <3>2. ~Better(d, d)
        BY <1>1, <1>2, <3>1
      <3> QED
        BY <1>5, <3>1, <3>2
    <2>3. CASE Better(a, d)
      <3>1. /\ x.dist[a][d] = 1 + t.dist[v][d] /\ x.next[a][d] = v
            /\ t.dist[v][d] # Unreached /\ 1 + t.dist[v][d] < m
        BY <1>5, <2>3
      <3>2. d \in Ball(view, v, t.dist[v][d])
        BY <1>1, <3>1 DEF VectorsOK
      <3>3. d \in Ball(view, u, t.dist[v][d] + 1)
        BY <1>1, <2>1, <3>2, BallFrom
      <3>4. 1 + t.dist[v][d] = t.dist[v][d] + 1 /\ 1 + t.dist[v][d] - 1 = t.dist[v][d] /\ 1 + t.dist[v][d] >= 1
            /\ 1 + t.dist[v][d] # Unreached
        BY <2>1, <3>1, NodesFinite
      <3>5. a = u
        BY <2>3
      <3> HIDE DEF better
      <3>6. x.dist[a][d] < m /\ d \in Ball(view, a, x.dist[a][d])
        BY <3>1, <3>3, <3>4, <3>5
      <3>7. /\ x.dist[a][d] >= 1 /\ x.next[a][d] \in Neighbours(view, a)
            /\ d \in Ball(view, x.next[a][d], x.dist[a][d] - 1)
        <4>1. x.dist[a][d] - 1 = t.dist[v][d] /\ x.dist[a][d] >= 1
          BY <2>1, <3>1
        <4>2. x.next[a][d] \in Neighbours(view, a)
          BY <1>1, <3>1, <3>5
        <4>3. d \in Ball(view, x.next[a][d], t.dist[v][d])
          BY <3>1, <3>2
        <4> QED
          BY <4>1, <4>2, <4>3
      <3>8. x.dist[a][d] # Unreached
        BY <3>1, <3>4
      <3> QED
        BY <2>2, <3>6, <3>7, <3>8
    <2>4. CASE ~Better(a, d)
      <3>1. x.dist[a][d] = t.dist[a][d] /\ x.next[a][d] = t.next[a][d]
        BY <1>5, <2>4
      <3> QED
        BY <2>2, <3>1 DEF VectorsOK
    <2> QED
      BY <2>3, <2>4
  <1>11. VectorsOK(view, m, x)
    BY <1>6, <1>10 DEF VectorsOK
  <1> QED
    BY <1>8, <1>9, <1>11 DEF v

\* The edges of u are relaxed up to the i-th: what was within k hops of a neighbour is known.
RowRelaxed(view, m, u, k, s, i, t) ==
    /\ VectorsOK(view, m, t) /\ NoFarther(view, s, t)
    /\ \A j \in 1 .. i : \A d \in Ball(view, view.adj[u][j][1], k) : k + 1 < m => t.dist[u][d] <= k + 1

\* Everything is known as far as k hops, or as the metric goes.
Known(view, m, k, t) ==
    \A j \in 0 .. k : j < m => \A u \in Nodes(view) : \A d \in Ball(view, u, j) : t.dist[u][d] <= j

LEMMA RowGoesOn ==
    ASSUME NEW view, IsView(view), NEW m \in Nat, m < Unreached, NEW k \in Nat,
           NEW s, s \in Vectors(view), Known(view, m, k, s),
           NEW u \in Nodes(view), NEW i \in Nat, i < Len(view.adj[u]),
           NEW t, RowRelaxed(view, m, u, k, s, i, t),
           NEW x, x = Through(view, m, t, Edge(view, u, i + 1))
    PROVE  RowRelaxed(view, m, u, k, s, i + 1, x)
  <1> DEFINE v == view.adj[u][i + 1][1]
  <1>1. i + 1 \in 1 .. Len(view.adj[u])
    BY EdgesOut
  <1>2. v \in Nodes(view)
    BY <1>1, EdgesOut
  <1>3. VectorsOK(view, m, t) /\ NoFarther(view, s, t)
    BY DEF RowRelaxed
  <1>4. /\ VectorsOK(view, m, x) /\ NoFarther(view, t, x)
        /\ \A d \in Nodes(view) : 1 + t.dist[v][d] < m => x.dist[u][d] <= 1 + t.dist[v][d]
    <2> DEFINE i1 == i + 1
    <2>1. i1 \in 1 .. Len(view.adj[u]) /\ x = Through(view, m, t, Edge(view, u, i1)) /\ v = view.adj[u][i1][1]
      BY <1>1
    <2> HIDE DEF i1, v
    <2> QED
      BY <1>3, <2>1, ThroughKeeps
  <1> HIDE DEF v
  <1>5. \A a, d \in Nodes(view) : s.dist[a][d] \in Nat /\ t.dist[a][d] \in Nat /\ x.dist[a][d] \in Nat
    BY <1>3, <1>4 DEF VectorsOK, Vectors
  <1>6. NoFarther(view, s, x)
    <2> SUFFICES ASSUME NEW a \in Nodes(view), NEW d \in Nodes(view) PROVE x.dist[a][d] <= s.dist[a][d]
      BY DEF NoFarther
    <2>1. x.dist[a][d] <= t.dist[a][d] /\ t.dist[a][d] <= s.dist[a][d]
      BY <1>3, <1>4 DEF NoFarther
    <2> QED
      BY <1>5, <2>1
  <1>7. ASSUME k + 1 < m, NEW j \in 1 .. i + 1, NEW d \in Ball(view, view.adj[u][j][1], k)
        PROVE  x.dist[u][d] <= k + 1
    <2>1. j \in DOMAIN view.adj[u]
      BY <1>1, <1>7, EdgesOut
    <2>2. view.adj[u][j][1] \in Nodes(view)
      BY <2>1, EdgesOut
    <2>3. d \in Nodes(view)
      BY <1>7, <2>2, BallGrows
    <2>4. CASE j \in 1 .. i
      <3>1. t.dist[u][d] <= k + 1
        BY <1>7, <2>4 DEF RowRelaxed
      <3>2. x.dist[u][d] <= t.dist[u][d]
        BY <1>4, <2>3 DEF NoFarther
      <3> QED
        BY <1>5, <2>3, <3>1, <3>2
    <2>5. CASE j = i + 1
      <3>1. s.dist[v][d] <= k
        <4>1. d \in Ball(view, v, k) /\ k \in 0 .. k /\ k < m
          BY <1>7, <2>5 DEF v
        <4> QED
          BY <1>2, <4>1 DEF Known
      <3>2. t.dist[v][d] <= s.dist[v][d]
        BY <1>2, <1>3, <2>3 DEF NoFarther
      <3>3. 1 + t.dist[v][d] <= k + 1 /\ 1 + t.dist[v][d] < m
        BY <1>2, <1>5, <1>7, <2>3, <3>1, <3>2
      <3>4. x.dist[u][d] <= 1 + t.dist[v][d]
        BY <1>4, <2>3, <3>3
      <3> QED
        BY <1>2, <1>5, <2>3, <3>3, <3>4
    <2> QED
      BY <2>4, <2>5
  <1> QED
    BY <1>4, <1>6, <1>7 DEF RowRelaxed

LEMMA RowIsRelaxed ==
    ASSUME NEW view, IsView(view), NEW m \in Nat, m < Unreached, NEW k \in Nat,
           NEW s, VectorsOK(view, m, s), Known(view, m, k, s), NEW u \in Nodes(view)
    PROVE  RowRelaxed(view, m, u, k, s, Len(view.adj[u]), RelaxRow(view, m, u, s))
  <1> DEFINE row == view.adj[u]
             N == Len(row)
             P == {p \in Nat \X Vectors(view) : RowRelaxed(view, m, u, k, s, p[1], p[2])}
             Turn(i, t) == Through(view, m, t, Edge(view, u, i))
             step == [p \in P |-> Turn(p[1] + 1, p[2])]
  <1>1. N \in Nat
    BY EdgesOut
  <1>2. s \in Vectors(view) /\ \A i \in Nat : \A y : RowRelaxed(view, m, u, k, s, i, y) => y \in Vectors(view)
    BY DEF RowRelaxed, VectorsOK
  <1>3. RowRelaxed(view, m, u, k, s, 0, s)
    <2>1. NoFarther(view, s, s)
      BY <1>2 DEF NoFarther, Vectors
    <2> QED
      BY <2>1 DEF RowRelaxed
  <1>4. <<0, s>> \in P
    BY <1>2, <1>3
  <1>5. ASSUME NEW i \in 0 .. N - 1, NEW y, <<i, y>> \in P
        PROVE  step[<<i, y>>] = Turn(i + 1, y) /\ <<i + 1, step[<<i, y>>]>> \in P
    <2>1. RowRelaxed(view, m, u, k, s, i, y) /\ i \in Nat /\ i < Len(view.adj[u])
      BY <1>1, <1>5
    <2>2. RowRelaxed(view, m, u, k, s, i + 1, Turn(i + 1, y))
      BY <1>2, <2>1, RowGoesOn
    <2>3. step[<<i, y>>] = Turn(i + 1, y)
      BY <1>5
    <2> HIDE DEF Turn
    <2> QED
      BY <1>2, <2>1, <2>2, <2>3
  <1> DEFINE R(f) == f = [i \in 0 .. N |-> IF i = 0 THEN s ELSE Turn(i, f[i - 1])]
             w == CHOOSE f : R(f)
  <1>6. RelaxRow(view, m, u, s) = w[N]
    BY DEF RelaxRow, Edge
  <1> HIDE DEF P, step, N, Turn
  <1>7. PICK g : IsLoop(N, s, step, g)
    BY <1>1, LoopExists
  <1>8. \A i \in 0 .. N : <<i, g[i]>> \in P
    BY <1>1, <1>4, <1>5, <1>7, LoopKeeps
  <1>9. g[0] = s /\ \A i \in 0 .. N - 1 : g[i + 1] = Turn(i + 1, g[i])
    <2>1. g[0] = s /\ \A i \in 0 .. N - 1 : g[i + 1] = step[<<i, g[i]>>]
      BY <1>1, <1>7, LoopValues
    <2>2. \A i \in 0 .. N - 1 : <<i, g[i]>> \in P
      BY <1>1, <1>8
    <2> QED
      BY <1>5, <2>1, <2>2
  <1>10. R(w)
    <2>1. ASSUME NEW i \in 0 .. N PROVE g[i] = IF i = 0 THEN s ELSE Turn(i, g[i - 1])
      <3>1. CASE i # 0
        <4>1. i - 1 \in 0 .. N - 1 /\ i - 1 + 1 = i
          BY <1>1, <3>1
        <4> QED
          BY <1>9, <3>1, <4>1
      <3> QED
        BY <1>9, <3>1
    <2>2. g = [i \in 0 .. N |-> g[i]]
      BY <1>7 DEF IsLoop
    <2>3. R(g)
      BY <2>1, <2>2
    <2> QED
      BY <2>3
  <1> HIDE DEF w
  <1>11. w[N] = g[N]
    <2>1. \A i \in 0 .. N : w[i] = IF i = 0 THEN s ELSE Turn(i, w[i - 1])
      BY <1>10
    <2>2. w[0] = g[0]
      BY <1>1, <1>9, <2>1
    <2>3. ASSUME NEW i \in 0 .. N - 1, w[i] = g[i] PROVE w[i + 1] = g[i + 1]
      <3>1. i + 1 \in 0 .. N /\ i + 1 # 0 /\ i + 1 - 1 = i
        BY <1>1
      <3> QED
        BY <1>9, <2>1, <2>3, <3>1
    <2>4. \A i \in 0 .. N : w[i] = g[i]
      BY <1>1, <2>2, <2>3, LoopsAlike
    <2> QED
      BY <1>1, <2>4
  <1>12. RowRelaxed(view, m, u, k, s, N, g[N])
    <2>1. <<N, g[N]>> \in P
      BY <1>1, <1>8
    <2>2. \A i, y : <<i, y>> \in P => RowRelaxed(view, m, u, k, s, i, y)
      BY DEF P
    <2> QED
      BY <2>1, <2>2
  <1> QED
    BY <1>6, <1>11, <1>12 DEF N

\* The rows of the nodes below i are relaxed.
RoundRun(view, m, k, i, t) ==
    /\ VectorsOK(view, m, t) /\ Known(view, m, k, t)
    /\ \A u \in Nodes(view) : u < i =>
          \A v \in Neighbours(view, u) : \A d \in Ball(view, v, k) : k + 1 < m => t.dist[u][d] <= k + 1

LEMMA RoundGoesOn ==
    ASSUME NEW view, IsView(view), NEW m \in Nat, m < Unreached, NEW k \in Nat,
           NEW u \in Nodes(view), NEW t, RoundRun(view, m, k, u, t)
    PROVE  RoundRun(view, m, k, u + 1, RelaxRow(view, m, u, t))
  <1> DEFINE x == RelaxRow(view, m, u, t)
  <1>1. VectorsOK(view, m, t) /\ Known(view, m, k, t)
    BY DEF RoundRun
  <1>2. RowRelaxed(view, m, u, k, t, Len(view.adj[u]), x)
    BY <1>1, RowIsRelaxed
  <1> HIDE DEF x
  <1>3. VectorsOK(view, m, x) /\ NoFarther(view, t, x)
    BY <1>2 DEF RowRelaxed
  <1>4. \A a, d \in Nodes(view) : t.dist[a][d] \in Nat /\ x.dist[a][d] \in Nat /\ x.dist[a][d] <= t.dist[a][d]
    BY <1>1, <1>3 DEF VectorsOK, Vectors, NoFarther
  <1>5. ASSUME NEW b \in Nat, NEW a \in Nodes(view), NEW d \in Nodes(view), t.dist[a][d] <= b PROVE x.dist[a][d] <= b
    <2>1. t.dist[a][d] \in Nat /\ x.dist[a][d] \in Nat /\ x.dist[a][d] <= t.dist[a][d]
      BY <1>4
    <2> QED
      BY <1>5, <2>1
  <1>6. Known(view, m, k, x)
    <2> SUFFICES ASSUME NEW j \in 0 .. k, j < m, NEW a \in Nodes(view), NEW d \in Ball(view, a, j)
                 PROVE  x.dist[a][d] <= j
      BY DEF Known
    <2>1. d \in Nodes(view)
      BY BallGrows
    <2>2. t.dist[a][d] <= j
      BY <1>1 DEF Known
    <2> QED
      BY <1>5, <2>1, <2>2
  <1>7. ASSUME NEW a \in Nodes(view), a < u + 1, NEW v \in Neighbours(view, a), NEW d \in Ball(view, v, k), k + 1 < m
        PROVE  x.dist[a][d] <= k + 1
    <2>1. v \in Nodes(view)
      BY EdgesOut
    <2>2. d \in Nodes(view) /\ a \in Nat /\ u \in Nat
      BY <2>1, BallGrows, NodesFinite
    <2>3. CASE a < u
      <3>1. t.dist[a][d] <= k + 1
        BY <1>7, <2>3 DEF RoundRun
      <3>2. k + 1 \in Nat
        OBVIOUS
      <3> QED
        BY <1>5, <2>2, <3>1, <3>2
    <2>4. CASE a = u
      <3>1. PICK i \in DOMAIN view.adj[u] : view.adj[u][i][1] = v
        BY <1>7, <2>4 DEF Neighbours
      <3>2. i \in 1 .. Len(view.adj[u])
        BY EdgesOut
      <3>3. \A j \in 1 .. Len(view.adj[u]) : \A e \in Ball(view, view.adj[u][j][1], k) : k + 1 < m => x.dist[u][e] <= k + 1
        BY <1>2 DEF RowRelaxed
      <3>4. x.dist[u][d] <= k + 1
        BY <1>7, <3>1, <3>2, <3>3
      <3> QED
        BY <2>4, <3>4
    <2> QED
      BY <1>7, <2>2, <2>3, <2>4
  <1>8. RoundRun(view, m, k, u + 1, x)
    BY <1>3, <1>6, <1>7 DEF RoundRun
  <1> QED
    BY <1>8 DEF x

\* A round learns what is one hop farther.
LEMMA RoundLearns ==
    ASSUME NEW view, IsView(view), NEW m \in Nat, m < Unreached, NEW k \in Nat,
           NEW s, VectorsOK(view, m, s), Known(view, m, k, s)
    PROVE  VectorsOK(view, m, Round(view, m, s)) /\ Known(view, m, k + 1, Round(view, m, s))
  <1> DEFINE N == view.n
             P == {p \in Nat \X Vectors(view) : RoundRun(view, m, k, p[1], p[2])}
             Turn(i, t) == RelaxRow(view, m, i, t)
             step == [p \in P |-> Turn(p[1], p[2])]
  <1>1. N \in Nat /\ \A i \in 0 .. N - 1 : i \in Nodes(view)
    BY NodesFinite DEF Nodes
  <1>2. s \in Vectors(view) /\ \A i \in Nat : \A y : RoundRun(view, m, k, i, y) => y \in Vectors(view)
    BY DEF RoundRun, VectorsOK
  <1>3. RoundRun(view, m, k, 0, s)
    BY NodesFinite DEF RoundRun
  <1>4. <<0, s>> \in P
    BY <1>2, <1>3
  <1>5. ASSUME NEW i \in 0 .. N - 1, NEW y, <<i, y>> \in P
        PROVE  step[<<i, y>>] = Turn(i, y) /\ <<i + 1, step[<<i, y>>]>> \in P
    <2>1. RoundRun(view, m, k, i, y) /\ i \in Nodes(view) /\ i \in Nat
      BY <1>1, <1>5
    <2>2. RoundRun(view, m, k, i + 1, Turn(i, y))
      BY <2>1, RoundGoesOn
    <2>3. step[<<i, y>>] = Turn(i, y)
      BY <1>5
    <2> HIDE DEF Turn
    <2> QED
      BY <1>2, <2>1, <2>2, <2>3
  <1> DEFINE R(f) == f = [i \in 0 .. N |-> IF i = 0 THEN s ELSE Turn(i - 1, f[i - 1])]
             w == CHOOSE f : R(f)
  <1>6. Round(view, m, s) = w[N]
    BY DEF Round
  <1> HIDE DEF P, step, N, Turn
  <1>7. PICK g : IsLoop(N, s, step, g)
    BY <1>1, LoopExists
  <1>8. \A i \in 0 .. N : <<i, g[i]>> \in P
    BY <1>1, <1>4, <1>5, <1>7, LoopKeeps
  <1>9. g[0] = s /\ \A i \in 0 .. N - 1 : g[i + 1] = Turn(i, g[i])
    <2>1. g[0] = s /\ \A i \in 0 .. N - 1 : g[i + 1] = step[<<i, g[i]>>]
      BY <1>1, <1>7, LoopValues
    <2>2. \A i \in 0 .. N - 1 : <<i, g[i]>> \in P
      BY <1>1, <1>8
    <2> QED
      BY <1>5, <2>1, <2>2
  <1>10. R(w)
    <2>1. ASSUME NEW i \in 0 .. N PROVE g[i] = IF i = 0 THEN s ELSE Turn(i - 1, g[i - 1])
      <3>1. CASE i # 0
        <4>1. i - 1 \in 0 .. N - 1 /\ i - 1 + 1 = i
          BY <1>1, <3>1
        <4> QED
          BY <1>9, <3>1, <4>1
      <3> QED
        BY <1>9, <3>1
    <2>2. g = [i \in 0 .. N |-> g[i]]
      BY <1>7 DEF IsLoop
    <2>3. R(g)
      BY <2>1, <2>2
    <2> QED
      BY <2>3
  <1> HIDE DEF w
  <1>11. w[N] = g[N]
    <2>1. \A i \in 0 .. N : w[i] = IF i = 0 THEN s ELSE Turn(i - 1, w[i - 1])
      BY <1>10
    <2>2. w[0] = g[0]
      BY <1>1, <1>9, <2>1
    <2>3. ASSUME NEW i \in 0 .. N - 1, w[i] = g[i] PROVE w[i + 1] = g[i + 1]
      <3>1. i + 1 \in 0 .. N /\ i + 1 # 0 /\ i + 1 - 1 = i
        BY <1>1
      <3> QED
        BY <1>9, <2>1, <2>3, <3>1
    <2>4. \A i \in 0 .. N : w[i] = g[i]
      BY <1>1, <2>2, <2>3, LoopsAlike
    <2> QED
      BY <1>1, <2>4
  <1> DEFINE x == g[N]
  <1>12. RoundRun(view, m, k, N, x)
    <2>1. <<N, g[N]>> \in P
      BY <1>1, <1>8
    <2>2. \A i, y : <<i, y>> \in P => RoundRun(view, m, k, i, y)
      BY DEF P
    <2> QED
      BY <2>1, <2>2
  <1> HIDE DEF x
  <1>13. VectorsOK(view, m, x) /\ Known(view, m, k, x)
    BY <1>12 DEF RoundRun
  <1>14. Known(view, m, k + 1, x)
    <2> SUFFICES ASSUME NEW j \in 0 .. k + 1, j < m, NEW u \in Nodes(view), NEW d \in Ball(view, u, j)
                 PROVE  x.dist[u][d] <= j
      BY DEF Known
    <2>1. CASE j \in 0 .. k
      BY <1>13, <2>1 DEF Known
    <2>2. CASE j = k + 1
      <3>1. d = u \/ \E v \in Neighbours(view, u) : d \in Ball(view, v, k)
        BY <2>2, BallThrough
      <3>2. u < N
        BY NodesFinite DEF N
      <3>3. x.dist[u][u] = 0
        BY <1>13 DEF VectorsOK
      <3> QED
        BY <1>12, <2>2, <3>1, <3>2, <3>3 DEF RoundRun
    <2> QED
      BY <2>1, <2>2
  <1> QED
    BY <1>6, <1>11, <1>13, <1>14 DEF x

VectorStart(view) ==
    [dist |-> [u \in Nodes(view) |-> [d \in Nodes(view) |-> IF u = d THEN 0 ELSE Unreached]],
     next |-> [u \in Nodes(view) |-> [d \in Nodes(view) |-> Unreached]]]

LEMMA VectorsBegin ==
    ASSUME NEW view, IsView(view), NEW m \in Nat \ {0}, m < Unreached
    PROVE  VectorsOK(view, m, VectorStart(view)) /\ Known(view, m, 0, VectorStart(view))
  <1> DEFINE t == VectorStart(view)
  <1>1. \A u, d \in Nodes(view) : t.dist[u][d] = (IF u = d THEN 0 ELSE Unreached) /\ t.next[u][d] = Unreached
    BY DEF VectorStart
  <1>2. t \in Vectors(view)
    <2>1. /\ [u \in Nodes(view) |-> [d \in Nodes(view) |-> IF u = d THEN 0 ELSE Unreached]]
                \in [Nodes(view) -> [Nodes(view) -> Nat]]
          /\ [u \in Nodes(view) |-> [d \in Nodes(view) |-> Unreached]] \in [Nodes(view) -> [Nodes(view) -> Nat]]
      BY NodesFinite
    <2> QED
      BY <2>1 DEF VectorStart, Vectors
  <1>3. Unreached # 0
    BY DEF Unreached
  <1>4. \A u \in Nodes(view) : Ball(view, u, 0) = {u}
    BY BallGrows
  <1> HIDE DEF t
  <1>5. VectorsOK(view, m, t)
    BY <1>1, <1>2, <1>3, <1>4 DEF VectorsOK
  <1>6. Known(view, m, 0, t)
    <2>1. \A j \in 0 .. 0 : j = 0
      OBVIOUS
    <2> QED
      BY <1>1, <1>4, <2>1 DEF Known
  <1> QED
    BY <1>5, <1>6 DEF t

\* Distance-vector's tables have every node within the metric's reach, by shortest paths.
LEMMA DistanceVectorIsShortest ==
    ASSUME NEW view, IsView(view), NEW m \in Nat \ {0}, m < Unreached, NEW u \in Nodes(view)
    PROVE  IsShortest(view, u, m - 1, DistanceVector(view, m)[u])
  <1> DEFINE N == view.n
             s == VectorStart(view)
             Good(k, t) == VectorsOK(view, m, t) /\ Known(view, m, k, t)
             P == {p \in Nat \X Vectors(view) : Good(p[1], p[2])}
             Turn(t) == Round(view, m, t)
             step == [p \in P |-> Turn(p[2])]
  <1>1. N \in Nat
    BY NodesFinite
  <1>2. \A k, y : Good(k, y) => y \in Vectors(view)
    BY DEF VectorsOK
  <1>3. Good(0, s)
    BY VectorsBegin
  <1>4. <<0, s>> \in P
    BY <1>2, <1>3
  <1>5. ASSUME NEW k \in 0 .. N - 1, NEW y, <<k, y>> \in P
        PROVE  step[<<k, y>>] = Turn(y) /\ <<k + 1, step[<<k, y>>]>> \in P
    <2>1. Good(k, y) /\ k \in Nat
      BY <1>1, <1>5
    <2>2. Good(k + 1, Turn(y))
      BY <2>1, RoundLearns
    <2>3. step[<<k, y>>] = Turn(y)
      BY <1>5
    <2> HIDE DEF Turn, Good
    <2> QED
      BY <1>2, <2>1, <2>2, <2>3
  <1> DEFINE R(f) == f = [k \in 0 .. N |-> IF k = 0 THEN s ELSE Turn(f[k - 1])]
             w == CHOOSE f : R(f)
  <1>6. DistanceVector(view, m)[u] = Rows(view, u, w[N].next[u])
    BY DEF DistanceVector, VectorStart
  <1> HIDE DEF P, step, N, Turn, s, Good
  <1>7. PICK g : IsLoop(N, s, step, g)
    BY <1>1, LoopExists
  <1>8. \A k \in 0 .. N : <<k, g[k]>> \in P
    BY <1>1, <1>4, <1>5, <1>7, LoopKeeps
  <1>9. g[0] = s /\ \A k \in 0 .. N - 1 : g[k + 1] = Turn(g[k])
    <2>1. g[0] = s /\ \A k \in 0 .. N - 1 : g[k + 1] = step[<<k, g[k]>>]
      BY <1>1, <1>7, LoopValues
    <2>2. \A k \in 0 .. N - 1 : <<k, g[k]>> \in P
      BY <1>1, <1>8
    <2> QED
      BY <1>5, <2>1, <2>2
  <1>10. R(w)
    <2>1. ASSUME NEW k \in 0 .. N PROVE g[k] = IF k = 0 THEN s ELSE Turn(g[k - 1])
      <3>1. CASE k # 0
        <4>1. k - 1 \in 0 .. N - 1 /\ k - 1 + 1 = k
          BY <1>1, <3>1
        <4> QED
          BY <1>9, <3>1, <4>1
      <3> QED
        BY <1>9, <3>1
    <2>2. g = [k \in 0 .. N |-> g[k]]
      BY <1>7 DEF IsLoop
    <2>3. R(g)
      BY <2>1, <2>2
    <2> QED
      BY <2>3
  <1> HIDE DEF w
  <1>11. w[N] = g[N]
    <2>1. \A k \in 0 .. N : w[k] = IF k = 0 THEN s ELSE Turn(w[k - 1])
      BY <1>10
    <2>2. w[0] = g[0]
      BY <1>1, <1>9, <2>1
    <2>3. ASSUME NEW k \in 0 .. N - 1, w[k] = g[k] PROVE w[k + 1] = g[k + 1]
      <3>1. k + 1 \in 0 .. N /\ k + 1 # 0 /\ k + 1 - 1 = k
        BY <1>1
      <3> QED
        BY <1>9, <2>1, <2>3, <3>1
    <2>4. \A k \in 0 .. N : w[k] = g[k]
      BY <1>1, <2>2, <2>3, LoopsAlike
    <2> QED
      BY <1>1, <2>4
  <1> DEFINE t == g[N]
             table == DistanceVector(view, m)[u]
  <1>12. VectorsOK(view, m, t) /\ Known(view, m, N, t)
    <2>1. <<N, g[N]>> \in P
      BY <1>1, <1>8
    <2>2. \A k, y : <<k, y>> \in P => Good(k, y)
      BY DEF P
    <2> QED
      BY <2>1, <2>2 DEF Good
  <1> HIDE DEF t
  <1>13. table = [d \in {d \in Nodes(view) \ {u} : t.next[u][d] # Unreached} |-> t.next[u][d]]
    BY <1>6, <1>11 DEF Rows, t
  <1> HIDE DEF table
  <1>14. \A d \in Nodes(view) : t.dist[u][d] \in Nat
    BY <1>12 DEF VectorsOK, Vectors
  <1>15. ASSUME NEW d \in Ball(view, u, m - 1), d # u
         PROVE  \E k \in 1 .. N - 1 : k < m /\ Apart(view, u, d, k) /\ t.dist[u][d] <= k
    <2>1. PICK k \in 1 .. N - 1 : k <= m - 1 /\ Apart(view, u, d, k)
      BY <1>15, BallsEnd DEF N
    <2>2. k < m /\ k \in 0 .. N /\ d \in Ball(view, u, k)
      BY <1>1, <2>1 DEF Apart
    <2>3. t.dist[u][d] <= k
      BY <1>12, <2>2 DEF Known
    <2> QED
      BY <2>1, <2>2, <2>3
  <1>16. ASSUME NEW d \in Nodes(view), d # u, t.dist[u][d] # Unreached
         PROVE  /\ d \in Ball(view, u, m - 1) /\ t.next[u][d] # Unreached
                /\ \E k \in 1 .. N - 1 : /\ Apart(view, u, d, k) /\ t.next[u][d] \in Neighbours(view, u)
                                        /\ d \in Ball(view, t.next[u][d], k - 1)
    <2> DEFINE j == t.dist[u][d]
    <2>1. /\ j < m /\ d \in Ball(view, u, j) /\ j >= 1 /\ t.next[u][d] \in Neighbours(view, u)
          /\ d \in Ball(view, t.next[u][d], j - 1)
      BY <1>12, <1>16 DEF VectorsOK
    <2>2. j \in Nat
      BY <1>14
    <2> HIDE DEF j
    <2>3. d \in Ball(view, u, m - 1)
      <3>1. m - 1 \in Nat /\ j <= m - 1
        BY <2>1, <2>2
      <3> QED
        BY <2>1, <2>2, <3>1, BallWidens
    <2>4. t.next[u][d] # Unreached
      BY <2>1, EdgesOut, NodesFinite
    <2>5. PICK k \in 1 .. N - 1 : k < m /\ Apart(view, u, d, k) /\ j <= k
      BY <1>15, <1>16, <2>3 DEF j
    <2>6. j = k
      <3> SUFFICES ASSUME j # k PROVE FALSE
        OBVIOUS
      <3>1. j <= k - 1 /\ k - 1 \in Nat
        BY <2>2, <2>5
      <3>2. d \in Ball(view, u, k - 1)
        BY <2>1, <2>2, <3>1, BallWidens
      <3> QED
        BY <2>5, <3>2 DEF Apart
    <2> QED
      BY <2>1, <2>3, <2>4, <2>5, <2>6
  <1>17. DOMAIN table = Ball(view, u, m - 1) \ {u} /\ \A d \in DOMAIN table : t.dist[u][d] # Unreached
    <2>1. ASSUME NEW d \in Ball(view, u, m - 1) \ {u} PROVE d \in Nodes(view) /\ t.dist[u][d] # Unreached
      <3>1. m - 1 \in Nat
        OBVIOUS
      <3>2. d \in Nodes(view)
        BY <2>1, <3>1, BallGrows
      <3>3. PICK k \in 1 .. N - 1 : k < m /\ t.dist[u][d] <= k
        BY <1>15, <2>1
      <3>4. t.dist[u][d] \in Nat
        BY <1>14, <3>2
      <3> QED
        BY <3>2, <3>3, <3>4, NodesFinite
    <2>2. \A d \in Nodes(view) : t.dist[u][d] = Unreached => t.next[u][d] = Unreached
      BY <1>12 DEF VectorsOK
    <2>3. DOMAIN table = {d \in Nodes(view) \ {u} : t.next[u][d] # Unreached}
      BY <1>13
    <2> QED
      BY <1>16, <2>1, <2>2, <2>3
  <1>18. \A d \in DOMAIN table : table[d] = t.next[u][d] /\ d \in Nodes(view) /\ d # u
    BY <1>13
  <1>19. IsShortest(view, u, m - 1, table)
    BY <1>16, <1>17, <1>18 DEF IsShortest, N
  <1> QED
    BY <1>19 DEF table

-----------------------------------------------------------------------------
(* The views tables are computed over, and the faces they are installed as.*)

\* A row of neighbours of u, each at the other end of a link of L.
RowOf(n, L, u, row) ==
    /\ row \in Seq((0 .. n - 1) \X {1})
    /\ \A i \in DOMAIN row : \E k \in DOMAIN L : {L[k][1], L[k][2]} = {u, row[i][1]}

LEMMA FromLinksIs ==
    ASSUME NEW n \in Nat \ {0}, n <= Unreached, NEW L \in Seq((0 .. n - 1) \X (0 .. n - 1))
    PROVE  /\ IsView(FromLinks(n, L)) /\ FromLinks(n, L).n = n
           /\ \A u \in 0 .. n - 1 : RowOf(n, L, u, FromLinks(n, L).adj[u])
  <1> DEFINE Far(l, u) == IF l[1] = u THEN l[2] ELSE l[1]
             N == Len(L)
             Nd == 0 .. n - 1
             Turn(u, k, row) == IF u \in {L[k][1], L[k][2]} THEN Append(row, <<Far(L[k], u), 1>>) ELSE row
             R(u, f) == f = [k \in 0 .. N |-> IF k = 0 THEN <<>> ELSE Turn(u, k, f[k - 1])]
             w(u) == CHOOSE f : R(u, f)
             adj == [u \in Nd |-> w(u)[N]]
  <1>1. N \in Nat /\ DOMAIN L = 1 .. N /\ \A k \in 1 .. N : L[k] \in Nd \X Nd
    OBVIOUS
  <1>2. FromLinks(n, L) = [n |-> n, pos |-> NoPos, adj |-> adj]
    BY DEF FromLinks
  <1> HIDE DEF N
  <1>3. ASSUME NEW u \in Nd, NEW k \in 1 .. N, NEW row, RowOf(n, L, u, row) PROVE RowOf(n, L, u, Turn(u, k, row))
    <2>1. CASE u \in {L[k][1], L[k][2]}
      <3> DEFINE v == Far(L[k], u)
                 longer == Append(row, <<v, 1>>)
      <3>1. v \in Nd /\ {L[k][1], L[k][2]} = {u, v}
        BY <1>1, <2>1
      <3> HIDE DEF v
      <3>2. row \in Seq(Nd \X {1}) /\ <<v, 1>> \in Nd \X {1}
        BY <1>3, <3>1 DEF RowOf
      <3> HIDE DEF Nd
      <3>3. /\ longer \in Seq(Nd \X {1}) /\ Len(row) \in Nat /\ DOMAIN longer = 1 .. Len(row) + 1
            /\ DOMAIN row = 1 .. Len(row)
            /\ longer[Len(row) + 1] = <<v, 1>> /\ \A i \in 1 .. Len(row) : longer[i] = row[i]
        BY <3>2
      <3> HIDE DEF longer
      <3>4. ASSUME NEW i \in DOMAIN longer PROVE \E j \in DOMAIN L : {L[j][1], L[j][2]} = {u, longer[i][1]}
        <4>1. CASE i = Len(row) + 1
          <5>1. k \in DOMAIN L /\ longer[i][1] = v
            BY <1>1, <3>3, <4>1
          <5> QED
            BY <3>1, <5>1
        <4>2. CASE i \in 1 .. Len(row)
          <5>1. i \in DOMAIN row /\ longer[i] = row[i]
            BY <3>3, <4>2
          <5>2. PICK j \in DOMAIN L : {L[j][1], L[j][2]} = {u, row[i][1]}
            BY <1>3, <5>1 DEF RowOf
          <5>3. {L[j][1], L[j][2]} = {u, longer[i][1]}
            BY <5>1, <5>2, Zenon
          <5> QED
            BY <5>3, Zenon
        <4>3. i = Len(row) + 1 \/ i \in 1 .. Len(row)
          BY <3>3
        <4> QED
          BY <4>1, <4>2, <4>3, Zenon
      <3> QED
        BY <2>1, <3>3, <3>4 DEF RowOf, longer, v, Nd
    <2>2. CASE u \notin {L[k][1], L[k][2]}
      BY <1>3, <2>2
    <2> QED
      BY <2>1, <2>2
  <1>4. \A u \in Nd : RowOf(n, L, u, <<>>)
    BY DEF RowOf
  <1> HIDE DEF Turn
  <1>5. ASSUME NEW u \in Nd PROVE RowOf(n, L, u, w(u)[N])
    <2> DEFINE P == {p \in Nat \X Seq(Nd \X {1}) : RowOf(n, L, u, p[2])}
               step == [p \in P |-> Turn(u, p[1] + 1, p[2])]
    <2>1. \A row : RowOf(n, L, u, row) => row \in Seq(Nd \X {1})
      BY DEF RowOf
    <2>2. <<0, <<>>>> \in P
      BY <1>4, <2>1
    <2>3. ASSUME NEW k \in 0 .. N - 1, NEW y, <<k, y>> \in P
          PROVE  step[<<k, y>>] = Turn(u, k + 1, y) /\ <<k + 1, step[<<k, y>>]>> \in P
      <3>1. RowOf(n, L, u, y) /\ k \in Nat /\ k + 1 \in 1 .. N
        BY <1>1, <2>3
      <3>2. RowOf(n, L, u, Turn(u, k + 1, y))
        BY <1>3, <3>1
      <3>3. step[<<k, y>>] = Turn(u, k + 1, y)
        BY <2>3
      <3> QED
        BY <2>1, <3>1, <3>2, <3>3
    <2> HIDE DEF P, step
    <2> DEFINE e == <<>>
    <2> HIDE DEF e
    <2>4. PICK g : IsLoop(N, e, step, g)
      BY <1>1, LoopExists
    <2>5. \A k \in 0 .. N : <<k, g[k]>> \in P
      <3>1. <<0, e>> \in P
        BY <2>2 DEF e
      <3> QED
        BY <1>1, <2>3, <2>4, <3>1, LoopKeeps
    <2>6. g[0] = e /\ \A k \in 0 .. N - 1 : g[k + 1] = Turn(u, k + 1, g[k])
      <3>1. g[0] = e /\ \A k \in 0 .. N - 1 : g[k + 1] = step[<<k, g[k]>>]
        BY <1>1, <2>4, LoopValues
      <3>2. \A k \in 0 .. N - 1 : <<k, g[k]>> \in P
        BY <1>1, <2>5
      <3> QED
        BY <2>3, <3>1, <3>2
    <2>7. R(u, w(u))
      <3>1. ASSUME NEW k \in 0 .. N PROVE g[k] = IF k = 0 THEN <<>> ELSE Turn(u, k, g[k - 1])
        <4>1. CASE k # 0
          <5>1. k - 1 \in 0 .. N - 1 /\ k - 1 + 1 = k
            BY <1>1, <4>1
          <5> QED
            BY <2>6, <4>1, <5>1
        <4> QED
          BY <2>6, <4>1 DEF e
      <3>2. g = [k \in 0 .. N |-> g[k]]
        BY <2>4 DEF IsLoop
      <3>3. R(u, g)
        BY <3>1, <3>2
      <3> QED
        BY <3>3
    <2> DEFINE f == w(u)
    <2> HIDE DEF w
    <2>8. \A k \in 0 .. N : f[k] = IF k = 0 THEN <<>> ELSE Turn(u, k, f[k - 1])
      BY <2>7
    <2> HIDE DEF f
    <2>9. f[0] = g[0]
      BY <1>1, <2>6, <2>8 DEF e
    <2>10. ASSUME NEW k \in 0 .. N - 1, f[k] = g[k] PROVE f[k + 1] = g[k + 1]
      <3>1. k + 1 \in 0 .. N /\ k + 1 # 0 /\ k + 1 - 1 = k
        BY <1>1
      <3> QED
        BY <2>6, <2>8, <2>10, <3>1
    <2>11. \A k \in 0 .. N : f[k] = g[k]
      <3>1. \A k \in 0 .. N - 1 : f[k] = g[k] => f[k + 1] = g[k + 1]
        BY <2>10
      <3>2. N \in Nat
        BY <1>1
      <3>3. TurnAlike(N, f, g)
        BY <2>9, <3>1 DEF TurnAlike
      <3> QED
        BY <3>2, <3>3, AlikeThroughout, Zenon
    <2>12. <<N, g[N]>> \in P /\ f[N] = g[N]
      BY <1>1, <2>5, <2>11
    <2>13. RowOf(n, L, u, g[N])
      BY <2>12 DEF P
    <2> QED
      BY <2>12, <2>13 DEF f
  <1> HIDE DEF w, R
  <1>6. adj \in [Nd -> Seq(Nd \X {1})]
    BY <1>5 DEF RowOf
  <1>7. \A u \in Nd : RowOf(n, L, u, adj[u])
    BY <1>5
  <1> HIDE DEF adj
  <1> QED
    BY <1>2, <1>6, <1>7 DEF IsView, Nodes

LEMMA UpLinksAre ==
    ASSUME net \in Networks, NEW alive
    PROVE  /\ UpLinks(alive) \in Seq(Node \X Node)
           /\ \A i \in DOMAIN UpLinks(alive) : \E k \in LinkIds : UpLinks(alive)[i] = Links[k]
  <1> DEFINE N == Len(Links)
             Kept(s) == s \in Seq(Node \X Node) /\ \A i \in DOMAIN s : \E k \in LinkIds : s[i] = Links[k]
             Turn(k, s) == IF alive[k] THEN Append(s, Links[k]) ELSE s
             R(f) == f = [k \in 0 .. N |-> IF k = 0 THEN <<>> ELSE Turn(k, f[k - 1])]
             w == CHOOSE f : R(f)
             P == {p \in Nat \X Seq(Node \X Node) : Kept(p[2])}
             step == [p \in P |-> Turn(p[1] + 1, p[2])]
             e == <<>>
  <1>1. N \in Nat /\ LinkIds = 1 .. N /\ \A k \in 1 .. N : Links[k] \in Node \X Node
    <2>1. Links \in Seq(Node \X Node)
      BY NetworkAssumption DEF Links, Node
    <2> QED
      BY <2>1 DEF LinkIds
  <1>2. UpLinks(alive) = w[N]
    BY DEF UpLinks
  <1> HIDE DEF N
  <1>3. ASSUME NEW k \in 1 .. N, NEW s, Kept(s) PROVE Kept(Turn(k, s))
    <2>1. CASE alive[k]
      <3> DEFINE longer == Append(s, Links[k])
      <3>1. s \in Seq(Node \X Node) /\ Links[k] \in Node \X Node
        BY <1>1, <1>3
      <3>2. /\ longer \in Seq(Node \X Node) /\ Len(s) \in Nat /\ DOMAIN longer = 1 .. Len(s) + 1
            /\ DOMAIN s = 1 .. Len(s)
            /\ longer[Len(s) + 1] = Links[k] /\ \A i \in 1 .. Len(s) : longer[i] = s[i]
        BY <3>1
      <3> HIDE DEF longer
      <3>3. ASSUME NEW i \in DOMAIN longer PROVE \E j \in LinkIds : longer[i] = Links[j]
        <4>1. CASE i = Len(s) + 1
          BY <1>1, <3>2, <4>1
        <4>2. CASE i \in 1 .. Len(s)
          BY <1>3, <3>2, <4>2
        <4> QED
          BY <3>2, <4>1, <4>2
      <3> QED
        BY <2>1, <3>2, <3>3 DEF longer
    <2>2. CASE ~alive[k]
      BY <1>3, <2>2
    <2> QED
      BY <2>1, <2>2
  <1>4. Kept(e)
    OBVIOUS
  <1>5. \A s : Kept(s) => s \in Seq(Node \X Node)
    OBVIOUS
  <1> HIDE DEF Turn, Kept
  <1>6. <<0, e>> \in P
    BY <1>4, <1>5
  <1>7. ASSUME NEW k \in 0 .. N - 1, NEW y, <<k, y>> \in P
        PROVE  step[<<k, y>>] = Turn(k + 1, y) /\ <<k + 1, step[<<k, y>>]>> \in P
    <2>1. Kept(y) /\ k \in Nat /\ k + 1 \in 1 .. N
      BY <1>1, <1>7
    <2>2. Kept(Turn(k + 1, y))
      BY <1>3, <2>1
    <2>3. step[<<k, y>>] = Turn(k + 1, y)
      BY <1>7
    <2> QED
      BY <1>5, <2>1, <2>2, <2>3
  <1> HIDE DEF P, step, e
  <1>8. PICK g : IsLoop(N, e, step, g)
    BY <1>1, LoopExists
  <1>9. \A k \in 0 .. N : <<k, g[k]>> \in P
    BY <1>1, <1>6, <1>7, <1>8, LoopKeeps
  <1>10. g[0] = e /\ \A k \in 0 .. N - 1 : g[k + 1] = Turn(k + 1, g[k])
    <2>1. g[0] = e /\ \A k \in 0 .. N - 1 : g[k + 1] = step[<<k, g[k]>>]
      BY <1>1, <1>8, LoopValues
    <2>2. \A k \in 0 .. N - 1 : <<k, g[k]>> \in P
      BY <1>1, <1>9
    <2> QED
      BY <1>7, <2>1, <2>2
  <1>11. R(w)
    <2>1. ASSUME NEW k \in 0 .. N PROVE g[k] = IF k = 0 THEN <<>> ELSE Turn(k, g[k - 1])
      <3>1. CASE k # 0
        <4>1. k - 1 \in 0 .. N - 1 /\ k - 1 + 1 = k
          BY <1>1, <3>1
        <4> QED
          BY <1>10, <3>1, <4>1
      <3> QED
        BY <1>10, <3>1 DEF e
    <2>2. g = [k \in 0 .. N |-> g[k]]
      BY <1>8 DEF IsLoop
    <2>3. R(g)
      BY <2>1, <2>2
    <2> QED
      BY <2>3
  <1> HIDE DEF w
  <1>12. w[N] = g[N]
    <2>1. \A k \in 0 .. N : w[k] = IF k = 0 THEN <<>> ELSE Turn(k, w[k - 1])
      BY <1>11
    <2>2. w[0] = g[0]
      BY <1>1, <1>10, <2>1 DEF e
    <2>3. ASSUME NEW k \in 0 .. N - 1, w[k] = g[k] PROVE w[k + 1] = g[k + 1]
      <3>1. k + 1 \in 0 .. N /\ k + 1 # 0 /\ k + 1 - 1 = k
        BY <1>1
      <3> QED
        BY <1>10, <2>1, <2>3, <3>1
    <2>4. \A k \in 0 .. N : w[k] = g[k]
      <3>1. \A k \in 0 .. N - 1 : w[k] = g[k] => w[k + 1] = g[k + 1]
        BY <2>3
      <3>2. N \in Nat
        BY <1>1
      <3> QED
        BY <2>2, <3>1, <3>2, LoopsAlike, Zenon
    <2> QED
      BY <1>1, <2>4
  <1>13. Kept(g[N])
    <2>1. <<N, g[N]>> \in P
      BY <1>1, <1>9
    <2> QED
      BY <2>1 DEF P
  <1> QED
    BY <1>2, <1>12, <1>13 DEF Kept

LEMMA ViewIs ==
    ASSUME net \in Networks, NEW alive, NEW places, NEW view, view = View(alive, places)
    PROVE  /\ IsView(view) /\ view.n = net.n /\ view.pos = places /\ Nodes(view) = Node
           /\ \A u \in Node : \A v \in Neighbours(view, u) : \E k \in LinkIds : {Links[k][1], Links[k][2]} = {u, v}
  <1> DEFINE L == UpLinks(alive)
             plain == FromLinks(net.n, L)
  <1>1. net.n \in Nat \ {0} /\ net.n <= Unreached /\ Node = 0 .. net.n - 1
    BY NetworkAssumption, SizeAssumption DEF Node
  <1>2. L \in Seq(Node \X Node) /\ \A i \in DOMAIN L : \E k \in LinkIds : L[i] = Links[k]
    BY UpLinksAre
  <1> HIDE DEF L
  <1>3. /\ IsView(plain) /\ plain.n = net.n
        /\ \A u \in Node : RowOf(net.n, L, u, plain.adj[u])
    BY <1>1, <1>2, FromLinksIs
  <1>4. \E adj : plain = [n |-> net.n, pos |-> NoPos, adj |-> adj]
    BY DEF FromLinks
  <1>5. view = [plain EXCEPT !.pos = places]
    BY DEF View, WithPositions, L
  <1> HIDE DEF plain
  <1>6. view.n = net.n /\ view.pos = places /\ view.adj = plain.adj
    BY <1>4, <1>5
  <1>7. Nodes(view) = Node
    BY <1>1, <1>6 DEF Nodes
  <1>8. IsView(view)
    BY <1>3, <1>6 DEF IsView, Nodes
  <1>9. ASSUME NEW u \in Node, NEW v \in Neighbours(view, u)
        PROVE  \E k \in LinkIds : {Links[k][1], Links[k][2]} = {u, v}
    <2>1. PICK i \in DOMAIN plain.adj[u] : plain.adj[u][i][1] = v
      BY <1>6, <1>9 DEF Neighbours
    <2>2. PICK j \in DOMAIN L : {L[j][1], L[j][2]} = {u, v}
      BY <1>3, <2>1 DEF RowOf
    <2> QED
      BY <1>2, <2>2
  <1> QED
    BY <1>6, <1>7, <1>8, <1>9

LEMMA FaceLeads ==
    ASSUME net \in Networks, NEW u \in Node, NEW v \in Node, NEW k \in LinkIds, {Links[k][1], Links[k][2]} = {u, v}
    PROVE  FaceTo(u, v) # 0 /\ OtherEnd(FaceTo(u, v), u) = v
  <1> DEFINE between == {i \in LinkIds : {Links[i][1], Links[i][2]} = {u, v}}
  <1>1. between \in SUBSET (0 .. Len(Links)) /\ Len(Links) \in Nat /\ between # {} /\ 0 \notin between
    BY NetFacts
  <1>2. FaceTo(u, v) = IF between = {} THEN 0 ELSE Max(between)
    BY DEF FaceTo
  <1> HIDE DEF between
  <1>3. FaceTo(u, v) \in between
    BY <1>1, <1>2, GreatestOne
  <1>4. FaceTo(u, v) # 0 /\ {Links[FaceTo(u, v)][1], Links[FaceTo(u, v)][2]} = {u, v}
    BY <1>1, <1>3 DEF between
  <1> QED
    BY <1>4 DEF OtherEnd

\* A table whose hops are neighbours is installed as it is.
LEMMA AllInstalled ==
    ASSUME net \in Networks, NEW alive, NEW places, NEW view, view = View(alive, places), NEW u \in Node,
           NEW table, table = Compute(net.algo, view)[u],
           \A d \in DOMAIN table : table[d] \in Neighbours(view, u),
           NEW installed, installed = RoutesOver(alive, places)[u]
    PROVE  /\ DOMAIN installed = DOMAIN table
           /\ \A d \in DOMAIN table : OtherEnd(installed[d], u) = table[d]
  <1> DEFINE tables == Compute(net.algo, View(alive, places))
  <1>1. RoutesOver(alive, places) = [w \in Node |-> Install(tables, w)]
    BY DEF RoutesOver
  <1>2. table = tables[u]
    OBVIOUS
  <1> HIDE DEF tables
  <1>3. installed = Install(tables, u)
    BY <1>1
  <1>4. ASSUME NEW d \in DOMAIN table PROVE FaceTo(u, table[d]) # 0 /\ OtherEnd(FaceTo(u, table[d]), u) = table[d]
    <2>0. /\ IsView(view) /\ Nodes(view) = Node
          /\ \A w \in Node : \A v \in Neighbours(view, w) : \E k \in LinkIds : {Links[k][1], Links[k][2]} = {w, v}
      <3> HIDE DEF tables
      <3>1. view = View(alive, places)
        OBVIOUS
      <3> QED
        BY ONLY net \in Networks, <3>1, ViewIs
    <2>1. /\ table[d] \in Neighbours(view, u) /\ IsView(view) /\ u \in Nodes(view) /\ Nodes(view) = Node
          /\ \E k \in LinkIds : {Links[k][1], Links[k][2]} = {u, table[d]}
      BY <1>4, <2>0, Zenon
    <2>2. table[d] \in Node
      BY <2>1, EdgesOut
    <2> QED
      BY <2>1, <2>2, FaceLeads
  <1>5. installed = [d \in {d \in DOMAIN table : FaceTo(u, table[d]) # 0} |-> FaceTo(u, table[d])]
    BY <1>2, <1>3 DEF Install
  <1> QED
    BY <1>4, <1>5

LEMMA HopsAre ==
    ASSUME NEW view, IsView(view), NEW u \in Nodes(view), NEW d, NEW k \in 0 .. view.n,
           d \in Ball(view, u, k), k > 0 => d \notin Ball(view, u, k - 1)
    PROVE  Hops(view, u, d) = k
  <1> DEFINE Right(h) == d \in Ball(view, u, h) /\ (h > 0 => d \notin Ball(view, u, h - 1))
             h == Hops(view, u, d)
  <1>1. view.n \in Nat
    BY NodesFinite
  <1>2. h \in 0 .. view.n /\ Right(h)
    BY DEF Hops
  <1> HIDE DEF h
  <1>3. ASSUME NEW i \in 0 .. view.n, NEW j \in 0 .. view.n, Right(i), Right(j), i < j PROVE FALSE
    <2>1. i \in Nat /\ j - 1 \in Nat /\ i <= j - 1 /\ j > 0
      BY <1>1, <1>3
    <2>2. Ball(view, u, i) \subseteq Ball(view, u, j - 1)
      BY <2>1, BallWidens
    <2> QED
      BY <1>3, <2>1, <2>2
  <1>4. ~(h < k) /\ ~(k < h)
    BY <1>2, <1>3
  <1> QED
    BY <1>1, <1>2, <1>4 DEF h

\* By a table of shortest paths each hop is one step nearer.
LEMMA HopsFall ==
    ASSUME NEW view, IsView(view), NEW u \in Nodes(view), NEW d, NEW k \in 1 .. view.n - 1,
           Apart(view, u, d, k), NEW w \in Neighbours(view, u), d \in Ball(view, w, k - 1)
    PROVE  Hops(view, w, d) = Hops(view, u, d) - 1
  <1>1. view.n \in Nat /\ k \in Nat /\ k - 1 \in 0 .. view.n /\ k \in 0 .. view.n
    BY NodesFinite
  <1>2. Hops(view, u, d) = k
    BY <1>1, HopsAre DEF Apart
  <1>3. w \in Nodes(view)
    BY EdgesOut
  <1>4. ASSUME k - 1 > 0 PROVE d \notin Ball(view, w, k - 1 - 1)
    <2>1. k - 1 - 1 \in Nat /\ k - 1 - 1 + 1 = k - 1
      BY <1>1, <1>4
    <2>2. Ball(view, w, k - 1 - 1) \subseteq Ball(view, u, k - 1)
      BY <2>1, BallFrom
    <2> QED
      BY <2>2 DEF Apart
  <1>5. Hops(view, w, d) = k - 1
    BY <1>1, <1>3, <1>4, HopsAre
  <1> QED
    BY <1>2, <1>5

PathAlgos == {"shortest-path", "distance-vector", "olsr"}

LEMMA TablesFound ==
    ASSUME net \in Networks, net.algo \in PathAlgos, NEW view, IsView(view), view.n = net.n, NEW u \in Nodes(view)
    PROVE  IsShortest(view, u, Reach, Compute(net.algo, view)[u])
  <1>1. CASE net.algo = "distance-vector"
    <2>1. Compute(net.algo, view) = DistanceVector(view, 16) /\ Reach = 15
      BY <1>1 DEF Compute, Reach
    <2>2. 16 \in Nat \ {0} /\ 16 < Unreached /\ 16 - 1 = 15
      BY DEF Unreached
    <2>3. IsShortest(view, u, 16 - 1, DistanceVector(view, 16)[u])
      BY <2>2, DistanceVectorIsShortest
    <2> QED
      BY <2>1, <2>2, <2>3
  <1>2. CASE net.algo \in {"shortest-path", "olsr"}
    <2>1. Compute(net.algo, view) = ShortestPath(view) /\ Reach = view.n
      BY <1>2 DEF Compute, Reach
    <2>2. ShortestPath(view)[u] = Dijkstra(view, u)
      BY DEF ShortestPath
    <2> QED
      BY <2>1, <2>2, DijkstraIsShortest
  <1> QED
    BY <1>1, <1>2 DEF PathAlgos

RoutedInv ==
    /\ net \in Networks
    /\ routes = RoutesOver(routedOver.up, routedOver.pos)
    /\ routedOver.pos \in Places \cup {net.pos}

LEMMA PathsHold == RoutedInv => PathsAreShortest
  <1> SUFFICES ASSUME RoutedInv, net.algo \in PathAlgos, NEW u \in Node, NEW d \in Node \ {u}
               PROVE  /\ d \in DOMAIN routes[u] <=> d \in Ball(LastView, u, Reach)
                      /\ d \in DOMAIN routes[u] => Hops(LastView, NextNode(u, d), d) = Hops(LastView, u, d) - 1
    BY DEF PathsAreShortest, PathAlgos
  <1> DEFINE view == LastView
             table == Compute(net.algo, view)[u]
  <1>1. net \in Networks /\ view = View(routedOver.up, routedOver.pos) /\ routes[u] = RoutesOver(routedOver.up, routedOver.pos)[u]
    BY DEF RoutedInv, LastView
  <1> HIDE DEF view
  <1>2. IsView(view) /\ view.n = net.n /\ Nodes(view) = Node
    BY <1>1, ViewIs
  <1>3. IsShortest(view, u, Reach, table)
    BY <1>1, <1>2, TablesFound
  <1> HIDE DEF table
  <1>4. \A e \in DOMAIN table : table[e] \in Neighbours(view, u)
    BY <1>3 DEF IsShortest
  <1>5. DOMAIN routes[u] = DOMAIN table /\ \A e \in DOMAIN table : NextNode(u, e) = table[e]
    BY <1>1, <1>4, AllInstalled DEF NextNode, table
  <1>6. d \in DOMAIN routes[u] <=> d \in Ball(view, u, Reach)
    BY <1>3, <1>5 DEF IsShortest
  <1>7. ASSUME d \in DOMAIN routes[u] PROVE Hops(view, NextNode(u, d), d) = Hops(view, u, d) - 1
    <2>1. PICK k \in 1 .. view.n - 1 :
              Apart(view, u, d, k) /\ table[d] \in Neighbours(view, u) /\ d \in Ball(view, table[d], k - 1)
      BY <1>3, <1>5, <1>7 DEF IsShortest
    <2> QED
      BY <1>2, <1>5, <1>7, <2>1, HopsFall
  <1> QED
    BY <1>6, <1>7 DEF view

LEMMA GapIsNat ==
    ASSUME NEW p \in Point, NEW q \in Point
    PROVE  Dist2(p, q) \in Nat /\ Gap2(p, q) = Dist2(p, q)
  <1>1. ASSUME NEW x \in Int PROVE x * x \in Nat
    <2>1. CASE x >= 0
      BY <2>1
    <2>2. CASE x < 0
      <3>1. 0 - x \in Nat /\ (0 - x) * (0 - x) = x * x
        BY <2>2
      <3> DEFINE y == 0 - x
      <3>2. y \in Nat /\ y * y = x * x
        BY <3>1
      <3> HIDE DEF y
      <3>3. y * y \in Nat
        BY <3>2
      <3> QED
        BY <3>2, <3>3
    <2> QED
      BY <2>1, <2>2
  <1>2. p[1] - q[1] \in Int /\ p[2] - q[2] \in Int
    BY DEF Point
  <1> DEFINE a == (p[1] - q[1]) * (p[1] - q[1])
             b == (p[2] - q[2]) * (p[2] - q[2])
  <1>3. a \in Nat /\ b \in Nat
    BY <1>1, <1>2
  <1>4. Dist2(p, q) = a + b /\ Gap2(p, q) = a + b
    BY DEF Dist2, Gap2
  <1> HIDE DEF a, b
  <1> QED
    BY <1>3, <1>4

\* A greedy hop is a neighbour nearer to the destination.
LEMMA GreedyHopIsCloser ==
    ASSUME NEW view, IsView(view), \A v \in Nodes(view) : view.pos[v] \in Point,
           NEW u \in Nodes(view), NEW d \in Nodes(view), GreedyHop(view, u, d) # Unreached
    PROVE  /\ GreedyHop(view, u, d) \in Neighbours(view, u)
           /\ Dist2(view.pos[GreedyHop(view, u, d)], view.pos[d]) < Dist2(view.pos[u], view.pos[d])
  <1> DEFINE S == Closer(view, u, d)
             Away(i) == Dist2(view.pos[view.adj[u][i][1]], view.pos[d])
             f == [i \in S |-> Away(i)]
             Best(i) == \A j \in S : Away(i) < Away(j) \/ (Away(i) = Away(j) /\ i <= j)
             b == CHOOSE i \in S : Best(i)
  <1>1. S # {} /\ GreedyHop(view, u, d) = view.adj[u][b][1]
    <2>1. GreedyHop(view, u, d) = IF S = {} THEN Unreached ELSE view.adj[u][b][1]
      BY Zenon DEF GreedyHop
    <2> HIDE DEF S, b
    <2> QED
      BY <2>1, Zenon
  <1>2. S \subseteq DOMAIN view.adj[u] /\ DOMAIN view.adj[u] \subseteq Nat
    <2>1. S \subseteq DOMAIN view.adj[u]
      BY Zenon DEF Closer
    <2>2. DOMAIN view.adj[u] = 1 .. Len(view.adj[u]) /\ Len(view.adj[u]) \in Nat
      BY EdgesOut
    <2> HIDE DEF S
    <2> QED
      BY <2>1, <2>2
  <1>3. \A i \in S : view.adj[u][i][1] \in Neighbours(view, u) /\ view.adj[u][i][1] \in Nodes(view)
    BY <1>2, EdgesOut
  <1>4. \A i \in S : Away(i) \in Nat
    BY <1>3, GapIsNat
  <1>5. \E i \in S : Best(i)
    <2>1. S \subseteq Nat /\ \A i \in S : f[i] \in Nat
      BY <1>2, <1>4
    <2>2. \A i \in S : f[i] = Away(i)
      OBVIOUS
    <2> HIDE DEF S, f, Away
    <2>3. PICK i \in S : \A j \in S : f[i] < f[j] \/ (f[i] = f[j] /\ i <= j)
      BY <1>1, <2>1, BestOf
    <2> QED
      BY <2>2, <2>3
  <1>6. b \in S
    <2> HIDE DEF Best, S
    <2> QED
      BY <1>5
  <1>7. Dist2(view.pos[view.adj[u][b][1]], view.pos[d]) < Dist2(view.pos[u], view.pos[d])
    <2> HIDE DEF b
    <2> QED
      BY <1>6 DEF Closer
  <1> HIDE DEF b
  <1> QED
    BY <1>1, <1>3, <1>6, <1>7

LEMMA GreedyHolds == RoutedInv => GreedyGetsCloser
  <1> SUFFICES ASSUME RoutedInv, net.algo = "gpsr-greedy", NEW u \in Node, NEW d \in DOMAIN routes[u]
               PROVE  Gap2(routedOver.pos[NextNode(u, d)], routedOver.pos[d]) < Gap2(routedOver.pos[u], routedOver.pos[d])
    BY DEF GreedyGetsCloser
  <1> DEFINE view == LastView
             table == Compute(net.algo, view)[u]
             hops == [e \in Nodes(view) |-> GreedyHop(view, u, e)]
  <1>1. net \in Networks /\ view = View(routedOver.up, routedOver.pos) /\ routes[u] = RoutesOver(routedOver.up, routedOver.pos)[u]
    BY DEF RoutedInv, LastView
  <1> HIDE DEF view
  <1>2. IsView(view) /\ view.n = net.n /\ Nodes(view) = Node /\ view.pos = routedOver.pos
    BY <1>1, ViewIs
  <1>3. \A v \in Nodes(view) : view.pos[v] \in Point
    BY <1>1, <1>2, NetworkAssumption DEF RoutedInv, Node
  <1>4. table = IF view.pos = NoPos THEN <<>> ELSE Rows(view, u, hops)
    <2>1. Compute(net.algo, view) = GreedyGeographic(view)
      BY DEF Compute
    <2> QED
      BY <1>2, <2>1 DEF GreedyGeographic
  <1> HIDE DEF table, hops
  <1>5. ASSUME NEW e \in DOMAIN table
        PROVE  /\ e \in Nodes(view) /\ table[e] \in Neighbours(view, u)
               /\ Dist2(view.pos[table[e]], view.pos[e]) < Dist2(view.pos[u], view.pos[e])
    <2>1. table = Rows(view, u, hops)
      BY <1>4, <1>5
    <2>2. e \in Nodes(view) /\ hops[e] # Unreached /\ table[e] = hops[e]
      BY <1>5, <2>1 DEF Rows
    <2>3. hops[e] = GreedyHop(view, u, e)
      BY <2>2 DEF hops
    <2> QED
      BY <1>2, <1>3, <2>2, <2>3, GreedyHopIsCloser
  <1>6. DOMAIN routes[u] = DOMAIN table /\ \A e \in DOMAIN table : NextNode(u, e) = table[e]
    <2>1. \A e \in DOMAIN table : table[e] \in Neighbours(view, u)
      BY <1>5
    <2>2. table = Compute(net.algo, view)[u]
      BY DEF table
    <2>3. DOMAIN routes[u] = DOMAIN table /\ \A e \in DOMAIN table : OtherEnd(routes[u][e], u) = table[e]
      BY ONLY <1>1, <2>1, <2>2, u \in Node, AllInstalled
    <2> QED
      BY <2>3 DEF NextNode
  <1> DEFINE v == table[d]
  <1>7. /\ v \in Nodes(view) /\ d \in Nodes(view) /\ u \in Nodes(view) /\ NextNode(u, d) = v
        /\ Dist2(view.pos[v], view.pos[d]) < Dist2(view.pos[u], view.pos[d])
    BY <1>2, <1>5, <1>6, EdgesOut
  <1> HIDE DEF v
  <1>8. /\ Gap2(view.pos[v], view.pos[d]) = Dist2(view.pos[v], view.pos[d])
        /\ Gap2(view.pos[u], view.pos[d]) = Dist2(view.pos[u], view.pos[d])
    BY <1>3, <1>7, GapIsNat
  <1> QED
    BY <1>2, <1>7, <1>8

-----------------------------------------------------------------------------
(* Multipoint relays.                                                      *)

\* After k relays: what is not covered yet is covered by none of them.
Relaying(view, u, k, s) ==
    /\ s \in [mprs : SUBSET Nodes(view), open : SUBSET Nodes(view)]
    /\ s.mprs \subseteq Neighbours(view, u) /\ s.open \subseteq TwoHop(view, u)
    /\ \A x \in TwoHop(view, u) : x \notin s.open => \E w \in s.mprs : x \in Neighbours(view, w)
    /\ \A x \in s.open : \A w \in s.mprs : x \notin Neighbours(view, w)
    /\ s.open = {} \/ Cardinality(s.mprs) = k

\* How many edges lead from v into a set of nodes.
EdgesInto(view, v, S) == Cardinality({i \in DOMAIN view.adj[v] : view.adj[v][i][1] \in S})

LEMMA EdgesIntoBounded ==
    ASSUME NEW view, IsView(view), NEW v \in Nodes(view), NEW S
    PROVE  /\ EdgesInto(view, v, S) \in Nat /\ EdgesInto(view, v, S) <= Cardinality(EdgePlaces(view))
           /\ (\E x \in S : x \in Neighbours(view, v)) => EdgesInto(view, v, S) # 0
  <1> DEFINE I == {i \in DOMAIN view.adj[v] : view.adj[v][i][1] \in S}
             J == {<<v, i>> : i \in I}
             f == [i \in I |-> <<v, i>>]
             g == [j \in J |-> j[2]]
  <1>1. EdgesInto(view, v, S) = Cardinality(I)
    BY DEF EdgesInto
  <1>2. IsFiniteSet(EdgePlaces(view)) /\ Cardinality(EdgePlaces(view)) \in Nat
    BY TargetsFew
  <1>3. J \subseteq EdgePlaces(view)
    BY DEF EdgePlaces
  <1>4. IsFiniteSet(J) /\ Cardinality(J) <= Cardinality(EdgePlaces(view)) /\ Cardinality(J) \in Nat
    <2> HIDE DEF J
    <2> QED
      BY <1>2, <1>3, FS_Subset, FS_CardinalityType
  <1>5. g \in Surjection(J, I)
    <2>1. \A i \in I : <<v, i>> \in J /\ g[<<v, i>>] = i
      OBVIOUS
    <2>2. g \in [J -> I]
      OBVIOUS
    <2> HIDE DEF I, J, g
    <2> QED
      BY <2>1, <2>2 DEF Surjection
  <1>6. IsFiniteSet(I) /\ Cardinality(I) <= Cardinality(J)
    <2> HIDE DEF I, J, g
    <2> QED
      BY <1>4, <1>5, FS_Surjection
  <1>7. Cardinality(I) \in Nat
    <2> HIDE DEF I
    <2> QED
      BY <1>6, FS_CardinalityType
  <1>8. ASSUME NEW x \in S, x \in Neighbours(view, v) PROVE I # {}
    BY <1>8 DEF Neighbours
  <1>9. I # {} => Cardinality(I) # 0
    <2> HIDE DEF I
    <2> QED
      BY <1>6, FS_EmptySet
  <1> HIDE DEF I, J, f, g
  <1> QED
    BY <1>1, <1>2, <1>4, <1>6, <1>7, <1>8, <1>9

\* While anything is open there is a next relay.
LEMMA NextRelay ==
    ASSUME NEW view, IsView(view), NEW u \in Nodes(view), NEW k, NEW s, Relaying(view, u, k, s), s.open # {}
    PROVE  \E b \in Neighbours(view, u) \ s.mprs :
              MoreRelays(view, u, s) = [mprs |-> s.mprs \cup {b}, open |-> s.open \ Neighbours(view, b)]
  <1> DEFINE Covers(v) == Cardinality({i \in DOMAIN view.adj[v] : view.adj[v][i][1] \in s.open})
             left == Neighbours(view, u) \ s.mprs
             Best(v) == \A w \in left : Covers(v) > Covers(w) \/ (Covers(v) = Covers(w) /\ v <= w)
             b == CHOOSE v \in left : Best(v)
             M == Cardinality(EdgePlaces(view))
             f == [v \in left |-> M - Covers(v)]
  <1>1. left \subseteq Nodes(view) /\ left \subseteq Nat
    BY EdgesOut, NodesFinite
  <1>2. \A v \in Nodes(view) : Covers(v) = EdgesInto(view, v, s.open)
    BY DEF EdgesInto
  <1>3. \A v \in left : Covers(v) \in Nat /\ Covers(v) <= M
    BY <1>1, <1>2, EdgesIntoBounded
  <1>4. M \in Nat
    BY TargetsFew
  <1>5. \E v \in left : Covers(v) # 0
    <2>1. PICK x \in s.open : x \in TwoHop(view, u)
      BY DEF Relaying
    <2>2. PICK v \in Neighbours(view, u) : x \in Neighbours(view, v)
      BY <2>1 DEF TwoHop
    <2>3. v \in left
      BY <2>2 DEF Relaying
    <2>4. EdgesInto(view, v, s.open) # 0
      BY <1>1, <2>2, <2>3, EdgesIntoBounded
    <2> QED
      BY <1>1, <1>2, <2>3, <2>4
  <1>6. MoreRelays(view, u, s) = IF s.open = {} \/ \A v \in left : Covers(v) = 0 THEN s
                                 ELSE [mprs |-> s.mprs \cup {b}, open |-> s.open \ Neighbours(view, b)]
    BY Zenon DEF MoreRelays
  <1>7. \E v \in left : Best(v)
    <2>1. left # {} /\ \A v \in left : f[v] \in Nat
      BY <1>3, <1>4, <1>5
    <2>2. \A v \in left : f[v] = M - Covers(v)
      OBVIOUS
    <2> HIDE DEF left, f, Covers, M
    <2>3. PICK v \in left : \A w \in left : f[v] < f[w] \/ (f[v] = f[w] /\ v <= w)
      BY <1>1, <2>1, BestOf
    <2>4. ASSUME NEW w \in left PROVE Covers(v) > Covers(w) \/ (Covers(v) = Covers(w) /\ v <= w)
      <3>1. /\ f[v] < f[w] \/ (f[v] = f[w] /\ v <= w)
            /\ Covers(v) \in Nat /\ Covers(w) \in Nat /\ M \in Nat
        BY <1>3, <1>4, <2>3, <2>4
      <3>2. f[w] = M - Covers(w) /\ f[v] = M - Covers(v)
        BY <2>2
      <3> QED
        BY <2>3, <3>1, <3>2
    <2> QED
      BY <2>4
  <1> HIDE DEF Best, Covers, left
  <1>8. b \in left
    BY <1>7
  <1> HIDE DEF b
  <1>9. MoreRelays(view, u, s) = [mprs |-> s.mprs \cup {b}, open |-> s.open \ Neighbours(view, b)]
    BY <1>5, <1>6
  <1> QED
    BY <1>8, <1>9 DEF left

LEMMA RelaysGoOn ==
    ASSUME NEW view, IsView(view), NEW u \in Nodes(view), NEW k \in Nat, NEW s, Relaying(view, u, k, s)
    PROVE  Relaying(view, u, k + 1, MoreRelays(view, u, s))
  <1>1. CASE s.open = {}
    <2>1. MoreRelays(view, u, s) = s
      BY <1>1 DEF MoreRelays
    <2> QED
      BY <1>1, <2>1 DEF Relaying
  <1>2. CASE s.open # {}
    <2> DEFINE t == MoreRelays(view, u, s)
    <2>1. PICK b \in Neighbours(view, u) \ s.mprs :
              t = [mprs |-> s.mprs \cup {b}, open |-> s.open \ Neighbours(view, b)]
      BY <1>2, NextRelay
    <2> HIDE DEF t
    <2>2. t.mprs = s.mprs \cup {b} /\ t.open = s.open \ Neighbours(view, b)
      BY <2>1
    <2>3. b \in Nodes(view) /\ Neighbours(view, u) \subseteq Nodes(view)
      BY EdgesOut
    <2>4. t \in [mprs : SUBSET Nodes(view), open : SUBSET Nodes(view)]
      BY <2>1, <2>3 DEF Relaying
    <2>5. Cardinality(t.mprs) = k + 1
      <3>1. IsFiniteSet(s.mprs)
        <4>1. s.mprs \subseteq Nodes(view) /\ IsFiniteSet(Nodes(view))
          BY NodesFinite DEF Relaying
        <4> QED
          BY <4>1, FS_Subset
      <3>2. Cardinality(s.mprs \cup {b}) = Cardinality(s.mprs) + 1
        BY <3>1, FS_AddElement
      <3> QED
        BY <1>2, <2>2, <3>2 DEF Relaying
    <2>6. t.mprs \subseteq Neighbours(view, u) /\ t.open \subseteq TwoHop(view, u)
      BY <2>2 DEF Relaying
    <2>7. ASSUME NEW x \in TwoHop(view, u), x \notin t.open PROVE \E w \in t.mprs : x \in Neighbours(view, w)
      BY <2>2, <2>7 DEF Relaying
    <2>8. ASSUME NEW x \in t.open, NEW w \in t.mprs PROVE x \notin Neighbours(view, w)
      BY <2>2, <2>8 DEF Relaying
    <2> QED
      BY <2>4, <2>5, <2>6, <2>7, <2>8 DEF Relaying, t
  <1> QED
    BY <1>1, <1>2

LEMMA RelaysReachAll ==
    ASSUME NEW view, IsView(view), NEW u \in Nodes(view), NEW x \in TwoHop(view, u)
    PROVE  \E v \in MprSet(view, u) : x \in Neighbours(view, v)
  <1> DEFINE N == Cardinality(Neighbours(view, u))
             RelayStates == [mprs : SUBSET Nodes(view), open : SUBSET Nodes(view)]
             s == [mprs |-> {}, open |-> TwoHop(view, u)]
             P == {p \in Nat \X RelayStates : Relaying(view, u, p[1], p[2])}
             Turn(t) == MoreRelays(view, u, t)
             step == [p \in P |-> Turn(p[2])]
  <1>1. N \in Nat /\ IsFiniteSet(Neighbours(view, u))
    <2>1. Neighbours(view, u) \subseteq Nodes(view) /\ IsFiniteSet(Nodes(view))
      BY EdgesOut, NodesFinite
    <2> QED
      BY <2>1, FS_Subset, FS_CardinalityType
  <1>2. \A k, y : Relaying(view, u, k, y) => y \in RelayStates
    BY DEF Relaying
  <1>3. Relaying(view, u, 0, s)
    <2>1. TwoHop(view, u) \subseteq Nodes(view)
      <3>1. \A v \in Nodes(view) : Neighbours(view, v) \subseteq Nodes(view)
        BY EdgesOut
      <3> QED
        BY <3>1 DEF TwoHop
    <2>2. Cardinality({}) = 0
      BY FS_EmptySet
    <2> QED
      BY <2>1, <2>2 DEF Relaying
  <1>4. <<0, s>> \in P
    BY <1>2, <1>3
  <1>5. ASSUME NEW k \in 0 .. N - 1, NEW y, <<k, y>> \in P
        PROVE  step[<<k, y>>] = Turn(y) /\ <<k + 1, step[<<k, y>>]>> \in P
    <2>1. Relaying(view, u, k, y) /\ k \in Nat
      BY <1>1, <1>5
    <2>2. Relaying(view, u, k + 1, Turn(y))
      BY <2>1, RelaysGoOn
    <2>3. step[<<k, y>>] = Turn(y)
      BY <1>5
    <2> HIDE DEF Turn, RelayStates
    <2> QED
      BY <1>2, <2>1, <2>2, <2>3
  <1> DEFINE R(f) == f = [k \in 0 .. N |-> IF k = 0 THEN s ELSE Turn(f[k - 1])]
             w == CHOOSE f : R(f)
  <1>6. MprSet(view, u) = w[N].mprs
    BY DEF MprSet
  <1> HIDE DEF P, step, N, Turn, s, RelayStates
  <1>7. PICK g : IsLoop(N, s, step, g)
    BY <1>1, LoopExists
  <1>8. \A k \in 0 .. N : <<k, g[k]>> \in P
    BY <1>1, <1>4, <1>5, <1>7, LoopKeeps
  <1>9. g[0] = s /\ \A k \in 0 .. N - 1 : g[k + 1] = Turn(g[k])
    <2>1. g[0] = s /\ \A k \in 0 .. N - 1 : g[k + 1] = step[<<k, g[k]>>]
      BY <1>1, <1>7, LoopValues
    <2>2. \A k \in 0 .. N - 1 : <<k, g[k]>> \in P
      BY <1>1, <1>8
    <2> QED
      BY <1>5, <2>1, <2>2
  <1>10. R(w)
    <2>1. ASSUME NEW k \in 0 .. N PROVE g[k] = IF k = 0 THEN s ELSE Turn(g[k - 1])
      <3>1. CASE k # 0
        <4>1. k - 1 \in 0 .. N - 1 /\ k - 1 + 1 = k
          BY <1>1, <3>1
        <4> QED
          BY <1>9, <3>1, <4>1
      <3> QED
        BY <1>9, <3>1
    <2>2. g = [k \in 0 .. N |-> g[k]]
      BY <1>7 DEF IsLoop
    <2>3. R(g)
      BY <2>1, <2>2
    <2> QED
      BY <2>3
  <1> HIDE DEF w
  <1>11. w[N] = g[N]
    <2>1. \A k \in 0 .. N : w[k] = IF k = 0 THEN s ELSE Turn(w[k - 1])
      BY <1>10
    <2>2. w[0] = g[0]
      BY <1>1, <1>9, <2>1
    <2>3. ASSUME NEW k \in 0 .. N - 1, w[k] = g[k] PROVE w[k + 1] = g[k + 1]
      <3>1. k + 1 \in 0 .. N /\ k + 1 # 0 /\ k + 1 - 1 = k
        BY <1>1
      <3> QED
        BY <1>9, <2>1, <2>3, <3>1
    <2>4. \A k \in 0 .. N : w[k] = g[k]
      BY <1>1, <2>2, <2>3, LoopsAlike
    <2> QED
      BY <1>1, <2>4
  <1> DEFINE t == g[N]
  <1>12. Relaying(view, u, N, t)
    <2>1. <<N, g[N]>> \in P
      BY <1>1, <1>8
    <2>2. \A k, y : <<k, y>> \in P => Relaying(view, u, k, y)
      BY DEF P
    <2> QED
      BY <2>1, <2>2
  <1>13. MprSet(view, u) = t.mprs
    BY <1>6, <1>11
  <1> HIDE DEF t
  <1>14. x \notin t.open
    <2> SUFFICES ASSUME x \in t.open PROVE FALSE
      OBVIOUS
    <2>1. t.mprs \subseteq Neighbours(view, u) /\ Cardinality(t.mprs) = N
      BY <1>12 DEF Relaying
    <2>2. t.mprs = Neighbours(view, u)
      BY <1>1, <2>1, FS_Subset DEF N
    <2>3. PICK v \in Neighbours(view, u) : x \in Neighbours(view, v)
      BY DEF TwoHop
    <2> QED
      BY <1>12, <2>2, <2>3 DEF Relaying
  <1> QED
    BY <1>12, <1>13, <1>14 DEF Relaying

LEMMA RelaysHold == RoutedInv => RelaysCover
  <1> SUFFICES ASSUME RoutedInv, NEW u \in Node, NEW x \in TwoHop(LastView, u)
               PROVE  \E v \in MprSet(LastView, u) : x \in Neighbours(LastView, v)
    BY DEF RelaysCover
  <1> DEFINE view == LastView
  <1>1. net \in Networks /\ view = View(routedOver.up, routedOver.pos)
    BY DEF RoutedInv, LastView
  <1> HIDE DEF view
  <1>2. IsView(view) /\ Nodes(view) = Node
    BY <1>1, ViewIs
  <1>3. x \in TwoHop(view, u)
    BY DEF view
  <1> QED
    BY <1>2, <1>3, RelaysReachAll DEF view

-----------------------------------------------------------------------------
(* Each step keeps the tables those of the topology last routed over.      *)

RoutingInv == RoutedInv /\ pos \in Places \cup {net.pos}

LEMMA RoutingInit == IpInit => RoutingInv
  BY DEF IpInit, RoutingInv, RoutedInv

LEMMA RerouteKeeps ==
    ASSUME RoutingInv, net' = net, NEW alive, NEW places \in Places \cup {net.pos},
           pos' = places, Reroute(alive, places)
    PROVE  RoutingInv'
  <1>1. routedOver' = [up |-> alive, pos |-> places] /\ routes' = RoutesOver(alive, places)
    BY DEF Reroute
  <1>2. net' \in Networks /\ pos' \in Places \cup {net'.pos} /\ routedOver'.pos \in Places \cup {net'.pos}
    BY <1>1 DEF RoutingInv, RoutedInv
  <1>3. routes' = RoutesOver(routedOver.up, routedOver.pos)'
    <2>1. RoutesOver(routedOver.up, routedOver.pos)' = RoutesOver(routedOver'.up, routedOver'.pos)
      BY DEF RoutesOver, Compute, Install, FaceTo, Node, View, UpLinks, Links, LinkIds
    <2> QED
      BY <1>1, <2>1
  <1> QED
    BY <1>2, <1>3 DEF RoutingInv, RoutedInv

LEMMA RoutesKept ==
    ASSUME RoutingInv, UNCHANGED <<net, routes, routedOver, pos>>
    PROVE  RoutingInv'
  <1>1. RoutesOver(routedOver.up, routedOver.pos)' = RoutesOver(routedOver.up, routedOver.pos)
    BY DEF RoutesOver, Compute, Install, FaceTo, Node, View, UpLinks, Links, LinkIds
  <1> QED
    BY <1>1 DEF RoutingInv, RoutedInv

LEMMA RoutingNext == RoutingInv /\ [IpNext]_ipVars => RoutingInv'
  <1> SUFFICES ASSUME RoutingInv, [IpNext]_ipVars PROVE RoutingInv'
    OBVIOUS
  <1>1. ASSUME NEW i \in LinkIds, NEW alive \in BOOLEAN, SetLink(i, alive) PROVE RoutingInv'
    BY <1>1, RoutesKept DEF SetLink
  <1>2. CASE RerouteWith
    <2>1. pos \in Places \cup {net.pos} /\ net' = net /\ pos' = pos /\ Reroute(up, pos)
      BY <1>2 DEF RerouteWith, RoutingInv
    <2> QED
      BY <2>1, RerouteKeeps
  <1>3. ASSUME NEW places \in Places, Reconnect(places) \/ ReconnectWifi(places) \/ ReconnectLora(places)
        PROVE  RoutingInv'
    <2>1. net' = net /\ pos' = places /\ Reroute(up', places)
      BY <1>3 DEF Reconnect, ReconnectWifi, ReconnectLora
    <2> QED
      BY <2>1, RerouteKeeps
  <1>4. ASSUME NEW i \in LinkIds, NEW u \in Node, Receive(i, u) PROVE RoutingInv'
    BY <1>4, RoutesKept DEF Receive, topo
  <1>5. ASSUME NEW t \in Tasks, AirtimeOver(t, t[2]) PROVE RoutingInv'
    BY <1>5, RoutesKept DEF AirtimeOver, topo
  <1>6. CASE Ping \/ GotReply \/ LifetimeOver \/ Tick
    BY <1>6, RoutesKept DEF Ping, GotReply, LifetimeOver, Tick, topo
  <1>7. CASE UNCHANGED ipVars
    BY <1>7, RoutesKept DEF ipVars, topo
  <1> QED
    BY <1>1, <1>2, <1>3, <1>4, <1>5, <1>6, <1>7 DEF IpNext

-----------------------------------------------------------------------------
(* The theorems.                                                           *)

IpInv == TrafficInv /\ AirInv

LEMMA IpInvariant == IpSpec => []IpInv
  <1>1. IpInit => IpInv
    BY TrafficInit, AirInit DEF IpInv
  <1>2. IpInv /\ [IpNext]_ipVars => IpInv'
    <2> SUFFICES ASSUME IpInv, [IpNext]_ipVars PROVE IpInv'
      OBVIOUS
    <2>1. TrafficInv /\ AirInv
      BY DEF IpInv
    <2>2. CASE IpNext
      <3>1. Len(airLog) \in Nat
        BY <2>1 DEF AirInv, AirTypes
      <3> QED
        BY <2>1, <2>2, <3>1, TrafficNext, AirNext DEF IpInv
    <2>3. CASE UNCHANGED ipVars
      <3>1. UNCHANGED traffic /\ UNCHANGED <<net, routes>>
        BY <2>3 DEF ipVars, topo, traffic
      <3>2. /\ UNCHANGED <<dutyEnforced, windows, nextAllowed, airLog>> /\ mpos' = mpos
            /\ net' = net /\ now' = now /\ onAir' = onAir /\ airLog' = airLog
        BY <2>3 DEF ipVars, medium
      <3>3. TasksOnAir' /\ mpos' \in Positions
        BY <2>1, <3>2 DEF AirInv, AirTypes, TasksOnAir, Tasks, LinkIds, Links, Node
      <3>4. AirInv'
        BY <2>1, <3>2, <3>3, QuietKeepsAir
      <3>5. TrafficInv'
        BY <2>1, <3>1, RoutesStay, TopologyKeeps
      <3> QED
        BY <3>4, <3>5 DEF IpInv
    <2> QED
      BY <2>2, <2>3
  <1> QED
    BY <1>1, <1>2, PTL DEF IpSpec

\* Every packet is in flight or accounted for exactly once, every ping received, lost or
\* outstanding, whatever the links, routes and the medium do (Inner::handle, send_on, flow_loop).
THEOREM CountersAreTrue == IpSpec => []TrafficSound
  <1>1. IpInv => TrafficSound
    BY DEF IpInv, TrafficInv, TrafficSound
  <1> QED
    BY <1>1, IpInvariant, PTL

\* However the tables loop, a packet is forwarded less often than its time to live (Inner::handle).
THEOREM NoPacketCirclesForever == IpSpec => []LoopsDieOut
  <1>1. IpInv => LoopsDieOut
    <2> SUFFICES ASSUME IpInv PROVE LoopsDieOut
      OBVIOUS
    <2>1. TrafficTypes /\ HopsLeft
      BY DEF IpInv, TrafficInv
    <2>2. MayHop(wire, onAir) \in Nat
      BY <2>1, FlightCounts DEF TrafficTypes
    <2>3. stats.forwarded \in Nat /\ made \in Nat
      BY <2>1 DEF TrafficTypes, Counters
    <2>4. Allowed(made) \in Nat
      BY <2>3, AllowedMore
    <2>5. stats.forwarded <= Allowed(made)
      BY <2>1, <2>2, <2>3, <2>4 DEF HopsLeft
    <2> QED
      BY <2>5 DEF LoopsDieOut, Allowed
  <1> QED
    BY <1>1, IpInvariant, PTL

\* The medium decides each frame by every frame that was on the air with it and regulates each
\* node by every frame it sent, although it forgets windows as it goes (begin_tx, resolve).
THEOREM ForgettingIsSound == IpSpec => []LoraSound
  <1>1. IpInv => LoraSound
    BY VerdictsAreSound DEF IpInv, AirInv, LoraSound
  <1> QED
    BY <1>1, IpInvariant, PTL

\* However often links were cut and nodes moved, between any two steps the tables are those of
\* the topology they were last computed over, in networks of every size: shortest and without a
\* loop, strictly nearer, relayed in full (routing.rs, reroute_with).
THEOREM TablesAreShortest == IpSpec => [](TablesAreRight /\ TablesSound)
  <1>1. RoutingInv => TablesAreRight /\ TablesSound
    BY PathsHold, GreedyHolds, RelaysHold DEF RoutingInv, TablesAreRight, TablesSound
  <1> QED
    BY <1>1, RoutingInit, RoutingNext, PTL DEF IpSpec
=============================================================================
