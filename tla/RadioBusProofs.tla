---------------------------- MODULE RadioBusProofs ----------------------------
(***************************************************************************)
(* Proofs about RadioBus: what the radio log says is sound (AirSound), and *)
(* listen-before-talk serialises the medium (CsmaSerialises), for every    *)
(* placement of radios, channels, airtimes and ranges.                     *)
(*                                                                         *)
(* Both need two things of the lab, which the theorems state: the radios'  *)
(* clocks agree (the bus stamps frames with the sender's clock), and no    *)
(* more than IN_AIR_CAP frames are on the air at once (the bus forgets     *)
(* the oldest beyond that).  The inductive invariant RadioInv says that    *)
(* the bus then knows every frame on the air (Known), that a frame on its  *)
(* way to a receiver met no interferer there when it started (Unhindered)  *)
(* and that every later interferer has marked it (Marked).                 *)
(***************************************************************************)
EXTENDS RadioBus, FiniteSetTheorems, WellFoundedInduction, TLAPS

\* The radios' clocks agree.
ClocksAgree == \A m, n \in Node : Skew[m] = Skew[n]

\* The bus never holds more frames than it may.
CapSuffices == Cardinality(inAir) <= InAirCap

Frame == [node : Node, at : Nat, start : Int, end : Int, air : Nat \ {0}, forced : BOOLEAN]

CsmaTypes == csma = [n \in Node |-> csma[n]] /\ \A n \in Node : csma[n].attempt \in 0..MaxAttempts

Types ==
    /\ now \in 0..MaxTime
    /\ air \in Seq(Frame)
    /\ inAir \subseteq Fr /\ IsFiniteSet(inAir) /\ Cardinality(inAir) <= InAirCap + 1
    /\ collided \subseteq Fr \X Node
    /\ flight \subseteq [frame : Nat, rx : Node, due : Nat]
    /\ CsmaTypes

\* Frames are numbered in the order they were sent, and end by the clock they started by.
Ordered ==
    /\ \A f \in Fr : /\ air[f].at <= now
                     /\ \A n \in Node : air[f].end - Skew[n] = air[f].at + air[f].air
    /\ \A f, g \in Fr : f < g => air[f].at <= air[g].at

\* The bus knows every frame on the air.
Known == \A f \in Fr : air[f].at + air[f].air > now => f \in inAir

\* No frame on the air when f started interferes with it at r.
Heard(f, r) ==
    \A g \in Fr : g < f /\ Clash(f, g) => air[g].node = r \/ Dist(air[g].node, r) > Interfere

Landing(d) == /\ d.frame \in Fr /\ d.rx \in InRange(air[d.frame].node)
              /\ d.due = air[d.frame].at + ReceiveDelay(air[d.frame].air)

Unhindered ==
    /\ \A d \in flight : Landing(d) /\ Heard(d.frame, d.rx)
    /\ \A v \in verdict :
          /\ v.frame \in Fr /\ v.rx \in Node
          /\ v.reason = "delivered" =>
                /\ v.rx \in InRange(air[v.frame].node) /\ Heard(v.frame, v.rx)
                /\ air[v.frame].at + air[v.frame].air <= now
                /\ <<v.frame, v.rx>> \notin collided

Silent(r, t) == \A h \in Fr : air[h].node = r => ~OnAirAt(h, t)

\* A later frame that r could have decoded has marked every frame it met.
Marked ==
    \A f, g \in Fr : \A r \in Node :
        /\ f < g /\ Clash(f, g) /\ r # air[f].node /\ Dist(air[f].node, r) <= Interfere
        /\ r \in InRange(air[g].node) /\ Silent(r, air[g].at)
        => <<f, r>> \in collided

MarkedWithCause ==
    \A p \in collided :
        \E g \in Fr : Clash(p[1], g) /\ air[g].node # p[2] /\ Dist(air[g].node, p[2]) <= Interfere

RadioInv ==
    /\ Types /\ Ordered /\ Known /\ Unhindered /\ Marked /\ MarkedWithCause
    /\ LossJustified /\ OneVerdict /\ CsmaSerialises

-----------------------------------------------------------------------------
(* Distances and the frames on the air.                                    *)

LEMMA DistSound ==
    ASSUME NEW m \in Node, NEW n \in Node
    PROVE  Dist(m, n) \in Nat /\ Dist(m, n) = Dist(n, m)
  BY PlaceAssumption DEF Dist, Abs

\* The k least of fewer than k are all of them.
LEMMA NobodyEvicted ==
    ASSUME NEW S, IsFiniteSet(S), S \subseteq Nat, NEW k \in Nat, Cardinality(S) <= k,
           NEW f \in S
    PROVE  Cardinality({g \in S : g > f}) < k
  <1> DEFINE T == {g \in S : g > f}
  <1>1. T \subseteq S \ {f}
    OBVIOUS
  <1>2. IsFiniteSet(S \ {f}) /\ Cardinality(S \ {f}) = Cardinality(S) - 1
    BY FS_RemoveElement
  <1>3. Cardinality(T) <= Cardinality(S \ {f}) /\ IsFiniteSet(T)
    BY <1>1, <1>2, FS_Subset
  <1>4. Cardinality(T) \in Nat /\ Cardinality(S) \in Nat
    BY <1>3, FS_CardinalityType
  <1> QED
    BY <1>2, <1>3, <1>4

\* A set of naturals has a least one.
LEMMA LeastOne ==
    ASSUME NEW S \in SUBSET Nat, S # {}
    PROVE  \E f \in S : \A g \in S : f <= g
  <1>1. PICK f \in S : \A g \in S : ~(<<g, f>> \in OpToRel(<, Nat))
    BY NatLessThanWellFounded, WFMin
  <1>2. ASSUME NEW g \in S PROVE f <= g
    <2>1. ~(g < f)
      BY <1>1, Zenon DEF OpToRel
    <2>2. g \in Nat /\ f \in Nat
      OBVIOUS
    <2> QED
      BY <2>1, <2>2
  <1> QED
    BY <1>2

\* The bus keeps no more frames than it may.
LEMMA OnAirBounded ==
    ASSUME NEW S \in SUBSET Nat, IsFiniteSet(S), NEW k \in Nat,
           NEW K, K = {f \in S : Cardinality({g \in S : g > f}) < k}
    PROVE  IsFiniteSet(K) /\ Cardinality(K) <= k
  <1>1. IsFiniteSet(K)
    BY FS_Subset
  <1>2. CASE K = {}
    <2>1. Cardinality(K) = 0
      BY <1>2, FS_EmptySet, Zenon
    <2> QED
      BY <1>1, <2>1
  <1>3. CASE K # {}
    <2>1. PICK f \in K : \A g \in K : f <= g
      BY <1>3, LeastOne
    <2> DEFINE T == {g \in S : g > f}
    <2>2. IsFiniteSet(T) /\ Cardinality(T) < k
      BY <2>1, FS_Subset
    <2>3. K \subseteq T \cup {f}
      <3>1. SUFFICES ASSUME NEW g \in K, g # f PROVE g \in T
        OBVIOUS
      <3>2. g \in Nat /\ f \in Nat /\ g \in S /\ f <= g
        BY <2>1
      <3> QED
        BY <3>1, <3>2
    <2> HIDE DEF T
    <2>4. IsFiniteSet(T \cup {f}) /\ Cardinality(T \cup {f}) <= Cardinality(T) + 1
      <3>1. /\ IsFiniteSet(T \cup {f})
            /\ Cardinality(T \cup {f}) = IF f \in T THEN Cardinality(T) ELSE Cardinality(T) + 1
        BY <2>2, FS_AddElement
      <3>2. Cardinality(T) \in Nat
        BY <2>2, FS_CardinalityType
      <3> QED
        BY <3>1, <3>2
    <2>5. Cardinality(K) <= Cardinality(T \cup {f})
      BY <2>3, <2>4, FS_Subset
    <2>6. Cardinality(K) \in Nat /\ Cardinality(T) \in Nat /\ Cardinality(T \cup {f}) \in Nat
      BY <1>1, <2>2, <2>4, FS_CardinalityType
    <2> QED
      BY <1>1, <2>2, <2>4, <2>5, <2>6
  <1> QED
    BY <1>1, <1>2, <1>3


-----------------------------------------------------------------------------
(* A transmission.                                                         *)

\* With clocks that agree and room for every frame, the bus sees exactly the frames on the air.
LEMMA OnTheBus ==
    ASSUME RadioInv, CapSuffices, NEW n \in Node
    PROVE  \A f : f \in OnAir(Clock(n)) <=> f \in Fr /\ air[f].at + air[f].air > now
  <1> DEFINE live == {f \in inAir : air[f].end > Clock(n)}
  <1>1. /\ inAir \subseteq Fr /\ IsFiniteSet(inAir) /\ Fr \subseteq Nat /\ now \in Nat
        /\ air \in Seq(Frame)
    BY BoundsAssumption DEF RadioInv, Types, Fr
  <1>2. \A f \in Fr : air[f].at \in Nat /\ air[f].air \in Nat /\ air[f].end \in Int
    <2>1. \A f \in Fr : air[f] \in Frame
      BY <1>1 DEF Fr
    <2> QED
      BY <2>1 DEF Frame
  <1>3. Skew[n] \in Int
    BY PlaceAssumption
  <1>4. \A f \in Fr : air[f].end - Skew[n] = air[f].at + air[f].air
    BY DEF RadioInv, Ordered
  <1>5. \A f \in Fr : air[f].end > Clock(n) <=> air[f].at + air[f].air > now
    BY <1>1, <1>2, <1>3, <1>4 DEF Clock
  <1>6. IsFiniteSet(live) /\ Cardinality(live) <= Cardinality(inAir) /\ live \subseteq Nat
    BY <1>1, FS_Subset
  <1>7. Cardinality(live) <= InAirCap /\ InAirCap \in Nat
    <2>1. Cardinality(live) \in Nat /\ Cardinality(inAir) \in Nat
      BY <1>1, <1>6, FS_CardinalityType
    <2> QED
      BY <1>6, <2>1, BoundsAssumption DEF CapSuffices
  <1>8. \A f \in live : Cardinality({g \in live : g > f}) < InAirCap
    BY <1>6, <1>7, NobodyEvicted
  <1>9. OnAir(Clock(n)) = live
    BY <1>8 DEF OnAir
  <1>10. \A f \in Fr : air[f].at + air[f].air > now => f \in inAir
    BY DEF RadioInv, Known
  <1> QED
    BY <1>1, <1>5, <1>9, <1>10

\* G is F with one more frame.
Longer(F, G, r) ==
    /\ G \in Seq(Frame) /\ Len(G) = Len(F) + 1
    /\ \A f \in 1..Len(F) : f \in 1..Len(G) /\ G[f] = F[f]
    /\ \A f \in 1..Len(G) : f \in 1..Len(F) \/ f = Len(F) + 1
    /\ Len(F) + 1 \in 1..Len(G) /\ \A f \in 1..Len(F) : f < Len(F) + 1
    /\ G[Len(F) + 1] = r

LEMMA AppendIsLonger ==
    ASSUME NEW F \in Seq(Frame), NEW r \in Frame
    PROVE  Longer(F, Append(F, r), r)
  BY DEF Longer

\* Sending loses no frame, and marks those it meets.
LEMMA TransmitStep ==
    ASSUME RadioInv, CapSuffices, ClocksAgree, now' = now, CsmaTypes',
           NEW n \in Node, NEW a \in Airtimes, NEW b \in BOOLEAN, Transmit(n, a, b),
           b \/ Sensed(n) = {}
    PROVE  RadioInv'
  <1>F. PICK F : F = Len(air) + 1
    OBVIOUS
  <1>r. PICK r : r = [node |-> n, at |-> now, start |-> Clock(n), end |-> Clock(n) + a,
                      air |-> a, forced |-> b]
    OBVIOUS
  <1>h. PICK heard : heard = {x \in InRange(n) : Clear(n, x)}
    OBVIOUS
  <1>0. PICK survivors \in SUBSET heard :
           /\ air' = Append(air, r)
           /\ inAir' = OnAir(Clock(n)) \cup {F}
           /\ collided' = collided \cup RetroCollide(n)
           /\ flight' = flight \cup
                 {[frame |-> F, rx |-> x, due |-> now + ReceiveDelay(a)] : x \in survivors}
           /\ verdict' = verdict
                 \cup {[frame |-> F, rx |-> x, reason |-> "half_duplex"] :
                           x \in {y \in InRange(n) : Transmitting(n, y)}}
                 \cup {[frame |-> F, rx |-> x, reason |-> "collision"] :
                           x \in {y \in InRange(n) : Collides(n, y)}}
                 \cup {[frame |-> F, rx |-> x, reason |-> "erased"] : x \in heard \ survivors}
    <2>1. PICK survivors \in IF Erasure THEN SUBSET heard ELSE {heard} :
             /\ air' = Append(air, [node |-> n, at |-> now, start |-> Clock(n),
                                    end |-> Clock(n) + a, air |-> a, forced |-> b])
             /\ inAir' = OnAir(Clock(n)) \cup {Len(air) + 1}
             /\ collided' = collided \cup RetroCollide(n)
             /\ flight' = flight \cup
                   {[frame |-> Len(air) + 1, rx |-> x, due |-> now + ReceiveDelay(a)] :
                       x \in survivors}
             /\ verdict' = verdict
                   \cup {[frame |-> Len(air) + 1, rx |-> x, reason |-> "half_duplex"] :
                             x \in {y \in InRange(n) : Transmitting(n, y)}}
                   \cup {[frame |-> Len(air) + 1, rx |-> x, reason |-> "collision"] :
                             x \in {y \in InRange(n) : Collides(n, y)}}
                   \cup {[frame |-> Len(air) + 1, rx |-> x, reason |-> "erased"] :
                             x \in heard \ survivors}
      BY <1>h, Zenon DEF Transmit
    <2>2. survivors \in SUBSET heard
      OBVIOUS
    <2> QED
      BY <1>F, <1>r, <2>1, <2>2, Zenon
  <1>1. /\ now \in Nat /\ a \in Nat /\ a # 0 /\ air \in Seq(Frame) /\ Skew[n] \in Int
        /\ Decode \in Nat /\ Interfere \in Nat /\ Decode <= Interfere
    BY AirAssumption, PlaceAssumption, BoundsAssumption, RangeAssumption DEF RadioInv, Types
  <1>2. /\ r \in Frame /\ r.node = n /\ r.at = now /\ r.air = a /\ r.end = Clock(n) + a
        /\ r.forced = b
    BY <1>1, <1>r DEF Frame, Clock
  <1>3. Longer(air, air', r)
    BY <1>0, <1>1, <1>2, AppendIsLonger
  <1>l. /\ air' \in Seq(Frame) /\ Fr' = 1..Len(air') /\ Fr = 1..Len(air)
        /\ \A f \in Fr : f \in Fr' /\ air'[f] = air[f] /\ f < F /\ f # F
        /\ \A f \in Fr' : f \in Fr \/ f = F
        /\ F \in Fr' /\ F \in Nat /\ F \notin Fr /\ air'[F] = r
    BY <1>F, <1>1, <1>3 DEF Longer, Fr
  <1>t. \A f \in Fr : /\ air[f].node \in Node /\ air[f].at \in Nat /\ air[f].air \in Nat
                      /\ air[f].at <= now
    <2>1. \A f \in Fr : air[f] \in Frame
      BY <1>1 DEF Fr
    <2> QED
      BY <2>1 DEF Frame, RadioInv, Ordered
  <1>c. \A f : f \in OnAir(Clock(n)) <=> f \in Fr /\ air[f].at + air[f].air > now
    BY OnTheBus
  <1>C. \A f : f \in Concurrent(n) <=>
                  f \in Fr /\ air[f].at + air[f].air > now /\ air[f].node # n
    BY <1>c DEF Concurrent
  \* Which frames meet, before and after.
  <1>o. /\ \A f, g \in Fr : Clash(f, g)' <=> Clash(f, g)
        /\ \A f \in Fr : /\ Clash(f, F)' <=> (f \in Concurrent(n) /\ Coupled(air[f].node, n))
                         /\ Clash(F, f)' <=> (f \in Concurrent(n) /\ Coupled(air[f].node, n))
        /\ ~Clash(F, F)'
    <2>1. ASSUME NEW f \in Fr, NEW g \in Fr PROVE Clash(f, g)' <=> Clash(f, g)
      BY <1>l DEF Clash, Overlap, Coupled
    <2>2. ASSUME NEW f \in Fr
          PROVE  Clash(f, F)' <=> (f \in Concurrent(n) /\ Coupled(air[f].node, n))
      <3>1. air'[f] = air[f] /\ air'[F] = r
        BY <1>l
      <3>2. Overlap(f, F)' <=> air[f].at + air[f].air > now
        BY <3>1, <1>1, <1>2, <1>t DEF Overlap
      <3> QED
        BY <3>1, <3>2, <1>2, <1>C DEF Clash, Coupled
    <2>3. ASSUME NEW f \in Fr PROVE Clash(F, f)' <=> Clash(f, F)'
      BY DEF Clash, Overlap, Coupled
    <2>4. ~Clash(F, F)'
      BY DEF Clash
    <2> QED
      BY <2>1, <2>2, <2>3, <2>4
  <1>n. \A f \in Fr, x \in Node : /\ Dist(air[f].node, x) \in Nat /\ Dist(n, x) \in Nat
    BY <1>t, DistSound
  <1>s. /\ heard \subseteq InRange(n) /\ \A x \in heard : Clear(n, x)
        /\ \A x \in InRange(n) : x \in Node /\ x # n /\ Dist(n, x) <= Decode
        /\ \A x \in InRange(n) : x \in heard => ~Transmitting(n, x) /\ ~Collides(n, x)
        /\ \A x \in InRange(n) : ~(Transmitting(n, x) /\ Collides(n, x))
    BY <1>h DEF InRange, Clear, Collides
  \* What is new in the log and on the way.
  <1>v. \A v \in verdict' : \/ v \in verdict
                            \/ /\ v.frame = F /\ v.rx \in InRange(n) /\ v.reason = "half_duplex"
                               /\ Transmitting(n, v.rx)
                               /\ v = [frame |-> F, rx |-> v.rx, reason |-> "half_duplex"]
                            \/ /\ v.frame = F /\ v.rx \in InRange(n) /\ v.reason = "collision"
                               /\ Collides(n, v.rx)
                               /\ v = [frame |-> F, rx |-> v.rx, reason |-> "collision"]
                            \/ /\ v.frame = F /\ v.rx \in heard \ survivors /\ v.reason = "erased"
                               /\ v = [frame |-> F, rx |-> v.rx, reason |-> "erased"]
    BY <1>0
  <1>d. \A d \in flight' : \/ d \in flight
                           \/ /\ d.frame = F /\ d.rx \in survivors /\ d.due = now + ReceiveDelay(a)
    BY <1>0
  <1>k. /\ \A p \in RetroCollide(n) : /\ p[1] \in Fr /\ p[2] \in InRange(n) /\ p = <<p[1], p[2]>>
                                      /\ Collides(n, p[2]) /\ p[1] \in Clashers(n, p[2])
        /\ \A f, x : x \in InRange(n) /\ Collides(n, x) /\ f \in Clashers(n, x)
                        => <<f, x>> \in RetroCollide(n)
    <2>1. inAir \subseteq Fr /\ OnAir(Clock(n)) \subseteq inAir
      BY DEF RadioInv, Types, OnAir
    <2> QED
      BY <2>1 DEF RetroCollide, Clashers, Concurrent
  <1>4. Types'
    <2>1. inAir \subseteq Fr /\ IsFiniteSet(inAir) /\ collided \subseteq Fr \X Node
      BY DEF RadioInv, Types
    <2>2. IsFiniteSet(OnAir(Clock(n))) /\ Cardinality(OnAir(Clock(n))) <= InAirCap
      <3> DEFINE live == {f \in inAir : air[f].end > Clock(n)}
      <3>1. live \in SUBSET Nat /\ IsFiniteSet(live)
        <4>1. Fr \subseteq Nat
          BY <1>1 DEF Fr
        <4> QED
          BY <2>1, <4>1, FS_Subset
      <3>2. OnAir(Clock(n)) = {f \in live : Cardinality({g \in live : g > f}) < InAirCap}
        BY DEF OnAir
      <3> QED
        BY <3>1, <3>2, OnAirBounded, BoundsAssumption
    <2>3. IsFiniteSet(inAir') /\ Cardinality(inAir') <= InAirCap + 1
      <3>1. /\ IsFiniteSet(inAir')
            /\ Cardinality(inAir') = IF F \in OnAir(Clock(n)) THEN Cardinality(OnAir(Clock(n)))
                                     ELSE Cardinality(OnAir(Clock(n))) + 1
        BY <1>0, <2>2, FS_AddElement
      <3>2. Cardinality(OnAir(Clock(n))) \in Nat
        BY <2>2, FS_CardinalityType
      <3> QED
        BY <2>2, <3>1, <3>2, BoundsAssumption
    <2>4. inAir' \subseteq Fr'
      BY <1>0, <1>c, <1>l
    <2>5. collided' \subseteq Fr' \X Node
      <3>1. \A p \in RetroCollide(n) : p \in Fr' \X Node
        BY <1>k, <1>l, <1>s
      <3> QED
        BY <1>0, <1>l, <2>1, <3>1
    <2>6. now' \in 0..MaxTime
      BY DEF RadioInv, Types
    <2>7. flight' \subseteq [frame : Nat, rx : Node, due : Nat]
      <3>1. now + ReceiveDelay(a) \in Nat
        BY <1>1, AirAssumption DEF ReceiveDelay
      <3>2. \A x \in survivors : x \in Node
        BY <1>s
      <3>3. \A x \in survivors : [frame |-> F, rx |-> x, due |-> now + ReceiveDelay(a)]
                                   \in [frame : Nat, rx : Node, due : Nat]
        BY <1>l, <3>1, <3>2
      <3> QED
        BY <1>0, <3>3 DEF RadioInv, Types
    <2> QED
      BY <1>l, <2>3, <2>4, <2>5, <2>6, <2>7 DEF Types
  <1>5. Ordered'
    <2>1. \A m \in Node : r.end - Skew[m] = r.at + r.air
      BY <1>1, <1>2, PlaceAssumption DEF ClocksAgree, Clock
    <2> QED
      <3>1. \A f \in Fr' : /\ air'[f].at <= now'
                           /\ \A m \in Node : air'[f].end - Skew[m] = air'[f].at + air'[f].air
        <4>1. ASSUME NEW f \in Fr
              PROVE  /\ air[f].at <= now
                     /\ \A m \in Node : air[f].end - Skew[m] = air[f].at + air[f].air
          BY DEF RadioInv, Ordered
        <4>2. r.at <= now
          BY <1>1, <1>2
        <4> QED
          BY <1>l, <2>1, <4>1, <4>2
      <3>2. ASSUME NEW f \in Fr', NEW g \in Fr', f < g PROVE air'[f].at <= air'[g].at
        <4>1. f \in Fr
          BY <1>l, <3>2 DEF Fr
        <4> QED
          BY <1>1, <1>2, <1>l, <1>t, <3>2, <4>1 DEF RadioInv, Ordered
      <3> QED
        BY <3>1, <3>2 DEF Ordered
  <1>6. Known'
    BY <1>0, <1>c, <1>l DEF Known
  <1>7. Unhindered'
    <2>1. ASSUME NEW f \in Fr, NEW x, Heard(f, x) PROVE Heard(f, x)'
      <3>1. \A g \in Fr' : g < f => g \in Fr
        BY <1>l DEF Fr
      <3> QED
        BY <1>l, <1>o, <2>1, <3>1 DEF Heard, Dist
    <2>2. ASSUME NEW x \in heard PROVE Heard(F, x)'
      <3>1. SUFFICES ASSUME NEW g \in Fr, Clash(F, g)', air[g].node # x
                     PROVE  Dist(air[g].node, x) > Interfere
        BY <1>l, <1>o DEF Heard, Dist
      <3>2. g \notin Clashers(n, x)
        BY <1>s DEF Clear
      <3>3. g \in Concurrent(n) /\ Coupled(air[g].node, n)
        BY <1>o, <3>1
      <3> QED
        BY <1>1, <1>n, <1>s, <3>1, <3>2, <3>3 DEF Clashers
    <2>3. ASSUME NEW d \in flight' PROVE Landing(d)' /\ Heard(d.frame, d.rx)'
      <3>1. CASE d \in flight
        <4>1. Landing(d) /\ Heard(d.frame, d.rx) /\ d.frame \in Fr
          BY <3>1 DEF RadioInv, Unhindered, Landing
        <4> QED
          BY <1>l, <2>1, <4>1 DEF Landing, InRange, Dist, ReceiveDelay
      <3>2. CASE d \notin flight
        <4>1. d.frame = F /\ d.rx \in heard /\ d.due = now + ReceiveDelay(a)
          BY <1>d, <3>2
        <4>2. Heard(F, d.rx)'
          BY <2>2, <4>1
        <4>3. Landing(d)'
          BY <1>2, <1>l, <1>s, <4>1 DEF Landing, InRange, Dist, ReceiveDelay
        <4> QED
          BY <4>1, <4>2, <4>3
      <3> QED
        BY <3>1, <3>2
    <2>4. ASSUME NEW v \in verdict'
          PROVE  /\ v.frame \in Fr' /\ v.rx \in Node
                 /\ v.reason = "delivered" =>
                       /\ v.rx \in InRange(air'[v.frame].node) /\ Heard(v.frame, v.rx)'
                       /\ air'[v.frame].at + air'[v.frame].air <= now
                       /\ <<v.frame, v.rx>> \notin collided'
      <3>1. CASE v \in verdict
        <4>1. v.frame \in Fr /\ v.rx \in Node
          BY <3>1 DEF RadioInv, Unhindered
        <4>2. ASSUME v.reason = "delivered"
              PROVE  /\ v.rx \in InRange(air'[v.frame].node) /\ Heard(v.frame, v.rx)'
                     /\ air'[v.frame].at + air'[v.frame].air <= now
                     /\ <<v.frame, v.rx>> \notin collided'
          <5>1. /\ v.rx \in InRange(air[v.frame].node) /\ Heard(v.frame, v.rx)
                /\ air[v.frame].at + air[v.frame].air <= now /\ <<v.frame, v.rx>> \notin collided
            BY <3>1, <4>2 DEF RadioInv, Unhindered
          <5>2. <<v.frame, v.rx>> \notin RetroCollide(n)
            <6>1. v.frame \notin Concurrent(n)
              BY <1>C, <1>t, <1>1, <4>1, <5>1
            <6> QED
              BY <1>k, <6>1 DEF Clashers
          <5> QED
            BY <1>0, <1>l, <2>1, <4>1, <5>1, <5>2
        <4> QED
          BY <1>l, <4>1, <4>2
      <3>2. CASE v \notin verdict
        BY <1>v, <1>l, <1>s, <3>2
      <3> QED
        BY <3>1, <3>2
    <2>5. \A m : InRange(m)' = InRange(m)
      BY DEF InRange, Dist
    <2> QED
      BY <2>3, <2>4, <2>5 DEF Unhindered
  <1>8. Marked'
    <2>1. SUFFICES ASSUME NEW f \in Fr', NEW g \in Fr', NEW x \in Node, f < g, Clash(f, g)',
                          x # air'[f].node, Dist(air'[f].node, x) <= Interfere,
                          x \in InRange(air'[g].node), Silent(x, air[g].at)'
                   PROVE  <<f, x>> \in collided'
      BY DEF Marked, InRange, Dist
    <2>2. f \in Fr
      BY <1>l, <2>1 DEF Fr
    <2>3. CASE g \in Fr
      <3>1. Silent(x, air[g].at)
        BY <1>l, <2>1, <2>3 DEF Silent, OnAirAt
      <3>2. <<f, x>> \in collided
        BY <1>l, <1>o, <2>1, <2>2, <2>3, <3>1 DEF RadioInv, Marked
      <3> QED
        BY <1>0, <3>2
    <2>4. CASE g = F
      <3>1. f \in Concurrent(n) /\ Coupled(air[f].node, n)
        BY <1>o, <2>1, <2>2, <2>4
      <3>2. f \in Clashers(n, x)
        BY <1>l, <2>1, <2>2, <3>1 DEF Clashers
      <3>3. ~Transmitting(n, x)
        <4>1. \A h \in Fr : air[h].node = x => ~(air[h].at <= now /\ now < air[h].at + air[h].air)
          BY <1>2, <1>l, <2>1, <2>4 DEF Silent, OnAirAt
        <4> QED
          BY <1>1, <1>C, <1>t, <4>1 DEF Transmitting
      <3>4. x \in InRange(n)
        BY <1>2, <1>l, <2>1, <2>4
      <3> QED
        BY <1>0, <1>k, <3>2, <3>3, <3>4 DEF Collides
    <2> QED
      BY <1>l, <2>3, <2>4
  <1>9. MarkedWithCause'
    <2>1. ASSUME NEW p \in collided
          PROVE  \E g \in Fr' : /\ Clash(p[1], g)' /\ air'[g].node # p[2]
                                /\ Dist(air'[g].node, p[2]) <= Interfere
      <3>1. p[1] \in Fr
        BY DEF RadioInv, Types
      <3>2. PICK g \in Fr : Clash(p[1], g) /\ air[g].node # p[2] /\ Dist(air[g].node, p[2]) <= Interfere
        BY DEF RadioInv, MarkedWithCause
      <3> QED
        BY <1>l, <1>o, <3>1, <3>2
    <2>2. ASSUME NEW p \in RetroCollide(n)
          PROVE  \E g \in Fr' : /\ Clash(p[1], g)' /\ air'[g].node # p[2]
                                /\ Dist(air'[g].node, p[2]) <= Interfere
      <3>1. p[1] \in Fr /\ p[2] \in InRange(n) /\ p[1] \in Clashers(n, p[2])
        BY <1>k
      <3>2. Clash(p[1], F)'
        BY <1>o, <3>1 DEF Clashers
      <3>3. n # p[2] /\ Dist(n, p[2]) <= Interfere
        BY <1>1, <1>n, <1>s, <3>1
      <3> QED
        BY <1>2, <1>l, <3>2, <3>3
    <2> QED
      BY <1>0, <2>1, <2>2 DEF MarkedWithCause, Dist
  <1>10. LossJustified'
    <2>1. ASSUME NEW v \in verdict', v.reason = "collision"
          PROVE  \E g \in Fr' : /\ Clash(v.frame, g)' /\ air'[g].node # v.rx
                                /\ Dist(air'[g].node, v.rx) <= Interfere
      <3>1. CASE v \in verdict
        <4>1. v.frame \in Fr
          BY <3>1 DEF RadioInv, Unhindered
        <4>2. PICK g \in Fr : /\ Clash(v.frame, g) /\ air[g].node # v.rx
                              /\ Dist(air[g].node, v.rx) <= Interfere
          BY <2>1, <3>1 DEF RadioInv, LossJustified
        <4> QED
          BY <1>l, <1>o, <4>1, <4>2
      <3>2. CASE v \notin verdict
        <4>1. v.frame = F /\ Collides(n, v.rx)
          BY <1>v, <2>1, <3>2
        <4>2. PICK g : g \in Clashers(n, v.rx)
          BY <4>1 DEF Collides
        <4>3. /\ g \in Fr /\ Clash(F, g)' /\ air[g].node # v.rx
              /\ Dist(air[g].node, v.rx) <= Interfere
          BY <1>o, <1>C, <4>2 DEF Clashers
        <4> QED
          BY <1>l, <4>1, <4>3
      <3> QED
        BY <3>1, <3>2
    <2>2. ASSUME NEW v \in verdict', v.reason = "half_duplex"
          PROVE  \E g \in Fr' : air'[g].node = v.rx /\ Overlap(g, v.frame)'
      <3>1. CASE v \in verdict
        <4>1. v.frame \in Fr
          BY <3>1 DEF RadioInv, Unhindered
        <4>2. PICK g \in Fr : air[g].node = v.rx /\ Overlap(g, v.frame)
          BY <2>2, <3>1 DEF RadioInv, LossJustified
        <4> QED
          BY <1>l, <4>1, <4>2 DEF Overlap
      <3>2. CASE v \notin verdict
        <4>1. v.frame = F /\ Transmitting(n, v.rx)
          BY <1>v, <2>2, <3>2
        <4>2. PICK g \in Concurrent(n) : air[g].node = v.rx
          BY <4>1 DEF Transmitting
        <4>3. g \in Fr /\ air[g].at + air[g].air > now /\ air'[g] = air[g]
          BY <1>C, <1>l
        <4>4. Overlap(g, F)'
          BY <1>1, <1>2, <1>l, <1>t, <4>3 DEF Overlap
        <4> QED
          BY <1>l, <4>1, <4>2, <4>3, <4>4
      <3> QED
        BY <3>1, <3>2
    <2> QED
      BY <2>1, <2>2 DEF LossJustified, Dist
  <1>11. OneVerdict'
    <2>1. \A v \in verdict : v.frame \in Fr
      BY DEF RadioInv, Unhindered
    <2>2. \A d \in flight : d.frame \in Fr
      BY DEF RadioInv, Unhindered, Landing
    <2>3. ASSUME NEW v \in verdict', NEW w \in verdict', v.frame = w.frame, v.rx = w.rx
          PROVE  v = w
      <3>1. CASE v \in verdict \/ w \in verdict
        <4>1. v \in verdict /\ w \in verdict
          BY <1>l, <1>v, <2>1, <2>3, <3>1
        <4> QED
          BY <2>3, <4>1 DEF RadioInv, OneVerdict
      <3>2. CASE v \notin verdict /\ w \notin verdict
        BY <1>s, <1>v, <2>3, <3>2
      <3> QED
        BY <3>1, <3>2
    <2>4. ASSUME NEW v \in verdict', NEW d \in flight', v.frame = d.frame, v.rx = d.rx
          PROVE  FALSE
      <3>1. CASE v \in verdict \/ d \in flight
        <4>1. v \in verdict /\ d \in flight
          BY <1>l, <1>v, <1>d, <2>1, <2>2, <2>4, <3>1
        <4> QED
          BY <2>4, <4>1 DEF RadioInv, OneVerdict
      <3>2. CASE v \notin verdict /\ d \notin flight
        BY <1>s, <1>v, <1>d, <2>4, <3>2
      <3> QED
        BY <3>1, <3>2
    <2> QED
      BY <2>3, <2>4 DEF OneVerdict
  <1>12. CsmaSerialises'
    <2>1. SUFFICES ASSUME NEW f \in Fr', NEW g \in Fr', f < g, Clash(f, g)',
                          Dist(air'[f].node, air'[g].node) <= Interfere
                   PROVE  air'[g].forced
      BY DEF CsmaSerialises, Dist
    <2>2. f \in Fr
      BY <1>l, <2>1 DEF Fr
    <2>3. CASE g \in Fr
      BY <1>l, <1>o, <2>1, <2>2, <2>3 DEF RadioInv, CsmaSerialises
    <2>4. CASE g = F
      <3>1. f \in Concurrent(n) /\ Coupled(air[f].node, n) /\ Dist(air[f].node, n) <= Interfere
        BY <1>2, <1>l, <1>o, <2>1, <2>2, <2>4
      <3>2. f \in Sensed(n)
        BY <3>1 DEF Sensed, Concurrent, OnAir
      <3> QED
        BY <1>2, <1>l, <2>4, <3>2
    <2> QED
      BY <1>l, <2>3, <2>4
  <1> QED
    BY <1>4, <1>5, <1>6, <1>7, <1>8, <1>9, <1>10, <1>11, <1>12 DEF RadioInv

-----------------------------------------------------------------------------
(* The other steps.                                                        *)

\* A frame lands unless a later one marked it.
LEMMA LandStep ==
    ASSUME RadioInv, NEW d \in flight, Land(d)
    PROVE  RadioInv'
  <1>0. PICK v : /\ v = [frame |-> d.frame, rx |-> d.rx,
                         reason |-> IF <<d.frame, d.rx>> \in collided THEN "collision" ELSE "delivered"]
                 /\ verdict' = verdict \cup {v}
    BY DEF Land
  <1>1. /\ d.due <= now /\ flight' = flight \ {d} /\ now' = now /\ inAir' = inAir /\ air' = air
        /\ collided' = collided /\ csma' = csma /\ Fr' = Fr
    BY DEF Land, Fr
  <1>2. /\ v.frame = d.frame /\ v.rx = d.rx
        /\ v.reason = "delivered" => <<v.frame, v.rx>> \notin collided
        /\ v.reason = "collision" => <<v.frame, v.rx>> \in collided
        /\ v.reason # "half_duplex"
    BY <1>0
  <1>3. Landing(d) /\ Heard(d.frame, d.rx)
    BY DEF RadioInv, Unhindered
  <1>4. /\ v.frame \in Fr /\ v.rx \in InRange(air[v.frame].node) /\ v.rx \in Node
        /\ Heard(v.frame, v.rx) /\ air[v.frame].at + air[v.frame].air <= now
    <2>1. d.frame \in Fr /\ air[d.frame] \in Frame /\ now \in Nat
      BY <1>3, BoundsAssumption DEF Landing, RadioInv, Types, Fr
    <2>2. air[d.frame].at + air[d.frame].air <= now
      BY <1>1, <1>3, <2>1, AirAssumption DEF Landing, ReceiveDelay, Frame
    <2> QED
      BY <1>2, <1>3, <2>1, <2>2 DEF Landing, InRange
  <1>c. /\ \A f, g : Clash(f, g)' <=> Clash(f, g)
        /\ \A f, x : Heard(f, x)' <=> Heard(f, x)
        /\ \A e : Landing(e)' <=> Landing(e)
        /\ \A m, k : Dist(m, k)' = Dist(m, k)
        /\ \A m : InRange(m)' = InRange(m)
        /\ \A f, g : Overlap(f, g)' <=> Overlap(f, g)
        /\ \A x, t : Silent(x, t)' <=> Silent(x, t)
    BY <1>1 DEF Clash, Heard, Landing, Dist, InRange, Overlap, Silent, Coupled, OnAirAt, Fr, ReceiveDelay
  <1>5. Types' /\ Ordered' /\ Known'
    BY <1>1 DEF RadioInv, Types, Ordered, Known, Fr, CsmaTypes
  <1>6. Unhindered'
    BY <1>0, <1>1, <1>2, <1>4, <1>c DEF RadioInv, Unhindered
  <1>7. Marked' /\ MarkedWithCause' /\ CsmaSerialises'
    BY <1>1, <1>c DEF RadioInv, Marked, MarkedWithCause, CsmaSerialises
  <1>8. LossJustified'
    <2>1. v.reason = "collision" =>
             \E g \in Fr : /\ Clash(v.frame, g) /\ air[g].node # v.rx
                           /\ Dist(air[g].node, v.rx) <= Interfere
      BY <1>2 DEF RadioInv, MarkedWithCause
    <2> QED
      BY <1>0, <1>1, <1>2, <1>c, <2>1 DEF RadioInv, LossJustified
  <1>9. OneVerdict'
    <2>1. \A w \in verdict : ~(w.frame = v.frame /\ w.rx = v.rx)
      BY <1>2 DEF RadioInv, OneVerdict
    <2>2. ASSUME NEW e \in flight, e.frame = v.frame, e.rx = v.rx PROVE e = d
      <3>1. e.due = d.due
        BY <1>2, <2>2 DEF RadioInv, Unhindered, Landing
      <3> QED
        BY <1>2, <2>2, <3>1 DEF RadioInv, Types
    <2> QED
      BY <1>0, <1>1, <2>1, <2>2 DEF RadioInv, OneVerdict
  <1> QED
    BY <1>5, <1>6, <1>7, <1>8, <1>9 DEF RadioInv

\* What a sender decides, and the passing of time, leave the air alone.
LEMMA IdleStep ==
    ASSUME RadioInv, UNCHANGED <<inAir, air, collided, flight, verdict>>, CsmaTypes',
           now' \in 0..MaxTime, now <= now'
    PROVE  RadioInv'
  <1>1. /\ inAir' = inAir /\ air' = air /\ collided' = collided /\ flight' = flight
        /\ verdict' = verdict /\ Fr' = Fr /\ now \in Nat /\ now' \in Nat
    BY BoundsAssumption DEF Fr, RadioInv, Types
  <1>t. \A f \in Fr : air[f].at \in Nat /\ air[f].air \in Nat
    <2>1. \A f \in Fr : air[f] \in Frame
      BY DEF RadioInv, Types, Fr
    <2> QED
      BY <2>1 DEF Frame
  <1>c. /\ \A f, g : Clash(f, g)' <=> Clash(f, g)
        /\ \A f, x : Heard(f, x)' <=> Heard(f, x)
        /\ \A e : Landing(e)' <=> Landing(e)
        /\ \A m, k : Dist(m, k)' = Dist(m, k)
        /\ \A m : InRange(m)' = InRange(m)
        /\ \A f, g : Overlap(f, g)' <=> Overlap(f, g)
        /\ \A x, t : Silent(x, t)' <=> Silent(x, t)
    BY <1>1 DEF Clash, Heard, Landing, Dist, InRange, Overlap, Silent, Coupled, OnAirAt, Fr, ReceiveDelay
  <1>2. Types'
    BY <1>1 DEF RadioInv, Types
  <1>3. Ordered' /\ Known'
    BY <1>1, <1>t DEF RadioInv, Ordered, Known
  <1>4. Unhindered'
    <2>1. \A f \in Fr : air[f].at + air[f].air <= now => air[f].at + air[f].air <= now'
      BY <1>1, <1>t
    <2> QED
      BY <1>1, <1>c, <2>1 DEF RadioInv, Unhindered
  <1>5. Marked' /\ MarkedWithCause' /\ CsmaSerialises' /\ LossJustified' /\ OneVerdict'
    BY <1>1, <1>c DEF RadioInv, Marked, MarkedWithCause, CsmaSerialises, LossJustified, OneVerdict
  <1> QED
    BY <1>2, <1>3, <1>4, <1>5 DEF RadioInv

-----------------------------------------------------------------------------
(* The invariant holds, and what follows from it.                          *)

LEMMA RadioInit == Init => RadioInv
  <1> SUFFICES ASSUME Init PROVE RadioInv
    OBVIOUS
  <1>1. Fr = {} /\ now = 0 /\ inAir = {} /\ air = <<>> /\ collided = {} /\ flight = {}
        /\ verdict = {} /\ csma = [n \in Node |-> Quiet]
    BY DEF Init, Fr
  <1>2. CsmaTypes
    BY <1>1, BoundsAssumption DEF CsmaTypes, Quiet
  <1>3. IsFiniteSet(inAir) /\ Cardinality(inAir) = 0
    BY <1>1, FS_EmptySet, Zenon
  <1>4. Types
    BY <1>1, <1>2, <1>3, BoundsAssumption DEF Types
  <1> QED
    BY <1>1, <1>4 DEF RadioInv, Ordered, Known, Unhindered, Marked, MarkedWithCause,
                      LossJustified, OneVerdict, CsmaSerialises

LEMMA RadioStep ==
    ASSUME ClocksAgree
    PROVE  RadioInv /\ CapSuffices /\ [Next]_vars => RadioInv'
  <1> SUFFICES ASSUME RadioInv, CapSuffices, [Next]_vars PROVE RadioInv'
    OBVIOUS
  <1>0. /\ now \in 0..MaxTime /\ MaxTime \in Nat /\ csma = [n \in Node |-> csma[n]] /\ MaxAttempts \in Nat
        /\ \A n \in Node : csma[n].attempt \in 0..MaxAttempts
    BY BoundsAssumption DEF RadioInv, Types, CsmaTypes
  <1>q. \A n, q : /\ n \in Node /\ csma' = [csma EXCEPT ![n] = q] /\ q.attempt \in 0..MaxAttempts
                 => CsmaTypes'
    BY <1>0 DEF CsmaTypes
  <1>1. ASSUME NEW n \in Node, Inject(n) PROVE RadioInv'
    <2>1. PICK a \in Airtimes : Transmit(n, a, TRUE)
      BY <1>1 DEF Inject
    <2>2. now' = now /\ CsmaTypes'
      BY <1>0, <1>1 DEF Inject, CsmaTypes
    <2> QED
      BY <2>1, <2>2, TransmitStep
  <1>2. ASSUME NEW n \in Node, BeginSend(n) PROVE RadioInv'
    <2>1. PICK q : /\ q = [state |-> "sense", attempt |-> 0, until |-> now]
                   /\ csma' = [csma EXCEPT ![n] = q]
      BY <1>2 DEF BeginSend
    <2>2. CsmaTypes'
      BY <1>0, <1>q, <2>1
    <2> QED
      BY <1>0, <1>2, <2>2, IdleStep DEF BeginSend
  <1>3. ASSUME NEW n \in Node, Defer(n) PROVE RadioInv'
    <2>1. PICK u, q : /\ q = [state |-> "sense", attempt |-> csma[n].attempt + 1, until |-> u]
                      /\ csma' = [csma EXCEPT ![n] = q]
      BY <1>3 DEF Defer
    <2>2. CsmaTypes'
      <3>1. csma[n].attempt \in 0..MaxAttempts /\ csma[n].attempt < MaxAttempts
        BY <1>0, <1>3 DEF Defer
      <3> QED
        BY <1>0, <1>q, <2>1, <3>1
    <2> QED
      BY <1>0, <1>3, <2>2, IdleStep DEF Defer
  <1>4. ASSUME NEW n \in Node, Talk(n) PROVE RadioInv'
    <2>1. PICK a \in Airtimes : Transmit(n, a, csma[n].attempt >= MaxAttempts)
      BY <1>4 DEF Talk
    <2>2. now' = now /\ csma' = [csma EXCEPT ![n] = Quiet] /\ Quiet.attempt = 0
          /\ (Sensed(n) = {} \/ csma[n].attempt >= MaxAttempts)
      BY <1>4 DEF Talk, Quiet
    <2>3. CsmaTypes'
      BY <1>0, <1>q, <2>2
    <2>4. PICK p : p = (csma[n].attempt >= MaxAttempts)
      OBVIOUS
    <2>5. p \in BOOLEAN
      BY <2>4
    <2>6. Transmit(n, a, p) /\ (p \/ Sensed(n) = {})
      BY <2>1, <2>2, <2>4, Zenon
    <2> QED
      BY <2>2, <2>3, <2>5, <2>6, TransmitStep
  <1>5. ASSUME NEW d \in flight, Land(d) PROVE RadioInv'
    BY <1>5, LandStep
  <1>6. CASE SetMacMode \/ UNCHANGED vars
    BY <1>0, <1>6, IdleStep DEF SetMacMode, vars, CsmaTypes
  <1>7. CASE Tick
    BY <1>0, <1>7, IdleStep DEF Tick, CsmaTypes
  <1> QED
    BY <1>1, <1>2, <1>3, <1>4, <1>5, <1>6, <1>7 DEF Next

LEMMA RadioAlways ==
    ASSUME ClocksAgree
    PROVE  Spec /\ []CapSuffices => []RadioInv
  <1> QED
    BY RadioInit, RadioStep, PTL DEF Spec

\* What a receiver may conclude from the radio log, for any placement of radios whose clocks
\* agree and any traffic the bus has room for: of two overlapping frames a receiver that could
\* decode both gets neither, every loss has a cause that was on the air, and a frame has one
\* fate per receiver.
THEOREM AirIsSound ==
    ASSUME ClocksAgree
    PROVE  Spec /\ []CapSuffices => []AirSound
  <1>1. RadioInv => AirSound
    <2> SUFFICES ASSUME RadioInv PROVE AirSound
      OBVIOUS
    <2>1. TypeOK
      BY DEF RadioInv, Types, CsmaTypes, Unhindered, Landing, InRange, TypeOK
    <2>2. BothLose
      <3>t. /\ \A h \in Fr : /\ air[h].node \in Node /\ air[h].at \in Nat
                             /\ air[h].air \in Nat /\ air[h].air # 0
            /\ Decode \in Nat /\ Interfere \in Nat /\ Decode <= Interfere
        <4>1. \A h \in Fr : air[h] \in Frame
          BY DEF RadioInv, Types, Fr
        <4> QED
          BY <4>1, RangeAssumption DEF Frame
      <3>1. SUFFICES ASSUME NEW f \in Fr, NEW g \in Fr, Clash(f, g), NEW r \in Node, Got(f, r),
                            Dist(air[g].node, r) <= Decode,
                            \A h \in Fr : air[h].node = r =>
                                ~OnAirAt(h, air[f].at) /\ ~OnAirAt(h, air[g].at)
                     PROVE  FALSE
        <4>1. \A g \in Fr, r \in Node : Dist(air[g].node, r) \in Nat
          BY <3>t, DistSound
        <4>2. \A g \in Fr, r \in Node : Dist(air[g].node, r) > Decode \/ Dist(air[g].node, r) <= Decode
          BY <3>t, <4>1
        <4> QED
          BY <4>2 DEF BothLose
      <3>2. /\ r \in InRange(air[f].node) /\ Heard(f, r) /\ <<f, r>> \notin collided
        <4>1. PICK v \in verdict : v = [frame |-> f, rx |-> r, reason |-> "delivered"]
          BY <3>1 DEF Got
        <4>2. v.frame = f /\ v.rx = r /\ v.reason = "delivered"
          BY <4>1
        <4> QED
          BY <4>2 DEF RadioInv, Unhindered
      <3>d. Dist(air[g].node, r) \in Nat /\ Dist(air[f].node, r) \in Nat
        BY <3>t, DistSound
      <3>3. f \in Nat /\ g \in Nat /\ f # g
        BY <3>1 DEF Clash, Fr
      <3>4. CASE g < f
        <4>1. air[g].node = r
          BY <3>1, <3>2, <3>4, <3>d, <3>t DEF Heard
        <4>2. air[g].at <= air[f].at
          BY <3>4 DEF RadioInv, Ordered
        <4>3. OnAirAt(g, air[f].at)
          BY <3>1, <3>t, <4>2 DEF Clash, Overlap, OnAirAt
        <4> QED
          BY <3>1, <4>1, <4>3
      <3>5. CASE f < g
        <4>1. OnAirAt(g, air[g].at)
          BY <3>t DEF OnAirAt
        <4>2. r # air[g].node
          BY <3>1, <4>1
        <4>3. r # air[f].node /\ Dist(air[f].node, r) <= Interfere
          BY <3>2, <3>d, <3>t DEF InRange
        <4>4. r \in InRange(air[g].node) /\ Silent(r, air[g].at)
          BY <3>1, <4>2 DEF InRange, Silent
        <4> QED
          BY <3>1, <3>2, <3>5, <4>3, <4>4 DEF RadioInv, Marked
      <3> QED
        BY <3>3, <3>4, <3>5
    <2> QED
      BY <2>1, <2>2 DEF RadioInv, AirSound
  <1> QED
    BY <1>1, RadioAlways, PTL

\* Listen-before-talk serialises the medium, for any backoff the senders draw: two frames whose
\* senders sense each other overlap only if the later one was injected or its sender gave up.
THEOREM ListeningSerialises ==
    ASSUME ClocksAgree
    PROVE  Spec /\ []CapSuffices => []CsmaSerialises
  <1>1. RadioInv => CsmaSerialises
    BY DEF RadioInv
  <1> QED
    BY <1>1, RadioAlways, PTL

=============================================================================
