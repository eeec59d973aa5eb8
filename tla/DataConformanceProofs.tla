------------------------ MODULE DataConformanceProofs ------------------------
(***************************************************************************)
(* The conformance suite's reference provider: a namespace's versions can  *)
(* be followed by whoever was away, what a revocation cuts is what the     *)
(* owner meant, a thief is shut out and a recovery refuses nothing, for    *)
(* any devices, clocks and bounds.  And its element rule: who holds the    *)
(* same versions shows the same element, also when he began at a           *)
(* checkpoint; what is shown is what counts; and what was answered about   *)
(* a version holds, for any writers, readers and operations.               *)
(***************************************************************************)
EXTENDS TrustContexts, ElementRule, TLAPS, SequenceTheorems, FiniteSetTheorems, WellFoundedInduction

-----------------------------------------------------------------------------
(* The inductive invariant.                                                *)

Version == [signer : Int, anchors : SUBSET Int, gone : SUBSET Int,
            revoked : SUBSET Device, cut : [Device -> SUBSET Entry]]

\* A revocation is for good, and only a revoked key has a cut.
RevokedForGood ==
    \A i \in 1..Len(versions) :
        /\ versions[i].revoked \subseteq Newest.revoked
        /\ \A d \in Device \ versions[i].revoked : versions[i].cut[d] = {}

\* Every revoked key has a manifest, published with the version that revoked it.
Manifested ==
    /\ \A m \in manifests : m.version >= 2
    /\ \A i \in 1..Len(versions) : \A d \in versions[i].revoked :
          \E m \in manifests : m.version <= i /\ m.key = d /\ d \notin versions[m.version - 1].revoked

\* The contexts: versions that follow one another, the root's key an anchor of the newest.
ContextPart ==
    /\ versions \in Seq(Version) /\ Len(versions) \in 1..MaxVersions
    /\ root \in Nat \ {0} /\ kit \in Int /\ kit <= 0
    /\ manifests \subseteq [version : 1..Len(versions), key : Device]
    /\ held \in [Node -> 1..Len(versions)] /\ kept \in [Node -> SUBSET manifests]
    /\ root \in Newest.anchors
    /\ NoneLeftBehind /\ RevokedForGood /\ Manifested /\ CutsBound

CertPart ==
    /\ certs \in [Device -> Seq([issuer : Nat, valid : BOOLEAN])]
    /\ CutStillVerifies

\* What the thief wrote, the root device verified after the theft if at all.
TheftPart ==
    /\ now \in 1..MaxTime /\ skew \in Skews
    /\ layer \in [Node -> [st : {"none", "runs", "stopped"}, key : Node, runs : Nat]]
    /\ \A n \in Device : layer[n].key = n
    /\ seen \in [Node -> SUBSET Entry] /\ firstAt \in [Entry -> Int]
    /\ theft \in Int /\ theft <= now /\ (theft = Never <=> layer[Thief].st = "none")
    /\ \A n \in Node : \A e \in seen[n] : e.by = Thief => theft # Never
    /\ \A e \in Entry : e.by = Thief /\ firstAt[e] # Never
                         => theft # Never /\ firstAt[e] >= theft + skew

\* A thief's entry is in the stolen key's cut because it was re-admitted, or because the owner
\* named too late a moment.
CutPart ==
    /\ lostAt \in [Device -> Int] /\ lapsed \in [Device -> Int] /\ suspected \subseteq Device
    /\ \A i \in 1..Len(versions) : \A e \in versions[i].cut[Victim] :
          e.by = Thief => e \in readmitted \/ (theft # Never /\ theft + skew < lostAt[Victim])

TrustInv == ContextPart /\ CertPart /\ TheftPart /\ CutPart

LEMMA RootIsDevice == Root \in Device /\ Root \in Node /\ Victim \in Device /\ Thief \in Node
  BY TrustAssumption DEF Node

LEMMA TrustInit == Init => TrustInv
  <1> SUFFICES ASSUME Init PROVE TrustInv
    OBVIOUS
  <1> DEFINE first == [signer |-> 1, anchors |-> {1}, gone |-> {}, revoked |-> {}, cut |-> NoCut]
  <1>1. first \in Version
    BY DEF Version, NoCut
  <1>2. versions = <<first>>
    BY DEF Init
  <1>3. versions \in Seq(Version) /\ Len(versions) = 1 /\ versions[1] = first
    BY <1>1, <1>2
  <1> HIDE DEF first
  <1>4. Newest = first /\ \A i \in 1..Len(versions) : i = 1
    BY <1>3 DEF Newest
  <1>5. first.revoked = {} /\ first.anchors = {1} /\ first.signer = 1 /\ \A d \in Device : first.cut[d] = {}
    BY DEF first, NoCut
  <1>6. NoneLeftBehind
    BY <1>3 DEF NoneLeftBehind
  <1>7. RevokedForGood /\ Manifested /\ CutsBound
    <2>1. \A n \in Device : held[n] = 1
      BY DEF Init, Node
    <2> QED BY <1>3, <1>4, <1>5, <2>1 DEF Init, RevokedForGood, Manifested, CutsBound
  <1>8. ContextPart
    BY <1>3, <1>4, <1>5, <1>6, <1>7, TrustAssumption DEF Init, ContextPart
  <1>9. CertPart
    <2>1. certs \in [Device -> Seq([issuer : Nat, valid : BOOLEAN])]
      <3>1. <<[issuer |-> 1, valid |-> TRUE]>> \in Seq([issuer : Nat, valid : BOOLEAN])
        OBVIOUS
      <3> QED BY <3>1 DEF Init
    <2>2. CutStillVerifies
      BY <1>3, <1>4, <1>5, LenProperties DEF CutStillVerifies, Recoveries
    <2> QED BY <2>1, <2>2 DEF CertPart
  <1>10. TheftPart
    BY RootIsDevice, TrustAssumption DEF Init, TheftPart, Node, Never
  <1>11. CutPart
    BY <1>4, <1>3, <1>5, RootIsDevice DEF Init, CutPart, Never
  <1> QED BY <1>8, <1>9, <1>10, <1>11 DEF TrustInv

-----------------------------------------------------------------------------
(* Spreading.                                                              *)

\* Where every version follows, a node that spreads ends at the newest.
LEMMA SpreadReaches ==
  ASSUME NEW vs, NEW ms, NEW n \in Node, Len(vs) \in Nat, held[n] \in 1..Len(vs),
         \A i \in 1..Len(vs) - 1 : Follows(vs, i), SpreadOver(vs, ms, n)
  PROVE  /\ held' = [held EXCEPT ![n] = Len(vs)]
         /\ kept' = [kept EXCEPT ![n] = @ \cup {m \in ms : m.version <= Len(vs)}]
  <1> DEFINE P(j) == /\ \A i \in held[n] .. j - 1 : Follows(vs, i)
                     /\ j = Len(vs) \/ ~Follows(vs, j)
             upto == CHOOSE j \in held[n] .. Len(vs) : P(j)
  <1>1. Len(vs) \in held[n] .. Len(vs) /\ P(Len(vs))
    OBVIOUS
  <1>2. ASSUME NEW j \in held[n] .. Len(vs), P(j) PROVE j = Len(vs)
    <2>1. ASSUME j # Len(vs) PROVE Follows(vs, j)
      BY <2>1
    <2> QED BY <1>2, <2>1
  <1>3. upto = Len(vs)
    BY <1>1, <1>2
  <1>4. /\ held' = [held EXCEPT ![n] = upto]
        /\ kept' = IF upto = Len(vs)
                   THEN [kept EXCEPT ![n] = @ \cup {m \in ms : m.version <= upto}] ELSE kept
    BY DEF SpreadOver
  <1> HIDE DEF upto
  <1> QED BY <1>3, <1>4

\* A node that has reached the newest version has the manifests of all its revocations.
LEMMA CutsBoundAt ==
  ASSUME NEW vs, NEW ms, NEW n \in Node, Len(vs) \in Nat,
         \A m \in ms : m.version \in Nat,
         \A d \in vs[Len(vs)].revoked :
            \E m \in ms : m.version <= Len(vs) /\ m.key = d /\ d \notin vs[m.version - 1].revoked,
         NEW keep, keep = {m \in ms : m.version <= Len(vs)}
  PROVE  \A d \in vs[Len(vs)].revoked : \E m \in keep : m.key = d /\ d \notin vs[m.version - 1].revoked
  OBVIOUS

LEMMA SpreadKeeps ==
  ASSUME ContextPart, NEW n \in Node, SpreadOver(versions, manifests, n),
         UNCHANGED <<root, kit, versions, manifests>>
  PROVE  ContextPart'
  <1>1. /\ Len(versions) \in Nat /\ held[n] \in 1..Len(versions)
        /\ held \in [Node -> 1..Len(versions)] /\ kept \in [Node -> SUBSET manifests]
    BY DEF ContextPart
  <1>2. /\ held' = [held EXCEPT ![n] = Len(versions)]
        /\ kept' = [kept EXCEPT ![n] = @ \cup {m \in manifests : m.version <= Len(versions)}]
    BY <1>1, SpreadReaches DEF ContextPart, NoneLeftBehind
  <1>3. held' \in [Node -> 1..Len(versions)] /\ kept' \in [Node -> SUBSET manifests]
    BY <1>1, <1>2
  <1>4. CutsBound'
    <2>1. ASSUME NEW m \in Device, NEW d \in versions[held'[m]].revoked
          PROVE  \E k \in kept'[m] : k.key = d /\ d \notin versions[k.version - 1].revoked
      <3>1. m \in Node
        BY DEF Node
      <3>2. CASE m = n
        <4>1. held'[m] = Len(versions) /\ Len(versions) \in 1..Len(versions)
          BY <1>1, <1>2, <3>1, <3>2
        <4>2. PICK k \in manifests : /\ k.version <= Len(versions) /\ k.key = d
                                    /\ d \notin versions[k.version - 1].revoked
          BY <2>1, <4>1 DEF ContextPart, Manifested
        <4>3. k \in kept'[m]
          BY <1>1, <1>2, <3>1, <3>2, <4>2
        <4> QED BY <4>2, <4>3
      <3>3. CASE m # n
        <4>1. held'[m] = held[m] /\ kept'[m] = kept[m]
          BY <1>1, <1>2, <3>1, <3>3
        <4> QED BY <2>1, <4>1 DEF ContextPart, CutsBound
      <3> QED BY <3>2, <3>3
    <2> QED BY <2>1 DEF CutsBound
  <1>5. Newest' = Newest /\ NoneLeftBehind' /\ RevokedForGood' /\ Manifested'
    BY DEF ContextPart, Newest, NoneLeftBehind, RevokedForGood, Manifested, Follows
  <1> QED BY <1>3, <1>4, <1>5 DEF ContextPart

-----------------------------------------------------------------------------
(* Publishing.                                                             *)

\* The versions of vs follow those of the namespace; every new one is in N.
Continues(vs, N) ==
    /\ vs \in Seq(Version) /\ Len(vs) \in Len(versions) + 1 .. MaxVersions
    /\ \A i \in 1..Len(versions) : vs[i] = versions[i]
    /\ \A i \in Len(versions) + 1 .. Len(vs) : vs[i] \in N

LEMMA PublishOne ==
  ASSUME ContextPart, NEW v \in Version, Publish(<<v>>)
  PROVE  Continues(versions', {v}) /\ Len(versions') = Len(versions) + 1
  <1>1. PICK new : new = <<v>>
    OBVIOUS
  <1>2. new \in Seq(Version) /\ Len(new) = 1 /\ new[1] = v
    BY <1>1
  <1>3. versions' = versions \o new /\ Len(versions) + 1 <= MaxVersions
    BY <1>1, <1>2 DEF Publish
  <1>4. versions \in Seq(Version) /\ Len(versions) \in Nat
    BY DEF ContextPart
  <1>5. /\ versions' \in Seq(Version) /\ Len(versions') = Len(versions) + 1
        /\ \A i \in 1..Len(versions) + 1 :
              versions'[i] = IF i <= Len(versions) THEN versions[i] ELSE new[i - Len(versions)]
    <2>1. /\ versions \o new \in Seq(Version) /\ Len(versions \o new) = Len(versions) + Len(new)
          /\ \A i \in 1..Len(versions) + Len(new) :
                (versions \o new)[i] = IF i <= Len(versions) THEN versions[i] ELSE new[i - Len(versions)]
      BY <1>2, <1>4, ConcatProperties
    <2> QED BY <2>1, <1>2, <1>3, Zenon
  <1> QED BY <1>2, <1>3, <1>4, <1>5, TrustAssumption DEF Continues

LEMMA PublishTwo ==
  ASSUME ContextPart, NEW v \in Version, NEW w \in Version, Publish(<<v, w>>)
  PROVE  /\ Continues(versions', {v, w}) /\ Len(versions') = Len(versions) + 2
         /\ versions'[Len(versions) + 1] = v /\ versions'[Len(versions) + 2] = w
  <1>1. PICK new : new = <<v, w>>
    OBVIOUS
  <1>2. new \in Seq(Version) /\ Len(new) = 2 /\ new[1] = v /\ new[2] = w
    BY <1>1
  <1>3. versions' = versions \o new /\ Len(versions) + 2 <= MaxVersions
    BY <1>1, <1>2 DEF Publish
  <1>4. versions \in Seq(Version) /\ Len(versions) \in Nat
    BY DEF ContextPart
  <1>5. /\ versions' \in Seq(Version) /\ Len(versions') = Len(versions) + 2
        /\ \A i \in 1..Len(versions) + 2 :
              versions'[i] = IF i <= Len(versions) THEN versions[i] ELSE new[i - Len(versions)]
    <2>1. /\ versions \o new \in Seq(Version) /\ Len(versions \o new) = Len(versions) + Len(new)
          /\ \A i \in 1..Len(versions) + Len(new) :
                (versions \o new)[i] = IF i <= Len(versions) THEN versions[i] ELSE new[i - Len(versions)]
      BY <1>2, <1>4, ConcatProperties
    <2> QED BY <2>1, <1>2, <1>3, Zenon
  <1>6. versions'[Len(versions) + 1] = v /\ versions'[Len(versions) + 2] = w
    BY <1>2, <1>4, <1>5
  <1>7. \A i \in Len(versions) + 1 .. Len(versions) + 2 : i = Len(versions) + 1 \/ i = Len(versions) + 2
    BY <1>4
  <1> QED BY <1>3, <1>4, <1>5, <1>6, <1>7, TrustAssumption DEF Continues

\* What a publication is: new versions that follow, R of whose keys are revoked, that leave only
\* revoked keys with a cut, and manifests for the keys they revoke anew.
Publication(vs, ms, R, N) ==
    /\ Continues(vs, N) /\ R \subseteq Device /\ Newest.revoked \subseteq R
    /\ \A v \in N : v.revoked = R /\ \A d \in Device \ R : v.cut[d] = {}
    /\ \A i \in Len(versions) .. Len(vs) - 1 : Follows(vs, i)
    /\ ms = manifests \cup {[version |-> Len(vs), key |-> d] : d \in R \ Newest.revoked}
    /\ Len(vs) = Len(versions) + 1 \/ R = Newest.revoked
    /\ root' \in vs[Len(vs)].anchors

LEMMA PublishKeeps ==
  ASSUME ContextPart, NEW vs, NEW ms, NEW R, NEW N, vs = versions', ms = manifests',
         Publication(vs, ms, R, N), SpreadOver(vs, ms, Root),
         root' \in Nat \ {0}, kit' \in Int, kit' <= 0
  PROVE  ContextPart'
  <1> DEFINE L == Len(versions)
  <1>1. L \in Nat \ {0} /\ Len(vs) \in Nat /\ L < Len(vs)
    BY TrustAssumption DEF ContextPart, Continues, Publication
  <1>0. Continues(vs, N) /\ R \subseteq Device /\ Newest.revoked \subseteq R
    BY DEF Publication
  <1>2. \A i \in 1..Len(vs) - 1 : Follows(vs, i)
    <2>1. ASSUME NEW i \in 1..L - 1 PROVE Follows(vs, i)
      <3>1. vs[i] = versions[i] /\ vs[i + 1] = versions[i + 1]
        BY <1>0, <1>1, <2>1 DEF Continues
      <3> QED BY <2>1, <3>1 DEF ContextPart, NoneLeftBehind, Follows
    <2>2. \A i \in L .. Len(vs) - 1 : Follows(vs, i)
      BY DEF Publication
    <2> QED BY <1>1, <2>1, <2>2
  <1>3. held \in [Node -> 1..L] /\ kept \in [Node -> SUBSET manifests] /\ Root \in Node
    BY RootIsDevice DEF ContextPart
  <1>4. held[Root] \in 1..Len(vs)
    BY <1>1, <1>3
  <1>5. /\ held' = [held EXCEPT ![Root] = Len(vs)]
        /\ kept' = [kept EXCEPT ![Root] = @ \cup {m \in ms : m.version <= Len(vs)}]
    BY <1>1, <1>2, <1>3, <1>4, SpreadReaches
  <1>6. \A i \in 1..Len(vs) : (i \in 1..L /\ vs[i] = versions[i]) \/ (i > L /\ vs[i] \in N)
    BY <1>0, <1>1 DEF Continues
  <1>7. vs[Len(vs)] \in N /\ vs[L] = Newest
    BY <1>0, <1>1 DEF Continues, Newest
  <1>8. /\ ms \subseteq [version : 1..Len(vs), key : Device] /\ \A m \in ms : m.version >= 2
        /\ manifests \subseteq ms
    <2>1. \A m \in manifests : m \in [version : 1..L, key : Device] /\ m.version >= 2
      BY DEF ContextPart, Manifested
    <2>2. \A m \in manifests : m \in [version : 1..Len(vs), key : Device]
      BY <1>1, <2>1
    <2>3. ms = manifests \cup {[version |-> Len(vs), key |-> d] : d \in R \ Newest.revoked}
      BY DEF Publication
    <2>4. \A d \in R \ Newest.revoked :
              [version |-> Len(vs), key |-> d] \in [version : 1..Len(vs), key : Device]
      BY <1>0, <1>1
    <2> QED BY <1>1, <2>1, <2>2, <2>3, <2>4
  <1>9. ASSUME NEW i \in 1..Len(vs), NEW d \in vs[i].revoked
        PROVE  \E m \in ms : m.version <= i /\ m.key = d /\ d \notin vs[m.version - 1].revoked
    <2>1. ASSUME NEW j \in 1..L, d \in versions[j].revoked, j <= i
          PROVE  \E m \in ms : m.version <= i /\ m.key = d /\ d \notin vs[m.version - 1].revoked
      <3>1. PICK m \in manifests : /\ m.version <= j /\ m.key = d
                                  /\ d \notin versions[m.version - 1].revoked
        BY <2>1 DEF ContextPart, Manifested
      <3>2. m.version \in 2..L
        BY DEF ContextPart, Manifested
      <3>3. m.version - 1 \in 1..Len(versions)
        BY <1>1, <3>2
      <3>4. vs[m.version - 1] = versions[m.version - 1]
        BY <1>0, <3>3 DEF Continues
      <3> QED BY <1>1, <1>8, <2>1, <3>1, <3>2, <3>4
    <2>2. CASE i \in 1..L
      BY <1>6, <1>9, <2>1, <2>2
    <2>3. CASE i \notin 1..L /\ d \in Newest.revoked
      BY <1>1, <2>1, <2>3 DEF Newest
    <2>4. CASE i \notin 1..L /\ d \notin Newest.revoked
      <3>1. i > L /\ vs[i] \in N
        BY <1>6, <2>4
      <3>2. d \in R /\ R # Newest.revoked /\ Len(vs) = L + 1 /\ i = L + 1
        BY <1>1, <1>9, <2>4, <3>1 DEF Publication
      <3>3. [version |-> Len(vs), key |-> d] \in ms
        BY <2>4, <3>2 DEF Publication
      <3> DEFINE m == [version |-> Len(vs), key |-> d]
      <3>4. m.version = L + 1 /\ m.key = d /\ vs[m.version - 1] = Newest
        BY <1>1, <1>7, <3>2
      <3> QED BY <1>1, <2>4, <3>2, <3>3, <3>4
    <2> QED BY <2>2, <2>3, <2>4
  <1>10. RevokedForGood'
    <2>1. ASSUME NEW i \in 1..Len(vs)
          PROVE  /\ vs[i].revoked \subseteq vs[Len(vs)].revoked
                 /\ \A d \in Device \ vs[i].revoked : vs[i].cut[d] = {}
      <3>1. vs[Len(vs)].revoked = R
        BY <1>7 DEF Publication
      <3>2. CASE i \in 1..L /\ vs[i] = versions[i]
        BY <1>0, <3>1, <3>2 DEF ContextPart, RevokedForGood
      <3>3. CASE vs[i] \in N
        BY <3>1, <3>3 DEF Publication
      <3> QED BY <1>6, <3>2, <3>3
    <2> QED BY <2>1 DEF RevokedForGood, Newest
  <1>11. CutsBound'
    <2>1. ASSUME NEW n \in Device, NEW d \in vs[held'[n]].revoked
          PROVE  \E m \in kept'[n] : m.key = d /\ d \notin vs[m.version - 1].revoked
      <3>1. n \in Node
        BY DEF Node
      <3>2. CASE n = Root
        <4>1. held'[n] = Len(vs) /\ Len(vs) \in 1..Len(vs)
          BY <1>1, <1>3, <1>5, <3>2
        <4>2. PICK m \in ms : m.version <= Len(vs) /\ m.key = d /\ d \notin vs[m.version - 1].revoked
          BY <1>9, <2>1, <4>1
        <4>3. m \in kept'[n]
          BY <1>3, <1>5, <3>2, <4>2
        <4> QED BY <4>2, <4>3
      <3>3. CASE n # Root
        <4>1. held'[n] = held[n] /\ kept'[n] = kept[n] /\ held[n] \in 1..L
          BY <1>3, <1>5, <3>1, <3>3
        <4>2. vs[held[n]] = versions[held[n]]
          BY <1>0, <4>1 DEF Continues
        <4>3. PICK m \in kept[n] : m.key = d /\ d \notin versions[m.version - 1].revoked
          BY <2>1, <4>1, <4>2 DEF ContextPart, CutsBound
        <4>4. m \in manifests
          BY <1>3, <3>1
        <4>5. m.version \in 2..L
          BY <4>4 DEF ContextPart, Manifested
        <4>6. m.version - 1 \in 1..Len(versions)
          BY <1>1, <4>5
        <4>7. vs[m.version - 1] = versions[m.version - 1]
          BY <1>0, <4>6 DEF Continues
        <4> QED BY <4>1, <4>3, <4>7
      <3> QED BY <3>2, <3>3
    <2> QED BY <2>1 DEF CutsBound
  <1>12. /\ held' \in [Node -> 1..Len(vs)] /\ kept' \in [Node -> SUBSET ms]
    <2>1. \A n \in Node : held[n] \in 1..Len(vs) /\ kept[n] \subseteq ms
      BY <1>1, <1>3, <1>8
    <2> QED BY <1>1, <1>3, <1>5, <2>1
  <1>13. NoneLeftBehind' /\ Manifested'
    BY <1>2, <1>8, <1>9 DEF NoneLeftBehind, Manifested, Follows
  <1>14. vs \in Seq(Version) /\ Len(vs) \in 1..MaxVersions
    BY <1>0, <1>1 DEF Continues
  <1>15. root' \in Newest'.anchors
    BY DEF Newest, Publication
  <1> QED BY <1>8, <1>10, <1>11, <1>12, <1>13, <1>14, <1>15 DEF ContextPart

-----------------------------------------------------------------------------
(* The operations that publish.                                            *)

LEMMA NewestTyped ==
  ASSUME ContextPart PROVE Newest \in Version /\ Len(versions) \in Nat \ {0}
  <1>1. versions \in Seq(Version) /\ Len(versions) \in 1..Len(versions) /\ Len(versions) \in Nat \ {0}
    BY TrustAssumption DEF ContextPart
  <1> QED BY <1>1, ElementOfSeq DEF Newest

\* The version of a revocation: keys revoked anew, each with a cut of its own log.
Revoking(keys, before) ==
    [Newest EXCEPT !.signer = root, !.revoked = @ \cup keys,
        !.cut = [d \in Device |-> IF d \in keys THEN CutOf(d, before[d]) ELSE @[d]]]

IsRevocation(v, keys, before) ==
    /\ v \in Version /\ v.signer = root /\ v.anchors = Newest.anchors
    /\ v.revoked = Newest.revoked \cup keys
    /\ \A d \in Device : v.cut[d] = IF d \in keys THEN CutOf(d, before[d]) ELSE Newest.cut[d]

LEMMA RevokingIs ==
  ASSUME ContextPart, NEW keys \in SUBSET Device, NEW before, NEW v, v = Revoking(keys, before)
  PROVE  IsRevocation(v, keys, before)
  <1>1. Newest \in Version /\ root \in Int
    BY NewestTyped DEF ContextPart
  <1>2. \A d \in Device : CutOf(d, before[d]) \subseteq Entry
    BY DEF CutOf, EntriesOf
  <1> DEFINE c == [d \in Device |-> IF d \in keys THEN CutOf(d, before[d]) ELSE Newest.cut[d]]
  <1>3. c \in [Device -> SUBSET Entry]
    BY <1>1, <1>2 DEF Version
  <1>4. \A d \in Device : c[d] = IF d \in keys THEN CutOf(d, before[d]) ELSE Newest.cut[d]
    OBVIOUS
  <1>5. v = [Newest EXCEPT !.signer = root, !.revoked = @ \cup keys, !.cut = c]
    BY DEF Revoking
  <1> HIDE DEF c
  <1>6. v = [signer |-> root, anchors |-> Newest.anchors, gone |-> Newest.gone,
             revoked |-> Newest.revoked \cup keys, cut |-> c]
    BY <1>1, <1>5 DEF Version
  <1> QED BY <1>1, <1>3, <1>4, <1>6 DEF Version, IsRevocation

LEMMA SignRevocationsKeeps ==
  ASSUME ContextPart, NEW keys \in SUBSET Device, NEW before, SignRevocations(keys, before)
  PROVE  /\ ContextPart' /\ keys \cap Newest.revoked = {}
         /\ \E v \in Version : /\ IsRevocation(v, keys, before)
                               /\ Continues(versions', {v}) /\ Newest' = v
         /\ lostAt' = [d \in Device |-> IF d \in keys THEN before[d] ELSE lostAt[d]]
  <1>1. PICK v : v = Revoking(keys, before)
    OBVIOUS
  <1>2. /\ v \in Version /\ v.signer = root /\ v.anchors = Newest.anchors
        /\ v.revoked = Newest.revoked \cup keys
        /\ \A d \in Device : v.cut[d] = IF d \in keys THEN CutOf(d, before[d]) ELSE Newest.cut[d]
        /\ IsRevocation(v, keys, before)
    <2>1. IsRevocation(v, keys, before)
      BY <1>1, RevokingIs
    <2> QED BY <2>1 DEF IsRevocation
  <1>3. /\ keys \cap Newest.revoked = {} /\ Publish(<<v>>)
        /\ manifests' = manifests \cup {[version |-> Len(versions'), key |-> d] : d \in keys}
        /\ SpreadOver(versions', manifests', Root)
        /\ UNCHANGED <<root, kit>>
        /\ lostAt' = [d \in Device |-> IF d \in keys THEN before[d] ELSE lostAt[d]]
    BY <1>1 DEF SignRevocations, Revoking
  <1>4. Continues(versions', {v}) /\ Len(versions') = Len(versions) + 1
    BY <1>2, <1>3, PublishOne
  <1>5. PICK vs, ms, R, N : /\ vs = versions' /\ ms = manifests' /\ R = Newest.revoked \cup keys
                          /\ N = {v}
    OBVIOUS
  <1>6. R \in SUBSET Device /\ R \ Newest.revoked = keys
    BY <1>3, <1>5, NewestTyped DEF Version
  <1>7. vs[Len(versions)] = Newest /\ vs[Len(versions) + 1] = v
    BY <1>4, <1>5, NewestTyped DEF Continues, Newest
  <1>8. \A i \in Len(versions) .. Len(vs) - 1 : Follows(vs, i)
    <2>1. \A i \in Len(versions) .. Len(vs) - 1 : i = Len(versions)
      BY <1>4, <1>5, NewestTyped
    <2>2. Follows(vs, Len(versions))
      BY <1>2, <1>7 DEF Follows, ContextPart
    <2> QED BY <2>1, <2>2
  <1>9. \A d \in Device \ R : v.cut[d] = {}
    BY <1>2, <1>5, NewestTyped DEF ContextPart, RevokedForGood, Newest
  <1>10. SpreadOver(vs, ms, Root)
    BY <1>3, <1>5 DEF SpreadOver
  <1>11. root' \in Nat \ {0} /\ root' \in vs[Len(vs)].anchors /\ kit' \in Int /\ kit' <= 0
    BY <1>2, <1>3, <1>4, <1>5, <1>7 DEF ContextPart
  <1>12. Publication(vs, ms, R, N)
    BY <1>2, <1>3, <1>4, <1>5, <1>6, <1>8, <1>9, <1>11 DEF Publication
  <1>13. ContextPart'
    BY <1>5, <1>10, <1>11, <1>12, PublishKeeps
  <1> QED BY <1>2, <1>3, <1>4, <1>5, <1>7, <1>13 DEF Newest

\* The operations that publish one version and revoke nothing.
LEMMA PublishSameRevoked ==
  ASSUME ContextPart, NEW v \in Version, Publish(<<v>>), v.signer = root,
         Newest.anchors \subseteq v.anchors, v.revoked = Newest.revoked,
         \A d \in Device \ v.revoked : v.cut[d] = Newest.cut[d],
         SpreadOver(versions', manifests, Root), manifests' = manifests, root' = root,
         kit' \in Int, kit' <= 0
  PROVE  ContextPart' /\ Continues(versions', {v}) /\ Newest' = v
  <1>1. Continues(versions', {v}) /\ Len(versions') = Len(versions) + 1
    BY PublishOne
  <1>2. PICK vs, ms, R, N : vs = versions' /\ ms = manifests' /\ R = Newest.revoked /\ N = {v}
    OBVIOUS
  <1>3. vs[Len(versions)] = Newest /\ vs[Len(versions) + 1] = v
    BY <1>1, <1>2, NewestTyped DEF Continues, Newest
  <1>4. \A i \in Len(versions) .. Len(vs) - 1 : Follows(vs, i)
    <2>1. \A i \in Len(versions) .. Len(vs) - 1 : i = Len(versions)
      BY <1>1, <1>2, NewestTyped
    <2>2. Follows(vs, Len(versions))
      BY <1>3 DEF Follows, ContextPart
    <2> QED BY <2>1, <2>2
  <1>5. SpreadOver(vs, ms, Root)
    BY <1>2 DEF SpreadOver
  <1>6. root' \in Nat \ {0} /\ root' \in vs[Len(vs)].anchors
    BY <1>1, <1>2, <1>3 DEF ContextPart
  <1>7. \A d \in Device \ R : v.cut[d] = {}
    BY <1>2, NewestTyped DEF ContextPart, RevokedForGood, Newest
  <1>8. Publication(vs, ms, R, N)
    BY <1>1, <1>2, <1>4, <1>6, <1>7, NewestTyped DEF Version, Publication
  <1>9. ContextPart'
    BY <1>2, <1>5, <1>6, <1>8, PublishKeeps
  <1> QED BY <1>1, <1>2, <1>3, <1>9 DEF Newest

LEMMA ReadmitKeeps ==
  ASSUME ContextPart, NEW n \in Device, NEW e \in Entry, Readmit(n, e)
  PROVE  /\ ContextPart'
         /\ \E v \in Version :
               /\ Continues(versions', {v}) /\ Newest' = v /\ v.signer = root
               /\ v.anchors = Newest.anchors /\ v.revoked = Newest.revoked
               /\ \A d \in Device : v.cut[d] = IF d = e.key THEN Newest.cut[d] \cup {e} ELSE Newest.cut[d]
  <1>1. PICK v : v = [Newest EXCEPT !.signer = root, !.cut[e.key] = @ \cup {e}]
    OBVIOUS
  <1>2. Newest \in Version /\ root \in Int /\ e.key \in Device
    BY NewestTyped, TrustAssumption DEF ContextPart, Entry
  <1>3. PICK c : c = [Newest.cut EXCEPT ![e.key] = @ \cup {e}]
    OBVIOUS
  <1>4. /\ c \in [Device -> SUBSET Entry]
        /\ \A d \in Device : c[d] = IF d = e.key THEN Newest.cut[d] \cup {e} ELSE Newest.cut[d]
    BY <1>2, <1>3 DEF Version
  <1>5. v = [signer |-> root, anchors |-> Newest.anchors, gone |-> Newest.gone,
             revoked |-> Newest.revoked, cut |-> c]
    BY <1>1, <1>2, <1>3 DEF Version
  <1>6. /\ v \in Version /\ v.signer = root /\ v.anchors = Newest.anchors
        /\ v.revoked = Newest.revoked /\ v.cut = c
    BY <1>2, <1>4, <1>5 DEF Version
  <1>7. /\ Publish(<<v>>) /\ SpreadOver(versions', manifests, Root) /\ e.key \in Newest.revoked
        /\ UNCHANGED <<root, kit, manifests>>
    BY <1>1 DEF Readmit
  <1>8. \A d \in Device \ v.revoked : v.cut[d] = Newest.cut[d]
    BY <1>4, <1>6, <1>7
  <1>9. kit' \in Int /\ kit' <= 0
    BY <1>7 DEF ContextPart
  <1>10. ContextPart' /\ Continues(versions', {v}) /\ Newest' = v
    BY <1>6, <1>7, <1>8, <1>9, PublishSameRevoked
  <1> QED BY <1>4, <1>6, <1>10

LEMMA RecoveryKitKeeps ==
  ASSUME ContextPart, RecoveryKit
  PROVE  /\ ContextPart'
         /\ \E v \in Version :
               /\ Continues(versions', {v}) /\ Newest' = v /\ v.signer = root
               /\ Newest.anchors \subseteq v.anchors /\ v.revoked = Newest.revoked
               /\ v.cut = Newest.cut
  <1>1. PICK k : k = kit'
    OBVIOUS
  <1>2. k \in Int /\ k <= 0
    BY <1>1 DEF RecoveryKit, ContextPart
  <1>3. PICK v : v = [Newest EXCEPT !.signer = root, !.anchors = @ \cup {k}]
    OBVIOUS
  <1>4. Newest \in Version /\ root \in Int
    BY NewestTyped DEF ContextPart
  <1>5. v = [signer |-> root, anchors |-> Newest.anchors \cup {k}, gone |-> Newest.gone,
             revoked |-> Newest.revoked, cut |-> Newest.cut]
    BY <1>3, <1>4 DEF Version
  <1>6. /\ v \in Version /\ v.signer = root /\ Newest.anchors \subseteq v.anchors
        /\ v.revoked = Newest.revoked /\ v.cut = Newest.cut
    BY <1>2, <1>4, <1>5 DEF Version
  <1>7. /\ Publish(<<v>>) /\ SpreadOver(versions', manifests, Root)
        /\ UNCHANGED <<root, manifests>>
    BY <1>1, <1>3 DEF RecoveryKit
  <1>8. ContextPart' /\ Continues(versions', {v}) /\ Newest' = v
    BY <1>1, <1>2, <1>6, <1>7, PublishSameRevoked
  <1> QED BY <1>6, <1>8

LEMMA RecoverKeeps ==
  ASSUME ContextPart, Recover
  PROVE  /\ ContextPart'
         /\ \E v, w \in Version :
               /\ Continues(versions', {v, w}) /\ Newest' = w
               /\ root' \in w.anchors /\ v.revoked = Newest.revoked /\ w.revoked = Newest.revoked
               /\ v.cut = Newest.cut /\ w.cut = Newest.cut
  <1>1. PICK new : new = root'
    OBVIOUS
  <1>2. new \in Nat \ {0} /\ new \in Int /\ kit \in Newest.anchors /\ kit \in Int
    BY <1>1 DEF Recover, ContextPart
  <1>3. PICK v, w : v = Recovered(new) /\ w = [Recovered(new) EXCEPT !.signer = new]
    OBVIOUS
  <1>4. Newest \in Version /\ root \in Int
    BY NewestTyped DEF ContextPart
  <1>5. /\ v = [signer |-> kit, anchors |-> {new}, gone |-> Newest.gone \cup {root},
                revoked |-> Newest.revoked, cut |-> Newest.cut]
        /\ w = [signer |-> new, anchors |-> {new}, gone |-> Newest.gone \cup {root},
                revoked |-> Newest.revoked, cut |-> Newest.cut]
    BY <1>3, <1>4 DEF Version, Recovered
  <1>6. /\ v \in Version /\ w \in Version
        /\ v.signer = kit /\ v.anchors = {new} /\ v.revoked = Newest.revoked /\ v.cut = Newest.cut
        /\ w.signer = new /\ w.anchors = {new} /\ w.revoked = Newest.revoked /\ w.cut = Newest.cut
    BY <1>2, <1>4, <1>5 DEF Version
  <1>7. /\ Publish(<<v, w>>) /\ SpreadOver(versions', manifests', Root)
        /\ UNCHANGED <<kit, manifests>>
    BY <1>1, <1>3 DEF Recover, RecoveryVersions
  <1>8. /\ Continues(versions', {v, w}) /\ Len(versions') = Len(versions) + 2
        /\ versions'[Len(versions) + 1] = v /\ versions'[Len(versions) + 2] = w
    BY <1>6, <1>7, PublishTwo
  <1>9. PICK vs, ms, R, N : vs = versions' /\ ms = manifests' /\ R = Newest.revoked /\ N = {v, w}
    OBVIOUS
  <1>10. vs[Len(versions)] = Newest
    BY <1>8, <1>9, NewestTyped DEF Continues, Newest
  <1>11. \A i \in Len(versions) .. Len(vs) - 1 : Follows(vs, i)
    <2>1. \A i \in Len(versions) .. Len(vs) - 1 : i = Len(versions) \/ i = Len(versions) + 1
      BY <1>8, <1>9, NewestTyped
    <2>2. Follows(vs, Len(versions))
      BY <1>2, <1>6, <1>8, <1>9, <1>10 DEF Follows
    <2>3. (Len(versions) + 1) + 1 = Len(versions) + 2
      BY NewestTyped
    <2>4. Follows(vs, Len(versions) + 1)
      BY <1>6, <1>8, <1>9, <2>3 DEF Follows
    <2> QED BY <2>1, <2>2, <2>4
  <1>12. SpreadOver(vs, ms, Root)
    BY <1>7, <1>9 DEF SpreadOver
  <1>13. \A d \in Device \ R : Newest.cut[d] = {}
    BY <1>9, NewestTyped DEF ContextPart, RevokedForGood, Newest
  <1>14. root' \in Nat \ {0} /\ root' \in vs[Len(vs)].anchors /\ kit' \in Int /\ kit' <= 0
    BY <1>1, <1>2, <1>6, <1>7, <1>8, <1>9 DEF ContextPart
  <1>15. Publication(vs, ms, R, N)
    BY <1>4, <1>6, <1>7, <1>8, <1>9, <1>11, <1>13, <1>14 DEF Version, Publication
  <1>16. ContextPart'
    BY <1>9, <1>12, <1>14, <1>15, PublishKeeps
  <1> QED BY <1>1, <1>6, <1>8, <1>16 DEF Newest

-----------------------------------------------------------------------------
(* Certificates.                                                           *)

\* A publication that the root signs is no recovery and keeps every anchor.
LEMMA CertsKept ==
  ASSUME ContextPart, CertPart, certs' = certs, NEW v, Continues(versions', {v}), Newest' = v,
         v.signer = root, Newest.anchors \subseteq v.anchors
  PROVE  CertPart'
  <1>1. ASSUME NEW i \in DOMAIN versions', versions'[i].signer < 0, NEW d \in versions'[i].revoked
        PROVE  \E c \in 1..Len(certs[d]) : certs[d][c].issuer \in v.anchors
    <2>1. i \in 1..Len(versions') /\ Len(versions) \in Nat /\ Len(versions') \in Nat
      BY LenProperties, NewestTyped DEF Continues
    <2>2. i \notin Len(versions) + 1 .. Len(versions')
      BY <1>1 DEF Continues, ContextPart
    <2>3. i \in 1..Len(versions) /\ versions'[i] = versions[i]
      BY <2>1, <2>2 DEF Continues
    <2>4. i \in Recoveries
      BY <1>1, <2>3, LenProperties DEF Recoveries, ContextPart
    <2> QED BY <1>1, <2>3, <2>4 DEF CertPart, CutStillVerifies
  <1>2. CutStillVerifies'
    BY <1>1 DEF CutStillVerifies, Recoveries
  <1> QED BY <1>2 DEF CertPart

LEMMA CertsSame ==
  ASSUME CertPart, UNCHANGED <<versions, certs>> PROVE CertPart'
  BY DEF CertPart, CutStillVerifies, Recoveries, Newest

\* Certificates are only added, or re-issued by the issuers they had.
LEMMA CertsGrow ==
  ASSUME CertPart, versions' = versions,
         certs' \in [Device -> Seq([issuer : Nat, valid : BOOLEAN])],
         \A d \in Device : \A c \in 1..Len(certs[d]) :
            c \in 1..Len(certs'[d]) /\ certs'[d][c].issuer = certs[d][c].issuer,
         \A i \in DOMAIN versions : versions[i].revoked \subseteq Device
  PROVE  CertPart'
  <1>1. ASSUME NEW i \in Recoveries, NEW d \in versions[i].revoked
        PROVE  \E c \in 1..Len(certs'[d]) : certs'[d][c].issuer \in Newest.anchors
    <2>1. d \in Device
      BY DEF Recoveries
    <2>2. PICK c \in 1..Len(certs[d]) : certs[d][c].issuer \in Newest.anchors
      BY DEF CertPart, CutStillVerifies
    <2>3. c \in 1..Len(certs'[d]) /\ certs'[d][c].issuer = certs[d][c].issuer
      BY <2>1, <2>2
    <2> QED BY <2>2, <2>3
  <1> QED BY <1>1 DEF CertPart, CutStillVerifies, Recoveries, Newest

LEMMA RevokedTyped ==
  ASSUME ContextPart PROVE \A i \in DOMAIN versions : versions[i] \in Version
  BY LenProperties, ElementOfSeq DEF ContextPart

Cert == [issuer : Nat, valid : BOOLEAN]

LEMMA AppendCert ==
  ASSUME NEW s \in Seq(Cert), NEW e \in Cert, NEW t, t = Append(s, e)
  PROVE  /\ t \in Seq(Cert) /\ Len(t) = Len(s) + 1 /\ t[Len(t)] = e
         /\ \A c \in 1..Len(s) : c \in 1..Len(t) /\ t[c].issuer = s[c].issuer
  <1>1. /\ t \in Seq(Cert) /\ Len(t) = Len(s) + 1 /\ Len(s) \in Nat
        /\ \A c \in 1..Len(s) : t[c] = s[c]
        /\ t[Len(s) + 1] = e
    BY AppendProperties, LenProperties
  <1> QED BY <1>1

LEMMA RenewKeeps ==
  ASSUME ContextPart, CertPart, NEW d \in Device, Renew(d) PROVE CertPart'
  <1>1. PICK e : e = [issuer |-> root, valid |-> TRUE]
    OBVIOUS
  <1>2. e \in Cert
    BY <1>1 DEF Cert, ContextPart
  <1>3. certs' = [certs EXCEPT ![d] = Append(@, e)] /\ versions' = versions
    BY <1>1 DEF Renew, contexts
  <1>4. \A k \in Device : certs[k] \in Seq(Cert)
    BY DEF CertPart, Cert
  <1>5. PICK t : t = Append(certs[d], e)
    OBVIOUS
  <1>6. /\ t \in Seq(Cert)
        /\ \A c \in 1..Len(certs[d]) : c \in 1..Len(t) /\ t[c].issuer = certs[d][c].issuer
    BY <1>2, <1>4, <1>5, AppendCert
  <1>7. \A k \in Device : certs'[k] = IF k = d THEN t ELSE certs[k]
    BY <1>3, <1>5 DEF CertPart
  <1>8. certs' \in [Device -> Seq(Cert)]
    BY <1>3, <1>5, <1>6 DEF CertPart, Cert
  <1>9. \A k \in Device : \A c \in 1..Len(certs[k]) :
            c \in 1..Len(certs'[k]) /\ certs'[k][c].issuer = certs[k][c].issuer
    BY <1>6, <1>7
  <1> QED BY <1>3, <1>8, <1>9, CertsGrow, RevokedTyped DEF Cert, Version

LEMMA ReissuedCerts ==
  ASSUME NEW s \in Seq(Cert), NEW last \in Int, NEW t,
         t = [i \in DOMAIN s |-> IF i <= last THEN [s[i] EXCEPT !.valid = FALSE] ELSE s[i]]
  PROVE  /\ t \in Seq(Cert)
         /\ \A c \in 1..Len(s) : c \in 1..Len(t) /\ t[c].issuer = s[c].issuer
  <1>1. DOMAIN s = 1..Len(s) /\ Len(s) \in Nat /\ \A i \in 1..Len(s) : s[i] \in Cert
    BY LenProperties, ElementOfSeq
  <1>2. ASSUME NEW i \in 1..Len(s)
        PROVE  t[i] \in Cert /\ t[i].issuer = s[i].issuer
    BY <1>1 DEF Cert
  <1>3. t \in [1..Len(s) -> Cert]
    BY <1>1, <1>2
  <1>4. t \in Seq(Cert)
    BY <1>1, <1>3, SeqDef
  <1>5. Len(t) = Len(s)
    BY <1>1, <1>3, <1>4, LenProperties
  <1> QED BY <1>2, <1>4, <1>5

LEMMA ExpireKeeps ==
  ASSUME ContextPart, CertPart, NEW d \in Device, NEW which, Expire(d, which) PROVE CertPart'
  <1>1. PICK last : last = IF which = "all" THEN Len(certs[d]) ELSE Len(certs[d]) - 1
    OBVIOUS
  <1>2. \A k \in Device : certs[k] \in Seq(Cert)
    BY DEF CertPart, Cert
  <1>3. last \in Int
    BY <1>1, <1>2, LenProperties
  <1>4. PICK t : t = [i \in DOMAIN certs[d] |->
                       IF i <= last THEN [certs[d][i] EXCEPT !.valid = FALSE] ELSE certs[d][i]]
    OBVIOUS
  <1>5. /\ t \in Seq(Cert)
        /\ \A c \in 1..Len(certs[d]) : c \in 1..Len(t) /\ t[c].issuer = certs[d][c].issuer
    BY <1>2, <1>3, <1>4, ReissuedCerts
  <1>6. certs' = [certs EXCEPT ![d] = t] /\ versions' = versions
    BY <1>1, <1>4 DEF Expire, contexts
  <1>7. \A k \in Device : certs'[k] = IF k = d THEN t ELSE certs[k]
    BY <1>6 DEF CertPart
  <1>8. certs' \in [Device -> Seq(Cert)]
    BY <1>5, <1>6 DEF CertPart, Cert
  <1>9. \A k \in Device : \A c \in 1..Len(certs[k]) :
            c \in 1..Len(certs'[k]) /\ certs'[k][c].issuer = certs[k][c].issuer
    BY <1>5, <1>7
  <1> QED BY <1>6, <1>8, <1>9, CertsGrow, RevokedTyped DEF Cert, Version

LEMMA RecertifyKeeps ==
  ASSUME ContextPart, CertPart, Recover PROVE CertPart'
  <1>1. PICK v, w \in Version :
            /\ Continues(versions', {v, w}) /\ Newest' = w /\ root' \in w.anchors
            /\ v.revoked = Newest.revoked /\ w.revoked = Newest.revoked
    BY RecoverKeeps
  <1>2. PICK new, e : new = root' /\ e = [issuer |-> new, valid |-> TRUE]
    OBVIOUS
  <1>3. e \in Cert /\ e.issuer = new
    BY <1>2 DEF Cert, Recover, ContextPart
  <1>4. certs' = [d \in Device |-> IF d \in Newest.revoked THEN Append(certs[d], e) ELSE certs[d]]
    BY <1>2 DEF Recover, Recertified
  <1>5. \A k \in Device : certs[k] \in Seq(Cert)
    BY DEF CertPart, Cert
  <1>6. ASSUME NEW d \in Device, NEW t, t = Append(certs[d], e)
        PROVE  t \in Seq(Cert) /\ \E c \in 1..Len(t) : t[c].issuer = new
    <2>1. t \in Seq(Cert) /\ Len(t) = Len(certs[d]) + 1 /\ t[Len(t)] = e /\ Len(certs[d]) \in Nat
      BY <1>3, <1>5, <1>6, AppendCert, LenProperties
    <2>2. Len(t) \in 1..Len(t)
      BY <2>1
    <2> QED BY <1>3, <2>1, <2>2
  <1>7. certs' \in [Device -> Seq(Cert)]
    BY <1>4, <1>5, <1>6
  <1>8. ASSUME NEW i \in DOMAIN versions', NEW d \in versions'[i].revoked
        PROVE  \E c \in 1..Len(certs'[d]) : certs'[d][c].issuer \in w.anchors
    <2>1. i \in 1..Len(versions') /\ Len(versions) \in Nat /\ Len(versions') \in Nat
      BY <1>1, LenProperties, NewestTyped DEF Continues
    <2>2. d \in Newest.revoked
      <3>1. CASE i \in 1..Len(versions)
        BY <1>1, <1>8, <3>1 DEF Continues, ContextPart, RevokedForGood
      <3>2. CASE i \in Len(versions) + 1 .. Len(versions')
        BY <1>1, <1>8, <3>2 DEF Continues
      <3> QED BY <2>1, <3>1, <3>2
    <2>3. d \in Device
      BY <2>2, NewestTyped DEF Version
    <2>4. certs'[d] = Append(certs[d], e)
      BY <1>4, <2>2, <2>3
    <2>5. \E c \in 1..Len(certs'[d]) : certs'[d][c].issuer = new
      BY <1>6, <2>3, <2>4
    <2> QED BY <1>1, <1>2, <2>5
  <1> QED BY <1>1, <1>7, <1>8 DEF CertPart, Cert, CutStillVerifies, Recoveries

-----------------------------------------------------------------------------
(* The layers and the thief.                                               *)

LEMMA TheftSame ==
  ASSUME TheftPart, UNCHANGED <<now, skew, layers, theft>> PROVE TheftPart'
  BY DEF TheftPart, layers

LEMMA ClockTyped ==
  ASSUME TheftPart PROVE now \in Int /\ skew \in Int /\ theft \in Int
  BY TrustAssumption DEF TheftPart

LEMMA LayerSteps ==
  ASSUME TheftPart,
         \/ \E n \in Node : Write(n) \/ Stop(n) \/ Restart(n)
         \/ \E n, m \in Node, e \in Entry : Take(n, m, e)
         \/ \E d \in Device : Suspect(d)
         \/ Steal \/ Tick
  PROVE  TheftPart'
  <1>0. /\ Root \in Node /\ Thief \in Node /\ Victim \in Node /\ now \in Int /\ skew \in Int
        /\ Never = -9 /\ now >= 1
    BY RootIsDevice, ClockTyped DEF Node, Never, TheftPart
  <1>1. ASSUME NEW n \in Node, Write(n) PROVE TheftPart'
    <2>1. PICK e : /\ e.by = n /\ layer[n].st = "runs" /\ e \in Entry
                   /\ seen' = [seen EXCEPT ![n] = @ \cup {e}]
      <3>1. PICK k, q : /\ k = layer[n].key
                        /\ q = Cardinality({r \in 1 .. MaxSeq : \E e \in seen[n] : e.key = k /\ e.seq = r}) + 1
        OBVIOUS
      <3>2. PICK e : e = [key |-> k, seq |-> q, by |-> n]
        OBVIOUS
      <3>3. /\ layer[n].st = "runs" /\ k \in Writers /\ q <= MaxSeq
            /\ seen' = [seen EXCEPT ![n] = @ \cup {e}]
        BY <1>1, <3>1, <3>2 DEF Write
      <3>4. q \in 1 .. MaxSeq
        <4>1. PICK W : W = {r \in 1 .. MaxSeq : \E f \in seen[n] : f.key = k /\ f.seq = r}
          OBVIOUS
        <4>2. W \subseteq 1 .. MaxSeq /\ IsFiniteSet(1 .. MaxSeq)
          <5>1. MaxSeq \in Int /\ 1 \in Int
            BY TrustAssumption
          <5> QED BY <4>1, <5>1, FS_Interval
        <4>3. Cardinality(W) \in Nat
          BY <4>2, FS_Subset, FS_CardinalityType
        <4>4. q = Cardinality(W) + 1
          BY <3>1, <4>1
        <4> QED BY <3>3, <4>3, <4>4, TrustAssumption
      <3>5. n \in Writers \cup {Thief}
        BY <3>1, <3>3 DEF TheftPart, Node
      <3> QED BY <3>2, <3>3, <3>4, <3>5 DEF Entry
    <2>2. UNCHANGED <<now, skew, layer, firstAt, theft>>
      BY <1>1 DEF Write, ghosts
    <2>3. seen' \in [Node -> SUBSET Entry]
      BY <2>1 DEF TheftPart
    <2>4. ASSUME NEW m \in Node, NEW f \in seen'[m], f.by = Thief PROVE theft # Never
      <3>1. CASE f \in seen[m]
        BY <2>4, <3>1 DEF TheftPart
      <3>2. CASE f \notin seen[m]
        <4>1. f = e /\ n = Thief
          BY <2>1, <2>4, <3>2 DEF TheftPart
        <4> QED BY <2>1, <4>1 DEF TheftPart
      <3> QED BY <3>1, <3>2
    <2> QED BY <2>2, <2>3, <2>4 DEF TheftPart
  <1>2. ASSUME NEW n \in Node, Stop(n) \/ Restart(n) PROVE TheftPart'
    <2>1. /\ layer[n].st # "none" /\ \A m \in Node : m # n => layer'[m] = layer[m]
          /\ layer'[n].st # "none" /\ layer'[n].key \in {layer[n].key, n}
          /\ layer' \in [Node -> [st : {"none", "runs", "stopped"}, key : Node, runs : Nat]]
          /\ UNCHANGED <<now, skew, seen, firstAt, theft>>
      <3>1. CASE Stop(n)
        BY <3>1 DEF Stop, TheftPart, ghosts
      <3>2. CASE Restart(n)
        <4>1. /\ layer[n].st = "stopped" /\ UNCHANGED <<now, skew, seen, firstAt, theft>>
              /\ layer' = [layer EXCEPT ![n] = [st |-> "runs", key |-> n, runs |-> layer[n].runs + 1]]
          BY <3>2 DEF Restart, ghosts
        <4>2. layer[n].runs + 1 \in Nat
          BY DEF TheftPart
        <4> QED BY <4>1, <4>2 DEF TheftPart
      <3> QED BY <1>2, <3>1, <3>2
    <2>2. theft' = Never <=> layer'[Thief].st = "none"
      BY <1>0, <2>1 DEF TheftPart
    <2>3. \A m \in Device : m \in Node /\ layer'[m].key = m
      BY <2>1 DEF TheftPart, Node
    <2> QED BY <2>1, <2>2, <2>3 DEF TheftPart
  <1>3. ASSUME NEW n \in Node, NEW m \in Node, NEW e \in Entry, Take(n, m, e) PROVE TheftPart'
    <2>1. /\ e \in seen[m] /\ seen' = [seen EXCEPT ![n] = @ \cup {e}]
          /\ UNCHANGED <<now, skew, layer, theft>>
          /\ firstAt' = firstAt \/ firstAt' = [firstAt EXCEPT ![e] = now + skew]
      BY <1>3 DEF Take, ghosts, ClockOf
    <2>2. seen' \in [Node -> SUBSET Entry] /\ firstAt' \in [Entry -> Int]
      BY <1>0, <2>1 DEF TheftPart
    <2>3. ASSUME NEW k \in Node, NEW f \in seen'[k], f.by = Thief PROVE theft # Never
      BY <2>1, <2>3 DEF TheftPart
    <2>4. ASSUME NEW f \in Entry, f.by = Thief, firstAt'[f] # Never
          PROVE  theft # Never /\ firstAt'[f] >= theft + skew
      <3>1. CASE firstAt'[f] = firstAt[f]
        BY <2>4, <3>1 DEF TheftPart
      <3>2. CASE firstAt'[f] # firstAt[f]
        <4>1. f = e /\ firstAt'[f] = now + skew
          BY <2>1, <3>2 DEF TheftPart
        <4>2. theft # Never /\ theft <= now /\ theft \in Int
          BY <2>1, <2>4, <4>1 DEF TheftPart
        <4> QED BY <1>0, <4>1, <4>2
      <3> QED BY <3>1, <3>2
    <2> QED BY <2>1, <2>2, <2>3, <2>4 DEF TheftPart
  <1>4. ASSUME NEW d \in Device, Suspect(d) PROVE TheftPart'
    BY <1>4 DEF Suspect, TheftPart, ghosts
  <1>5. CASE Steal
    <2>1. /\ layer[Thief].st = "none" /\ theft' = now
          /\ layer' = [layer EXCEPT ![Thief] = [st |-> "runs", key |-> Victim, runs |-> 1]]
          /\ seen' = [seen EXCEPT ![Thief] = seen[Victim]]
          /\ UNCHANGED <<now, skew, firstAt>>
      BY <1>5 DEF Steal
    <2>2. /\ layer' \in [Node -> [st : {"none", "runs", "stopped"}, key : Node, runs : Nat]]
          /\ layer'[Thief].st = "runs" /\ seen' \in [Node -> SUBSET Entry]
      BY <1>0, <2>1 DEF TheftPart
    <2>4. \A n \in Device : layer'[n].key = n
      BY <2>1, TrustAssumption DEF TheftPart, Node
    <2>3. \A f \in Entry : f.by = Thief => firstAt[f] = Never
      BY <2>1 DEF TheftPart
    <2> QED BY <1>0, <2>1, <2>2, <2>3, <2>4 DEF TheftPart
  <1>6. CASE Tick
    BY <1>0, <1>6, TrustAssumption DEF Tick, TheftPart, layers, ghosts
  <1> QED BY <1>1, <1>2, <1>3, <1>4, <1>5, <1>6

-----------------------------------------------------------------------------
(* Cuts.                                                                   *)

Excused(e, admitted, stolen, lost) ==
    e.by = Thief => e \in admitted \/ (stolen # Never /\ stolen + skew < lost)

LEMMA CutSame ==
  ASSUME CutPart, UNCHANGED <<versions, lostAt, readmitted, skew, theft>>,
         lapsed' \in [Device -> Int], suspected' \subseteq Device
  PROVE  CutPart'
  BY DEF CutPart

\* New versions whose cut of the stolen key holds nothing of the thief's that is not excused.
LEMMA CutPublished ==
  ASSUME ContextPart, CutPart, NEW N, Continues(versions', N), UNCHANGED <<theft, skew, suspected, lapsed>>,
         lostAt' \in [Device -> Int], readmitted \subseteq readmitted',
         \A v \in N : \A e \in v.cut[Victim] : Excused(e, readmitted', theft, lostAt'[Victim]),
         lostAt'[Victim] = lostAt[Victim] \/ Victim \notin Newest.revoked
  PROVE  CutPart'
  <1>1. ASSUME NEW i \in 1..Len(versions'), NEW e \in versions'[i].cut[Victim], e.by = Thief
        PROVE  e \in readmitted' \/ (theft # Never /\ theft + skew < lostAt'[Victim])
    <2>1. CASE i \in 1..Len(versions)
      <3>1. versions'[i] = versions[i]
        BY <2>1 DEF Continues
      <3>2. CASE lostAt'[Victim] = lostAt[Victim]
        BY <1>1, <2>1, <3>1, <3>2 DEF CutPart
      <3>3. CASE Victim \notin Newest.revoked
        BY <1>1, <2>1, <3>1, <3>3, RootIsDevice DEF ContextPart, RevokedForGood
      <3> QED BY <3>2, <3>3
    <2>2. CASE i \notin 1..Len(versions)
      <3>1. i \in Len(versions) + 1 .. Len(versions')
        BY <2>2, NewestTyped DEF Continues
      <3>2. versions'[i] \in N
        BY <3>1 DEF Continues
      <3> QED BY <1>1, <3>2 DEF Excused
    <2> QED BY <2>1, <2>2
  <1> QED BY <1>1 DEF CutPart

LEMMA OldCutExcused ==
  ASSUME ContextPart, CutPart
  PROVE  \A e \in Newest.cut[Victim] : Excused(e, readmitted, theft, lostAt[Victim])
  BY NewestTyped DEF CutPart, Newest, Excused

LEMMA SignedCut ==
  ASSUME ContextPart, TheftPart, CutPart, NEW keys \in SUBSET Device,
         NEW before \in [Device -> Int], SignRevocations(keys, before),
         UNCHANGED <<theft, skew, suspected, lapsed, readmitted>>
  PROVE  CutPart'
  <1>1. PICK v \in Version : IsRevocation(v, keys, before) /\ Continues(versions', {v})
    BY SignRevocationsKeeps
  <1>2. /\ keys \cap Newest.revoked = {}
        /\ lostAt' = [d \in Device |-> IF d \in keys THEN before[d] ELSE lostAt[d]]
    BY SignRevocationsKeeps
  <1>3. lostAt' \in [Device -> Int] /\ Victim \in Device
    BY <1>2, RootIsDevice DEF CutPart
  <1>4. ASSUME NEW e \in v.cut[Victim] PROVE Excused(e, readmitted', theft, lostAt'[Victim])
    <2>1. CASE Victim \in keys
      <3>1. e \in CutOf(Victim, before[Victim]) /\ lostAt'[Victim] = before[Victim]
        BY <1>1, <1>2, <1>3, <2>1 DEF IsRevocation
      <3>2. e \in Entry /\ firstAt[e] # Never /\ firstAt[e] < before[Victim]
        BY <3>1 DEF CutOf, EntriesOf
      <3>3. ASSUME e.by = Thief PROVE theft # Never /\ theft + skew < before[Victim]
        <4>1. theft # Never /\ firstAt[e] >= theft + skew
          BY <3>2, <3>3 DEF TheftPart
        <4>2. firstAt[e] \in Int /\ before[Victim] \in Int /\ theft + skew \in Int
          BY <1>3, <3>2, ClockTyped DEF TheftPart
        <4> QED BY <3>2, <4>1, <4>2
      <3> QED BY <3>1, <3>3 DEF Excused
    <2>2. CASE Victim \notin keys
      <3>1. e \in Newest.cut[Victim] /\ lostAt'[Victim] = lostAt[Victim]
        BY <1>1, <1>2, <1>3, <2>2 DEF IsRevocation
      <3> QED BY <3>1, OldCutExcused
    <2> QED BY <2>1, <2>2
  <1>5. lostAt'[Victim] = lostAt[Victim] \/ Victim \notin Newest.revoked
    BY <1>2, <1>3
  <1>6. PICK N : N = {v}
    OBVIOUS
  <1>7. /\ Continues(versions', N)
        /\ \A w \in N : \A e \in w.cut[Victim] : Excused(e, readmitted', theft, lostAt'[Victim])
    BY <1>1, <1>4, <1>6
  <1> QED BY <1>3, <1>5, <1>7, CutPublished

-----------------------------------------------------------------------------
LEMMA TrustStep == TrustInv /\ [Next]_vars => TrustInv'
  <1> SUFFICES ASSUME TrustInv, [Next]_vars PROVE TrustInv'
    OBVIOUS
  <1>1. ContextPart /\ CertPart /\ TheftPart /\ CutPart
    BY DEF TrustInv
  <1>2. lapsed \in [Device -> Int] /\ suspected \subseteq Device /\ lostAt \in [Device -> Int]
    BY <1>1 DEF CutPart
  <1>3. ContextPart /\ UNCHANGED contexts => ContextPart'
    BY DEF contexts, ContextPart, Newest, NoneLeftBehind, Follows, RevokedForGood, Manifested, CutsBound
  <1>4. ASSUME NEW n \in Node, Spread(n) PROVE TrustInv'
    <2>1. /\ SpreadOver(versions, manifests, n)
          /\ UNCHANGED <<now, skew, root, kit, versions, manifests, certs, lapsed, layers, ghosts>>
      BY <1>4 DEF Spread
    <2>2. ContextPart' /\ CertPart' /\ TheftPart'
      BY <1>1, <2>1, SpreadKeeps, CertsSame, TheftSame DEF ghosts
    <2>3. CutPart'
      BY <1>1, <1>2, <2>1, CutSame DEF ghosts, layers
    <2> QED BY <2>2, <2>3 DEF TrustInv
  <1>5. ASSUME TheftPart', UNCHANGED <<contexts, skew, certs, lapsed, lostAt, readmitted>>,
               theft' = theft, suspected' \subseteq Device
        PROVE  TrustInv'
    <2>1. ContextPart'
      BY <1>1, <1>3, <1>5
    <2>2. CertPart'
      BY <1>1, <1>5, CertsSame DEF contexts
    <2>3. CutPart'
      BY <1>1, <1>2, <1>5, CutSame DEF contexts
    <2> QED BY <1>5, <2>1, <2>2, <2>3 DEF TrustInv
  <1>6. ASSUME NEW n \in Node, Write(n) \/ Stop(n) \/ Restart(n) PROVE TrustInv'
    BY <1>1, <1>2, <1>5, <1>6, LayerSteps DEF Write, Stop, Restart, ghosts
  <1>7. ASSUME NEW n \in Node, NEW m \in Node, NEW e \in Entry, Take(n, m, e) PROVE TrustInv'
    BY <1>1, <1>2, <1>5, <1>7, LayerSteps DEF Take, ghosts
  <1>8. ASSUME NEW d \in Device, Suspect(d) PROVE TrustInv'
    BY <1>1, <1>2, <1>5, <1>8, LayerSteps DEF Suspect, ghosts
  <1>9. CASE Tick
    BY <1>1, <1>2, <1>5, <1>9, LayerSteps DEF Tick, ghosts, layers
  <1>10. CASE Steal
    <2>1. TheftPart' /\ UNCHANGED <<contexts, skew, certs, lapsed, lostAt, readmitted, suspected>>
          /\ layer[Thief].st = "none"
      BY <1>1, <1>10, LayerSteps DEF Steal
    <2>2. theft = Never
      BY <1>1, <2>1 DEF TheftPart
    <2>3. ContextPart' /\ CertPart'
      BY <1>1, <1>3, <2>1, CertsSame DEF contexts
    <2>4. CutPart'
      BY <1>1, <2>1, <2>2 DEF CutPart, contexts
    <2> QED BY <2>1, <2>3, <2>4 DEF TrustInv
  <1>11. ASSUME NEW d \in Device, Renew(d) PROVE TrustInv'
    <2>1. UNCHANGED <<now, skew, contexts, lapsed, layers, ghosts>>
      BY <1>11 DEF Renew
    <2>2. ContextPart' /\ CertPart' /\ TheftPart'
      BY <1>1, <1>3, <1>11, <2>1, RenewKeeps, TheftSame DEF ghosts
    <2>3. CutPart'
      BY <1>1, <1>2, <2>1, CutSame DEF contexts, ghosts, layers
    <2> QED BY <2>2, <2>3 DEF TrustInv
  <1>12. ASSUME NEW d \in Device, NEW which, Expire(d, which) PROVE TrustInv'
    <2>1. UNCHANGED <<now, skew, contexts, layers, ghosts>> /\ lapsed' \in [Device -> Int]
      BY <1>1, <1>2, <1>12, ClockTyped DEF Expire
    <2>2. ContextPart' /\ CertPart' /\ TheftPart'
      BY <1>1, <1>3, <1>12, <2>1, ExpireKeeps, TheftSame DEF ghosts
    <2>3. CutPart'
      BY <1>1, <1>2, <2>1, CutSame DEF contexts, ghosts, layers
    <2> QED BY <2>2, <2>3 DEF TrustInv
  <1>13. ASSUME NEW keys \in SUBSET Device, NEW before \in [Device -> Int],
                SignRevocations(keys, before),
                UNCHANGED <<now, skew, certs, lapsed, layers, theft, readmitted>>
         PROVE  TrustInv'
    <2>1. PICK v \in Version : /\ IsRevocation(v, keys, before)
                               /\ Continues(versions', {v}) /\ Newest' = v
      BY <1>1, <1>13, SignRevocationsKeeps
    <2>2. ContextPart'
      BY <1>1, <1>13, SignRevocationsKeeps
    <2>3. CertPart'
      BY <1>1, <1>13, <2>1, CertsKept DEF IsRevocation
    <2>4. TheftPart'
      BY <1>1, <1>13, TheftSame
    <2>5. CutPart'
      BY <1>1, <1>13, SignedCut DEF layers
    <2> QED BY <2>2, <2>3, <2>4, <2>5 DEF TrustInv
  <1>14. ASSUME NEW d \in Device, NEW lost \in 1..MaxTime, Revoke(d, lost) PROVE TrustInv'
    <2>1. PICK keys, before : keys = {d} /\ before = [k \in Device |-> lost]
      OBVIOUS
    <2>2. keys \in SUBSET Device /\ before \in [Device -> Int]
      BY <2>1
    <2>3. SignRevocations(keys, before)
          /\ UNCHANGED <<now, skew, certs, lapsed, layers, theft, readmitted>>
      BY <1>14, <2>1 DEF Revoke
    <2> QED BY <1>13, <2>2, <2>3
  <1>15. CASE EndKeys
    <2>1. PICK keys, before : keys = Ending /\ before = [d \in Device |-> lapsed[d] + skew]
      OBVIOUS
    <2>2. keys \in SUBSET Device
      BY <2>1, TrustAssumption DEF Ending
    <2>3. before \in [Device -> Int]
      BY <1>1, <1>2, <2>1, ClockTyped
    <2>4. SignRevocations(keys, before)
          /\ UNCHANGED <<now, skew, certs, lapsed, layers, theft, readmitted>>
      BY <1>15, <2>1 DEF EndKeys
    <2> QED BY <1>13, <2>2, <2>3, <2>4
  <1>16. ASSUME NEW n \in Device, NEW e \in Entry, Readmit(n, e) PROVE TrustInv'
    <2>1. /\ readmitted' = readmitted \cup {e}
          /\ UNCHANGED <<now, skew, root, kit, manifests, certs, lapsed, layers, theft, lostAt>>
      BY <1>16 DEF Readmit
    <2>2. ContextPart'
      BY <1>1, <1>16, ReadmitKeeps
    <2>3. PICK v \in Version :
               /\ Continues(versions', {v}) /\ Newest' = v /\ v.signer = root
               /\ v.anchors = Newest.anchors /\ v.revoked = Newest.revoked
               /\ \A d \in Device : v.cut[d] = IF d = e.key THEN Newest.cut[d] \cup {e} ELSE Newest.cut[d]
      BY <1>1, <1>16, ReadmitKeeps
    <2>4. CertPart'
      BY <1>1, <2>1, <2>3, CertsKept
    <2>5. TheftPart'
      BY <1>1, <2>1, TheftSame
    <2>6. ASSUME NEW f \in v.cut[Victim] PROVE Excused(f, readmitted', theft, lostAt'[Victim])
      <3>1. f \in Newest.cut[Victim] \/ f = e
        BY <2>3, RootIsDevice
      <3> QED BY <1>1, <2>1, <3>1, OldCutExcused DEF Excused
    <2>7. PICK N : N = {v}
      OBVIOUS
    <2>8. CutPart'
      <3>1. /\ Continues(versions', N)
            /\ \A w \in N : \A f \in w.cut[Victim] : Excused(f, readmitted', theft, lostAt'[Victim])
        BY <2>3, <2>6, <2>7
      <3>2. /\ UNCHANGED <<theft, skew, suspected, lapsed>> /\ lostAt' = lostAt
            /\ readmitted \subseteq readmitted'
        BY <2>1 DEF layers
      <3> QED BY <1>1, <1>2, <3>1, <3>2, CutPublished
    <2> QED BY <2>2, <2>4, <2>5, <2>8 DEF TrustInv
  <1>17. ASSUME NEW N, Continues(versions', N), \A v \in N : v.cut = Newest.cut,
                UNCHANGED <<lapsed, layers, ghosts, skew>>
         PROVE  CutPart'
    <2>1. \A v \in N : \A e \in v.cut[Victim] : Excused(e, readmitted', theft, lostAt'[Victim])
      BY <1>1, <1>17, OldCutExcused DEF ghosts
    <2> QED BY <1>1, <1>2, <1>17, <2>1, CutPublished DEF layers, ghosts
  <1>18. CASE RecoveryKit
    <2>1. UNCHANGED <<now, skew, root, manifests, certs, lapsed, layers, ghosts>>
      BY <1>18 DEF RecoveryKit
    <2>2. ContextPart'
      BY <1>1, <1>18, RecoveryKitKeeps
    <2>3. PICK v \in Version :
               /\ Continues(versions', {v}) /\ Newest' = v /\ v.signer = root
               /\ Newest.anchors \subseteq v.anchors /\ v.revoked = Newest.revoked
               /\ v.cut = Newest.cut
      BY <1>1, <1>18, RecoveryKitKeeps
    <2>4. CertPart'
      BY <1>1, <2>1, <2>3, CertsKept
    <2>5. TheftPart'
      BY <1>1, <2>1, TheftSame DEF ghosts
    <2>6. PICK N : N = {v}
      OBVIOUS
    <2>7. CutPart'
      BY <1>17, <2>1, <2>3, <2>6
    <2> QED BY <2>2, <2>4, <2>5, <2>7 DEF TrustInv
  <1>19. CASE Recover
    <2>1. UNCHANGED <<now, skew, kit, manifests, lapsed, layers, ghosts>>
      BY <1>19 DEF Recover
    <2>2. ContextPart' /\ CertPart'
      BY <1>1, <1>19, RecoverKeeps, RecertifyKeeps
    <2>3. PICK v, w \in Version : /\ Continues(versions', {v, w})
                                  /\ v.cut = Newest.cut /\ w.cut = Newest.cut
      BY <1>1, <1>19, RecoverKeeps
    <2>4. TheftPart'
      BY <1>1, <2>1, TheftSame DEF ghosts
    <2>5. PICK N : N = {v, w}
      OBVIOUS
    <2>6. CutPart'
      BY <1>17, <2>1, <2>3, <2>5
    <2> QED BY <2>2, <2>4, <2>6 DEF TrustInv
  <1>20. CASE UNCHANGED vars
    BY <1>1, <1>2, <1>5, <1>20, TheftSame DEF vars, layers, ghosts
  <1> QED
    BY <1>4, <1>6, <1>7, <1>8, <1>9, <1>10, <1>11, <1>12, <1>14, <1>15, <1>16, <1>18, <1>19, <1>20
    DEF Next

-----------------------------------------------------------------------------
\* A device that was away for any length of time follows to the newest version, through recovery
\* kits and recoveries, and holds the manifests of every cut in the version it holds.
THEOREM AwayDevicesFollow == Spec => []Followable
  <1>1. TrustInv => Followable
    BY DEF TrustInv, ContextPart, CertPart, TheftPart, CutPart, Followable, TypeOK, Version
  <1> QED BY <1>1, TrustInit, TrustStep, PTL DEF Spec

\* Whatever the thief wrote, and whenever the root device saw it, it is outside the stolen key's
\* cut when the owner names a moment not after the theft.
THEOREM ThievesAreShutOut == Spec => []ThiefShutOut
  <1>1. TrustInv => ThiefShutOut
    <2> SUFFICES ASSUME TrustInv, theft # Never, lostAt[Victim] <= theft + skew,
                        NEW i \in DOMAIN versions, NEW e \in versions[i].cut[Victim], e.by = Thief
                 PROVE  e \in readmitted
      BY DEF ThiefShutOut
    <2>1. i \in 1..Len(versions)
      BY LenProperties DEF TrustInv, ContextPart
    <2>2. lostAt[Victim] \in Int /\ theft + skew \in Int
      BY RootIsDevice, ClockTyped DEF TrustInv, CutPart
    <2> QED BY <2>1, <2>2 DEF TrustInv, CutPart
  <1> QED BY <1>1, TrustInit, TrustStep, PTL DEF Spec

\* Every key revoked before a recovery keeps a certificate that chains to an anchor of every later
\* version, so that what its cut admits still verifies.
THEOREM CutsStillVerify == Spec => []CutStillVerifies
  <1>1. TrustInv => CutStillVerifies
    BY DEF TrustInv, CertPart
  <1> QED BY <1>1, TrustInit, TrustStep, PTL DEF Spec

\* The cut of a guest whose certificates lapsed is bounded at the true moment of the lapse, for any
\* offset of the root device's clock.
THEOREM LapsesAreBounds == Spec => EndedAtLapse
  <1>1. ASSUME TrustInv, EndKeys, NEW d \in Newest'.revoked \ Newest.revoked
        PROVE  Newest'.cut[d] = {e \in EntriesOf(d) : firstAt[e] # Never /\ firstAt[e] - skew < lapsed[d]}
    <2>1. ContextPart /\ TheftPart /\ CutPart
      BY <1>1 DEF TrustInv
    <2>2. PICK keys, before : keys = Ending /\ before = [k \in Device |-> lapsed[k] + skew]
      OBVIOUS
    <2>3. keys \in SUBSET Device /\ SignRevocations(keys, before)
      BY <1>1, <2>2, TrustAssumption DEF Ending, EndKeys
    <2>4. PICK v \in Version : IsRevocation(v, keys, before) /\ Newest' = v
      BY <2>1, <2>3, SignRevocationsKeeps
    <2>5. d \in keys /\ d \in Device /\ v.cut[d] = CutOf(d, before[d])
      BY <1>1, <2>3, <2>4 DEF IsRevocation
    <2>6. before[d] = lapsed[d] + skew
      BY <2>2, <2>5
    <2>7. lapsed[d] \in Int /\ skew \in Int /\ \A e \in Entry : firstAt[e] \in Int
      BY <2>1, <2>5, ClockTyped DEF CutPart, TheftPart
    <2>8. \A e \in EntriesOf(d) : firstAt[e] < lapsed[d] + skew <=> firstAt[e] - skew < lapsed[d]
      BY <2>7 DEF EntriesOf
    <2> QED BY <2>4, <2>5, <2>6, <2>8 DEF CutOf
  <1>2. TrustInv /\ [Next]_vars =>
          [EndKeys => \A d \in Newest'.revoked \ Newest.revoked :
             Newest'.cut[d] = {e \in EntriesOf(d) : firstAt[e] # Never /\ firstAt[e] - skew < lapsed[d]}]_vars
    BY <1>1
  <1> QED BY <1>2, TrustInit, TrustStep, PTL DEF Spec, EndedAtLapse

-----------------------------------------------------------------------------
(* The element rule.                                                       *)

\* Versions are numbered by their writer, one after the other.
Numbered ==
    /\ IsFiniteSet(DOMAIN made)
    /\ \A i \in DOMAIN made :
          /\ i = <<i[1], i[2]>>
          /\ i[2] \in 1..Cardinality({j \in DOMAIN made : j[1] = i[1]})

\* A holder's list has each version once, with as much of its past as the holder has.
IsList(ns) ==
    /\ ns \in Seq(ToSet(ns))
    /\ \A m, n \in ToSet(ns) : m.id = n.id => m = n
    /\ \A n \in ToSet(ns) : n.past \subseteq Ids(ns)
Listed(d) == IsList(nodes[d])

\* A writer applied what was made, with all of its past.
AsMade(d) ==
    \A n \in ToSet(nodes[d]) :
        n.id \in DOMAIN made /\ n = [id |-> n.id, past |-> made[n.id].past, op |-> made[n.id].op]

\* What is reported is what does not count.
AreAnswers(ns, says, names, rep) ==
    /\ DOMAIN says = Ids(ns) /\ DOMAIN names = Ids(ns)
    /\ rep = {n.id : n \in {m \in ToSet(ns) : NotCounted(ns, m)}}
    /\ \A n \in ToSet(ns) :
          /\ names[n.id] \in 0..1
          /\ (says[n.id] = "counted" \/ names[n.id] = 1) <=> ~NotCounted(ns, n)
Answered(d) == AreAnswers(nodes[d], said[d], named[d], reported[d])

Shapes ==
    /\ nodes = [d \in Holder |-> nodes[d]] /\ reported = [d \in Holder |-> reported[d]]
    /\ said = [d \in Holder |-> said[d]] /\ named = [d \in Holder |-> named[d]]

RuleInv ==
    /\ Shapes /\ Numbered
    /\ \A d \in Holder : Listed(d) /\ Answered(d)
    /\ \A d \in Writer : AsMade(d)

LEMMA AppendedSet ==
  ASSUME NEW s, s \in Seq(ToSet(s)), NEW n
  PROVE  /\ ToSet(Append(s, n)) = ToSet(s) \cup {n}
         /\ Append(s, n) \in Seq(ToSet(Append(s, n)))
  <1> DEFINE T == ToSet(s) \cup {n}
  <1>1. s \in Seq(T)
    OBVIOUS
  <1>2. Append(s, n) \in Seq(T) /\ Len(Append(s, n)) = Len(s) + 1
    BY <1>1
  <1>3. /\ \A k \in 1..Len(s) : Append(s, n)[k] = s[k]
        /\ Append(s, n)[Len(s) + 1] = n
    BY <1>1
  <1>4. DOMAIN s = 1..Len(s) /\ DOMAIN Append(s, n) = 1..Len(s) + 1 /\ Len(s) \in Nat
    BY <1>1, <1>2
  <1>5. ToSet(Append(s, n)) = T
    <2>1. ToSet(Append(s, n)) \subseteq T
      BY <1>2, <1>4 DEF ToSet
    <2>2. ToSet(s) \subseteq ToSet(Append(s, n))
      BY <1>3, <1>4 DEF ToSet
    <2>3. n \in ToSet(Append(s, n))
      BY <1>3, <1>4 DEF ToSet
    <2> QED
      BY <2>1, <2>2, <2>3
  <1> QED
    BY <1>2, <1>5

LEMMA EmptyList == ToSet(<<>>) = {} /\ <<>> \in Seq({})
  BY DEF ToSet

LEMMA RuleInit == ElementInit => RuleInv
  <1> SUFFICES ASSUME ElementInit PROVE RuleInv
    OBVIOUS
  <1>1. DOMAIN NoVersions = {}
    BY DEF NoVersions
  <1>2. IsFiniteSet({})
    BY FS_EmptySet
  <1>3. Shapes
    BY DEF ElementInit, Shapes
  <1>4. Numbered
    BY <1>1, <1>2 DEF ElementInit, Numbered
  <1>5. ASSUME NEW d \in Holder PROVE nodes[d] = <<>> /\ said[d] = NoVersions /\ named[d] = NoVersions /\ reported[d] = {}
    BY DEF ElementInit
  <1>6. ASSUME NEW d \in Holder PROVE Listed(d) /\ Answered(d) /\ AsMade(d)
    BY <1>5, <1>1, EmptyList DEF Listed, IsList, Answered, AreAnswers, AsMade, Ids
  <1> QED
    BY <1>3, <1>4, <1>6 DEF RuleInv, Holder

\* A number not given before.
LEMMA NewNumber ==
  ASSUME Numbered, NEW w, NEW v, made' = Noted(made, NextId(w), v)
  PROVE  /\ NextId(w) \notin DOMAIN made
         /\ DOMAIN made' = DOMAIN made \cup {NextId(w)}
         /\ made'[NextId(w)] = v
         /\ \A i \in DOMAIN made : made'[i] = made[i]
         /\ Numbered'
  <1> DEFINE Of(D, u) == {j \in D : j[1] = u}
             x == NextId(w)
  <1>1. \A u : IsFiniteSet(Of(DOMAIN made, u)) /\ Cardinality(Of(DOMAIN made, u)) \in Nat
    BY FS_Subset, FS_CardinalityType DEF Numbered
  <1>2. x = <<w, 1 + Cardinality(Of(DOMAIN made, w))>>
    BY DEF NextId
  <1>3. x \notin DOMAIN made
    <2> SUFFICES ASSUME x \in DOMAIN made PROVE FALSE
      OBVIOUS
    <2>1. x[2] \in 1..Cardinality(Of(DOMAIN made, w))
      BY <1>2 DEF Numbered
    <2> HIDE DEF Of
    <2> QED
      BY <1>1, <1>2, <2>1
  <1>4. /\ DOMAIN made' = DOMAIN made \cup {x}
        /\ made'[x] = v
        /\ \A i \in DOMAIN made : made'[i] = made[i]
    BY <1>3 DEF Noted
  <1>5. IsFiniteSet(DOMAIN made')
    BY <1>4, FS_AddElement DEF Numbered
  <1>6. Of(DOMAIN made', w) = Of(DOMAIN made, w) \cup {x} /\ x \notin Of(DOMAIN made, w)
    BY <1>2, <1>3, <1>4
  <1>7. Cardinality(Of(DOMAIN made', w)) = Cardinality(Of(DOMAIN made, w)) + 1
    <2> HIDE DEF Of
    <2> QED
      BY <1>1, <1>6, FS_AddElement
  <1>8. ASSUME NEW u, u # w PROVE Of(DOMAIN made', u) = Of(DOMAIN made, u)
    <2>1. x[1] = w
      BY <1>2
    <2> HIDE DEF x
    <2> QED
      BY <1>4, <1>8, <2>1
  <1>9. ASSUME NEW i \in DOMAIN made'
        PROVE  i = <<i[1], i[2]>> /\ i[2] \in 1..Cardinality(Of(DOMAIN made', i[1]))
    <2>1. CASE i = x
      <3>1. x[1] = w /\ x = <<x[1], x[2]>> /\ x[2] = 1 + Cardinality(Of(DOMAIN made, w))
        BY <1>2
      <3> HIDE DEF Of, x
      <3> QED
        BY <1>1, <1>7, <2>1, <3>1
    <2>2. CASE i \in DOMAIN made
      <3>1. i = <<i[1], i[2]>> /\ i[2] \in 1..Cardinality(Of(DOMAIN made, i[1]))
        BY <2>2 DEF Numbered
      <3> HIDE DEF Of
      <3>2. CASE i[1] = w
        BY <1>1, <1>7, <3>1, <3>2
      <3>3. CASE i[1] # w
        BY <1>8, <3>1, <3>3
      <3> QED
        BY <3>2, <3>3
    <2> QED
      BY <1>4, <2>1, <2>2
  <1>10. Numbered'
    BY <1>5, <1>9 DEF Numbered
  <1> QED
    BY <1>3, <1>4, <1>10

\* What a list counts it still counts when a version that is in no past is added.
LEMMA CountsOn ==
  ASSUME NEW ns, ns \in Seq(ToSet(ns)), NEW m, m.id \notin Ids(ns),
         NEW n \in ToSet(ns), n.past \subseteq Ids(ns),
         NotCounted(Append(ns, m), n)
  PROVE  NotCounted(ns, n)
  <1> DEFINE ms == Append(ns, m)
  <1>1. ToSet(ms) = ToSet(ns) \cup {m}
    BY AppendedSet
  <1>2. PICK l \in Locks(ms) :
           /\ l.lock.by # n.id[1] /\ l.at \in n.past
           /\ l.lock.setting \in Writes(n)
           /\ ~Lifted(ms, l)
    BY DEF NotCounted
  <1>3. l \in Locks(ns)
    <2>1. PICK k \in ToSet(ms) : \E h \in Held(k) : l = [lock |-> h, at |-> k.id]
      BY <1>2 DEF Locks
    <2>2. k.id # m.id
      BY <1>2, <2>1
    <2> QED
      BY <1>1, <2>1, <2>2 DEF Locks
  <1>4. ~Lifted(ns, l)
    BY <1>1, <1>2 DEF Lifted
  <1> QED
    BY <1>2, <1>3, <1>4 DEF NotCounted

\* One answer: the list, what is reported and what has been said stay as one.
LEMMA ApplyKeeps ==
  ASSUME NEW d \in Holder, NEW i, NEW v, Shapes, Listed(d), Answered(d), Apply(d, i, v)
  PROVE  Shapes' /\ Listed(d)' /\ Answered(d)'
  <1> DEFINE old == nodes[d]
             n == [id |-> i, past |-> v.past \cap Ids(old), op |-> v.op]
             ns == IF i \in Ids(old) THEN old ELSE Append(old, n)
             waits == \E m \in ToSet(ns) : m.id = i /\ NotCounted(ns, m)
             rep == IF waits THEN reported[d] \cup {i} ELSE reported[d]
             counting == NowCounted(ns, rep)
             was == said[d]
             told == named[d]
  <1>1. /\ nodes' = [nodes EXCEPT ![d] = ns]
        /\ said' = [said EXCEPT ![d] = Noted(@, i, IF waits THEN "not counted" ELSE "counted")]
        /\ reported' = [reported EXCEPT ![d] = rep \ counting]
        /\ named' = [named EXCEPT ![d] = [j \in Ids(ns) |->
             (IF j \in DOMAIN @ THEN @[j] ELSE 0) + (IF j \in counting THEN 1 ELSE 0)]]
    BY DEF Apply
  <1> HIDE DEF n, waits, rep, counting
  <1>2. Shapes'
    BY <1>1 DEF Shapes
  <1>3. /\ nodes'[d] = ns
        /\ said'[d] = Noted(was, i, IF waits THEN "not counted" ELSE "counted")
        /\ reported'[d] = rep \ counting
        /\ named'[d] = [j \in Ids(ns) |->
             (IF j \in DOMAIN told THEN told[j] ELSE 0) + (IF j \in counting THEN 1 ELSE 0)]
    BY <1>1 DEF Shapes
  <1>4. n.id = i /\ n.past \subseteq Ids(old)
    BY DEF n
  <1>5. /\ ns \in Seq(ToSet(ns))
        /\ i \in Ids(old) => ns = old
        /\ i \notin Ids(old) => ns = Append(old, n) /\ ToSet(ns) = ToSet(old) \cup {n}
    BY AppendedSet DEF Listed, IsList
  <1>6. Ids(ns) = Ids(old) \cup {i}
    BY <1>4, <1>5 DEF Ids
  <1>7. \A m, k \in ToSet(ns) : m.id = k.id => m = k
    BY <1>4, <1>5 DEF Ids, Listed, IsList
  <1>8. \A m \in ToSet(ns) : m.past \subseteq Ids(ns)
    BY <1>4, <1>5, <1>6 DEF Listed, IsList
  <1>9. IsList(ns)
    BY <1>5, <1>7, <1>8 DEF IsList
  \* From not counting to counting, never back.
  <1>10. \A m \in ToSet(old) : NotCounted(ns, m) => NotCounted(old, m)
    BY <1>4, <1>5, CountsOn DEF Listed, IsList
  <1>11. reported[d] \subseteq Ids(old)
    BY DEF Answered, AreAnswers, Ids
  <1>12. rep \ counting = {m.id : m \in {k \in ToSet(ns) : NotCounted(ns, k)}}
    <2>1. ASSUME NEW j \in rep \ counting
          PROVE  \E k \in ToSet(ns) : NotCounted(ns, k) /\ j = k.id
      <3>1. j \in Ids(ns)
        BY <1>6, <1>11 DEF rep
      <3>2. PICK k \in ToSet(ns) : j = k.id
        BY <3>1 DEF Ids
      <3> QED
        BY <3>2, <2>1 DEF counting, NowCounted
    <2>2. ASSUME NEW k \in ToSet(ns), NotCounted(ns, k)
          PROVE  k.id \in rep /\ k.id \notin counting
      <3>1. k.id \in rep
        <4>1. CASE k.id = i
          BY <2>2, <4>1 DEF rep, waits
        <4>2. CASE k.id # i
          <5>1. k \in ToSet(old)
            BY <1>4, <1>5, <4>2
          <5>2. NotCounted(old, k)
            BY <1>10, <2>2, <5>1
          <5> QED
            BY <5>1, <5>2 DEF rep, Answered, AreAnswers
        <4> QED
          BY <4>1, <4>2
      <3>2. k.id \notin counting
        BY <1>7, <2>2 DEF counting, NowCounted
      <3> QED
        BY <3>1, <3>2
    <2> QED
      BY <2>1, <2>2
  <1>13. DOMAIN said'[d] = Ids(ns) /\ DOMAIN named'[d] = Ids(ns)
    BY <1>3, <1>6 DEF Noted, Answered, AreAnswers
  \* A version is named when it begins to count, and was not before.
  <1>14. ASSUME NEW m \in ToSet(ns)
         PROVE  /\ named'[d][m.id] \in 0..1
                /\ (said'[d][m.id] = "counted" \/ named'[d][m.id] = 1) <=> ~NotCounted(ns, m)
    <2> DEFINE j == m.id
               before == IF j \in Ids(old) THEN told[j] ELSE 0
    <2>1. j \in Ids(ns)
      BY DEF Ids
    <2>2. j = i => (waits <=> NotCounted(ns, m))
      BY <1>7 DEF waits
    <2>3. /\ j = i /\ NotCounted(ns, m) => said'[d][j] = "not counted"
          /\ j = i /\ ~NotCounted(ns, m) => said'[d][j] = "counted"
          /\ j # i => said'[d][j] = was[j]
      BY <1>3, <1>6, <2>1, <2>2 DEF Noted, Answered, AreAnswers
    <2>4. j \in counting <=> j \in rep /\ ~NotCounted(ns, m)
      BY <1>7 DEF counting, NowCounted
    <2>5. /\ j \in counting => named'[d][j] = before + 1
          /\ j \notin counting => named'[d][j] = before + 0
      BY <1>3, <2>1 DEF Answered, AreAnswers
    <2>6. CASE j \in Ids(old)
      <3>1. m \in ToSet(old)
        BY <1>4, <1>5, <2>6
      <3>2. j \in reported[d] <=> NotCounted(old, m)
        BY <3>1 DEF Answered, AreAnswers, Listed, IsList
      <3>3. before = told[j] /\ told[j] \in 0..1
            /\ ((was[j] = "counted" \/ told[j] = 1) <=> ~NotCounted(old, m))
        BY <2>6, <3>1 DEF Answered, AreAnswers
      <3>4. NotCounted(ns, m) => NotCounted(old, m)
        BY <1>10, <3>1
      <3>5. j \in rep <=> (NotCounted(old, m) \/ (j = i /\ NotCounted(ns, m)))
        BY <2>2, <3>2 DEF rep
      <3> HIDE DEF j, was, told, before
      <3>6. CASE NotCounted(ns, m)
        <4>1. j \notin counting /\ told[j] = 0 /\ was[j] # "counted"
          BY <2>4, <3>3, <3>4, <3>6
        <4>2. named'[d][j] = 0
          BY <2>5, <3>3, <4>1
        <4>3. said'[d][j] # "counted"
          BY <2>3, <3>6, <4>1
        <4> QED
          BY <3>6, <4>2, <4>3 DEF j
      <3>7. CASE NotCounted(old, m) /\ ~NotCounted(ns, m)
        <4>1. j \in counting /\ told[j] = 0
          BY <2>4, <3>3, <3>5, <3>7
        <4>2. named'[d][j] = 1
          BY <2>5, <3>3, <4>1
        <4> QED
          BY <3>7, <4>2 DEF j
      <3>8. CASE ~NotCounted(old, m)
        <4>1. ~NotCounted(ns, m) /\ j \notin counting
          BY <2>4, <3>4, <3>5, <3>8
        <4>2. named'[d][j] = told[j]
          BY <2>5, <3>3, <4>1
        <4>3. said'[d][j] = "counted" \/ named'[d][j] = 1
          BY <2>3, <3>3, <3>8, <4>1, <4>2
        <4> QED
          BY <3>3, <4>1, <4>2, <4>3 DEF j
      <3> QED
        BY <3>6, <3>7, <3>8
    <2>7. CASE j \notin Ids(old)
      <3>1. j = i
        BY <1>6, <2>1, <2>7
      <3>2. j \in rep <=> waits
        BY <1>11, <2>7, <3>1 DEF rep
      <3>3. j \notin counting
        BY <2>2, <2>4, <3>1, <3>2
      <3>4. named'[d][j] = 0
        BY <2>5, <2>7, <3>3
      <3> HIDE DEF j
      <3>5. said'[d][j] = "counted" <=> ~NotCounted(ns, m)
        BY <2>3, <3>1
      <3>6. named'[d][j] # 1
        BY <3>4
      <3>7. named'[d][j] \in 0..1
        BY <3>4
      <3> QED
        BY <3>5, <3>6, <3>7, Zenon DEF j
    <2> QED
      BY <2>6, <2>7
  <1>15. AreAnswers(ns, said'[d], named'[d], reported'[d])
    BY <1>3, <1>12, <1>13, <1>14 DEF AreAnswers
  <1>16. Listed(d)' /\ Answered(d)'
    <2> HIDE DEF ns
    <2>1. IsList(nodes'[d]) /\ AreAnswers(nodes'[d], said'[d], named'[d], reported'[d])
      BY <1>3, <1>9, <1>15
    <2> QED
      BY <2>1 DEF Listed, Answered
  <1> QED
    BY <1>2, <1>16

\* What one answer leaves alone, and what it adds.
LEMMA Applied ==
  ASSUME NEW d \in Holder, NEW i, NEW v, Shapes, Listed(d), Apply(d, i, v)
  PROVE  /\ \A e \in Holder \ {d} : /\ nodes'[e] = nodes[e] /\ said'[e] = said[e]
                                    /\ named'[e] = named[e] /\ reported'[e] = reported[e]
         /\ \A m \in ToSet(nodes'[d]) :
               \/ m \in ToSet(nodes[d])
               \/ m = [id |-> i, past |-> v.past \cap Ids(nodes[d]), op |-> v.op]
  <1> DEFINE n == [id |-> i, past |-> v.past \cap Ids(nodes[d]), op |-> v.op]
             ns == IF i \in Ids(nodes[d]) THEN nodes[d] ELSE Append(nodes[d], n)
  <1>1. nodes'[d] = ns
    BY DEF Apply, Shapes
  <1>2. \A e \in Holder \ {d} : /\ nodes'[e] = nodes[e] /\ said'[e] = said[e]
                                /\ named'[e] = named[e] /\ reported'[e] = reported[e]
    BY DEF Apply, Shapes
  <1>3. ToSet(ns) \subseteq ToSet(nodes[d]) \cup {n}
    <2> HIDE DEF n
    <2> QED
      BY AppendedSet DEF Listed, IsList
  <1> QED
    BY <1>1, <1>2, <1>3

LEMMA TakeKeeps ==
  ASSUME RuleInv, NEW d \in Holder, NEW i \in DOMAIN made, Apply(d, i, made[i]), made' = made,
         d \in Writer => made[i].past \subseteq Ids(nodes[d])
  PROVE  RuleInv'
  <1>1. Shapes' /\ Listed(d)' /\ Answered(d)'
    BY ApplyKeeps DEF RuleInv
  <1>2. /\ \A e \in Holder \ {d} : /\ nodes'[e] = nodes[e] /\ said'[e] = said[e]
                                   /\ named'[e] = named[e] /\ reported'[e] = reported[e]
        /\ \A m \in ToSet(nodes'[d]) :
              \/ m \in ToSet(nodes[d])
              \/ m = [id |-> i, past |-> made[i].past \cap Ids(nodes[d]), op |-> made[i].op]
    BY Applied DEF RuleInv
  <1>3. ASSUME NEW e \in Holder PROVE Listed(e)' /\ Answered(e)'
    BY <1>1, <1>2 DEF RuleInv, Listed, Answered
  <1>4. Numbered'
    BY DEF RuleInv, Numbered
  <1>5. ASSUME NEW e \in Writer PROVE AsMade(e)'
    <2>1. CASE e # d
      BY <1>2, <2>1 DEF RuleInv, AsMade, Holder
    <2>2. CASE e = d
      <3> SUFFICES ASSUME NEW m \in ToSet(nodes'[d])
                   PROVE  m.id \in DOMAIN made /\ m = [id |-> m.id, past |-> made[m.id].past, op |-> made[m.id].op]
        BY <2>2 DEF AsMade
      <3>1. CASE m \in ToSet(nodes[d])
        BY <2>2, <3>1 DEF RuleInv, AsMade
      <3>2. CASE m = [id |-> i, past |-> made[i].past \cap Ids(nodes[d]), op |-> made[i].op]
        <4>1. made[i].past \cap Ids(nodes[d]) = made[i].past
          BY <2>2
        <4> QED
          BY <3>2, <4>1
      <3> QED
        BY <1>2, <3>1, <3>2
    <2> QED
      BY <2>1, <2>2
  <1> QED
    BY <1>1, <1>3, <1>4, <1>5 DEF RuleInv

LEMMA PutKeeps ==
  ASSUME RuleInv, NEW w \in Writer, NEW claimed, NEW basis, NEW edits, Put(w, claimed, basis, edits)
  PROVE  RuleInv'
  <1> DEFINE v == [past |-> Ids(nodes[w]), op |-> [writer |-> claimed, basis |-> basis, edits |-> edits]]
             i == NextId(w)
  <1>1. made' = Noted(made, i, v) /\ Apply(w, i, v) /\ w \in Holder
    BY DEF Put, Holder
  <1>2. v.past = Ids(nodes[w])
    OBVIOUS
  <1> HIDE DEF v, i
  <1>3. /\ i \notin DOMAIN made /\ DOMAIN made' = DOMAIN made \cup {i} /\ made'[i] = v
        /\ \A j \in DOMAIN made : made'[j] = made[j]
        /\ Numbered'
    BY <1>1, NewNumber DEF RuleInv, i
  <1>4. Shapes' /\ Listed(w)' /\ Answered(w)'
    BY <1>1, ApplyKeeps DEF RuleInv
  <1>5. /\ \A e \in Holder \ {w} : /\ nodes'[e] = nodes[e] /\ said'[e] = said[e]
                                   /\ named'[e] = named[e] /\ reported'[e] = reported[e]
        /\ \A m \in ToSet(nodes'[w]) :
              \/ m \in ToSet(nodes[w])
              \/ m = [id |-> i, past |-> v.past \cap Ids(nodes[w]), op |-> v.op]
    BY <1>1, Applied DEF RuleInv
  <1>6. ASSUME NEW e \in Holder PROVE Listed(e)' /\ Answered(e)'
    BY <1>4, <1>5 DEF RuleInv, Listed, Answered
  <1>7. ASSUME NEW e \in Writer, NEW m \in ToSet(nodes[e])
        PROVE  m.id \in DOMAIN made' /\ m = [id |-> m.id, past |-> made'[m.id].past, op |-> made'[m.id].op]
    BY <1>3 DEF RuleInv, AsMade
  <1>8. ASSUME NEW e \in Writer PROVE AsMade(e)'
    <2>1. CASE e # w
      BY <1>5, <1>7, <2>1 DEF AsMade, Holder
    <2>2. CASE e = w
      <3> SUFFICES ASSUME NEW m \in ToSet(nodes'[w])
                   PROVE  m.id \in DOMAIN made' /\ m = [id |-> m.id, past |-> made'[m.id].past, op |-> made'[m.id].op]
        BY <2>2 DEF AsMade
      <3>1. CASE m = [id |-> i, past |-> v.past \cap Ids(nodes[w]), op |-> v.op]
        BY <1>2, <1>3, <3>1
      <3> QED
        BY <1>5, <1>7, <3>1
    <2> QED
      BY <2>1, <2>2
  <1> QED
    BY <1>3, <1>4, <1>6, <1>8 DEF RuleInv

LEMMA RuleStep == RuleInv /\ [ElementNext]_elementVars => RuleInv'
  <1> SUFFICES ASSUME RuleInv, [ElementNext]_elementVars PROVE RuleInv'
    OBVIOUS
  <1>1. ASSUME NEW w \in Writer, NEW edits \in Operations, PutOperation(w, edits) PROVE RuleInv'
    BY <1>1, PutKeeps DEF PutOperation
  <1>2. ASSUME NEW w \in Writer, PutCheckpoint(w) PROVE RuleInv'
    BY <1>2, PutKeeps DEF PutCheckpoint
  <1>3. ASSUME NEW w \in Writer, PutUnsound(w) PROVE RuleInv'
    BY <1>3, PutKeeps DEF PutUnsound
  <1>4. ASSUME NEW d \in Holder, NEW i \in DOMAIN made, Arrive(d, i) PROVE RuleInv'
    <2>1. d \in Writer => made[i].past \subseteq Ids(nodes[d])
      BY <1>4, WriterAssumption DEF Arrive, Known
    <2> QED
      BY <1>4, <2>1, TakeKeeps DEF Arrive
  <1>5. ASSUME NEW d \in Late, NEW i \in DOMAIN made, Begin(d, i) PROVE RuleInv'
    <2>1. d \in Holder /\ d \notin Writer
      BY WriterAssumption DEF Holder
    <2> QED
      BY <1>5, <2>1, TakeKeeps DEF Begin
  <1>6. CASE UNCHANGED elementVars
    <2>1. Shapes'
      BY <1>6 DEF RuleInv, elementVars, Shapes
    <2>2. Numbered'
      BY <1>6 DEF RuleInv, elementVars, Numbered
    <2>3. ASSUME NEW d \in Holder PROVE Listed(d)' /\ Answered(d)'
      BY <1>6 DEF RuleInv, elementVars, Listed, Answered
    <2>4. ASSUME NEW d \in Writer PROVE AsMade(d)'
      BY <1>6 DEF RuleInv, elementVars, AsMade
    <2> QED
      BY <2>1, <2>2, <2>3, <2>4 DEF RuleInv
  <1> QED
    BY <1>1, <1>2, <1>3, <1>4, <1>5, <1>6 DEF ElementNext

LEMMA RuleAlways == ElementSpec => []RuleInv
  BY RuleInit, RuleStep, PTL DEF ElementSpec

\* apply, now_counted: a device's answers hold, in whatever order versions and the unlocks that
\* free them come in: one is counting exactly if it was answered so or has been named since, once.
THEOREM AnswersAreKept == ElementSpec => []AnswersHold
  <1>1. RuleInv => AnswersHold
    <2> SUFFICES ASSUME RuleInv, NEW d \in Holder, NEW n \in ToSet(nodes[d])
                 PROVE  /\ (said[d][n.id] = "counted" \/ named[d][n.id] = 1) <=> ~NotCounted(nodes[d], n)
                        /\ named[d][n.id] <= 1
      BY DEF AnswersHold
    <2>1. /\ named[d][n.id] \in 0..1
          /\ (said[d][n.id] = "counted" \/ named[d][n.id] = 1) <=> ~NotCounted(nodes[d], n)
      BY DEF RuleInv, Answered, AreAnswers
    <2>2. named[d][n.id] <= 1
      BY <2>1
    <2> QED
      BY <2>1, <2>2
  <1> QED
    BY <1>1, RuleAlways, PTL

-----------------------------------------------------------------------------
(* The element as a function of the set of versions applied.               *)

LocksOf(S) == UNION {{[lock |-> l, at |-> n.id] : l \in Held(n)} : n \in S}
LiftedIn(S, l) ==
    \E n \in S :
        /\ l.at \in n.past
        /\ IF IsCheckpoint(n) THEN l.lock \notin State(n).locks
           ELSE n.id[1] = l.lock.by /\ Unlock(l.lock.setting) \in Edits(n)
NotCountedIn(S, n) ==
    \E l \in LocksOf(S) :
        /\ l.lock.by # n.id[1] /\ l.at \in n.past
        /\ l.lock.setting \in Writes(n)
        /\ ~LiftedIn(S, l)
ReadyOf(S, order) == {n \in S \ ToSet(order) : n.past \subseteq Ids(order)}
Least(T) == CHOOSE n \in T : \A m \in T \ {n} : Before(n.id, m.id)
OrderOf(S) ==
    LET after[k \in 0..Cardinality(S)] ==
            IF k = 0 THEN <<>>
            ELSE LET order == after[k - 1]
                 IN Append(order, Least(ReadyOf(S, order)))
    IN after[Cardinality(S)]
AlternativesOf(S) ==
    LET order == OrderOf(S)
        after[k \in 0..Len(order)] ==
            IF k = 0 THEN [s \in Slots |-> {}]
            ELSE IF NotCountedIn(S, order[k]) THEN after[k - 1] ELSE WriteVersion(after[k - 1], order[k])
    IN after[Len(order)]

LEMMA AlternativesOfSet == \A ns : Alternatives(ns) = AlternativesOf(ToSet(ns))
  <1> TAKE ns
  <1> QED
    BY DEF Alternatives, AlternativesOf, Order, OrderOf, Ready, ReadyOf, Least, NotCounted, NotCountedIn,
           Lifted, LiftedIn, Locks, LocksOf

LEMMA SameSetSameElement ==
  ASSUME NEW ns, NEW ms, ToSet(ns) = ToSet(ms)
  PROVE  Merged(ns) = Merged(ms)
  <1>1. Alternatives(ns) = Alternatives(ms)
    BY AlternativesOfSet
  <1>2. Locks(ns) = Locks(ms) /\ \A l : Lifted(ns, l) <=> Lifted(ms, l)
    BY DEF Locks, Lifted
  <1>3. LocksInForce(ns) = LocksInForce(ms)
    BY <1>2 DEF LocksInForce
  <1>4. Heads(ns) = Heads(ms)
    BY DEF Heads, Ids
  <1> QED
    BY <1>1, <1>3, <1>4 DEF Merged

\* merged: two writers that hold the same versions show the same element, whatever the
\* order they took them in.
THEOREM SameVersionsSameElement == ElementSpec => []Converged
  <1>1. RuleInv => Converged
    <2> SUFFICES ASSUME RuleInv, NEW d \in Writer, NEW e \in Writer, Ids(nodes[d]) = Ids(nodes[e])
                 PROVE  Merged(nodes[d]) = Merged(nodes[e])
      BY DEF Converged
    <2>1. ASSUME NEW f \in Writer, NEW g \in Writer, Ids(nodes[f]) = Ids(nodes[g])
          PROVE  ToSet(nodes[f]) \subseteq ToSet(nodes[g])
      <3> SUFFICES ASSUME NEW n \in ToSet(nodes[f]) PROVE n \in ToSet(nodes[g])
        OBVIOUS
      <3>1. PICK m \in ToSet(nodes[g]) : m.id = n.id
        BY <2>1 DEF Ids
      <3> QED
        BY <3>1 DEF RuleInv, AsMade
    <2> QED
      BY <2>1, SameSetSameElement
  <1> QED
    BY <1>1, RuleAlways, PTL

-----------------------------------------------------------------------------
(* Counting up.                                                            *)

\* A set of naturals has a least one.
LEMMA LeastOne ==
  ASSUME NEW T, T \subseteq Nat, T # {}
  PROVE  \E m \in T : \A k \in T : m <= k
  <1>1. PICK m \in T : \A k \in T : ~(<<k, m>> \in OpToRel(<, Nat))
    BY NatLessThanWellFounded, WFMin
  <1>2. ASSUME NEW k \in T PROVE m <= k
    <2>1. ~(k < m)
      BY <1>1, Zenon DEF OpToRel
    <2> QED BY <2>1
  <1> QED BY <1>2

\* What holds of 0 and is handed on holds of every number.
LEMMA CountUp ==
  ASSUME NEW P, 0 \in P, \A k \in Nat : k \in P => k + 1 \in P
  PROVE  \A k \in Nat : k \in P
  <1> DEFINE T == {k \in Nat : k \notin P}
  <1> SUFFICES ASSUME T # {} PROVE FALSE
    OBVIOUS
  <1>1. PICK m \in T : \A k \in T : m <= k
    <2>1. T \subseteq Nat
      OBVIOUS
    <2> HIDE DEF T
    <2> QED BY <2>1, LeastOne
  <1>2. m # 0 /\ m \in Nat /\ m \notin P
    BY <1>1
  <1>3. m - 1 \in Nat /\ m - 1 + 1 = m /\ ~(m <= m - 1)
    BY <1>2
  <1>4. m - 1 \in P
    BY <1>1, <1>3
  <1> QED BY <1>2, <1>3, <1>4

-----------------------------------------------------------------------------
(* The order of the versions.                                              *)

\* Versions that may be put in an order: numbered apart, and the past of none goes in a circle.
Orderly(S) ==
    /\ IsFiniteSet(S)
    /\ \A n \in S : n.id = <<n.id[1], n.id[2]>> /\ n.id[1] \in Nat /\ n.id[2] \in Nat
    /\ \A m, n \in S : m.id = n.id => m = n
    /\ \A D \in SUBSET S : D # S => \E n \in S \ D : n.past \subseteq {m.id : m \in D}

\* Ids are in one order: the writer first, then the number.
LEMMA BeforeIsOrder ==
  ASSUME NEW i, NEW j, i = <<i[1], i[2]>>, j = <<j[1], j[2]>>,
         i[1] \in Nat, i[2] \in Nat, j[1] \in Nat, j[2] \in Nat
  PROVE  /\ ~(Before(i, j) /\ Before(j, i))
         /\ i = j \/ Before(i, j) \/ Before(j, i)
  BY DEF Before

\* There is a least among some of them.
LEMMA LeastIs ==
  ASSUME NEW S, Orderly(S), NEW T, T \subseteq S, T # {}
  PROVE  Least(T) \in T /\ \A m \in T \ {Least(T)} : Before(Least(T).id, m.id)
  <1>1. \A n \in T : n.id = <<n.id[1], n.id[2]>> /\ n.id[1] \in Nat /\ n.id[2] \in Nat
    BY DEF Orderly
  <1>2. \A m, n \in T : m.id = n.id => m = n
    BY DEF Orderly
  <1>3. PICK w \in {n.id[1] : n \in T} : \A k \in {n.id[1] : n \in T} : w <= k
    <2>1. {n.id[1] : n \in T} \subseteq Nat /\ {n.id[1] : n \in T} # {}
      BY <1>1
    <2> QED BY <2>1, LeastOne
  <1> DEFINE Q == {n.id[2] : n \in {m \in T : m.id[1] = w}}
  <1>4. PICK q \in Q : \A k \in Q : q <= k
    <2>1. Q \subseteq Nat /\ Q # {}
      BY <1>1, <1>3
    <2> HIDE DEF Q
    <2> QED BY <2>1, LeastOne
  <1>5. PICK n \in T : n.id[1] = w /\ n.id[2] = q
    BY <1>4
  <1>6. ASSUME NEW m \in T \ {n} PROVE Before(n.id, m.id)
    <2>1. m.id # n.id
      BY <1>2, <1>6
    <2>2. w <= m.id[1]
      BY <1>3, <1>6
    <2>3. m.id[1] = w => q <= m.id[2]
      BY <1>4, <1>6
    <2>4. m.id = <<m.id[1], m.id[2]>> /\ n.id = <<w, q>> /\ m.id[1] \in Nat /\ m.id[2] \in Nat
          /\ w \in Nat /\ q \in Nat
      BY <1>1, <1>5, <1>6
    <2>5. m.id[1] # w \/ m.id[2] # q
      BY <2>1, <2>4
    <2> QED BY <1>5, <2>2, <2>3, <2>4, <2>5 DEF Before
  <1> QED BY <1>6 DEF Least

\* The versions in the first i places, and those that can be next after them.
Placed(o, i) == {o[j] : j \in 1..i}
Nexts(S, o, i) == {n \in S \ Placed(o, i) : n.past \subseteq {m.id : m \in Placed(o, i)}}

\* The first n places of the order.
IsOrder(S, n, o) ==
    /\ o \in Seq(S) /\ Len(o) = n
    /\ \A i \in 1..n : Nexts(S, o, i - 1) # {} /\ o[i] = Least(Nexts(S, o, i - 1))

\* No version is there twice, and each comes after its past.
InLine(S, n, o) ==
    /\ \A i \in 1..n : o[i] \in S /\ o[i].past \subseteq {o[j].id : j \in 1..i - 1}
    /\ \A i, j \in 1..n : i # j => o[i] # o[j] /\ o[i].id # o[j].id
    /\ DOMAIN o = 1..n /\ ToSet(o) = Placed(o, n)

\* An order puts every version after its past.
LEMMA OrderIsSound ==
  ASSUME NEW S, Orderly(S), NEW n \in Nat, NEW o, IsOrder(S, n, o)
  PROVE  InLine(S, n, o)
  <1>1. ASSUME NEW i \in 1..n PROVE o[i] \in Nexts(S, o, i - 1)
    <2>1. Nexts(S, o, i - 1) # {} /\ o[i] = Least(Nexts(S, o, i - 1)) /\ Nexts(S, o, i - 1) \subseteq S
      BY DEF IsOrder, Nexts
    <2> QED BY <2>1, LeastIs
  <1>2. ASSUME NEW i \in 1..n
        PROVE  o[i] \in S /\ o[i].past \subseteq {o[j].id : j \in 1..i - 1} /\ \A j \in 1..i - 1 : o[i] # o[j]
    BY <1>1 DEF Nexts, Placed
  <1>3. ASSUME NEW i \in 1..n, NEW j \in 1..n, i # j PROVE o[i] # o[j]
    <2>1. i \in 1..j - 1 \/ j \in 1..i - 1
      BY <1>3
    <2> QED BY <1>2, <2>1
  <1>4. \A i, j \in 1..n : o[i].id = o[j].id => o[i] = o[j]
    BY <1>2 DEF Orderly
  <1>5. DOMAIN o = 1..n
    BY LenProperties DEF IsOrder
  <1> QED BY <1>2, <1>3, <1>4, <1>5 DEF ToSet, Placed, InLine

\* The places hold as many versions as there are places.
LEMMA PlacedCard ==
  ASSUME NEW S, Orderly(S), NEW n \in Nat, NEW o, IsOrder(S, n, o), NEW k \in 0..n
  PROVE  Placed(o, k) \in SUBSET S /\ IsFiniteSet(Placed(o, k)) /\ Cardinality(Placed(o, k)) = k
  <1>1. /\ \A i \in 1..k : o[i] \in S
        /\ \A i, j \in 1..k : i # j => o[i] # o[j]
    <2>1. InLine(S, n, o)
      BY OrderIsSound
    <2> QED BY <2>1 DEF InLine
  <1> DEFINE f == [i \in 1..k |-> o[i]]
  <1>2. f \in Bijection(1..k, Placed(o, k))
    <2>1. f \in [1..k -> Placed(o, k)]
      BY DEF Placed
    <2>2. \A i, j \in 1..k : f[i] = f[j] => i = j
      BY <1>1
    <2>3. \A m \in Placed(o, k) : \E i \in 1..k : f[i] = m
      BY DEF Placed
    <2> HIDE DEF f
    <2> QED BY <2>1, <2>2, <2>3 DEF Bijection, Injection, Surjection, IsInjective
  <1>3. IsFiniteSet(1..k) /\ Cardinality(1..k) = k
    <2>1. 1 \in Int /\ k \in Int /\ (IF 1 > k THEN 0 ELSE k - 1 + 1) = k
      OBVIOUS
    <2> QED BY <2>1, FS_Interval
  <1>4. ExistsBijection(1..k, Placed(o, k))
    BY <1>2 DEF ExistsBijection
  <1>5. IsFiniteSet(Placed(o, k)) /\ Cardinality(Placed(o, k)) = k
    BY <1>3, <1>4, FS_Bijection
  <1>6. Placed(o, k) \subseteq S
    BY <1>1 DEF Placed
  <1> QED BY <1>5, <1>6

\* As long as a version is left there is a next one.
LEMMA OrderGoesOn ==
  ASSUME NEW S, Orderly(S), NEW n \in Nat, n < Cardinality(S), NEW o, IsOrder(S, n, o)
  PROVE  IsOrder(S, n + 1, Append(o, Least(ReadyOf(S, o))))
  <1>1. Placed(o, n) \in SUBSET S /\ Placed(o, n) # S
    <2>1. n \in 0..n
      OBVIOUS
    <2> QED BY <2>1, PlacedCard
  <1>2. Nexts(S, o, n) # {}
    BY <1>1 DEF Orderly, Nexts
  <1>3. ReadyOf(S, o) = Nexts(S, o, n)
    BY OrderIsSound DEF ReadyOf, Nexts, Ids, InLine
  <1>4. Least(Nexts(S, o, n)) \in S
    <2>1. Nexts(S, o, n) \subseteq S
      BY DEF Nexts
    <2> QED BY <1>2, <2>1, LeastIs
  <1>5. PICK m \in S : m = Least(Nexts(S, o, n))
    BY <1>4
  <1>6. PICK p : p = Append(o, m)
    OBVIOUS
  <1>7. p \in Seq(S) /\ Len(p) = n + 1 /\ p[n + 1] = m /\ \A i \in 1..n : p[i] = o[i]
    BY <1>6, AppendProperties DEF IsOrder
  <1>8. \A i \in 0..n : Placed(p, i) = Placed(o, i)
    BY <1>7 DEF Placed
  <1>9. ASSUME NEW i \in 1..n + 1 PROVE Nexts(S, p, i - 1) # {} /\ p[i] = Least(Nexts(S, p, i - 1))
    <2>1. Nexts(S, p, i - 1) = Nexts(S, o, i - 1)
      BY <1>8 DEF Nexts
    <2>2. CASE i = n + 1
      <3>1. i - 1 = n
        BY <2>2
      <3> QED BY <1>2, <1>5, <1>7, <2>1, <2>2, <3>1
    <2>3. CASE i \in 1..n
      BY <1>7, <2>1, <2>3 DEF IsOrder
    <2> QED BY <2>2, <2>3
  <1> QED BY <1>3, <1>5, <1>6, <1>7, <1>9 DEF IsOrder

\* The order as it grows, version by version.
LEMMA OrderGrows ==
  ASSUME NEW S, Orderly(S), NEW n \in Nat
  PROVE  \E f : f = [k \in 0..n |-> IF k = 0 THEN <<>> ELSE Append(f[k - 1], Least(ReadyOf(S, f[k - 1])))]
  <1> DEFINE Grown(m, f) ==
        f = [k \in 0..m |-> IF k = 0 THEN <<>> ELSE Append(f[k - 1], Least(ReadyOf(S, f[k - 1])))]
      P == {m \in Nat : \E f : Grown(m, f)}
  <1>1. 0 \in P
    <2> DEFINE f == [k \in 0..0 |-> <<>>]
    <2>1. Grown(0, f)
      OBVIOUS
    <2> QED BY <2>1
  <1>2. ASSUME NEW m \in Nat, m \in P PROVE m + 1 \in P
    <2>1. PICK f : Grown(m, f)
      BY <1>2
    <2> DEFINE g == [k \in 0..m + 1 |-> IF k = m + 1 THEN Append(f[m], Least(ReadyOf(S, f[m]))) ELSE f[k]]
    <2>2. ASSUME NEW k \in 0..m + 1
          PROVE  g[k] = IF k = 0 THEN <<>> ELSE Append(g[k - 1], Least(ReadyOf(S, g[k - 1])))
      <3>1. CASE k = m + 1
        <4>1. k # 0 /\ k - 1 = m /\ m \in 0..m + 1 /\ m # m + 1
          BY <3>1
        <4> QED BY <3>1, <4>1
      <3>2. CASE k \in 0..m /\ k = 0
        <4>1. k # m + 1
          BY <3>2
        <4> QED BY <2>1, <3>2, <4>1
      <3>3. CASE k \in 0..m /\ k # 0
        <4>1. k # m + 1 /\ k - 1 \in 0..m /\ k - 1 # m + 1 /\ k - 1 \in 0..m + 1
          BY <3>3
        <4>2. f[k] = Append(f[k - 1], Least(ReadyOf(S, f[k - 1])))
          BY <2>1, <3>3
        <4> QED BY <3>3, <4>1, <4>2
      <3> QED BY <3>1, <3>2, <3>3
    <2>3. DOMAIN g = 0..m + 1
      OBVIOUS
    <2>4. Grown(m + 1, g)
      <3>1. g = [k \in 0..m + 1 |-> g[k]]
        OBVIOUS
      <3> HIDE DEF g
      <3> QED BY <2>2, <3>1
    <2> HIDE DEF g, Grown
    <2>5. \E h : Grown(m + 1, h)
      BY <2>4
    <2> QED BY <2>5
  <1> HIDE DEF P
  <1>3. n \in P
    BY <1>1, <1>2, CountUp
  <1> QED BY <1>3 DEF P

\* The order is an order of all the versions.
LEMMA OrderOfAll ==
  ASSUME NEW S, Orderly(S)
  PROVE  /\ IsOrder(S, Cardinality(S), OrderOf(S)) /\ Cardinality(S) \in Nat
         /\ Placed(OrderOf(S), Cardinality(S)) = S
  <1> DEFINE N == Cardinality(S)
  <1>1. N \in Nat
    BY FS_CardinalityType DEF Orderly
  <1>2. PICK f : /\ f = [k \in 0..N |-> IF k = 0 THEN <<>> ELSE Append(f[k - 1], Least(ReadyOf(S, f[k - 1])))]
                 /\ OrderOf(S) = f[N]
    <2> DEFINE f == CHOOSE f : f = [k \in 0..N |-> IF k = 0 THEN <<>>
                                      ELSE Append(f[k - 1], Least(ReadyOf(S, f[k - 1])))]
    <2>1. f = [k \in 0..N |-> IF k = 0 THEN <<>> ELSE Append(f[k - 1], Least(ReadyOf(S, f[k - 1])))]
      <3> HIDE DEF N
      <3> QED BY <1>1, OrderGrows
    <2>2. OrderOf(S) = f[N]
      BY DEF OrderOf
    <2> HIDE DEF f
    <2> QED BY <2>1, <2>2
  <1> DEFINE P == {k \in Nat : k <= N => IsOrder(S, k, f[k])}
  <1> HIDE DEF N
  <1>3. 0 \in P
    <2>1. f[0] = <<>>
      BY <1>1, <1>2
    <2>2. IsOrder(S, 0, <<>>)
      BY DEF IsOrder
    <2> QED BY <2>1, <2>2
  <1>4. ASSUME NEW k \in Nat, k \in P PROVE k + 1 \in P
    <2> SUFFICES ASSUME k + 1 <= N PROVE IsOrder(S, k + 1, f[k + 1])
      OBVIOUS
    <2>1. IsOrder(S, k, f[k]) /\ k < N
      BY <1>1, <1>4
    <2>2. k + 1 \in 0..N /\ k + 1 # 0 /\ k + 1 - 1 = k
      BY <1>1
    <2>3. f[k + 1] = Append(f[k], Least(ReadyOf(S, f[k])))
      <3>1. ASSUME NEW j \in 0..N, j # 0 PROVE f[j] = Append(f[j - 1], Least(ReadyOf(S, f[j - 1])))
        BY <1>2, <3>1
      <3> QED BY <2>2, <3>1
    <2> QED BY <2>1, <2>3, OrderGoesOn DEF N
  <1> HIDE DEF P
  <1>5. N \in P
    BY <1>1, <1>3, <1>4, CountUp
  <1>6. IsOrder(S, N, OrderOf(S))
    BY <1>1, <1>2, <1>5 DEF P
  <1>7. /\ Placed(OrderOf(S), N) \in SUBSET S /\ Cardinality(Placed(OrderOf(S), N)) = N
    <2>1. N \in 0..N
      BY <1>1
    <2> QED BY <1>1, <1>6, <2>1, PlacedCard
  <1>8. Placed(OrderOf(S), N) = S
    BY <1>7, FS_Subset DEF N, Orderly
  <1> QED BY <1>1, <1>6, <1>8 DEF N

-----------------------------------------------------------------------------
(* The slots as they are written.                                          *)

\* The slots after the first k versions of an order, and after the first k edits of one.
VersionsWritten(S, o, h) ==
    /\ h[0] = [s \in Slots |-> {}]
    /\ \A k \in 1..Len(o) : h[k] = IF NotCountedIn(S, o[k]) THEN h[k - 1] ELSE WriteVersion(h[k - 1], o[k])
EditsWritten(slots, n, h) ==
    /\ h[0] = slots
    /\ \A k \in 1..Len(n.op.edits) : h[k] = WriteEdit(h[k - 1], n, n.op.edits[k])

VersionsUpTo(S, o, N, h) ==
    h = [k \in 0..N |->
            IF k = 0 THEN [s \in Slots |-> {}]
            ELSE IF NotCountedIn(S, o[k]) THEN h[k - 1] ELSE WriteVersion(h[k - 1], o[k])]
EditsUpTo(slots, n, N, h) ==
    h = [k \in 0..N |-> IF k = 0 THEN slots ELSE WriteEdit(h[k - 1], n, n.op.edits[k])]

\* There are such slots, step by step.
LEMMA VersionsAreWritten ==
  ASSUME NEW S, NEW o, NEW N \in Nat
  PROVE  \E h : VersionsUpTo(S, o, N, h)
  <1> DEFINE Then(x, k) == IF NotCountedIn(S, o[k]) THEN x ELSE WriteVersion(x, o[k])
      Grown(m, f) == f = [k \in 0..m |-> IF k = 0 THEN [s \in Slots |-> {}] ELSE Then(f[k - 1], k)]
      P == {m \in Nat : \E f : Grown(m, f)}
  <1> HIDE DEF Then
  <1>1. 0 \in P
    <2> DEFINE f == [k \in 0..0 |-> [s \in Slots |-> {}]]
    <2>1. Grown(0, f)
      OBVIOUS
    <2> QED BY <2>1
  <1>2. ASSUME NEW m \in Nat, m \in P PROVE m + 1 \in P
    <2>1. PICK f : Grown(m, f)
      BY <1>2
    <2> DEFINE g == [k \in 0..m + 1 |-> IF k = m + 1 THEN Then(f[m], k) ELSE f[k]]
    <2>2. ASSUME NEW k \in 0..m + 1
          PROVE  g[k] = IF k = 0 THEN [s \in Slots |-> {}] ELSE Then(g[k - 1], k)
      <3>1. CASE k = m + 1
        <4>1. k # 0 /\ k - 1 = m /\ m \in 0..m + 1 /\ m # m + 1
          BY <3>1
        <4> QED BY <3>1, <4>1
      <3>2. CASE k \in 0..m /\ k = 0
        <4>1. k # m + 1
          BY <3>2
        <4> QED BY <2>1, <3>2, <4>1
      <3>3. CASE k \in 0..m /\ k # 0
        <4>1. k # m + 1 /\ k - 1 \in 0..m /\ k - 1 # m + 1 /\ k - 1 \in 0..m + 1
          BY <3>3
        <4>2. f[k] = Then(f[k - 1], k)
          BY <2>1, <3>3
        <4> QED BY <3>3, <4>1, <4>2
      <3> QED BY <3>1, <3>2, <3>3
    <2>3. Grown(m + 1, g)
      <3>1. g = [k \in 0..m + 1 |-> g[k]]
        OBVIOUS
      <3> HIDE DEF g
      <3> QED BY <2>2, <3>1
    <2> HIDE DEF g, Grown
    <2>4. \E h : Grown(m + 1, h)
      BY <2>3
    <2> QED BY <2>4
  <1> HIDE DEF P
  <1>3. N \in P
    BY <1>1, <1>2, CountUp
  <1> QED BY <1>3 DEF P, Then, VersionsUpTo

LEMMA EditsAreWritten ==
  ASSUME NEW slots, NEW n, NEW N \in Nat
  PROVE  \E h : EditsUpTo(slots, n, N, h)
  <1> DEFINE Then(x, k) == WriteEdit(x, n, n.op.edits[k])
      Grown(m, f) == f = [k \in 0..m |-> IF k = 0 THEN slots ELSE Then(f[k - 1], k)]
      P == {m \in Nat : \E f : Grown(m, f)}
  <1> HIDE DEF Then
  <1>1. 0 \in P
    <2> DEFINE f == [k \in 0..0 |-> slots]
    <2>1. Grown(0, f)
      OBVIOUS
    <2> QED BY <2>1
  <1>2. ASSUME NEW m \in Nat, m \in P PROVE m + 1 \in P
    <2>1. PICK f : Grown(m, f)
      BY <1>2
    <2> DEFINE g == [k \in 0..m + 1 |-> IF k = m + 1 THEN Then(f[m], k) ELSE f[k]]
    <2>2. ASSUME NEW k \in 0..m + 1
          PROVE  g[k] = IF k = 0 THEN slots ELSE Then(g[k - 1], k)
      <3>1. CASE k = m + 1
        <4>1. k # 0 /\ k - 1 = m /\ m \in 0..m + 1 /\ m # m + 1
          BY <3>1
        <4> QED BY <3>1, <4>1
      <3>2. CASE k \in 0..m /\ k = 0
        <4>1. k # m + 1
          BY <3>2
        <4> QED BY <2>1, <3>2, <4>1
      <3>3. CASE k \in 0..m /\ k # 0
        <4>1. k # m + 1 /\ k - 1 \in 0..m /\ k - 1 # m + 1 /\ k - 1 \in 0..m + 1
          BY <3>3
        <4>2. f[k] = Then(f[k - 1], k)
          BY <2>1, <3>3
        <4> QED BY <3>3, <4>1, <4>2
      <3> QED BY <3>1, <3>2, <3>3
    <2>3. Grown(m + 1, g)
      <3>1. g = [k \in 0..m + 1 |-> g[k]]
        OBVIOUS
      <3> HIDE DEF g
      <3> QED BY <2>2, <3>1
    <2> HIDE DEF g, Grown
    <2>4. \E h : Grown(m + 1, h)
      BY <2>3
    <2> QED BY <2>4
  <1> HIDE DEF P
  <1>3. N \in P
    BY <1>1, <1>2, CountUp
  <1> QED BY <1>3 DEF P, Then, EditsUpTo

\* Alternatives and WriteEdits are the last of theirs.
LEMMA AlternativesAre ==
  ASSUME NEW S, Len(OrderOf(S)) \in Nat
  PROVE  \E h : VersionsWritten(S, OrderOf(S), h) /\ AlternativesOf(S) = h[Len(OrderOf(S))]
  <1> DEFINE o == OrderOf(S)
             N == Len(o)
      f == CHOOSE h : h = [k \in 0..N |->
            IF k = 0 THEN [s \in Slots |-> {}]
            ELSE IF NotCountedIn(S, o[k]) THEN h[k - 1] ELSE WriteVersion(h[k - 1], o[k])]
  <1>1. AlternativesOf(S) = f[N]
    BY DEF AlternativesOf
  <1>2. N \in Nat
    OBVIOUS
  <1>3. f = [k \in 0..N |-> IF k = 0 THEN [s \in Slots |-> {}]
                            ELSE IF NotCountedIn(S, o[k]) THEN f[k - 1] ELSE WriteVersion(f[k - 1], o[k])]
    <2> HIDE DEF N, o
    <2>1. \E h : VersionsUpTo(S, o, N, h)
      BY <1>2, VersionsAreWritten
    <2>2. VersionsUpTo(S, o, N, f)
      BY <2>1, Zenon DEF VersionsUpTo
    <2> QED BY <2>2 DEF VersionsUpTo
  <1> HIDE DEF f
  <1>4. VersionsWritten(S, o, f)
    <2> HIDE DEF o
    <2>1. f[0] = [s \in Slots |-> {}]
      BY <1>2, <1>3
    <2>2. ASSUME NEW k \in 1..N
          PROVE  f[k] = IF NotCountedIn(S, o[k]) THEN f[k - 1] ELSE WriteVersion(f[k - 1], o[k])
      <3>1. k \in 0..N /\ k # 0
        BY <1>2
      <3> HIDE DEF N
      <3> QED BY <1>3, <3>1
    <2> QED BY <2>1, <2>2 DEF VersionsWritten
  <1> QED BY <1>1, <1>4

LEMMA EditsAre ==
  ASSUME NEW slots, NEW n, Len(n.op.edits) \in Nat
  PROVE  \E h : EditsWritten(slots, n, h) /\ WriteEdits(slots, n) = h[Len(n.op.edits)]
  <1> DEFINE N == Len(n.op.edits)
      f == CHOOSE h : h = [k \in 0..N |-> IF k = 0 THEN slots ELSE WriteEdit(h[k - 1], n, n.op.edits[k])]
  <1>1. WriteEdits(slots, n) = f[N]
    BY DEF WriteEdits
  <1>2. N \in Nat
    OBVIOUS
  <1>3. f = [k \in 0..N |-> IF k = 0 THEN slots ELSE WriteEdit(f[k - 1], n, n.op.edits[k])]
    <2> HIDE DEF N
    <2>1. \E h : EditsUpTo(slots, n, N, h)
      BY <1>2, EditsAreWritten
    <2>2. EditsUpTo(slots, n, N, f)
      BY <2>1, Zenon DEF EditsUpTo
    <2> QED BY <2>2 DEF EditsUpTo
  <1> HIDE DEF f
  <1>4. EditsWritten(slots, n, f)
    <2>1. f[0] = slots
      BY <1>2, <1>3
    <2>2. ASSUME NEW k \in 1..N PROVE f[k] = WriteEdit(f[k - 1], n, n.op.edits[k])
      <3>1. k \in 0..N /\ k # 0
        BY <1>2
      <3> HIDE DEF N
      <3> QED BY <1>3, <3>1
    <2> QED BY <2>1, <2>2 DEF EditsWritten
  <1> QED BY <1>1, <1>4

\* Which versions wrote what a slot holds.
IsSlots(slots) == slots = [s \in Slots |-> slots[s]]
At(slots, s) == {a.at : a \in slots[s]}
Writing(e, s) == e.do \in {"create", "set", "change", "place", "remove"} /\ e.slot = s
HasEdits(n) == n.op.edits \in Seq(Edits(n))

\* What one write, one edit and the edits of a version leave in a slot.
LEMMA OverwriteAt ==
  ASSUME NEW slots, IsSlots(slots), NEW n, NEW t, NEW v
  PROVE  /\ IsSlots(Overwrite(slots, n, t, v))
         /\ \A s \in Slots : s # t => Overwrite(slots, n, t, v)[s] = slots[s]
         /\ t \in Slots => At(Overwrite(slots, n, t, v), t) = (At(slots, t) \ (n.past \cup {n.id})) \cup {n.id}
  <1> DEFINE left == {a \in slots[t] : a.at # n.id /\ a.at \notin n.past}
             new == [at |-> n.id, value |-> v]
             o == Overwrite(slots, n, t, v)
  <1>1. o = [slots EXCEPT ![t] = left \cup {new}]
    BY DEF Overwrite
  <1>2. new.at = n.id
    OBVIOUS
  <1> HIDE DEF new, o
  <1>3. IsSlots(o) /\ (\A s \in Slots : s # t => o[s] = slots[s]) /\ (t \in Slots => o[t] = left \cup {new})
    BY <1>1 DEF IsSlots
  <1>4. t \in Slots => At(o, t) = (At(slots, t) \ (n.past \cup {n.id})) \cup {n.id}
    BY <1>2, <1>3 DEF At
  <1> QED BY <1>3, <1>4 DEF o

LEMMA EditAt ==
  ASSUME NEW slots, IsSlots(slots), NEW n, NEW e
  PROVE  /\ IsSlots(WriteEdit(slots, n, e))
         /\ \A s \in Slots : At(WriteEdit(slots, n, e), s) =
               IF Writing(e, s) THEN (At(slots, s) \ (n.past \cup {n.id})) \cup {n.id} ELSE At(slots, s)
  <1>1. CASE e.do \in {"create", "set", "place", "remove"}
    <2>1. WriteEdit(slots, n, e) = Overwrite(slots, n, e.slot, e.value)
      BY <1>1 DEF WriteEdit
    <2> QED BY <1>1, <2>1, OverwriteAt DEF Writing, At
  <1>2. CASE e.do = "change"
    <2>1. \E v : WriteEdit(slots, n, e) = Overwrite(slots, n, e.slot, v)
      BY <1>2 DEF WriteEdit
    <2> QED BY <1>2, <2>1, OverwriteAt DEF Writing, At
  <1>3. CASE e.do \notin {"create", "set", "place", "remove", "change"}
    <2>1. WriteEdit(slots, n, e) = slots
      BY <1>3 DEF WriteEdit
    <2> QED BY <1>3, <2>1 DEF Writing
  <1> QED BY <1>1, <1>2, <1>3

LEMMA EditsAt ==
  ASSUME NEW slots, IsSlots(slots), NEW n, HasEdits(n)
  PROVE  /\ IsSlots(WriteEdits(slots, n))
         /\ \A s \in Slots : At(WriteEdits(slots, n), s) =
               IF \E e \in Edits(n) : Writing(e, s)
               THEN (At(slots, s) \ (n.past \cup {n.id})) \cup {n.id} ELSE At(slots, s)
  <1> DEFINE edits == n.op.edits
             N == Len(edits)
  <1>1. N \in Nat /\ Edits(n) = {edits[k] : k \in 1..N}
    BY LenProperties DEF HasEdits, Edits, ToSet
  <1>2. PICK h : EditsWritten(slots, n, h) /\ WriteEdits(slots, n) = h[N]
    BY <1>1, EditsAre
  <1> DEFINE Alike(k) ==
        /\ IsSlots(h[k])
        /\ \A s \in Slots : At(h[k], s) =
              IF \E j \in 1..k : Writing(edits[j], s)
              THEN (At(slots, s) \ (n.past \cup {n.id})) \cup {n.id} ELSE At(slots, s)
      P == {k \in Nat : k <= N => Alike(k)}
  <1> HIDE DEF N, edits
  <1>3. 0 \in P
    BY <1>1, <1>2 DEF EditsWritten
  <1>4. ASSUME NEW k \in Nat, k \in P PROVE k + 1 \in P
    <2> SUFFICES ASSUME k + 1 <= N PROVE Alike(k + 1)
      <3> HIDE DEF Alike
      <3> QED OBVIOUS
    <2>1. Alike(k)
      BY <1>1, <1>4
    <2>2. k + 1 \in 1..N /\ k + 1 - 1 = k
      BY <1>1
    <2>3. h[k + 1] = WriteEdit(h[k], n, edits[k + 1])
      BY <1>2, <2>2 DEF EditsWritten, N, edits
    <2>4. IsSlots(h[k + 1])
      BY <2>1, <2>3, EditAt
    <2>5. ASSUME NEW s \in Slots
          PROVE  At(h[k + 1], s) = IF \E j \in 1..k + 1 : Writing(edits[j], s)
                                   THEN (At(slots, s) \ (n.past \cup {n.id})) \cup {n.id} ELSE At(slots, s)
      <3>1. At(h[k + 1], s) = IF Writing(edits[k + 1], s)
                              THEN (At(h[k], s) \ (n.past \cup {n.id})) \cup {n.id} ELSE At(h[k], s)
        <4>1. PICK x, e : x = h[k] /\ e = edits[k + 1]
          OBVIOUS
        <4>2. IsSlots(x) /\ h[k + 1] = WriteEdit(x, n, e)
          BY <2>1, <2>3, <4>1
        <4>3. At(WriteEdit(x, n, e), s) = IF Writing(e, s)
                                          THEN (At(x, s) \ (n.past \cup {n.id})) \cup {n.id} ELSE At(x, s)
          BY <4>2, EditAt
        <4> QED BY <4>1, <4>2, <4>3
      <3>2. At(h[k], s) = IF \E j \in 1..k : Writing(edits[j], s)
                          THEN (At(slots, s) \ (n.past \cup {n.id})) \cup {n.id} ELSE At(slots, s)
        BY <2>1
      <3>3. (\E j \in 1..k + 1 : Writing(edits[j], s)) <=>
            (Writing(edits[k + 1], s) \/ \E j \in 1..k : Writing(edits[j], s))
        <4>1. \A j : j \in 1..k + 1 <=> j = k + 1 \/ j \in 1..k
          OBVIOUS
        <4> QED BY <4>1, Zenon
      <3> QED BY <3>1, <3>2, <3>3
    <2> QED BY <2>4, <2>5
  <1> HIDE DEF P
  <1>5. N \in P
    BY <1>1, <1>3, <1>4, CountUp
  <1>6. Alike(N)
    BY <1>1, <1>5 DEF P
  <1>7. \A s : (\E e \in Edits(n) : Writing(e, s)) <=> (\E j \in 1..N : Writing(edits[j], s))
    BY <1>1, Zenon
  <1> QED BY <1>2, <1>6, <1>7

\* What a version leaves in a slot.
LEMMA VersionAt ==
  ASSUME NEW slots, IsSlots(slots), NEW n, HasEdits(n), \A s \in Slots : n.id \notin At(slots, s)
  PROVE  /\ IsSlots(WriteVersion(slots, n))
         /\ \A s \in Slots : At(WriteVersion(slots, n), s) =
               IF IsCheckpoint(n) \/ WritesSlot(n, s)
               THEN (At(slots, s) \ n.past) \cup (IF WritesSlot(n, s) THEN {n.id} ELSE {})
               ELSE At(slots, s)
  <1>1. CASE IsCheckpoint(n)
    <2> DEFINE whole == State(n).slots
               w == WriteState(slots, n)
               new(s) == [at |-> n.id, value |-> whole[s]]
    <2>1. WriteVersion(slots, n) = w
      BY <1>1 DEF WriteVersion
    <2>2. w = [s \in Slots |-> {a \in slots[s] : a.at \notin n.past} \cup
                                  (IF s \in DOMAIN whole THEN {new(s)} ELSE {})]
      BY DEF WriteState
    <2>3. \A s : new(s).at = n.id
      OBVIOUS
    <2>4. \A s : WritesSlot(n, s) <=> s \in DOMAIN whole
      BY <1>1 DEF WritesSlot
    <2> HIDE DEF w, new, whole
    <2>5. IsSlots(w)
      BY <2>2 DEF IsSlots
    <2>6. ASSUME NEW s \in Slots
          PROVE  At(w, s) = (At(slots, s) \ n.past) \cup (IF WritesSlot(n, s) THEN {n.id} ELSE {})
      <3>1. w[s] = {a \in slots[s] : a.at \notin n.past} \cup (IF s \in DOMAIN whole THEN {new(s)} ELSE {})
        BY <2>2
      <3> QED BY <2>3, <2>4, <3>1 DEF At
    <2> QED BY <1>1, <2>1, <2>5, <2>6
  <1>2. CASE ~IsCheckpoint(n)
    <2>1. WriteVersion(slots, n) = WriteEdits(slots, n)
      BY <1>2 DEF WriteVersion
    <2>2. \A s : WritesSlot(n, s) <=> \E e \in Edits(n) : Writing(e, s)
      BY <1>2 DEF WritesSlot, Writing
    <2>3. IsSlots(WriteEdits(slots, n))
      BY EditsAt
    <2>4. ASSUME NEW s \in Slots
          PROVE  At(WriteEdits(slots, n), s) = IF WritesSlot(n, s)
                                               THEN (At(slots, s) \ (n.past \cup {n.id})) \cup {n.id}
                                               ELSE At(slots, s)
      BY <2>2, EditsAt
    <2> QED BY <1>2, <2>1, <2>3, <2>4
  <1> QED BY <1>1, <1>2

\* The versions among T that wrote what slot s shows after them.
Replaces(S, m, n, s) ==
    ~NotCountedIn(S, m) /\ n.id \in m.past /\ (IsCheckpoint(m) \/ WritesSlot(m, s))
LatestIn(S, T, s) ==
    {n.id : n \in {m \in T : /\ ~NotCountedIn(S, m) /\ WritesSlot(m, s)
                             /\ \A l \in T : ~Replaces(S, l, m, s)}}

\* A version after all the others replaces what its past wrote.
LEMMA LatestGrows ==
  ASSUME NEW S, NEW T, NEW n, NEW s,
         n.id \notin n.past, \A m \in T : m.id # n.id /\ n.id \notin m.past
  PROVE  LatestIn(S, T \cup {n}, s) =
            IF NotCountedIn(S, n) THEN LatestIn(S, T, s)
            ELSE IF IsCheckpoint(n) \/ WritesSlot(n, s)
            THEN (LatestIn(S, T, s) \ n.past) \cup (IF WritesSlot(n, s) THEN {n.id} ELSE {})
            ELSE LatestIn(S, T, s)
  <1> DEFINE IsLatest(U, m) == /\ ~NotCountedIn(S, m) /\ WritesSlot(m, s)
                             /\ \A l \in U : ~Replaces(S, l, m, s)
             U == T \cup {n}
  <1>1. LatestIn(S, T, s) = {m.id : m \in {l \in T : IsLatest(T, l)}}
        /\ LatestIn(S, U, s) = {m.id : m \in {l \in U : IsLatest(U, l)}}
    BY DEF LatestIn
  <1>2. IsLatest(U, n) <=> ~NotCountedIn(S, n) /\ WritesSlot(n, s)
    BY DEF Replaces
  <1>3. ASSUME NEW m \in T PROVE IsLatest(U, m) <=> IsLatest(T, m) /\ ~Replaces(S, n, m, s)
    OBVIOUS
  <1> HIDE DEF IsLatest
  <1>4. LatestIn(S, U, s) = {m.id : m \in {l \in T : IsLatest(T, l) /\ ~Replaces(S, n, l, s)}}
                            \cup (IF ~NotCountedIn(S, n) /\ WritesSlot(n, s) THEN {n.id} ELSE {})
    BY <1>1, <1>2, <1>3
  <1> HIDE DEF U
  <1>5. CASE NotCountedIn(S, n) \/ ~(IsCheckpoint(n) \/ WritesSlot(n, s))
    <2>1. \A l : ~Replaces(S, n, l, s)
      BY <1>5 DEF Replaces
    <2> QED BY <1>1, <1>4, <1>5, <2>1 DEF U
  <1>6. CASE ~NotCountedIn(S, n) /\ (IsCheckpoint(n) \/ WritesSlot(n, s))
    <2>1. \A l : Replaces(S, n, l, s) <=> l.id \in n.past
      BY <1>6 DEF Replaces
    <2>2. {m.id : m \in {l \in T : IsLatest(T, l) /\ ~Replaces(S, n, l, s)}} = LatestIn(S, T, s) \ n.past
      BY <1>1, <2>1
    <2> QED BY <1>4, <1>6, <2>2 DEF U
  <1> QED BY <1>5, <1>6

\* What the slots hold, place by place in the order.
LEMMA SlotsAreLatest ==
  ASSUME NEW S, Orderly(S), \A n \in S : HasEdits(n),
         NEW N \in Nat, NEW o, IsOrder(S, N, o), NEW h, VersionsWritten(S, o, h)
  PROVE  \A k \in 0..N : /\ IsSlots(h[k])
                         /\ \A s \in Slots : At(h[k], s) = LatestIn(S, Placed(o, k), s)
  <1>1. InLine(S, N, o) /\ Len(o) = N
    BY OrderIsSound DEF IsOrder
  <1> DEFINE Alike(k) == /\ IsSlots(h[k])
                         /\ \A s \in Slots : At(h[k], s) = LatestIn(S, Placed(o, k), s)
             P == {k \in Nat : k <= N => Alike(k)}
  <1>2. 0 \in P
    <2>1. h[0] = [s \in Slots |-> {}]
      BY DEF VersionsWritten
    <2>2. Placed(o, 0) = {}
      BY DEF Placed
    <2>3. IsSlots(h[0]) /\ \A s \in Slots : At(h[0], s) = {}
      BY <2>1 DEF IsSlots, At
    <2>4. \A s : LatestIn(S, {}, s) = {}
      BY DEF LatestIn
    <2> QED BY <2>2, <2>3, <2>4
  <1>3. ASSUME NEW k \in Nat, k \in P PROVE k + 1 \in P
    <2> SUFFICES ASSUME k + 1 <= N PROVE Alike(k + 1)
      <3> HIDE DEF Alike
      <3> QED OBVIOUS
    <2>1. Alike(k)
      BY <1>3
    <2>2. k + 1 \in 1..N /\ k + 1 - 1 = k
      OBVIOUS
    <2> DEFINE T == Placed(o, k)
    <2>3. PICK n \in S : n = o[k + 1] /\ HasEdits(n)
      BY <1>1, <2>2 DEF InLine
    <2>4. Placed(o, k + 1) = T \cup {n}
      <3>1. \A j : j \in 1..k + 1 <=> j = k + 1 \/ j \in 1..k
        OBVIOUS
      <3> QED BY <2>3, <3>1 DEF Placed
    <2>5. \A j \in 1..k : o[j].id # n.id /\ n.id \notin o[j].past
      <3> SUFFICES ASSUME NEW j \in 1..k PROVE o[j].id # n.id /\ n.id \notin o[j].past
        OBVIOUS
      <3>1. j \in 1..N /\ j # k + 1
        OBVIOUS
      <3>2. o[j].id # n.id
        BY <1>1, <2>2, <2>3, <3>1 DEF InLine
      <3>3. o[j].past \subseteq {o[i].id : i \in 1..j - 1}
        BY <1>1, <3>1 DEF InLine
      <3>4. \A i \in 1..j - 1 : o[i].id # n.id
        <4> TAKE i \in 1..j - 1
        <4>1. i \in 1..N /\ i # k + 1
          OBVIOUS
        <4> QED BY <1>1, <2>2, <2>3, <4>1 DEF InLine
      <3> QED BY <3>2, <3>3, <3>4
    <2>6. n.id \notin n.past
      <3>1. n.past \subseteq {o[i].id : i \in 1..k}
        BY <1>1, <2>2, <2>3 DEF InLine
      <3> QED BY <2>5, <3>1
    <2>7. \A m \in T : m.id # n.id /\ n.id \notin m.past
      BY <2>5 DEF Placed
    <2>8. h[k + 1] = IF NotCountedIn(S, n) THEN h[k] ELSE WriteVersion(h[k], n)
      BY <1>1, <2>2, <2>3 DEF VersionsWritten
    <2>9. \A s \in Slots : n.id \notin At(h[k], s)
      <3>1. \A s \in Slots : At(h[k], s) = LatestIn(S, T, s)
        BY <2>1
      <3>2. \A s : LatestIn(S, T, s) \subseteq {m.id : m \in T}
        BY DEF LatestIn
      <3> QED BY <2>7, <3>1, <3>2
    <2> HIDE DEF T
    <2>10. CASE NotCountedIn(S, n)
      <3>1. \A s : LatestIn(S, T \cup {n}, s) = LatestIn(S, T, s)
        BY <2>6, <2>7, <2>10, LatestGrows
      <3> QED BY <2>1, <2>4, <2>8, <2>10, <3>1 DEF T
    <2>11. CASE ~NotCountedIn(S, n)
      <3>1. PICK x : x = h[k]
        OBVIOUS
      <3>2. IsSlots(x) /\ \A s \in Slots : n.id \notin At(x, s)
        BY <2>1, <2>9, <3>1
      <3>3. IsSlots(h[k + 1])
        BY <2>3, <2>8, <2>11, <3>1, <3>2, VersionAt
      <3>4. ASSUME NEW s \in Slots PROVE At(h[k + 1], s) = LatestIn(S, T \cup {n}, s)
        <4>1. At(WriteVersion(x, n), s) =
                 IF IsCheckpoint(n) \/ WritesSlot(n, s)
                 THEN (At(x, s) \ n.past) \cup (IF WritesSlot(n, s) THEN {n.id} ELSE {})
                 ELSE At(x, s)
          BY <2>3, <3>2, VersionAt
        <4>2. LatestIn(S, T \cup {n}, s) =
                 IF IsCheckpoint(n) \/ WritesSlot(n, s)
                 THEN (LatestIn(S, T, s) \ n.past) \cup (IF WritesSlot(n, s) THEN {n.id} ELSE {})
                 ELSE LatestIn(S, T, s)
          BY <2>6, <2>7, <2>11, LatestGrows
        <4>3. At(x, s) = LatestIn(S, T, s)
          BY <2>1, <3>1 DEF T
        <4> QED BY <2>8, <2>11, <3>1, <4>1, <4>2, <4>3
      <3> QED BY <2>4, <3>3, <3>4
    <2> QED BY <2>10, <2>11
  <1> HIDE DEF P
  <1>4. ASSUME NEW k \in 0..N PROVE Alike(k)
    <2>1. k \in P
      BY <1>2, <1>3, CountUp
    <2> QED BY <2>1 DEF P
  <1> QED BY <1>4

\* What the slots show in the end.
LEMMA ShownAreLatest ==
  ASSUME NEW S, Orderly(S), \A n \in S : HasEdits(n)
  PROVE  \A s \in Slots : At(AlternativesOf(S), s) = LatestIn(S, S, s)
  <1>1. /\ IsOrder(S, Cardinality(S), OrderOf(S)) /\ Cardinality(S) \in Nat
        /\ Placed(OrderOf(S), Cardinality(S)) = S
    BY OrderOfAll
  <1>2. Len(OrderOf(S)) = Cardinality(S)
    BY <1>1 DEF IsOrder
  <1>3. PICK h : VersionsWritten(S, OrderOf(S), h) /\ AlternativesOf(S) = h[Cardinality(S)]
    BY <1>1, <1>2, AlternativesAre
  <1>4. Cardinality(S) \in 0..Cardinality(S)
    BY <1>1
  <1>5. \A s \in Slots : At(h[Cardinality(S)], s) = LatestIn(S, Placed(OrderOf(S), Cardinality(S)), s)
    BY <1>1, <1>3, <1>4, SlotsAreLatest
  <1> QED BY <1>1, <1>3, <1>5

-----------------------------------------------------------------------------
(* The history every holder has a part of.                                 *)

\* A version is made over what its writer held, and over what that was made over.
MadeSound ==
    \A i \in DOMAIN made :
        /\ i[1] \in Nat
        /\ made[i].op.edits \in Seq(ToSet(made[i].op.edits))
        /\ made[i].past \subseteq DOMAIN made \ {i}
        /\ \A j \in made[i].past : made[j].past \subseteq made[i].past

\* What a late device does not have, for the checkpoint it began at covers it.
Covered(d) == IF d \in Late THEN covered[d] ELSE {}

\* A holder applied what was made, each version after its past, but for what is covered.
HasHistory(d) ==
    /\ \A k \in DOMAIN nodes[d] : nodes[d][k].past \subseteq {nodes[d][j].id : j \in 1..k - 1}
    /\ \A n \in ToSet(nodes[d]) :
          /\ n.id \in DOMAIN made \ Covered(d)
          /\ n = [id |-> n.id, past |-> made[n.id].past \ Covered(d), op |-> made[n.id].op]
\* A late device began at the version that covers what is covered.
Began(d) ==
    IF nodes[d] = <<>> THEN covered[d] = {}
    ELSE LET i == nodes[d][1].id
         IN covered[d] = made[i].past /\ (IsCheckpoint(made[i]) \/ covered[d] = {})

HistoryInv ==
    /\ MadeSound /\ covered = [d \in Late |-> covered[d]]
    /\ \A d \in Holder : HasHistory(d)
    /\ \A d \in Late : Began(d)

\* The history begins empty.
LEMMA HistoryInit == ElementInit => HistoryInv
  <1> SUFFICES ASSUME ElementInit PROVE HistoryInv
    OBVIOUS
  <1>1. DOMAIN made = {} /\ covered = [d \in Late |-> {}]
    BY DEF ElementInit, NoVersions
  <1>2. ASSUME NEW d \in Holder PROVE nodes[d] = <<>>
    BY DEF ElementInit
  <1>3. ToSet(<<>>) = {} /\ DOMAIN <<>> = {}
    BY EmptyList
  <1>4. ASSUME NEW d \in Holder PROVE HasHistory(d)
    BY <1>2, <1>3 DEF HasHistory
  <1>5. ASSUME NEW d \in Late PROVE Began(d)
    BY <1>1, <1>2 DEF Began, Holder
  <1> QED BY <1>1, <1>4, <1>5 DEF HistoryInv, MadeSound

\* A list with a version added at its end.
LEMMA PlacedAtEnd ==
  ASSUME NEW ns, ns \in Seq(ToSet(ns)), NEW n, n.past \subseteq Ids(ns),
         \A k \in DOMAIN ns : ns[k].past \subseteq {ns[j].id : j \in 1..k - 1}
  PROVE  LET ms == Append(ns, n)
         IN /\ \A k \in DOMAIN ms : ms[k].past \subseteq {ms[j].id : j \in 1..k - 1}
            /\ ToSet(ms) = ToSet(ns) \cup {n} /\ ms # <<>>
            /\ ns # <<>> => ms[1] = ns[1]
  <1> DEFINE ms == Append(ns, n)
  <1>1. ToSet(ms) = ToSet(ns) \cup {n}
    BY AppendedSet
  <1>2. Len(ns) \in Nat /\ DOMAIN ns = 1..Len(ns)
    BY LenProperties
  <1>3. /\ DOMAIN ms = 1..Len(ns) + 1 /\ ms[Len(ns) + 1] = n
        /\ \A k \in 1..Len(ns) : ms[k] = ns[k]
    <2>1. PICK T : T = ToSet(ns) \cup {n}
      OBVIOUS
    <2>2. ns \in Seq(T) /\ n \in T
      BY <2>1
    <2> QED BY <1>2, <2>2, AppendProperties
  <1> HIDE DEF ms
  <1>4. ASSUME NEW k \in DOMAIN ms PROVE ms[k].past \subseteq {ms[j].id : j \in 1..k - 1}
    <2>1. CASE k = Len(ns) + 1
      <3>1. Ids(ns) = {ns[j].id : j \in 1..Len(ns)}
        BY <1>2 DEF Ids, ToSet
      <3>2. k - 1 = Len(ns)
        BY <1>2, <2>1
      <3>3. {ms[j].id : j \in 1..Len(ns)} = {ns[j].id : j \in 1..Len(ns)}
        BY <1>3
      <3> QED BY <1>3, <2>1, <3>1, <3>2, <3>3
    <2>2. CASE k \in 1..Len(ns)
      <3>1. \A j \in 1..k - 1 : j \in 1..Len(ns)
        BY <1>2, <2>2
      <3>2. {ms[j].id : j \in 1..k - 1} = {ns[j].id : j \in 1..k - 1}
        BY <1>3, <3>1
      <3> QED BY <1>2, <1>3, <2>2, <3>2
    <2> QED BY <1>2, <1>3, <2>1, <2>2
  <1>5. ms # <<>>
    BY <1>2, <1>3
  <1>6. ns # <<>> => ms[1] = ns[1]
    <2>1. ns # <<>> => Len(ns) # 0
      BY EmptySeq
    <2> QED BY <1>2, <1>3, <2>1
  <1> QED BY <1>1, <1>4, <1>5, <1>6 DEF ms

\* What apply does to the lists.
LEMMA AppliedList ==
  ASSUME NEW d \in Holder, NEW i, NEW v, Shapes, Apply(d, i, v)
  PROVE  /\ \A e \in Holder \ {d} : nodes'[e] = nodes[e]
         /\ nodes'[d] = IF i \in Ids(nodes[d]) THEN nodes[d]
                        ELSE Append(nodes[d], [id |-> i, past |-> v.past \cap Ids(nodes[d]), op |-> v.op])
  BY DEF Apply, Shapes

\* A version that arrives, the first of a late device, and a version put.
LEMMA TakeKeepsHistory ==
  ASSUME RuleInv, HistoryInv, NEW d \in Holder, NEW i \in DOMAIN made, Apply(d, i, made[i]), made' = made,
         covered' = covered, i \notin Covered(d), made[i].past \subseteq Ids(nodes[d]) \cup Covered(d),
         d \in Late => nodes[d] # <<>>
  PROVE  HistoryInv'
  <1> DEFINE old == nodes[d]
             n == [id |-> i, past |-> made[i].past \cap Ids(old), op |-> made[i].op]
  <1>1. /\ \A e \in Holder \ {d} : nodes'[e] = nodes[e]
        /\ nodes'[d] = IF i \in Ids(old) THEN old ELSE Append(old, n)
    BY AppliedList DEF RuleInv
  <1>2. old \in Seq(ToSet(old)) /\ HasHistory(d)
    BY DEF RuleInv, HistoryInv, Listed, IsList
  <1>3. Ids(old) \cap Covered(d) = {}
    BY <1>2 DEF HasHistory, Ids
  <1>4. n.id = i /\ n.past \subseteq Ids(old) /\ n.past = made[i].past \ Covered(d) /\ n.op = made[i].op
        /\ n = [id |-> i, past |-> made[i].past \ Covered(d), op |-> made[i].op]
    BY <1>3
  <1> HIDE DEF n
  <1>5. \A e \in Holder : Covered(e)' = Covered(e)
    BY DEF Covered
  <1>6. /\ \A k \in DOMAIN nodes'[d] : nodes'[d][k].past \subseteq {nodes'[d][j].id : j \in 1..k - 1}
        /\ ToSet(nodes'[d]) \subseteq ToSet(old) \cup {n}
        /\ d \in Late => nodes'[d] # <<>> /\ nodes'[d][1] = old[1]
    <2>1. CASE i \in Ids(old)
      BY <1>1, <1>2, <2>1 DEF HasHistory
    <2>2. CASE i \notin Ids(old)
      <3>1. nodes'[d] = Append(old, n)
        BY <1>1, <2>2
      <3>2. \A k \in DOMAIN old : old[k].past \subseteq {old[j].id : j \in 1..k - 1}
        BY <1>2 DEF HasHistory
      <3> HIDE DEF old
      <3>3. LET ms == Append(old, n)
            IN /\ \A k \in DOMAIN ms : ms[k].past \subseteq {ms[j].id : j \in 1..k - 1}
               /\ ToSet(ms) = ToSet(old) \cup {n} /\ ms # <<>>
               /\ old # <<>> => ms[1] = old[1]
        BY <1>2, <1>4, <3>2, PlacedAtEnd
      <3>4. PICK ms : ms = Append(old, n)
        OBVIOUS
      <3>5. /\ \A k \in DOMAIN ms : ms[k].past \subseteq {ms[j].id : j \in 1..k - 1}
            /\ ToSet(ms) = ToSet(old) \cup {n} /\ ms # <<>>
            /\ old # <<>> => ms[1] = old[1]
        BY <3>3, <3>4
      <3>6. nodes'[d] = ms
        BY <3>1, <3>4
      <3>7. d \in Late => old # <<>>
        BY DEF old
      <3> QED BY <3>5, <3>6, <3>7
    <2> QED BY <2>1, <2>2
  <1>7. ASSUME NEW e \in Holder PROVE HasHistory(e)'
    <2>1. CASE e # d
      <3>1. nodes'[e] = nodes[e] /\ Covered(e)' = Covered(e) /\ HasHistory(e)
        BY <1>1, <1>5, <2>1 DEF HistoryInv
      <3> QED BY <3>1 DEF HasHistory
    <2>2. CASE e = d
      <3> SUFFICES ASSUME NEW m \in ToSet(nodes'[d])
                   PROVE  /\ m.id \in DOMAIN made \ Covered(d)
                          /\ m = [id |-> m.id, past |-> made[m.id].past \ Covered(d), op |-> made[m.id].op]
        BY <1>5, <1>6, <2>2 DEF HasHistory
      <3>1. CASE m \in ToSet(old)
        BY <1>2, <3>1 DEF HasHistory
      <3>2. CASE m = n
        BY <1>4, <3>2
      <3> QED BY <1>6, <3>1, <3>2
    <2> QED BY <2>1, <2>2
  <1>8. ASSUME NEW e \in Late PROVE Began(e)'
    <2>1. Began(e) /\ e \in Holder
      BY DEF HistoryInv, Holder
    <2>2. CASE e # d
      <3>1. nodes'[e] = nodes[e]
        BY <1>1, <2>1, <2>2
      <3> QED BY <2>1, <3>1 DEF Began
    <2>3. CASE e = d
      <3>1. nodes'[e] # <<>> /\ nodes[e] # <<>> /\ nodes'[e][1] = nodes[e][1]
        BY <1>6, <2>3
      <3> QED BY <2>1, <3>1 DEF Began, IsCheckpoint
    <2> QED BY <2>2, <2>3
  <1>9. MadeSound'
    BY DEF HistoryInv, MadeSound
  <1> QED BY <1>7, <1>8, <1>9 DEF HistoryInv

LEMMA BeginKeepsHistory ==
  ASSUME RuleInv, HistoryInv, NEW d \in Late, NEW i \in DOMAIN made, Begin(d, i)
  PROVE  HistoryInv'
  <1> DEFINE n == [id |-> i, past |-> made[i].past \cap Ids(nodes[d]), op |-> made[i].op]
  <1>1. d \in Holder /\ nodes[d] = <<>> /\ made' = made /\ i \notin made[i].past
        /\ (IsCheckpoint(made[i]) \/ made[i].past = {})
    BY DEF Begin, Holder, HistoryInv, MadeSound
  <1>2. Ids(<<>>) = {}
    BY EmptyList DEF Ids
  <1>3. /\ \A e \in Holder \ {d} : nodes'[e] = nodes[e]
        /\ nodes'[d] = IF i \in Ids(nodes[d]) THEN nodes[d] ELSE Append(nodes[d], n)
    <2>1. Apply(d, i, made[i]) /\ Shapes
      BY DEF Begin, RuleInv
    <2> HIDE DEF n
    <2>2. \A v : Apply(d, i, v) =>
            /\ \A e \in Holder \ {d} : nodes'[e] = nodes[e]
            /\ nodes'[d] = IF i \in Ids(nodes[d]) THEN nodes[d]
                           ELSE Append(nodes[d], [id |-> i, past |-> v.past \cap Ids(nodes[d]), op |-> v.op])
      BY <1>1, <2>1, AppliedList
    <2> QED BY <2>1, <2>2 DEF n
  <1>4. covered' = [e \in Late |-> covered'[e]] /\ covered'[d] = made[i].past
        /\ \A e \in Late \ {d} : covered'[e] = covered[e]
    BY DEF Begin, HistoryInv
  <1>5. n = [id |-> i, past |-> {}, op |-> made[i].op]
    BY <1>1, <1>2
  <1>6. nodes'[d] = <<n>>
    <2>1. nodes'[d] = Append(<<>>, n)
      BY <1>1, <1>2, <1>3
    <2> HIDE DEF n
    <2> QED BY <2>1
  <1> HIDE DEF n
  <1>7. ToSet(<<n>>) = {n} /\ DOMAIN <<n>> = {1} /\ <<n>>[1] = n /\ <<n>> # <<>>
    BY DEF ToSet
  <1>8. ASSUME NEW e \in Holder PROVE HasHistory(e)'
    <2>1. CASE e # d
      <3>1. HasHistory(e) /\ nodes'[e] = nodes[e]
        BY <1>3, <2>1 DEF HistoryInv
      <3>2. Covered(e)' = Covered(e)
        BY <1>4, <2>1 DEF Covered
      <3> QED BY <1>1, <3>1, <3>2 DEF HasHistory
    <2>2. CASE e = d
      <3>1. Covered(d)' = made[i].past
        BY <1>4 DEF Covered
      <3>2. n.id = i /\ n.past = {} /\ n = [id |-> i, past |-> made[i].past \ made[i].past, op |-> made[i].op]
        BY <1>5
      <3> QED BY <1>1, <1>6, <1>7, <2>2, <3>1, <3>2 DEF HasHistory
    <2> QED BY <2>1, <2>2
  <1>9. ASSUME NEW e \in Late PROVE Began(e)'
    <2>1. CASE e # d
      <3>1. nodes'[e] = nodes[e] /\ covered'[e] = covered[e] /\ Began(e)
        BY <1>3, <1>4, <2>1 DEF HistoryInv, Holder
      <3> QED BY <1>1, <3>1 DEF Began, IsCheckpoint
    <2>2. CASE e = d
      <3>1. n.id = i
        BY <1>5
      <3> QED BY <1>1, <1>4, <1>6, <1>7, <2>2, <3>1 DEF Began, IsCheckpoint
    <2> QED BY <2>1, <2>2
  <1>10. MadeSound'
    BY <1>1 DEF HistoryInv, MadeSound
  <1> QED BY <1>4, <1>8, <1>9, <1>10 DEF HistoryInv

LEMMA PutKeepsHistory ==
  ASSUME RuleInv, HistoryInv, NEW w \in Writer, NEW claimed, NEW basis, NEW edits,
         edits \in Seq(ToSet(edits)), Put(w, claimed, basis, edits)
  PROVE  HistoryInv'
  <1> DEFINE v == [past |-> Ids(nodes[w]), op |-> [writer |-> claimed, basis |-> basis, edits |-> edits]]
             i == NextId(w)
             old == nodes[w]
             n == [id |-> i, past |-> v.past \cap Ids(old), op |-> v.op]
  <1>1. made' = Noted(made, i, v) /\ Apply(w, i, v) /\ w \in Holder /\ covered' = covered
    BY DEF Put, Holder
  <1>2. v.past = Ids(old) /\ v.op.edits = edits
    OBVIOUS
  <1>3. i[1] = w /\ w \in Nat
    BY WriterAssumption DEF NextId
  <1>4. Covered(w) = {} /\ w \notin Late
    BY WriterAssumption DEF Covered
  <1> HIDE DEF v, i
  <1>5. /\ i \notin DOMAIN made /\ DOMAIN made' = DOMAIN made \cup {i} /\ made'[i] = v
        /\ \A j \in DOMAIN made : made'[j] = made[j]
    BY <1>1, NewNumber DEF RuleInv, i
  <1>6. /\ \A e \in Holder \ {w} : nodes'[e] = nodes[e]
        /\ nodes'[w] = IF i \in Ids(old) THEN old ELSE Append(old, n)
    BY <1>1, AppliedList DEF RuleInv
  <1>7. old \in Seq(ToSet(old)) /\ HasHistory(w) /\ \A m \in ToSet(old) : m.past \subseteq Ids(old)
    BY <1>1 DEF RuleInv, HistoryInv, Listed, IsList
  <1>8. Ids(old) \subseteq DOMAIN made
    BY <1>7 DEF HasHistory, Ids
  <1>9. \A j \in Ids(old) : made[j].past \subseteq Ids(old)
    <2> SUFFICES ASSUME NEW m \in ToSet(old) PROVE made[m.id].past \subseteq Ids(old)
      BY DEF Ids
    <2>1. m = [id |-> m.id, past |-> made[m.id].past \ {}, op |-> made[m.id].op]
      BY <1>4, <1>7 DEF HasHistory
    <2>2. m.past = made[m.id].past
      BY <2>1
    <2> QED BY <1>7, <2>2
  <1>10. n.id = i /\ n.past = Ids(old) /\ n = [id |-> i, past |-> v.past \ {}, op |-> v.op]
    BY <1>2
  <1>11. nodes'[w] = Append(old, n)
    BY <1>5, <1>6, <1>8
  <1> HIDE DEF n
  <1>12. /\ \A k \in DOMAIN nodes'[w] : nodes'[w][k].past \subseteq {nodes'[w][j].id : j \in 1..k - 1}
         /\ ToSet(nodes'[w]) = ToSet(old) \cup {n}
    <2>1. \A k \in DOMAIN old : old[k].past \subseteq {old[j].id : j \in 1..k - 1}
      BY <1>7 DEF HasHistory
    <2> HIDE DEF old
    <2>2. LET ms == Append(old, n)
          IN /\ \A k \in DOMAIN ms : ms[k].past \subseteq {ms[j].id : j \in 1..k - 1}
             /\ ToSet(ms) = ToSet(old) \cup {n} /\ ms # <<>>
             /\ old # <<>> => ms[1] = old[1]
      BY <1>7, <1>10, <2>1, PlacedAtEnd
    <2> QED BY <1>11, <2>2
  <1>13. \A e : Covered(e)' = Covered(e)
    BY <1>1 DEF Covered
  <1>14. ASSUME NEW e \in Holder, NEW m \in ToSet(nodes[e])
         PROVE  /\ m.id \in DOMAIN made' \ Covered(e)
                /\ m = [id |-> m.id, past |-> made'[m.id].past \ Covered(e), op |-> made'[m.id].op]
    <2>1. /\ m.id \in DOMAIN made \ Covered(e)
          /\ m = [id |-> m.id, past |-> made[m.id].past \ Covered(e), op |-> made[m.id].op]
      BY DEF HistoryInv, HasHistory
    <2>2. made'[m.id] = made[m.id] /\ m.id \in DOMAIN made' \ Covered(e)
      BY <1>5, <2>1
    <2> QED BY <2>1, <2>2
  <1>15. ASSUME NEW e \in Holder PROVE HasHistory(e)'
    <2>1. CASE e # w
      <3>1. nodes'[e] = nodes[e] /\ HasHistory(e)
        BY <1>6, <2>1 DEF HistoryInv
      <3> QED BY <1>13, <1>14, <3>1 DEF HasHistory
    <2>2. CASE e = w
      <3> SUFFICES ASSUME NEW m \in ToSet(nodes'[w])
                   PROVE  /\ m.id \in DOMAIN made' \ Covered(w)
                          /\ m = [id |-> m.id, past |-> made'[m.id].past \ Covered(w), op |-> made'[m.id].op]
        BY <1>12, <1>13, <2>2 DEF HasHistory
      <3>1. CASE m \in ToSet(old)
        BY <1>1, <1>14, <3>1
      <3>2. CASE m = n
        BY <1>4, <1>5, <1>10, <3>2
      <3> QED BY <1>12, <3>1, <3>2
    <2> QED BY <2>1, <2>2
  <1>16. ASSUME NEW e \in Late PROVE Began(e)'
    <2>1. Began(e) /\ e \in Holder /\ nodes'[e] = nodes[e] /\ HasHistory(e)
      BY <1>4, <1>6 DEF HistoryInv, Holder
    <2>2. CASE nodes[e] = <<>>
      BY <1>1, <2>1, <2>2 DEF Began
    <2>3. CASE nodes[e] # <<>>
      <3>1. nodes[e] \in Seq(ToSet(nodes[e]))
        BY <2>1 DEF RuleInv, Listed, IsList
      <3>2. nodes[e][1] \in ToSet(nodes[e])
        BY <2>3, <3>1, EmptySeq, LenProperties DEF ToSet
      <3>3. made'[nodes[e][1].id] = made[nodes[e][1].id]
        BY <1>5, <2>1, <3>2 DEF HasHistory
      <3> QED BY <1>1, <2>1, <2>3, <3>3 DEF Began, IsCheckpoint
    <2> QED BY <2>2, <2>3
  <1>17. MadeSound'
    <2> SUFFICES ASSUME NEW j \in DOMAIN made'
                 PROVE  /\ j[1] \in Nat
                        /\ made'[j].op.edits \in Seq(ToSet(made'[j].op.edits))
                        /\ made'[j].past \subseteq DOMAIN made' \ {j}
                        /\ \A k \in made'[j].past : made'[k].past \subseteq made'[j].past
      BY DEF MadeSound
    <2>1. CASE j = i
      <3>1. made'[j] = v /\ v.past \subseteq DOMAIN made
        BY <1>2, <1>5, <1>8, <2>1
      <3>2. \A k \in v.past : made'[k] = made[k] /\ made[k].past \subseteq v.past
        BY <1>2, <1>5, <1>9, <3>1
      <3> QED BY <1>2, <1>3, <1>5, <2>1, <3>1, <3>2
    <2>2. CASE j \in DOMAIN made
      <3>1. made'[j] = made[j] /\ \A k \in made[j].past : made'[k] = made[k]
        BY <1>5, <2>2 DEF HistoryInv, MadeSound
      <3> QED BY <1>5, <2>2, <3>1 DEF HistoryInv, MadeSound
    <2> QED BY <1>5, <2>1, <2>2
  <1>18. covered' = [d \in Late |-> covered'[d]]
    BY <1>1 DEF HistoryInv
  <1> QED BY <1>15, <1>16, <1>17, <1>18 DEF HistoryInv

LEMMA HistoryStep == RuleInv /\ HistoryInv /\ [ElementNext]_elementVars => HistoryInv'
  <1> SUFFICES ASSUME RuleInv, HistoryInv, [ElementNext]_elementVars PROVE HistoryInv'
    OBVIOUS
  <1>1. ASSUME NEW w \in Writer, NEW edits \in Operations, PutOperation(w, edits) PROVE HistoryInv'
    BY <1>1, PutKeepsHistory, OperationsAssumption DEF PutOperation
  <1>2. ASSUME NEW x PROVE <<x>> \in Seq(ToSet(<<x>>))
    BY DEF ToSet
  <1>3. ASSUME NEW x, NEW y PROVE <<x, y>> \in Seq(ToSet(<<x, y>>))
    BY DEF ToSet
  <1>4. ASSUME NEW w \in Writer, PutCheckpoint(w) PROVE HistoryInv'
    BY <1>2, <1>4, PutKeepsHistory DEF PutCheckpoint
  <1>5. ASSUME NEW w \in Writer, PutUnsound(w) PROVE HistoryInv'
    <2> DEFINE edits == CHOOSE e \in Operations : TRUE
    <2>1. edits \in Seq(ToSet(edits))
      BY OperationsAssumption
    <2>2. <<>> \in Seq(ToSet(<<>>))
      OBVIOUS
    <2> HIDE DEF edits
    <2>3. \/ \E other \in Writer \ {w} : Put(w, other, Heads(nodes[w]), edits)
          \/ \E i \in DOMAIN made \ Ids(nodes[w]) : Put(w, w, {i}, edits)
          \/ Put(w, w, Heads(nodes[w]), <<>>)
          \/ Put(w, w, Heads(nodes[w]), <<Checkpoint(Shown(nodes[w])), edits[1]>>)
      BY <1>5 DEF PutUnsound, edits
    <2> QED BY <1>3, <2>1, <2>2, <2>3, PutKeepsHistory
  <1>6. ASSUME NEW d \in Holder, NEW i \in DOMAIN made, Arrive(d, i) PROVE HistoryInv'
    <2>1. /\ i \notin Covered(d) /\ made[i].past \subseteq Ids(nodes[d]) \cup Covered(d)
          /\ d \in Late => nodes[d] # <<>>
      BY <1>6 DEF Arrive, Known, Covered
    <2> QED BY <1>6, <2>1, TakeKeepsHistory DEF Arrive
  <1>7. ASSUME NEW d \in Late, NEW i \in DOMAIN made, Begin(d, i) PROVE HistoryInv'
    BY <1>7, BeginKeepsHistory
  <1>8. CASE UNCHANGED elementVars
    <2>1. MadeSound' /\ covered' = [d \in Late |-> covered'[d]]
      BY <1>8 DEF HistoryInv, elementVars, MadeSound
    <2>2. ASSUME NEW d \in Holder PROVE HasHistory(d)'
      BY <1>8 DEF HistoryInv, elementVars, HasHistory, Covered
    <2>3. ASSUME NEW d \in Late PROVE Began(d)'
      BY <1>8 DEF HistoryInv, elementVars, Began, IsCheckpoint
    <2> QED BY <2>1, <2>2, <2>3 DEF HistoryInv
  <1> QED BY <1>1, <1>4, <1>5, <1>6, <1>7, <1>8 DEF ElementNext

LEMMA HistoryAlways == ElementSpec => [](RuleInv /\ HistoryInv)
  BY RuleInit, RuleStep, HistoryInit, HistoryStep, PTL DEF ElementSpec

\* What a holder applied can be put in order.
LEMMA HistoryIsOrderly ==
  ASSUME RuleInv, HistoryInv, NEW d \in Holder
  PROVE  Orderly(ToSet(nodes[d])) /\ \A n \in ToSet(nodes[d]) : HasEdits(n)
  <1> DEFINE ns == nodes[d]
             S == ToSet(ns)
  <1>1. ns \in Seq(S) /\ (\A m, n \in S : m.id = n.id => m = n) /\ HasHistory(d)
    BY DEF RuleInv, Listed, IsList, HistoryInv
  <1>2. Len(ns) \in Nat /\ DOMAIN ns = 1..Len(ns) /\ S = {ns[k] : k \in 1..Len(ns)}
    BY <1>1, LenProperties DEF ToSet
  <1>3. IsFiniteSet(S)
    <2>1. IsFiniteSet(1..Len(ns))
      BY <1>2, FS_Interval
    <2> DEFINE f == [k \in 1..Len(ns) |-> ns[k]]
    <2>2. f \in Surjection(1..Len(ns), S)
      BY <1>2 DEF Surjection
    <2> QED BY <2>1, <2>2, FS_Surjection
  <1>4. ASSUME NEW n \in S
        PROVE  /\ n.id = <<n.id[1], n.id[2]>> /\ n.id[1] \in Nat /\ n.id[2] \in Nat
               /\ HasEdits(n)
    <2>1. n.id \in DOMAIN made /\ n.op = made[n.id].op
      BY <1>1 DEF HasHistory
    <2>2. n.id = <<n.id[1], n.id[2]>> /\ n.id[2] \in 1..Cardinality({j \in DOMAIN made : j[1] = n.id[1]})
      BY <2>1 DEF RuleInv, Numbered
    <2>3. Cardinality({j \in DOMAIN made : j[1] = n.id[1]}) \in Nat
      BY FS_Subset, FS_CardinalityType DEF RuleInv, Numbered
    <2>4. n.id[2] \in Nat
      BY <2>2, <2>3
    <2>5. n.id[1] \in Nat /\ n.op.edits \in Seq(ToSet(n.op.edits))
      BY <2>1 DEF HistoryInv, MadeSound
    <2> QED BY <2>2, <2>4, <2>5 DEF HasEdits, Edits
  <1>5. ASSUME NEW D \in SUBSET S, D # S
        PROVE  \E n \in S \ D : n.past \subseteq {m.id : m \in D}
    <2> DEFINE T == {k \in 1..Len(ns) : ns[k] \notin D}
    <2>1. T # {} /\ T \subseteq Nat
      BY <1>2, <1>5
    <2> HIDE DEF T
    <2>2. PICK k \in T : \A j \in T : k <= j
      BY <2>1, LeastOne
    <2>3. k \in 1..Len(ns) /\ ns[k] \in S \ D
      BY <1>2, <2>2 DEF T
    <2>4. ASSUME NEW j \in 1..k - 1 PROVE ns[j] \in D
      <3>1. j \in 1..Len(ns) /\ ~(k <= j)
        BY <1>2, <2>3
      <3> QED BY <2>2, <3>1 DEF T
    <2>5. ns[k].past \subseteq {ns[j].id : j \in 1..k - 1}
      BY <1>1, <1>2, <2>3 DEF HasHistory
    <2> QED BY <2>3, <2>4, <2>5
  <1> QED BY <1>1, <1>3, <1>4, <1>5 DEF Orderly

\* No counted write is lost, and none outlives its replacement.
LEMMA LatestAreShown == RuleInv /\ HistoryInv => AlternativesAreLatest
  <1> SUFFICES ASSUME RuleInv, HistoryInv PROVE AlternativesAreLatest
    OBVIOUS
  <1> SUFFICES ASSUME NEW d \in Holder, NEW s \in Slots
               PROVE  LET ns == nodes[d]
                          counting == {n \in ToSet(ns) : ~NotCounted(ns, n)}
                          Over(n) == \E m \in counting : n.id \in m.past /\ (IsCheckpoint(m) \/ WritesSlot(m, s))
                      IN {a.at : a \in Alternatives(ns)[s]} = {n.id : n \in {m \in counting : WritesSlot(m, s) /\ ~Over(m)}}
    BY DEF AlternativesAreLatest
  <1> DEFINE ns == nodes[d]
             S == ToSet(ns)
             counting == {n \in ToSet(ns) : ~NotCounted(ns, n)}
             Over(n) == \E m \in counting : n.id \in m.past /\ (IsCheckpoint(m) \/ WritesSlot(m, s))
  <1>1. At(AlternativesOf(S), s) = LatestIn(S, S, s)
    BY HistoryIsOrderly, ShownAreLatest
  <1>2. Alternatives(ns) = AlternativesOf(S)
    BY AlternativesOfSet
  <1>3. \A n : NotCounted(ns, n) <=> NotCountedIn(S, n)
    BY DEF NotCounted, NotCountedIn, Locks, LocksOf, Lifted, LiftedIn
  <1>4. LatestIn(S, S, s) = {n.id : n \in {m \in counting : WritesSlot(m, s) /\ ~Over(m)}}
    BY <1>3 DEF LatestIn, Replaces
  <1> QED BY <1>1, <1>2, <1>4 DEF At

-----------------------------------------------------------------------------
(* Beginning at a checkpoint.                                              *)

\* S is what a device applied that began at the checkpoint c, E what one applied that replayed
\* what c covers: the versions C, of ids P.
WithPast(n, P) == [id |-> n.id, past |-> n.past \cup P, op |-> n.op]
Replays(S, E, C, P, c) ==
    /\ Orderly(S) /\ Orderly(E) /\ \A n \in S \cup E : HasEdits(n)
    /\ c \in S /\ IsCheckpoint(c) /\ c.past = {}
    /\ \A n \in S : n.id \notin P /\ n.past \cap P = {} /\ (n # c => c.id \in n.past)
    /\ E = C \cup {WithPast(n, P) : n \in S}
    /\ P = {m.id : m \in C} /\ \A m \in C : m.past \subseteq P

\* A version with the covered past is the same but for its past.
LEMMA WithPastIs ==
  ASSUME NEW n, NEW P
  PROVE  /\ WithPast(n, P).id = n.id /\ WithPast(n, P).past = n.past \cup P /\ WithPast(n, P).op = n.op
         /\ IsCheckpoint(WithPast(n, P)) <=> IsCheckpoint(n)
         /\ State(WithPast(n, P)) = State(n) /\ Edits(WithPast(n, P)) = Edits(n)
         /\ Held(WithPast(n, P)) = Held(n) /\ Writes(WithPast(n, P)) = Writes(n)
  <1> DEFINE m == WithPast(n, P)
  <1>1. m.id = n.id /\ m.past = n.past \cup P /\ m.op = n.op
    BY DEF WithPast
  <1> HIDE DEF m
  <1>2. (IsCheckpoint(m) <=> IsCheckpoint(n)) /\ State(m) = State(n) /\ Edits(m) = Edits(n)
    BY <1>1 DEF IsCheckpoint, State, Edits
  <1>3. Held(m) = Held(n) /\ Writes(m) = Writes(n)
    BY <1>1, <1>2 DEF Held, Writes
  <1> QED BY <1>1, <1>2, <1>3 DEF m

\* A checkpoint sets and changes nothing, so no lock holds it up.
LEMMA CheckpointWritesNone ==
  ASSUME NEW c, IsCheckpoint(c), HasEdits(c)
  PROVE  Writes(c) = {} /\ Held(c) = State(c).locks
  <1>1. c.op.edits \in Seq(Edits(c)) /\ Len(c.op.edits) = 1 /\ c.op.edits[1].do = "checkpoint"
    BY DEF HasEdits, IsCheckpoint
  <1>2. DOMAIN c.op.edits = 1..1
    BY <1>1, LenProperties
  <1>3. Edits(c) = {c.op.edits[1]}
    BY <1>2 DEF Edits, ToSet
  <1> QED BY <1>1, <1>3 DEF Writes, Held

\* The locks.
LEMMA LiftedAlike ==
  ASSUME NEW S, NEW E, NEW C, NEW P, NEW c, Replays(S, E, C, P, c), NEW l, l.at \notin P
  PROVE  LiftedIn(E, l) <=> LiftedIn(S, l)
  <1> DEFINE Lifts(n) == /\ l.at \in n.past
                         /\ IF IsCheckpoint(n) THEN l.lock \notin State(n).locks
                            ELSE n.id[1] = l.lock.by /\ Unlock(l.lock.setting) \in Edits(n)
  <1>1. \A T : LiftedIn(T, l) <=> \E n \in T : Lifts(n)
    BY DEF LiftedIn
  <1>2. ASSUME NEW n \in S PROVE Lifts(WithPast(n, P)) <=> Lifts(n)
    <2>1. l.at \in WithPast(n, P).past <=> l.at \in n.past
      BY WithPastIs
    <2> QED BY <2>1, WithPastIs
  <1>3. \A n \in C : ~Lifts(n)
    BY DEF Replays
  <1>4. E = C \cup {WithPast(n, P) : n \in S}
    BY DEF Replays
  <1> HIDE DEF Lifts
  <1> QED BY <1>1, <1>2, <1>3, <1>4

\* The locks not covered are the same.
LEMMA LocksAlike ==
  ASSUME NEW S, NEW E, NEW C, NEW P, NEW c, Replays(S, E, C, P, c)
  PROVE  /\ LocksOf(S) \subseteq LocksOf(E) /\ \A l \in LocksOf(S) : l.at \notin P
         /\ \A l \in LocksOf(E) : l.at \notin P => l \in LocksOf(S)
  <1> DEFINE By(n) == {[lock |-> l, at |-> n.id] : l \in Held(n)}
  <1>1. \A T, l : l \in LocksOf(T) <=> \E n \in T : l \in By(n)
    BY DEF LocksOf
  <1>2. \A n : By(WithPast(n, P)) = By(n)
    BY WithPastIs
  <1>3. \A n : \A l \in By(n) : l.at = n.id
    OBVIOUS
  <1>4. E = C \cup {WithPast(n, P) : n \in S} /\ (\A n \in C : n.id \in P) /\ \A n \in S : n.id \notin P
    BY DEF Replays
  <1> HIDE DEF By
  <1> QED BY <1>1, <1>2, <1>3, <1>4

\* A lock that was covered is still in force only as one the checkpoint has.
LEMMA CoveredLock ==
  ASSUME NEW S, NEW E, NEW C, NEW P, NEW c, Replays(S, E, C, P, c),
         NEW l \in LocksOf(E), l.at \in P, ~LiftedIn(E, l)
  PROVE  \E k \in LocksOf(S) : k.lock = l.lock /\ k.at = c.id /\ ~LiftedIn(S, k)
  <1> DEFINE k == [lock |-> l.lock, at |-> c.id]
             cc == WithPast(c, P)
  <1>1. cc \in E /\ l.at \in cc.past /\ IsCheckpoint(cc) /\ State(cc) = State(c)
    BY WithPastIs DEF Replays
  <1>2. l.lock \in State(c).locks
    BY <1>1 DEF LiftedIn
  <1>3. Held(c) = State(c).locks
    BY CheckpointWritesNone DEF Replays
  <1>4. k \in LocksOf(S)
    BY <1>2, <1>3 DEF LocksOf, Replays
  <1>5. k.at = c.id /\ k.lock = l.lock /\ c.id \notin P
    BY DEF Replays
  <1> HIDE DEF k, cc
  <1>6. ~LiftedIn(S, k)
    <2> SUFFICES ASSUME LiftedIn(S, k) PROVE FALSE
      OBVIOUS
    <2>1. PICK n \in S : /\ k.at \in n.past
                         /\ IF IsCheckpoint(n) THEN k.lock \notin State(n).locks
                            ELSE n.id[1] = k.lock.by /\ Unlock(k.lock.setting) \in Edits(n)
      BY DEF LiftedIn
    <2> DEFINE nn == WithPast(n, P)
    <2>2. nn \in E /\ l.at \in nn.past
      BY WithPastIs DEF Replays
    <2>3. IF IsCheckpoint(nn) THEN l.lock \notin State(nn).locks
          ELSE nn.id[1] = l.lock.by /\ Unlock(l.lock.setting) \in Edits(nn)
      BY <1>5, <2>1, WithPastIs
    <2> HIDE DEF nn
    <2> QED BY <2>2, <2>3 DEF LiftedIn
  <1> QED BY <1>4, <1>5, <1>6

InForceIn(S) == {l.lock : l \in {k \in LocksOf(S) : ~LiftedIn(S, k)}}

\* The locks in force are the same.
LEMMA InForceAlike ==
  ASSUME NEW S, NEW E, NEW C, NEW P, NEW c, Replays(S, E, C, P, c)
  PROVE  InForceIn(E) = InForceIn(S)
  <1>1. ASSUME NEW l \in LocksOf(S), ~LiftedIn(S, l) PROVE l.lock \in InForceIn(E)
    <2>1. l \in LocksOf(E) /\ ~LiftedIn(E, l)
      BY <1>1, LocksAlike, LiftedAlike
    <2> QED BY <2>1 DEF InForceIn
  <1>2. ASSUME NEW l \in LocksOf(E), ~LiftedIn(E, l) PROVE l.lock \in InForceIn(S)
    <2>1. CASE l.at \in P
      <3>1. PICK k \in LocksOf(S) : k.lock = l.lock /\ ~LiftedIn(S, k)
        BY <1>2, <2>1, CoveredLock
      <3> QED BY <3>1 DEF InForceIn
    <2>2. CASE l.at \notin P
      <3>1. l \in LocksOf(S) /\ ~LiftedIn(S, l)
        BY <1>2, <2>2, LocksAlike, LiftedAlike
      <3> QED BY <3>1 DEF InForceIn
    <2> QED BY <2>1, <2>2
  <1>3. InForceIn(S) \subseteq InForceIn(E)
    BY <1>1, Zenon DEF InForceIn
  <1>4. InForceIn(E) \subseteq InForceIn(S)
    BY <1>2, Zenon DEF InForceIn
  <1> QED BY <1>3, <1>4

\* A version counts on the one as on the other.
LEMMA CountsAlike ==
  ASSUME NEW S, NEW E, NEW C, NEW P, NEW c, Replays(S, E, C, P, c), NEW n \in S
  PROVE  NotCountedIn(E, WithPast(n, P)) <=> NotCountedIn(S, n)
  <1> DEFINE m == WithPast(n, P)
  <1>1. m.id = n.id /\ m.past = n.past \cup P /\ Writes(m) = Writes(n)
    BY WithPastIs
  <1> HIDE DEF m
  <1>2. ASSUME NotCountedIn(S, n) PROVE NotCountedIn(E, m)
    <2>1. PICK l \in LocksOf(S) : /\ l.lock.by # n.id[1] /\ l.at \in n.past
                                  /\ l.lock.setting \in Writes(n)
                                  /\ ~LiftedIn(S, l)
      BY <1>2 DEF NotCountedIn
    <2>2. l \in LocksOf(E) /\ ~LiftedIn(E, l)
      BY <2>1, LocksAlike, LiftedAlike
    <2> QED BY <1>1, <2>1, <2>2 DEF NotCountedIn
  <1>3. ASSUME NotCountedIn(E, m) PROVE NotCountedIn(S, n)
    <2>1. PICK l \in LocksOf(E) : /\ l.lock.by # n.id[1] /\ l.at \in n.past \cup P
                                  /\ l.lock.setting \in Writes(n)
                                  /\ ~LiftedIn(E, l)
      BY <1>1, <1>3 DEF NotCountedIn
    <2>2. CASE l.at \in P
      <3>1. PICK k \in LocksOf(S) : k.lock = l.lock /\ k.at = c.id /\ ~LiftedIn(S, k)
        BY <2>1, <2>2, CoveredLock
      <3>2. n # c
        BY <2>1, CheckpointWritesNone DEF Replays
      <3>3. c.id \in n.past
        BY <3>2 DEF Replays
      <3> QED BY <2>1, <3>1, <3>3 DEF NotCountedIn
    <2>3. CASE l.at \notin P
      <3>1. l \in LocksOf(S) /\ ~LiftedIn(S, l)
        BY <2>1, <2>3, LocksAlike, LiftedAlike
      <3> QED BY <2>1, <2>3, <3>1 DEF NotCountedIn
    <2> QED BY <2>2, <2>3
  <1> QED BY <1>2, <1>3 DEF m

Upon(T, P) == {WithPast(n, P) : n \in T}

\* A version is the one of its id.
LEMMA UponIs ==
  ASSUME NEW S, NEW E, NEW C, NEW P, NEW c, Replays(S, E, C, P, c)
  PROVE  /\ \A n, m \in S : WithPast(n, P) = WithPast(m, P) => n = m
         /\ \A n \in S : WithPast(n, P) \notin C
         /\ E = C \cup Upon(S, P) /\ C \cap Upon(S, P) = {}
         /\ C \subseteq E
  <1>1. \A n \in S : WithPast(n, P).id = n.id /\ n.id \notin P
    BY WithPastIs DEF Replays
  <1>2. \A n, m \in S : n.id = m.id => n = m
    BY DEF Replays, Orderly
  <1>3. \A m \in C : m.id \in P
    BY DEF Replays
  <1>4. \A n \in S : WithPast(n, P) \notin C
    BY <1>1, <1>3
  <1>5. \A n, m \in S : WithPast(n, P) = WithPast(m, P) => n = m
    BY <1>1, <1>2
  <1>6. E = C \cup Upon(S, P)
    BY DEF Replays, Upon
  <1>7. C \cap Upon(S, P) = {}
    BY <1>4 DEF Upon
  <1> QED BY <1>4, <1>5, <1>6, <1>7

\* Nothing is there twice.
LEMMA ReplaysCard ==
  ASSUME NEW S, NEW E, NEW C, NEW P, NEW c, Replays(S, E, C, P, c)
  PROVE  /\ IsFiniteSet(C) /\ Cardinality(C) \in Nat /\ Cardinality(S) \in Nat /\ Cardinality(E) \in Nat
         /\ Cardinality(E) = Cardinality(C) + Cardinality(S)
  <1>0. IsFiniteSet(S) /\ IsFiniteSet(E)
    BY DEF Replays, Orderly
  <1>1. IsFiniteSet(S) /\ IsFiniteSet(E) /\ C \subseteq E /\ Upon(S, P) \subseteq E
    BY <1>0, UponIs
  <1>2. IsFiniteSet(C) /\ IsFiniteSet(Upon(S, P))
    BY <1>1, FS_Subset
  <1> DEFINE f == [n \in S |-> WithPast(n, P)]
  <1>3. f \in Bijection(S, Upon(S, P))
    <2>1. f \in [S -> Upon(S, P)]
      BY DEF Upon
    <2>2. \A m, n \in S : f[m] = f[n] => m = n
      BY UponIs
    <2>3. \A m \in Upon(S, P) : \E n \in S : f[n] = m
      BY DEF Upon
    <2> HIDE DEF f
    <2> QED BY <2>1, <2>2, <2>3 DEF Bijection, Injection, Surjection, IsInjective
  <1>4. ExistsBijection(S, Upon(S, P))
    BY <1>3 DEF ExistsBijection
  <1>5. Cardinality(Upon(S, P)) = Cardinality(S)
    BY <1>1, <1>4, FS_Bijection
  <1>6. /\ Cardinality(C) \in Nat /\ Cardinality(S) \in Nat /\ Cardinality(E) \in Nat
        /\ Cardinality(Upon(S, P)) \in Nat
    BY <1>1, <1>2, FS_CardinalityType
  <1>7. Cardinality(C \cup Upon(S, P)) = Cardinality(C) + Cardinality(Upon(S, P)) - Cardinality(C \cap Upon(S, P))
    BY <1>2, FS_Union
  <1>8. C \cap Upon(S, P) = {} /\ E = C \cup Upon(S, P) /\ Cardinality({}) = 0
    BY UponIs, FS_EmptySet
  <1>9. Cardinality(E) = Cardinality(C) + Cardinality(S) - 0
    BY <1>5, <1>7, <1>8
  <1> QED BY <1>2, <1>6, <1>9

\* The least of some versions is the least of them over the covered past too.
LEMMA LeastAlike ==
  ASSUME NEW S, NEW E, NEW C, NEW P, NEW c, Replays(S, E, C, P, c), NEW T, T \subseteq S, T # {}
  PROVE  Least(Upon(T, P)) = WithPast(Least(T), P)
  <1>0. Orderly(S) /\ Orderly(E)
    BY DEF Replays
  <1>1. Orderly(S) /\ Orderly(E) /\ Upon(T, P) \subseteq E /\ Upon(T, P) # {}
    <2>1. E = C \cup Upon(S, P)
      BY UponIs
    <2> QED BY <1>0, <2>1 DEF Upon
  <1>2. Least(T) \in T /\ \A m \in T \ {Least(T)} : Before(Least(T).id, m.id)
    BY <1>1, LeastIs
  <1>3. /\ Least(Upon(T, P)) \in Upon(T, P)
        /\ \A m \in Upon(T, P) \ {Least(Upon(T, P))} : Before(Least(Upon(T, P)).id, m.id)
    BY <1>1, LeastIs
  <1>4. PICK a \in T : a = Least(T)
    BY <1>2
  <1>5. PICK b \in T : WithPast(b, P) = Least(Upon(T, P))
    BY <1>3 DEF Upon
  <1>6. a = b
    <2> SUFFICES ASSUME a # b PROVE FALSE
      OBVIOUS
    <2>1. Before(a.id, b.id)
      BY <1>2, <1>4
    <2>2. WithPast(a, P) # WithPast(b, P) /\ WithPast(a, P) \in Upon(T, P)
      BY UponIs DEF Upon
    <2>3. WithPast(a, P).id = a.id /\ WithPast(b, P).id = b.id
      BY WithPastIs
    <2>4. Before(b.id, a.id)
      BY <1>3, <1>5, <2>2, <2>3
    <2>5. /\ a.id = <<a.id[1], a.id[2]>> /\ b.id = <<b.id[1], b.id[2]>>
          /\ a.id[1] \in Nat /\ a.id[2] \in Nat /\ b.id[1] \in Nat /\ b.id[2] \in Nat
      BY <1>1 DEF Orderly
    <2> QED BY <2>1, <2>4, <2>5, BeforeIsOrder
  <1> QED BY <1>4, <1>5, <1>6

\* The covered versions come first.
LEMMA CoveredFirst ==
  ASSUME NEW S, NEW E, NEW C, NEW P, NEW c, Replays(S, E, C, P, c),
         NEW M \in Nat, NEW q, IsOrder(E, M, q), Cardinality(C) <= M
  PROVE  Placed(q, Cardinality(C)) = C
  <1> DEFINE p == Cardinality(C)
  <1>1. IsFiniteSet(C) /\ p \in Nat /\ Orderly(E)
    <2>1. Orderly(E)
      BY DEF Replays
    <2> QED BY <2>1, ReplaysCard
  <1>2. InLine(E, M, q)
    BY <1>1, OrderIsSound
  <1>3. ASSUME NEW i \in 1..p PROVE q[i] \in C
    <2> SUFFICES ASSUME q[i] \notin C PROVE FALSE
      OBVIOUS
    <2>0. i \in 1..M /\ i - 1 \in 0..M
      BY <1>1
    <2>1. q[i] \in E /\ q[i].past \subseteq {q[j].id : j \in 1..i - 1}
      BY <1>2, <2>0 DEF InLine
    <2>2. PICK n \in S : q[i] = WithPast(n, P)
      BY <2>1 DEF Replays
    <2>3. P \subseteq {q[j].id : j \in 1..i - 1}
      BY <2>1, <2>2, WithPastIs
    <2>4. C \subseteq Placed(q, i - 1)
      <3> SUFFICES ASSUME NEW m \in C PROVE m \in Placed(q, i - 1)
        OBVIOUS
      <3>1. m.id \in P /\ m \in E
        BY UponIs DEF Replays
      <3>2. PICK j \in 1..i - 1 : q[j].id = m.id
        BY <2>3, <3>1
      <3>3. j \in 1..M
        BY <2>0
      <3>4. q[j] = m
        BY <1>1, <1>2, <3>1, <3>2, <3>3 DEF InLine, Orderly
      <3> QED BY <3>2, <3>4 DEF Placed
    <2>5. IsFiniteSet(Placed(q, i - 1)) /\ Cardinality(Placed(q, i - 1)) = i - 1
      BY <1>1, <2>0, PlacedCard
    <2>6. p <= i - 1
      BY <2>4, <2>5, FS_Subset
    <2> QED BY <1>1, <2>6
  <1>4. Placed(q, p) \subseteq C
    BY <1>3 DEF Placed
  <1>5. Cardinality(Placed(q, p)) = p
    <2>1. p \in 0..M
      BY <1>1
    <2> QED BY <1>1, <2>1, PlacedCard
  <1> QED BY <1>1, <1>4, <1>5, FS_Subset

\* One more in its place.
LEMMA PlacedOn ==
  ASSUME NEW o, NEW k \in Nat
  PROVE  Placed(o, k + 1) = Placed(o, k) \cup {o[k + 1]}
  <1>1. \A j : j \in 1..k + 1 <=> j = k + 1 \/ j \in 1..k
    OBVIOUS
  <1> QED BY <1>1 DEF Placed

\* Then the same versions come in the same order.
LEMMA OrderAlike ==
  ASSUME NEW S, NEW E, NEW C, NEW P, NEW c, Replays(S, E, C, P, c),
         NEW N \in Nat, NEW o, IsOrder(S, N, o),
         NEW p \in Nat, p = Cardinality(C), NEW q, IsOrder(E, p + N, q)
  PROVE  \A j \in 1..N : q[p + j] = WithPast(o[j], P)
  <1>1. Placed(q, p) = C
    <2>1. p + N \in Nat /\ p <= p + N
      OBVIOUS
    <2> QED BY <2>1, CoveredFirst
  <1>2. InLine(S, N, o)
    BY OrderIsSound DEF Replays
  <1> DEFINE Alike(j) == /\ Placed(q, p + j) = C \cup Upon(Placed(o, j), P)
                         /\ j >= 1 => q[p + j] = WithPast(o[j], P)
             K == {j \in Nat : j <= N => Alike(j)}
  <1>3. 0 \in K
    <2>1. Placed(o, 0) = {} /\ p + 0 = p
      BY DEF Placed
    <2>2. Upon({}, P) = {}
      BY DEF Upon
    <2> QED BY <1>1, <2>1, <2>2
  <1>4. ASSUME NEW j \in Nat, j \in K PROVE j + 1 \in K
    <2> SUFFICES ASSUME j + 1 <= N PROVE Alike(j + 1)
      <3> HIDE DEF Alike
      <3> QED OBVIOUS
    <2>1. Placed(q, p + j) = C \cup Upon(Placed(o, j), P)
      BY <1>4
    <2>2. j + 1 \in 1..N /\ j + 1 - 1 = j /\ p + (j + 1) \in 1..p + N /\ p + (j + 1) - 1 = p + j
          /\ p + j \in Nat /\ p + (j + 1) = (p + j) + 1
      OBVIOUS
    <2> DEFINE T == Nexts(S, o, j)
    <2>3. Placed(o, j) \subseteq S
      BY <1>2, <2>2 DEF InLine, Placed
    <2>4. Nexts(E, q, p + j) = Upon(T, P)
      <3>1. {m.id : m \in C \cup Upon(Placed(o, j), P)} = P \cup {m.id : m \in Placed(o, j)}
        <4>1. \A m : WithPast(m, P).id = m.id
          BY WithPastIs
        <4>2. P = {m.id : m \in C}
          BY DEF Replays
        <4>3. {m.id : m \in Upon(Placed(o, j), P)} = {m.id : m \in Placed(o, j)}
          BY <4>1 DEF Upon
        <4>4. {m.id : m \in C \cup Upon(Placed(o, j), P)} =
              {m.id : m \in C} \cup {m.id : m \in Upon(Placed(o, j), P)}
          OBVIOUS
        <4> QED BY <4>2, <4>3, <4>4
      <3>2. ASSUME NEW n \in S
            PROVE  /\ WithPast(n, P) \in C \cup Upon(Placed(o, j), P) <=> n \in Placed(o, j)
                   /\ WithPast(n, P).past \subseteq P \cup {m.id : m \in Placed(o, j)}
                         <=> n.past \subseteq {m.id : m \in Placed(o, j)}
        <4>1. WithPast(n, P).past = n.past \cup P /\ n.past \cap P = {}
          BY WithPastIs DEF Replays
        <4>2. WithPast(n, P) \in Upon(Placed(o, j), P) <=> n \in Placed(o, j)
          BY <2>3, UponIs DEF Upon
        <4>3. WithPast(n, P) \notin C
          BY UponIs
        <4> QED BY <4>1, <4>2, <4>3
      <3>3. E = C \cup Upon(S, P)
        BY UponIs
      <3>4. Nexts(E, q, p + j) = {m \in E \ (C \cup Upon(Placed(o, j), P)) :
                                     m.past \subseteq P \cup {l.id : l \in Placed(o, j)}}
        BY <2>1, <3>1 DEF Nexts
      <3>5. T = {n \in S \ Placed(o, j) : n.past \subseteq {l.id : l \in Placed(o, j)}}
        BY DEF Nexts
      <3> HIDE DEF T
      <3>6. Upon(T, P) \subseteq Nexts(E, q, p + j)
        BY <3>2, <3>3, <3>4, <3>5 DEF Upon
      <3>7. ASSUME NEW m \in Nexts(E, q, p + j) PROVE m \in Upon(T, P)
        <4>1. m \in E /\ m \notin C \cup Upon(Placed(o, j), P) /\ m.past \subseteq P \cup {l.id : l \in Placed(o, j)}
          BY <3>4
        <4>2. PICK n \in S : m = WithPast(n, P)
          BY <3>3, <4>1 DEF Upon
        <4> QED BY <3>2, <3>5, <4>1, <4>2 DEF Upon
      <3> QED BY <3>6, <3>7
    <2>5. T # {} /\ o[j + 1] = Least(T) /\ T \subseteq S
      <3>1. \A i \in 1..N : Nexts(S, o, i - 1) # {} /\ o[i] = Least(Nexts(S, o, i - 1))
        BY DEF IsOrder
      <3>2. T \subseteq S
        BY DEF Nexts
      <3> HIDE DEF T
      <3>3. Nexts(S, o, j + 1 - 1) = T
        BY <2>2 DEF T
      <3> QED BY <2>2, <3>1, <3>2, <3>3
    <2>6. q[p + (j + 1)] = Least(Nexts(E, q, p + j))
      BY <2>2 DEF IsOrder
    <2> HIDE DEF T
    <2>7. q[p + (j + 1)] = WithPast(o[j + 1], P)
      BY <2>4, <2>5, <2>6, LeastAlike
    <2>8. Placed(q, p + (j + 1)) = Placed(q, p + j) \cup {q[p + (j + 1)]}
      BY <2>2, PlacedOn
    <2>9. Placed(o, j + 1) = Placed(o, j) \cup {o[j + 1]}
      BY PlacedOn
    <2>10. Upon(Placed(o, j + 1), P) = Upon(Placed(o, j), P) \cup {WithPast(o[j + 1], P)}
      BY <2>9 DEF Upon
    <2> QED BY <2>1, <2>7, <2>8, <2>10
  <1> HIDE DEF K
  <1>5. ASSUME NEW j \in 1..N PROVE q[p + j] = WithPast(o[j], P)
    <2>1. j \in K /\ j \in Nat
      BY <1>3, <1>4, CountUp
    <2> QED BY <2>1 DEF K
  <1> QED BY <1>5

\* An edit writes the same over what was covered, for nothing of that is left.
LEMMA EditAlike ==
  ASSUME NEW slots, IsSlots(slots), NEW n, NEW P, NEW e, \A s \in Slots : At(slots, s) \cap P = {}
  PROVE  WriteEdit(slots, WithPast(n, P), e) = WriteEdit(slots, n, e)
  <1> DEFINE m == WithPast(n, P)
  <1>1. m.id = n.id /\ m.past = n.past \cup P
    BY WithPastIs
  <1> HIDE DEF m
  <1>2. ASSUME NEW t, NEW v PROVE Overwrite(slots, m, t, v) = Overwrite(slots, n, t, v)
    <2>1. CASE t \in Slots
      <3>1. \A a \in slots[t] : a.at \notin P
        BY <2>1 DEF At
      <3>2. {a \in slots[t] : a.at # m.id /\ a.at \notin m.past} = {a \in slots[t] : a.at # n.id /\ a.at \notin n.past}
        BY <1>1, <3>1
      <3> QED BY <1>1, <3>2 DEF Overwrite
    <2>2. CASE t \notin Slots
      <3>1. \A x : [slots EXCEPT ![t] = x] = slots
        BY <2>2 DEF IsSlots
      <3> QED BY <3>1 DEF Overwrite
    <2> QED BY <2>1, <2>2
  <1>3. WriteEdit(slots, m, e) = WriteEdit(slots, n, e)
    BY <1>2 DEF WriteEdit
  <1> QED BY <1>3 DEF m

\* So does a version.
LEMMA VersionAlike ==
  ASSUME NEW slots, IsSlots(slots), NEW n, HasEdits(n), NEW P, n.id \notin P,
         \A s \in Slots : At(slots, s) \cap P = {}
  PROVE  WriteVersion(slots, WithPast(n, P)) = WriteVersion(slots, n)
  <1> DEFINE m == WithPast(n, P)
             edits == n.op.edits
             N == Len(edits)
  <1>1. /\ m.id = n.id /\ m.past = n.past \cup P /\ m.op = n.op
        /\ (IsCheckpoint(m) <=> IsCheckpoint(n)) /\ State(m) = State(n)
    BY WithPastIs
  <1>2. CASE IsCheckpoint(n)
    <2> HIDE DEF m
    <2>1. \A s \in Slots : {a \in slots[s] : a.at \notin m.past} = {a \in slots[s] : a.at \notin n.past}
      BY <1>1 DEF At
    <2>2. WriteState(slots, m) = WriteState(slots, n)
      BY <1>1, <2>1 DEF WriteState
    <2> QED BY <1>1, <1>2, <2>2 DEF WriteVersion, m
  <1>3. CASE ~IsCheckpoint(n)
    <2>1. N \in Nat /\ m.op.edits = edits
      BY <1>1, LenProperties DEF HasEdits
    <2>2. PICK u : EditsWritten(slots, n, u) /\ WriteEdits(slots, n) = u[N]
      BY <2>1, EditsAre
    <2>3. PICK v : EditsWritten(slots, m, v) /\ WriteEdits(slots, m) = v[N]
      BY <2>1, EditsAre
    <2> DEFINE Alike(k) == IsSlots(u[k]) /\ v[k] = u[k] /\ \A s \in Slots : At(u[k], s) \cap P = {}
               K == {k \in Nat : k <= N => Alike(k)}
    <2> HIDE DEF N, edits, m
    <2>4. 0 \in K
      BY <2>2, <2>3 DEF EditsWritten
    <2>5. ASSUME NEW k \in Nat, k \in K PROVE k + 1 \in K
      <3> SUFFICES ASSUME k + 1 <= N PROVE Alike(k + 1)
        <4> HIDE DEF Alike
        <4> QED OBVIOUS
      <3>1. k + 1 \in 1..N /\ k + 1 - 1 = k /\ k <= N
        BY <2>1
      <3>2. PICK x, e : x = u[k] /\ e = edits[k + 1]
        OBVIOUS
      <3>3. IsSlots(x) /\ v[k] = x /\ \A s \in Slots : At(x, s) \cap P = {}
        BY <2>5, <3>1, <3>2
      <3>4. u[k + 1] = WriteEdit(x, n, e)
        <4>1. u[k + 1] = WriteEdit(u[k], n, edits[k + 1])
          BY <2>2, <3>1 DEF EditsWritten, N, edits
        <4> QED BY <3>2, <4>1
      <3>5. v[k + 1] = WriteEdit(x, m, e)
        <4>1. v[k + 1] = WriteEdit(v[k], m, m.op.edits[k + 1])
          BY <2>1, <2>3, <3>1 DEF EditsWritten, N
        <4> QED BY <2>1, <3>2, <3>3, <4>1
      <3>6. v[k + 1] = u[k + 1]
        BY <3>3, <3>4, <3>5, EditAlike DEF m
      <3>7. IsSlots(u[k + 1])
        BY <3>3, <3>4, EditAt
      <3>8. ASSUME NEW s \in Slots PROVE At(u[k + 1], s) \cap P = {}
        <4>1. At(WriteEdit(x, n, e), s) = IF Writing(e, s) THEN (At(x, s) \ (n.past \cup {n.id})) \cup {n.id} ELSE At(x, s)
          BY <3>3, EditAt
        <4>2. At(x, s) \cap P = {}
          BY <3>3
        <4> QED BY <3>4, <4>1, <4>2
      <3> QED BY <3>6, <3>7, <3>8
    <2> HIDE DEF K
    <2>6. N \in K
      BY <2>1, <2>4, <2>5, CountUp
    <2>7. v[N] = u[N]
      BY <2>1, <2>6 DEF K
    <2>8. WriteEdits(slots, m) = WriteEdits(slots, n)
      BY <2>2, <2>3, <2>7
    <2> QED BY <1>1, <1>3, <2>8 DEF WriteVersion, m
  <1> QED BY <1>2, <1>3

\* The checkpoint is the first a device has that began at it.
LEMMA CheckpointFirst ==
  ASSUME NEW S, NEW E, NEW C, NEW P, NEW c, Replays(S, E, C, P, c),
         NEW N \in Nat, NEW o, IsOrder(S, N, o), N >= 1
  PROVE  o[1] = c
  <1>1. InLine(S, N, o)
    BY OrderIsSound DEF Replays
  <1>2. 1 \in 1..N
    OBVIOUS
  <1>3. o[1] \in S /\ o[1].past \subseteq {o[j].id : j \in 1..1 - 1}
    BY <1>1, <1>2 DEF InLine
  <1>4. {o[j].id : j \in 1..1 - 1} = {}
    OBVIOUS
  <1>5. o[1].past = {}
    BY <1>3, <1>4
  <1>6. \A n \in S : n # c => c.id \in n.past
    BY DEF Replays
  <1> QED BY <1>3, <1>5, <1>6

\* It clears what was covered, and from there on the slots are alike.
LEMMA SlotsAlike ==
  ASSUME NEW S, NEW E, NEW C, NEW P, NEW c, Replays(S, E, C, P, c),
         NEW N \in Nat, N >= 1, NEW o, IsOrder(S, N, o), NEW h, VersionsWritten(S, o, h),
         NEW p \in Nat, p = Cardinality(C), NEW q, IsOrder(E, p + N, q), NEW g, VersionsWritten(E, q, g)
  PROVE  g[p + N] = h[N]
  <1>1. \A j \in 1..N : q[p + j] = WithPast(o[j], P)
    BY OrderAlike
  <1>2. Placed(q, p) = C
    <2>1. p + N \in Nat /\ p <= p + N
      OBVIOUS
    <2> QED BY <2>1, CoveredFirst
  <1>3. InLine(S, N, o) /\ Len(o) = N /\ Len(q) = p + N
    BY OrderIsSound DEF Replays, IsOrder
  <1>4. Orderly(S) /\ Orderly(E) /\ (\A n \in S : HasEdits(n)) /\ (\A n \in E : HasEdits(n))
        /\ (\A n \in S : n.id \notin P) /\ c \in S /\ IsCheckpoint(c) /\ P = {m.id : m \in C}
    BY DEF Replays
  <1>5. \A k \in 0..N : /\ IsSlots(h[k])
                        /\ \A s \in Slots : At(h[k], s) = LatestIn(S, Placed(o, k), s)
    BY <1>4, SlotsAreLatest
  <1>6. IsSlots(g[p]) /\ \A s \in Slots : At(g[p], s) = LatestIn(E, C, s)
    <2>1. p + N \in Nat /\ p \in 0..p + N
      OBVIOUS
    <2>2. \A k \in 0..p + N : /\ IsSlots(g[k])
                              /\ \A s \in Slots : At(g[k], s) = LatestIn(E, Placed(q, k), s)
      BY <1>4, <2>1, SlotsAreLatest
    <2> QED BY <1>2, <2>1, <2>2
  <1>7. ASSUME NEW k \in 0..N, NEW s \in Slots PROVE At(h[k], s) \cap P = {}
    <2>1. At(h[k], s) \subseteq {m.id : m \in Placed(o, k)}
      BY <1>5 DEF LatestIn
    <2>2. Placed(o, k) \subseteq S
      BY <1>3 DEF InLine, Placed
    <2> QED BY <1>4, <2>1, <2>2
  <1>8. ASSUME NEW j \in 1..N
        PROVE  /\ o[j] \in S
               /\ h[j] = IF NotCountedIn(S, o[j]) THEN h[j - 1] ELSE WriteVersion(h[j - 1], o[j])
               /\ g[p + j] = IF NotCountedIn(S, o[j]) THEN g[p + j - 1]
                             ELSE WriteVersion(g[p + j - 1], WithPast(o[j], P))
    <2>1. o[j] \in S
      BY <1>3 DEF InLine
    <2>2. h[j] = IF NotCountedIn(S, o[j]) THEN h[j - 1] ELSE WriteVersion(h[j - 1], o[j])
      BY <1>3 DEF VersionsWritten
    <2>3. PICK k : k = p + j
      OBVIOUS
    <2>4. k \in 1..p + N /\ p + j - 1 = k - 1
      BY <2>3
    <2>5. g[k] = IF NotCountedIn(E, q[k]) THEN g[k - 1] ELSE WriteVersion(g[k - 1], q[k])
      BY <1>3, <2>4 DEF VersionsWritten
    <2>6. q[k] = WithPast(o[j], P)
      BY <1>1, <2>3
    <2>7. NotCountedIn(E, WithPast(o[j], P)) <=> NotCountedIn(S, o[j])
      BY <2>1, CountsAlike
    <2> QED BY <2>1, <2>2, <2>3, <2>4, <2>5, <2>6, <2>7
  <1> DEFINE K == {j \in Nat : j >= 1 /\ j <= N => g[p + j] = h[j]}
  <1>9. 1 \in K
    <2>1. o[1] = c
      BY CheckpointFirst
    <2>2. 1 \in 1..N /\ 1 - 1 = 0 /\ p + 1 - 1 = p
      OBVIOUS
    <2>3. ~NotCountedIn(S, c)
      <3>1. Writes(c) = {}
        BY <1>4, CheckpointWritesNone
      <3> QED BY <3>1 DEF NotCountedIn
    <2>4. h[1] = WriteVersion(h[0], c) /\ g[p + 1] = WriteVersion(g[p], WithPast(c, P))
      <3>1. /\ h[1] = IF NotCountedIn(S, o[1]) THEN h[1 - 1] ELSE WriteVersion(h[1 - 1], o[1])
            /\ g[p + 1] = IF NotCountedIn(S, o[1]) THEN g[p + 1 - 1]
                          ELSE WriteVersion(g[p + 1 - 1], WithPast(o[1], P))
        BY <1>8, <2>2
      <3> QED BY <2>1, <2>2, <2>3, <3>1
    <2> DEFINE cc == WithPast(c, P)
               whole == State(c).slots
               New(s) == IF s \in DOMAIN whole THEN {[at |-> c.id, value |-> whole[s]]} ELSE {}
    <2>5. cc.id = c.id /\ cc.past = c.past \cup P /\ IsCheckpoint(cc) /\ State(cc) = State(c)
      BY <1>4, WithPastIs
    <2>6. h[0] = [s \in Slots |-> {}]
      BY DEF VersionsWritten
    <2>7. ASSUME NEW s \in Slots PROVE {a \in g[p][s] : a.at \notin cc.past} = {}
      <3>1. At(g[p], s) \subseteq P
        BY <1>4, <1>6 DEF LatestIn
      <3> QED BY <2>5, <3>1 DEF At
    <2> HIDE DEF cc
    <2>8. WriteVersion(g[p], cc) = [s \in Slots |-> {a \in g[p][s] : a.at \notin cc.past} \cup New(s)]
      BY <2>5 DEF WriteVersion, WriteState
    <2>9. WriteVersion(h[0], c) = [s \in Slots |-> {a \in h[0][s] : a.at \notin c.past} \cup New(s)]
      BY <1>4 DEF WriteVersion, WriteState
    <2> HIDE DEF New
    <2>10. WriteVersion(g[p], cc) = WriteVersion(h[0], c)
      <3>1. ASSUME NEW s \in Slots
            PROVE  {a \in g[p][s] : a.at \notin cc.past} \cup New(s) =
                   {a \in h[0][s] : a.at \notin c.past} \cup New(s)
        <4>1. {a \in h[0][s] : a.at \notin c.past} = {}
          BY <2>6
        <4> QED BY <2>7, <4>1
      <3> QED BY <2>8, <2>9, <3>1
    <2> QED BY <2>4, <2>10 DEF cc
  <1>10. ASSUME NEW j \in Nat \ {0}, j \in K PROVE j + 1 \in K
    <2> SUFFICES ASSUME j + 1 <= N PROVE g[p + (j + 1)] = h[j + 1]
      OBVIOUS
    <2>1. j + 1 \in 1..N /\ j + 1 - 1 = j /\ p + (j + 1) - 1 = p + j /\ j \in 0..N /\ j >= 1 /\ j <= N
      OBVIOUS
    <2>2. g[p + j] = h[j]
      BY <1>10, <2>1
    <2>3. PICK x, n : x = h[j] /\ n = o[j + 1]
      OBVIOUS
    <2>4. n \in S /\ h[j + 1] = (IF NotCountedIn(S, n) THEN x ELSE WriteVersion(x, n))
          /\ g[p + (j + 1)] = (IF NotCountedIn(S, n) THEN x ELSE WriteVersion(x, WithPast(n, P)))
      <3>1. /\ o[j + 1] \in S
            /\ h[j + 1] = IF NotCountedIn(S, o[j + 1]) THEN h[j + 1 - 1] ELSE WriteVersion(h[j + 1 - 1], o[j + 1])
            /\ g[p + (j + 1)] = IF NotCountedIn(S, o[j + 1]) THEN g[p + (j + 1) - 1]
                                ELSE WriteVersion(g[p + (j + 1) - 1], WithPast(o[j + 1], P))
        BY <1>8, <2>1
      <3> QED BY <2>1, <2>2, <2>3, <3>1
    <2>5. IsSlots(x) /\ \A s \in Slots : At(x, s) \cap P = {}
      BY <1>5, <1>7, <2>1, <2>3
    <2>6. HasEdits(n) /\ n.id \notin P
      BY <1>4, <2>4
    <2>7. WriteVersion(x, WithPast(n, P)) = WriteVersion(x, n)
      BY <2>5, <2>6, VersionAlike
    <2> QED BY <2>4, <2>7
  <1>11. 0 \in K
    OBVIOUS
  <1> HIDE DEF K
  <1>12. \A j \in Nat : j \in K => j + 1 \in K
    <2> TAKE j \in Nat
    <2>1. CASE j = 0
      BY <1>9, <2>1
    <2>2. CASE j # 0
      BY <1>10, <2>2
    <2> QED BY <2>1, <2>2
  <1>13. N \in K
    BY <1>11, <1>12, CountUp
  <1> QED BY <1>13 DEF K

\* A device that began at the checkpoint shows what one shows that replayed its past.
LEMMA AlternativesAlike ==
  ASSUME NEW S, NEW E, NEW C, NEW P, NEW c, Replays(S, E, C, P, c)
  PROVE  AlternativesOf(E) = AlternativesOf(S)
  <1>1. PICK p, N, M : p = Cardinality(C) /\ N = Cardinality(S) /\ M = Cardinality(E)
    OBVIOUS
  <1>2. p \in Nat /\ N \in Nat /\ M \in Nat /\ M = p + N
    BY <1>1, ReplaysCard
  <1>3. Orderly(S) /\ Orderly(E) /\ c \in S
    BY DEF Replays
  <1>4. N >= 1
    <2>1. N # 0
      BY <1>1, <1>3, FS_EmptySet DEF Orderly
    <2> QED BY <1>2, <2>1
  <1>5. IsOrder(S, N, OrderOf(S)) /\ IsOrder(E, p + N, OrderOf(E))
    BY <1>1, <1>2, <1>3, OrderOfAll
  <1>6. Len(OrderOf(S)) = N /\ Len(OrderOf(E)) = p + N
    BY <1>5 DEF IsOrder
  <1>7. PICK h : VersionsWritten(S, OrderOf(S), h) /\ AlternativesOf(S) = h[N]
    BY <1>2, <1>6, AlternativesAre
  <1>8. PICK g : VersionsWritten(E, OrderOf(E), g) /\ AlternativesOf(E) = g[p + N]
    <2>1. p + N \in Nat
      BY <1>2
    <2> QED BY <1>6, <2>1, AlternativesAre
  <1>9. g[p + N] = h[N]
    BY <1>1, <1>2, <1>4, <1>5, <1>7, <1>8, SlotsAlike
  <1> QED BY <1>7, <1>8, <1>9

\* What a writer and a late device applied, as it was made.
LEMMA AppliedAsMade ==
  ASSUME RuleInv, HistoryInv, NEW d \in Holder, NEW n \in ToSet(nodes[d])
  PROVE  /\ n.id \in DOMAIN made /\ n.id \notin Covered(d)
         /\ n = [id |-> n.id, past |-> made[n.id].past \ Covered(d), op |-> made[n.id].op]
         /\ n.past = made[n.id].past \ Covered(d) /\ n.op = made[n.id].op
  <1>1. /\ n.id \in DOMAIN made \ Covered(d)
        /\ n = [id |-> n.id, past |-> made[n.id].past \ Covered(d), op |-> made[n.id].op]
    BY DEF HistoryInv, HasHistory
  <1>2. n.past = made[n.id].past \ Covered(d) /\ n.op = made[n.id].op
    BY <1>1
  <1> QED BY <1>1, <1>2

LEMMA AppliedInFull ==
  ASSUME RuleInv, HistoryInv, NEW d \in Holder, Covered(d) = {}, NEW n \in ToSet(nodes[d])
  PROVE  /\ n.id \in DOMAIN made /\ n.past = made[n.id].past
         /\ n = [id |-> n.id, past |-> made[n.id].past, op |-> made[n.id].op]
  <1>1. /\ n.id \in DOMAIN made /\ n.past = made[n.id].past \ Covered(d)
        /\ n = [id |-> n.id, past |-> made[n.id].past \ Covered(d), op |-> made[n.id].op]
    BY AppliedAsMade
  <1>2. made[n.id].past \ Covered(d) = made[n.id].past
    OBVIOUS
  <1> QED BY <1>1, <1>2

LEMMA SameIdsSameSet ==
  ASSUME RuleInv, HistoryInv, NEW d \in Holder, Covered(d) = {}, NEW e \in Holder, Covered(e) = {},
         Ids(nodes[d]) = Ids(nodes[e])
  PROVE  ToSet(nodes[d]) \subseteq ToSet(nodes[e])
  <1> SUFFICES ASSUME NEW n \in ToSet(nodes[d]) PROVE n \in ToSet(nodes[e])
    OBVIOUS
  <1>1. PICK m \in ToSet(nodes[e]) : m.id = n.id
    BY DEF Ids
  <1>2. n = [id |-> n.id, past |-> made[n.id].past, op |-> made[n.id].op]
    BY AppliedInFull
  <1>3. m = [id |-> m.id, past |-> made[m.id].past, op |-> made[m.id].op]
    BY AppliedInFull
  <1> QED BY <1>1, <1>2, <1>3

\* A writer that holds all a late device knows replayed what is covered.
LEMMA BeganReplays ==
  ASSUME RuleInv, HistoryInv, NEW d \in Late, NEW e \in Writer, Replayed(d, e), covered[d] # {},
         \A k \in 2..Len(nodes[d]) : nodes[d][1].id \in nodes[d][k].past
  PROVE  Replays(ToSet(nodes[d]), ToSet(nodes[e]), {n \in ToSet(nodes[e]) : n.id \in covered[d]},
                 covered[d], nodes[d][1])
  <1> DEFINE S == ToSet(nodes[d])
             E == ToSet(nodes[e])
             P == covered[d]
             C == {n \in E : n.id \in P}
             c == nodes[d][1]
  <1>1. d \in Holder /\ e \in Holder /\ Covered(d) = P /\ Covered(e) = {}
    BY WriterAssumption DEF Holder, Covered
  <1>2. nodes[d] # <<>> /\ P = made[c.id].past /\ IsCheckpoint(made[c.id])
    BY DEF HistoryInv, Began
  <1>3. nodes[d] \in Seq(S) /\ Len(nodes[d]) \in Nat /\ DOMAIN nodes[d] = 1..Len(nodes[d])
    BY <1>1, LenProperties DEF RuleInv, Listed, IsList
  <1>4. c \in S
    <2>1. Len(nodes[d]) # 0
      BY <1>2, <1>3, EmptySeq
    <2> QED BY <1>3, <2>1 DEF ToSet
  <1>5. \A n \in S : n.id \in DOMAIN made /\ n.id \notin P /\ n.past = made[n.id].past \ P /\ n.op = made[n.id].op
    BY <1>1, AppliedAsMade
  <1>6. \A m \in E : m.id \in DOMAIN made /\ m = [id |-> m.id, past |-> made[m.id].past, op |-> made[m.id].op]
                     /\ m.past = made[m.id].past
    BY <1>1, AppliedInFull
  <1>7. {m.id : m \in E} = {n.id : n \in S} \cup P
    BY DEF Replayed, Known, Ids
  <1>8. Orderly(S) /\ Orderly(E) /\ \A n \in S \cup E : HasEdits(n)
    <2>1. Orderly(S) /\ \A n \in S : HasEdits(n)
      BY <1>1, HistoryIsOrderly
    <2>2. Orderly(E) /\ \A n \in E : HasEdits(n)
      BY <1>1, HistoryIsOrderly
    <2> QED BY <2>1, <2>2
  <1>9. IsCheckpoint(c) /\ c.past = {}
    BY <1>2, <1>4, <1>5 DEF IsCheckpoint
  <1>10. ASSUME NEW n \in S, n # c PROVE c.id \in n.past
    <2>1. PICK k \in 1..Len(nodes[d]) : n = nodes[d][k]
      BY <1>3 DEF ToSet
    <2>2. k \in 2..Len(nodes[d])
      BY <1>3, <1>10, <2>1
    <2> QED BY <2>1, <2>2
  <1> HIDE DEF S, E, P, c
  <1>11. ASSUME NEW n \in S PROVE n.past \cup P = made[n.id].past
    <2>1. CASE n = c
      BY <1>2, <1>9, <2>1
    <2>2. CASE n # c
      <3>1. c.id \in made[n.id].past
        BY <1>5, <1>10, <2>2
      <3>2. P \subseteq made[n.id].past
        BY <1>2, <1>5, <3>1 DEF HistoryInv, MadeSound
      <3> QED BY <1>5, <3>2
    <2> QED BY <2>1, <2>2
  <1>12. ASSUME NEW n \in S, NEW m \in E, m.id = n.id PROVE m = WithPast(n, P)
    BY <1>5, <1>6, <1>11, <1>12 DEF WithPast
  <1>13. E \subseteq C \cup {WithPast(n, P) : n \in S}
    <2> SUFFICES ASSUME NEW m \in E, m \notin C PROVE \E n \in S : m = WithPast(n, P)
      OBVIOUS
    <2>1. PICK n \in S : m.id = n.id
      BY <1>7
    <2> QED BY <1>12, <2>1
  <1>14. ASSUME NEW n \in S PROVE WithPast(n, P) \in E
    <2>1. PICK m \in E : m.id = n.id
      BY <1>7
    <2> QED BY <1>12, <2>1
  <1>15. E = C \cup {WithPast(n, P) : n \in S}
    <2>1. C \subseteq E /\ {WithPast(n, P) : n \in S} \subseteq E
      BY <1>14
    <2> QED BY <1>13, <2>1
  <1>16. P = {m.id : m \in C}
    <2>1. \A i \in P : \E m \in E : i = m.id
      BY <1>7
    <2> QED BY <2>1
  <1>17. ASSUME NEW m \in C PROVE m.past \subseteq P
    <2>1. m \in E /\ m.id \in P
      OBVIOUS
    <2> QED BY <1>2, <1>4, <1>5, <1>6, <2>1 DEF HistoryInv, MadeSound
  <1>18. \A n \in S : n.id \notin P /\ n.past \cap P = {} /\ (n # c => c.id \in n.past)
    BY <1>5, <1>10
  <1> HIDE DEF C
  <1>19. Replays(S, E, C, P, c)
    BY <1>4, <1>8, <1>9, <1>15, <1>16, <1>17, <1>18 DEF Replays
  <1> QED BY <1>19 DEF S, E, C, P, c

\* The heads are those of what was applied: what was covered is behind the checkpoint.
LEMMA HeadsAlike ==
  ASSUME NEW ns, NEW ms, NEW C, NEW P, NEW c, Replays(ToSet(ns), ToSet(ms), C, P, c)
  PROVE  Heads(ms) = Heads(ns)
  <1> DEFINE S == ToSet(ns)
             E == ToSet(ms)
             past == UNION {n.past : n \in S}
  <1>1. /\ E = C \cup {WithPast(n, P) : n \in S} /\ P = {m.id : m \in C} /\ \A m \in C : m.past \subseteq P
        /\ \A n \in S : n.id \notin P /\ n.past \cap P = {}
    BY DEF Replays
  <1>2. c \in S
    BY DEF Replays
  <1>3. \A n : WithPast(n, P).id = n.id /\ WithPast(n, P).past = n.past \cup P
    BY WithPastIs
  <1> HIDE DEF S, E
  <1>4. {m.id : m \in E} = P \cup {n.id : n \in S}
    <2>1. {m.id : m \in {WithPast(n, P) : n \in S}} = {n.id : n \in S}
      BY <1>3
    <2> HIDE DEF past
    <2>2. {m.id : m \in E} = {m.id : m \in C} \cup {m.id : m \in {WithPast(n, P) : n \in S}}
      BY <1>1
    <2> QED BY <1>1, <2>1, <2>2
  <1>5. UNION {m.past : m \in E} = P \cup past
    <2>1. ASSUME NEW i \in P \cup past PROVE i \in UNION {m.past : m \in E}
      <3>1. CASE i \in P
        <4>1. WithPast(c, P) \in E /\ i \in WithPast(c, P).past
          BY <1>1, <1>2, <1>3, <3>1
        <4> QED BY <4>1
      <3>2. CASE i \in past
        <4>1. PICK n \in S : i \in n.past
          BY <3>2
        <4>2. WithPast(n, P) \in E /\ i \in WithPast(n, P).past
          BY <1>1, <1>3, <4>1
        <4> QED BY <4>2
      <3> QED BY <3>1, <3>2
    <2>2. ASSUME NEW m \in E PROVE m.past \subseteq P \cup past
      <3>1. CASE m \in C
        BY <1>1, <3>1
      <3>2. ASSUME NEW n \in S, m = WithPast(n, P) PROVE m.past \subseteq P \cup past
        <4>1. m.past = n.past \cup P /\ n.past \subseteq past
          BY <1>3, <3>2
        <4> QED BY <4>1
      <3> QED BY <1>1, <3>1, <3>2
    <2> QED BY <2>1, <2>2
  <1>6. {n.id : n \in S} \cap P = {}
    BY <1>1
  <1>7. {m.id : m \in E} \ UNION {m.past : m \in E} = {n.id : n \in S} \ past
    <2> HIDE DEF past
    <2> QED BY <1>4, <1>5, <1>6
  <1> QED BY <1>7 DEF Heads, Ids, S, E

\* The element is the same then.
LEMMA LateShowsAlike == RuleInv /\ HistoryInv => LateAlikeInLine
  <1> SUFFICES ASSUME RuleInv, HistoryInv, NEW d \in Late, NEW e \in Writer, Replayed(d, e),
                      \A k \in 2..Len(nodes[d]) : nodes[d][1].id \in nodes[d][k].past
               PROVE  Merged(nodes[d]) = Merged(nodes[e])
    BY DEF LateAlikeInLine
  <1>1. CASE covered[d] = {}
    <2>1. d \in Holder /\ e \in Holder /\ Covered(d) = {} /\ Covered(e) = {}
      BY <1>1, WriterAssumption DEF Holder, Covered
    <2>2. Ids(nodes[d]) = Ids(nodes[e])
      BY <1>1 DEF Replayed, Known
    <2>3. ToSet(nodes[d]) \subseteq ToSet(nodes[e])
      BY <2>1, <2>2, SameIdsSameSet
    <2>4. ToSet(nodes[d]) = ToSet(nodes[e])
      BY <2>1, <2>2, <2>3, SameIdsSameSet
    <2> QED BY <2>4, SameSetSameElement
  <1>2. CASE covered[d] # {}
    <2> DEFINE ns == nodes[d]
               ms == nodes[e]
               C == {n \in ToSet(ms) : n.id \in covered[d]}
               P == covered[d]
               c == ns[1]
    <2>1. Replays(ToSet(ns), ToSet(ms), C, P, c)
      BY <1>2, BeganReplays
    <2> HIDE DEF C, P, c
    <2>2. Alternatives(ms) = Alternatives(ns)
      BY <2>1, AlternativesAlike, AlternativesOfSet
    <2>3. \A x : LocksInForce(x) = InForceIn(ToSet(x))
      BY DEF LocksInForce, InForceIn, Locks, LocksOf, Lifted, LiftedIn
    <2>4. LocksInForce(ms) = LocksInForce(ns)
      BY <2>1, <2>3, InForceAlike
    <2>5. Heads(ms) = Heads(ns)
      BY <2>1, HeadsAlike
    <2> QED BY <2>2, <2>4, <2>5 DEF Merged
  <1> QED BY <1>1, <1>2

\* element, began at a checkpoint: what a device shows is what counts, no more and no less.  A slot
\* shows the counting versions that wrote it and that none replaced; a device that began at a
\* checkpoint nothing was written beside shows what one does that replayed its past.
THEOREM WhatCountsIsShown == ElementSpec => []ShownSound
  <1>1. RuleInv /\ HistoryInv => ShownSound
    BY LatestAreShown, LateShowsAlike DEF ShownSound
  <1> QED BY <1>1, HistoryAlways, PTL
============================================================================
