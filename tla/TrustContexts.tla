---------------------------- MODULE TrustContexts ----------------------------
(***************************************************************************)
(* One person's namespace in a conformance case: its trust-context         *)
(* versions, its devices' certificates and their data layers, as the       *)
(* reference provider keeps them (crates/ndn-data-conformance/src/         *)
(* reference.rs, driven through world.rs).                                 *)
(*                                                                         *)
(* Cases call these operations one after the other, so each is one step;   *)
(* what the data layers write and take in between is modelled from how     *)
(* the provider uses them (Write, Take).  A log entry is [key, seq, by]:   *)
(* after a theft two packets may carry one name.                           *)
(***************************************************************************)
EXTENDS Integers, Sequences, FiniteSets

CONSTANTS
    Device,        \* the person's devices
    Root,          \* the root device: the only one that signs versions
    Victim,        \* the device that is stolen
    Guests,        \* devices whose data needs a cut once their certificates lapsed
    Writers,       \* devices whose layers write
    Thief,         \* the thief's node
    Stopped,       \* nodes whose layers are stopped and started again
    Skews,         \* the root device's clock minus the true one
    MaxVersions, MaxSeq, MaxTime, MaxCerts, MaxRuns, MaxKits   \* bounds

ASSUME TrustAssumption ==
    /\ Root \in Device /\ Victim \in Device \ {Root} /\ Guests \subseteq Device \ {Root}
    /\ Writers \subseteq Device \ {Root}
    /\ Thief \notin Device
    /\ Skews \subseteq Int
    /\ {MaxVersions, MaxSeq, MaxTime, MaxCerts, MaxRuns, MaxKits} \subseteq Nat
    /\ MaxVersions >= 1 /\ MaxTime >= 1

Node == Device \cup {Thief}
Never == -9
Entry == [key : Writers, seq : 1 .. MaxSeq, by : Writers \cup {Thief}]

VARIABLES
    now,           \* the fabric's true clock
    skew,          \* of the root device's clock
    root, kit,     \* Namespace::root, Namespace::kit (0: none)
    versions,      \* Namespace::versions: [signer, anchors, gone, revoked, cut]
    manifests,     \* Namespace::manifests: [version, key]
    held,          \* node -> version its keyring holds
    kept,          \* node -> manifest packets it keeps and serves
    certs,         \* device -> its certificates as handed out, oldest first: [issuer, valid]
    lapsed,        \* device -> when its certificates were let expire
    layer,         \* node -> [st, key, runs]
    seen,          \* node -> entries its store has
    firstAt,       \* entry -> when the root device's layer first verified it, by its own clock
    suspected,     \* keys the root device's layer takes nothing new of
    theft,         \* ghost: when the thief took the device
    lostAt,        \* ghost: key -> the bound of its cut, by the root device's clock
    readmitted     \* ghost: entries re-admitted

contexts == <<root, kit, versions, manifests, held, kept>>
layers == <<layer, seen, firstAt, suspected>>
ghosts == <<theft, lostAt, readmitted>>
vars == <<now, skew, contexts, certs, lapsed, layers, ghosts>>

ClockOf(n) == IF n = Root THEN now + skew ELSE now
Newest == versions[Len(versions)]
NoCut == [d \in Device |-> {}]
EntriesOf(d) == {e \in Entry : e.key = d}

\* prepare, then an attach for every device but the thief.
Init ==
    /\ now = 1 /\ skew \in Skews
    /\ root = 1 /\ kit = 0
    /\ versions = <<[signer |-> 1, anchors |-> {1}, gone |-> {}, revoked |-> {}, cut |-> NoCut]>>
    /\ manifests = {}
    /\ held = [n \in Node |-> 1] /\ kept = [n \in Node |-> {}]
    /\ certs = [d \in Device |-> <<[issuer |-> 1, valid |-> TRUE]>>]
    /\ lapsed = [d \in Device |-> Never]
    /\ layer = [n \in Node |-> IF n = Thief THEN [st |-> "none", key |-> Victim, runs |-> 0]
                               ELSE [st |-> "runs", key |-> n, runs |-> 1]]
    /\ seen = [n \in Node |-> {}]
    /\ firstAt = [e \in Entry |-> Never]
    /\ suspected = {}
    /\ theft = Never /\ lostAt = [d \in Device |-> Never] /\ readmitted = {}

-----------------------------------------------------------------------------
(* Trust-context versions.                                                  *)

\* ndn_cert::open_context_update: a node that holds version i of vs takes version i + 1 only
\* when one of the anchors it holds signed it.
Follows(vs, i) == vs[i + 1].signer \in vs[i].anchors

\* Provider::spread: node n follows the versions one at a time, as far as it can; at the newest
\* it keeps the manifests of every version it holds (keep_manifests).
SpreadOver(vs, ms, n) ==
    LET upto == CHOOSE j \in held[n] .. Len(vs) :
                    /\ \A i \in held[n] .. j - 1 : Follows(vs, i)
                    /\ j = Len(vs) \/ ~Follows(vs, j)
    IN /\ held' = [held EXCEPT ![n] = upto]
       /\ kept' = IF upto = Len(vs)
                  THEN [kept EXCEPT ![n] = @ \cup {m \in ms : m.version <= upto}] ELSE kept

\* World::spread_to: context sync reaches a node; the thief's adopts nothing.
Spread(n) ==
    /\ n \in Device /\ held[n] < Len(versions)
    /\ SpreadOver(versions, manifests, n)
    /\ UNCHANGED <<now, skew, root, kit, versions, manifests, certs, lapsed, layers, ghosts>>

Publish(new) ==
    /\ Len(versions) + Len(new) <= MaxVersions
    /\ versions' = versions \o new

\* Fault: everything the root device holds of the key is in its cut.
CutOfAll(d, before) == {e \in EntriesOf(d) : firstAt[e] # Never}

\* cut_of: what the root device first verified strictly before the bound, by its own clock.
CutOf(d, before) == {e \in EntriesOf(d) : firstAt[e] # Never /\ firstAt[e] < before}

\* sign_revocations: the next version revokes each key with its cut, bounded at before[key].
SignRevocations(keys, before) ==
    /\ keys # {} /\ keys \cap Newest.revoked = {}
    /\ Publish(<<[Newest EXCEPT !.signer = root, !.revoked = @ \cup keys,
                   !.cut = [d \in Device |-> IF d \in keys THEN CutOf(d, before[d]) ELSE @[d]]]>>)
    /\ manifests' = manifests \cup {[version |-> Len(versions'), key |-> d] : d \in keys}
    /\ SpreadOver(versions', manifests', Root)
    /\ lostAt' = [d \in Device |-> IF d \in keys THEN before[d] ELSE lostAt[d]]
    /\ UNCHANGED <<root, kit>>

\* revoke_at: the owner says d was lost at `lost`, by the root device's clock.
Revoke(d, lost) ==
    /\ lost <= ClockOf(Root)
    /\ SignRevocations({d}, [k \in Device |-> lost])
    /\ UNCHANGED <<now, skew, certs, lapsed, layers, theft, readmitted>>

\* ndn_cert::ending_keys: guests whose certificates have all lapsed, not revoked yet.
Ending == {d \in Guests : /\ \A i \in DOMAIN certs[d] : ~certs[d][i].valid
                          /\ d \notin versions[held[Root]].revoked}

\* Fault: the end of a key is not put on the root device's clock.
EndKeysUnskewed ==
    /\ \A d \in Ending : lapsed[d] # Never
    /\ SignRevocations(Ending, lapsed)
    /\ UNCHANGED <<now, skew, certs, lapsed, layers, theft, readmitted>>

\* end_keys: each is revoked with a cut at the moment its certificates lapsed.
EndKeys ==
    /\ \A d \in Ending : lapsed[d] # Never
    /\ SignRevocations(Ending, [d \in Device |-> lapsed[d] + skew])
    /\ UNCHANGED <<now, skew, certs, lapsed, layers, theft, readmitted>>

\* readmit and readmit_name: the cut of a revoked key gains exactly one packet, which a node
\* holds refused.
Readmit(from, e) ==
    /\ e \in seen[from] /\ e.key \in versions[held[from]].revoked
    /\ e \notin versions[held[from]].cut[e.key]
    /\ e.key \in Newest.revoked /\ e \notin Newest.cut[e.key]
    /\ Publish(<<[Newest EXCEPT !.signer = root, !.cut[e.key] = @ \cup {e}]>>)
    /\ SpreadOver(versions', manifests, Root)
    /\ readmitted' = readmitted \cup {e}
    /\ UNCHANGED <<now, skew, root, kit, manifests, certs, lapsed, layers, theft, lostAt>>

\* recovery_kit: a new kit's key becomes an anchor too.
RecoveryKit ==
    /\ kit > -MaxKits
    /\ kit' = kit - 1
    /\ Publish(<<[Newest EXCEPT !.signer = root, !.anchors = @ \cup {kit'}]>>)
    /\ SpreadOver(versions', manifests, Root)
    /\ UNCHANGED <<now, skew, root, manifests, certs, lapsed, layers, ghosts>>

\* ndn_cert::recovery_version: signed by the kit, with the new root its only anchor, the old
\* one revoked, every revocation and cut carried.
Recovered(new) ==
    [Newest EXCEPT !.signer = kit, !.anchors = {new}, !.gone = @ \cup {root}]

\* Fault: the new root signs at once.
RecoveryVersionsDirect(new) == <<[Recovered(new) EXCEPT !.signer = new]>>

\* The versions a recovery signs: one by the kit, the one after it by the new root.
RecoveryVersions(new) == <<Recovered(new), [Recovered(new) EXCEPT !.signer = new]>>

\* Fault: the keys in a cut are not certified again.
RecertifiedNone(new) == certs

\* ndn_cert::recertify_cut_keys: a certificate by the new root for every key revoked with a cut.
Recertified(new) ==
    [d \in Device |-> IF d \in Newest.revoked
                      THEN Append(certs[d], [issuer |-> new, valid |-> TRUE]) ELSE certs[d]]

\* recover: the root was compromised; the kit, which must still be an anchor, is used up.
Recover ==
    /\ kit \in Newest.anchors
    /\ root' = root + 1
    /\ Publish(RecoveryVersions(root'))
    /\ certs' = Recertified(root')
    /\ SpreadOver(versions', manifests, Root)
    /\ UNCHANGED <<now, skew, kit, manifests, lapsed, layers, ghosts>>

-----------------------------------------------------------------------------
(* Certificates.  hand_out puts one into every cache there is at once.      *)

Renew(d) ==
    /\ Len(certs[d]) < MaxCerts
    /\ certs' = [certs EXCEPT ![d] = Append(@, [issuer |-> root, valid |-> TRUE])]
    /\ UNCHANGED <<now, skew, contexts, lapsed, layers, ghosts>>

\* expire: all of a device's certificates, or those a renewal superseded, are re-issued under
\* their names, by their issuers, with a validity that is over.
Expire(d, which) ==
    LET last == IF which = "all" THEN Len(certs[d]) ELSE Len(certs[d]) - 1
    IN /\ last > 0
       /\ \E i \in 1 .. last : certs[d][i].valid
       /\ certs' = [certs EXCEPT ![d] = [i \in DOMAIN @ |-> IF i <= last THEN [@[i] EXCEPT !.valid = FALSE] ELSE @[i]]]
       /\ lapsed' = IF which = "all" THEN [lapsed EXCEPT ![d] = now] ELSE lapsed
       /\ UNCHANGED <<now, skew, contexts, layers, ghosts>>

-----------------------------------------------------------------------------
(* Data layers: start, stop, theft, and what they write and take.           *)

\* A node's validator accepts an entry: a certificate of its key chains to an anchor the node
\* holds, and a revoked key's entries, and those of a guest whose certificates lapsed, are in
\* its cut.
Accepts(n, e) ==
    LET v == versions[held[n]]
        mine == certs[e.key]
        chained == {i \in DOMAIN mine : mine[i].issuer \in v.anchors}
    IN /\ chained # {}
       /\ e.key \in v.revoked => e \in v.cut[e.key]
       /\ e.key \in Guests /\ (\A i \in chained : ~mine[i].valid) => e \in v.cut[e.key]

\* A layer writes the next entry of its key's log, as far as its own store shows it.
Write(n) ==
    LET k == layer[n].key
        s == Cardinality({q \in 1 .. MaxSeq : \E e \in seen[n] : e.key = k /\ e.seq = q}) + 1
        e == [key |-> k, seq |-> s, by |-> n]
    IN /\ layer[n].st = "runs" /\ k \in Writers /\ s <= MaxSeq
       /\ seen' = [seen EXCEPT ![n] = @ \cup {e}]
       /\ UNCHANGED <<now, skew, contexts, certs, lapsed, layer, firstAt, suspected, ghosts>>

\* A layer takes an entry another node serves: one its validator accepts, and keeps aside one
\* a revocation refuses.  The root device's takes nothing new of a suspected key.
Take(n, m, e) ==
    /\ n \in Device /\ layer[n].st = "runs" /\ layer[m].st = "runs"
    /\ e \in seen[m] \ seen[n]
    /\ ~(n = Root /\ e.key \in suspected)
    /\ Accepts(n, e) \/ e.key \in versions[held[n]].revoked
    /\ seen' = [seen EXCEPT ![n] = @ \cup {e}]
    /\ firstAt' = IF n = Root /\ Accepts(n, e) THEN [firstAt EXCEPT ![e] = ClockOf(Root)] ELSE firstAt
    /\ UNCHANGED <<now, skew, contexts, certs, lapsed, layer, suspected, ghosts>>

\* suspect: until the revocation is signed.
Suspect(d) ==
    /\ d \notin suspected /\ d \notin Newest.revoked
    /\ suspected' = suspected \cup {d}
    /\ UNCHANGED <<now, skew, contexts, certs, lapsed, layer, seen, firstAt, ghosts>>

\* steal: once; the victim's key and a copy of everything its device stores, stopped or not.
Steal ==
    /\ layer[Thief].st = "none"
    /\ layer' = [layer EXCEPT ![Thief] = [st |-> "runs", key |-> Victim, runs |-> 1]]
    /\ seen' = [seen EXCEPT ![Thief] = seen[Victim]]
    /\ theft' = now
    /\ UNCHANGED <<now, skew, contexts, certs, lapsed, firstAt, suspected, lostAt, readmitted>>

Stop(n) ==
    /\ n \in Stopped /\ layer[n].st = "runs" /\ layer[n].runs < MaxRuns
    /\ layer' = [layer EXCEPT ![n].st = "stopped"]
    /\ UNCHANGED <<now, skew, contexts, certs, lapsed, seen, firstAt, suspected, ghosts>>

\* restart: on what the node stored; the key is looked up by the name of the node's own device,
\* whatever key its layer signed with before.
Restart(n) ==
    /\ layer[n].st = "stopped"
    /\ layer' = [layer EXCEPT ![n] = [st |-> "runs", key |-> n, runs |-> @.runs + 1]]
    /\ UNCHANGED <<now, skew, contexts, certs, lapsed, seen, firstAt, suspected, ghosts>>

Tick ==
    /\ now < MaxTime
    /\ now' = now + 1
    /\ UNCHANGED <<skew, contexts, certs, lapsed, layers, ghosts>>

Next ==
    \/ \E n \in Node : Spread(n) \/ Write(n) \/ Stop(n) \/ Restart(n)
    \/ \E n, m \in Node, e \in Entry : Take(n, m, e)
    \/ \E d \in Device \ {Root} : \/ Suspect(d) \/ Renew(d)
                                \/ \E lost \in 1 .. MaxTime : Revoke(d, lost)
    \/ \E d \in Device \ {Root}, which \in {"all", "superseded"} : Expire(d, which)
    \/ \E n \in Device, e \in Entry : Readmit(n, e)
    \/ EndKeys \/ RecoveryKit \/ Recover \/ Steal \/ Tick

Spec == Init /\ [][Next]_vars

-----------------------------------------------------------------------------
Recoveries == {i \in DOMAIN versions : versions[i].signer < 0}

TypeOK ==
    /\ now \in 1 .. MaxTime /\ skew \in Skews /\ root \in Nat \ {0} /\ kit \in Int /\ kit <= 0
    /\ versions \in Seq([signer : Int, anchors : SUBSET Int, gone : SUBSET Int,
                         revoked : SUBSET Device, cut : [Device -> SUBSET Entry]])
    /\ Len(versions) \in 1 .. MaxVersions
    /\ manifests \subseteq [version : 1 .. Len(versions), key : Device]
    /\ held \in [Node -> 1 .. Len(versions)] /\ kept \in [Node -> SUBSET manifests]
    /\ certs \in [Device -> Seq([issuer : Nat, valid : BOOLEAN])]
    /\ seen \in [Node -> SUBSET Entry] /\ suspected \subseteq Device

\* However far behind a node is, it can follow to the newest version: every version is signed
\* by an anchor of the one before it, across recovery kits and recoveries too.
NoneLeftBehind == \A i \in 1 .. Len(versions) - 1 : Follows(versions, i)

\* A node that holds a revocation keeps the manifest packets that bind its cut to bytes.
CutsBound ==
    \A n \in Device : \A d \in versions[held[n]].revoked :
        \E m \in kept[n] : m.key = d /\ d \notin versions[m.version - 1].revoked

\* A node that was away for any length of time gets to the newest version, and can tell which
\* packets of a revoked key still count once it is there.
Followable == TypeOK /\ NoneLeftBehind /\ CutsBound

\* When the owner names a moment not after the theft, no entry the thief wrote is in the
\* stolen key's cut, in any version, unless it was re-admitted by name.
ThiefShutOut ==
    (theft # Never /\ Victim \in Newest.revoked /\ lostAt[Victim] <= theft + skew) =>
        \A i \in DOMAIN versions : \A e \in versions[i].cut[Victim] : e.by = Thief => e \in readmitted

\* A recovery refuses nothing a cut admits: each key revoked before it has a certificate that
\* chains to an anchor of every later version.
CutStillVerifies ==
    \A i \in Recoveries : \A d \in versions[i].revoked :
        \E c \in 1 .. Len(certs[d]) : certs[d][c].issuer \in Newest.anchors

\* A lapsed guest's cut is what the root device first verified before the true moment its
\* certificates lapsed, however its clock is set.
EndedAtLapse ==
    [][EndKeys => \A d \in Newest'.revoked \ Newest.revoked :
           Newest'.cut[d] = {e \in EntriesOf(d) : firstAt[e] # Never /\ firstAt[e] - skew < lapsed[d]}]_vars
=============================================================================
