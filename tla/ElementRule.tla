------------------------------ MODULE ElementRule ------------------------------
(***************************************************************************)
(* The conformance cases' own merge rule:                                  *)
(* crates/ndn-data-conformance/src/element.rs (Element, Applied).          *)
(*                                                                         *)
(* A collection is one element.  Its writers make operations over what     *)
(* they hold; every device applies the versions that reach it, each after  *)
(* its past, and computes the element from the versions it applied.  A     *)
(* late reader may begin at a checkpoint, without the checkpoint's past.   *)
(* How versions travel is the store's; here they arrive in any such order, *)
(* and again.                                                              *)
(***************************************************************************)
EXTENDS Naturals, Sequences, FiniteSets, SequencesExt

CONSTANTS
    Writer,      \* devices that write, numbered in the order of their keys' names
    Late,        \* devices that read only, and begin at a checkpoint
    Lenient,       \* writers with the faulty copy of the rule
    Settings,    \* names of settings
    Operations,  \* what a writer puts besides checkpoints: sequences of edits
    MaxOps       \* bound on versions put

ASSUME WriterAssumption == Writer \subseteq Nat /\ Lenient \subseteq Writer /\ Late \cap Writer = {}
ASSUME OperationsAssumption ==
    Operations # {} /\ \A edits \in Operations : edits \in Seq(ToSet(edits))

VARIABLES
    made,      \* version id <<writer, seq>> -> [past, op]
    nodes,     \* device -> the versions it applied, in order of arrival: [id, past]
    covered,   \* late device -> the past of the checkpoint it began at
    reported,  \* device -> versions answered NotCounted and not yet reported counting
    said,      \* history: device -> version -> the latest answer of apply
    named      \* history: device -> version -> how often now_counted named it

elementVars == <<made, nodes, covered, reported, said, named>>

Holder == Writer \cup Late

Slots == {"kind", "place", "removed"} \cup Settings

NoVersions == [i \in {} |-> 0]

Noted(f, i, x) == [j \in DOMAIN f \cup {i} |-> IF j = i THEN x ELSE f[j]]

ElementInit ==
    /\ made = NoVersions
    /\ nodes = [d \in Holder |-> <<>>]
    /\ covered = [d \in Late |-> {}]
    /\ reported = [d \in Holder |-> {}]
    /\ said = [d \in Holder |-> NoVersions]
    /\ named = [d \in Holder |-> NoVersions]

-----------------------------------------------------------------------------
(* Edits and operations.                                                   *)

Create(kind) == [do |-> "create", slot |-> "kind", value |-> kind]
Set(s, text) == [do |-> "set", slot |-> s, value |-> text]
Change(s, splice) == [do |-> "change", slot |-> s, value |-> splice]
Place(where) == [do |-> "place", slot |-> "place", value |-> where]
Removed == [do |-> "remove", slot |-> "removed", value |-> "removed"]
Lock(s) == [do |-> "lock", slot |-> s]
Unlock(s) == [do |-> "unlock", slot |-> s]
Checkpoint(state) == [do |-> "checkpoint", state |-> state]

Edits(n) == ToSet(n.op.edits)
IsCheckpoint(n) == Len(n.op.edits) = 1 /\ n.op.edits[1].do = "checkpoint"
State(n) == n.op.edits[1].state

\* The settings a version sets or changes.
Writes(n) == {e.slot : e \in {f \in Edits(n) : f.do \in {"set", "change"}}}

\* base with the splice applied; offsets past the end clamp to it.
Spliced(base, splice) ==
    LET at == IF splice.at < Len(base) THEN splice.at ELSE Len(base)
        end == IF at + splice.remove < Len(base) THEN at + splice.remove ELSE Len(base)
    IN SubSeq(base, 1, at) \o splice.insert \o SubSeq(base, end + 1, Len(base))

-----------------------------------------------------------------------------
(* What a device computes from the versions it applied, ns: locks, what    *)
(* does not count, the order, the merged value.                            *)

Ids(ns) == {n.id : n \in ToSet(ns)}

\* The settings an operation locks and does not unlock again.
Taken(edits) ==
    {edits[k].slot : k \in {j \in DOMAIN edits :
        /\ edits[j].do = "lock"
        /\ \A m \in j + 1..Len(edits) : edits[m] # Unlock(edits[j].slot)}}

Held(n) == IF IsCheckpoint(n) THEN State(n).locks
           ELSE {[setting |-> s, by |-> n.id[1]] : s \in Taken(n.op.edits)}

Locks(ns) == UNION {{[lock |-> l, at |-> n.id] : l \in Held(n)} : n \in ToSet(ns)}

\* Lifted by an unlock of its holder made over it, or by a checkpoint made over it that drops it.
Lifted(ns, l) ==
    \E n \in ToSet(ns) :
        /\ l.at \in n.past
        /\ IF IsCheckpoint(n) THEN l.lock \notin State(n).locks
           ELSE n.id[1] = l.lock.by /\ Unlock(l.lock.setting) \in Edits(n)

\* A version that writes a setting another writer locked in its past, by a lock still in force.
NotCounted(ns, n) ==
    \E l \in Locks(ns) :
        /\ l.lock.by # n.id[1] /\ l.at \in n.past
        /\ l.lock.setting \in Writes(n)
        /\ ~Lifted(ns, l)

Before(i, j) == i[1] < j[1] \/ (i[1] = j[1] /\ i[2] < j[2])

\* Fault: as they arrived.
OrderOfArrival(ns) == ns

\* The versions whose past is in order already.
Ready(ns, order) == {n \in ToSet(ns) \ ToSet(order) : n.past \subseteq Ids(order)}

\* Each after its past, ties by id, until none is left.
Order(ns) ==
    LET after[k \in 0..Cardinality(ToSet(ns))] ==
            IF k = 0 THEN <<>>
            ELSE LET order == after[k - 1]
                     ready == Ready(ns, order)
                 IN Append(order, CHOOSE n \in ready : \A m \in ready \ {n} : Before(n.id, m.id))
    IN after[Cardinality(ToSet(ns))]

\* The alternative the state shows: the first writer's (one writer's versions are never concurrent).
First(alternatives) ==
    CHOOSE a \in alternatives : \A b \in alternatives : a.at[1] <= b.at[1]

\* What a version writes replaces what its past wrote there.
Overwrite(slots, n, s, v) ==
    [slots EXCEPT ![s] = {a \in @ : a.at # n.id /\ a.at \notin n.past} \cup {[at |-> n.id, value |-> v]}]

WriteEdit(slots, n, e) ==
    CASE e.do \in {"create", "set", "place", "remove"} -> Overwrite(slots, n, e.slot, e.value)
      [] e.do = "change" ->
            LET base == IF slots[e.slot] = {} THEN <<>> ELSE First(slots[e.slot]).value
            IN Overwrite(slots, n, e.slot, Spliced(base, e.value))
      [] OTHER -> slots

\* Fault: a checkpoint only writes the slots it has, and clears none.
WriteStateOnly(slots, n) ==
    LET whole == State(n).slots
    IN [s \in Slots |-> IF s \in DOMAIN whole
                        THEN {a \in slots[s] : a.at \notin n.past} \cup {[at |-> n.id, value |-> whole[s]]}
                        ELSE slots[s]]

WriteState(slots, n) ==
    LET whole == State(n).slots
    IN [s \in Slots |-> {a \in slots[s] : a.at \notin n.past} \cup
            (IF s \in DOMAIN whole THEN {[at |-> n.id, value |-> whole[s]]} ELSE {})]

WriteEdits(slots, n) ==
    LET after[k \in 0..Len(n.op.edits)] ==
            IF k = 0 THEN slots ELSE WriteEdit(after[k - 1], n, n.op.edits[k])
    IN after[Len(n.op.edits)]

WriteVersion(slots, n) == IF IsCheckpoint(n) THEN WriteState(slots, n) ELSE WriteEdits(slots, n)

\* What the slots hold after the versions that count were written in their order.
Alternatives(ns) ==
    LET order == Order(ns)
        after[k \in 0..Len(order)] ==
            IF k = 0 THEN [s \in Slots |-> {}]
            ELSE IF NotCounted(ns, order[k]) THEN after[k - 1] ELSE WriteVersion(after[k - 1], order[k])
    IN after[Len(order)]

LocksInForce(ns) == {l.lock : l \in {k \in Locks(ns) : ~Lifted(ns, k)}}
Heads(ns) == Ids(ns) \ UNION {n.past : n \in ToSet(ns)}

\* ElementValue: what the slots show and the locks in force, the variants, the heads.
Merged(ns) ==
    LET slots == Alternatives(ns)
    IN [state |-> [slots |-> [s \in {t \in Slots : slots[t] # {}} |-> First(slots[s]).value],
                   locks |-> LocksInForce(ns)],
        variants |-> [s \in {t \in Slots : Cardinality(slots[t]) > 1} |-> slots[s]],
        heads |-> Heads(ns)]
Shown(ns) == Merged(ns).state

-----------------------------------------------------------------------------
(* check, apply and now_counted.                                           *)

\* The strict rule's check.
Check(i, v) ==
    /\ v.op.writer = i[1]
    /\ v.op.basis \subseteq v.past
    /\ v.op.edits # <<>>
    /\ (\E e \in ToSet(v.op.edits) : e.do = "checkpoint") => Len(v.op.edits) = 1

\* Fault: whatever was reported, as soon as anything is applied after it.
NowCountedAll(ns, rep) == rep \ {ns[Len(ns)].id}

\* now_counted, asked after every apply: the reported versions that count.
NowCounted(ns, rep) == {i \in rep : \E n \in ToSet(ns) : n.id = i /\ ~NotCounted(ns, n)}

\* Apply version i at device d; an applied version gets the same answer again.
Apply(d, i, v) ==
    LET n == [id |-> i, past |-> v.past \cap Ids(nodes[d]), op |-> v.op]
        ns == IF i \in Ids(nodes[d]) THEN nodes[d] ELSE Append(nodes[d], n)
        held == \E m \in ToSet(ns) : m.id = i /\ NotCounted(ns, m)
        rep == IF held THEN reported[d] \cup {i} ELSE reported[d]
        counting == NowCounted(ns, rep)
    IN /\ nodes' = [nodes EXCEPT ![d] = ns]
       /\ said' = [said EXCEPT ![d] = Noted(@, i, IF held THEN "not counted" ELSE "counted")]
       /\ reported' = [reported EXCEPT ![d] = rep \ counting]
       /\ named' = [named EXCEPT ![d] = [j \in Ids(ns) |->
            (IF j \in DOMAIN @ THEN @[j] ELSE 0) + (IF j \in counting THEN 1 ELSE 0)]]

-----------------------------------------------------------------------------
(* The devices.                                                            *)

\* w's next version, over everything it holds.
NextId(w) == <<w, 1 + Cardinality({i \in DOMAIN made : i[1] = w})>>

Put(w, claimed, basis, edits) ==
    LET v == [past |-> Ids(nodes[w]), op |-> [writer |-> claimed, basis |-> basis, edits |-> edits]]
    IN /\ Cardinality(DOMAIN made) < MaxOps
       /\ w \in Lenient \/ Check(NextId(w), v)
       /\ made' = Noted(made, NextId(w), v)
       /\ Apply(w, NextId(w), v)
       /\ UNCHANGED covered

PutOperation(w, edits) == Put(w, w, Heads(nodes[w]), edits)

\* The whole state as the writer sees it, keeping some of the locks in force.
PutCheckpoint(w) ==
    \E keep \in SUBSET LocksInForce(nodes[w]) :
        /\ nodes[w] # <<>>
        /\ Put(w, w, Heads(nodes[w]), <<Checkpoint([Shown(nodes[w]) EXCEPT !.locks = keep])>>)

\* What the strict rule refuses: another writer's name, a basis its writer did not hold, no edit,
\* a checkpoint that is not alone.
PutUnsound(w) ==
    LET edits == CHOOSE e \in Operations : TRUE
    IN /\ w \in Lenient
       /\ \/ \E other \in Writer \ {w} : Put(w, other, Heads(nodes[w]), edits)
          \/ \E i \in DOMAIN made \ Ids(nodes[w]) : Put(w, w, {i}, edits)
          \/ Put(w, w, Heads(nodes[w]), <<>>)
          \/ Put(w, w, Heads(nodes[w]), <<Checkpoint(Shown(nodes[w])), edits[1]>>)

Known(d) == Ids(nodes[d]) \cup (IF d \in Late THEN covered[d] ELSE {})

\* A version arrives after its past.  It may arrive again: that matters while it does not count.
Arrive(d, i) ==
    /\ i \in Ids(nodes[d]) => said[d][i] = "not counted"
    /\ d \in Late => nodes[d] # <<>>
    /\ made[i].past \subseteq Known(d) /\ (d \in Late => i \notin covered[d])
    /\ d \in Lenient \/ Check(i, made[i])
    /\ Apply(d, i, made[i])
    /\ UNCHANGED <<made, covered>>

\* A late reader begins at a checkpoint, or at the beginning.
Begin(d, i) ==
    /\ nodes[d] = <<>> /\ (IsCheckpoint(made[i]) \/ made[i].past = {})
    /\ Check(i, made[i])
    /\ covered' = [covered EXCEPT ![d] = made[i].past]
    /\ Apply(d, i, made[i])
    /\ UNCHANGED made

ElementNext ==
    \/ \E w \in Writer, edits \in Operations : PutOperation(w, edits)
    \/ \E w \in Writer : PutCheckpoint(w) \/ PutUnsound(w)
    \/ \E d \in Holder, i \in DOMAIN made : Arrive(d, i)
    \/ \E d \in Late, i \in DOMAIN made : Begin(d, i)

\* The rule alone.
ElementSpec == ElementInit /\ [][ElementNext]_elementVars

-----------------------------------------------------------------------------
(* Properties.                                                             *)

\* The same set of versions gives the same element on every device, in whatever order they came.
Converged ==
    \A d, e \in Writer :
        (d < e /\ Ids(nodes[d]) = Ids(nodes[e])) => Merged(nodes[d]) = Merged(nodes[e])

\* A version is counting at a device exactly when the device last answered so, or has since named
\* it as now counting, which it does at most once.
AnswersHold ==
    \A d \in Holder : \A n \in ToSet(nodes[d]) :
        /\ (said[d][n.id] = "counted" \/ named[d][n.id] = 1) <=> ~NotCounted(nodes[d], n)
        /\ named[d][n.id] <= 1

\* No counted write is lost and none outlives its replacement: a slot's alternatives are those of
\* the counting versions that wrote it and that no counting write or checkpoint is made over.
WritesSlot(n, s) ==
    IF IsCheckpoint(n) THEN s \in DOMAIN State(n).slots
    ELSE \E e \in Edits(n) : e.do \in {"create", "set", "change", "place", "remove"} /\ e.slot = s
AlternativesAreLatest ==
    \A d \in Holder :
        LET ns == nodes[d]
            counting == {n \in ToSet(ns) : ~NotCounted(ns, n)}
            Over(n, s) == \E m \in counting : n.id \in m.past /\ (IsCheckpoint(m) \/ WritesSlot(m, s))
            slots == Alternatives(ns)
        IN \A s \in Slots :
              {a.at : a \in slots[s]} = {n.id : n \in {m \in counting : WritesSlot(m, s) /\ ~Over(m, s)}}

\* A device that began at a checkpoint computes what one that replayed its past does...
Replayed(d, e) == Ids(nodes[e]) = Known(d)
LateAlike ==
    \A d \in Late, e \in Writer : Replayed(d, e) => Merged(nodes[d]) = Merged(nodes[e])

\* ...when nothing it holds was written beside the checkpoint.
LateAlikeInLine ==
    \A d \in Late, e \in Writer :
        (Replayed(d, e) /\ \A k \in 2..Len(nodes[d]) : nodes[d][1].id \in nodes[d][k].past)
            => Merged(nodes[d]) = Merged(nodes[e])

\* What a device shows is what counts, no more and no less, whether it replayed the history or
\* began at a checkpoint that nothing was written beside.
ShownSound == AlternativesAreLatest /\ LateAlikeInLine
=============================================================================
