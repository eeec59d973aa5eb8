------------------------------ MODULE CaseWorld ------------------------------
(***************************************************************************)
(* The world a conformance case runs in (crates/ndn-data-conformance/src/  *)
(* world.rs, the kit of cases/mod.rs, runner.rs): a case is a straight     *)
(* line of verbs, waits and assertions, while the devices' data layers     *)
(* sync packets to one another in any order.                               *)
(*                                                                         *)
(* The data layer itself is not in this repository.  It is modelled from   *)
(* what the cases ask of it: logs of signed packets, members records whose *)
(* removals win over concurrent additions and keep what their signer held, *)
(* folders, seals, groups of versions, and the trust contexts the provider *)
(* signs (module TrustContexts has those in detail).  A case's packets are *)
(* known by the names it gives their ids; a field's value is the packet    *)
(* that set it.                                                            *)
(***************************************************************************)
EXTENDS Integers, Sequences, FiniteSets, TLC, CasePlans

VARIABLES
    case, pc, verdict,  \* the case that runs, its next step, and its CaseResult::status
    up,        \* devices whose link to the hub is up
    run,       \* devices whose data layer runs
    forgotten, \* packets the caches on the way were made to drop
    pk,        \* the packets signed so far, by the case's name for them
    got,       \* device -> packets its store holds
    ctx,       \* the namespace's trust-context versions: [anchor, cut]
    ctxAt,     \* device -> the version it holds
    certs,     \* device key -> its certificates: [by, valid]
    suspects,  \* keys the root device's layer takes nothing new of
    saved      \* what the case remembers of an earlier step: sets of packets, by a name for them

script == <<case, pc, verdict>>
net == <<up, run, forgotten>>
store == <<pk, got>>
trust == <<ctx, ctxAt, certs, suspects>>
worldVars == <<script, net, store, trust, saved>>

Mine == DOMAIN got

\* Every device belongs to the person it is named for, but Alice's own ones; her guest's and a
\* thief's node sign under her namespace too.
OfAlice == {"laptop", "phone", "tablet", "desktop", "repo", "intruder", "guest", "thief"}
PersonOf(d) == IF d \in OfAlice THEN "alice" ELSE IF d = "copy" THEN "bob" ELSE d
KeyOf(d) == CASE d = "thief" -> "phone" [] d = "copy" -> "bob" [] OTHER -> d
Thieves == {"thief", "copy"}

\* Plan::program: a program older than the element rule, and one whose check refuses nothing.
Standard == {<<"b1", "carol">>}
Lax == {<<"b2", "bob">>}
Holders == {<<"g1", "repo">>}
KnowsRule(d) == <<case, d>> \notin Standard

\* The folder a collection is under.
Folders == [treasury |-> "club", oldList |-> "club", minutes |-> "club", clubNotes |-> "club",
            todo |-> "club", doing |-> "club", spare |-> "club",
            days |-> "trip", costs |-> "trip", plan |-> "trip", budget |-> "trip", later |-> "trip",
            x |-> "xs", y |-> "ys", a |-> "board", b |-> "board", c |-> "board",
            n1 |-> "notebook", n2 |-> "notebook", n3 |-> "notebook",
            column1 |-> "board", column2 |-> "board", column3 |-> "board",
            r1 |-> "recipesByOne", r2 |-> "recipesByOne", s1 |-> "recipes", s2 |-> "recipes"]
FolderOf(c) == IF c \in DOMAIN Folders THEN Folders[c] ELSE c
Scopes(c) == {c, FolderOf(c)}
Under(c) == {c} \cup {x \in DOMAIN Folders : Folders[x] = c}

\* World::build: the fabric is up and every device but a thief's node runs its layer.
InitWorld(c) ==
    /\ case = c /\ pc = 0 /\ verdict = "runs"
    /\ up = Plan[c] /\ run = Plan[c] \ Thieves /\ forgotten = {}
    /\ pk = <<>> /\ got = [d \in Plan[c] |-> {}]
    /\ ctx = <<[anchor |-> 1, cut |-> <<>>]>>
    /\ ctxAt = [d \in Plan[c] |-> 1]
    /\ certs = [d \in Plan[c] \ Thieves |-> <<[by |-> 1, valid |-> TRUE]>>]
    /\ suspects = {} /\ saved = <<>>

-----------------------------------------------------------------------------
(* What a data layer holds, counts and shows.                               *)

Records(d, c) == {l \in got[d] : pk[l].kind = "record" /\ pk[l].coll = c}
Known(d, c) == \E s \in Scopes(c) : Records(d, s) # {}
Versions(d, c) == {l \in got[d] : pk[l].kind = "version" /\ pk[l].coll = c}

\* The records of R that took someone out of what an earlier one listed, and who is listed
\* still: a removal yields only to a later record that lists them again.  A record that lists
\* nobody leaves that to the folder's.
Listing(R, of) == {r \in R : of[r] # {}}
Removals(R, who, of) ==
    {x \in Listing(R, of) : who \notin of[x] /\ \E r \in R \cap pk[x].past : who \in of[r]}
Listed(R, of) ==
    {who \in UNION {of[r] : r \in R} :
        \E r \in R : who \in of[r] /\ Removals(R, who, of) \subseteq pk[r].past}
Writers(R) == [r \in R |-> pk[r].writers]
Readers(R) == [r \in R |-> pk[r].readers]

\* The records a device holds of one scope admit a version: a record of them listed its writer,
\* or took over and kept it; every removal of the writer keeps it, inside the removal's cut or
\* signed after a record that listed the writer again; and none wanted it sealed.
ScopeAdmits(R, l) ==
    LET of == Writers(R)
        who == {PersonOf(pk[l].key), pk[l].key}
        again(x, w) == \E r \in R \cap pk[l].past : w \in of[r] /\ x \in pk[r].past
    IN /\ Listing(R, of) # {} =>
              \E w \in who :
                  /\ \E r \in Listing(R, of) : w \in of[r] \/ l \in pk[r].cut
                  /\ \A x \in Removals(R, w, of) : l \in pk[x].cut \/ again(x, w)
       /\ pk[l].to = {} => \A x \in Listing(R, Readers(R)) : l \in pk[x].cut
Admitted(d, l) == Known(d, pk[l].coll) /\ \A s \in Scopes(pk[l].coll) : ScopeAdmits(Records(d, s), l)

\* A packet's key chains to the anchor of the context the device holds, and a key that context
\* revokes, or a guest's that lapsed, counts inside its cut only.
Trusted(d, l) ==
    LET v == ctx[ctxAt[d]]
        k == pk[l].key
        chained == {i \in DOMAIN certs[k] : certs[k][i].by = v.anchor}
    IN /\ chained # {}
       /\ k \in DOMAIN v.cut => l \in v.cut[k]
       /\ k = "guest" /\ k \notin DOMAIN v.cut => \E i \in chained : certs[k][i].valid

\* The rule's check: what an operation is made over is in its past.
RuleRefuses(d, l) == pk[l].basis \ pk[l].past # {} /\ <<case, d>> \notin Lax

\* A version that sets what another writer's lock, in its past, still holds is not counted.
Locked(d, l) ==
    \E k \in pk[l].past \cap got[d] :
        /\ pk[k].locks \cap pk[l].sets # {} /\ pk[k].key # pk[l].key
        /\ ~\E u \in got[d] : k \in pk[u].past /\ pk[u].unlocks \cap pk[k].locks # {}

\* The versions of a group count together or not at all: one refused, or a second packet of its
\* key at the seq of one, refuses the group; one not held yet leaves it undecided.
SameSeq(l, m) == l # m /\ pk[l].key = pk[m].key /\ pk[l].seq = pk[m].seq
GroupRefused(d, l) ==
    \E m \in pk[l].group \cap got[d] :
        \/ ~Admitted(d, m) \/ ~Trusted(d, m)
        \/ \E o \in got[d] : SameSeq(o, m)
Undecided(d, l) == ~(pk[l].group \subseteq got[d]) /\ ~GroupRefused(d, l)

\* The versions a device's state of a collection is merged from, and those of them it can open,
\* which a watch lists and the state shows.
Counted(d, c) ==
    {l \in Versions(d, c) :
        /\ KnowsRule(d) /\ Admitted(d, l) /\ Trusted(d, l) /\ ~RuleRefuses(d, l) /\ ~Locked(d, l)
        /\ ~GroupRefused(d, l)
        /\ \A m \in pk[l].past \cup {l} : m \in got[d] /\ ~Undecided(d, m)}
Opens(d, l) == pk[l].to = {} \/ ({PersonOf(d), d} \cap pk[l].to # {} /\ KeyOf(d) \notin pk[l].barred)
Look(d, c) == {l \in Counted(d, c) : Opens(d, l)}

SameId(l, m) == pk[l].key = pk[m].key /\ pk[l].seq = pk[m].seq /\ pk[l].coll = pk[m].coll

\* has, agree and field of the kit: a state includes an id whoever's bytes carry it.
Has(d, l) == l \in DOMAIN pk /\ \E m \in Counted(d, pk[l].coll) : SameId(l, m)
HasAll(d, ls) == \A l \in ls : Has(d, l)
Agree(ds, c, ls) ==
    /\ \A d \in ds : Known(d, c) /\ HasAll(d, ls)
    /\ \A d, e \in ds : Counted(d, c) = Counted(e, c) /\ Look(d, c) = Look(e, c)
Field(d, c, f) ==
    LET setting == {l \in Look(d, c) : f \in pk[l].sets}
    IN {l \in setting : \A m \in setting : l \notin pk[m].past}
NotCounted(d, c) == Versions(d, c) \ Counted(d, c)
Withdrawn(d, l) == l \in got[d] /\ l \notin Counted(d, pk[l].coll)
NoTheft(d, c) == \A l \in Counted(d, c) : pk[l].by \notin Thieves

\* prune: of one's own writes only.
PruneAnswer(d, ls) == IF \E l \in ls : pk[l].key # KeyOf(d) THEN "NotOwnWrites" ELSE "pruned"

-----------------------------------------------------------------------------
(* Steps of a case.                                                         *)

At(n) == verdict = "runs" /\ pc = n /\ pc' = n + 1 /\ UNCHANGED case
Quiet == UNCHANGED <<net, store, trust, saved>>

\* ensure!: a failed assertion ends the case.
Ensure(n, holds) ==
    /\ At(n) /\ verdict' = IF holds THEN "runs" ELSE "fail"
    /\ Quiet

\* The case's last assertion: Ok(()) after it.
Finally(n, holds) ==
    /\ At(n) /\ verdict' = IF holds THEN "pass" ELSE "fail"
    /\ Quiet

\* What d's layer can take of the log of key k: what its writer's device, a node with a copy of
\* its log, or a holder serves, and what caches on the way may still have.  The root device's
\* layer takes nothing new of a suspected key.
Serves(m, l) ==
    m \in up \cap run /\ l \in got[m] /\ (pk[l].by = m \/ <<case, m>> \in Holders \/ (m \in Thieves /\ pk[l].key = KeyOf(m)))
Cached == {l \in DOMAIN pk : \E m \in Mine \ (Thieves \cup {pk[l].by}) : l \in got[m]} \ forgotten
Wanted(d, k) ==
    IF d \in up \cap run /\ k # KeyOf(d) /\ ~(d = "laptop" /\ k \in suspects)
    THEN {l \in DOMAIN pk \ got[d] : pk[l].key = k} ELSE {}
Takeable(d, k) == {l \in Wanted(d, k) : \E m \in Mine : Serves(m, l)}

Takes(d, ls) ==
    /\ ls # {}
    /\ got' = [got EXCEPT ![d] = @ \cup ls]
    /\ UNCHANGED <<script, net, pk, trust, saved>>

\* The layers sync log by log, in any order; a cache may answer where no layer does.
Sync(d, k) == Takes(d, Takeable(d, k))
SyncFromCache(d, k) == Takeable(d, k) = {} /\ Takes(d, Wanted(d, k) \cap Cached)

\* Every layer has taken what it can reach.
Settled == \A d \in Mine, k \in DOMAIN certs : Takeable(d, k) = {}

\* LIMIT, how long devices that can reach each other get to agree.  Assumption: it outlasts every
\* delivery, so it is over only once nothing is left to take.
LimitOver == Settled

\* World::until and converge, drain_until: polls until the check holds; at the limit the case
\* fails, and is over.
Waits(n, holds) == At(n) /\ (holds \/ LimitOver) /\ verdict' = IF holds THEN "runs" ELSE "fail"
Until(n, holds) == Waits(n, holds) /\ Quiet

\* World::sleep(SETTLE): long enough for every layer to have taken what it can reach.
Settle(n) == At(n) /\ Settled /\ UNCHANGED verdict /\ Quiet

\* Net::offline and online: the device's link to the hub.  Net::forget_cached.
Offline(n, ds) ==
    /\ At(n) /\ up' = up \ ds
    /\ UNCHANGED <<verdict, run, forgotten, store, trust, saved>>
Online(n, ds) ==
    /\ At(n) /\ up' = up \cup ds
    /\ UNCHANGED <<verdict, run, forgotten, store, trust, saved>>
ForgetCached(n, ls) ==
    /\ At(n) /\ forgotten' = forgotten \cup ls
    /\ UNCHANGED <<verdict, up, run, store, trust, saved>>

\* Packets enter the log of d's key, in order, from the next seq its own store shows on.
Plain == [writers |-> {}, readers |-> {}, cut |-> {}, sets |-> {}, to |-> {}, barred |-> {},
          group |-> {}, basis |-> {}, locks |-> {}, unlocks |-> {}]
SignAll(d, names, packets) ==
    LET own == {pk[m].seq : m \in {m \in got[d] : pk[m].key = KeyOf(d)}}
        signed == [i \in DOMAIN names |->
                     packets[i] @@ [key |-> KeyOf(d), by |-> d, seq |-> Cardinality(own) + i] @@ Plain]
        new == {names[i] : i \in DOMAIN names}
    IN /\ pk' = [m \in new |-> signed[CHOOSE i \in DOMAIN names : names[i] = m]] @@ pk
       /\ got' = [got EXCEPT ![d] = @ \cup new]

\* A share within a folder may narrow what the folder's records list, never widen it.
Widens(d, c, writers, readers) ==
    LET R == Records(d, FolderOf(c))
        beyond(what, of) == Listing(R, of) # {} /\ ~(what \subseteq Listed(R, of))
    IN FolderOf(c) # c /\ (beyond(writers, Writers(R)) \/ beyond(readers, Readers(R)))

\* share and share_folder: a members record, which keeps what its signer counts of every writer
\* it takes out.
Share(n, d, c, l, writers, readers) ==
    /\ At(n)
    /\ SignAll(d, <<l>>, <<[kind |-> "record", coll |-> c, writers |-> writers, readers |-> readers,
                            past |-> Records(d, c), cut |-> UNION {Counted(d, x) : x \in Under(c)},
                            to |-> readers]>>)
    /\ verdict' = IF Widens(d, c, writers, readers) THEN "fail" ELSE "runs"
    /\ UNCHANGED <<net, trust, saved>>

\* Who a version is sealed to: the readers the signer's records of the collection and of its
\* folder list, and in a group's place (Audience::Group) those its records of that group do.
Collections == {pk[m].coll : m \in DOMAIN pk}
ReadersIn(d, s) ==
    LET ReadersOf(c) == Listed(Records(d, c), Readers(Records(d, c)))
    IN UNION {IF x \in Collections /\ Known(d, x) THEN ReadersOf(x) ELSE {x} : x \in ReadersOf(s)}
Audience(d, c) ==
    LET sealing == {s \in Scopes(c) : ReadersIn(d, s) # {}}
    IN {x \in UNION {ReadersIn(d, s) : s \in sealing} : \A s \in sealing : x \in ReadersIn(d, s)}

\* put: the layer waits until it knows the collection (a case's own wait for that is part of
\* it), that it may write there, and the groups it is to seal to; a wait that reaches its limit
\* fails the case.
MayPut(d, c) ==
    /\ KnowsRule(d) /\ Known(d, c)
    /\ \A s \in Scopes(c) :
           LET R == Records(d, s)
           IN /\ Listing(R, Writers(R)) # {} => {PersonOf(d), KeyOf(d)} \cap Listed(R, Writers(R)) # {}
              /\ \A x \in Listed(R, Readers(R)) \cap Collections : Known(d, x)
Version(d, c, packet) ==
    packet @@ [kind |-> "version", coll |-> c, to |-> Audience(d, c), barred |-> DOMAIN ctx[ctxAt[d]].cut,
               past |-> Counted(d, c) \cup UNION {Records(d, s) : s \in Scopes(c)}]
PutAs(n, d, c, l, packet) ==
    /\ Waits(n, MayPut(d, c))
    /\ SignAll(d, <<l>>, <<Version(d, c, packet)>>)
    /\ UNCHANGED <<net, trust, saved>>
Put(n, d, c, l, fields) == PutAs(n, d, c, l, [sets |-> fields])

\* Shares, or puts, in a loop over collections: nothing answers them before the case's next wait,
\* so they are one step.
ShareAll(n, d, cs, names, writers, readers) ==
    /\ At(n)
    /\ SignAll(d, names, [i \in DOMAIN cs |->
           [kind |-> "record", coll |-> cs[i], writers |-> writers, readers |-> readers,
            past |-> Records(d, cs[i]), cut |-> Counted(d, cs[i]), to |-> readers]])
    /\ UNCHANGED <<verdict, net, trust, saved>>
MayPutAll(d, cs) == \A i \in DOMAIN cs : MayPut(d, cs[i])
PutAll(n, d, cs, names, fields) ==
    /\ Waits(n, MayPutAll(d, cs))
    /\ SignAll(d, names, [i \in DOMAIN cs |-> Version(d, cs[i], [sets |-> fields])])
    /\ UNCHANGED <<net, trust, saved>>

\* A put a case lets fail: a layer that refuses it leaves the others nothing to refuse, so the
\* one here signs it.
TryPut(n, d, c, l, fields) ==
    /\ At(n)
    /\ SignAll(d, <<l>>, <<Version(d, c, [sets |-> fields])>>)
    /\ UNCHANGED <<verdict, net, trust, saved>>

\* put_group: only collections of one folder with the same readers.
Groupable(d, cs) ==
    \A c, e \in cs : FolderOf(c) = FolderOf(e) /\ Audience(d, c) = Audience(d, e)
PutGroup(n, d, names, cs, fields) ==
    LET group == {names[i] : i \in DOMAIN names}
    IN /\ At(n) /\ (MayPutAll(d, cs) \/ LimitOver)
       /\ verdict' = IF MayPutAll(d, cs) /\ Groupable(d, {cs[i] : i \in DOMAIN cs}) THEN "runs" ELSE "fail"
       /\ SignAll(d, names, [i \in DOMAIN names |-> Version(d, cs[i], [sets |-> fields, group |-> group])])
       /\ UNCHANGED <<net, trust, saved>>

\* World::lose: what d stored of these packets is gone.
Lose(n, d, ls) ==
    /\ At(n) /\ verdict' = IF ls \subseteq got[d] THEN "runs" ELSE "fail"
    /\ got' = [got EXCEPT ![d] = @ \ ls]
    /\ UNCHANGED <<net, pk, trust, saved>>

\* The case keeps something of the state for a later step.
Save(n, as, what) ==
    /\ At(n) /\ saved' = as :> what @@ saved
    /\ UNCHANGED <<verdict, net, store, trust>>

-----------------------------------------------------------------------------
(* Keys over time: the verbs of the provider (TrustContexts has them whole). *)

Newest == ctx[Len(ctx)]
Publish(by, version) ==
    /\ ctx' = Append(ctx, version)
    /\ ctxAt' = [ctxAt EXCEPT ![by] = Len(ctx) + 1]

\* steal: the thief's node runs with the victim's key and a copy of what its device stores.
Steal(n, thief) ==
    /\ At(n)
    /\ run' = run \cup {thief}
    /\ got' = [got EXCEPT ![thief] = got[KeyOf(thief)]]
    /\ UNCHANGED <<verdict, up, forgotten, pk, trust, saved>>

\* loss_time: what the root device has verified by now is what a cut keeps.
LossTime(n) == Save(n, "loss", {l \in got["laptop"] : Trusted("laptop", l)})

\* revoke_at: the cut is what the root device first verified before the loss; the case is told
\* what of the key the root device holds beside it.
RevokeAt(n, by, key) ==
    LET cut == {l \in saved["loss"] : pk[l].key = key}
    IN /\ At(n) /\ Publish(by, [Newest EXCEPT !.cut = key :> cut @@ @])
       /\ saved' = "leftOut" :> {l \in got[by] : pk[l].key = key} \ cut @@ saved
       /\ UNCHANGED <<verdict, net, store, certs, suspects>>

SpreadAllOnline(n) ==
    /\ At(n)
    /\ ctxAt' = [d \in Mine |-> IF d \in Thieves \/ d \notin up THEN ctxAt[d] ELSE Len(ctx)]
    /\ UNCHANGED <<verdict, net, store, ctx, certs, suspects, saved>>

\* spread_all: every device but a thief's follows the versions to the newest, its link up or not.
SpreadAll(n) ==
    /\ At(n)
    /\ ctxAt' = [d \in Mine |-> IF d \in Thieves THEN ctxAt[d] ELSE Len(ctx)]
    /\ UNCHANGED <<verdict, net, store, ctx, certs, suspects, saved>>

\* readmit and readmit_name: the cut gains one packet a device holds refused.
Readmit(n, by, from, l) ==
    /\ At(n)
    /\ verdict' = IF l \in got[from] /\ ~Trusted(from, l) THEN "runs" ELSE "fail"
    /\ Publish(by, [Newest EXCEPT !.cut[pk[l].key] = @ \cup {l}])
    /\ UNCHANGED <<net, store, certs, suspects, saved>>

Suspect(n, key) ==
    /\ At(n) /\ suspects' = suspects \cup {key}
    /\ UNCHANGED <<verdict, net, store, ctx, ctxAt, certs, saved>>

Renew(n, key) ==
    /\ At(n) /\ certs' = [certs EXCEPT ![key] = Append(@, [by |-> Newest.anchor, valid |-> TRUE])]
    /\ UNCHANGED <<verdict, net, store, ctx, ctxAt, suspects, saved>>

\* expire: all of a key's certificates, or those a renewal superseded, run out.
Expire(n, key, which) ==
    /\ At(n)
    /\ certs' = [certs EXCEPT ![key] = [i \in DOMAIN @ |->
                    IF which = "all" \/ i < Len(@) THEN [@[i] EXCEPT !.valid = FALSE] ELSE @[i]]]
    /\ saved' = "lapsed" :> {l \in got["laptop"] : pk[l].key = key /\ Trusted("laptop", l)} @@ saved
    /\ UNCHANGED <<verdict, net, store, ctx, ctxAt, suspects>>

\* end_keys: a guest's key whose certificates all ran out is revoked, cut at the lapse.
EndKeys(n, by) ==
    /\ At(n)
    /\ verdict' = IF \A i \in DOMAIN certs["guest"] : ~certs["guest"][i].valid THEN "runs" ELSE "fail"
    /\ Publish(by, [Newest EXCEPT !.cut = "guest" :> saved["lapsed"] @@ @])
    /\ UNCHANGED <<net, store, certs, suspects, saved>>

\* recover: a new root is the only anchor; every key with a cut is certified by it again.
Recover(n, by) ==
    LET new == Newest.anchor + 1
    IN /\ At(n) /\ Publish(by, [Newest EXCEPT !.anchor = new])
       /\ certs' = [k \in DOMAIN certs |-> IF k \in DOMAIN Newest.cut
                        THEN Append(certs[k], [by |-> new, valid |-> TRUE]) ELSE certs[k]]
       /\ UNCHANGED <<verdict, net, store, suspects, saved>>

Stop(n, d) ==
    /\ At(n) /\ run' = run \ {d}
    /\ UNCHANGED <<verdict, up, forgotten, store, trust, saved>>
Restart(n, d) ==
    /\ At(n) /\ run' = run \cup {d}
    /\ UNCHANGED <<verdict, up, forgotten, store, trust, saved>>
=============================================================================
