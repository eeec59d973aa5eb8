----------------------------- MODULE CustodyWorld -----------------------------
(***************************************************************************)
(* The world of the custody and stream cases of ndn-data-conformance       *)
(* (world.rs and the custody and stream kits of cases/mod.rs): pieces of   *)
(* versions at devices, holders that lease and are audited, prunes, keeps  *)
(* and clocks, holders that lose, relay or doctor what they store.         *)
(*                                                                         *)
(* The data layer is modelled from what the cases ask of it.  A payload    *)
(* travels in pieces; a version is known by the case's name for it.        *)
(***************************************************************************)
EXTENDS Integers, Sequences, FiniteSets, FiniteSetsExt, TLC, CasePlans

VARIABLES
    case, pc, verdict,  \* the case that runs, its next step, and its CaseResult::status
    up,       \* devices whose link to the hub is up
    now,      \* days since the case began
    slow,     \* devices whose clock runs a day behind
    items,    \* the versions written: [by, pieces, keep, to, covers, merge, seq]
    knows,    \* device -> versions whose log entries it holds
    store,    \* device -> pieces it stores
    carried,  \* pieces the caches on the way have admitted
    heard,    \* device -> versions a prune it has taken covers
    leases,   \* holder -> its newest lease: [holds, until]
    asking,   \* the hold that runs: who asks, its holders, the end it asks for, those found broken
    told,     \* what the last hold answered: [kept, live, until, broken, unkept]
    missed,   \* audits that found nothing missing at a holder that lacked some of what it leased
    relays,   \* holders that answer audits by asking the network
    doctored, \* <<holder, version>>: it serves an altered copy
    follows,  \* devices that watch the collection
    saved     \* what the case remembers of an earlier step

script == <<case, pc, verdict>>
net == <<up, now, slow, carried>>
custody == <<leases, asking, told, missed>>
faults == <<relays, doctored>>

Mine == DOMAIN knows
HolderDevs == {"repo", "vault"}
Nobody == "nobody"
Forever == 1000
Year == 365
\* Audits draw random pieces: an audit may miss what a holder lacks, if that is a quarter, and no
\* Audits in a row do (the sample of the cases' data layer).
Audits == 3

InitCustody(c) ==
    /\ case = c /\ pc = 0 /\ verdict = "runs"
    /\ up = CustodyPlan[c] /\ now = 0 /\ slow = {} /\ carried = {}
    /\ items = <<>>
    /\ knows = [d \in CustodyPlan[c] |-> {}] /\ store = [d \in CustodyPlan[c] |-> {}]
    /\ heard = [d \in CustodyPlan[c] |-> {}]
    /\ leases = [h \in {} |-> {}]
    /\ asking = [by |-> Nobody, holders |-> {}, until |-> 0, broken |-> {}]
    /\ told = [kept |-> {}, live |-> {}, until |-> 0, broken |-> {}, unkept |-> {}] /\ missed = 0
    /\ relays = {} /\ doctored = {} /\ follows = {} /\ saved = <<>>

-----------------------------------------------------------------------------
Clock(d) == IF d \in slow THEN now - 1 ELSE now
Pieces(l) == {<<l, i>> : i \in 1..items[l].pieces}
Expired(d, l) == Clock(d) >= items[l].keep
Live(d, l) == ~Expired(d, l) /\ l \notin heard[d]
Whole(d, l) == Pieces(l) \subseteq store[d]
StoresNone(d, l) == Pieces(l) \cap store[d] = {}

\* The writer and the holders serve a version's pieces while they count it; caches serve what
\* they admitted.  A doctored copy is refused by every reader: its block's signature breaks.
Serves(m, p) ==
    /\ m \in up /\ p \in store[m] /\ Live(m, p[1]) /\ <<m, p[1]>> \notin doctored
    /\ m = items[p[1]].by \/ m \in HolderDevs
Reaches(d, p, silent) ==
    d \in up /\ (p \in carried \/ \E m \in Mine \ {d, silent} : Serves(m, p))
Readable(d, l) == Live(d, l) /\ \A p \in Pieces(l) : p \in store[d] \/ Reaches(d, p, d)

\* Versions another that is known covers (a checkpoint's past) need no pieces.
Covered(d, l) == \E c \in knows[d] : l \in items[c].covers

\* Whether h can answer for the pieces of l: from its store, or relayed from the network.
Answers(h, l, silent) ==
    \A p \in Pieces(l) : p \in store[h] \/ (h \in relays /\ Reaches(h, p, silent))

-----------------------------------------------------------------------------
(* What goes on in the background.                                          *)

Background == UNCHANGED <<script, up, now, slow, items, custody, faults, follows, saved>>

\* The log of writer w reaches d up to its head, from w or from a holder that has more of it.
LogOf(w, m) == {l \in knows[m] : items[l].by = w}
Learn(d, w) ==
    /\ d \in up
    /\ \E m \in up \cap ({w} \cup HolderDevs) :
         /\ ~(LogOf(w, m) \subseteq knows[d])
         /\ knows' = [knows EXCEPT ![d] = @ \cup LogOf(w, m)]
    /\ UNCHANGED <<store, heard, carried>> /\ Background

\* The hold that runs leaves a holder alone whose lease passed and covers what the owner counts.
CountedBy(d) == {l \in knows[d] : Live(d, l)}
LiveLease(d, h) == h \in DOMAIN leases /\ leases[h].until > Clock(d)
Stays(h) ==
    /\ LiveLease(asking.by, h) /\ h \notin asking.broken
    /\ CountedBy(asking.by) \subseteq leases[h].holds
Asked == {h \in asking.holders : ~Stays(h)}

\* What a device that follows, or is asked to hold, knows, lacks and reaches.
Fetchable(d, l) ==
    /\ d \in follows \cup Asked
    /\ l \in knows[d] /\ ~Whole(d, l)
    /\ d \in follows => ~Covered(d, l)
    /\ \A p \in Pieces(l) \ store[d] : Reaches(d, p, d)

\* Fault: it fetches again what its own clock or a prune made it drop.
WantsAgain(d, l) == Fetchable(d, l)

\* It fetches what it counts.
Wants(d, l) == Fetchable(d, l) /\ Live(d, l)

Fetch(d, l) ==
    /\ Wants(d, l)
    /\ store' = [store EXCEPT ![d] = @ \cup Pieces(l)]
    /\ carried' = carried \cup (Pieces(l) \ store[d])
    /\ UNCHANGED <<knows, heard>> /\ Background

\* Every device drops what its own clock says is past its keep.
DropExpired(d) ==
    /\ \E p \in store[d] : Expired(d, p[1])
    /\ store' = [store EXCEPT ![d] = {p \in @ : ~Expired(d, p[1])}]
    /\ UNCHANGED <<knows, heard, carried>> /\ Background

\* A prune spreads from the device that wrote it; who takes it drops the pieces.
Takes(d, ls) ==
    /\ heard' = [heard EXCEPT ![d] = @ \cup ls]
    /\ store' = [store EXCEPT ![d] = {p \in @ : p[1] \notin ls}]
HearPrune(d, l) ==
    /\ d \in up /\ l \in DOMAIN items /\ items[l].by \in up
    /\ l \in heard[items[l].by] \ heard[d]
    /\ Takes(d, {l})
    /\ UNCHANGED <<knows, carried>> /\ Background

-----------------------------------------------------------------------------
(* Steps of a case.                                                         *)

At(n) == verdict = "runs" /\ pc = n /\ pc' = n + 1 /\ UNCHANGED case
Data == <<items, knows, store, heard>>
Quiet == UNCHANGED <<net, Data, custody, faults, follows, saved>>
Ensure(n, holds) == At(n) /\ verdict' = (IF holds THEN "runs" ELSE "fail") /\ Quiet
Finally(n, holds) == At(n) /\ verdict' = (IF holds THEN "pass" ELSE "fail") /\ Quiet
Jump(n, to, when) == verdict = "runs" /\ pc = n /\ when /\ pc' = to /\ UNCHANGED <<case, verdict>> /\ Quiet

\* sleep(SETTLE): the background comes to rest.
AtRest ==
    \A d \in Mine :
        /\ ~ENABLED DropExpired(d) /\ \A w \in Mine : ~ENABLED Learn(d, w)
        /\ \A l \in DOMAIN items : ~Wants(d, l) /\ ~ENABLED HearPrune(d, l)
Settle(n) == At(n) /\ AtRest /\ UNCHANGED verdict /\ Quiet

\* World::until: polls until the check holds; at the limit the case fails.  Assumption: LIMIT
\* outlasts every delivery, so it is over only once the background is at rest.
LimitOver == AtRest
Waits(n, holds) == At(n) /\ (holds \/ LimitOver) /\ verdict' = IF holds THEN "runs" ELSE "fail"
Until(n, holds) == Waits(n, holds) /\ Quiet

Offline(n, ds) ==
    /\ At(n) /\ up' = up \ ds
    /\ UNCHANGED <<verdict, now, slow, carried, Data, custody, faults, follows, saved>>
Online(n, ds) ==
    /\ At(n) /\ up' = up \cup ds
    /\ UNCHANGED <<verdict, now, slow, carried, Data, custody, faults, follows, saved>>

ForgetCached(n, l) ==
    /\ At(n) /\ carried' = carried \ Pieces(l)
    /\ UNCHANGED <<verdict, up, now, slow, Data, custody, faults, follows, saved>>
SetClockBehind(n, d) ==
    /\ At(n) /\ slow' = slow \cup {d}
    /\ UNCHANGED <<verdict, up, now, carried, Data, custody, faults, follows, saved>>
\* World::skip and a long sleep.
Skip(n, days) ==
    /\ At(n) /\ now' = now + days
    /\ UNCHANGED <<verdict, up, slow, carried, Data, custody, faults, follows, saved>>
Follow(n, ds) ==
    /\ At(n) /\ follows' = follows \cup ds
    /\ UNCHANGED <<verdict, net, Data, custody, faults, saved>>
Save(n, as, what) ==
    /\ At(n) /\ saved' = as :> what @@ saved
    /\ UNCHANGED <<verdict, net, Data, custody, faults, follows>>

\* put and put_op: the writer's device stores every piece.
Written(d, l, pieces, keep, how) ==
    /\ items' = l :> (how @@ [by |-> d, pieces |-> pieces, keep |-> keep, to |-> Mine,
                              covers |-> {}, merge |-> FALSE, seq |-> Cardinality(DOMAIN items)]) @@ items
    /\ knows' = [knows EXCEPT ![d] = @ \cup {l}]
    /\ store' = [store EXCEPT ![d] = @ \cup {<<l, i>> : i \in 1..pieces}]
PutAs(n, d, l, pieces, keep, how) ==
    /\ At(n) /\ Written(d, l, pieces, keep, how)
    /\ UNCHANGED <<verdict, net, heard, custody, faults, follows, saved>>
Put(n, d, l, pieces, keep) == PutAs(n, d, l, pieces, keep, <<>>)

\* read_whole: asks until every piece verified, from whoever serves it, and fails at the limit;
\* the reader keeps them.
Answered(d, l) == Readable(d, l) /\ d \in items[l].to
ReadWhole(n, d, l) ==
    /\ Waits(n, Answered(d, l))
    /\ store' = [store EXCEPT ![d] = @ \cup Pieces(l)]
    /\ carried' = carried \cup (Pieces(l) \ store[d])
    /\ knows' = [knows EXCEPT ![d] = @ \cup {l}]
    /\ UNCHANGED <<up, now, slow, items, heard, custody, faults, follows, saved>>

\* hold, first half: audit the lease a holder gave, over what the owner's device counts of it.
\* A holder that dropped what a prune covers names the prune, which the auditor takes.
Promised(d, h) == {l \in leases[h].holds : Live(d, l) /\ l \notin heard[h]}
Lacking(h, ls, silent) == {l \in ls : ~Answers(h, l, silent)}
LacksAQuarter(h, ls) ==
    4 * Cardinality(UNION {Pieces(l) : l \in ls} \ store[h]) <= Cardinality(UNION {Pieces(l) : l \in ls})
Hold(n, d, holders, until) ==
    LET audited == {h \in holders : LiveLease(d, h)}
        failing == {h \in audited : Lacking(h, Promised(d, h), Nobody) # {}}
    IN /\ At(n)
       /\ \E caught \in {failing} \cup
                 (IF missed < Audits - 1 /\ \A h \in failing : LacksAQuarter(h, Promised(d, h))
                  THEN {{}} ELSE {}) :
             /\ missed' = missed + (IF caught = failing THEN 0 ELSE 1)
             /\ asking' = [by |-> d, holders |-> holders, until |-> until, broken |-> caught]
       /\ Takes(d, UNION {leases[h].holds \cap heard[h] : h \in audited})
       /\ UNCHANGED <<verdict, net, items, knows, leases, told, faults, follows, saved>>

\* hold, second half: a holder whose lease failed, or does not cover what the owner counts, is
\* asked (again): it fetches what it can reach and leases what it then has whole, until no later
\* than asked nor than what it holds is kept.
Held(d, n) ==
    LET counted == CountedBy(d)
        whole(h) == {l \in counted : Live(h, l) /\ Answers(h, l, Nobody)}
        fresh(h) == [holds |-> whole(h), until |-> Min({asking.until} \cup {items[l].keep : l \in whole(h)})]
        after == [h \in Asked \cup DOMAIN leases |-> IF h \in Asked THEN fresh(h) ELSE leases[h]]
        live == {h \in asking.holders : after[h].until > Clock(d)}
    IN /\ At(n) /\ asking.holders # {}
       /\ \A h \in Asked, l \in counted : l \in knows[h] /\ ~Wants(h, l)
       /\ leases' = after
       /\ told' = [live |-> live, broken |-> asking.broken,
                   kept |-> UNION {after[h].holds : h \in live},
                   until |-> Max({0} \cup {after[h].until : h \in live}),
                   unkept |-> counted \ UNION {after[h].holds : h \in live}]
       /\ asking' = [asking EXCEPT !.holders = {}]
       /\ UNCHANGED <<verdict, net, Data, missed, faults, follows, saved>>

\* release: the device drops its own pieces once a holder proves, while the device serves none of
\* them, that it keeps exactly those; a merge version's only behind a checkpoint proved likewise.
Proved(d, l) == \E h \in DOMAIN leases : LiveLease(d, h) /\ l \in leases[h].holds /\ Answers(h, l, d)

MayRelease(d, l) ==
    Proved(d, l) /\ (items[l].merge => \E c \in knows[d] : l \in items[c].covers /\ Proved(d, c))

Release(n, d, l, expected) ==
    /\ At(n)
    /\ verdict' = IF MayRelease(d, l) = expected THEN "runs" ELSE "fail"
    /\ store' = [store EXCEPT ![d] = IF MayRelease(d, l) THEN @ \ Pieces(l) ELSE @]
    /\ UNCHANGED <<net, items, knows, heard, custody, faults, follows, saved>>

\* lose: one piece in so many of what d stores of the collection, or of l, is gone.
Lose(n, d, gone) ==
    /\ At(n) /\ verdict' = IF gone \cap store[d] # {} THEN "runs" ELSE "fail"
    /\ store' = [store EXCEPT ![d] = @ \ gone]
    /\ UNCHANGED <<net, items, knows, heard, custody, faults, follows, saved>>
Prune(n, d, l) ==
    /\ At(n) /\ verdict' = IF items[l].by = d THEN "runs" ELSE "fail"
    /\ Takes(d, {l})
    /\ UNCHANGED <<net, items, knows, custody, faults, follows, saved>>
RelayAudits(n, h) ==
    /\ At(n) /\ relays' = relays \cup {h}
    /\ UNCHANGED <<verdict, net, Data, custody, doctored, follows, saved>>
Tamper(n, h, l) ==
    /\ At(n) /\ verdict' = IF StoresNone(h, l) THEN "fail" ELSE "runs"
    /\ doctored' = doctored \cup {<<h, l>>}
    /\ UNCHANGED <<net, Data, custody, relays, follows, saved>>
=============================================================================
