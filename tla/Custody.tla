------------------------------- MODULE Custody -------------------------------
(***************************************************************************)
(* The custody and the stream cases (cases/*.rs): one disjunct per step of *)
(* the scenario.  Each runs from its own start, its steps interleaved with *)
(* logs, pieces and prunes that spread and with keeps that end.            *)
(***************************************************************************)
EXTENDS CustodyWorld

-----------------------------------------------------------------------------
(* The custody cases: c05, b4, b5 and h1 to h9.  The phone writes and      *)
(* holds, the repo leases.                                                 *)

Photo == 4   \* the pieces of a large payload
HoldRepo(n, until) == Hold(n, "phone", {"repo"}, until) \/ Held("phone", n + 1)
KeptAt(l) == l \in told.kept

\* A prune is taken by readers, and no lease outlives the keep.
C05 == case = "c05" /\
    \/ Put(0, "phone", "beach", 1, 30)
    \/ Put(1, "phone", "sunset", 1, 30)
    \/ HoldRepo(2, Year)
    \/ Ensure(4, told.live # {} /\ told.until <= 30)
    \/ ReadWhole(5, "laptop", "beach")
    \/ Prune(6, "phone", "beach")
    \/ Until(7, "beach" \in heard["laptop"])
    \/ Settle(8)
    \/ Ensure(9, ~Live("laptop", "beach") /\ StoresNone("laptop", "beach"))
    \/ Finally(10, Readable("laptop", "sunset"))

\* A late device fetches nothing of an edit a checkpoint it holds covers.
B4 ==
    LET merges == [merge |-> TRUE]
    IN case = "b4" /\
    \/ Follow(0, {"phone", "tablet"})
    \/ Offline(1, {"tablet"})
    \/ PutAs(2, "laptop", "edit", Photo, Forever, merges)
    \/ Until(3, Whole("phone", "edit"))
    \/ PutAs(4, "laptop", "checkpoint", Photo, Forever, merges @@ [covers |-> {"edit"}])
    \/ Until(5, Whole("phone", "checkpoint"))
    \/ Online(6, {"tablet"})
    \/ Until(7, {"edit", "checkpoint"} \subseteq knows["tablet"] /\ Whole("tablet", "checkpoint"))
    \/ Finally(8, StoresNone("tablet", "edit"))

\* A merge version's pieces are released behind a held checkpoint only.
B5 ==
    LET merges == [merge |-> TRUE]
    IN case = "b5" /\
    \/ PutAs(0, "phone", "edit", Photo, Forever, merges)
    \/ HoldRepo(1, Year)
    \/ Ensure(3, KeptAt("edit"))
    \/ Release(4, "phone", "edit", FALSE)
    \/ Ensure(5, Whole("phone", "edit"))
    \/ PutAs(6, "phone", "checkpoint", Photo, Forever, merges @@ [covers |-> {"edit"}])
    \/ HoldRepo(7, Year)
    \/ Ensure(9, KeptAt("checkpoint"))
    \/ Release(10, "phone", "edit", TRUE)
    \/ Until(11, "edit" \in knows["laptop"] /\ Readable("laptop", "checkpoint"))
    \/ Finally(12, StoresNone("phone", "edit"))

\* A watch tells of a large photo without fetching it; reading its name does.
H1 == case = "h1" /\
    \/ Put(0, "phone", "beach", Photo, Forever)
    \/ Until(1, "beach" \in knows["laptop"])
    \/ Ensure(2, StoresNone("laptop", "beach"))
    \/ ReadWhole(3, "laptop", "beach")
    \/ Finally(4, Whole("laptop", "beach"))

\* A holder that lost what it leased is caught, repaired and only then lets the phone release.
H2 == case = "h2" /\
    \/ Put(0, "phone", "beach", Photo, Forever)
    \/ HoldRepo(1, Year)
    \/ Ensure(3, told.live = {"repo"} /\ KeptAt("beach"))
    \/ Lose(4, "repo", Pieces("beach"))
    \/ HoldRepo(5, Year)
    \/ Ensure(7, told.broken = {"repo"} /\ told.live = {"repo"} /\ KeptAt("beach"))
    \/ Release(8, "phone", "beach", TRUE)
    \/ Finally(9, Readable("laptop", "beach"))

\* A holder that kept three pieces in four is caught within Audits audits.
H3 ==
    LET caught == told.broken = {"repo"}
    IN case = "h3" /\
    \/ Put(0, "phone", "beach", Photo, Forever)
    \/ HoldRepo(1, Year)
    \/ Ensure(3, told.live = {"repo"} /\ KeptAt("beach"))
    \/ Lose(4, "repo", {<<"beach", 1>>})
    \/ HoldRepo(5, Year)
    \/ Jump(7, 5, ~caught /\ missed < Audits)
    \/ Jump(7, 8, caught \/ missed = Audits)
    \/ Finally(8, caught)

\* A lease ends with the keep of what it holds, however long the owner asked for.
H4 == case = "h4" /\
    \/ Put(0, "phone", "beach", 1, 30)
    \/ Put(1, "phone", "sunset", 1, 30)
    \/ HoldRepo(2, Year)
    \/ Ensure(4, told.live # {} /\ told.until <= 30)
    \/ Skip(5, 31)
    \/ HoldRepo(6, Year)
    \/ Ensure(8, \A h \in told.live : leases[h].until > Clock("phone")
                     /\ (leases[h].holds \cap {"beach", "sunset"} # {} => leases[h].until <= 30))
    \/ Put(9, "phone", "harbour", 1, Forever)
    \/ HoldRepo(10, Year)
    \/ Finally(12, KeptAt("harbour") /\ told.until <= Year)

\* A prune ends the lease for what it covers; the next audit asks for nothing pruned.
H5 == case = "h5" /\
    \/ Put(0, "phone", "beach", Photo, Forever)
    \/ Put(1, "phone", "sunset", 1, Forever)
    \/ HoldRepo(2, Year)
    \/ Ensure(4, KeptAt("beach") /\ ~StoresNone("repo", "beach"))
    \/ Prune(5, "phone", "beach")
    \/ Until(6, StoresNone("repo", "beach") /\ "beach" \in heard["laptop"])
    \/ Ensure(7, Readable("laptop", "sunset"))
    \/ HoldRepo(8, Year)
    \/ Finally(10, told.broken = {} /\ told.live = {"repo"} /\ KeptAt("sunset"))

\* A holder that is no reader keeps, serves and passes audits on what it cannot open.
H6 == case = "h6" /\
    \/ PutAs(0, "phone", "beach", Photo, Forever, [to |-> {"phone", "laptop"}])
    \/ HoldRepo(1, Year)
    \/ Ensure(3, KeptAt("beach") /\ ~StoresNone("repo", "beach") /\ "repo" \notin items["beach"].to)
    \/ Release(4, "phone", "beach", TRUE)
    \/ ReadWhole(5, "laptop", "beach")
    \/ Finally(6, Whole("laptop", "beach"))

\* The only holder of a released photo loses it: hold claims no copy, and says so.
H7 == case = "h7" /\
    \/ Put(0, "phone", "beach", Photo, Forever)
    \/ HoldRepo(1, Year)
    \/ Ensure(3, told.live = {"repo"} /\ KeptAt("beach") /\ told.unkept = {})
    \/ Release(4, "phone", "beach", TRUE)
    \/ Lose(5, "repo", Pieces("beach"))
    \/ ForgetCached(6, "beach")
    \/ HoldRepo(7, Year)
    \/ Finally(9, told.broken = {"repo"} /\ ~KeptAt("beach") /\ "beach" \in told.unkept)

\* A holder that relays audits from the owner passes them, and cannot make the owner release.
H8 == case = "h8" /\
    \/ Put(0, "phone", "beach", Photo, Forever)
    \/ HoldRepo(1, Year)
    \/ Ensure(3, KeptAt("beach"))
    \/ Lose(4, "repo", Pieces("beach"))
    \/ Ensure(5, StoresNone("repo", "beach"))
    \/ ForgetCached(6, "beach")
    \/ RelayAudits(7, "repo")
    \/ HoldRepo(8, Year)
    \/ Release(10, "phone", "beach", FALSE)
    \/ Ensure(11, Whole("phone", "beach"))
    \/ ReadWhole(12, "laptop", "beach")
    \/ Finally(13, TRUE)

\* A prune the holder heard first does not make its lease broken.
H9 == case = "h9" /\
    \/ Put(0, "phone", "caption", 1, Forever)
    \/ Until(1, "caption" \in knows["laptop"])
    \/ Put(2, "laptop", "beach", Photo, Forever)
    \/ ReadWhole(3, "phone", "beach")
    \/ HoldRepo(4, Year)
    \/ Ensure(6, KeptAt("beach"))
    \/ Offline(7, {"phone"})
    \/ Prune(8, "laptop", "beach")
    \/ Until(9, StoresNone("repo", "beach"))
    \/ Offline(10, {"laptop"})
    \/ Online(11, {"phone"})
    \/ Ensure(12, "beach" \notin heard["phone"])
    \/ HoldRepo(13, Year)
    \/ Finally(15, "repo" \notin told.broken /\ "beach" \in heard["phone"])

CustodyStep == C05 \/ B4 \/ B5 \/ H1 \/ H2 \/ H3 \/ H4 \/ H5 \/ H6 \/ H7 \/ H8 \/ H9

-----------------------------------------------------------------------------
(* The stream cases: c06 and s1 to s6.  The soil sensor's readings are     *)
(* numbered by the tick they are taken at; a block is known by its         *)
(* sequence number and carries the readings first..last.                   *)

Blocks == DOMAIN items
Newest(d) == Max({0} \cup knows[d])

\* take_readings: one reading a tick; the data layer signs the pending ones as a block when the
\* oldest has waited as long as the producer accepts, its timer at most `late` ticks late.
Resting == [taken |-> 0, pending |-> 0, age |-> 0, longest |-> 0]
Sampling(n, d, total, accepted, late, keep) ==
    LET s == IF "sampling" \in DOMAIN saved THEN saved.sampling ELSE Resting
        becomes(t) == saved' = ("sampling" :> t) @@ saved
        before == IF Blocks = {} THEN 0 ELSE items[Max(Blocks)].last
        rest == UNCHANGED <<case, verdict, net, heard, custody, faults, follows>>
    IN /\ verdict = "runs" /\ pc = n
       /\ \/ /\ s.taken < total /\ (s.pending = 0 \/ s.age < accepted + late)
             /\ becomes([s EXCEPT !.taken = @ + 1, !.pending = @ + 1,
                                  !.age = IF s.pending = 0 THEN 0 ELSE @ + 1])
             /\ rest /\ UNCHANGED <<pc, items, knows, store>>
          \/ /\ s.taken = total /\ s.pending > 0 /\ s.age < accepted
             /\ becomes([s EXCEPT !.age = @ + 1])
             /\ rest /\ UNCHANGED <<pc, items, knows, store>>
          \/ /\ s.pending > 0 /\ s.age >= accepted
             /\ Written(d, Max({0} \cup Blocks) + 1, 1, keep,
                        [first |-> before + 1, last |-> before + s.pending])
             /\ becomes([s EXCEPT !.pending = 0, !.longest = Max({@, s.age})])
             /\ rest /\ UNCHANGED pc
          \/ /\ s.taken = total /\ s.pending = 0
             /\ saved' = [f \in DOMAIN saved \ {"sampling"} |-> saved[f]] @@ ("longest" :> s.longest)
             /\ pc' = n + 1 /\ rest /\ UNCHANGED <<items, knows, store>>

\* Readings share blocks, none waits longer than accepted, and every follower gets all of them.
C06 ==
    LET Accepted == 3  MinSaving == 3  Readings == 12
    IN case = "c06" /\
    \/ Follow(0, {"repo", "laptop"})
    \/ Sampling(1, "sensor", Readings, Accepted, 1, Forever)
    \/ Ensure(2, saved.longest <= Accepted + 1 /\ Cardinality(Blocks) * MinSaving <= Readings)
    \/ Until(3, \A d \in {"repo", "laptop"}, l \in Blocks : Whole(d, l))
    \/ Sampling(4, "sensor", 2, 0, 0, Forever)
    \/ Until(5, \A d \in {"repo", "laptop"}, l \in Blocks : Whole(d, l))
    \/ Finally(6, UNION {items[l].first..items[l].last : l \in Blocks} = 1..(Readings + 2))

\* A range read searches the listed blocks by bisection, once for each end of a time range.
Reach(d, l) == Readable(d, l) /\ store' = [store EXCEPT ![d] = @ \cup Pieces(l)]
Probe(n, d, searched, beyond) ==
    LET s == saved.search  mid == (s.lo + s.hi) \div 2
    IN /\ verdict = "runs" /\ pc = n /\ UNCHANGED <<case, verdict, net, items, knows, heard, custody, faults, follows>>
       /\ \/ /\ s.lo < s.hi /\ Reach(d, mid)
             /\ saved' = [saved EXCEPT !.search = IF mid \in beyond THEN [s EXCEPT !.hi = mid]
                                                                 ELSE [s EXCEPT !.lo = mid + 1]]
             /\ UNCHANGED pc
          \/ /\ s.lo = s.hi /\ pc' = n + 1
             /\ saved' = searched :> s.lo @@ [saved EXCEPT !.search.hi = Cardinality(Blocks) + 1]
             /\ UNCHANGED store
FetchBlocks(n, d, ls) ==
    /\ At(n) /\ \A l \in ls : Readable(d, l)
    /\ store' = [store EXCEPT ![d] = @ \cup UNION {Pieces(l) : l \in ls}]
    /\ UNCHANGED <<verdict, net, items, knows, heard, custody, faults, follows, saved>>
Fetched(d) == {l \in Blocks : Whole(d, l)}
Log2Up(k) == CHOOSE e \in 0..k : 2^e >= k /\ (e = 0 \/ 2^(e - 1) < k)
SearchBound(k) == 2 * (Log2Up(k) + 1)

\* Range reads answer the entries in range, fetching the blocks in range and a short search.
S1 ==
    LET From == 11  To == 16  Seqs == 13..14
        inTime == {l \in Blocks : items[l].first < To /\ items[l].last >= From}
        answered == saved.from..(saved.to - 1)
    IN case = "s1" /\
    \/ Sampling(0, "sensor", 32, 1, 0, Forever)
    \/ Ensure(1, Fetched("laptop") = {})
    \/ Until(2, knows["laptop"] = Blocks)
    \/ Save(3, "search", [lo |-> 1, hi |-> Cardinality(Blocks) + 1])
    \/ Probe(4, "laptop", "from", {l \in Blocks : items[l].last >= From})
    \/ Probe(5, "laptop", "to", {l \in Blocks : items[l].first >= To})
    \/ FetchBlocks(6, "laptop", answered)
    \/ Ensure(7, answered = inTime
                 /\ Cardinality(Fetched("laptop")) <= Cardinality(inTime) + SearchBound(Cardinality(Blocks)))
    \/ Ensure(8, Fetched("laptop") \cap Seqs = {})
    \/ Save(9, "byTime", Fetched("laptop"))
    \/ FetchBlocks(10, "laptop", Seqs)
    \/ Ensure(11, Fetched("laptop") = saved.byTime \cup Seqs)
    \/ Settle(12)
    \/ Finally(13, Fetched("laptop") = saved.byTime \cup Seqs)

\* What a holder forged inside a block, or spliced into it, is never answered: the block is
\* refused until its writer is back.
Doctored(c, warm) ==
    LET Target == 2
    IN case = c /\
    \/ Sampling(0, "sensor", 6, 1, 0, Forever)
    \/ Hold(1, "sensor", {"repo"}, Year) \/ Held("sensor", 2)
    \/ Ensure(3, Target \in told.kept /\ ~StoresNone("repo", Target))
    \/ ReadWhole(4, "laptop", warm)
    \/ Offline(5, {"sensor"})
    \/ Tamper(6, "repo", Target)
    \/ ForgetCached(7, Target)
    \/ Ensure(8, StoresNone("laptop", Target))
    \/ Ensure(9, ~Readable("laptop", Target))
    \/ Settle(10)
    \/ Ensure(11, ~Readable("laptop", Target) /\ Target \in knows["laptop"])
    \/ Online(12, {"sensor"})
    \/ ReadWhole(13, "laptop", Target)
    \/ Finally(14, Whole("laptop", Target))
S2 == Doctored("s2", 1)
S3 == Doctored("s3", 1)

\* Expired blocks are dropped by every right clock, told apart from missing ones, and not taken
\* back from a holder whose clock is slow.
Expiring == {1, 2}
Lasting == 3
S4 ==
    LET Keep == 1  Right == {"sensor", "repo", "laptop"}
    IN case = "s4" /\
    \/ Follow(0, {"laptop"})
    \/ Sampling(1, "sensor", 4, 1, 0, Keep)
    \/ Sampling(2, "sensor", 1, 0, 0, Forever)
    \/ Hold(3, "sensor", {"repo", "vault"}, Year) \/ Held("sensor", 4)
    \/ Ensure(5, told.live = {"repo", "vault"} /\ \A h \in told.live, l \in Expiring : Whole(h, l))
    \/ Until(6, \A l \in Expiring : Whole("laptop", l))
    \/ SetClockBehind(7, "vault")
    \/ Skip(8, Keep)
    \/ Until(9, \A d \in Right, l \in Expiring : StoresNone(d, l))
    \/ Ensure(10, {l \in knows["laptop"] : Expired("laptop", l)} = Expiring)
    \/ ReadWhole(11, "laptop", Lasting)
    \/ Ensure(12, \A l \in Expiring : Whole("vault", l))
    \/ ForgetCached(13, 1)
    \/ Until(14, 1 \in knows["phone"] /\ Expired("phone", 1))
    \/ Settle(15)
    \/ Finally(16, \A l \in Expiring : StoresNone("phone", l))

\* A replayed head neither rolls a reader back nor confirms what it has.
HeardHead(n, d, head) ==
    /\ At(n)
    /\ saved' = [saved EXCEPT !.head = Max({@, head}), !.confirmed = IF head >= saved.head THEN now ELSE @]
    /\ UNCHANGED <<verdict, net, Data, custody, faults, follows>>
S5 == case = "s5" /\
    \/ Put(0, "sensor", 1, 1, Forever)
    \/ Save(1, "replayed", Newest("sensor"))
    \/ Offline(2, {"cache"})
    \/ Put(3, "sensor", 2, 1, Forever)
    \/ Put(4, "sensor", 3, 1, Forever)
    \/ Until(5, Newest("laptop") = 3)
    \/ Save(6, "head", Newest("laptop"))
    \/ Save(7, "confirmed", now)
    \/ Offline(8, {"sensor"})
    \/ Save(9, "left", now)
    \/ Online(10, {"cache"})
    \/ Skip(11, 1)
    \/ HeardHead(12, "laptop", saved.replayed)
    \/ Ensure(13, saved.head >= 3 /\ now - saved.confirmed >= now - saved.left)
    \/ Jump(14, 11, now < 3) \/ (now >= 3 /\ Finally(14, saved.head = Newest("laptop")))

\* A reader that comes after the keep passed gets the last reading and no expired block.
S6 ==
    LET Keep == 1
    IN case = "s6" /\
    \/ Sampling(0, "sensor", 4, 1, 0, Keep)
    \/ Sampling(1, "sensor", 1, 0, 0, Forever)
    \/ Hold(2, "sensor", {"repo"}, Year) \/ Held("sensor", 3)
    \/ Ensure(4, told.live = {"repo"} /\ \A l \in Expiring : Whole("repo", l))
    \/ Skip(5, Keep)
    \/ Until(6, \A d \in {"sensor", "repo"}, l \in Expiring : StoresNone(d, l))
    \/ ForgetCached(7, 1)
    \/ ForgetCached(8, 2)
    \/ Follow(9, {"phone"})
    \/ Until(10, Whole("phone", Lasting))
    \/ Settle(11)
    \/ Finally(12, \A l \in Expiring : StoresNone("phone", l))

StreamStep == C06 \/ S1 \/ S2 \/ S3 \/ S4 \/ S5 \/ S6

-----------------------------------------------------------------------------
Init == \E c \in DOMAIN CustodyPlan : InitCustody(c)
Spreading ==
    \/ \E d \in Mine, l \in DOMAIN items : Fetch(d, l) \/ HearPrune(d, l)
    \/ \E d \in Mine : DropExpired(d) \/ \E w \in Mine : Learn(d, w)
CaseStep == CustodyStep \/ StreamStep
Next == Spreading \/ CaseStep

=============================================================================
