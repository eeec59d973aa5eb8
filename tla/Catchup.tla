-------------------------------- MODULE Catchup --------------------------------
(***************************************************************************)
(* The field scenario kit and the liveness watchdog:                       *)
(* crates/ndn-sim/src/fieldkit.rs (TwoPhaseReplica, RestartablePublisher), *)
(* liveness.rs (Ledger, ledgered_catchup, watch), ceiling.rs               *)
(* (latency_catchup) and adversary.rs (verifying_catchup).                 *)
(*                                                                         *)
(* Replicas learn what publishers have from the sync group, fetch each     *)
(* Block over a link that loses, holds and is cut, store it, and only then *)
(* acknowledge it, which moves their state vector on.  A publisher may be  *)
(* restarted.  A shared ledger records it all, and a watchdog samples the  *)
(* ledger.  A cell fixes the consumer's shape.                             *)
(***************************************************************************)
EXTENDS Naturals, Sequences, FiniteSets, SequencesExt

CONSTANTS
    Replica,
    Honest, Hostile,   \* publishers; only the honest ones' Blocks are workload
    Cells,             \* [consumer: "ledgered", "latency" or "verifying"; fetch: "stock" or
                       \*  "arrival"; window; bound: "none", "wait" or "whole"; wedge: Blocks
                       \*  before it freezes, or 0; persistent; watched: by the watchdog]
    StallTicks,        \* stall_window in watchdog ticks
    BudgetTicks,       \* budget in watchdog ticks
    MaxSeq,            \* bound on the sequence numbers of one publisher
    MaxBoots,          \* bound on a publisher's starts
    MaxFaults          \* bound on replies lost or held, and on cuts

ASSUME CatchupAssumption ==
    /\ Honest \cap Hostile = {}
    /\ StallTicks \in Nat \ {0} /\ BudgetTicks \in Nat \ {0}
    /\ \A c \in Cells : c.window \in Nat \ {0}

VARIABLES
    cell,
    boot,       \* publisher -> which boot it is in, 0 before the first
    runs,       \* publisher -> whether its instance runs
    served,     \* publisher -> seq -> Block: the DataStore of the instance
    up,         \* whether the publishers' link is up
    faults,     \* replies lost or held, and cuts, so far
    vector,     \* replica -> publisher -> the sequence number acknowledged
    updates,    \* replica -> advertised gaps not yet received: [p, low, high]
    wire,       \* replica -> replies on their way to it: [p, seq, block]
    inbox,      \* replica -> replies in its face, not yet read (ArrivalPaired)
    step,       \* replica -> where its loop is
    published, stored, reported, anyAck,    \* the Ledger; of acks, whether there was any
    watch,      \* the watchdog: [verdict, idle, spent, zeros, fresh]
    silent      \* history: samples since the latest ack, one more if there was none

catchupVars == <<cell, boot, runs, served, up, faults, vector, updates, wire, inbox, step,
                 published, stored, reported, anyAck, watch, silent>>

Publisher == Honest \cup Hostile
NoBlocks == [s \in {} |-> 0]
Waits == [at |-> "waits"]

CatchupInit ==
    /\ cell \in Cells
    /\ boot = [p \in Publisher |-> 1] /\ runs = [p \in Publisher |-> TRUE]
    /\ served = [p \in Publisher |-> NoBlocks]
    /\ up = TRUE /\ faults = 0
    /\ vector = [r \in Replica |-> [p \in Publisher |-> 0]]
    /\ updates = [r \in Replica |-> <<>>]
    /\ wire = [r \in Replica |-> {}] /\ inbox = [r \in Replica |-> <<>>]
    /\ step = [r \in Replica |-> Waits]
    /\ published = [p \in Honest |-> NoBlocks]
    /\ stored = [r \in Replica |-> [p \in Publisher |-> NoBlocks]]
    /\ reported = [r \in Replica |-> 0] /\ anyAck = FALSE
    /\ watch = [verdict |-> "off", idle |-> 0, spent |-> 0, zeros |-> 0, fresh |-> FALSE]
    /\ silent = 0

ledgerVars == <<published, stored, reported, anyAck>>
publisherVars == <<boot, runs, served>>
watchVars == <<watch, silent>>

Top(blocks) == Max({0} \cup DOMAIN blocks)

\* The Blocks with one more, or with another in its place.
Adding(blocks, s, block) ==
    [n \in DOMAIN blocks \cup {s} |-> IF n = s THEN block ELSE blocks[n]]

\* stored_count: the Blocks r holds.
StoredCount(r) == Cardinality(UNION {{<<p, s>> : s \in DOMAIN stored[r][p]} : p \in Publisher})

\* backlog: authored and not held, over all replicas.
Backlog ==
    Cardinality({x \in Replica \X Honest \X (1..MaxSeq) :
        x[3] \in DOMAIN published[x[2]] \ DOMAIN stored[x[1]][x[2]]})

-----------------------------------------------------------------------------
(* Publishers, the link, the sync group.                                   *)

\* publish_ledgered: the instance assigns the next sequence number.
Put(p) ==
    LET s == Top(served[p]) + 1
        block == <<p, s, boot[p]>>
    IN /\ runs[p] /\ s <= MaxSeq
       /\ p \in Hostile => cell.consumer = "verifying"
       /\ served' = [served EXCEPT ![p] = Adding(@, s, block)]
       /\ published' = IF p \in Honest THEN [published EXCEPT ![p] = Adding(@, s, block)] ELSE published
       /\ UNCHANGED <<cell, boot, runs, up, faults, vector, updates, wire, inbox, step,
                      stored, reported, anyAck, watchVars>>

\* RestartablePublisher::stop.
Stop(p) ==
    /\ runs[p] /\ p \in Honest /\ boot[p] < MaxBoots
    /\ runs' = [runs EXCEPT ![p] = FALSE]
    /\ UNCHANGED <<cell, boot, served, up, faults, vector, updates, wire, inbox, step,
                   ledgerVars, watchVars>>

\* Fault: every boot mints its own store.
StoreOfBootFresh(p) == NoBlocks

\* The store a boot is handed: the retained one, or an empty one (new_ephemeral).
StoreOfBoot(p) == IF cell.persistent THEN served[p] ELSE NoBlocks

\* RestartablePublisher::start, after a stop.
Start(p) ==
    /\ ~runs[p]
    /\ runs' = [runs EXCEPT ![p] = TRUE]
    /\ boot' = [boot EXCEPT ![p] = @ + 1]
    /\ served' = [served EXCEPT ![p] = StoreOfBoot(p)]
    /\ UNCHANGED <<cell, up, faults, vector, updates, wire, inbox, step, ledgerVars, watchVars>>

\* set_link_up: what is on its way still arrives.
SetLinkUp(b) ==
    /\ up # b /\ (~b => faults < MaxFaults)
    /\ up' = b /\ faults' = IF b THEN faults ELSE faults + 1
    /\ UNCHANGED <<cell, publisherVars, vector, updates, wire, inbox, step, ledgerVars, watchVars>>

\* What a Sync Interest that reaches r may tell of p: its own state, or another replica's vector.
Heard(r, p) ==
    {vector[q][p] : q \in Replica \ {r}}
        \cup (IF up /\ runs[p] THEN {Top(served[p])} ELSE {})

\* A gap is handed to the consumer, and again with every round until it is acknowledged.
Advertise(r, p) ==
    /\ \A u \in ToSet(updates[r]) : u.p # p
    /\ \E high \in Heard(r, p) :
          /\ high > vector[r][p]
          /\ updates' = [updates EXCEPT ![r] =
                Append(@, [p |-> p, low |-> vector[r][p] + 1, high |-> high])]
    /\ UNCHANGED <<cell, publisherVars, up, faults, vector, wire, inbox, step, ledgerVars, watchVars>>

-----------------------------------------------------------------------------
(* The consumer loop: ledgered_catchup, process_update and ingest_one, with latency_catchup and  *)
(* verifying_catchup, which differ in what they do with a Block.                                 *)

At(r, where) == step[r].at = where
Move(r, to) == step' = [step EXCEPT ![r] = to]

\* The loop asks for one chunk at a time; the arrival-paired fetch for one Block.
ChunkEnd(low, high) ==
    IF cell.fetch = "stock" THEN Min({low + cell.window - 1, high}) ELSE low

Asking(p, low, high, events) ==
    [at |-> "ask", p |-> p, seq |-> low, end |-> ChunkEnd(low, high), high |-> high,
     got |-> NoBlocks, events |-> events]

\* The wait for an update; a bounded wait that ends without one just waits again.
Receive(r) ==
    /\ At(r, "waits") /\ updates[r] # <<>>
    /\ LET u == Head(updates[r]) IN Move(r, Asking(u.p, u.low, u.high, 0))
    /\ updates' = [updates EXCEPT ![r] = Tail(@)]
    /\ UNCHANGED <<cell, publisherVars, up, faults, vector, wire, inbox, ledgerVars, watchVars>>

\* Interests for the chunk leave; each is answered if the instance serves it, and some answers
\* are lost on the link.
Ask(r) ==
    LET p == step[r].p
        answered == IF up /\ runs[p] THEN DOMAIN served[p] \cap step[r].seq..step[r].end ELSE {}
    IN /\ At(r, "ask")
       /\ \E lost \in SUBSET answered :
             /\ faults' = faults + Cardinality(lost) /\ faults' <= MaxFaults
             /\ wire' = [wire EXCEPT ![r] =
                    @ \cup {[p |-> p, seq |-> s, block |-> served[p][s]] : s \in answered \ lost}]
       /\ step' = [step EXCEPT ![r].at = "fetch"]
       /\ UNCHANGED <<cell, publisherVars, up, vector, updates, inbox, ledgerVars, watchVars>>

Awaited(r) == IF At(r, "fetch") THEN step[r].seq..step[r].end \ DOMAIN step[r].got ELSE {}

\* Fault: the Block that comes is the Block awaited.
PairedAsItComes(r, m) == IF Awaited(r) = {} THEN {} ELSE {Min(Awaited(r))}

\* Which of the fetches under way a reply answers: the one of its name.
Paired(r, m) == IF At(r, "fetch") /\ step[r].p = m.p THEN Awaited(r) \cap {m.seq} ELSE {}

\* A reply reaches the replica's face.  One nobody waits for is dropped; the arrival-paired
\* consumer finds it there at its next read.
Arrive(r) ==
    \E m \in wire[r] :
        /\ wire' = [wire EXCEPT ![r] = @ \ {m}]
        /\ IF cell.fetch = "stock"
           THEN /\ step' = IF Paired(r, m) = {} THEN step
                           ELSE [step EXCEPT ![r].got = Adding(@, Min(Paired(r, m)), m.block)]
                /\ UNCHANGED inbox
           ELSE /\ inbox' = [inbox EXCEPT ![r] = Append(@, m.block)]
                /\ UNCHANGED step
        /\ UNCHANGED <<cell, publisherVars, up, faults, vector, updates, ledgerVars, watchVars>>

\* fetch_arrival_paired takes the next packet off its face, whatever its name.
TakeNext(r) ==
    /\ cell.fetch = "arrival" /\ Awaited(r) # {} /\ inbox[r] # <<>>
    /\ step' = [step EXCEPT ![r].got = Adding(NoBlocks, step[r].seq, Head(inbox[r]))]
    /\ inbox' = [inbox EXCEPT ![r] = Tail(@)]
    /\ UNCHANGED <<cell, publisherVars, up, faults, vector, updates, wire, ledgerVars, watchVars>>

\* The chunk is in, or what is missing of it timed out: it was not served, was lost, or is held.
Fetched(r) ==
    /\ At(r, "fetch") /\ (inbox[r] = <<>> \/ Awaited(r) = {})
    /\ faults' = faults + Cardinality({m \in wire[r] : m.p = step[r].p /\ m.seq \in Awaited(r)})
    /\ faults' <= MaxFaults
    /\ step' = [step EXCEPT ![r].at = "ingest"]
    /\ UNCHANGED <<cell, publisherVars, up, vector, updates, wire, inbox, ledgerVars, watchVars>>

\* After a Block: the next of the chunk, the next chunk, or the end of the update.
Following(r, events) ==
    LET s == step[r].seq + 1
    IN CASE s > step[r].high -> [at |-> "over", events |-> events]
         [] s > step[r].end -> Asking(step[r].p, s, step[r].high, events)
         [] OTHER -> [step[r] EXCEPT !.at = "ingest", !.seq = s, !.events = events]

InHand(r) == At(r, "ingest") /\ step[r].seq \in DOMAIN step[r].got

\* A verifying consumer stores and acknowledges the workload's Blocks only.
Refused(r) == cell.consumer = "verifying" /\ step[r].p \notin Honest

\* Fault: a miss is passed over, and what came after it is stored.
PassOver(r) == Following(r, step[r].events)

\* A miss ends the update, to be retried from there; the arrival-paired loop moves on.
AfterMiss(r) ==
    IF cell.fetch = "arrival" THEN Following(r, step[r].events)
    ELSE [at |-> "over", events |-> step[r].events]

Miss(r) ==
    /\ At(r, "ingest") /\ ~InHand(r)
    /\ Move(r, AfterMiss(r))
    /\ UNCHANGED <<cell, publisherVars, up, faults, vector, updates, wire, inbox, ledgerVars, watchVars>>

Refuse(r) ==
    /\ InHand(r) /\ Refused(r)
    /\ Move(r, Following(r, step[r].events))
    /\ UNCHANGED <<cell, publisherVars, up, faults, vector, updates, wire, inbox, ledgerVars, watchVars>>

\* record_stored: the first Block stored under a key stays.
FirstBound(held, s, block) == IF s \in DOMAIN held THEN held ELSE Adding(held, s, block)

\* record_stored; the ledgered loop reports at the end of the step, the others at once.
Store(r) ==
    LET p == step[r].p  s == step[r].seq
        newly == s \notin DOMAIN stored[r][p]
    IN /\ InHand(r) /\ ~Refused(r)
       /\ stored' = [stored EXCEPT ![r][p] = FirstBound(@, s, step[r].got[s])]
       /\ IF cell.consumer = "ledgered"
          THEN /\ step' = [step EXCEPT ![r].at = "commit", ![r].events = IF newly THEN @ + 1 ELSE @]
               /\ UNCHANGED reported
          ELSE /\ step' = [step EXCEPT ![r].at = "commit"]
               /\ reported' = [reported EXCEPT ![r] = IF newly THEN @ + 1 ELSE @]
       /\ UNCHANGED <<cell, publisherVars, up, faults, vector, updates, wire, inbox,
                      published, anyAck, watchVars>>

Frozen(r) == cell.wedge # 0 /\ StoredCount(r) >= cell.wedge

\* ack: the vector moves on; the ledger counts it.
Ack(r) ==
    /\ At(r, "commit") /\ ~Frozen(r)
    /\ vector' = [vector EXCEPT ![r][step[r].p] = Max({@, step[r].seq})]
    /\ anyAck' = TRUE
    /\ IF watch.verdict = "watching" THEN watch' = [watch EXCEPT !.fresh = TRUE] /\ silent' = 0
       ELSE UNCHANGED watchVars
    /\ Move(r, Following(r, step[r].events))
    /\ UNCHANGED <<cell, publisherVars, up, faults, updates, wire, inbox, published, stored, reported>>

\* The step's events reach the caller.
Report(r) ==
    /\ At(r, "over")
    /\ reported' = [reported EXCEPT ![r] = @ + step[r].events]
    /\ Move(r, Waits)
    /\ UNCHANGED <<cell, publisherVars, up, faults, vector, updates, wire, inbox,
                   published, stored, anyAck, watchVars>>

\* Fault: the deadline covers the processing under every bound but none.
CoversWork == cell.bound # "none"

\* A deadline over the whole step may cut it at any await; a bounded wait cannot.
CoversProcessing == cell.bound = "whole"

\* The step is cancelled: its events are lost.
CancelStep(r) ==
    /\ CoversProcessing /\ step[r].at \in {"ask", "fetch", "commit"}
    /\ Move(r, Waits)
    /\ UNCHANGED <<cell, publisherVars, up, faults, vector, updates, wire, inbox, ledgerVars, watchVars>>

-----------------------------------------------------------------------------
(* The watchdog.                                                           *)

BeginWatch ==
    /\ cell.watched /\ watch.verdict = "off"
    /\ watch' = [verdict |-> "watching", idle |-> 0, spent |-> 0, zeros |-> 0, fresh |-> FALSE]
    /\ silent' = 1
    /\ UNCHANGED <<cell, publisherVars, up, faults, vector, updates, wire, inbox, step, ledgerVars>>

\* Fault: a tick without an ack never makes up for one with.
IdleAccumulates(still) == IF still THEN watch.idle + 1 ELSE watch.idle

IdleAfter(still) == IF still THEN watch.idle + 1 ELSE 0

\* One sample of the ledger, a tenth of the stall window after the previous.
Tick ==
    LET backlog == Backlog
        zeros == IF backlog = 0 THEN watch.zeros + 1 ELSE 0
        idle == IdleAfter(~watch.fresh /\ backlog > 0)
        verdict == CASE zeros >= 2 /\ anyAck -> "converged"
                     [] idle >= StallTicks -> "stalled"
                     [] watch.spent + 1 >= BudgetTicks -> "budget"
                     [] OTHER -> "watching"
    IN /\ watch.verdict = "watching"
       /\ watch' = [verdict |-> verdict, idle |-> idle, spent |-> watch.spent + 1,
                    zeros |-> Min({zeros, 2}), fresh |-> FALSE]
       /\ silent' = Min({silent + 1, StallTicks + 1})
       /\ UNCHANGED <<cell, publisherVars, up, faults, vector, updates, wire, inbox, step, ledgerVars>>

-----------------------------------------------------------------------------
Consume(r) ==
    \/ Receive(r) \/ Ask(r) \/ TakeNext(r) \/ Fetched(r) \/ Miss(r) \/ Refuse(r)
    \/ Store(r) \/ Ack(r) \/ Report(r)

CatchupNext ==
    \/ \E p \in Publisher : Put(p) \/ Stop(p) \/ Start(p)
    \/ \E b \in BOOLEAN : SetLinkUp(b)
    \/ \E r \in Replica, p \in Publisher : Advertise(r, p)
    \/ \E r \in Replica : Consume(r) \/ Arrive(r) \/ CancelStep(r)
    \/ BeginWatch \/ Tick

\* The sync group repeats what a replica has not acknowledged, replies not lost arrive, and the
\* consumer task runs.
CatchupFairness ==
    \A r \in Replica :
        /\ WF_catchupVars(Consume(r)) /\ WF_catchupVars(Arrive(r))
        /\ \A p \in Publisher : WF_catchupVars(Advertise(r, p))

CatchupSpec == CatchupInit /\ [][CatchupNext]_catchupVars /\ CatchupFairness

-----------------------------------------------------------------------------
\* The consumer as fixed: paired by name, processing not bounded, never wedged.
Healthy == cell.fetch = "stock" /\ cell.bound # "whole" /\ cell.wedge = 0 /\ cell.persistent

\* Byte identity (liveness.rs Ledger::invariants): over lossy, reordering links and restarts of
\* publishers, every Block a replica holds is the Block its publisher authored under that number.
NoPoison ==
    cell.fetch = "stock" /\ cell.persistent =>
        \A r \in Replica, p \in Honest : \A s \in DOMAIN stored[r][p] :
            s \in DOMAIN published[p] /\ stored[r][p][s] = published[p][s]

\* Event integrity: unless the deadline covers the processing, whenever the consumer waits for
\* its next update every Block it stored has been reported, none twice.
EventsReported ==
    cell.bound # "whole" =>
        \A r \in Replica : At(r, "waits") => reported[r] = StoredCount(r)

\* The replica's vector never vouches for a Block it does not hold: store before ack, and hold at
\* the first miss.  The arrival-paired consumer moves on and breaks this.
NoHole ==
    cell.fetch = "stock" =>
        \A r \in Replica, p \in Publisher : 1..vector[r][p] \subseteq DOMAIN stored[r][p]

\* The watchdog never calls a stall unless StallTicks whole ticks went by without an ack of any
\* replica, not counting the one its latest ack fell in, however acks and samples interleave
\* (liveness.rs watch).
StallIsSilence == watch.verdict = "stalled" => silent > StallTicks

\* A cell of the fixed consumer converges once publishers run and the link stays up, whatever was
\* lost, cut, restarted or flooded before.
Drains ==
    Healthy /\ <>[](up /\ \A p \in Publisher : runs[p]) => <>[](Backlog = 0)
=============================================================================
