------------------------------- MODULE AppFlows -------------------------------
(***************************************************************************)
(* Apps and their statistics: crates/ndn-sim/src/app.rs (spawn_fetch_loop, *)
(* spawn_latest_publisher, FlowStatsInner).                                *)
(*                                                                         *)
(* A fetch loop draws consumers from a bounded pool and spawns one task    *)
(* per request; closed, it waits for a free consumer, open, it drops the   *)
(* arrival.  Tasks, loop, publisher and whoever reads the statistics run   *)
(* on threads of their own; the publisher's clock may be stepped.  Round   *)
(* trip times, bytes, the arrival pattern and what compares the clocks of  *)
(* two nodes (staleness, gaps) are left out.                               *)
(***************************************************************************)
EXTENDS Integers, FiniteSets, FiniteSetsExt

CONSTANTS
    Flows,        \* [window, open, versioned, count (0: until stopped)]
    MaxRequests,  \* bound on the requests of an endless flow
    MaxVersions,  \* bound on the versions minted
    MaxClock      \* bound on the publisher's clock

ASSUME FlowAssumption ==
    /\ \A f \in Flows : f.window \in Nat \ {0} /\ f.count \in Nat
    /\ MaxRequests \in Nat /\ MaxClock \in Nat

VARIABLES
    flow,
    clock,     \* the wall clock of the publisher's node
    halted, loop,   \* the fetch loop: [at, i]
    idle,      \* consumers in the pool
    fetches,   \* fetch tasks: [i, at, version]
    stats,     \* FlowStatsInner: [sent, received, lost]
    track,     \* VersionTrack: [last, repeats]
    minted,    \* versions minted so far, in order of minting
    reader,    \* who takes a snapshot: [at, repeats, received]
    asked      \* history: request -> how often it was expressed

flowVars == <<flow, clock, halted, loop, idle, fetches, stats, track, minted, reader, asked>>

\* The requests of the flow, by the index in their names.
Requests == 0..(IF flow.count = 0 THEN MaxRequests ELSE flow.count) - 1

FlowInit ==
    /\ flow \in Flows
    /\ clock = 1
    /\ halted = FALSE /\ loop = [at |-> "test", i |-> 0]
    /\ idle = flow.window /\ fetches = {}
    /\ stats = [sent |-> 0, received |-> 0, lost |-> 0]
    /\ track = [last |-> 0, repeats |-> 0]
    /\ minted = {}
    /\ reader = [at |-> "away", repeats |-> 0, received |-> 0]
    /\ asked = [i \in Requests |-> 0]

-----------------------------------------------------------------------------
(* The loop.                                                               *)

Latest == Max({0} \cup minted)

\* while !halted && (count == 0 || i < count)
Test ==
    /\ loop.at = "test"
    /\ (flow.count = 0 /\ ~halted => loop.i < MaxRequests)
    /\ loop' = [loop EXCEPT !.at =
          IF halted \/ (flow.count # 0 /\ loop.i >= flow.count) THEN "ended" ELSE "acquire"]
    /\ UNCHANGED <<flow, clock, halted, idle, fetches, stats, track, minted, reader, asked>>

\* Fault: a closed loop that finds no consumer drops the arrival too.
DropsAny == TRUE

\* A full window loses the arrival of an open loop; a closed loop waits.
Drops == flow.open

\* A consumer is free: the request counts as sent and its task is spawned.
Issue ==
    /\ loop.at = "acquire" /\ idle > 0
    /\ idle' = idle - 1
    /\ stats' = [stats EXCEPT !.sent = @ + 1]
    /\ fetches' = fetches \cup {[i |-> loop.i, at |-> "out", version |-> 0]}
    /\ asked' = [asked EXCEPT ![loop.i] = @ + 1]
    /\ loop' = [at |-> "pause", i |-> loop.i + 1]
    /\ UNCHANGED <<flow, clock, halted, track, minted, reader>>

Drop ==
    /\ loop.at = "acquire" /\ idle = 0 /\ Drops
    /\ stats' = [stats EXCEPT !.sent = @ + 1, !.lost = @ + 1]
    /\ loop' = [at |-> "pause", i |-> loop.i + 1]
    /\ UNCHANGED <<flow, clock, halted, idle, fetches, track, minted, reader, asked>>

\* The delay of the pattern, or no delay; a stop ends it.
Pause ==
    /\ loop.at = "pause"
    /\ \E to \in {"test"} \cup (IF halted THEN {"ended"} ELSE {}) : loop' = [loop EXCEPT !.at = to]
    /\ UNCHANGED <<flow, clock, halted, idle, fetches, stats, track, minted, reader, asked>>

\* AppHandle::stop.
StopApp ==
    /\ ~halted /\ halted' = TRUE
    /\ UNCHANGED <<flow, clock, loop, idle, fetches, stats, track, minted, reader, asked>>

-----------------------------------------------------------------------------
(* The fetch tasks.                                                        *)

\* What may come back: the newest version from the publisher, an older one from a cache on the
\* path; an unversioned flow is answered by a producer.
Answers == IF flow.versioned THEN minted ELSE {0}

\* fetch_with returns Data: on_recv.
Reply(f) ==
    /\ f.at = "out"
    /\ \E v \in Answers : fetches' = (fetches \ {f}) \cup {[f EXCEPT !.at = "got", !.version = v]}
    /\ stats' = [stats EXCEPT !.received = @ + 1]
    /\ UNCHANGED <<flow, clock, halted, loop, idle, track, minted, reader, asked>>

Advances(v) == v > track.last

\* on_version.
OnVersion(v) ==
    IF Advances(v) THEN [track EXCEPT !.last = v] ELSE [track EXCEPT !.repeats = @ + 1]

\* on_reply.
NoteVersion(f) ==
    /\ f.at = "got"
    /\ track' = IF flow.versioned THEN OnVersion(f.version) ELSE track
    /\ fetches' = (fetches \ {f}) \cup {[f EXCEPT !.at = "over"]}
    /\ UNCHANGED <<flow, clock, halted, loop, idle, stats, minted, reader, asked>>

\* The Interest's lifetime ends, or the app's faces are gone.
Fail(f) ==
    /\ f.at = "out"
    /\ stats' = [stats EXCEPT !.lost = @ + 1]
    /\ fetches' = (fetches \ {f}) \cup {[f EXCEPT !.at = "over", !.version = -1]}
    /\ UNCHANGED <<flow, clock, halted, loop, idle, track, minted, reader, asked>>

\* Fault: only a fetch that succeeded gives its consumer back.
ReturnsIfServed(f) == f.version # -1

\* The consumer goes back to the pool, whatever came of the fetch.
Returns(f) == TRUE

Return(f) ==
    /\ f.at = "over"
    /\ fetches' = fetches \ {f}
    /\ idle' = IF Returns(f) THEN idle + 1 ELSE idle
    /\ UNCHANGED <<flow, clock, halted, loop, stats, track, minted, reader, asked>>

-----------------------------------------------------------------------------
(* The publisher, the clocks, the snapshot.                                *)

\* The mint time, or one more than the version before.
NextVersion(now) == Max({now, Latest + 1})

Mint ==
    /\ flow.versioned /\ ~halted
    /\ Cardinality(minted) < MaxVersions
    /\ minted' = minted \cup {NextVersion(clock)}
    /\ UNCHANGED <<flow, clock, halted, loop, idle, fetches, stats, track, reader, asked>>

\* Time passes, or the node's clock is set.
SetClock ==
    /\ flow.versioned
    /\ clock' \in 0..MaxClock
    /\ UNCHANGED <<flow, halted, loop, idle, fetches, stats, track, minted, reader, asked>>

\* snapshot reads the version track before the counters.
SnapBegin ==
    /\ reader.at = "away"
    /\ reader' = [reader EXCEPT !.at = "between", !.repeats = track.repeats]
    /\ UNCHANGED <<flow, clock, halted, loop, idle, fetches, stats, track, minted, asked>>

SnapEnd ==
    /\ reader.at = "between"
    /\ reader' = [reader EXCEPT !.at = "away", !.received = stats.received]
    /\ UNCHANGED <<flow, clock, halted, loop, idle, fetches, stats, track, minted, asked>>

LoopNext == Test \/ Issue \/ Drop \/ Pause
TaskNext == \E f \in fetches : Reply(f) \/ NoteVersion(f) \/ Fail(f) \/ Return(f)
FlowNext == LoopNext \/ TaskNext \/ StopApp \/ Mint \/ SetClock \/ SnapBegin \/ SnapEnd

\* The loop and the tasks are polled, and an Interest's lifetime ends.
FlowFairness == WF_flowVars(LoopNext) /\ WF_flowVars(TaskNext)

FlowSpec == FlowInit /\ [][FlowNext]_flowVars /\ FlowFairness

-----------------------------------------------------------------------------
\* The counters account for every request and the pool for every consumer, whatever the
\* interleaving of the loop with its tasks, replies, timeouts and the stop; a closed loop
\* expresses every prefix/<i> below its index once and drops none, whatever its window (app.rs:
\* "every prefix/<i> is fetched, none dropped"), an open loop expresses none twice.
RequestsAccounted ==
    /\ stats.sent = stats.received + stats.lost + Cardinality({f \in fetches : f.at = "out"})
    /\ idle + Cardinality(fetches) = flow.window
    /\ Cardinality(fetches) = Cardinality({f.i : f \in fetches})
    /\ \A i \in 0..loop.i - 1 : asked[i] <= 1 /\ (~flow.open => asked[i] = 1)

\* No version counts as new twice, however replies are reordered, cached or stepped over by the
\* clocks: the replies received, less the repeats, less those whose task has counted them and not
\* noted their version yet (on_recv before on_reply), are at most the versions minted.  A snapshot
\* takes the repeats first, so its new_versions() is never below zero; it may be above the versions
\* minted, by those replies and by the repeats noted between its two readings.
NewVersionsSound ==
    /\ flow.versioned /\ reader.at = "away" => reader.repeats <= reader.received
    /\ flow.versioned =>
          stats.received - track.repeats - Cardinality({f \in fetches : f.at = "got"})
              <= Cardinality(minted)

\* What a flow reports is sound: its counters, and what it says of versions.
StatisticsSound == RequestsAccounted /\ NewVersionsSound

\* A stopped flow, and a flow of count requests, ends, with every request answered or lost.
FlowsEnd ==
    <>(halted \/ flow.count # 0) => <>(loop.at = "ended" /\ fetches = {})
=============================================================================
