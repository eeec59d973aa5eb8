# ndn-sim: a verification project

TLA+ models of this repository's three crates, checked with TLC, with theorems checked with
TLAPS. Paths below are relative to `crates/ndn-sim/src/` unless they name another crate
(`studies/` is `crates/ndn-sim-studies/src/`, `conformance/` is
`crates/ndn-data-conformance/src/`); `PROJECT.json` maps every definition to the lines it
stands for.

ndn-sim runs real NDN forwarding engines over simulated links, radios and UDP stacks, on a
virtual clock or on the wall clock, while callers inject faults. What a study concludes from
a run rests on things no single test sees: that no task sleeps through its wake-up, that a
shared medium really carries one frame at a time, that a fault reaches the link it was aimed
at, that a watchdog's "stalled" is true, that two devices end up with the same element. Those
are what the models are about.

## 1. Inventory

### The system's parts

| part | source | state it keeps | operations | modules |
|---|---|---|---|---|
| Discrete-event executor | `des.rs`, `stepper.rs` | task slots and their free stack, ready queue, timer heap, virtual clock | `spawn`, `DesSleep::poll`, wakers, `poll_ready`, `advance_to_next_timer`, `block_on`, `step`, `run_until` | `DesExecutor` |
| Shared airtime channel | `shared_channel.rs` | `busy_until`, statistics | `transmit` | `SharedChannel` |
| Simulated face | `sim_face.rs`, `sim_link.rs` | bandwidth cursor, last delivery, fault knobs (`LinkState`), bounded far queue | `send_bytes`, the delivery task, `recv_bytes`, the knobs' setters, `HoldRule` | `SimFace` |
| Radio medium | `radio.rs` | frames in the air, the radio log, MAC mode | `transmit_inner`, `sense_busy_until`, `send_bytes`, `set_mac_mode` | `RadioBus`; its cached view in `World` |
| UDP stacks of config-booted nodes | `sim_udp.rs`, `config_boot.rs` | sockets, on-demand faces, ephemeral cursor | `UdpNet::build`, `demux`, minting, cancellation | `UdpNet` |
| Running fabric | `topology.rs` | nodes, links, link states, apps | `spawn_node`, `connect`, `set_link_up`, `partition`, `heal`, `remove_node`, `spawn_app`, `stop_app`, `shutdown`, `Simulation::start` | `Fabric`, `Scenario` |
| Per-node clock skew | `clock_skew.rs` | offset, drift, anchor | `set`, `unix_nanos` | `ClockSkew` |
| Field kit and watchdog | `fieldkit.rs`, `liveness.rs`, `ceiling.rs`, `adversary.rs` | replicas' stores and vectors, the progress ledger | the catch-up steps, publish, restart, `watch` | `Catchup` |
| Apps | `app.rs` | consumer pool, requests, version track, counters | the fetch loop and its tasks, publisher, snapshot, stop | `AppFlows`; spawn and stop in `Fabric` |
| Co-simulation and world | `cosim.rs`, `world.rs` | positions, generation, spatial grid, recording | `drive_cosim`, edits, range queries, replay | `World` |
| Control plane | `control.rs`, `control_plane.rs`, `replay.rs` | the fabric it drives, the journal, notifications | `execute`, `handle_json`, `start_recording`, `Recording::replay` | `Session` |
| Scenario validation | `validate.rs`, `scenario.rs` | one run's fabric, measurements, verdicts | `Scenario::build`, `run_core`, `run_once`, properties, baseline gates | `Validation`, `Scenario` |
| IP comparison plane | `studies/ip.rs`, `routing.rs`, `lora.rs`, `wifi_mac.rs` | FIBs, links, flows, LoRa frames and duty windows | `handle`, `send_on`, flow loop, link changes, re-routing, `begin_tx`, `resolve` | `IpPlane`, `IpRouting`, `LoraMedium` |
| Reference trust provider | `conformance/reference.rs`, `provider.rs` | trust-context versions, certificates, manifests, data layers | revoke, readmit, end, renew, recover, restart, spread | `TrustContexts` |
| Conformance cases and world | `conformance/world.rs`, `runner.rs`, `cases/*` | devices, logs, records, pieces, holders | 57 cases over the world's verbs | `CasePlans`, `CaseWorld` with `CasesMembers`, `CasesKeys`, `CasesFolders`, `CasesRule`, `Cases`; `CustodyWorld` with `Custody`; `Conformance` |
| Element rule | `conformance/element.rs` | an element, applied versions, locks | `check`, `apply`, `now_counted` | `ElementRule` |
| Tokio kernels, geometry, propagation, Wi-Fi and energy formulas, observability, bridges, builder surface, reports | `kernel.rs`, `geometry.rs`, `scene.rs`, `medium.rs`, `link_model.rs`, `wifi.rs`, `energy.rs`, `tracer.rs`, `telemetry.rs`, `otel_export.rs`, `span_capture.rs`, `analysis.rs`, `netstat.rs`, `keel.rs`, `bridge.rs`, `mavlink.rs`, `mcp.rs`, `lib.rs`, `topo.rs`, `bin/ndn-lab.rs`, `studies/phy.rs`, `compare.rs`, `cognition.rs`, `conformance/report.rs` | a library's, none, or buffers of reports | - | not modelled (section 5) |

### How they interact

- An engine (a library, external here) calls `send_bytes` on its faces and `recv_bytes` on its
  receive queues. A face shapes, drops or holds the frame, claims airtime from the
  `SharedChannel` if its profile names one, and spawns a task on the kernel that sleeps until
  the frame is due and then enters the far queue.
- On the discrete-event kernel those tasks, the engines and the apps are futures in the
  executor's slots: one thread polls them, and a poll re-enters the executor (spawn, sleep,
  wake) through a lock that is released around the poll. On the wall-clock kernel the same
  code runs on many threads.
- The fabric owns the engines and one `LinkState` per direction of a link. Faults reach a face
  by turning the knobs of that state while frames are in flight. The control plane and the
  validation runner are clients of the fabric: one with overlapping commands that it journals,
  one with a fault schedule between sleeps.
- A `RadioBus` is shared by the radio faces of all nodes; the stamps it compares come from the
  nodes' clocks, which `ClockSkew` may have set wrong. It asks the world who is in range,
  through a view cached by instant and generation, while co-simulation moves the nodes.
- `UdpNet` sits under the engines of config-booted nodes and delivers to the face that a
  kernel's socket table would pick.
- The field kit's replicas and publishers run over a fabric's links; they report to a ledger
  that a watchdog samples.
- A conformance case drives devices (one data layer each, a library) through the world's verbs;
  what they may trust comes from the reference provider, and how versions merge from the
  element rule where a case brings its own.

### What is hard here

Re-entrancy of the executor (a waker fires for the very future that is being polled, a poll
spawns into its own slot, a slot is reused while a waker names it); a clock that jumps; clock
readings taken before a lock and used under it; delivery tasks overtaken by changes of the
knobs; a bounded queue that blocks a sender or a delivery task; collisions decided when the
second frame starts, after the first one's delivery was scheduled; on-demand faces removed by
an engine behind the socket table's back; fabric operations that read under one lock
acquisition and act under the next; an engine that is built while the fabric is shut down;
replies that come after their fetch gave up; a deadline that cancels a step between its store
and its report; a view cached under a generation that is bumped after the edit; versions that
arrive in any order; cuts computed from what the signer happens to hold. `PROJECT.json` lists
each at its line (`hazards`), with the properties that watch it.

### What makes each part correct

| part | what must hold |
|---|---|
| executor | two futures never share a slot; a parked future is queued or everything it waits for will wake it; the clock never passes a sleeping future's deadline; a deadlock panic is true |
| shared channel | claims are disjoint and in order even with stale readings; backlog is bounded; no airtime is wasted or overcharged |
| face | a stream stays in order whatever the knobs do; what arrives is there exactly once; the hold rule holds exactly its window; the send path uses the channel as its specification allows |
| radio | both frames of a collision lose; nothing is lost without cause; one verdict per frame and receiver; listen-before-talk serialises |
| UDP | a neighbour occupies one face; sockets stay distinguishable; datagrams reach the face of their peer; ephemeral ports never clash |
| fabric | links have live ends and two directions; a knob governs the face that routes use; every engine and app has exactly one owner |
| clock skew | readings clamp and never wrap; between two settings the clock is monotone; a setting steps to true time plus offset |
| field kit | what is stored is what was published; the acknowledged vector has no hole; what is stored is reported; consumers catch up; a stall is real silence |
| apps | every request ends in one counter; version statistics never underflow; a flow ends |
| world | a range query after an edit sees it; a recording replays through what was driven |
| control plane | the replay of a journal rebuilds the fabric of a session whose commands took effect in the journal's order; who hears the notices knows the nodes |
| validation | a verdict is what the measured runs say, with the faults at their offsets |
| IP plane | every packet is accounted for, loops end, tables reach what is reachable; LoRa verdicts match the air and duty cycles are kept |
| trust | a device away for long can follow; a thief's later writings are out, the owner's earlier ones in, through every recovery |
| conformance cases | no assertion of a case fails and no wait runs out because of the order in which logs spread, and a case comes to an end |
| element rule | the same versions give the same element; answers to writers hold; a late reader agrees |

## 2. The modules

One critical section, or one stretch without an await, is one step. A definition headed
`Fault:` is a plausible bug in the definition that follows it. It is not part of any
specification: it shows, for one property, that the property can fail.

**DesExecutor** (`des.rs`). The variables are the fields of `Inner` under their own names
(`now_ns` is `now`; `poll_ready`'s local future is `running`). A future is reduced to what it
can do to the executor: spawn, send on another future's channel, yield, create a sleep, await
its sleep, its channel or a `select!` of both. `BeginPoll`, the task's steps and `Park` or
`TaskFinish` are the parts of one poll: the lock is free in between, so wakes and spawns meet
an empty slot. `Advance`, `Quiescent`, `EndStep` and `BlockOnReturns` are the three driver
loops, told apart by `call.op`. The timer heap is a sequence in the order the heap pops it. A
sleep's deadline saturates at `UMax`, as `saturating_add` does.

**SharedChannel** (`shared_channel.rs`). `ReadClock` and `TransmitRead` are a send on the
wall-clock kernel (clock read first, lock taken later); `TransmitNow` is the two at one
instant. It is also the abstract specification of the medium, which `SimFace` implements.

**SimFace** (`sim_face.rs`). One action per exit of `send_bytes`: down,
refused by the channel, lost, delivered inline, delivered by a task. The order inside the code
is kept: hold rule, backlog check, airtime claim, loss roll, cursor, delivery time. `log`
records each frame's fate. The bounded far queue, its waiting senders and `recv_bytes` are
`Enter`, `waiters`, `blocked` and `Recv`. `SimFace` holds an `INSTANCE` of `SharedChannel`
whose claim it calls, and `ImplementsChannel` is that module's specification under the
refinement mapping. Its first section is the
arithmetic of `on_wire` and `frame_bytes`, which `MCSimFace` compares with a
fragment-by-fragment reference.

**RadioBus** (`radio.rs`). `Transmit` is `transmit_inner`: prune, evict down to `InAirCap`,
find the concurrent frames, decide every receiver in range, retro-collide the earlier frames,
schedule the survivors. `Land` is the delivery task. `Inject` sends in monitor mode;
`BeginSend`, `Defer` and `Talk` are the carrier-sense loop of managed mode; `SetMacMode` may
switch at any moment. `verdict` is the radio log.

**UdpNet** (`sim_udp.rs`). `LinkPeers`, `BindPeerFace` and `BuildDone` are `build`, entry by
entry and with its error exits; TLC starts from each configuration. `DeliverToFace`, `Mint`
and `Drop` are `deliver` with `demux`; datagrams on the wire arrive in any order or never.
`Reap` is the engine's idle reaper (external), `Cancel` a node's removal. Where no ephemeral
port is free the code's search does not return; the action is then disabled.

**Fabric** (`topology.rs`). The public operations up to their first await or lock release,
and the steps by which calls that have begun go on; any number of calls overlap. Engines are
`none`, `building`, `up`, `stopping` or `down`. **Scenario** is the same fabric as one value,
with the calls as operators, for clients that make them one at a time; it adds routes, places,
radio routes and `Simulation::start`.

**Toolkit** puts the parts around the network into one specification. They share no state, so
a behaviour exercises one of them while the others rest.
- **ClockSkew** (`clock_skew.rs`): reading the true clock and using it under the lock are two
  steps, for `set` and for `unix_nanos`; Rust's truncating division and the clamp are explicit.
- **Catchup** (`fieldkit.rs`, `liveness.rs`, `ceiling.rs`, `adversary.rs`): publishers with a
  persistent or a volatile store, replicas that fetch by pairing or by arrival, lost and held
  replies, a cut, restarts, deadlines around a fetch or around the whole step, the ledger and
  the watchdog. A cell fixes which of the shapes of consumer a behaviour has. The sync group is
  external: modelled as state vectors that are advertised at any moment.
- **AppFlows** (`app.rs`): loop, tasks, publisher and the reader of the statistics as threads.
- **World** (`cosim.rs`, `world.rs`, `radio.rs`): an edit is two steps (the map, then the
  generation), a query three (generation, cache, map).
- **Session** (`control_plane.rs`, `replay.rs`): clients on several threads. `execute` holds no
  lock over the next, so a command is up to four steps: the journal entry (`Enter`), its act on the
  fabric (`Act`; a spawn only draws its number there), the node's insertion or the app's handle
  (`Built`, `HandleRecorded`), the notice (`Publish`). The journal's order is therefore not the
  fabric's, and a removal may be announced before the spawn it undid. Two pairs of look-ups stay one
  step: a route's face and its entry in the FIB, because a node removed in between takes its FIB
  along, and an app's node and its number, because the app of a removed node keeps its handle and
  its number either way. The replay is a fold of `Scenario`'s operators.
- **Validation** (`validate.rs`): a sweep of seeds and kernels, one step per sleep.

**IpPlane**, **IpRouting**, **LoraMedium** (`studies/`): the receive loops and flow loops as
tasks with one packet in hand; links as queues; `IpRouting` has the seven algorithms as
operators, each of their loops a recursive function of the turn; `u32::MAX` is a number no path
is as long as (`SizeAssumption`); the LoRa medium resolves a frame at its end against all that overlapped it.

**TrustContexts** (`conformance/reference.rs`): one person's namespace. A version carries its
anchors, revoked keys and their cuts; what each node has verified, kept and holds is state.

**CaseWorld** and **CustodyWorld** (`conformance/world.rs`, `cases/mod.rs`) are the two worlds
the 57 cases run in, **Cases...** and **Custody** the cases' scripts, one disjunct per step, and
**Conformance** runs each from its own start beside the **ElementRule**. In a case the script
is the code and its assertions are the property: a failed assertion makes the verdict
"fail". A wait (`Until`, `ReadWhole`) ends when its condition holds or at its limit, and at its
limit the case fails, as `World::until` returns a `Failure`; a limit is a time, and the models
take it to be longer than any delivery: it may run out only once all that can arrive has arrived
(`LimitOver`; `LIMIT` is 120 s of virtual time, `conformance/cases/mod.rs:152`).

Some things are narrower than a data layer might be, and what the cases assert of them holds
under that narrowing. Audits draw random pieces, but at most two in a row miss a holder that lost a
quarter: the third catches it (`Hold`, `Audits`), and h3 asserts that it has been caught by then. A
prune spreads from the device that wrote it and from no other, which is what h9 starts from. A
writer puts a version once the members record that lets it has reached its device, also in a case
that has no wait of its own for that. One writer's log arrives up to its head. Sizes (readings,
blocks, pieces) are scaled down to the fewest that keep a case's distinctions; measures, costs and
answer ages are left out.

## 3. The runs

Properties are composites where several statements make one claim; their parts are in
parentheses.

| run | what it shows | bounds, and why they are enough |
|---|---|---|
| `des` | `Housed` (`TypeOK`, `SlotsSound`, `Placed`), `NoLostWakeup`, `Punctual`, `DeadlockIsReal`, `SleepersWake` | Two futures and the root: one polled, one in the slot it frees or wakes. A 2-bit clock, so that durations cover deadlines that are now, ahead, equal and saturated. Four operations allow a stale timer (a sleep, and a send that ends its `select!`) and a new sleep in the reused slot in one behaviour. |
| `channel` | `MediumSound` (`TypeOK`, `Serialised`, `BacklogBounded`, `NoIdleGap`, `AirtimeFits`) | Two racing senders, two datagram lengths (one below, one above the backlog bound), four claims, clock to 5: readings as stale as the medium is busy. |
| `face_shared` | `ImplementsChannel`; the assumption `FragmentsAsIPv4` | A stream and a lossy, fragmented datagram face on one channel, three frames, two knob changes at any moment. Fragments: lengths 0..80 and MTUs 0, 20, 27, 28, 35, 36, 37, 44, 60, that is below, at and past one header and one, two and more 8-byte units. |
| `face_shaped` | `DeliverySound` (`TypeOK`, `InOrder`, `ArrivedOnce`, `HoldWindow`), `InFlightArrives` | One zero-delay stream with a bandwidth cursor and a far queue of one place; three frames, so that one is queued, one waits and one blocks its sender; two changes of down, loss, extra delay, hold, reset or close. |
| `radio` | `AirSound` (`TypeOK`, `BothLose`, `LossJustified`, `OneVerdict`), `CsmaSerialises` | A chain in which the outer radios hear but cannot decode each other; three frames; two sensing attempts, so that a sender defers, defers again and gives up; mode switches at any time. |
| `udp` | `OneFacePerNeighbour`, `SocketsSound` (`TypeOK`, `DistinctEndpoints`, `FromItsPeer`, `EphemeralNeverClashes`) | Two hosts under every pair of configurations, and a star whose centre has two entries. A three-port ephemeral range wraps. Two datagrams and two minted faces: one mint, one reap, one mint again. |
| `fabric` | `GraphSound` (`TypeOK`, `LinksSound`, `KnobGoverns`), `NothingLeaks` (`EnginesOwned`, `AppsOwned`, `OnlyLateLeft`) | Three nodes; two links, the same link twice, or one link and an app; one cutting operation, and a shutdown at any moment. |
| `toolkit` | `Monotone`; `NoPoison`, `EventsReported`, `NoHole`, `StallIsSilence`, `Drains`; `StatisticsSound` (`RequestsAccounted`, `NewVersionsSound`), `FlowsEnd`; `RangeQuerySound`, `FeedRecorded`; `SessionSound`; `VerdictStands` | Clock: 3 bits, drifts in halves both ways, offsets past both ends, a setter against a reader, two changes. Catch-up: one replica, an honest and a hostile publisher of two Blocks, nine shapes of consumer, one fault among loss, hold, cut and restart, a budget longer than the watchdog's patience. Flows: closed with three requests, open without end, versioned; window two. World: one body, two points, a feed out of order, an engine under a reader, an operator under a reader. Session: two clients, nine commands, an empty and a running scene, three requests, so that one command is journaled before and acts after another, and a spawn is overtaken by a command on its node. Validation: five fault schedules (none, out of order, past the end, failing), two scenes, two kernel lists, three baselines. |
| `ip_plane` | `TrafficSound` (`EveryPacketAccounted`, `FlowAccounts`), `LoopsDieOut`, `TablesSound`, `LoraSound` (`VerdictsSound`, `DutyHolds`) | Five networks of three nodes for traffic, with a cut or a move at any moment; the tables of every algorithm over thirty networks of four nodes, voids and disconnected ones among them. |
| `trust` | `Followable` (`TypeOK`, `NoneLeftBehind`, `CutsBound`), `ThiefShutOut`, `CutStillVerifies`, `EndedAtLapse` | The root device, a phone and a thief with the phone's key; five versions, a clock one tick fast, right or slow. |
| `conformance` | `NoCaseFails`, `NoCaseHangs`; `Converged`, `AnswersHold`, `ShownSound` (`AlternativesAreLatest`, `LateAlikeInLine`) | All 57 cases, each with its own devices; a log or piece is at most `Lag` deliveries late. Element rule: two writers, one with the lax rule, and a late reader, three operations of every kind. |
| `element_late` (violated) | `LateAlike` | See section 6. |

Deadlock is checked in `des`, where a driver always has a move, and in `channel`, where a datagram
can always be offered. In the other runs the bounds on clocks, frames and operations make a
behaviour end, so that a state without a next step is no sign of a deadlock in the code; where
everyone waiting on everyone is the hazard, a property says so (`DeadlockIsReal`, `ArrivedOnce`
with `InFlightArrives`, `FlowsEnd`, `NoCaseHangs`).

### Fairness

- `DesExecutor`: weak fairness of a task's or the driver's next step. Inside `block_on`, `step`
  and `run_until` the loop runs on unless a future never returns from `poll`; the modelled
  futures do return. Nothing is assumed of the host: `SleepersWake` therefore says that a
  sleeper wakes if the executor is driven again and again.
- `SimFace`: weak fairness of deliveries and of the clock: a timer of the kernel fires (which is
  what `DesExecutor` shows), and an engine keeps reading a face it has not closed.
- `Catchup`: weak fairness of the consumer's next step, of a reply that is on its way and of
  advertisements, which the sync group repeats; none of losses and restarts, which are bounded.
- `AppFlows`: weak fairness of the loop and of the tasks, which are futures of the kernel.
- `Conformance`: weak fairness of the case's next step or that of its devices' layers: the runner
  drives the case and the layers' tasks run. That a wait is over in time is no matter of fairness:
  one that is still unmet when all is at rest fails the case, and `NoCaseFails` sees it.
  `NoCaseHangs` says that all does come to rest, and that a case's own loops end. `Lag` bounds how many logs a device may take and has
  not while the case goes on, so a log that lags is taken in the end.

Safety properties use none of it.

## 4. What is proved

TLAPS proves the following for every value of the constants, under the named assumptions the
modules make on them; TLC evaluates those assumptions on each instance. The only other
hypotheses are the two of `RadioBusProofs`, below. `PROJECT.json` lists the theorems.

Every proof has the same shape: an inductive invariant that holds in `Init`, that every action
keeps (one lemma per action, one step per conjunct the action can disturb), and that implies the
property. What the invariant adds to the property is the argument.

### `SharedChannelProofs`: any senders, rate, overhead and backlog bound

`MediumIsSound`. `IInv` adds to the four claims `ReadingsPast` (no reading is later than the
clock: with one that is, a claim could start in the future and the backlog bound fail) and
`Committed` (`busy` is the end of the last claim, and no claim ends later: without it a new claim
could overlap an old one). `ClaimKeeps` is the core: one claim, made with any reading up to now,
keeps every conjunct.

### `DesExecutorProofs`: any finite set of futures, any durations, any clock width

- `FuturesHoused` (`Housed`). `SlotInv` is types, `SlotsSound` and `Placed` together, for they
  need each other: a spawn overwrites nobody because the free stack lists only empty slots, and a
  finished future's slot may be pushed because nobody else is in it.
- `NoOverdueTimer`: by what `JumpTo` pops, nothing in the heap is due.
- `NoWakeupIsLost`, `SleepsArePunctual`. `WakeInv` adds to `SlotInv` and `TimersAhead` that the
  heap is `Sorted`, that a sleep has the shape its state says, that a registered sleep has its
  timer until its deadline (`Timed`) and is queued when that comes (`OnTime`), that a parked future
  is queued or everything it waits for will wake it (`WillWake`), and that the running future's own sleep has its timer while the slot is empty:
  a timer may fire for a future that is being polled, and what keeps that wake from being lost is
  that the queue takes slots, not futures.
- `DeadlocksAreReal`: `DeadlockInv` adds that nothing runs after the panic. By `WakeInv` a parked
  future that is neither queued nor timed awaits its channel only, so that with queue and heap
  empty everyone waits for a message nobody is left to send.

### `SimFaceProofs`: any profiles, knobs, queue bound and clock

- `FacesImplementChannel`: under the refinement mapping the initial states of `SimFace` are
  initial in `SharedChannel`, and each of its steps is a step of `SharedChannel` or leaves the
  channel alone. `FramesAreDatagrams` says that what a face claims is a datagram of the abstract
  medium, so that the mapping is into what that specification is about.
- `DeliveryIsSound` (`DeliverySound`). `FaceInv` has three parts beside the types. `Timely`: the
  frames in flight on a reliable face are due in the order in which they were sent, and none is
  due before the last delivery (`OnTime`, `InTurn`); extra delay and jitter change between sends,
  and this is what the face's cursor is for. `Ends`: what was read, is queued, waits or blocks is in
  sending order and, on an open face, is what the log calls arrived, each frame once (`EndSound`).
  `HoldCounts`: the frames the rule has matched since it was set are what its counter says
  (`Counted`), over any interleaving with drops and refusals.

### `NetworkProofs`: the fabric and the IP plane

- `GraphIsSound`, `NothingIsLeaked`, for any nodes, apps, faces and cuts. `FabricInv` adds what
  calls under way hold (`CallTypes`: the knobs a cut collected, the lists a shutdown took) and
  `Fresh` (ids are handed out once; nodes are stopped only after they were taken). One lemma per
  step of each call; the step that needs the most is a spawn that completes while the fabric is
  being shut down. Of what is in the maps after that, `OnlyLateLeft` says that it was all put there
  since: shutdown misses nothing that was there.
- `CountersAreTrue` (`TrafficSound`) and `NoPacketCirclesForever` (`LoopsDieOut`), for any nodes,
  links, positions, times to live, changes of links and re-routes. `TrafficInv` names the places a
  packet can be in (`TrafficTypes`), ties a flow that is sending to its task (`FlowOnAir`), and
  gives the argument of the second: what was forwarded and the hops the packets in flight may
  still make are at most what the packets sent were allowed (`HopsLeft`), whatever the tables say;
  a forwarding step moves one hop from the one to the other.
- `ForgettingIsSound` (`LoraSound`), for any airtime, off-time, range and movements. `AirInv` says
  that the medium's windows are those of frames that were sent (`WindowsTrue`), that one is
  forgotten only when it can overlap no frame on the air now or later (`WindowsKept`), that what has
  a verdict is over (`FramesPast`), and that a node's next frame waits out the off-time of its last
  (`Regulated`): every verdict is as it would be with no window forgotten (`VerdictsRight`).
- `TablesAreShortest` (`TablesSound`, and `TablesAreRight` at every moment of every behaviour), for
  networks of any size, links, positions and changes. `RoutingInv` says only that the tables are
  those of the topology last routed over; the rest is about what the algorithms compute, which are
  loops. A loop is a function each of whose values is made from the one before (`IsLoop`), and
  what its turns hand on holds at its end (`LoopKeeps`, from `LeastOne`: a set of numbers has a
  least one). "Within k hops" is a ball, itself such a loop (`BallGrows`, `BallFrom`, `BallThrough`).
  - Dijkstra (`DijkstraIsShortest`): every distance found is that of a path by the remembered
    first hop (`PathsFound`); nothing is found farther than a hop past the heap's entries, and what
    has left the heap has all its neighbours found, one hop farther at most (`Closed`,
    `SearchInv`). Each pop takes one node off what is left to do, the heap's nodes and those not
    found (`ToDo`), so the heap is empty after as many pops as there are edges, and one
    (`SearchEnds`).
  - Distance vector (`DistanceVectorIsShortest`): after k rounds every vector is right about
    whatever is within k hops and cheaper than `max_metric` (`Known`), however the rows are updated
    in place within a round (`RoundLearns`); n rounds are enough because no shortest path is longer
    (`BallsEnd`). Reach is therefore n for Dijkstra and 15, one less than `max_metric`, here.
  - Greedy geographic (`GreedyHopIsCloser`) and the relays (`RelaysReachAll`): while a two-hop
    neighbour is uncovered some neighbour covers it, so a further relay is found (`NextRelay`),
    and there are no more rounds to go when every neighbour is one.
  - A table's hops are neighbours, so each has a face and is installed as it is (`AllInstalled`).

### `DataConformanceProofs`: the reference provider and the element rule

For any devices, entries, versions and skew: `AwayDevicesFollow`, `ThievesAreShutOut`, `CutsStillVerify`, `LapsesAreBounds`. `TrustInv` has
four parts. `ContextPart`: a revocation is for good, every revoked key has a manifest published
with the version that revoked it, and a device that holds a version keeps the manifests of those
before. `CertPart`: after a recovery each certificate chain ends at the newest anchor.
`TheftPart`: whatever the root device holds of the thief's it verified at or after the theft, by
its own clock. `CutPart`: an entry of the thief in a cut was re-admitted by name, or the owner
named too late a moment. The cut of a later version is computed from the earlier ones and from
what the signer then holds, so the four are inductive only together.

For any writers, readers and operations, of `ElementSpec` (the element rule alone; in
`Conformance` it runs beside the cases and shares no state with them): `SameVersionsSameElement`
(`Converged`) and `AnswersAreKept` (`AnswersHold`). `RuleInv` says that versions are numbered
apart (`Numbered`), that a holder has each version once, with no more of its past than it holds
(`Listed`), that a writer has it with the whole of its past (`AsMade`), and that what is
`reported` is exactly what does not count (`Answered`). An answer can only turn from "not
counted" to "counted", because a version that arrives is in the past of none that was there
(`CountsOn`): no new lock can hold what counted. And the merged element, with its order and its
locks, is a function of the set of versions (`AlternativesOfSet`), which `AsMade` makes the same
set at every writer.

`WhatCountsIsShown` (`ShownSound`) adds `HistoryInv`: pasts are closed, so that what a version was
made over includes what that was made over (`MadeSound`), a holder has each version after its past
and as it was made, but for what the checkpoint it began at covers (`HasHistory`, `Began`). Hence
the versions can be put in order to the last one (`HistoryIsOrderly`, `OrderOfAll`: the `expect`
in `order` of `element.rs` is never met). `SlotsAreLatest` follows the slots place by place: after
each version a slot has the writes of the counting ones that none so far replaced; with all of
them placed that is `AlternativesAreLatest`. For a device that began at a checkpoint (`Replays`),
what is covered comes first in the order of one that replayed it (`CoveredFirst`), the rest in the
same order after it (`OrderAlike`); the checkpoint clears what the covered versions wrote, and
from there on the slots are alike (`SlotsAlike`). A covered lock is in force only as one the
checkpoint states (`CoveredLock`), so the same versions count. The assumption is that a writer
has something to put, and that it is a sequence of edits. The orders and the slots are recursive
functions; induction on their length is on a set of numbers (`CountUp`, from the least number that
would be missing).

### `UdpNetProofs`: any hosts, configurations and ephemeral range

`OneFaceEach`, `SocketsAreSound`. `UdpInv` says that a socket and its face agree and live
together (`Agree`, `Owned`), that the endpoints of the three kinds of socket are apart (`Apart`),
which entries have been bound (`FromEntries`, `EntriesBound`, `OwnPeer`), and that a datagram on
the wire carries the endpoints of a face (`OnTheWire`). `Shy` is the point: a listener never mints
a face towards a host whose configuration mirrors its own, because each datagram from there
carries the endpoints of the entry's own face.

### `RadioBusProofs`: any placement, ranges, channels, airtimes and modes

`AirIsSound`, `ListeningSerialises`, under two hypotheses on a behaviour: `ClocksAgree`, all
radios' clocks read the same (section 6 says what happens otherwise), and `[]CapSuffices`, no more
frames are in the list than `InAirCap` (4096 in `radio.rs:558`; past it the oldest are forgotten,
and nothing is promised). Both hold in the run. `RadioInv`: the bus knows every frame on the air
(`Known`), a scheduled delivery heard no interferer when it started (`Unhindered`), every later
frame has marked those it met (`Marked`), and no mark lacks a cause (`MarkedWithCause`).

### `ToolkitProofs`: the parts of `Toolkit`, each by an invariant of its own

- `ReadingsSaturate`, `SkewsStepToOffset`, `SkewedClockIsMonotone`: any offsets, drifts and
  width. `SkewInv` ties a reader's pending reading to the setting it will be computed with. The
  action property follows from it and from two lemmas on Rust's truncating division.
- `NothingPoisoned`, `VectorHasNoHole`, `StoredIsReported`, `StalledWasSilent`: any publishers,
  replicas and cells. `CatchupInv`: nothing below the vector was passed over (`NoneSkipped`),
  what a replica vouches for it has, over restarts (`Retained`), what it holds or is on its way to
  it is as authored where Data is paired by name (`Genuine`), what is stored and not yet reported
  is in the step's hands (`Told`), and the watchdog's idle count is of samples without progress
  (`Patient`).
- `StatisticsAreSound`: any flows. `LoopCounts` and `PoolCounts` account for every request and
  every permit of the pool, `VersionsCount` for the repeats, `SnapCounts` for a snapshot that reads
  its counters one by one while the flow goes on.
- `RangeQueriesAreSound`: any positions, cell size and radius. `WorldInv`: an edit reaches the map
  before the generation (`InMapFirst`), what a query or the cache holds is right for the
  generation it is labelled with unless an edit is open (`QueriesLabelled`, `CacheLabelled`). The
  grid is in it: `CellsWithinReach`, `NearIsInReach` and `GridFindsAll` show that the cells within
  reach hold every body in range, for negative coordinates too.
- `FeedsAreRecorded`: any feed of any length. `FeedInv`: what is recorded, what the driver has in
  hand and what is to come are, in this order, what was sent. The replay of a node's samples is
  given by ranks (how many samples are not after this one), and `RanksOfOrder` shows, for any
  total order on a finite set, that ranks number it through; so the sort leaves no sample out and
  doubles none, and between two neighbours in it there is nobody.
- `SessionsAreSound`: any clients, scenarios and commands, interleaved lock by lock. `SessionInv`
  has three parts beside the types. `Replays`: what took effect, replayed, is today's fabric with
  the nodes and apps under way laid over it (`Overlay`); and a call that has been journaled and not
  acted yet stands in the journal at its turn (`Entered`). `SucceedsOver` and `OtherwiseOver` are the
  core: a call that names nothing under way does the same with it there as without, so that a
  replay, which finishes each spawn before the next command, and the session, which does not, agree
  (`SpawnOver`, `AppOver` are the first half of a spawn, `InsertOver`, `RecordOver` the second).
  `NumbersApart`: the numbers drawn for what is under way, what is there, what is being shut down
  and what has gone are each other's nowhere; a removed node's number does not come back, which is
  why notices may be heard in any order (`Follows`). The property is of sessions that are not
  `tangled`; section 6 says what the others do.
  That a course of calls of any length exists and is unique (`CourseExists`, `CoursesAgree`) is
  shown by the least length at which it would fail.
- `VerdictsStand`: any specs, whatever the runs come to. `ValidationInv`: what was fired is the
  beginning of the schedule, each fault at its time (`FiredInv`; the schedule is ordered by ranks
  as above), a run's fabric is the start's with exactly those faults, the offset slept to is before the
  next fault (`RunInv`), and every observation is of the fabric after all of them, by the kernel
  and seed of its place in the sweep (`SeenInv`). That a ratio of a hundred hundredths leaves no
  run out is `AllOfThem`.

### What is only model-checked, and why

- Liveness: `SleepersWake`, `InFlightArrives`, `Drains`, `FlowsEnd`, `NoCaseHangs` hold under
  fairness, which is out of the prover's reach.
- `FragmentsAsIPv4`, the fragment reference: an assumption that TLC evaluates, by a recursive
  operator.
- `NoCaseFails`: the 57 cases are concrete scripts over fixed devices; a theorem would be for no
  more values than TLC tries.

## 5. What is not modelled

In modelled parts:

- Face: payloads and the random generator (a loss roll is a choice, by class of rate).
- Radio: on the wall-clock kernel the sensing of the medium and the transmission are two
  acquisitions of the lock (`radio.rs:946`, 551, 962), and two senders may sense it idle together;
  `Talk` is the event-queue kernel's, where no await lies between. SINR capture, rate adaptation, the effect of ACKs and retries on erasure, energy and
  airtime accounting. Radios move in `World`, where range queries are the subject, not under
  frames.
- Fabric: snapshots and strategies; `spawn_node`'s engine configuration. Routes and places are in
  `Scenario`.
- UDP: capture and route installation.
- Field kit: fragment sizes and byte counts; the sync group itself is a library.
- Control plane: requests that only read, the notices of links, routes and moves, stamps, a spawn
  whose engine does not build.
- Co-simulation: geodetic conversion and heading.
- IP plane: the overhead formulas, metrics snapshots, and a router's spawn timer; loss and airtime
  of LoRa are given.
- Studies: of the Wi-Fi MAC only which links an operating mode allows; propagation, SINR,
  rate adaptation and cognition are floating point.
- Conformance: payload sizes, measures, costs and answer ages. The reference provider's storage
  faults are modelled where the cases use them, in `CustodyWorld`.

In whole: the tokio-based kernels (a library's clock and scheduler); geometry, propagation and
energy (floating point); bridges, MAVLink, the MCP and command-line front ends, exporters and
reports (I/O and codecs that change no simulated state); the builder surface (re-exports and
presets); `keel.rs`, whose ring buffers and reports only observe.

Abstractions worth knowing: addresses, names and payloads are model values; durations are small
numbers, with overflow kept where the code saturates or wraps; a random roll is a choice of its
outcomes; the engines, the sync group and the data layers are external, modelled from how the code
uses them.

## 6. Where code and documentation differ

One has a run, `element_late`, in which TLC finds the counterexample: a reader that begins at a
checkpoint and one that replayed the checkpoint's past disagree about a version written *beside*
the checkpoint (`conformance/element.rs:650`), while the test
`a_checkpoint_replaces_its_past_alike_with_or_without_it` (886) tries only a version written over
it. `LateAlikeInLine` is what does hold.

The others were met while modelling; the models follow the code.

Network:
- A held frame can be dropped: `send_bytes` advances the hold rule (`sim_face.rs:412`) before the
  shared channel may refuse the frame; `sim_face.rs:67-69` promises "delayed, never dropped".
- A radio that starts to send while it receives still gets the frame: half-duplex is tested when
  a frame starts (`radio.rs:653`); `radio.rs:125` says "a radio mid-transmit cannot receive".
- An interferer out of decode range that starts after a frame corrupts nothing: retro-collision
  (`radio.rs:679`) runs inside the loop over the newcomer's decode range (611), while 240-241 say
  that a transmitter outside it "still corrupts". `BothLose` speaks of frames the receiver can
  decode.
- With one skewed clock, frames that never overlapped collide: stamps of different clocks are
  compared in one list (`radio.rs:945`, `960`), while `clock_skew.rs:8-10` leaves links untouched.
- A partition does not cut a pair connected twice: the second `connect` replaces the knobs of the
  first (`topology.rs:826-827`), whose faces stay attached; 1777-1778: "cut every link that
  crosses the boundary". `KnobGoverns` asks it of the faces that routes use.
- After `shutdown` the fabric "is empty" (`topology.rs:1897-1899`), yet the link maps keep their
  entries (1904), and a `spawn_node` or `spawn_app` that was under way when shutdown took the maps
  puts its node (1828) or its handle (1214) there afterwards: that engine or app runs on, and nobody
  will stop it. `OnlyLateLeft` says that nothing else does.
- `ephemeral_port` (`sim_udp.rs:383`) does not return when every port is taken.

Tools:
- A watchdog counts acknowledgements of all time, and samples: backlog that appears and goes
  between two samples is not seen, and a cell may be called converged before its last events are
  reported (`liveness.rs:5-12`, 226-232).
- `ndn-lab serve --record` journals "every command so the session can be replayed
  deterministically" (`bin/ndn-lab.rs:513`; `replay.rs:5-6`). But `execute` journals a command
  before it acts (`control_plane.rs:409`, 415ff) and holds nothing in between, and the clients'
  tasks run on several threads (`bin/ndn-lab.rs:260-263`). Two spawns whose journal entries and acts
  cross get each other's ids in the replay. A command on a node or app whose spawn is not through
  fails live and succeeds in the replay. A recording begun while commands are under way starts from
  a fabric that is not theirs. `SessionSound` speaks of the sessions without these (`tangled`
  remembers them), and the property without that condition fails.
- A `NodeRemoved` may be published before the `NodeSpawned` of the same node
  (`control_plane.rs:418-431`): the removal finds the node as soon as it is inserted, while the
  spawner has its notice still to send. Who follows the notices in their order ends up with a node that
  is gone; `SessionSound` asks it of who takes a node that went as gone for good.
- `FlowStats` speaks of "Requests issued (Interests expressed)" and "Requests that timed out"
  (`app.rs:29`, 33). An open loop that finds its pool empty expresses nothing and waits for nothing,
  and counts the request as sent and as lost (772-775).
- `new_versions` of a snapshot (`app.rs:180-197`) may be above the number of versions there were: a
  task counts its reply before it notes the version (763-764), and the snapshot reads the repeats
  before the replies. It is never below zero, which is what `NewVersionsSound` says of a snapshot; of the
  flow's own counters it says that they are over by no more than the replies not noted yet.
- A live co-simulation follows its feed in the order of arrival, a replay its timestamps; of two
  records with one timestamp the first counts at the start and the last at the end.
- A failing fault aborts a validation run and leaves its fabric running; a probe of a stopped app
  fails; baselines average over the runs that could be observed; elapsed time counts requested
  sleeps (`validate.rs:971-982`).
- A closed flow blocked on its pool issues one more request after it was stopped; the arm "channel
  closed (shutdown)" (`app.rs:775`) is never taken, since the loop holds a sender.
- In the IP plane an echo that comes after its flow gave up is taken for the next answer and
  counts that request as lost (`studies/ip.rs:421`).

Reference trust provider:
- `restart` looks a key up by the device's name, where `provider.rs:303-305` says "with the same
  key"; a clock step shifts the bound of a cut by lapse (`reference.rs:1057`).
- A second `expire` moves the lapse of keys that had lapsed; two calls that publish for one person
  read the newest version, await and write, so that one can be lost (`authority` 228, `publish`
  242); `keep_manifests` (407) checks and inserts in two steps.
- A key revoked after a recovery and never renewed has a cut whose certificate has no chain;
  certificates of the old root are refused after a recovery until they are renewed.

## 7. Plan

Done: all modules of section 2, their runs, and the proofs of section 4.

Left: an abstract stream (a FIFO) that a reliable `SimFace` implements.
