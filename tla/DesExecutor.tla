----------------------------- MODULE DesExecutor -----------------------------
(***************************************************************************)
(* The discrete-event kernel: crates/ndn-sim/src/des.rs, and the Stepper   *)
(* that forwards to it (stepper.rs).                                       *)
(*                                                                         *)
(* One thread drives the event loop.  A poll of a future runs user code    *)
(* that re-enters the executor (spawn, sleep, wake); the executor's lock   *)
(* is released around the poll, so a poll is a sequence of steps here and  *)
(* the slot of the future being polled is empty meanwhile.                 *)
(*                                                                         *)
(* A future is abstracted to what it may do to the executor: spawn, send   *)
(* on another task's tokio channel, wake itself (yield), create a sleep,   *)
(* and await its sleep, its channel, or a select! of the two.              *)
(***************************************************************************)
EXTENDS Integers, FiniteSets, SequencesExt

CONSTANTS
    Task,       \* the futures that may ever be spawned
    Durations,  \* the durations passed to sleep, in ns
    UMax,       \* the largest value of the clock's integer type (u64::MAX)
    MaxOps      \* bound: sleeps, sends and yields in one behaviour

ASSUME TaskAssumption == IsFiniteSet(Task)
ASSUME NumAssumption == Durations \subseteq Nat /\ UMax \in Nat /\ MaxOps \in Nat

NoTask  == "NoTask"
NoSleep == [deadline |-> 0, state |-> "none"]
NoSlot  == 0
Idle    == [slot |-> NoSlot, task |-> NoTask]

ASSUME NoTaskAssumption == NoTask \notin Task

VARIABLES
    now,      \* Inner.now_ns
    tasks,    \* Inner.tasks: slot -> the parked future, or NoTask
    ready,    \* Inner.ready: FIFO of slots
    free,     \* Inner.free: LIFO of empty slots
    timers,   \* Inner.timers: [deadline, slot] in the order the heap pops them
    running,  \* the future taken out of its slot by poll_ready, or Idle
    sleep,    \* task -> its DesSleep: [deadline, state \in none/new/registered]
    awaits,   \* task -> what it awaits, a subset of {"sleep", "recv"}
    inbox,    \* task -> messages in its channel
    rxWaker,  \* task -> slot whose waker its channel holds, or NoSlot
    spawned,  \* tasks spawned so far
    finished, \* tasks that returned Ready
    pc,       \* the driver: "idle", "poll1", "poll2" or "panic"
    call,     \* the driver call in progress: [op, target, root]
    ops       \* operations spent of MaxOps

core == <<now, tasks, ready, free, timers, running>>
futs == <<sleep, awaits, inbox, rxWaker, spawned, finished>>
vars == <<now, tasks, ready, free, timers, running, sleep, awaits, inbox,
          rxWaker, spawned, finished, pc, call, ops>>

Slots == 1..Len(tasks)
NoCall == [op |-> "none", target |-> 0, root |-> NoTask]

\* Executor::new.
Init ==
    /\ now = 0 /\ tasks = <<>> /\ ready = <<>> /\ free = <<>>
    /\ timers = <<>> /\ running = Idle
    /\ sleep = [t \in Task |-> NoSleep]
    /\ awaits = [t \in Task |-> {}]
    /\ inbox = [t \in Task |-> 0]
    /\ rxWaker = [t \in Task |-> NoSlot]
    /\ spawned = {} /\ finished = {}
    /\ pc = "idle" /\ call = NoCall /\ ops = 0

-----------------------------------------------------------------------------
(* Executor::spawn: reuse the most recently freed slot, else grow.         *)

Spawn(t) ==
    LET n  == Len(free)
        id == IF n > 0 THEN free[n] ELSE Len(tasks) + 1
    IN /\ tasks' = IF n > 0 THEN [tasks EXCEPT ![id] = t] ELSE Append(tasks, t)
       /\ free' = IF n > 0 THEN SubSeq(free, 1, n - 1) ELSE free
       /\ ready' = Append(ready, id)
       /\ spawned' = spawned \cup {t}

\* Fault: the wake is lost when the slot is being polled.
WakeParked(id) ==
    ready' = IF running.slot = id THEN ready ELSE Append(ready, id)

\* TaskWaker::wake_by_ref: push_back, whatever the slot holds by then.
Wake(id) == ready' = Append(ready, id)

\* A send on a tokio mpsc channel: queue the message, take and fire the receiver's waker.
Send(t) ==
    /\ ops < MaxOps
    /\ ops' = ops + 1
    /\ inbox' = [inbox EXCEPT ![t] = @ + 1]
    /\ rxWaker' = [rxWaker EXCEPT ![t] = NoSlot]
    /\ IF rxWaker[t] # NoSlot THEN Wake(rxWaker[t]) ELSE UNCHANGED ready

-----------------------------------------------------------------------------
(* poll_ready.                                                             *)

Polling == pc \in {"poll1", "poll2"}

\* The popped slot is empty (the task finished, or is a duplicate wake): skip it.
SkipStale ==
    /\ Polling /\ running = Idle /\ ready # <<>>
    /\ ~(Head(ready) \in Slots /\ tasks[Head(ready)] # NoTask)
    /\ ready' = Tail(ready)
    /\ UNCHANGED <<now, tasks, free, timers, running, futs, pc, call, ops>>

\* Fault: the slot is handed to the free stack as soon as its future is taken out.
BeginPollFrees ==
    /\ Polling /\ running = Idle /\ ready # <<>>
    /\ Head(ready) \in Slots
    /\ tasks[Head(ready)] # NoTask
    /\ ready' = Tail(ready)
    /\ running' = [slot |-> Head(ready), task |-> tasks[Head(ready)]]
    /\ tasks' = [tasks EXCEPT ![Head(ready)] = NoTask]
    /\ free' = Append(free, Head(ready))
    /\ UNCHANGED <<now, timers, futs, pc, call, ops>>

\* Take the future out of its slot.  The slot is empty but not free.
BeginPoll ==
    /\ Polling /\ running = Idle /\ ready # <<>>
    /\ Head(ready) \in Slots
    /\ tasks[Head(ready)] # NoTask
    /\ ready' = Tail(ready)
    /\ running' = [slot |-> Head(ready), task |-> tasks[Head(ready)]]
    /\ tasks' = [tasks EXCEPT ![Head(ready)] = NoTask]
    /\ UNCHANGED <<now, free, timers, futs, pc, call, ops>>

Me == running.task
Busy == running # Idle                          \* inside a future's poll
Runs == Busy /\ awaits[running.task] = {}       \* ... and not blocked on an await

TaskSpawn(t) ==
    /\ Runs /\ t \in Task \ spawned
    /\ Spawn(t)
    /\ UNCHANGED <<now, timers, running, sleep, awaits, inbox, rxWaker, finished, pc, call, ops>>

TaskSend(t) ==
    /\ Runs /\ Send(t)
    /\ UNCHANGED <<now, tasks, free, timers, running, sleep, awaits, spawned, finished, pc, call>>

\* Runtime::sleep: the deadline saturates at u64::MAX, the duration is truncated to u64.
SleepDeadline(d) ==
    LET sum == now + (d % (UMax + 1)) IN IF sum > UMax THEN UMax ELSE sum

TaskNewSleep(d) ==
    /\ Runs /\ sleep[Me].state = "none" /\ ops < MaxOps
    /\ sleep' = [sleep EXCEPT ![Me] = [deadline |-> SleepDeadline(d), state |-> "new"]]
    /\ ops' = ops + 1
    /\ UNCHANGED <<core, awaits, inbox, rxWaker, spawned, finished, pc, call>>

\* .await / select!: from here the poll continues with the branches below.
TaskAwait(W) ==
    /\ Runs /\ W # {}
    /\ "sleep" \in W => sleep[Me].state # "none"
    /\ awaits' = [awaits EXCEPT ![Me] = W]
    /\ UNCHANGED <<core, sleep, inbox, rxWaker, spawned, finished, pc, call, ops>>

SleepDue(t) == "sleep" \in awaits[t] /\ now >= sleep[t].deadline
RecvDue(t)  == "recv" \in awaits[t] /\ inbox[t] > 0

\* DesSleep::poll returns Ready; a select! drops its other branch.
SleepReady ==
    /\ Busy /\ SleepDue(Me)
    /\ awaits' = [awaits EXCEPT ![Me] = {}]
    /\ sleep' = [sleep EXCEPT ![Me] = NoSleep]
    /\ UNCHANGED <<core, inbox, rxWaker, spawned, finished, pc, call, ops>>

\* The receive is ready; a select! drops the sleep, whose timer stays in the heap.
RecvReady ==
    /\ Busy /\ RecvDue(Me)
    /\ inbox' = [inbox EXCEPT ![Me] = @ - 1]
    /\ sleep' = IF "sleep" \in awaits[Me] THEN [sleep EXCEPT ![Me] = NoSleep] ELSE sleep
    /\ awaits' = [awaits EXCEPT ![Me] = {}]
    /\ UNCHANGED <<core, rxWaker, spawned, finished, pc, call, ops>>

\* Poll::Pending: the future goes back to its slot.
PutBack ==
    /\ tasks' = [tasks EXCEPT ![running.slot] = running.task]
    /\ running' = Idle

\* The first k timers, and only they, are due at t.
DueUpTo(k, t) ==
    /\ \A i \in 1..k : timers[i].deadline <= t
    /\ \A i \in (k + 1)..Len(timers) : timers[i].deadline > t

\* BinaryHeap::push.  The heap is ordered by deadline, then by the rising Inner.seq, so a new
\* timer goes behind those with the same deadline.
Register(e) == \E k \in 0..Len(timers) :
    /\ DueUpTo(k, e.deadline)
    /\ timers' = InsertAt(timers, k + 1, e)

\* Nothing awaited is ready: DesSleep::poll registers its timer on its first poll,
\* the channel stores the current waker, and the task is parked.
Park ==
    /\ Busy /\ awaits[Me] # {}
    /\ ~SleepDue(Me) /\ ~RecvDue(Me)
    /\ IF "sleep" \in awaits[Me] /\ sleep[Me].state = "new"
       THEN /\ Register([deadline |-> sleep[Me].deadline, slot |-> running.slot])
            /\ sleep' = [sleep EXCEPT ![Me].state = "registered"]
       ELSE UNCHANGED <<timers, sleep>>
    /\ rxWaker' = IF "recv" \in awaits[Me]
                  THEN [rxWaker EXCEPT ![Me] = running.slot] ELSE rxWaker
    /\ PutBack
    /\ UNCHANGED <<now, ready, free, awaits, inbox, spawned, finished, pc, call, ops>>

\* yield_now: wake the own slot, still empty at this moment, and return Pending.
TaskYield ==
    /\ Runs /\ ops < MaxOps
    /\ ops' = ops + 1
    /\ Wake(running.slot)
    /\ PutBack
    /\ UNCHANGED <<now, free, timers, futs, pc, call>>

\* Poll::Ready: the future is dropped and its slot becomes free.
TaskFinish ==
    /\ Runs
    /\ free' = Append(free, running.slot)
    /\ running' = Idle
    /\ finished' = finished \cup {Me}
    /\ sleep' = [sleep EXCEPT ![Me] = NoSleep]
    /\ rxWaker' = [rxWaker EXCEPT ![Me] = NoSlot]
    /\ UNCHANGED <<now, tasks, ready, timers, awaits, inbox, spawned, pc, call, ops>>

-----------------------------------------------------------------------------
(* advance_to_next_event and the driver calls.                             *)

\* Fault: the clock jumps to the latest timer (a max-heap: Reverse forgotten).
JumpToLatest == timers[Len(timers)].deadline

\* To the earliest deadline, never backwards.
JumpTo == IF timers[1].deadline > now THEN timers[1].deadline ELSE now

\* Fault: every due timer is popped, only the first is woken.
JumpWakesFirst ==
    /\ timers # <<>>
    /\ now' = JumpTo
    /\ \E k \in 0..Len(timers) :
          /\ DueUpTo(k, JumpTo)
          /\ timers' = SubSeq(timers, k + 1, Len(timers))
          /\ ready' = Append(ready, timers[1].slot)
    /\ UNCHANGED <<tasks, free, running>>

\* Every timer due at the new instant is popped and its waker fired, in heap order.
Jump ==
    /\ timers # <<>>
    /\ now' = JumpTo
    /\ \E k \in 0..Len(timers) :
          /\ DueUpTo(k, JumpTo)
          /\ timers' = SubSeq(timers, k + 1, Len(timers))
          /\ ready' = ready \o [i \in 1..k |-> timers[i].slot]
    /\ UNCHANGED <<tasks, free, running>>

Drained == running = Idle /\ ready = <<>>

\* block_on / run: `done()` is tested after poll_ready, before the clock moves.
RootDone == call.op = "block_on" /\ call.root \in finished

Return == pc' = "idle" /\ call' = NoCall

BlockOnReturns ==
    /\ pc = "poll1" /\ Drained /\ RootDone
    /\ Return /\ UNCHANGED <<core, futs, ops>>

\* advance_to_next_event found a timer; block_on loops to its first poll_ready.
Advance ==
    /\ pc = "poll1" /\ Drained /\ ~RootDone
    /\ Jump
    /\ pc' = IF call.op = "block_on" THEN "poll1" ELSE "poll2"
    /\ UNCHANGED <<futs, call, ops>>

\* Fault: a call that finds the ready queue drained gives up although timers are pending.
QuiescentEarly ==
    /\ pc = "poll1" /\ Drained /\ ~RootDone
    /\ \/ call.op = "block_on" /\ pc' = "panic" /\ UNCHANGED call
       \/ call.op = "run_until" /\ Return
       \/ call.op = "step" /\ pc' = "poll2" /\ UNCHANGED call
    /\ UNCHANGED <<core, futs, ops>>

\* advance_to_next_event returned None.
Quiescent ==
    /\ pc = "poll1" /\ Drained /\ ~RootDone /\ timers = <<>>
    /\ \/ call.op = "block_on" /\ pc' = "panic" /\ UNCHANGED call
       \/ call.op = "run_until" /\ Return
       \/ call.op = "step" /\ pc' = "poll2" /\ UNCHANGED call
    /\ UNCHANGED <<core, futs, ops>>

\* The poll_ready after an advance is drained: step returns, run_until loops.
EndStep ==
    /\ pc = "poll2" /\ Drained
    /\ IF call.op = "run_until" /\ now < call.target
       THEN pc' = "poll1" /\ UNCHANGED call
       ELSE Return
    /\ UNCHANGED <<core, futs, ops>>

-----------------------------------------------------------------------------
(* The host program between driver calls: DesSession, DesKernel::run, Stepper. *)

HostSpawn(t) ==
    /\ pc = "idle" /\ t \in Task \ spawned
    /\ Spawn(t)
    /\ UNCHANGED <<now, timers, running, sleep, awaits, inbox, rxWaker, finished, pc, call, ops>>

HostSend(t) ==
    /\ pc = "idle" /\ Send(t)
    /\ UNCHANGED <<now, tasks, free, timers, running, sleep, awaits, spawned, finished, pc, call>>

BlockOn(t) ==
    /\ pc = "idle" /\ t \in Task \ spawned
    /\ Spawn(t)
    /\ pc' = "poll1" /\ call' = [op |-> "block_on", target |-> 0, root |-> t]
    /\ UNCHANGED <<now, timers, running, sleep, awaits, inbox, rxWaker, finished, ops>>

Step ==
    /\ pc = "idle"
    /\ pc' = "poll1" /\ call' = [NoCall EXCEPT !.op = "step"]
    /\ UNCHANGED <<core, futs, ops>>

RunUntil(target) ==
    /\ pc = "idle" /\ now < target
    /\ pc' = "poll1" /\ call' = [op |-> "run_until", target |-> target, root |-> NoTask]
    /\ UNCHANGED <<core, futs, ops>>

\* block_on's expect("... did not complete (deadlock)") ends the program.
Panicked == pc = "panic" /\ UNCHANGED vars

-----------------------------------------------------------------------------
TaskStep ==
    \/ \E t \in Task : TaskSpawn(t)
    \/ \E t \in Task : TaskSend(t)
    \/ \E d \in Durations : TaskNewSleep(d)
    \/ \E W \in SUBSET {"sleep", "recv"} : TaskAwait(W)
    \/ SleepReady \/ RecvReady \/ Park \/ TaskYield \/ TaskFinish

DriverStep ==
    SkipStale \/ BeginPoll \/ BlockOnReturns \/ Advance \/ Quiescent \/ EndStep

HostStep ==
    \/ \E t \in Task : HostSpawn(t) \/ HostSend(t) \/ BlockOn(t)
    \/ Step
    \/ \E target \in 1..UMax : RunUntil(target)
    \/ Panicked

Next == TaskStep \/ DriverStep \/ HostStep

Spec == Init /\ [][Next]_vars

\* A driver call runs on: its loop and the polls it makes are straight-line code.
\* Nothing obliges the host to make another call.
FairSpec == Spec /\ WF_vars(TaskStep \/ DriverStep)

-----------------------------------------------------------------------------
(* Properties.                                                             *)

Timer == [deadline : 0..UMax, slot : Nat]
DesSleep == [deadline : 0..UMax, state : {"none", "new", "registered"}]
Polled == {Idle} \cup [slot : Nat \ {NoSlot}, task : Task]

\* The executor's structures hold what their Rust types say.
TypeOK ==
    /\ now \in 0..UMax /\ ops \in Nat
    /\ tasks \in Seq(Task \cup {NoTask})
    /\ ready \in Seq(Nat) /\ free \in Seq(Nat)
    /\ timers \in Seq(Timer)
    /\ running \in Polled
    /\ sleep \in [Task -> DesSleep]
    /\ awaits \in [Task -> SUBSET {"sleep", "recv"}]
    /\ inbox \in [Task -> Nat] /\ rxWaker \in [Task -> Nat]
    /\ spawned \in SUBSET Task /\ finished \in SUBSET Task
    /\ pc \in {"idle", "poll1", "poll2", "panic"}
    /\ call \in [op : {"none", "block_on", "run_until", "step"},
                 target : 0..UMax, root : Task \cup {NoTask}]

\* Slot recycling is sound although a poll may spawn while its own slot is empty: the free
\* stack lists exactly the empty slots other than the one being polled, each once, so two
\* futures never share a slot and none is overwritten.
SlotsSound ==
    /\ \A i, j \in 1..Len(free) : free[i] = free[j] => i = j
    /\ \A s \in Slots : (\E i \in 1..Len(free) : free[i] = s)
                            <=> (tasks[s] = NoTask /\ s # running.slot)
    /\ \A i \in 1..Len(free) : free[i] \in Slots
    /\ running # Idle => running.slot \in Slots /\ tasks[running.slot] = NoTask

\* Every future that was spawned and has not finished is in exactly one place.
Placed ==
    /\ \A s, u \in Slots : tasks[s] = tasks[u] /\ tasks[s] # NoTask => s = u
    /\ \A t \in spawned \ finished : running.task = t \/ \E s \in Slots : tasks[s] = t
    /\ \A s \in Slots : tasks[s] # NoTask => tasks[s] \in spawned \ finished
    /\ running # Idle => running.task \in spawned \ finished
                         /\ \A s \in Slots : tasks[s] # running.task

\* A spawned future is kept, alone, in one slot until it returns, and only slots nobody will
\* come back to are reused.
Housed == TypeOK /\ SlotsSound /\ Placed

InReady(s) == \E i \in 1..Len(ready) : ready[i] = s

\* No lost wakeup: a parked future is queued to be polled, or everything it waits for will
\* wake its slot (its timer is in the heap; its empty channel holds its waker).
NoLostWakeup ==
    \A s \in Slots : LET t == tasks[s] IN
        (t # NoTask /\ ~InReady(s)) =>
            /\ awaits[t] # {}
            /\ "sleep" \in awaits[t] =>
                  /\ sleep[t].state = "registered"
                  /\ \E i \in 1..Len(timers) : timers[i] = [deadline |-> sleep[t].deadline, slot |-> s]
            /\ "recv" \in awaits[t] => inbox[t] = 0 /\ rxWaker[t] = s

\* The clock never jumps over a sleep: no future is still asleep past its deadline, and one
\* that is due is queued to be polled at this very instant.
Punctual ==
    \A s \in Slots : LET t == tasks[s] IN
        (t # NoTask /\ "sleep" \in awaits[t] /\ sleep[t].state = "registered") =>
            /\ sleep[t].deadline >= now
            /\ sleep[t].deadline = now => InReady(s)

\* The heap is ahead of the clock: every timer still in it is in the future.
TimersAhead == \A i \in 1..Len(timers) : timers[i].deadline > now

\* block_on's "did not complete (deadlock)" panic is true: nobody can ever run again,
\* everyone who is left waits for a message that nobody can send.
DeadlockIsReal ==
    pc = "panic" =>
        /\ call.root \notin finished
        /\ \A t \in spawned \ finished : awaits[t] = {"recv"} /\ inbox[t] = 0

\* While somebody keeps driving the executor, a sleeping task gets to the end of its sleep:
\* stale timers, recycled slots and spurious wakes never leave it behind.
Asleep(t) == sleep[t].state = "registered" /\ t \notin finished
SleepersWake == ([]<>(pc = "poll1")) => \A t \in Task : Asleep(t) ~> ~Asleep(t)

=============================================================================
