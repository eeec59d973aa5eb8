------------------------------- MODULE SimFace -------------------------------
(***************************************************************************)
(* The send path of a simulated face and its live fault knobs:             *)
(* crates/ndn-sim/src/sim_face.rs (SimFace, LinkState, HoldRule).          *)
(*                                                                         *)
(* Each face is one direction of a link and has one sender (its engine's   *)
(* send loop).  Faces whose profile names the shared channel contend for   *)
(* its airtime; the others shape their own transmit starts.  A delayed     *)
(* delivery is a spawned task that sleeps; tasks due at one instant run in *)
(* the order they were spawned, which is what the executor guarantees      *)
(* (DesExecutor).  Fault knobs may change between any two steps.           *)
(***************************************************************************)
EXTENDS Integers, Sequences, FiniteSets

-----------------------------------------------------------------------------
(* What one datagram costs on the wire (on_wire, frame_bytes): a face that *)
(* is IP-carried fragments a datagram that exceeds the path MTU.           *)

IPV4_HEADER == 20
UDP_HEADER  == 8
NoMtu == -1          \* ip_mtu = None: the face is not IP-carried

MaxOf(a, b) == IF a > b THEN a ELSE b
MinOf(a, b) == IF a < b THEN a ELSE b
DivCeil(a, b) == (a + b - 1) \div b

\* (mtu.saturating_sub(IPV4_HEADER) & !7).max(8)
PerFragment(mtu) == MaxOf(8 * (MaxOf(mtu - IPV4_HEADER, 0) \div 8), 8)

Frames(mtu, len) ==
    IF mtu = NoMtu THEN 1 ELSE MaxOf(DivCeil(len + UDP_HEADER, PerFragment(mtu)), 1)

\* on_wire's second component: the on-air bytes of all frames together.
WireBytes(mtu, len) ==
    IF mtu = NoMtu THEN len ELSE len + UDP_HEADER + Frames(mtu, len) * IPV4_HEADER

\* frame_bytes: full fragments first, the remainder last.
FrameBytes(mtu, len) ==
    [i \in 1..Frames(mtu, len) |->
        IF mtu = NoMtu THEN len
        ELSE MinOf(len + UDP_HEADER - (i - 1) * PerFragment(mtu), PerFragment(mtu)) + IPV4_HEADER]

-----------------------------------------------------------------------------
(* The faces.                                                              *)

CONSTANTS
    Face,
    Profile,       \* face -> [delay, jitter, loss, bandwidth, reliable, mtu, channel]
    Kinds, Sizes,  \* packet types and lengths
    HoldRules,     \* the rules set_hold may install: [matcher, skip, count, delay]
    LossRates,     \* the classes of rate set_loss may be given
    ExtraDelays,   \* the values set_extra_delay may be given
    Capacity,      \* capacity of the far end's receive queue
    RateBps, NsPerSec, FrameOverhead, MaxBacklog,   \* of the shared channel
    MaxTime,       \* bound on the clock
    SendUntil,     \* bound: no sends after this instant
    MaxPkts,       \* bound on frames sent
    MaxFaults      \* bound on fault-knob changes

\* Loss is a class: a rate of 0, a rate in (0, 1), a rate of 1.
LossClass == {"never", "maybe", "always"}
ASSUME LossAssumption == LossRates \subseteq LossClass
ASSUME ProfileAssumption ==
    Profile \in [Face -> [delay : Nat, jitter : Nat, loss : LossClass, bandwidth : Nat,
                          reliable : BOOLEAN, mtu : Nat \cup {NoMtu}, channel : BOOLEAN]]
ASSUME TrafficAssumption ==
    /\ Sizes \subseteq Nat /\ ExtraDelays \subseteq Nat /\ "none" \notin Kinds
    /\ HoldRules \subseteq [matcher : Kinds \cup {"any"}, skip : Nat, count : Nat, delay : Nat]
ASSUME BoundsAssumption ==
    /\ Capacity \in Nat \ {0} /\ RateBps \in Nat \ {0}
    /\ {NsPerSec, FrameOverhead, MaxBacklog, MaxTime, SendUntil, MaxPkts, MaxFaults} \subseteq Nat

NoHold == [matcher |-> "none"]
AtRest == [down |-> FALSE, loss |-> "profile", extra |-> 0, hold |-> NoHold]

VARIABLES
    now,
    busy, frames, airtimeNs, tailDrops, grants,  \* the shared channel
    link,      \* face -> LinkState
    nextTx,    \* face -> next_tx_ready
    last,      \* face -> last_delivery
    log,       \* frames in send order: [face, kind, size, at, held, due, fate]
    waiters,   \* face -> frames waiting for room in the receive queue, FIFO
    blocked,   \* face -> the frame whose inline delivery blocks send_bytes, or 0
    queue,     \* face -> the far end's receive queue
    received,  \* face -> frames returned by the far end's recv_bytes
    open,      \* face -> is the far end's receiver alive?
    faults     \* fault-knob changes made

chan == <<busy, frames, airtimeNs, tailDrops, grants>>
pipe == <<waiters, blocked, queue, received, open>>
vars == <<now, chan, link, nextTx, last, log, pipe, faults>>

WireCost(f, z) == [frames |-> Frames(Profile[f].mtu, z), bytes |-> WireBytes(Profile[f].mtu, z)]

Channel == INSTANCE SharedChannel
    WITH Sender <- {}, Datagram <- {WireCost(f, z) : f \in Face, z \in Sizes},
         reading <- <<>>

Init ==
    /\ now = 0
    /\ busy = 0 /\ frames = 0 /\ airtimeNs = 0 /\ tailDrops = 0 /\ grants = <<>>
    /\ link = [f \in Face |-> AtRest]
    /\ nextTx = [f \in Face |-> 0] /\ last = [f \in Face |-> 0]
    /\ log = <<>>
    /\ waiters = [f \in Face |-> <<>>] /\ blocked = [f \in Face |-> 0]
    /\ queue = [f \in Face |-> <<>>] /\ received = [f \in Face |-> <<>>]
    /\ open = [f \in Face |-> TRUE]
    /\ faults = 0

-----------------------------------------------------------------------------
(* LinkState::hold_delay: consult and advance the hold rule for one frame. *)

Matches(h, k) == h.matcher \in {"any", k}

\* Is this frame held?
Held(f, k) ==
    LET h == link[f].hold IN Matches(h, k) /\ h.matched >= h.skip /\ h.held < h.count

CountMatch(f, k) ==
    IF ~Matches(link[f].hold, k) THEN link
    ELSE [link EXCEPT ![f].hold.matched = @ + 1,
                      ![f].hold.held = IF Held(f, k) THEN @ + 1 ELSE @]

HoldDelay(f, k) == IF Held(f, k) THEN link[f].hold.delay ELSE 0

-----------------------------------------------------------------------------
(* send_bytes.  One action per exit; each frame is recorded with its fate. *)

Frame(f, k, z, held, due, fate) ==
    [face |-> f, kind |-> k, size |-> z, at |-> now, held |-> held, due |-> due, fate |-> fate]

MaySend(f) == blocked[f] = 0 /\ Len(log) < MaxPkts /\ now <= SendUntil

\* A downed link drops everything, before the hold rule sees the frame.
SendDown(f, k, z) ==
    /\ MaySend(f) /\ link[f].down
    /\ log' = Append(log, Frame(f, k, z, FALSE, now, "down"))
    /\ UNCHANGED <<now, chan, link, nextTx, last, pipe, faults>>

\* The medium's backlog is full: the hold rule has counted the frame all the same.
SendRefused(f, k, z) ==
    /\ MaySend(f) /\ ~link[f].down
    /\ Profile[f].channel /\ Channel!Full(now)
    /\ link' = CountMatch(f, k)
    /\ Channel!Refuse
    /\ log' = Append(log, Frame(f, k, z, Held(f, k), now, "tail"))
    /\ UNCHANGED <<now, nextTx, last, pipe, faults>>

\* Fault: the claim is made without the backlog check.
OnAirUnchecked(f, z) ==
    IF Profile[f].channel THEN Channel!Claim(now, WireCost(f, z)) ELSE UNCHANGED chan

\* Past the backlog check a frame on the shared channel claims its airtime.
OnAir(f, z) ==
    IF Profile[f].channel
    THEN ~Channel!Full(now) /\ Channel!Claim(now, WireCost(f, z))
    ELSE UNCHANGED chan

EffectiveLoss(f) == IF link[f].loss = "profile" THEN Profile[f].loss ELSE link[f].loss

LossRolled(f, k) ==
    ~Held(f, k) /\ ~Profile[f].reliable /\ EffectiveLoss(f) # "never"

\* A frame lost in the air still held the air; it does not use the bandwidth cursor.
SendLost(f, k, z) ==
    /\ MaySend(f) /\ ~link[f].down
    /\ LossRolled(f, k)
    /\ OnAir(f, z)
    /\ link' = CountMatch(f, k)
    /\ log' = Append(log, Frame(f, k, z, Held(f, k), now, "lost"))
    /\ UNCHANGED <<now, nextTx, last, pipe, faults>>

Shaped(f) == ~Profile[f].channel /\ Profile[f].bandwidth > 0

TxStart(f, z) ==
    IF Profile[f].channel THEN Channel!Start(now) + Channel!Airtime(WireCost(f, z))
    ELSE IF Shaped(f) THEN MaxOf(nextTx[f], now)
    ELSE now

TxDuration(f, z) == (WireCost(f, z).bytes * 8 * NsPerSec) \div Profile[f].bandwidth

\* Fault: every frame is delivered on its own schedule, reliable or not.
DeliverAtUnordered(f, k, z, jit) ==
    TxStart(f, z) + Profile[f].delay + jit + link[f].extra + HoldDelay(f, k)

\* When the frame arrives: a reliable face never delivers before the previous frame.
DeliverAt(f, k, z, jit) ==
    LET at == TxStart(f, z) + Profile[f].delay + jit + link[f].extra + HoldDelay(f, k)
    IN IF Profile[f].reliable /\ at <= last[f] THEN last[f] + 1 ELSE at

\* Outbound::deliver into the bounded queue: room goes to the longest waiter first.
Room(f) == Len(queue[f]) < Capacity /\ waiters[f] = <<>>

\* Fault: a full queue loses the frame that arrives (try_send).
EnterOrDrop(f, n) ==
    /\ queue' = IF Room(f) THEN [queue EXCEPT ![f] = Append(@, n)] ELSE queue
    /\ UNCHANGED waiters

Enter(f, n) ==
    IF Room(f)
    THEN queue' = [queue EXCEPT ![f] = Append(@, n)] /\ UNCHANGED waiters
    ELSE waiters' = [waiters EXCEPT ![f] = Append(@, n)] /\ UNCHANGED queue

\* The part of an accepted send that does not depend on how it is delivered.
Accept(f, k, z) ==
    /\ MaySend(f) /\ ~link[f].down
    /\ LossRolled(f, k) => EffectiveLoss(f) # "always"
    /\ OnAir(f, z)
    /\ link' = CountMatch(f, k)
    /\ nextTx' = IF Shaped(f)
                 THEN [nextTx EXCEPT ![f] = TxStart(f, z) + TxDuration(f, z)] ELSE nextTx
    /\ UNCHANGED <<now, received, open, faults>>

Remember(f, due) == last' = IF Profile[f].reliable THEN [last EXCEPT ![f] = due] ELSE last

Jitters(f) == IF Profile[f].reliable THEN {0} ELSE 0..Profile[f].jitter

\* wait = 0: deliver inline; a full queue blocks send_bytes, a closed one fails it.
SendInline(f, k, z) ==
    \E jit \in Jitters(f) : LET due == DeliverAt(f, k, z, jit)
                                n == Len(log) + 1 IN
        /\ Accept(f, k, z) /\ due <= now
        /\ Remember(f, due)
        /\ log' = Append(log, Frame(f, k, z, Held(f, k), due, IF open[f] THEN "arrived" ELSE "closed"))
        /\ IF open[f]
           THEN Enter(f, n) /\ blocked' = [blocked EXCEPT ![f] = IF Room(f) THEN 0 ELSE n]
           ELSE UNCHANGED <<queue, waiters, blocked>>

\* wait > 0: a spawned task sleeps until the frame is due.
SendDelayed(f, k, z) ==
    \E jit \in Jitters(f) : LET due == DeliverAt(f, k, z, jit) IN
        /\ Accept(f, k, z) /\ due > now
        /\ Remember(f, due)
        /\ log' = Append(log, Frame(f, k, z, Held(f, k), due, "transit"))
        /\ UNCHANGED <<waiters, blocked, queue>>

-----------------------------------------------------------------------------
(* The delivery task, the receiver, the clock.                             *)

InTransit == {n \in 1..Len(log) : log[n].fate = "transit"}

Sooner(m, n) == log[m].due < log[n].due \/ (log[m].due = log[n].due /\ m < n)

\* The sleep is over.
Arrive(n) ==
    /\ n \in InTransit /\ log[n].due <= now
    /\ \A m \in InTransit \ {n} : Sooner(n, m)
    /\ IF open[log[n].face]
       THEN Enter(log[n].face, n) /\ log' = [log EXCEPT ![n].fate = "arrived"]
       ELSE log' = [log EXCEPT ![n].fate = "closed"] /\ UNCHANGED <<queue, waiters>>
    /\ UNCHANGED <<now, chan, link, nextTx, last, blocked, received, open, faults>>

\* recv_bytes of the far end: the freed place goes to the first waiter.
Recv(f) ==
    /\ open[f] /\ queue[f] # <<>>
    /\ received' = [received EXCEPT ![f] = Append(@, Head(queue[f]))]
    /\ IF waiters[f] = <<>>
       THEN queue' = [queue EXCEPT ![f] = Tail(@)] /\ UNCHANGED <<waiters, blocked>>
       ELSE /\ queue' = [queue EXCEPT ![f] = Append(Tail(@), Head(waiters[f]))]
            /\ waiters' = [waiters EXCEPT ![f] = Tail(@)]
            /\ blocked' = [blocked EXCEPT ![f] = IF @ = Head(waiters[f]) THEN 0 ELSE @]
    /\ UNCHANGED <<now, chan, link, nextTx, last, log, open, faults>>

\* The far engine drops its face: queued frames go with it, waiting sends fail.
Close(f) ==
    /\ open[f] /\ faults < MaxFaults
    /\ open' = [open EXCEPT ![f] = FALSE]
    /\ queue' = [queue EXCEPT ![f] = <<>>]
    /\ waiters' = [waiters EXCEPT ![f] = <<>>]
    /\ blocked' = [blocked EXCEPT ![f] = 0]
    /\ faults' = faults + 1
    /\ UNCHANGED <<now, chan, link, nextTx, last, log, received>>

Tick ==
    /\ now < MaxTime
    /\ \A n \in InTransit : log[n].due > now
    /\ now' = now + 1
    /\ UNCHANGED <<chan, link, nextTx, last, log, pipe, faults>>

-----------------------------------------------------------------------------
(* LinkState's setters, called by the fabric's fault operations.           *)

Knob(f, st) ==
    /\ faults < MaxFaults /\ st # link[f]
    /\ link' = [link EXCEPT ![f] = st]
    /\ faults' = faults + 1
    /\ UNCHANGED <<now, chan, nextTx, last, log, pipe>>

SetDown(f, b) == Knob(f, [link[f] EXCEPT !.down = b])
SetLoss(f, r) == Knob(f, [link[f] EXCEPT !.loss = r])
SetExtraDelay(f, e) == Knob(f, [link[f] EXCEPT !.extra = e])

\* A new rule replaces the old one and its counters restart.
\* (since is history: the frames sent before the rule was installed.)
SetHold(f, r) ==
    Knob(f, [link[f] EXCEPT !.hold =
        [matcher |-> r.matcher, skip |-> r.skip, count |-> r.count, delay |-> r.delay,
         matched |-> 0, held |-> 0, since |-> Len(log)]])

Reset(f) == Knob(f, AtRest)

Send ==
    \E f \in Face, k \in Kinds, z \in Sizes :
        \/ SendDown(f, k, z) \/ SendRefused(f, k, z) \/ SendLost(f, k, z)
        \/ SendInline(f, k, z) \/ SendDelayed(f, k, z)

Faults ==
    \E f \in Face :
        \/ \E b \in BOOLEAN : SetDown(f, b)
        \/ \E r \in LossRates \cup {"profile"} : SetLoss(f, r)
        \/ \E e \in ExtraDelays : SetExtraDelay(f, e)
        \/ \E r \in HoldRules : SetHold(f, r)
        \/ Reset(f) \/ Close(f)

Deliveries == (\E n \in 1..MaxPkts : Arrive(n)) \/ (\E f \in Face : Recv(f))

Next == Send \/ Faults \/ Deliveries \/ Tick

Spec == Init /\ [][Next]_vars

\* Timers fire, and the engine's read loop keeps reading an open face.
FairSpec == Spec /\ WF_vars(Deliveries) /\ WF_vars(Tick)

-----------------------------------------------------------------------------
(* Properties.                                                             *)

Ids == 1..Len(log)

TypeOK ==
    /\ now \in 0..MaxTime
    /\ \A f \in Face : /\ link[f].down \in BOOLEAN /\ link[f].extra \in ExtraDelays \cup {0}
                       /\ link[f].loss \in LossClass \cup {"profile"}
                       /\ Len(queue[f]) <= Capacity
                       /\ blocked[f] \in {0} \cup Ids
    /\ \A n \in Ids : log[n].fate \in {"down", "tail", "lost", "closed", "transit", "arrived"}

\* A reliable face is a stream: whatever delays, holds and resets hit it mid-flight, and
\* however full the far queue is, frames reach the far end in the order they were sent.
InOrder ==
    \A f \in Face : Profile[f].reliable =>
        LET seen == received[f] \o queue[f] \o waiters[f]
        IN /\ \A i, j \in 1..Len(seen) : i < j => seen[i] < seen[j]
           /\ \A n \in InTransit : log[n].face = f =>
                  \A i \in 1..Len(seen) : seen[i] < n

\* Nothing that arrived at an open link disappears or is duplicated: it is in the receive
\* queue, waiting for room, or has been read, exactly once.
ArrivedOnce ==
    \A f \in Face : open[f] =>
        LET seen == received[f] \o queue[f] \o waiters[f]
            arrived == {n \in Ids : log[n].face = f /\ log[n].fate = "arrived"}
        IN /\ Len(seen) = Cardinality(arrived)
           /\ \A n \in arrived : \E i \in 1..Len(seen) : seen[i] = n

\* HoldRule: among the frames the rule matched since it was installed, in send order, it
\* held exactly those after the first `skip`, `count` of them.
HoldWindow ==
    \A f \in Face : LET h == link[f].hold IN h # NoHold =>
        LET M == {n \in Ids : n > h.since /\ log[n].face = f /\ log[n].fate # "down"
                              /\ Matches(h, log[n].kind)}
        IN \A n \in M : LET idx == Cardinality({m \in M : m < n})
                        IN log[n].held <=> (idx >= h.skip /\ idx < h.skip + h.count)

\* What the ends of a link rely on: TypeOK, order on a stream, nothing lost or doubled behind
\* the far end's bounded queue, and the hold window a test installs.
DeliverySound == TypeOK /\ InOrder /\ ArrivedOnce /\ HoldWindow

\* The faces together use the shared channel as its own specification allows.
ImplementsChannel == Channel!Spec

\* A frame accepted by an open link is read by the far end, unless the far end closes.
InFlightArrives ==
    \A n \in 1..MaxPkts :
        (n \in InTransit) ~>
            (\E f \in Face : ~open[f] \/ \E i \in 1..Len(received[f]) : received[f][i] = n)

=============================================================================
