------------------------------- MODULE RadioBus -------------------------------
(***************************************************************************)
(* The shared radio medium and the radio face's listen-before-talk loop:   *)
(* crates/ndn-sim/src/radio.rs (RadioBus::transmit_inner,                  *)
(* sense_busy_until; SimRadioFace::send_bytes).                            *)
(*                                                                         *)
(* Radios stand at fixed places on a line, each attached when its face is  *)
(* built.  The link model's seeded erasure is a nondeterministic choice;   *)
(* energy and airtime accounting have no effect on delivery and are left   *)
(* out.  The medium starts in monitor mode, where senders inject at will;  *)
(* in managed mode they listen first.  Between its last sense of the       *)
(* medium and its transmit a sender does not await, so on the event-queue  *)
(* kernel the two are one step.                                            *)
(***************************************************************************)
EXTENDS Integers, Sequences, FiniteSets

CONSTANTS
    Node,
    Pos,          \* node -> its place
    Chan,         \* node -> its channel (set_channel); equal channels couple
    Skew,         \* node -> how far its engine's wall clock is ahead
    Decode,       \* the propagation model's max_range_m
    Interfere,    \* Decode * interference_range_factor
    Prop,         \* propagation delay
    Erasure,      \* may the link model erase frames?
    Airtimes,     \* on-air times a frame may have
    HalfDuplex,   \* set_half_duplex
    MaxAttempts,  \* sensing attempts before transmitting anyway (8)
    CWmin, CWmax, Slot,   \* backoff window and slot time
    InAirCap,     \* IN_AIR_CAP
    MaxTime,      \* bound on the clock
    MaxFrames     \* bound on frames sent

ASSUME RangeAssumption == Decode \in Nat /\ Interfere \in Nat /\ Decode <= Interfere
ASSUME AirAssumption == Airtimes \subseteq Nat \ {0} /\ Prop \in Nat
ASSUME PlaceAssumption == Pos \in [Node -> Int] /\ Skew \in [Node -> Int]
ASSUME BoundsAssumption == /\ MaxAttempts \in Nat /\ InAirCap \in Nat
                           /\ MaxTime \in Nat /\ MaxFrames \in Nat

VARIABLES
    now,        \* the kernel clock
    inAir,      \* in_air: frame numbers (the oldest frame is the least)
    air,        \* every frame sent: [node, at, start, end, forced] (at: kernel clock)
    collided,   \* <<frame, receiver>>: a later frame retro-collided it there
    flight,     \* scheduled deliveries [frame, rx, due]
    verdict,    \* what the radio log says of (frame, receiver): [frame, rx, reason]
    managed,    \* mac_mode = Managed: senders listen before talking
    csma        \* node -> its send_bytes: [state, attempt, until]

vars == <<now, inAir, air, collided, flight, verdict, managed, csma>>

Abs(x) == IF x < 0 THEN -x ELSE x
Dist(m, n) == Abs(Pos[m] - Pos[n])
Coupled(m, n) == Chan[m] = Chan[n]
Clock(n) == now + Skew[n]

Quiet == [state |-> "idle", attempt |-> 0, until |-> 0]

Init ==
    /\ now = 0 /\ inAir = {} /\ air = <<>> /\ collided = {} /\ flight = {}
    /\ verdict = {}
    /\ managed = FALSE
    /\ csma = [n \in Node |-> Quiet]

-----------------------------------------------------------------------------
(* RadioBus::transmit_inner.                                               *)

\* Prune what has finished, then bound the list by evicting the oldest.
OnAir(t) ==
    LET live == {f \in inAir : air[f].end > t}
    IN {f \in live : Cardinality({g \in live : g > f}) < InAirCap}

\* The frames of other senders that were on the air when n's frame starts.
Concurrent(n) == {f \in OnAir(Clock(n)) : air[f].node # n}

InRange(n) == {r \in Node \ {n} : Dist(n, r) <= Decode}

Transmitting(n, r) == HalfDuplex /\ \E f \in Concurrent(n) : air[f].node = r

\* Concurrent frames that receiver r hears as interference with n's frame.
Clashers(n, r) ==
    {f \in Concurrent(n) : /\ air[f].node # r
                           /\ Dist(air[f].node, r) <= Interfere
                           /\ Coupled(air[f].node, n)}

Collides(n, r) == ~Transmitting(n, r) /\ Clashers(n, r) # {}

Clear(n, r) == ~Transmitting(n, r) /\ Clashers(n, r) = {}

\* Fault: the frame already on the air wins the collision.
RetroCollideNone(n) == {}

\* Both lose: the earlier frames are lost at this receiver too.
RetroCollide(n) ==
    {p \in inAir \X InRange(n) : Collides(n, p[2]) /\ p[1] \in Clashers(n, p[2])}

\* A frame is decodable once it is fully received.
ReceiveDelay(a) == a + Prop

Transmit(n, a, forced) ==
    LET f == Len(air) + 1
        t == Clock(n)
        heard == {r \in InRange(n) : Clear(n, r)}
    IN \E survivors \in IF Erasure THEN SUBSET heard ELSE {heard} :
        /\ air' = Append(air, [node |-> n, at |-> now, start |-> t, end |-> t + a,
                               air |-> a, forced |-> forced])
        /\ inAir' = OnAir(t) \cup {f}
        /\ collided' = collided \cup RetroCollide(n)
        /\ flight' = flight \cup
              {[frame |-> f, rx |-> r, due |-> now + ReceiveDelay(a)] : r \in survivors}
        /\ verdict' = verdict
              \cup {[frame |-> f, rx |-> r, reason |-> "half_duplex"] :
                        r \in {x \in InRange(n) : Transmitting(n, x)}}
              \cup {[frame |-> f, rx |-> r, reason |-> "collision"] :
                        r \in {x \in InRange(n) : Collides(n, x)}}
              \cup {[frame |-> f, rx |-> r, reason |-> "erased"] : r \in heard \ survivors}

\* The spawned delivery task: the frame lands unless it was retro-collided meanwhile.
Land(d) ==
    /\ d.due <= now
    /\ flight' = flight \ {d}
    /\ verdict' = verdict \cup
          {[frame |-> d.frame, rx |-> d.rx,
            reason |-> IF <<d.frame, d.rx>> \in collided THEN "collision" ELSE "delivered"]}
    /\ UNCHANGED <<now, inAir, air, collided, managed, csma>>

-----------------------------------------------------------------------------
(* SimRadioFace::send_bytes and RadioBus::sense_busy_until.                *)

MaySend == Len(air) < MaxFrames

\* Fault: carrier sense reaches no further than decoding.
SensedDecode(n) ==
    {f \in inAir :
        /\ air[f].node # n /\ air[f].end > Clock(n)
        /\ Coupled(air[f].node, n) /\ Dist(air[f].node, n) <= Decode}

\* What n senses: the frames of others on the air within carrier-sense range.
Sensed(n) ==
    {f \in inAir :
        /\ air[f].node # n /\ air[f].end > Clock(n)
        /\ Coupled(air[f].node, n) /\ Dist(air[f].node, n) <= Interfere}

BusyUntil(n) == CHOOSE t \in {air[f].end : f \in Sensed(n)} :
                    \A f \in Sensed(n) : air[f].end <= t

\* csma_backoff_ns: the window doubles with each attempt up to a cap.
Backoffs(attempt) ==
    LET cw == IF CWmin * 2^attempt < CWmax THEN CWmin * 2^attempt ELSE CWmax
    IN {s * Slot : s \in 0..cw}

\* set_mac_mode: a sender that is deferring goes on doing so.
SetMacMode ==
    /\ managed' = ~managed
    /\ UNCHANGED <<now, inAir, air, collided, flight, verdict, csma>>

\* Monitor mode: transmit at once.
Inject(n) ==
    /\ ~managed /\ MaySend /\ csma[n].state = "idle"
    /\ \E a \in Airtimes : Transmit(n, a, TRUE)
    /\ UNCHANGED <<now, managed, csma>>

\* Managed mode: the engine hands the face a frame.
BeginSend(n) ==
    /\ managed /\ MaySend /\ csma[n].state = "idle"
    /\ csma' = [csma EXCEPT ![n] = [state |-> "sense", attempt |-> 0, until |-> now]]
    /\ UNCHANGED <<now, inAir, air, collided, flight, verdict, managed>>

Awake(n) == csma[n].state = "sense" /\ csma[n].until <= now

\* The medium is busy: sleep past the busy period and a random backoff.
Defer(n) ==
    /\ Awake(n) /\ csma[n].attempt < MaxAttempts /\ Sensed(n) # {}
    /\ \E b \in Backoffs(csma[n].attempt) :
          csma' = [csma EXCEPT ![n] = [state |-> "sense", attempt |-> @.attempt + 1,
                                       until |-> now + (BusyUntil(n) - Clock(n)) + b]]
    /\ UNCHANGED <<now, inAir, air, collided, flight, verdict, managed>>

\* The medium is idle, or the sender has given up waiting.
Talk(n) ==
    /\ Awake(n) /\ MaySend
    /\ Sensed(n) = {} \/ csma[n].attempt >= MaxAttempts
    /\ \E a \in Airtimes : Transmit(n, a, csma[n].attempt >= MaxAttempts)
    /\ csma' = [csma EXCEPT ![n] = Quiet]
    /\ UNCHANGED <<now, managed>>

-----------------------------------------------------------------------------
\* Virtual time: nothing that is due is left behind.
Tick ==
    /\ now < MaxTime
    /\ \A d \in flight : d.due > now
    /\ \A n \in Node : csma[n].state = "sense" => csma[n].until > now
    /\ now' = now + 1
    /\ UNCHANGED <<inAir, air, collided, flight, verdict, managed, csma>>

Next ==
    \/ \E n \in Node : Inject(n) \/ BeginSend(n) \/ Defer(n) \/ Talk(n)
    \/ \E d \in flight : Land(d)
    \/ SetMacMode
    \/ Tick

Spec == Init /\ [][Next]_vars

-----------------------------------------------------------------------------
(* Properties.  On air means [at, at + air) on the kernel clock.           *)

Fr == 1..Len(air)

TypeOK ==
    /\ now \in 0..MaxTime
    /\ inAir \subseteq Fr /\ Cardinality(inAir) <= InAirCap + 1
    /\ collided \subseteq Fr \X Node
    /\ \A d \in flight : d.frame \in Fr /\ d.rx \in Node
    /\ \A n \in Node : csma[n].attempt \in 0..MaxAttempts

Overlap(f, g) == air[f].at < air[g].at + air[g].air /\ air[g].at < air[f].at + air[f].air
OnAirAt(f, t) == air[f].at <= t /\ t < air[f].at + air[f].air
Got(f, r) == [frame |-> f, rx |-> r, reason |-> "delivered"] \in verdict
Clash(f, g) == air[f].node # air[g].node /\ Overlap(f, g) /\ Coupled(air[f].node, air[g].node)

\* Both lose: of two overlapping frames that a receiver can both decode, it gets neither,
\* whichever was sent first.  (A receiver that is itself on the air is a matter of
\* half-duplex.)
BothLose ==
    \A f, g \in Fr : Clash(f, g) =>
        \A r \in Node : Got(f, r) =>
            \/ Dist(air[g].node, r) > Decode
            \/ \E h \in Fr : air[h].node = r /\ (OnAirAt(h, air[f].at) \/ OnAirAt(h, air[g].at))

\* Nothing is lost without a cause: a collision names a coupled frame of a third node that
\* really overlapped it within interference range, and a half-duplex loss happens only
\* while the receiver really is on the air.
LossJustified ==
    \A v \in verdict :
        /\ v.reason = "collision" =>
              \E g \in Fr : /\ Clash(v.frame, g) /\ air[g].node # v.rx
                            /\ Dist(air[g].node, v.rx) <= Interfere
        /\ v.reason = "half_duplex" =>
              \E g \in Fr : air[g].node = v.rx /\ Overlap(g, v.frame)

\* One decision per frame and receiver: the radio log never says two things of one frame,
\* and never calls delivered what was lost to a retro-collision.
OneVerdict ==
    /\ \A v, w \in verdict : v.frame = w.frame /\ v.rx = w.rx => v = w
    /\ \A v \in verdict, d \in flight : ~(v.frame = d.frame /\ v.rx = d.rx)

\* What a receiver may conclude from the radio log: collisions hit both frames, every loss has
\* a cause that was on the air, and a frame has one fate per receiver.
AirSound == TypeOK /\ BothLose /\ LossJustified /\ OneVerdict

\* Listen-before-talk serialises the medium: two frames whose senders sense each other
\* overlap only if the later one was injected, or sent by a sender that had given up waiting.
CsmaSerialises ==
    \A f, g \in Fr :
        (f < g /\ Clash(f, g) /\ Dist(air[f].node, air[g].node) <= Interfere) => air[g].forced

=============================================================================
