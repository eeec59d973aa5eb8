------------------------------ MODULE LoraMedium ------------------------------
(***************************************************************************)
(* The shared ALOHA medium of LoRa nodes: crates/ndn-sim-studies/src/      *)
(* lora.rs (LoraMedium::begin_tx, resolve, set_positions).                 *)
(*                                                                         *)
(* All frames of a medium have one payload size, spreading factor and      *)
(* channel, so one airtime.  Free-space propagation: a frame is received   *)
(* 6 dB stronger than another from half its distance.  Distances squared.  *)
(***************************************************************************)
EXTENDS Integers, Sequences, FiniteSets

CONSTANTS
    Airtime,       \* of one frame
    OffTime,       \* DutyCycle::off_time(Airtime)
    RadioRange2    \* range_m, squared

ASSUME LoraAssumption == Airtime \in Nat \ {0} /\ OffTime \in Nat /\ RadioRange2 \in Nat

VARIABLES
    dutyEnforced,  \* the regulator is on
    windows,       \* in-air windows kept: [id, node, start, stop]
    nextAllowed,   \* node -> earliest next transmission
    mpos,          \* node -> position, as the medium last heard
    airLog         \* every frame begun: [node, start, rx, verdict, pos]; its index is its id

medium == <<dutyEnforced, windows, nextAllowed, mpos, airLog>>

Gap2(p, q) == (p[1] - q[1]) * (p[1] - q[1]) + (p[2] - q[2]) * (p[2] - q[2])
AtLeast1(d2) == IF d2 < 1 THEN 1 ELSE d2

MediumInit(node, pos, enforced) ==
    /\ dutyEnforced = enforced
    /\ windows = {}
    /\ nextAllowed = [u \in node |-> 0]
    /\ mpos = pos
    /\ airLog = <<>>

DutyGated(u, now) == dutyEnforced /\ now < nextAllowed[u]

\* Fault: windows that ended before now are forgotten.
PruneEnded(now) == {w \in windows : w.stop >= now}

\* A window that ended more than one airtime ago overlaps no frame still in the air.
Pruned(now) == {w \in windows : w.stop >= now - Airtime}

\* begin_tx past the gate: the frame takes the air and the regulator its off-time.
Register(u, rx, now) ==
    /\ windows' = Pruned(now) \cup {[id |-> Len(airLog) + 1, node |-> u, start |-> now, stop |-> now + Airtime]}
    /\ nextAllowed' = IF dutyEnforced
                      THEN [nextAllowed EXCEPT ![u] = now + Airtime + OffTime] ELSE nextAllowed
    /\ airLog' = Append(airLog, [node |-> u, start |-> now, rx |-> rx, verdict |-> "air", pos |-> mpos])
    /\ UNCHANGED <<dutyEnforced, mpos>>

\* Frames of other nodes that overlap [start, stop) and reach the receiver.
Interferers(ws, u, start, rx, pos) ==
    {w \in ws : /\ w.node # u
                /\ w.start < start + Airtime /\ start < w.stop
                /\ Gap2(pos[w.node], pos[rx]) <= RadioRange2}

\* Capture: half the distance of the loudest interferer, at least.
Captures(u, i, rx, pos) ==
    4 * AtLeast1(Gap2(pos[u], pos[rx])) <= AtLeast1(Gap2(pos[i], pos[rx]))

\* resolve: does frame id survive at its receiver?  Only windows still kept count; a frame
\* whose own window is gone is taken to have had a clear medium.
Survives(id) ==
    LET f == airLog[id]
        kept == \E w \in windows : w.id = id
        heard == Interferers(windows, f.node, f.start, f.rx, mpos)
    IN kept => \A w \in heard : Captures(f.node, w.node, f.rx, mpos)

Verdict(id) ==
    /\ airLog' = [airLog EXCEPT ![id].verdict = IF Survives(id) THEN "clear" ELSE "lost", ![id].pos = mpos]
    /\ UNCHANGED <<dutyEnforced, windows, nextAllowed, mpos>>

SetPositions(pos) ==
    /\ mpos' = pos
    /\ UNCHANGED <<dutyEnforced, windows, nextAllowed, airLog>>

-----------------------------------------------------------------------------
\* A frame resolved is decoded exactly when every frame ever sent that overlapped it within
\* range of its receiver was captured: pruning forgets none that matters, and of two frames
\* that reach both receivers about equally loud both are lost (lora.rs begin_tx / resolve).
VerdictsSound ==
    LET all == {[node |-> airLog[i].node, start |-> airLog[i].start, stop |-> airLog[i].start + Airtime] :
                i \in DOMAIN airLog}
    IN \A i \in DOMAIN airLog :
         LET f == airLog[i]
             heard == Interferers(all, f.node, f.start, f.rx, f.pos)
         IN f.verdict # "air" =>
              (f.verdict = "clear" <=> \A w \in heard : Captures(f.node, w.node, f.rx, f.pos))

\* Under the regulator no node is on the air again before its off-time has passed since the
\* end of its last frame, whichever of its tasks sends (begin_tx, DutyCycle::off_time).
DutyHolds ==
    dutyEnforced =>
      \A i, j \in DOMAIN airLog :
        i < j /\ airLog[i].node = airLog[j].node =>
          airLog[j].start >= airLog[i].start + Airtime + OffTime

\* The medium decides and regulates by the frames that were really on the air, although it
\* forgets windows as it goes.
LoraSound == VerdictsSound /\ DutyHolds

=============================================================================
