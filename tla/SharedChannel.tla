---------------------------- MODULE SharedChannel ----------------------------
(***************************************************************************)
(* One contended medium that several links transmit on:                    *)
(* crates/ndn-sim/src/shared_channel.rs.                                   *)
(*                                                                         *)
(* A sender reads the kernel clock and then claims the medium under the    *)
(* channel's lock.  On the event-queue kernel the two happen at one        *)
(* instant (TransmitNow); on the wall-clock kernel another thread may      *)
(* claim in between, so the reading a claim carries may be old.            *)
(***************************************************************************)
EXTENDS Integers, Sequences

CONSTANTS
    Sender,        \* the faces that transmit on this channel
    Datagram,      \* what they transmit: records [frames, bytes]
    RateBps,       \* rate_bps
    NsPerSec,      \* nanoseconds per second (1_000_000_000)
    FrameOverhead, \* frame_overhead
    MaxBacklog,    \* max_backlog
    MaxTime        \* bound on the clock

ASSUME DatagramAssumption == Datagram \subseteq [frames : Nat \ {0}, bytes : Nat]
ASSUME RateAssumption == RateBps \in Nat \ {0} /\ NsPerSec \in Nat
ASSUME TimeAssumption == FrameOverhead \in Nat /\ MaxBacklog \in Nat /\ MaxTime \in Nat

VARIABLES
    now,        \* the kernel clock
    busy,       \* busy_until; 0 stands for None (no reading is before it)
    frames,     \* radio frames carried
    airtimeNs,  \* airtime consumed
    tailDrops,  \* datagrams refused
    reading,    \* sender -> its send in progress [at, d] (the clock it read), or Resting
    grants      \* history: the claims [at, start, end, frames], in the order they were made

chan == <<busy, frames, airtimeNs, tailDrops, grants>>
vars == <<now, busy, frames, airtimeNs, tailDrops, reading, grants>>

Resting == [at |-> -1]

Init ==
    /\ now = 0 /\ busy = 0 /\ frames = 0 /\ airtimeNs = 0 /\ tailDrops = 0
    /\ reading = [s \in Sender |-> Resting]
    /\ grants = <<>>

\* SharedChannel::airtime.
Airtime(d) == FrameOverhead * d.frames + ((d.bytes * 8 * NsPerSec) \div RateBps)

\* Fault: the claim starts at the sender's reading although the medium is taken.
StartAtReading(at) == at

\* When a datagram offered at `at` starts: the medium must be free.
Start(at) == IF busy > at THEN busy ELSE at

\* The backlog bound counts what is queued before the datagram, not the datagram itself.
Full(at) == Start(at) - at > MaxBacklog

Claim(at, d) ==
    /\ busy' = Start(at) + Airtime(d)
    /\ frames' = frames + d.frames
    /\ airtimeNs' = airtimeNs + Airtime(d)
    /\ grants' = Append(grants, [at |-> at, start |-> Start(at), end |-> Start(at) + Airtime(d),
                                 frames |-> d.frames])
    /\ UNCHANGED tailDrops

Refuse ==
    /\ tailDrops' = tailDrops + 1
    /\ UNCHANGED <<busy, frames, airtimeNs, grants>>

\* SharedChannel::transmit.
Transmit(at, d) == IF Full(at) THEN Refuse ELSE Claim(at, d)

\* A thread of the wall-clock kernel reads the clock ...
ReadClock(s, d) ==
    /\ reading[s] = Resting
    /\ reading' = [reading EXCEPT ![s] = [at |-> now, d |-> d]]
    /\ UNCHANGED <<now, chan>>

\* ... and transmits with that reading.
TransmitRead(s) ==
    /\ reading[s] # Resting
    /\ Transmit(reading[s].at, reading[s].d)
    /\ reading' = [reading EXCEPT ![s] = Resting]
    /\ UNCHANGED now

\* On the event-queue kernel no other task runs in between.
TransmitNow(d) ==
    /\ Transmit(now, d)
    /\ UNCHANGED <<now, reading>>

Tick ==
    /\ now < MaxTime
    /\ now' = now + 1
    /\ UNCHANGED <<chan, reading>>

Next ==
    \/ \E s \in Sender : TransmitRead(s) \/ \E d \in Datagram : ReadClock(s, d)
    \/ \E d \in Datagram : TransmitNow(d)
    \/ Tick

Spec == Init /\ [][Next]_vars

-----------------------------------------------------------------------------
(* Properties.                                                             *)

Grant == [at : Nat, start : Nat, end : Nat, frames : Nat]

TypeOK ==
    /\ now \in 0..MaxTime
    /\ busy \in Nat /\ frames \in Nat /\ airtimeNs \in Nat /\ tailDrops \in Nat
    /\ reading \in [Sender -> {Resting} \cup [at : 0..MaxTime, d : Datagram]]
    /\ grants \in Seq(Grant)

\* The medium carries one datagram at a time, first come first served: every claim starts
\* after the previous ones have ended, even when its clock reading is older than theirs.
Serialised ==
    \A i, j \in 1..Len(grants) : i < j => grants[i].end <= grants[j].start

\* Overload cannot queue without bound: the medium is never committed further ahead of the
\* clock than the backlog bound plus one datagram, whatever was offered.
BacklogBounded ==
    \E d \in Datagram \cup {[frames |-> 0, bytes |-> 0]} :
        busy <= now + MaxBacklog + Airtime(d)

\* No airtime is wasted: a datagram that had to wait starts the moment its predecessor ends.
NoIdleGap ==
    \A i \in 1..Len(grants) :
        grants[i].start > grants[i].at => i > 1 /\ grants[i].start = grants[i-1].end

\* The counters account for exactly the claims: the airtime counted never exceeds the time the
\* medium was claimed for, so a load computed from ChannelStats is at most one.
AirtimeFits == airtimeNs <= busy

\* What the links sharing a channel rely on: one datagram at a time, a bounded backlog, no
\* airtime wasted while datagrams wait, and counters that account for the claims.
MediumSound == TypeOK /\ Serialised /\ BacklogBounded /\ NoIdleGap /\ AirtimeFits

=============================================================================
