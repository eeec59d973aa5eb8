-------------------------- MODULE SharedChannelProofs --------------------------
(***************************************************************************)
(* The invariants of SharedChannel hold for every rate, overhead, backlog   *)
(* bound and set of datagrams.  None of them is inductive by itself: a      *)
(* claim starts when the last one ended only because busy_until is the end  *)
(* of the last claim (Committed), and is bounded by the clock only because  *)
(* a sender's reading is never ahead of it (ReadingsPast).                  *)
(***************************************************************************)
EXTENDS SharedChannel, TLAPS, SequenceTheorems

ReadingsPast == \A s \in Sender : reading[s].at <= now

Committed ==
    /\ grants = <<>> => busy = 0
    /\ grants # <<>> => grants[Len(grants)].end = busy
    /\ \A i \in 1..Len(grants) : grants[i].end <= busy

IInv ==
    /\ TypeOK /\ ReadingsPast /\ Committed
    /\ Serialised /\ BacklogBounded /\ NoIdleGap /\ AirtimeFits

-----------------------------------------------------------------------------
LEMMA QuotientNat == ASSUME NEW x \in Nat, NEW y \in Nat \ {0} PROVE x \div y \in Nat
  OBVIOUS

LEMMA ProductNat == ASSUME NEW x \in Nat, NEW y \in Nat PROVE x * y \in Nat
  OBVIOUS

\* A datagram's airtime is a natural number.
LEMMA AirtimeNat == ASSUME NEW d \in Datagram PROVE Airtime(d) \in Nat
  <1>1. d.frames \in Nat /\ d.bytes \in Nat
    BY DatagramAssumption
  <1>2. d.bytes * 8 \in Nat
    BY <1>1
  <1>3. (d.bytes * 8) * NsPerSec \in Nat
    BY <1>2, RateAssumption, ProductNat
  <1>4. (d.bytes * 8 * NsPerSec) \div RateBps \in Nat
    BY <1>3, RateAssumption, QuotientNat
  <1>5. FrameOverhead * d.frames \in Nat
    BY <1>1, TimeAssumption, ProductNat
  <1> QED BY <1>4, <1>5 DEF Airtime

\* What one claim does to the medium, for a reading that is not ahead of the clock.
LEMMA ClaimKeeps ==
  ASSUME IInv, NEW at \in 0..MaxTime, at <= now, NEW d \in Datagram,
         ~Full(at), Claim(at, d), now' = now
  PROVE  /\ busy' \in Nat /\ frames' \in Nat /\ airtimeNs' \in Nat /\ tailDrops' \in Nat
         /\ grants' \in Seq(Grant)
         /\ Committed' /\ Serialised' /\ BacklogBounded' /\ NoIdleGap' /\ AirtimeFits'
  <1> DEFINE g == [at |-> at, start |-> Start(at), end |-> Start(at) + Airtime(d),
                   frames |-> d.frames]
             n == Len(grants)
  <1>a. Airtime(d) \in Nat /\ d.frames \in Nat /\ at \in Nat
    BY AirtimeNat, DatagramAssumption, TimeAssumption
  <1>b. /\ busy \in Nat /\ frames \in Nat /\ airtimeNs \in Nat /\ tailDrops \in Nat
        /\ grants \in Seq(Grant)
    BY DEF IInv, TypeOK
  <1>c. now \in Nat /\ MaxBacklog \in Nat
    BY TimeAssumption DEF IInv, TypeOK
  <1>1. Start(at) \in Nat /\ Start(at) >= busy /\ Start(at) >= at
    BY <1>a, <1>b DEF Start
  <1>2. g \in Grant
    BY <1>a, <1>1 DEF Grant
  <1>3. grants' = Append(grants, g)
    BY DEF Claim
  <1>n. busy' = Start(at) + Airtime(d)
    BY DEF Claim
  <1>m. /\ airtimeNs' = airtimeNs + Airtime(d)
        /\ frames' = frames + d.frames
        /\ tailDrops' = tailDrops
    BY DEF Claim
  <1>4. grants' \in Seq(Grant)
    BY <1>2, <1>3, <1>b
  <1>5. /\ n \in Nat /\ Len(grants') = n + 1 /\ grants'[n + 1] = g
        /\ \A i \in 1..n : grants'[i] = grants[i]
    BY <1>2, <1>3, <1>b
  <1>6. busy' \in Nat /\ frames' \in Nat /\ airtimeNs' \in Nat /\ tailDrops' \in Nat
    <2>1. busy' \in Nat
      BY <1>a, <1>1, <1>n
    <2>2. frames' \in Nat /\ airtimeNs' \in Nat
      BY <1>a, <1>b, <1>m
    <2>3. tailDrops' \in Nat
      BY <1>b, <1>m
    <2> QED BY <2>1, <2>2, <2>3
  <1>7. \A i \in 1..n : grants[i].end \in Nat /\ grants[i].end <= busy
    <2>1. \A i \in 1..n : grants[i] \in Grant
      BY <1>b, ElementOfSeq
    <2> QED BY <2>1 DEF IInv, Committed, Grant
  <1>8. Committed'
    <2>1. grants' # <<>> /\ grants'[Len(grants')].end = busy'
      BY <1>n, <1>5
    <2>2. ASSUME NEW i \in 1..Len(grants') PROVE grants'[i].end <= busy'
      <3>1. CASE i = n + 1
        BY <3>1, <1>n, <1>5, <1>6
      <3>2. CASE i # n + 1
        <4>1. i \in 1..n
          BY <3>2, <1>5
        <4> QED BY <4>1, <1>a, <1>b, <1>1, <1>n, <1>5, <1>7
      <3> QED BY <3>1, <3>2
    <2> QED BY <2>1, <2>2 DEF Committed
  <1>9. Serialised'
    <2>1. SUFFICES ASSUME NEW i \in 1..Len(grants'), NEW j \in 1..Len(grants'), i < j
                   PROVE  grants'[i].end <= grants'[j].start
      BY DEF Serialised
    <2>2. i \in 1..n
      BY <2>1, <1>5
    <2>3. CASE j = n + 1
      BY <2>2, <2>3, <1>b, <1>1, <1>5, <1>7
    <2>4. CASE j # n + 1
      <3>1. j \in 1..n
        BY <2>4, <1>5
      <3> QED BY <2>1, <2>2, <3>1, <1>5 DEF IInv, Serialised
    <2> QED BY <2>3, <2>4
  <1>10. BacklogBounded'
    <2>1. Start(at) <= at + MaxBacklog
      BY <1>a, <1>c, <1>1 DEF Full
    <2>2. busy' <= now' + MaxBacklog + Airtime(d)
      BY <2>1, <1>a, <1>c, <1>1, <1>n
    <2> QED BY <2>2 DEF BacklogBounded, Airtime
  <1>11. NoIdleGap'
    <2>1. SUFFICES ASSUME NEW i \in 1..Len(grants'), grants'[i].start > grants'[i].at
                   PROVE  i > 1 /\ grants'[i].start = grants'[i-1].end
      BY DEF NoIdleGap
    <2>2. CASE i = n + 1
      <3>1. Start(at) > at
        BY <2>1, <2>2, <1>5
      <3>2. Start(at) = busy /\ busy > 0
        BY <3>1, <1>a, <1>b DEF Start
      <3>3. grants # <<>> /\ grants[n].end = busy
        BY <3>2 DEF IInv, Committed
      <3>4. n > 0
        BY <3>3, <1>b, <1>5
      <3> QED BY <2>2, <3>2, <3>3, <3>4, <1>5
    <2>3. CASE i # n + 1
      <3>1. i \in 1..n
        BY <2>3, <1>5
      <3>2. grants[i].start > grants[i].at
        BY <3>1, <2>1, <1>5
      <3>3. i > 1 /\ grants[i].start = grants[i-1].end
        BY <3>1, <3>2 DEF IInv, NoIdleGap
      <3> QED BY <3>1, <3>3, <1>5
    <2> QED BY <2>2, <2>3
  <1>12. AirtimeFits'
    BY <1>a, <1>b, <1>1, <1>n, <1>m DEF IInv, AirtimeFits
  <1> QED BY <1>4, <1>6, <1>8, <1>9, <1>10, <1>11, <1>12

\* A transmit, refused or not, keeps what the medium promises.
LEMMA TransmitKeeps ==
  ASSUME IInv, NEW at \in 0..MaxTime, at <= now, NEW d \in Datagram,
         Transmit(at, d), now' = now
  PROVE  /\ busy' \in Nat /\ frames' \in Nat /\ airtimeNs' \in Nat /\ tailDrops' \in Nat
         /\ grants' \in Seq(Grant)
         /\ Committed' /\ Serialised' /\ BacklogBounded' /\ NoIdleGap' /\ AirtimeFits'
  <1>1. CASE Full(at)
    <2>1. Refuse
      BY <1>1 DEF Transmit
    <2>2. UNCHANGED <<busy, frames, airtimeNs, grants>> /\ tailDrops' = tailDrops + 1
      BY <2>1 DEF Refuse
    <2>3. /\ busy' \in Nat /\ frames' \in Nat /\ airtimeNs' \in Nat /\ tailDrops' \in Nat
          /\ grants' \in Seq(Grant)
      BY <2>2 DEF IInv, TypeOK
    <2>4. Committed' /\ Serialised' /\ NoIdleGap' /\ AirtimeFits'
      BY <2>2 DEF IInv, Committed, Serialised, NoIdleGap, AirtimeFits
    <2>5. BacklogBounded'
      BY <2>2 DEF IInv, BacklogBounded, Airtime
    <2> QED BY <2>3, <2>4, <2>5
  <1>2. CASE ~Full(at)
    BY <1>2, ClaimKeeps DEF Transmit
  <1> QED BY <1>1, <1>2

-----------------------------------------------------------------------------
LEMMA InitIInv == Init => IInv
  <1> SUFFICES ASSUME Init PROVE IInv
    OBVIOUS
  <1>1. TypeOK
    BY TimeAssumption DEF Init, TypeOK, Resting
  <1>2. ReadingsPast
    <2>1. ASSUME NEW s \in Sender PROVE reading[s].at <= now
      <3>1. reading[s] = Resting /\ now = 0
        BY DEF Init
      <3>2. Resting.at <= 0
        BY DEF Resting
      <3> QED BY <3>1, <3>2
    <2> QED BY <2>1 DEF ReadingsPast
  <1>3. Committed /\ Serialised /\ NoIdleGap /\ AirtimeFits
    BY DEF Init, Committed, Serialised, NoIdleGap, AirtimeFits
  <1>4. BacklogBounded
    <2> DEFINE none == [frames |-> 0, bytes |-> 0]
    <2>1. Airtime(none) = FrameOverhead * 0 + ((0 * 8 * NsPerSec) \div RateBps)
      BY DEF Airtime
    <2>2. Airtime(none) \in Nat
      BY <2>1, RateAssumption, TimeAssumption
    <2>3. busy <= now + MaxBacklog + Airtime(none)
      BY <2>2, TimeAssumption DEF Init
    <2> QED BY <2>3 DEF BacklogBounded
  <1> QED BY <1>1, <1>2, <1>3, <1>4 DEF IInv

LEMMA StepIInv == IInv /\ [Next]_vars => IInv'
  <1> SUFFICES ASSUME IInv, [Next]_vars PROVE IInv'
    OBVIOUS
  <1> USE TimeAssumption
  <1>1. ASSUME NEW s \in Sender, TransmitRead(s) PROVE IInv'
    <2>1. reading[s].at \in 0..MaxTime /\ reading[s].d \in Datagram /\ reading[s].at <= now
      BY <1>1 DEF IInv, TypeOK, ReadingsPast, TransmitRead
    <2>2. Transmit(reading[s].at, reading[s].d) /\ now' = now
      BY <1>1 DEF TransmitRead
    <2>3. /\ busy' \in Nat /\ frames' \in Nat /\ airtimeNs' \in Nat /\ tailDrops' \in Nat
          /\ grants' \in Seq(Grant)
          /\ Committed' /\ Serialised' /\ BacklogBounded' /\ NoIdleGap' /\ AirtimeFits'
      BY <2>1, <2>2, TransmitKeeps
    <2>4. reading' = [reading EXCEPT ![s] = Resting]
      BY <1>1 DEF TransmitRead
    <2>5. ReadingsPast'
      BY <2>2, <2>4 DEF IInv, TypeOK, ReadingsPast, Resting
    <2>6. TypeOK'
      BY <2>2, <2>3, <2>4 DEF IInv, TypeOK
    <2> QED BY <2>3, <2>5, <2>6 DEF IInv
  <1>2. ASSUME NEW s \in Sender, NEW d \in Datagram, ReadClock(s, d) PROVE IInv'
    <2>1. reading' = [reading EXCEPT ![s] = [at |-> now, d |-> d]]
          /\ UNCHANGED <<now, busy, frames, airtimeNs, tailDrops, grants>>
      BY <1>2 DEF ReadClock, chan
    <2>2. TypeOK' /\ ReadingsPast'
      BY <2>1 DEF IInv, TypeOK, ReadingsPast
    <2> QED BY <2>1, <2>2 DEF IInv, Committed, Serialised, BacklogBounded, NoIdleGap,
                              AirtimeFits, Airtime
  <1>3. ASSUME NEW d \in Datagram, TransmitNow(d) PROVE IInv'
    <2>1. now \in 0..MaxTime /\ Transmit(now, d) /\ UNCHANGED <<now, reading>>
      BY <1>3 DEF IInv, TypeOK, TransmitNow
    <2>2. /\ busy' \in Nat /\ frames' \in Nat /\ airtimeNs' \in Nat /\ tailDrops' \in Nat
          /\ grants' \in Seq(Grant)
          /\ Committed' /\ Serialised' /\ BacklogBounded' /\ NoIdleGap' /\ AirtimeFits'
      BY <2>1, TransmitKeeps
    <2>3. TypeOK' /\ ReadingsPast'
      BY <2>1, <2>2 DEF IInv, TypeOK, ReadingsPast
    <2> QED BY <2>2, <2>3 DEF IInv
  <1>4. ASSUME Tick PROVE IInv'
    <2>1. now' = now + 1 /\ now < MaxTime
          /\ UNCHANGED <<busy, frames, airtimeNs, tailDrops, grants, reading>>
      BY <1>4 DEF Tick, chan
    <2>2. TypeOK' /\ ReadingsPast'
      BY <2>1 DEF IInv, TypeOK, ReadingsPast, Resting
    <2>3. BacklogBounded'
      <3>1. PICK d \in Datagram \cup {[frames |-> 0, bytes |-> 0]} :
                busy <= now + MaxBacklog + Airtime(d)
        BY DEF IInv, BacklogBounded
      <3>2. Airtime(d) \in Int
        <4>1. CASE d \in Datagram
          BY <4>1, AirtimeNat
        <4>2. CASE d = [frames |-> 0, bytes |-> 0]
          BY <4>2, RateAssumption DEF Airtime
        <4> QED BY <4>1, <4>2
      <3>3. busy' <= now' + MaxBacklog + Airtime(d)
        BY <2>1, <3>1, <3>2 DEF IInv, TypeOK
      <3> QED BY <3>3 DEF BacklogBounded, Airtime
    <2> QED BY <2>1, <2>2, <2>3 DEF IInv, Committed, Serialised, NoIdleGap, AirtimeFits
  <1>5. CASE UNCHANGED vars
    BY <1>5 DEF IInv, vars, TypeOK, ReadingsPast, Committed, Serialised, BacklogBounded,
                NoIdleGap, AirtimeFits, Airtime
  <1> QED BY <1>1, <1>2, <1>3, <1>4, <1>5 DEF Next

LEMMA IInvAlways == Spec => []IInv
  BY InitIInv, StepIInv, PTL DEF Spec

-----------------------------------------------------------------------------
\* The clock, the counters and the claims keep their types under every interleaving of
\* readings and transmits.
THEOREM TypeCorrect == Spec => []TypeOK
  <1>1. IInv => TypeOK
    BY DEF IInv
  <1> QED BY <1>1, IInvAlways, PTL

\* SharedChannel::transmit hands the medium to one datagram at a time, first come first
\* served, also to senders whose clock reading is stale.
THEOREM OneAtATime == Spec => []Serialised
  <1>1. IInv => Serialised
    BY DEF IInv
  <1> QED BY <1>1, IInvAlways, PTL

\* The backlog check bounds how far ahead of the clock the medium is committed.
THEOREM BacklogIsBounded == Spec => []BacklogBounded
  <1>1. IInv => BacklogBounded
    BY DEF IInv
  <1> QED BY <1>1, IInvAlways, PTL

\* A datagram that waits starts the moment its predecessor ends.
THEOREM WorkConserving == Spec => []NoIdleGap
  <1>1. IInv => NoIdleGap
    BY DEF IInv
  <1> QED BY <1>1, IInvAlways, PTL

\* ChannelStats' airtime never exceeds the time claimed.
THEOREM LoadAtMostOne == Spec => []AirtimeFits
  <1>1. IInv => AirtimeFits
    BY DEF IInv
  <1> QED BY <1>1, IInvAlways, PTL

\* SharedChannel::transmit keeps all of it at once, whoever transmits, whatever and whenever.
THEOREM MediumIsSound == Spec => []MediumSound
  <1>1. IInv => MediumSound
    BY DEF IInv, MediumSound
  <1> QED BY <1>1, IInvAlways, PTL

=============================================================================
