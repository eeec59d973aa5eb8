---------------------------- MODULE ToolkitProofs ----------------------------
(***************************************************************************)
(* Proofs about the parts of Toolkit.  A behaviour of Toolkit exercises    *)
(* one part while the others rest, so it is a behaviour of each part.      *)
(*                                                                         *)
(* The clock: a skewed clock is monotone between two changes of its skew,  *)
(* for any number of readers and setters, any skews and any width.         *)
(*                                                                         *)
(* The field consumer and its watchdog: for any number of replicas,        *)
(* publishers, Blocks, restarts and losses, what is vouched for is held,   *)
(* what is held is what was authored, what is stored is reported, and a    *)
(* stall was a silence.                                                    *)
(*                                                                         *)
(* The flow: for any window, pace and count, its statistics agree with     *)
(* what was asked, whatever order the replies come in.                     *)
(*                                                                         *)
(* The world: for any places, cells and edits, a range query no edit       *)
(* overlaps is answered as the map has it; for any feed, what was fed is   *)
(* recorded in its order and the replay passes through it.                 *)
(*                                                                         *)
(* The session: for any clients, scenarios and commands, interleaved lock  *)
(* by lock, what took effect in the journal's order replays to the fabric  *)
(* it made, and who follows the notices knows the nodes.                   *)
(*                                                                         *)
(* The validation: for any specs, a verdict of passed was earned by every  *)
(* run of the sweep, and the faults fired on time.                         *)
(***************************************************************************)
EXTENDS Toolkit, TLAPS, FiniteSetTheorems, SequenceTheorems, WellFoundedInduction

-----------------------------------------------------------------------------
(* Arithmetic.                                                             *)

LEMMA DivBounds ==
  ASSUME NEW n \in Nat, NEW d \in Nat \ {0}
  PROVE  /\ n \div d \in Nat
         /\ d * (n \div d) <= n
         /\ n < d * (n \div d) + d
  OBVIOUS

\* The truncated quotient: its multiple is on the near side of n, less than d away.
LEMMA TruncatedBounds ==
  ASSUME NEW n \in Int, NEW d \in Nat \ {0}
  PROVE  /\ Truncated(n, d) \in Int
         /\ n >= 0 => /\ Truncated(n, d) >= 0
                      /\ d * Truncated(n, d) <= n
                      /\ n < d * Truncated(n, d) + d
         /\ n < 0 => /\ Truncated(n, d) <= 0
                     /\ d * Truncated(n, d) >= n
                     /\ n > d * Truncated(n, d) - d
  <1>1. CASE n >= 0
    <2>1. n \in Nat /\ Truncated(n, d) = n \div d
      BY <1>1 DEF Truncated
    <2> QED BY <2>1, <1>1, DivBounds
  <1>2. CASE n < 0
    <2> DEFINE m == -n
               q == m \div d
    <2>1. m \in Nat /\ Truncated(n, d) = -q
      BY <1>2 DEF Truncated
    <2>2. q \in Nat /\ d * q <= m /\ m < d * q + d
      BY <2>1, DivBounds
    <2> HIDE DEF q
    <2>3. d * (-q) = -(d * q)
      BY <2>2
    <2> QED BY <1>2, <2>1, <2>2, <2>3
  <1> QED BY <1>1, <1>2

LEMMA ProductMonotone ==
  ASSUME NEW a \in Int, NEW b \in Int, NEW c \in Nat, a <= b
  PROVE  c * a <= c * b
  OBVIOUS

\* A drift no slower than standing still never undoes the progress of true time.
LEMMA DriftKeepsOrder ==
  ASSUME NEW x \in Int, NEW y \in Int, x <= y, NEW p \in Int,
         NEW d \in Nat \ {0}, p >= -d
  PROVE  x + Truncated(x * p, d) <= y + Truncated(y * p, d)
  <1> DEFINE q == Truncated(x * p, d)
             r == Truncated(y * p, d)
             k == y - x
  <1>1. x * p \in Int /\ y * p \in Int /\ k \in Nat
    OBVIOUS
  <1>2. y * p >= x * p - d * k
    <2>1. k * (-d) <= k * p
      BY <1>1, ProductMonotone
    <2>2. y * p = x * p + k * p /\ k * (-d) = -(d * k)
      OBVIOUS
    <2> QED BY <2>1, <2>2
  <1>3. /\ q \in Int
        /\ x * p >= 0 => q >= 0 /\ d * q <= x * p /\ x * p < d * q + d
        /\ x * p < 0 => q <= 0 /\ d * q >= x * p /\ x * p > d * q - d
    BY <1>1, TruncatedBounds
  <1>4. /\ r \in Int
        /\ y * p >= 0 => r >= 0 /\ d * r <= y * p /\ y * p < d * r + d
        /\ y * p < 0 => r <= 0 /\ d * r >= y * p /\ y * p > d * r - d
    BY <1>1, TruncatedBounds
  <1> HIDE DEF q, r, k
  <1>5. q <= r + k
    <2> SUFFICES ASSUME q >= r + k + 1 PROVE FALSE
      BY <1>1, <1>3, <1>4
    <2>1. d * q >= d * r + d * k + d
      <3>1. r + k + 1 \in Int /\ d \in Nat /\ d * (r + k + 1) <= d * q
        BY <1>1, <1>3, <1>4, ProductMonotone
      <3>2. d * (r + k + 1) = d * r + d * k + d
        BY <1>1, <1>4
      <3> QED BY <3>1, <3>2
    <2> DEFINE dq == d * q
               dr == d * r
               dk == d * k
               xp == x * p
               yp == y * p
    <2>2. dq \in Int /\ dr \in Int /\ dk \in Int /\ xp \in Int /\ yp \in Int
      BY <1>1, <1>3, <1>4
    <2>3. dq >= dr + dk + d /\ yp >= xp - dk
      BY <2>1, <1>2
    <2>4. /\ xp >= 0 => q >= 0 /\ dq <= xp /\ xp < dq + d
          /\ xp < 0 => q <= 0 /\ dq >= xp /\ xp > dq - d
          /\ yp >= 0 => r >= 0 /\ dr <= yp /\ yp < dr + d
          /\ yp < 0 => r <= 0 /\ dr >= yp /\ yp > dr - d
      BY <1>3, <1>4
    <2> HIDE DEF dq, dr, dk, xp, yp
    <2> QED BY <2>2, <2>3, <2>4, <1>1, <1>3, <1>4
  <1> QED BY <1>5, <1>3, <1>4 DEF q, r, k

LEMMA ApplyMonotone ==
  ASSUME NEW s \in Skews, NEW a \in Int, NEW t \in Int, NEW u \in Int,
         t <= u, s.ppm >= -Million
  PROVE  Apply(s, t, a) \in 0..UMax /\ Apply(s, t, a) <= Apply(s, u, a)
  <1>1. s.ppm \in Int /\ s.offset \in Int /\ Million \in Nat \ {0} /\ UMax \in Nat
    BY SkewAssumption, WidthAssumption
  <1>2. t - a \in Int /\ u - a \in Int /\ t - a <= u - a
    OBVIOUS
  <1>3. (t - a) + Drift(s, t, a) <= (u - a) + Drift(s, u, a)
    BY <1>1, <1>2, DriftKeepsOrder DEF Drift
  <1>4. Drift(s, t, a) \in Int /\ Drift(s, u, a) \in Int
    <2>1. (t - a) * s.ppm \in Int /\ (u - a) * s.ppm \in Int
      BY <1>1, <1>2
    <2> QED BY <2>1, <1>1, TruncatedBounds DEF Drift
  <1>5. t + s.offset + Drift(s, t, a) <= u + s.offset + Drift(s, u, a)
    BY <1>1, <1>3, <1>4
  <1> QED BY <1>1, <1>4, <1>5 DEF Apply, Clamp

-----------------------------------------------------------------------------
(* The invariant: what a reader's latest reading was computed from, and    *)
(* that it is not ahead of the reading under way.                          *)

SkewReading == [true : 0..MaxTrue, value : Int, since : 0..MaxTrue, sets : Nat, skew : Skews]
PendingSkew == [anchor : 0..MaxTrue, skew : Skews]

SkewTypes ==
    /\ true \in 0..MaxTrue /\ skew \in Skews /\ anchor \in 0..MaxTrue /\ sets \in Nat
    /\ setting \in [Setter -> {Nothing} \cup PendingSkew]
    /\ reading \in [Reader -> -1..MaxTrue]
    /\ latest \in [Reader -> {Nothing} \cup SkewReading]
    /\ since = anchor

\* Computed, before now, with the n-th skew, k anchored at a, or with an earlier one.
ReadingAccounted(l, now, n, k, a) ==
    /\ l.value = Apply(l.skew, l.true, l.since)
    /\ l.true <= now /\ l.sets <= n
    /\ l.sets = n => l.skew = k /\ l.since = a

SkewInv ==
    /\ SkewTypes
    /\ \A r \in Reader : reading[r] <= true
    /\ \A r \in Reader : latest[r] # Nothing =>
          /\ ReadingAccounted(latest[r], true, sets, skew, anchor)
          /\ reading[r] # -1 => latest[r].true <= reading[r]

LEMMA NothingIsNoSample == \A l \in SkewReading \cup PendingSkew : l # Nothing
  <1>1. ASSUME NEW l \in SkewReading PROVE l # Nothing
    BY <1>1 DEF SkewReading, Nothing
  <1>2. ASSUME NEW l \in PendingSkew PROVE l # Nothing
    BY <1>2 DEF PendingSkew, Nothing
  <1> QED BY <1>1, <1>2

LEMMA SkewInvInit == SkewInit => SkewInv
  BY SkewAssumption, WidthAssumption DEF SkewInit, SkewInv, SkewTypes

LEMMA ApplyInt ==
  ASSUME NEW s \in Skews, NEW t \in Int, NEW a \in Int
  PROVE  Apply(s, t, a) \in 0..UMax
  <1>1. s.ppm \in Int /\ s.offset \in Int /\ Million \in Nat \ {0} /\ UMax \in Nat
    BY SkewAssumption, WidthAssumption
  <1>2. (t - a) * s.ppm \in Int
    BY <1>1
  <1>3. Drift(s, t, a) \in Int
    BY <1>1, <1>2, TruncatedBounds DEF Drift
  <1> QED BY <1>1, <1>3 DEF Apply, Clamp

LEMMA SkewInvNext == SkewInv /\ [SkewNext]_skewVars => SkewInv'
  <1> SUFFICES ASSUME SkewInv, [SkewNext]_skewVars PROVE SkewInv'
    OBVIOUS
  <1>0. SkewTypes /\ MaxTrue \in Nat
    BY WidthAssumption DEF SkewInv
  <1>1. ASSUME NEW k \in Setter, Install(k) PROVE SkewInv'
    <2>1. setting[k] \in PendingSkew
      BY <1>0, <1>1 DEF Install, SkewTypes
    <2>2. /\ skew' \in Skews /\ anchor' \in 0..MaxTrue /\ since' = anchor' /\ sets' = sets + 1
          /\ setting' = [setting EXCEPT ![k] = Nothing]
      BY <1>1, <2>1 DEF Install, PendingSkew
    <2>3. UNCHANGED <<true, reading, latest>>
      BY <1>1 DEF Install
    <2>4. SkewTypes'
      BY <1>0, <2>2, <2>3 DEF SkewTypes
    <2>5. ASSUME NEW r \in Reader, latest[r] # Nothing
          PROVE  ReadingAccounted(latest[r], true, sets + 1, skew', anchor')
      <3>1. ReadingAccounted(latest[r], true, sets, skew, anchor)
        BY <2>5 DEF SkewInv
      <3>2. latest[r].sets \in Nat /\ sets \in Nat
        BY <1>0, <2>5 DEF SkewTypes, SkewReading
      <3> QED BY <3>1, <3>2 DEF ReadingAccounted
    <2> QED BY <2>2, <2>3, <2>4, <2>5 DEF SkewInv
  <1>2. ASSUME NEW k \in Setter, NEW s \in Skews, ReadAnchor(k, s) PROVE SkewInv'
    <2>1. [anchor |-> true, skew |-> s] \in PendingSkew
      BY <1>0 DEF PendingSkew, SkewTypes
    <2> QED BY <1>2, <2>1 DEF ReadAnchor, SkewInv, SkewTypes
  <1>3. ASSUME NEW q \in Reader, ReadTrue(q) PROVE SkewInv'
    <2>1. reading' = [reading EXCEPT ![q] = true]
      BY <1>3 DEF ReadTrue
    <2>2. UNCHANGED <<true, skew, anchor, setting, latest, since, sets>>
      BY <1>3 DEF ReadTrue
    <2>3. reading \in [Reader -> -1..MaxTrue] /\ true \in 0..MaxTrue
      BY <1>0 DEF SkewTypes
    <2>4. SkewTypes'
      BY <1>0, <2>1, <2>2, <2>3 DEF SkewTypes
    <2>5. ASSUME NEW r \in Reader, latest[r] # Nothing, reading'[r] # -1
          PROVE  latest[r].true <= reading'[r]
      BY <2>1, <2>3, <2>5 DEF SkewInv, ReadingAccounted
    <2>6. \A r \in Reader : reading'[r] <= true
      BY <2>1, <2>3 DEF SkewInv
    <2> QED BY <2>2, <2>4, <2>5, <2>6 DEF SkewInv
  <1>4. ASSUME NEW q \in Reader, UnixNanos(q) PROVE SkewInv'
    <2>1. /\ reading[q] \in 0..MaxTrue /\ reading[q] <= true
          /\ since = anchor /\ anchor \in 0..MaxTrue /\ skew \in Skews /\ sets \in Nat
      BY <1>0, <1>4 DEF UnixNanos, SkewTypes, SkewInv
    <2>2. PICK new : /\ new = [true |-> reading[q], value |-> Apply(skew, reading[q], anchor),
                               since |-> since, sets |-> sets, skew |-> skew]
                     /\ latest' = [latest EXCEPT ![q] = new]
      BY <1>4 DEF UnixNanos
    <2>3. reading' = [reading EXCEPT ![q] = -1]
      BY <1>4 DEF UnixNanos
    <2>4. UNCHANGED <<true, skew, anchor, setting, since, sets>>
      BY <1>4 DEF UnixNanos
    <2>5. Apply(skew, reading[q], anchor) \in Int
      BY <2>1, ApplyInt, WidthAssumption
    <2>6. new \in SkewReading /\ ReadingAccounted(new, true, sets, skew, anchor)
      BY <2>1, <2>2, <2>5 DEF SkewReading, ReadingAccounted
    <2>7. SkewTypes'
      BY <1>0, <2>2, <2>3, <2>4, <2>6 DEF SkewTypes
    <2>8. ASSUME NEW r \in Reader, latest'[r] # Nothing
          PROVE  /\ ReadingAccounted(latest'[r], true, sets, skew, anchor)
                 /\ reading'[r] # -1 => latest'[r].true <= reading'[r]
      <3>1. CASE r = q
        BY <1>0, <3>1, <2>2, <2>3, <2>6 DEF SkewTypes
      <3>2. CASE r # q
        BY <1>0, <3>2, <2>8, <2>2, <2>3 DEF SkewInv, SkewTypes
      <3> QED BY <3>1, <3>2
    <2>9. \A r \in Reader : reading'[r] <= true
      BY <1>0, <2>1, <2>3 DEF SkewInv, SkewTypes
    <2> QED BY <2>4, <2>7, <2>8, <2>9 DEF SkewInv
  <1>5. CASE TrueTick
    <2>1. true' = true + 1 /\ true' \in 0..MaxTrue /\ true \in 0..MaxTrue
      BY <1>0, <1>5 DEF TrueTick, SkewTypes
    <2>2. UNCHANGED <<skew, anchor, setting, reading, latest, since, sets>>
      BY <1>5 DEF TrueTick
    <2>3. SkewTypes'
      BY <1>0, <2>1, <2>2 DEF SkewTypes
    <2>4. ASSUME NEW r \in Reader PROVE reading[r] <= true'
      BY <1>0, <2>1 DEF SkewInv, SkewTypes
    <2>5. ASSUME NEW r \in Reader, latest[r] # Nothing
          PROVE  ReadingAccounted(latest[r], true', sets, skew, anchor)
      <3>1. latest[r].true \in Int
        BY <1>0, <2>5 DEF SkewTypes, SkewReading
      <3> QED BY <2>1, <2>5, <3>1 DEF SkewInv, ReadingAccounted
    <2> QED BY <2>2, <2>3, <2>4, <2>5 DEF SkewInv
  <1>6. CASE UNCHANGED skewVars
    BY <1>6 DEF skewVars, SkewInv, SkewTypes
  <1> QED BY <1>1, <1>2, <1>3, <1>4, <1>5, <1>6 DEF SkewNext

\* Toolkit's clock behaves as ClockSkew says.
LEMMA ClockPart == ToolkitSpec => SkewSpec
  <1>1. ToolkitInit => SkewInit
    BY DEF ToolkitInit
  <1>2. [ToolkitNext]_toolkitVars => [SkewNext]_skewVars
    BY DEF ToolkitNext, toolkitVars, skewVars
  <1> QED
    BY <1>1, <1>2, PTL DEF ToolkitSpec, SkewSpec

LEMMA SkewInvariant == SkewSpec => []SkewInv
  BY SkewInvInit, SkewInvNext, PTL DEF SkewSpec

\* A reading fits the machine's integer type whatever the skew: it saturates, never wraps.
THEOREM ReadingsSaturate == ToolkitSpec => []SkewTypeOK
  <1>1. SkewInv => SkewTypeOK
    BY ApplyInt, NothingIsNoSample, WidthAssumption
       DEF SkewInv, SkewTypes, ReadingAccounted, SkewTypeOK, SkewReading, PendingSkew
  <1> QED BY <1>1, SkewInvariant, ClockPart, PTL

\* ClockSkew::apply: a change of skew steps the clock to true time plus offset, with none of the
\* drift of earlier skews and none yet of its own.
THEOREM SkewsStepToOffset == ToolkitSpec => []StepsToOffset
  <1>1. SkewInv => StepsToOffset
    <2>1. SUFFICES ASSUME SkewInv, NEW r \in Reader, latest[r] # Nothing,
                          latest[r].true = latest[r].since
                   PROVE  latest[r].value = Clamp(latest[r].true + latest[r].skew.offset)
      BY DEF StepsToOffset
    <2> DEFINE s == latest[r].skew
               t == latest[r].true
    <2>2. t \in Int /\ s \in Skews /\ latest[r].value = Apply(s, t, t)
      BY <2>1, WidthAssumption DEF SkewInv, SkewTypes, SkewReading, ReadingAccounted
    <2>3. s.ppm \in Int /\ s.offset \in Int /\ Million \in Nat \ {0}
      BY <2>2, SkewAssumption, WidthAssumption
    <2> HIDE DEF s, t
    <2>4. Drift(s, t, t) = 0
      <3>1. (t - t) * s.ppm = 0
        BY <2>2, <2>3
      <3>2. Truncated(0, Million) = 0
        BY <2>3 DEF Truncated
      <3> QED
        BY <3>1, <3>2 DEF Drift
    <2>5. t + s.offset + Drift(s, t, t) = t + s.offset
      BY <2>2, <2>3, <2>4
    <2>6. latest[r].value = Clamp(t + s.offset)
      BY <2>2, <2>5, Zenon DEF Apply
    <2> QED
      BY <2>6 DEF s, t
  <1> QED
    BY <1>1, SkewInvariant, ClockPart, PTL

\* ClockSkew::apply: while its skew is not changed, and does not run backwards by itself, a
\* node's clock never does, racing setters and stale readings included.
THEOREM SkewedClockIsMonotone == ToolkitSpec => Monotone
  <1> DEFINE Forward(r) ==
               LET old == latest[r]
                   new == latest'[r]
               IN (old # Nothing /\ new # old /\ new.sets = old.sets /\ new.skew.ppm >= -Million)
                     => new.value >= old.value
  <1>1. ASSUME SkewInv, SkewNext, NEW r \in Reader PROVE Forward(r)
    <2> SUFFICES ASSUME latest[r] # Nothing, latest'[r] # latest[r],
                        latest'[r].sets = latest[r].sets, latest'[r].skew.ppm >= -Million
                 PROVE  latest'[r].value >= latest[r].value
      OBVIOUS
    <2>1. UnixNanos(r)
      BY <1>1 DEF SkewNext, Install, ReadAnchor, ReadTrue, UnixNanos, TrueTick, SkewInv, SkewTypes
    <2>2. /\ latest[r] \in SkewReading /\ ReadingAccounted(latest[r], true, sets, skew, anchor)
          /\ reading[r] \in 0..MaxTrue /\ latest[r].true <= reading[r]
      BY <1>1, <2>1, WidthAssumption DEF SkewInv, SkewTypes, UnixNanos
    <2>3. /\ latest'[r].sets = sets /\ latest'[r].skew = skew
          /\ latest'[r].value = Apply(skew, reading[r], anchor)
      BY <1>1, <2>1 DEF UnixNanos, SkewInv, SkewTypes
    <2>4. latest[r].value = Apply(skew, latest[r].true, anchor)
      BY <2>2, <2>3 DEF ReadingAccounted
    <2>5. skew \in Skews /\ skew.ppm >= -Million /\ anchor \in Int
      BY <1>1, <2>3, WidthAssumption DEF SkewInv, SkewTypes
    <2>6. latest[r].true \in Int /\ reading[r] \in Int
      BY <2>2, WidthAssumption DEF SkewReading
    <2>7. Apply(skew, latest[r].true, anchor) <= Apply(skew, reading[r], anchor)
      BY <2>2, <2>5, <2>6, ApplyMonotone
    <2> QED BY <2>3, <2>4, <2>5, <2>6, <2>7, ApplyInt, WidthAssumption
  <1>2. SkewInv /\ [SkewNext]_skewVars => [\A r \in Reader : Forward(r)]_skewVars
    BY <1>1
  <1> QED BY <1>2, SkewInvariant, ClockPart, PTL DEF SkewSpec, Monotone

-----------------------------------------------------------------------------
(* The field consumer's invariant.                                         *)

Block == Publisher \X Nat \X Nat
Blocks == UNION {[S -> Block] : S \in SUBSET (Nat \ {0})}
Update == [p : Publisher, low : Nat \ {0}, high : Nat]
Answer == [p : Publisher, seq : Nat \ {0}, block : Block]
InChunk ==
    [at : {"ask", "fetch", "ingest", "commit"}, p : Publisher, seq : Nat \ {0}, end : Nat,
     high : Nat, got : Blocks, events : Nat]
Ended == [at : {"over"}, events : Nat]
WatchSample ==
    [verdict : {"off", "watching", "converged", "stalled", "budget"}, idle : Nat, spent : Nat,
     zeros : Nat, fresh : BOOLEAN]

CatchupTypes ==
    /\ cell \in Cells
    /\ boot \in [Publisher -> Nat] /\ served \in [Publisher -> Seq(Block)]
    /\ published \in [Honest -> Blocks]
    /\ vector \in [Replica -> [Publisher -> Nat]]
    /\ updates \in [Replica -> Seq(Update)]
    /\ wire \in [Replica -> SUBSET Answer] /\ inbox \in [Replica -> Seq(Block)]
    /\ step \in [Replica -> {Waits} \cup InChunk \cup Ended]
    /\ stored \in [Replica -> [Publisher -> Blocks]]
    /\ reported \in [Replica -> Nat]

\* Everything up to n is stored.
HeldTo(r, p, n) == 1..n \subseteq DOMAIN stored[r][p]

\* Store before ack, and hold at the first miss: whatever the replica vouches for, was told is
\* missing or has got past in the chunk at hand, the Blocks below it are stored.
NoneSkipped(r) ==
    /\ \A p \in Publisher : HeldTo(r, p, vector[r][p])
    /\ \A i \in 1..Len(updates[r]) : HeldTo(r, updates[r][i].p, updates[r][i].low - 1)
    /\ step[r] \in InChunk /\ ~Refused(r) => HeldTo(r, step[r].p, step[r].seq - 1)
    /\ At(r, "commit") => HeldTo(r, step[r].p, step[r].seq)

\* b is the Block p authored under number s.
Authored(p, s, b) == p \in Honest => s \in DOMAIN published[p] /\ b = published[p][s]

\* What is served, on its way, in hand and stored is what was authored.
Genuine(r) ==
    /\ \A m \in wire[r] : Authored(m.p, m.seq, m.block)
    /\ step[r] \in InChunk => \A s \in DOMAIN step[r].got : Authored(step[r].p, s, step[r].got[s])
    /\ \A p \in Publisher : \A s \in DOMAIN stored[r][p] : Authored(p, s, stored[r][p][s])

HeldKeys(r) == UNION {{<<p, s>> : s \in DOMAIN stored[r][p]} : p \in Publisher}

\* Events of the step under way.
Owed(r) == IF At(r, "waits") THEN 0 ELSE step[r].events

Told(r) == IsFiniteSet(HeldKeys(r)) /\ reported[r] + Owed(r) = Cardinality(HeldKeys(r))

Retained == \A p \in Honest : published[p] = served[p]

Patient ==
    /\ watch \in WatchSample /\ silent \in Nat
    /\ watch.verdict = "watching" =>
          /\ watch.idle < StallTicks
          /\ watch.fresh \/ watch.idle < silent
    /\ StallIsSilence

CatchupInv ==
    /\ CatchupTypes
    /\ cell.fetch = "stock" => \A r \in Replica : NoneSkipped(r)
    /\ cell.persistent => Retained
    /\ cell.fetch = "stock" /\ cell.persistent => \A r \in Replica : Genuine(r)
    /\ cell.bound # "whole" => \A r \in Replica : Told(r)
    /\ Patient


-----------------------------------------------------------------------------
(* Stores as functions from sequence numbers to Blocks.                    *)

LEMMA MaxOfTwo ==
  ASSUME NEW a \in Nat, NEW b \in Nat
  PROVE  Max({a, b}) \in Nat /\ Max({a, b}) = IF a >= b THEN a ELSE b
  BY DEF Max

LEMMA MinOfTwo ==
  ASSUME NEW a \in Nat, NEW b \in Nat
  PROVE  Min({a, b}) \in Nat /\ Min({a, b}) = IF a <= b THEN a ELSE b
  BY DEF Min

LEMMA EmptyStore == NoBlocks = <<>> /\ NoBlocks \in Blocks /\ DOMAIN NoBlocks = {}
  <1>1. DOMAIN NoBlocks = {} /\ NoBlocks \in [{} -> Block]
    BY DEF NoBlocks
  <1>2. NoBlocks = <<>>
    BY DEF NoBlocks
  <1> QED BY <1>1, <1>2 DEF Blocks

LEMMA AddingType ==
  ASSUME NEW f \in Blocks, NEW s \in Nat \ {0}, NEW b \in Block
  PROVE  /\ Adding(f, s, b) \in Blocks
         /\ DOMAIN Adding(f, s, b) = DOMAIN f \cup {s}
         /\ Adding(f, s, b)[s] = b
         /\ \A n \in DOMAIN f \ {s} : Adding(f, s, b)[n] = f[n]
  <1>1. PICK S \in SUBSET (Nat \ {0}) : f \in [S -> Block]
    BY DEF Blocks
  <1>2. Adding(f, s, b) \in [S \cup {s} -> Block] /\ S \cup {s} \in SUBSET (Nat \ {0})
    BY <1>1 DEF Adding
  <1> QED BY <1>1, <1>2 DEF Blocks, Adding

LEMMA SeqIsStore == ASSUME NEW b \in Seq(Block) PROVE b \in Blocks /\ DOMAIN b = 1..Len(b)
  <1>1. b \in [1..Len(b) -> Block] /\ 1..Len(b) \in SUBSET (Nat \ {0})
    OBVIOUS
  <1> QED BY <1>1 DEF Blocks

\* The instance assigns the next number.
LEMMA NextBlock ==
  ASSUME NEW b \in Seq(Block), NEW x \in Block
  PROVE  Top(b) = Len(b) /\ Adding(b, Top(b) + 1, x) = Append(b, x)
  <1>1. Len(b) \in Nat /\ DOMAIN b = 1..Len(b)
    OBVIOUS
  <1>2. Top(b) = Len(b)
    BY <1>1 DEF Top, Max
  <1>3. Append(b, x) = [i \in 1..(Len(b) + 1) |-> IF i = Len(b) + 1 THEN x ELSE b[i]]
    <2> DEFINE g == [i \in 1..(Len(b) + 1) |-> IF i = Len(b) + 1 THEN x ELSE b[i]]
    <2>1. Append(b, x) \in [1..(Len(b) + 1) -> Block]
      <3>1. Append(b, x) \in Seq(Block) /\ Len(Append(b, x)) = Len(b) + 1
        BY AppendProperties
      <3> QED BY <3>1, LenProperties
    <2>2. g \in [1..(Len(b) + 1) -> Block]
      BY <1>1
    <2>3. \A i \in 1..(Len(b) + 1) : Append(b, x)[i] = g[i]
      BY <1>1
    <2> HIDE DEF g
    <2>4. Append(b, x) = g
      BY <2>1, <2>2, <2>3
    <2> QED BY <2>4 DEF g
  <1>4. 1..(Len(b) + 1) = DOMAIN b \cup {Len(b) + 1}
    BY <1>1
  <1> QED BY <1>2, <1>3, <1>4 DEF Adding

-----------------------------------------------------------------------------
(* The types.                                                              *)

LEMMA StepKinds ==
  ASSUME CatchupTypes, NEW r \in Replica
  PROVE  /\ At(r, "waits") => step[r] = Waits
         /\ At(r, "over") => step[r] \in Ended
         /\ step[r].at \in {"ask", "fetch", "ingest", "commit"} => step[r] \in InChunk
         /\ step[r] \in InChunk => step[r].at \in {"ask", "fetch", "ingest", "commit"}
  BY DEF CatchupTypes, At, Waits, Ended, InChunk

LEMMA AskingType ==
  ASSUME CatchupTypes, NEW p \in Publisher, NEW low \in Nat \ {0}, NEW high \in Nat, NEW e \in Nat
  PROVE  Asking(p, low, high, e) \in InChunk
  <1>1. cell.window \in Nat \ {0}
    BY CatchupAssumption DEF CatchupTypes
  <1>2. Min({low + cell.window - 1, high}) \in Nat
    BY <1>1, MinOfTwo
  <1> QED BY <1>2, EmptyStore DEF Asking, ChunkEnd, InChunk

LEMMA FollowingType ==
  ASSUME CatchupTypes, NEW r \in Replica, step[r] \in InChunk, NEW e \in Nat
  PROVE  Following(r, e) \in InChunk \cup Ended
  <1>1. step[r].p \in Publisher /\ step[r].seq + 1 \in Nat \ {0} /\ step[r].high \in Nat
    BY DEF InChunk
  <1>2. Asking(step[r].p, step[r].seq + 1, step[r].high, e) \in InChunk
    BY <1>1, AskingType
  <1>3. [at |-> "over", events |-> e] \in Ended
    BY DEF Ended
  <1>4. [step[r] EXCEPT !.at = "ingest", !.seq = step[r].seq + 1, !.events = e] \in InChunk
    BY <1>1 DEF InChunk
  <1> QED BY <1>2, <1>3, <1>4 DEF Following

LEMMA MovedType ==
  ASSUME CatchupTypes, NEW r \in Replica, NEW to \in {Waits} \cup InChunk \cup Ended, Move(r, to)
  PROVE  /\ step' \in [Replica -> {Waits} \cup InChunk \cup Ended]
         /\ step'[r] = to /\ \A q \in Replica \ {r} : step'[q] = step[q]
  BY DEF CatchupTypes, Move

LEMMA ServedType ==
  ASSUME CatchupTypes, NEW p \in Publisher
  PROVE  /\ Top(served[p]) \in Nat /\ DOMAIN served[p] = 1..Top(served[p])
         /\ \A s \in DOMAIN served[p] : served[p][s] \in Block
  <1>1. served[p] \in Seq(Block)
    BY DEF CatchupTypes
  <1>2. Top(served[p]) = Len(served[p])
    <2>1. <<p, 0, 0>> \in Block
      BY DEF Block
    <2> QED BY <1>1, <2>1, NextBlock
  <1> QED BY <1>1, <1>2

LEMMA TypesInit == CatchupInit => CatchupTypes
  <1> SUFFICES ASSUME CatchupInit PROVE CatchupTypes
    OBVIOUS
  <1>1. NoBlocks \in Blocks /\ NoBlocks \in Seq(Block)
    BY EmptyStore
  <1>2. <<>> \in Seq(Update) /\ <<>> \in Seq(Block)
    OBVIOUS
  <1> QED BY <1>1, <1>2, Zenon DEF CatchupInit, CatchupTypes

LEMMA PutTypes == ASSUME CatchupTypes, NEW p \in Publisher, Put(p) PROVE CatchupTypes'
  <1> DEFINE s == Top(served[p]) + 1
             block == <<p, s, boot[p]>>
  <1>1. Top(served[p]) \in Nat
    BY ServedType
  <1>2. block \in Block /\ s \in Nat \ {0}
    BY <1>1 DEF Block, CatchupTypes
  <1>3. /\ served' = [served EXCEPT ![p] = Adding(@, s, block)]
        /\ published' = IF p \in Honest THEN [published EXCEPT ![p] = Adding(@, s, block)] ELSE published
        /\ UNCHANGED <<cell, boot, vector, updates, wire, inbox, step, stored, reported>>
    BY DEF Put
  <1>4. Adding(served[p], s, block) \in Seq(Block)
    <2>1. served[p] \in Seq(Block)
      BY DEF CatchupTypes
    <2>2. Adding(served[p], s, block) = Append(served[p], block)
      BY <1>2, <2>1, NextBlock
    <2> HIDE DEF s, block
    <2> QED BY <1>2, <2>1, <2>2, AppendProperties
  <1>5. p \in Honest => Adding(published[p], s, block) \in Blocks
    <2> SUFFICES ASSUME p \in Honest PROVE Adding(published[p], s, block) \in Blocks
      OBVIOUS
    <2>1. published[p] \in Blocks
      BY DEF CatchupTypes
    <2> QED BY <1>2, <2>1, AddingType
  <1> HIDE DEF s, block
  <1> QED BY <1>3, <1>4, <1>5 DEF CatchupTypes

LEMMA StartTypes == ASSUME CatchupTypes, NEW p \in Publisher, Start(p) PROVE CatchupTypes'
  <1>1. StoreOfBoot(p) \in Seq(Block)
    BY EmptyStore DEF StoreOfBoot, CatchupTypes
  <1>2. /\ boot' = [boot EXCEPT ![p] = @ + 1]
        /\ served' = [served EXCEPT ![p] = StoreOfBoot(p)]
        /\ UNCHANGED <<cell, published, vector, updates, wire, inbox, step, stored, reported>>
    BY DEF Start, ledgerVars
  <1> QED BY <1>1, <1>2 DEF CatchupTypes

LEMMA AdvertiseTypes ==
  ASSUME CatchupTypes, NEW r \in Replica, NEW p \in Publisher, Advertise(r, p)
  PROVE  CatchupTypes'
  <1>1. PICK high \in Heard(r, p) :
           /\ high > vector[r][p]
           /\ updates' = [updates EXCEPT ![r] =
                Append(@, [p |-> p, low |-> vector[r][p] + 1, high |-> high])]
    BY DEF Advertise
  <1>2. high \in Nat /\ vector[r][p] \in Nat
    BY ServedType DEF Heard, CatchupTypes
  <1>3. PICK u \in Update : u = [p |-> p, low |-> vector[r][p] + 1, high |-> high]
    <2>1. vector[r][p] + 1 \in Nat \ {0}
      BY <1>2
    <2> QED BY <1>2, <2>1 DEF Update
  <1>4. updates' = [updates EXCEPT ![r] = Append(@, u)]
    BY <1>1, <1>3
  <1>5. updates' \in [Replica -> Seq(Update)]
    BY <1>4 DEF CatchupTypes
  <1> QED BY <1>5 DEF Advertise, CatchupTypes, publisherVars, ledgerVars

LEMMA ReceiveTypes == ASSUME CatchupTypes, NEW r \in Replica, Receive(r) PROVE CatchupTypes'
  <1>1. PICK u \in Update : u = Head(updates[r])
    BY DEF Receive, CatchupTypes
  <1>2. Asking(u.p, u.low, u.high, 0) \in InChunk
    BY AskingType DEF Update
  <1>3. step' \in [Replica -> {Waits} \cup InChunk \cup Ended]
    BY <1>1, <1>2, MovedType DEF Receive
  <1>4. updates' \in [Replica -> Seq(Update)]
    BY DEF Receive, CatchupTypes
  <1> QED BY <1>3, <1>4 DEF Receive, CatchupTypes, publisherVars, ledgerVars

\* What is sent back for the chunk.
LEMMA AnswersType ==
  ASSUME CatchupTypes, NEW p \in Publisher, NEW S \in SUBSET DOMAIN served[p]
  PROVE  {[p |-> p, seq |-> s, block |-> served[p][s]] : s \in S} \in SUBSET Answer
  <1>1. \A s \in S : s \in Nat \ {0} /\ served[p][s] \in Block
    BY ServedType
  <1> QED BY <1>1 DEF Answer

LEMMA AskTypes == ASSUME CatchupTypes, NEW r \in Replica, Ask(r) PROVE CatchupTypes'
  <1> DEFINE p == step[r].p
  <1>1. step[r] \in InChunk /\ p \in Publisher
    BY StepKinds DEF Ask, At, InChunk
  <1>2. PICK S \in SUBSET DOMAIN served[p] :
          wire' = [wire EXCEPT ![r] = @ \cup {[p |-> p, seq |-> s, block |-> served[p][s]] : s \in S}]
    <2> DEFINE answered == IF up /\ runs[p] THEN DOMAIN served[p] \cap step[r].seq..step[r].end ELSE {}
    <2>1. PICK lost \in SUBSET answered :
             wire' = [wire EXCEPT ![r] =
                    @ \cup {[p |-> p, seq |-> s, block |-> served[p][s]] : s \in answered \ lost}]
      BY DEF Ask
    <2>2. answered \ lost \in SUBSET DOMAIN served[p]
      OBVIOUS
    <2> QED BY <2>1, <2>2
  <1>3. PICK A \in SUBSET Answer : A = {[p |-> p, seq |-> s, block |-> served[p][s]] : s \in S}
    BY <1>1, AnswersType
  <1>4. wire' = [wire EXCEPT ![r] = @ \cup A]
    BY <1>2, <1>3
  <1>5. wire' \in [Replica -> SUBSET Answer]
    BY <1>4 DEF CatchupTypes
  <1>6. [step[r] EXCEPT !.at = "fetch"] \in InChunk
    BY <1>1 DEF InChunk
  <1>7. step' \in [Replica -> {Waits} \cup InChunk \cup Ended]
    BY <1>6 DEF Ask, CatchupTypes
  <1> QED BY <1>5, <1>7 DEF Ask, CatchupTypes, publisherVars, ledgerVars

LEMMA ArriveTypes == ASSUME CatchupTypes, NEW r \in Replica, Arrive(r) PROVE CatchupTypes'
  <1>1. PICK m \in wire[r] :
          /\ wire' = [wire EXCEPT ![r] = @ \ {m}]
          /\ IF cell.fetch = "stock"
             THEN /\ step' = IF Paired(r, m) = {} THEN step
                             ELSE [step EXCEPT ![r].got = Adding(@, Min(Paired(r, m)), m.block)]
                  /\ UNCHANGED inbox
             ELSE /\ inbox' = [inbox EXCEPT ![r] = Append(@, m.block)]
                  /\ UNCHANGED step
    BY DEF Arrive
  <1>2. m \in Answer
    BY DEF CatchupTypes
  <1>3. wire' \in [Replica -> SUBSET Answer]
    BY <1>1 DEF CatchupTypes
  <1>4. inbox' \in [Replica -> Seq(Block)]
    <2>1. m.block \in Block /\ inbox \in [Replica -> Seq(Block)]
      BY <1>2 DEF CatchupTypes, Answer
    <2>2. inbox[r] \in Seq(Block)
      BY <2>1
    <2>3. Append(inbox[r], m.block) \in Seq(Block)
      BY <2>1, <2>2, AppendProperties
    <2> QED BY <1>1, <2>1, <2>3
  <1>5. step' \in [Replica -> {Waits} \cup InChunk \cup Ended]
    <2>1. CASE step' = step
      BY <2>1 DEF CatchupTypes
    <2>2. CASE cell.fetch = "stock" /\ Paired(r, m) # {}
      <3>1. Paired(r, m) = {m.seq} /\ step[r] \in InChunk
        BY <2>2, StepKinds DEF Paired, At
      <3>2. Min(Paired(r, m)) = m.seq /\ m.seq \in Nat \ {0} /\ m.block \in Block
        BY <1>2, <3>1 DEF Answer, Min
      <3>3. Adding(step[r].got, Min(Paired(r, m)), m.block) \in Blocks
        BY <3>1, <3>2, AddingType DEF InChunk
      <3>4. PICK g \in Blocks : g = Adding(step[r].got, Min(Paired(r, m)), m.block)
        BY <3>3
      <3>5. [step[r] EXCEPT !.got = g] \in InChunk
        BY <3>1 DEF InChunk
      <3>6. step' = [step EXCEPT ![r] = [step[r] EXCEPT !.got = g]]
        BY <1>1, <2>2, <3>4
      <3> QED BY <3>5, <3>6 DEF CatchupTypes
    <2> QED BY <1>1, <2>1, <2>2
  <1> QED BY <1>3, <1>4, <1>5 DEF Arrive, CatchupTypes, publisherVars, ledgerVars

LEMMA TakeNextTypes == ASSUME CatchupTypes, NEW r \in Replica, TakeNext(r) PROVE CatchupTypes'
  <1>1. step[r] \in InChunk /\ step[r].seq \in Nat \ {0}
    BY StepKinds DEF TakeNext, Awaited, At, InChunk
  <1>2. Head(inbox[r]) \in Block /\ Tail(inbox[r]) \in Seq(Block)
    BY DEF TakeNext, CatchupTypes
  <1>3. PICK g \in Blocks : g = Adding(NoBlocks, step[r].seq, Head(inbox[r]))
    BY <1>1, <1>2, EmptyStore, AddingType
  <1>4. [step[r] EXCEPT !.got = g] \in InChunk
    BY <1>1 DEF InChunk
  <1>5. step' = [step EXCEPT ![r] = [step[r] EXCEPT !.got = g]]
    BY <1>3 DEF TakeNext
  <1>6. step' \in [Replica -> {Waits} \cup InChunk \cup Ended]
    BY <1>4, <1>5 DEF CatchupTypes
  <1> QED BY <1>2, <1>6 DEF TakeNext, CatchupTypes, publisherVars, ledgerVars

LEMMA FetchedTypes == ASSUME CatchupTypes, NEW r \in Replica, Fetched(r) PROVE CatchupTypes'
  <1>1. step[r] \in InChunk
    BY StepKinds DEF Fetched, At
  <1>2. [step[r] EXCEPT !.at = "ingest"] \in InChunk
    BY <1>1 DEF InChunk
  <1>3. step' \in [Replica -> {Waits} \cup InChunk \cup Ended]
    BY <1>2 DEF Fetched, CatchupTypes
  <1> QED BY <1>3 DEF Fetched, CatchupTypes, publisherVars, ledgerVars

LEMMA GoOnTypes ==
  ASSUME CatchupTypes, NEW r \in Replica, Miss(r) \/ Refuse(r)
  PROVE  CatchupTypes'
  <1>1. step[r] \in InChunk /\ step[r].events \in Nat
    BY StepKinds DEF Miss, Refuse, InHand, At, InChunk
  <1>2. [at |-> "over", events |-> step[r].events] \in Ended
    BY <1>1 DEF Ended
  <1>3. PICK to \in InChunk \cup Ended : Move(r, to)
    BY <1>1, <1>2, FollowingType DEF Miss, Refuse, AfterMiss
  <1>4. step' \in [Replica -> {Waits} \cup InChunk \cup Ended]
    BY <1>3, MovedType
  <1> QED BY <1>4 DEF Miss, Refuse, CatchupTypes, publisherVars, ledgerVars

LEMMA StoreTypes == ASSUME CatchupTypes, NEW r \in Replica, Store(r) PROVE CatchupTypes'
  <1> DEFINE p == step[r].p
             s == step[r].seq
             newly == s \notin DOMAIN stored[r][p]
  <1>1. step[r] \in InChunk /\ p \in Publisher /\ s \in Nat \ {0}
    BY StepKinds DEF Store, InHand, At, InChunk
  <1>2. step[r].got \in Blocks /\ s \in DOMAIN step[r].got
    BY <1>1 DEF Store, InHand, InChunk
  <1>3. step[r].got[s] \in Block
    BY <1>2 DEF Blocks
  <1>4. PICK f \in Blocks : f = FirstBound(stored[r][p], s, step[r].got[s])
    <2>1. stored[r][p] \in Blocks
      BY <1>1 DEF CatchupTypes
    <2>2. Adding(stored[r][p], s, step[r].got[s]) \in Blocks
      BY <1>1, <1>3, <2>1, AddingType
    <2> QED BY <2>1, <2>2 DEF FirstBound
  <1>5. stored' = [stored EXCEPT ![r] = [stored[r] EXCEPT ![p] = f]]
    BY <1>4 DEF Store
  <1>6. stored' \in [Replica -> [Publisher -> Blocks]]
    BY <1>1, <1>5 DEF CatchupTypes
  <1>7. PICK e \in Nat : e = IF newly THEN step[r].events + 1 ELSE step[r].events
    BY <1>1 DEF InChunk
  <1>8. \/ /\ step' = [step EXCEPT ![r] = [step[r] EXCEPT !.at = "commit", !.events = e]]
           /\ UNCHANGED reported
        \/ /\ step' = [step EXCEPT ![r] = [step[r] EXCEPT !.at = "commit"]]
           /\ reported' = [reported EXCEPT ![r] = IF newly THEN @ + 1 ELSE @]
    BY <1>7 DEF Store
  <1>9. /\ [step[r] EXCEPT !.at = "commit", !.events = e] \in InChunk
        /\ [step[r] EXCEPT !.at = "commit"] \in InChunk
    BY <1>1 DEF InChunk
  <1>10. step' \in [Replica -> {Waits} \cup InChunk \cup Ended]
    BY <1>8, <1>9 DEF CatchupTypes
  <1>11. reported' \in [Replica -> Nat]
    <2>1. reported \in [Replica -> Nat]
      BY DEF CatchupTypes
    <2> HIDE DEF newly
    <2> QED BY <1>8, <2>1
  <1> QED BY <1>6, <1>10, <1>11 DEF Store, CatchupTypes, publisherVars

LEMMA AckTypes == ASSUME CatchupTypes, NEW r \in Replica, Ack(r) PROVE CatchupTypes'
  <1>1. step[r] \in InChunk /\ step[r].p \in Publisher /\ step[r].seq \in Nat /\ step[r].events \in Nat
    BY StepKinds DEF Ack, At, InChunk
  <1>2. PICK n \in Nat : n = Max({vector[r][step[r].p], step[r].seq})
    <2>1. vector[r][step[r].p] \in Nat
      BY <1>1 DEF CatchupTypes
    <2> QED BY <1>1, <2>1, MaxOfTwo
  <1>3. vector' = [vector EXCEPT ![r] = [vector[r] EXCEPT ![step[r].p] = n]]
    BY <1>2 DEF Ack
  <1>4. vector' \in [Replica -> [Publisher -> Nat]]
    BY <1>1, <1>3 DEF CatchupTypes
  <1>5. Following(r, step[r].events) \in InChunk \cup Ended /\ Move(r, Following(r, step[r].events))
    BY <1>1, FollowingType DEF Ack
  <1>6. step' \in [Replica -> {Waits} \cup InChunk \cup Ended]
    BY <1>5, MovedType
  <1> QED BY <1>4, <1>6 DEF Ack, CatchupTypes, publisherVars

LEMMA EndStepTypes ==
  ASSUME CatchupTypes, NEW r \in Replica, Report(r) \/ CancelStep(r)
  PROVE  CatchupTypes'
  <1>1. Move(r, Waits) /\ step' \in [Replica -> {Waits} \cup InChunk \cup Ended]
    BY MovedType DEF Report, CancelStep
  <1>2. reported' \in [Replica -> Nat]
    <2>1. CASE Report(r)
      <3>1. step[r].events \in Nat
        BY <2>1, StepKinds DEF Report, Ended
      <3> QED BY <2>1, <3>1 DEF Report, CatchupTypes
    <2>2. CASE CancelStep(r)
      BY <2>2 DEF CancelStep, CatchupTypes, ledgerVars
    <2> QED BY <2>1, <2>2
  <1> QED BY <1>1, <1>2 DEF Report, CancelStep, CatchupTypes, publisherVars, ledgerVars

LEMMA TypesNext == CatchupTypes /\ [CatchupNext]_catchupVars => CatchupTypes'
  <1> SUFFICES ASSUME CatchupTypes, [CatchupNext]_catchupVars PROVE CatchupTypes'
    OBVIOUS
  <1>1. ASSUME NEW p \in Publisher, Put(p) \/ Stop(p) \/ Start(p) PROVE CatchupTypes'
    <2>1. CASE Stop(p)
      BY <2>1 DEF Stop, CatchupTypes, ledgerVars
    <2> QED BY <1>1, <2>1, PutTypes, StartTypes
  <1>2. ASSUME NEW b \in BOOLEAN, SetLinkUp(b) PROVE CatchupTypes'
    BY <1>2 DEF SetLinkUp, CatchupTypes, publisherVars, ledgerVars
  <1>3. ASSUME NEW r \in Replica, Consume(r) \/ Arrive(r) \/ CancelStep(r) PROVE CatchupTypes'
    BY <1>3, ReceiveTypes, AskTypes, TakeNextTypes, FetchedTypes, GoOnTypes, StoreTypes, AckTypes,
       EndStepTypes, ArriveTypes DEF Consume
  <1>4. CASE BeginWatch \/ Tick
    BY <1>4 DEF BeginWatch, Tick, CatchupTypes, publisherVars, ledgerVars
  <1>5. CASE UNCHANGED catchupVars
    BY <1>5 DEF catchupVars, CatchupTypes
  <1> QED BY <1>1, <1>2, <1>3, <1>4, <1>5, AdvertiseTypes DEF CatchupNext

LEMMA FollowingShape ==
  ASSUME CatchupTypes, NEW r \in Replica, step[r] \in InChunk, NEW e \in Nat
  PROVE  \/ Following(r, e) = [at |-> "over", events |-> e]
         \/ /\ Following(r, e) \in InChunk
            /\ Following(r, e).at \in {"ask", "ingest"} /\ Following(r, e).p = step[r].p
            /\ Following(r, e).seq = step[r].seq + 1 /\ Following(r, e).events = e
            /\ Following(r, e).got \in {NoBlocks, step[r].got}
  <1>1. Following(r, e) \in InChunk \cup Ended
    BY FollowingType
  <1>2. [at |-> "over", events |-> e] \notin InChunk
    BY DEF InChunk
  <1>3. \/ Following(r, e) = [at |-> "over", events |-> e]
        \/ Following(r, e) = Asking(step[r].p, step[r].seq + 1, step[r].high, e)
        \/ Following(r, e) = [step[r] EXCEPT !.at = "ingest", !.seq = step[r].seq + 1, !.events = e]
    BY DEF Following
  <1>4. CASE Following(r, e) = Asking(step[r].p, step[r].seq + 1, step[r].high, e)
    <2>1. /\ Following(r, e).at = "ask" /\ Following(r, e).p = step[r].p
          /\ Following(r, e).seq = step[r].seq + 1 /\ Following(r, e).events = e
          /\ Following(r, e).got = NoBlocks
      BY <1>4 DEF Asking
    <2> QED BY <1>1, <2>1 DEF Ended
  <1>5. CASE Following(r, e) = [step[r] EXCEPT !.at = "ingest", !.seq = step[r].seq + 1, !.events = e]
    <2>1. /\ Following(r, e).at = "ingest" /\ Following(r, e).p = step[r].p
          /\ Following(r, e).seq = step[r].seq + 1 /\ Following(r, e).events = e
          /\ Following(r, e).got = step[r].got
      BY <1>5 DEF InChunk
    <2> QED BY <1>1, <2>1 DEF Ended
  <1> QED BY <1>3, <1>4, <1>5

-----------------------------------------------------------------------------
(* Nothing is skipped.                                                     *)

LEMMA NoneSkippedInit == CatchupInit => \A r \in Replica : NoneSkipped(r)
  <1> SUFFICES ASSUME CatchupInit, NEW r \in Replica PROVE NoneSkipped(r)
    OBVIOUS
  <1>1. /\ \A p \in Publisher : vector[r][p] = 0
        /\ updates[r] = <<>> /\ step[r] = Waits
    BY DEF CatchupInit
  <1>2. Waits \notin InChunk /\ ~At(r, "commit")
    BY <1>1 DEF Waits, InChunk, At
  <1> QED BY <1>1, <1>2 DEF NoneSkipped, HeldTo

LEMMA NoneSkippedStays ==
  ASSUME NEW q \in Replica, NoneSkipped(q), cell' = cell, step'[q] = step[q],
         updates'[q] = updates[q], vector'[q] = vector[q], stored'[q] = stored[q]
  PROVE  NoneSkipped(q)'
  BY DEF NoneSkipped, HeldTo, At, Refused

LEMMA AdvertiseSkipsNone ==
  ASSUME CatchupTypes, NEW r \in Replica, NEW p \in Publisher, Advertise(r, p), NoneSkipped(r)
  PROVE  NoneSkipped(r)'
  <1>1. PICK high \in Heard(r, p) :
           updates' = [updates EXCEPT ![r] =
              Append(@, [p |-> p, low |-> vector[r][p] + 1, high |-> high])]
    BY DEF Advertise
  <1>2. PICK u : u = [p |-> p, low |-> vector[r][p] + 1, high |-> high]
    OBVIOUS
  <1>3. updates[r] \in Seq(Update) /\ updates'[r] = Append(updates[r], u) /\ vector[r][p] \in Nat
    BY <1>1, <1>2 DEF CatchupTypes
  <1>4. u.p = p /\ u.low - 1 = vector[r][p]
    BY <1>2, <1>3
  <1>5. UNCHANGED <<cell, step, vector, stored>>
    BY DEF Advertise, ledgerVars
  <1>6. HeldTo(r, u.p, u.low - 1)
    BY <1>4 DEF NoneSkipped
  <1>7. ASSUME NEW i \in 1..Len(updates'[r])
        PROVE  HeldTo(r, updates'[r][i].p, updates'[r][i].low - 1)
    <2>1. i \in 1..Len(updates[r]) \/ i = Len(updates[r]) + 1
      BY <1>3
    <2>2. CASE i \in 1..Len(updates[r])
      <3>1. updates'[r][i] = updates[r][i]
        BY <1>3, <2>2
      <3> QED BY <2>2, <3>1 DEF NoneSkipped
    <2>3. CASE i = Len(updates[r]) + 1
      <3>1. updates'[r][i] = u
        BY <1>3, <2>3
      <3> QED BY <1>6, <3>1
    <2> QED BY <2>1, <2>2, <2>3
  <1> QED BY <1>5, <1>7 DEF NoneSkipped, HeldTo, At, Refused

LEMMA ReceiveSkipsNone ==
  ASSUME CatchupTypes, NEW r \in Replica, Receive(r), NoneSkipped(r)
  PROVE  NoneSkipped(r)'
  <1>1. updates[r] \in Seq(Update) /\ updates[r] # <<>> /\ updates'[r] = Tail(updates[r])
    BY DEF Receive, CatchupTypes
  <1>2. PICK u \in Update : u = Head(updates[r])
    BY <1>1
  <1>3. step'[r] = Asking(u.p, u.low, u.high, 0)
    BY <1>2 DEF Receive, Move, CatchupTypes
  <1>4. step'[r].p = u.p /\ step'[r].seq = u.low /\ step'[r].at = "ask"
    BY <1>3 DEF Asking
  <1>5. UNCHANGED <<cell, vector, stored>>
    BY DEF Receive, ledgerVars
  <1>6. Len(updates[r]) >= 1 /\ Len(updates[r]) \in Nat /\ updates[r][1] = u
    BY <1>1, <1>2
  <1>7. HeldTo(r, u.p, u.low - 1)
    BY <1>6 DEF NoneSkipped
  <1>8. ASSUME NEW i \in 1..Len(updates'[r])
        PROVE  HeldTo(r, updates'[r][i].p, updates'[r][i].low - 1)
    <2>1. i + 1 \in 1..Len(updates[r]) /\ updates'[r][i] = updates[r][i + 1]
      BY <1>1, <1>6
    <2> QED BY <2>1 DEF NoneSkipped
  <1> QED BY <1>4, <1>5, <1>7, <1>8 DEF NoneSkipped, HeldTo, At

\* A step within the chunk that stays where it is.
LEMMA InPlaceSkipsNone ==
  ASSUME NEW r \in Replica, NoneSkipped(r), step[r] \in InChunk, step'[r].at # "commit",
         step'[r].p = step[r].p, step'[r].seq = step[r].seq,
         UNCHANGED <<cell, vector, updates, stored>>
  PROVE  NoneSkipped(r)'
  BY DEF NoneSkipped, HeldTo, At, Refused

LEMMA AskSkipsNone ==
  ASSUME CatchupTypes, NEW r \in Replica, Ask(r) \/ Fetched(r), NoneSkipped(r)
  PROVE  NoneSkipped(r)'
  <1>1. step[r] \in InChunk
    BY StepKinds DEF Ask, Fetched, At
  <1>2. PICK where \in {"fetch", "ingest"} : step' = [step EXCEPT ![r].at = where]
    BY DEF Ask, Fetched
  <1>3. step'[r] = [step[r] EXCEPT !.at = where]
    BY <1>2 DEF CatchupTypes
  <1>4. step'[r].at = where /\ step'[r].p = step[r].p /\ step'[r].seq = step[r].seq
    BY <1>1, <1>3 DEF InChunk
  <1>5. UNCHANGED <<cell, vector, updates, stored>>
    BY DEF Ask, Fetched, ledgerVars
  <1> QED BY <1>1, <1>2, <1>4, <1>5, InPlaceSkipsNone

LEMMA ArriveSkipsNone ==
  ASSUME CatchupTypes, NEW r \in Replica, Arrive(r), NoneSkipped(r)
  PROVE  NoneSkipped(r)'
  <1>1. UNCHANGED <<cell, vector, updates, stored>>
    BY DEF Arrive, ledgerVars
  <1>2. PICK m \in wire[r] :
          \/ step' = step
          \/ Paired(r, m) # {} /\ step' = [step EXCEPT ![r].got = Adding(@, Min(Paired(r, m)), m.block)]
    BY DEF Arrive
  <1>3. CASE step' = step
    BY <1>1, <1>3, NoneSkippedStays
  <1>4. CASE Paired(r, m) # {} /\ step' = [step EXCEPT ![r].got = Adding(@, Min(Paired(r, m)), m.block)]
    <2>1. At(r, "fetch")
      BY <1>4 DEF Paired
    <2>2. step[r] \in InChunk
      BY <2>1, StepKinds DEF At
    <2>3. PICK g : g = Adding(step[r].got, Min(Paired(r, m)), m.block)
      OBVIOUS
    <2>4. step'[r] = [step[r] EXCEPT !.got = g]
      BY <1>4, <2>3 DEF CatchupTypes
    <2>5. step'[r].at = "fetch" /\ step'[r].p = step[r].p /\ step'[r].seq = step[r].seq
      BY <2>1, <2>2, <2>4 DEF InChunk, At
    <2> QED BY <1>1, <2>2, <2>5, InPlaceSkipsNone
  <1> QED BY <1>2, <1>3, <1>4

LEMMA MissSkipsNone ==
  ASSUME CatchupTypes, cell.fetch = "stock", NEW r \in Replica, Miss(r), NoneSkipped(r)
  PROVE  NoneSkipped(r)'
  <1>1. step'[r] = [at |-> "over", events |-> step[r].events]
    BY DEF Miss, Move, AfterMiss, CatchupTypes
  <1>2. step'[r] \notin InChunk /\ ~At(r, "commit")'
    BY <1>1 DEF InChunk, At
  <1>3. UNCHANGED <<cell, vector, updates, stored>>
    BY DEF Miss, ledgerVars
  <1> QED BY <1>2, <1>3 DEF NoneSkipped, HeldTo

LEMMA RefuseSkipsNone ==
  ASSUME CatchupTypes, NEW r \in Replica, Refuse(r), NoneSkipped(r)
  PROVE  NoneSkipped(r)'
  <1>1. step[r] \in InChunk /\ step[r].events \in Nat
    BY StepKinds DEF Refuse, InHand, At, InChunk
  <1>2. step'[r] = Following(r, step[r].events)
    BY DEF Refuse, Move, CatchupTypes
  <1>3. \/ step'[r] = [at |-> "over", events |-> step[r].events]
        \/ step'[r].at \in {"ask", "ingest"} /\ step'[r].p = step[r].p
    BY <1>1, <1>2, FollowingShape
  <1>4. UNCHANGED <<cell, vector, updates, stored>>
    BY DEF Refuse, ledgerVars
  <1>5. ~At(r, "commit")'
    BY <1>3 DEF At
  <1>6. step'[r] \in InChunk => Refused(r)'
    BY <1>3, <1>4 DEF Refuse, Refused, InChunk
  <1> QED BY <1>4, <1>5, <1>6 DEF NoneSkipped, HeldTo

LEMMA FirstBoundKeeps ==
  ASSUME NEW f \in Blocks, NEW s \in Nat \ {0}, NEW b \in Block
  PROVE  /\ DOMAIN FirstBound(f, s, b) = DOMAIN f \cup {s}
         /\ \A n \in DOMAIN f : FirstBound(f, s, b)[n] = f[n]
         /\ s \notin DOMAIN f => FirstBound(f, s, b)[s] = b
  <1>1. CASE s \in DOMAIN f
    BY <1>1 DEF FirstBound
  <1>2. CASE s \notin DOMAIN f
    BY <1>2 DEF FirstBound, Adding
  <1> QED BY <1>1, <1>2

LEMMA StoreEffect ==
  ASSUME CatchupTypes, NEW r \in Replica, Store(r)
  PROVE  /\ step[r] \in InChunk /\ step[r].seq \in DOMAIN step[r].got /\ ~Refused(r)
         /\ step'[r] \in InChunk /\ step'[r].at = "commit" /\ step'[r].p = step[r].p
         /\ step'[r].seq = step[r].seq /\ step'[r].got = step[r].got
         /\ \A p \in Publisher \ {step[r].p} : stored'[r][p] = stored[r][p]
         /\ DOMAIN stored'[r][step[r].p] = DOMAIN stored[r][step[r].p] \cup {step[r].seq}
         /\ \A s \in DOMAIN stored[r][step[r].p] : stored'[r][step[r].p][s] = stored[r][step[r].p][s]
         /\ step[r].seq \notin DOMAIN stored[r][step[r].p] =>
               stored'[r][step[r].p][step[r].seq] = step[r].got[step[r].seq]
         /\ \A q \in Replica \ {r} : stored'[q] = stored[q] /\ step'[q] = step[q]
  <1> DEFINE p == step[r].p
             s == step[r].seq
  <1>1. step[r] \in InChunk /\ p \in Publisher /\ s \in Nat \ {0} /\ step[r].got \in Blocks
    BY StepKinds DEF Store, InHand, At, InChunk
  <1>2. s \in DOMAIN step[r].got /\ ~Refused(r)
    BY DEF Store, InHand
  <1>3. step[r].got[s] \in Block /\ stored[r][p] \in Blocks
    BY <1>1, <1>2 DEF Blocks, CatchupTypes
  <1>4. PICK f : f = FirstBound(stored[r][p], s, step[r].got[s])
    OBVIOUS
  <1>5. stored' = [stored EXCEPT ![r] = [stored[r] EXCEPT ![p] = f]]
    BY <1>4 DEF Store
  <1>6. /\ stored'[r] = [stored[r] EXCEPT ![p] = f]
        /\ \A q \in Replica \ {r} : stored'[q] = stored[q]
    BY <1>5 DEF CatchupTypes
  <1>7. stored'[r][p] = f /\ \A o \in Publisher \ {p} : stored'[r][o] = stored[r][o]
    BY <1>1, <1>6 DEF CatchupTypes
  <1>8. /\ DOMAIN f = DOMAIN stored[r][p] \cup {s}
        /\ \A n \in DOMAIN stored[r][p] : f[n] = stored[r][p][n]
        /\ s \notin DOMAIN stored[r][p] => f[s] = step[r].got[s]
    <2>1. PICK F \in Blocks, b \in Block, n \in Nat \ {0} :
             F = stored[r][p] /\ b = step[r].got[s] /\ n = s
      BY <1>1, <1>3
    <2>2. f = FirstBound(F, n, b)
      BY <1>4, <2>1
    <2>3. /\ DOMAIN f = DOMAIN F \cup {n}
          /\ \A m \in DOMAIN F : f[m] = F[m]
          /\ n \notin DOMAIN F => f[n] = b
      BY <2>2, FirstBoundKeeps
    <2> QED BY <2>1, <2>3
  <1>9. PICK e \in Nat :
          \/ step' = [step EXCEPT ![r] = [step[r] EXCEPT !.at = "commit", !.events = e]]
          \/ step' = [step EXCEPT ![r] = [step[r] EXCEPT !.at = "commit"]]
    <2>1. step[r].events \in Nat
      BY <1>1 DEF InChunk
    <2>2. PICK e \in Nat : e = IF s \notin DOMAIN stored[r][p] THEN step[r].events + 1 ELSE step[r].events
      BY <2>1
    <2> QED BY <2>2 DEF Store
  <1>10. /\ \/ step'[r] = [step[r] EXCEPT !.at = "commit", !.events = e]
            \/ step'[r] = [step[r] EXCEPT !.at = "commit"]
         /\ \A q \in Replica \ {r} : step'[q] = step[q]
    BY <1>9 DEF CatchupTypes
  <1>11. /\ step'[r] \in InChunk /\ step'[r].at = "commit" /\ step'[r].p = p
         /\ step'[r].seq = s /\ step'[r].got = step[r].got
    BY <1>1, <1>10 DEF InChunk
  <1> QED BY <1>1, <1>2, <1>6, <1>7, <1>8, <1>10, <1>11

LEMMA StoreSkipsNone ==
  ASSUME CatchupTypes, NEW r \in Replica, Store(r), NoneSkipped(r)
  PROVE  NoneSkipped(r)'
  <1>1. UNCHANGED <<cell, vector, updates>>
    BY DEF Store
  <1>2. \A o \in Publisher : DOMAIN stored[r][o] \subseteq DOMAIN stored'[r][o]
    BY StoreEffect
  <1>3. PICK p \in Publisher, s \in Nat \ {0} : p = step[r].p /\ s = step[r].seq
    BY StoreEffect DEF InChunk
  <1>4. /\ step'[r].p = p /\ step'[r].seq = s /\ s \in DOMAIN stored'[r][p]
        /\ step[r] \in InChunk /\ ~Refused(r)
    BY <1>3, StoreEffect
  <1>5. 1..(s - 1) \subseteq DOMAIN stored[r][p]
    BY <1>3, <1>4 DEF NoneSkipped, HeldTo
  <1>6. 1..s \subseteq DOMAIN stored'[r][p] /\ 1..(s - 1) \subseteq DOMAIN stored'[r][p]
    <2>1. 1..s = 1..(s - 1) \cup {s}
      BY <1>3
    <2> QED BY <1>2, <1>4, <1>5, <2>1
  <1>7. \A o \in Publisher : 1..vector'[r][o] \subseteq DOMAIN stored'[r][o]
    BY <1>1, <1>2 DEF NoneSkipped, HeldTo
  <1>8. ASSUME NEW i \in 1..Len(updates[r])
        PROVE  1..(updates[r][i].low - 1) \subseteq DOMAIN stored'[r][updates[r][i].p]
    <2>1. updates[r] \in Seq(Update)
      BY DEF CatchupTypes
    <2>2. updates[r][i] \in Update
      BY <2>1
    <2>3. updates[r][i].p \in Publisher
      BY <2>2 DEF Update
    <2> QED BY <1>2, <2>3 DEF NoneSkipped, HeldTo
  <1> QED BY <1>1, <1>4, <1>6, <1>7, <1>8 DEF NoneSkipped, HeldTo

LEMMA AckSkipsNone ==
  ASSUME CatchupTypes, NEW r \in Replica, Ack(r), NoneSkipped(r)
  PROVE  NoneSkipped(r)'
  <1> DEFINE p == step[r].p
             s == step[r].seq
  <1>1. step[r] \in InChunk /\ p \in Publisher /\ s \in Nat \ {0} /\ step[r].events \in Nat
    BY StepKinds DEF Ack, At, InChunk
  <1>2. HeldTo(r, p, s)
    BY DEF Ack, NoneSkipped
  <1>3. PICK n : n = Max({vector[r][p], s})
    OBVIOUS
  <1>4. vector[r][p] \in Nat
    BY <1>1 DEF CatchupTypes
  <1>5. n \in {vector[r][p], s}
    BY <1>1, <1>3, <1>4, MaxOfTwo
  <1>6. vector' = [vector EXCEPT ![r] = [vector[r] EXCEPT ![p] = n]]
    BY <1>3 DEF Ack
  <1>7. vector'[r][p] = n /\ \A o \in Publisher \ {p} : vector'[r][o] = vector[r][o]
    BY <1>1, <1>6 DEF CatchupTypes
  <1>8. UNCHANGED <<cell, updates, stored>>
    BY DEF Ack
  <1>9. step'[r] = Following(r, step[r].events)
    BY DEF Ack, Move, CatchupTypes
  <1>10. \/ step'[r] = [at |-> "over", events |-> step[r].events]
         \/ step'[r].at \in {"ask", "ingest"} /\ step'[r].p = p /\ step'[r].seq = s + 1
    BY <1>1, <1>9, FollowingShape
  <1>11. \A o \in Publisher : HeldTo(r, o, vector'[r][o])
    BY <1>2, <1>5, <1>7 DEF NoneSkipped
  <1>12. ~At(r, "commit")' /\ (step'[r] \in InChunk => step'[r].p = p /\ step'[r].seq - 1 = s)
    BY <1>1, <1>10 DEF At, InChunk
  <1> QED BY <1>2, <1>8, <1>11, <1>12 DEF NoneSkipped, HeldTo

LEMMA EndStepSkipsNone ==
  ASSUME CatchupTypes, NEW r \in Replica, Report(r) \/ CancelStep(r), NoneSkipped(r)
  PROVE  NoneSkipped(r)'
  <1>1. step'[r] = Waits
    BY DEF Report, CancelStep, Move, CatchupTypes
  <1>2. step'[r] \notin InChunk /\ ~At(r, "commit")'
    BY <1>1 DEF Waits, InChunk, At
  <1>3. UNCHANGED <<cell, vector, updates, stored>>
    BY DEF Report, CancelStep, ledgerVars
  <1> QED BY <1>2, <1>3 DEF NoneSkipped, HeldTo
\* What a replica's loop does leaves the other replicas and the publishers alone.
LEMMA OthersStay ==
  ASSUME CatchupTypes, NEW r \in Replica, Consume(r) \/ Arrive(r) \/ CancelStep(r)
  PROVE  /\ UNCHANGED <<cell, boot, served, published>>
         /\ \A q \in Replica \ {r} :
               /\ step'[q] = step[q] /\ updates'[q] = updates[q] /\ vector'[q] = vector[q]
               /\ wire'[q] = wire[q] /\ stored'[q] = stored[q] /\ reported'[q] = reported[q]
  <1>1. CASE Receive(r)
    BY <1>1 DEF Receive, Move, CatchupTypes, publisherVars, ledgerVars
  <1>2. CASE Ask(r)
    BY <1>2 DEF Ask, CatchupTypes, publisherVars, ledgerVars
  <1>3. CASE TakeNext(r)
    BY <1>3 DEF TakeNext, CatchupTypes, publisherVars, ledgerVars
  <1>4. CASE Fetched(r)
    BY <1>4 DEF Fetched, CatchupTypes, publisherVars, ledgerVars
  <1>5. CASE Miss(r) \/ Refuse(r)
    BY <1>5 DEF Miss, Refuse, Move, CatchupTypes, publisherVars, ledgerVars
  <1>6. CASE Store(r)
    <2>1. \A q \in Replica \ {r} : stored'[q] = stored[q] /\ step'[q] = step[q]
      BY <1>6, StoreEffect
    <2>2. \A q \in Replica \ {r} : reported'[q] = reported[q]
      BY <1>6 DEF Store, CatchupTypes
    <2> QED BY <1>6, <2>1, <2>2 DEF Store, publisherVars
  <1>7. CASE Ack(r)
    BY <1>7 DEF Ack, Move, CatchupTypes, publisherVars
  <1>8. CASE Report(r) \/ CancelStep(r)
    BY <1>8 DEF Report, CancelStep, Move, CatchupTypes, publisherVars, ledgerVars
  <1>9. CASE Arrive(r)
    <2>1. UNCHANGED <<cell, boot, served, published, updates, vector, stored, reported>>
      BY <1>9 DEF Arrive, publisherVars, ledgerVars
    <2>2. \A q \in Replica \ {r} : wire'[q] = wire[q] /\ step'[q] = step[q]
      BY <1>9 DEF Arrive, CatchupTypes
    <2> QED BY <2>1, <2>2
  <1> QED BY <1>1, <1>2, <1>3, <1>4, <1>5, <1>6, <1>7, <1>8, <1>9 DEF Consume

LEMMA NoneSkippedNext ==
  ASSUME CatchupTypes, cell.fetch = "stock", \A q \in Replica : NoneSkipped(q),
         [CatchupNext]_catchupVars
  PROVE  \A q \in Replica : NoneSkipped(q)'
  <1>1. ASSUME NEW r \in Replica, Consume(r) \/ Arrive(r) \/ CancelStep(r)
        PROVE  \A q \in Replica : NoneSkipped(q)'
    <2>1. ~TakeNext(r)
      BY DEF TakeNext
    <2>2. NoneSkipped(r)'
      BY <1>1, <2>1, ReceiveSkipsNone, AskSkipsNone, ArriveSkipsNone, MissSkipsNone, RefuseSkipsNone,
         StoreSkipsNone, AckSkipsNone, EndStepSkipsNone DEF Consume
    <2>3. ASSUME NEW q \in Replica \ {r} PROVE NoneSkipped(q)'
      BY <1>1, OthersStay, NoneSkippedStays
    <2> QED BY <2>2, <2>3
  <1>2. ASSUME NEW r \in Replica, NEW p \in Publisher, Advertise(r, p)
        PROVE  \A q \in Replica : NoneSkipped(q)'
    <2>1. NoneSkipped(r)'
      BY <1>2, AdvertiseSkipsNone
    <2>2. UNCHANGED <<cell, step, vector, stored>> /\ \A q \in Replica \ {r} : updates'[q] = updates[q]
      BY <1>2 DEF Advertise, CatchupTypes, ledgerVars
    <2>3. ASSUME NEW q \in Replica \ {r} PROVE NoneSkipped(q)'
      BY <2>2, NoneSkippedStays
    <2> QED BY <2>1, <2>3
  <1>3. ASSUME UNCHANGED <<cell, step, updates, vector, stored>>
        PROVE  \A q \in Replica : NoneSkipped(q)'
    BY <1>3, NoneSkippedStays
  <1>4. ASSUME NEW p \in Publisher, Put(p) \/ Stop(p) \/ Start(p)
        PROVE  UNCHANGED <<cell, step, updates, vector, stored>>
    BY <1>4 DEF Put, Stop, Start, ledgerVars
  <1>5. ASSUME NEW b \in BOOLEAN, SetLinkUp(b) PROVE UNCHANGED <<cell, step, updates, vector, stored>>
    BY <1>5 DEF SetLinkUp, ledgerVars
  <1>6. CASE BeginWatch \/ Tick
    BY <1>3, <1>6 DEF BeginWatch, Tick, ledgerVars
  <1>7. CASE UNCHANGED catchupVars
    BY <1>3, <1>7 DEF catchupVars
  <1> QED BY <1>1, <1>2, <1>3, <1>4, <1>5, <1>6, <1>7 DEF CatchupNext

-----------------------------------------------------------------------------
(* What is stored is what was authored.                                    *)

LEMMA RetainedNext ==
  ASSUME CatchupTypes, cell.persistent, Retained, [CatchupNext]_catchupVars
  PROVE  Retained'
  <1>1. ASSUME NEW p \in Publisher, Put(p) PROVE Retained'
    <2>1. PICK s, b : /\ served' = [served EXCEPT ![p] = Adding(@, s, b)]
                      /\ published' = IF p \in Honest THEN [published EXCEPT ![p] = Adding(@, s, b)]
                                      ELSE published
      BY <1>1 DEF Put
    <2> QED BY <2>1 DEF Retained, CatchupTypes, Publisher
  <1>2. ASSUME NEW p \in Publisher, Start(p) PROVE Retained'
    BY <1>2 DEF Start, StoreOfBoot, ledgerVars, Retained, CatchupTypes, Publisher
  <1>3. ASSUME UNCHANGED <<served, published>> PROVE Retained'
    BY <1>3 DEF Retained
  <1>4. ASSUME NEW p \in Publisher, Stop(p) PROVE Retained'
    BY <1>3, <1>4 DEF Stop, ledgerVars
  <1>5. ASSUME NEW b \in BOOLEAN, SetLinkUp(b) PROVE Retained'
    BY <1>3, <1>5 DEF SetLinkUp, ledgerVars, publisherVars
  <1>6. ASSUME NEW r \in Replica, NEW p \in Publisher, Advertise(r, p) PROVE Retained'
    BY <1>3, <1>6 DEF Advertise, ledgerVars, publisherVars
  <1>7. ASSUME NEW r \in Replica, Consume(r) \/ Arrive(r) \/ CancelStep(r) PROVE Retained'
    BY <1>3, <1>7, OthersStay
  <1>8. CASE BeginWatch \/ Tick
    BY <1>3, <1>8 DEF BeginWatch, Tick, ledgerVars, publisherVars
  <1>9. CASE UNCHANGED catchupVars
    BY <1>3, <1>9 DEF catchupVars
  <1> QED BY <1>1, <1>2, <1>4, <1>5, <1>6, <1>7, <1>8, <1>9 DEF CatchupNext

LEMMA GenuineInit == CatchupInit => Retained /\ \A r \in Replica : Genuine(r)
  <1>1. DOMAIN NoBlocks = {} /\ Waits \notin InChunk
    BY EmptyStore DEF Waits, InChunk
  <1> QED BY <1>1 DEF CatchupInit, Retained, Genuine, Publisher

LEMMA GenuineStays ==
  ASSUME NEW q \in Replica, Genuine(q), step'[q] = step[q], wire'[q] = wire[q],
         stored'[q] = stored[q], published' = published
  PROVE  Genuine(q)'
  BY DEF Genuine, Authored

\* A Block authored stays the Block under its number.
LEMMA PutAuthors ==
  ASSUME CatchupTypes, Retained, NEW p \in Publisher, Put(p), NEW o \in Publisher, NEW s, NEW b,
         Authored(o, s, b)
  PROVE  Authored(o, s, b)'
  <1> SUFFICES ASSUME o \in Honest PROVE s \in DOMAIN published'[o] /\ b = published'[o][s]
    BY DEF Authored
  <1>1. s \in DOMAIN published[o] /\ b = published[o][s]
    BY DEF Authored
  <1>2. CASE o = p
    <2>1. published[p] = served[p] /\ DOMAIN served[p] = 1..Top(served[p]) /\ Top(served[p]) \in Nat
      BY <1>2, ServedType DEF Retained
    <2>2. PICK x : published' = [published EXCEPT ![p] = Adding(@, Top(served[p]) + 1, x)]
      BY <1>2 DEF Put
    <2>3. published'[p] = Adding(published[p], Top(served[p]) + 1, x)
      BY <1>2, <2>2 DEF CatchupTypes
    <2>4. s \in DOMAIN published[p] /\ s # Top(served[p]) + 1
      BY <1>1, <1>2, <2>1
    <2> QED BY <1>1, <1>2, <2>3, <2>4 DEF Adding
  <1>3. CASE o # p
    <2>1. published'[o] = published[o]
      BY <1>3 DEF Put, CatchupTypes
    <2> QED BY <1>1, <2>1
  <1> QED BY <1>2, <1>3

LEMMA PutGenuine ==
  ASSUME CatchupTypes, Retained, NEW p \in Publisher, Put(p), NEW r \in Replica, Genuine(r)
  PROVE  Genuine(r)'
  <1>1. UNCHANGED <<wire, step, stored>>
    BY DEF Put
  <1>2. ASSUME NEW m \in wire[r] PROVE Authored(m.p, m.seq, m.block)'
    <2>1. m.p \in Publisher
      BY DEF CatchupTypes, Answer
    <2>2. PICK o, s, b : o \in Publisher /\ o = m.p /\ s = m.seq /\ b = m.block
      BY <2>1
    <2> QED BY <2>2, PutAuthors DEF Genuine
  <1>3. ASSUME step[r] \in InChunk, NEW s \in DOMAIN step[r].got
        PROVE  Authored(step[r].p, s, step[r].got[s])'
    <2>1. step[r].p \in Publisher
      BY <1>3 DEF InChunk
    <2>2. PICK o, b : o \in Publisher /\ o = step[r].p /\ b = step[r].got[s]
      BY <2>1
    <2>3. Authored(o, s, b)
      BY <1>3, <2>2 DEF Genuine
    <2>4. Authored(o, s, b)'
      BY <2>2, <2>3, PutAuthors
    <2> QED BY <1>1, <2>2, <2>4
  <1>4. ASSUME NEW o \in Publisher, NEW s \in DOMAIN stored[r][o]
        PROVE  Authored(o, s, stored[r][o][s])'
    <2>1. PICK b : b = stored[r][o][s]
      OBVIOUS
    <2>2. Authored(o, s, b)
      BY <2>1 DEF Genuine
    <2>3. Authored(o, s, b)'
      BY <2>2, PutAuthors
    <2> QED BY <1>1, <2>1, <2>3
  <1> QED BY <1>1, <1>2, <1>3, <1>4 DEF Genuine

LEMMA ReceiveGenuine ==
  ASSUME CatchupTypes, NEW r \in Replica, Receive(r), Genuine(r)
  PROVE  Genuine(r)'
  <1>1. PICK u \in Update : u = Head(updates[r])
    BY DEF Receive, CatchupTypes
  <1>2. step'[r] = Asking(u.p, u.low, u.high, 0)
    BY <1>1 DEF Receive, Move, CatchupTypes
  <1>3. DOMAIN step'[r].got = {}
    BY <1>2, EmptyStore DEF Asking
  <1>4. UNCHANGED <<wire, stored, published>>
    BY DEF Receive, ledgerVars
  <1> QED BY <1>3, <1>4 DEF Genuine, Authored

LEMMA AskGenuine ==
  ASSUME CatchupTypes, Retained, NEW r \in Replica, Ask(r), Genuine(r)
  PROVE  Genuine(r)'
  <1>1. step[r] \in InChunk
    BY StepKinds DEF Ask, At
  <1>2. PICK p \in Publisher : p = step[r].p
    BY <1>1 DEF InChunk
  <1>3. PICK S \in SUBSET DOMAIN served[p] :
          wire' = [wire EXCEPT ![r] = @ \cup {[p |-> p, seq |-> s, block |-> served[p][s]] : s \in S}]
    <2> DEFINE o == step[r].p
               answered == IF up /\ runs[o] THEN DOMAIN served[o] \cap step[r].seq..step[r].end ELSE {}
    <2>1. PICK lost \in SUBSET answered :
             wire' = [wire EXCEPT ![r] =
                    @ \cup {[p |-> o, seq |-> s, block |-> served[o][s]] : s \in answered \ lost}]
      BY DEF Ask
    <2>2. answered \ lost \in SUBSET DOMAIN served[o]
      OBVIOUS
    <2> HIDE DEF answered
    <2> QED BY <1>2, <2>1, <2>2
  <1>4. UNCHANGED <<stored, published>>
    BY DEF Ask, ledgerVars
  <1>5. ASSUME NEW m \in wire'[r] PROVE Authored(m.p, m.seq, m.block)
    <2>1. PICK A : A = {[p |-> p, seq |-> s, block |-> served[p][s]] : s \in S}
      OBVIOUS
    <2>2. wire'[r] = wire[r] \cup A
      BY <1>3, <2>1 DEF CatchupTypes
    <2>3. CASE m \in A
      <3>1. PICK s \in S : m = [p |-> p, seq |-> s, block |-> served[p][s]]
        BY <2>1, <2>3
      <3>2. m.p = p /\ m.seq = s /\ m.block = served[p][s]
        BY <3>1
      <3> QED BY <3>2 DEF Authored, Retained
    <2>4. CASE m \in wire[r]
      BY <2>4 DEF Genuine
    <2> QED BY <2>2, <2>3, <2>4
  <1>6. step'[r] = [step[r] EXCEPT !.at = "fetch"]
    BY DEF Ask, CatchupTypes
  <1>7. step'[r].p = step[r].p /\ step'[r].got = step[r].got
    BY <1>1, <1>6 DEF InChunk
  <1> QED BY <1>1, <1>4, <1>5, <1>7 DEF Genuine, Authored

LEMMA ArriveGenuine ==
  ASSUME CatchupTypes, cell.fetch = "stock", NEW r \in Replica, Arrive(r), Genuine(r)
  PROVE  Genuine(r)'
  <1>1. UNCHANGED <<stored, published>>
    BY DEF Arrive, ledgerVars
  <1>2. PICK m \in wire[r] :
          /\ wire' = [wire EXCEPT ![r] = @ \ {m}]
          /\ step' = IF Paired(r, m) = {} THEN step
                     ELSE [step EXCEPT ![r].got = Adding(@, Min(Paired(r, m)), m.block)]
    BY DEF Arrive
  <1>3. wire'[r] \subseteq wire[r]
    BY <1>2 DEF CatchupTypes
  <1>4. CASE Paired(r, m) = {}
    BY <1>1, <1>2, <1>3, <1>4 DEF Genuine, Authored
  <1>5. CASE Paired(r, m) # {}
    <2>1. m \in Answer
      BY DEF CatchupTypes
    <2>2. step[r] \in InChunk /\ step[r].p = m.p /\ Paired(r, m) = {m.seq}
      BY <1>5, StepKinds DEF Paired, At
    <2>3. PICK n \in Nat \ {0}, b \in Block : n = m.seq /\ b = m.block
      BY <2>1 DEF Answer
    <2>4. Min(Paired(r, m)) = n
      BY <2>2, <2>3 DEF Min
    <2>5. PICK G \in Blocks : G = step[r].got
      BY <2>2 DEF InChunk
    <2>6. PICK g : g = Adding(G, n, b)
      OBVIOUS
    <2>7. step' = [step EXCEPT ![r] = [step[r] EXCEPT !.got = g]]
      BY <1>2, <1>5, <2>3, <2>4, <2>5, <2>6
    <2>8. step'[r] = [step[r] EXCEPT !.got = g]
      BY <2>7 DEF CatchupTypes
    <2>9. step'[r].p = m.p /\ step'[r].got = g
      BY <2>2, <2>8 DEF InChunk
    <2>10. DOMAIN g = DOMAIN G \cup {n} /\ g[n] = b /\ \A i \in DOMAIN G \ {n} : g[i] = G[i]
      <3>1. /\ DOMAIN Adding(G, n, b) = DOMAIN G \cup {n} /\ Adding(G, n, b)[n] = b
            /\ \A i \in DOMAIN G \ {n} : Adding(G, n, b)[i] = G[i]
        BY AddingType
      <3> QED BY <2>6, <3>1
    <2>11. Authored(m.p, n, b) /\ \A s \in DOMAIN G : Authored(m.p, s, G[s])
      BY <2>2, <2>3, <2>5 DEF Genuine
    <2>12. \A s \in DOMAIN g : Authored(m.p, s, g[s])
      BY <2>10, <2>11
    <2> QED BY <1>1, <1>3, <2>9, <2>12 DEF Genuine, Authored
  <1> QED BY <1>4, <1>5

\* A step that keeps what is in hand, or lets go of it.
LEMMA HandKeptGenuine ==
  ASSUME NEW r \in Replica, Genuine(r), UNCHANGED <<wire, stored, published>>,
         \/ step'[r] \notin InChunk
         \/ step'[r].got = NoBlocks
         \/ step[r] \in InChunk /\ step'[r].p = step[r].p /\ step'[r].got = step[r].got
  PROVE  Genuine(r)'
  BY EmptyStore DEF Genuine, Authored

LEMMA GoOnGenuine ==
  ASSUME CatchupTypes, NEW r \in Replica, Fetched(r) \/ Miss(r) \/ Refuse(r) \/ Ack(r), Genuine(r)
  PROVE  Genuine(r)'
  <1>1. step[r] \in InChunk
    BY StepKinds DEF Fetched, Miss, Refuse, Ack, InHand, At
  <1>2. UNCHANGED <<wire, stored, published>>
    BY DEF Fetched, Miss, Refuse, Ack, ledgerVars
  <1>3. CASE Fetched(r)
    <2>1. step'[r] = [step[r] EXCEPT !.at = "ingest"]
      BY <1>3 DEF Fetched, CatchupTypes
    <2>2. step'[r].p = step[r].p /\ step'[r].got = step[r].got
      BY <1>1, <2>1 DEF InChunk
    <2> QED BY <1>1, <1>2, <2>2, HandKeptGenuine
  <1>4. CASE Miss(r) \/ Refuse(r) \/ Ack(r)
    <2>1. \/ step'[r] = [at |-> "over", events |-> step[r].events]
          \/ step'[r] = Following(r, step[r].events)
      BY <1>4 DEF Miss, Refuse, Ack, AfterMiss, Move, CatchupTypes
    <2>2. [at |-> "over", events |-> step[r].events] \notin InChunk /\ step[r].events \in Nat
      BY <1>1 DEF InChunk
    <2>3. \/ step'[r] \notin InChunk
          \/ step'[r].p = step[r].p /\ step'[r].got \in {NoBlocks, step[r].got}
      BY <1>1, <2>1, <2>2, FollowingShape
    <2> QED BY <1>1, <1>2, <2>3, HandKeptGenuine
  <1> QED BY <1>3, <1>4

LEMMA StoreGenuine ==
  ASSUME CatchupTypes, NEW r \in Replica, Store(r), Genuine(r)
  PROVE  Genuine(r)'
  <1>1. UNCHANGED <<wire, published>>
    BY DEF Store
  <1>2. PICK p \in Publisher, s \in Nat \ {0} : p = step[r].p /\ s = step[r].seq
    BY StoreEffect DEF InChunk
  <1>3. /\ step[r] \in InChunk /\ step'[r].p = p /\ step'[r].got = step[r].got
        /\ s \in DOMAIN step[r].got
    BY <1>2, StoreEffect
  <1>4. Authored(p, s, step[r].got[s])
    BY <1>2, <1>3 DEF Genuine
  <1>5. ASSUME NEW o \in Publisher, NEW n \in DOMAIN stored'[r][o]
        PROVE  Authored(o, n, stored'[r][o][n])
    <2>1. CASE n \in DOMAIN stored[r][o]
      <3>1. stored'[r][o][n] = stored[r][o][n]
        BY <2>1, StoreEffect
      <3> QED BY <2>1, <3>1 DEF Genuine
    <2>2. CASE n \notin DOMAIN stored[r][o]
      <3>1. o = p /\ n = s /\ stored'[r][o][n] = step[r].got[s]
        BY <1>2, <2>2, StoreEffect
      <3> QED BY <1>4, <3>1
    <2> QED BY <2>1, <2>2
  <1> QED BY <1>1, <1>2, <1>3, <1>5 DEF Genuine, Authored

LEMMA GenuineNext ==
  ASSUME CatchupTypes, cell.fetch = "stock", cell.persistent, Retained,
         \A q \in Replica : Genuine(q), [CatchupNext]_catchupVars
  PROVE  \A q \in Replica : Genuine(q)'
  <1>1. ASSUME NEW r \in Replica, Consume(r) \/ Arrive(r) \/ CancelStep(r)
        PROVE  \A q \in Replica : Genuine(q)'
    <2>1. ~TakeNext(r)
      BY DEF TakeNext
    <2>2. ASSUME Report(r) \/ CancelStep(r) PROVE Genuine(r)'
      <3>1. step'[r] = Waits /\ UNCHANGED <<wire, stored, published>>
        BY <2>2 DEF Report, CancelStep, Move, CatchupTypes, ledgerVars
      <3>2. Waits \notin InChunk
        BY DEF Waits, InChunk
      <3> QED BY <3>1, <3>2, HandKeptGenuine
    <2>3. Genuine(r)'
      BY <1>1, <2>1, <2>2, ReceiveGenuine, AskGenuine, ArriveGenuine, GoOnGenuine, StoreGenuine
         DEF Consume
    <2>4. ASSUME NEW q \in Replica \ {r} PROVE Genuine(q)'
      BY <1>1, OthersStay, GenuineStays
    <2> QED BY <2>3, <2>4
  <1>2. ASSUME NEW p \in Publisher, Put(p) PROVE \A q \in Replica : Genuine(q)'
    BY <1>2, PutGenuine
  <1>3. ASSUME UNCHANGED <<step, wire, stored, published>>
        PROVE  \A q \in Replica : Genuine(q)'
    BY <1>3, GenuineStays
  <1>4. ASSUME NEW p \in Publisher, Stop(p) \/ Start(p)
        PROVE  UNCHANGED <<step, wire, stored, published>>
    BY <1>4 DEF Stop, Start, ledgerVars
  <1>5. ASSUME NEW b \in BOOLEAN, SetLinkUp(b) PROVE UNCHANGED <<step, wire, stored, published>>
    BY <1>5 DEF SetLinkUp, ledgerVars
  <1>6. ASSUME NEW r \in Replica, NEW p \in Publisher, Advertise(r, p)
        PROVE  UNCHANGED <<step, wire, stored, published>>
    BY <1>6 DEF Advertise, ledgerVars
  <1>7. CASE BeginWatch \/ Tick
    BY <1>3, <1>7 DEF BeginWatch, Tick, ledgerVars
  <1>8. CASE UNCHANGED catchupVars
    BY <1>3, <1>8 DEF catchupVars
  <1> QED BY <1>1, <1>2, <1>3, <1>4, <1>5, <1>6, <1>7, <1>8 DEF CatchupNext
-----------------------------------------------------------------------------
(* Every Block stored is reported once.                                    *)

LEMMA ToldInit == CatchupInit => \A r \in Replica : Told(r)
  <1> SUFFICES ASSUME CatchupInit, NEW r \in Replica PROVE Told(r)
    OBVIOUS
  <1>1. HeldKeys(r) = {}
    BY EmptyStore DEF CatchupInit, HeldKeys
  <1>2. reported[r] = 0 /\ Owed(r) = 0
    BY DEF CatchupInit, Owed, At, Waits
  <1>3. IsFiniteSet({}) /\ Cardinality({}) = 0
    BY FS_EmptySet, Zenon
  <1> QED BY <1>1, <1>2, <1>3 DEF Told

LEMMA ToldSame ==
  ASSUME NEW r \in Replica, Told(r), stored'[r] = stored[r],
         reported'[r] + Owed(r)' = reported[r] + Owed(r)
  PROVE  Told(r)'
  BY DEF Told, HeldKeys

LEMMA OwedInStep ==
  ASSUME NEW r \in Replica, NEW e, step[r] \in InChunk \cup Ended, step[r].events = e
  PROVE  Owed(r) = e
  BY DEF Owed, At, InChunk, Ended

\* What Following leaves of the events.
LEMMA FollowingOwes ==
  ASSUME CatchupTypes, NEW r \in Replica, step[r] \in InChunk
  PROVE  /\ Following(r, step[r].events) \in InChunk \cup Ended
         /\ Following(r, step[r].events).events = step[r].events
  <1>1. PICK e \in Nat : e = step[r].events
    BY DEF InChunk
  <1>2. [at |-> "over", events |-> e].events = e
    OBVIOUS
  <1> QED BY <1>1, <1>2, FollowingType, FollowingShape

LEMMA StoreTold ==
  ASSUME CatchupTypes, NEW r \in Replica, Store(r), Told(r)
  PROVE  Told(r)'
  <1>1. PICK p \in Publisher, s \in Nat \ {0} : p = step[r].p /\ s = step[r].seq
    BY StoreEffect DEF InChunk
  <1>2. step[r] \in InChunk /\ step'[r] \in InChunk
    BY StoreEffect
  <1>3. Owed(r) = step[r].events /\ Owed(r)' = step'[r].events
    BY <1>2 DEF Owed, At, InChunk
  <1>4. step[r].events \in Nat /\ reported[r] \in Nat
    BY <1>2 DEF InChunk, CatchupTypes
  <1>5. reported'[r] + step'[r].events
          = IF s \in DOMAIN stored[r][p] THEN reported[r] + step[r].events
            ELSE reported[r] + step[r].events + 1
    <2>1. PICK e \in Nat :
             e = IF s \notin DOMAIN stored[r][p] THEN step[r].events + 1 ELSE step[r].events
      BY <1>4
    <2>2. \/ /\ step' = [step EXCEPT ![r] = [step[r] EXCEPT !.at = "commit", !.events = e]]
             /\ UNCHANGED reported
          \/ /\ step' = [step EXCEPT ![r] = [step[r] EXCEPT !.at = "commit"]]
             /\ reported' = [reported EXCEPT ![r] = IF s \notin DOMAIN stored[r][p] THEN @ + 1 ELSE @]
      BY <1>1, <2>1 DEF Store
    <2>3. CASE /\ step' = [step EXCEPT ![r] = [step[r] EXCEPT !.at = "commit", !.events = e]]
               /\ UNCHANGED reported
      <3>1. step'[r] = [step[r] EXCEPT !.at = "commit", !.events = e]
        BY <2>3 DEF CatchupTypes
      <3>2. step'[r].events = e
        BY <1>2, <3>1 DEF InChunk
      <3> QED BY <1>4, <2>1, <2>3, <3>2
    <2>4. CASE /\ step' = [step EXCEPT ![r] = [step[r] EXCEPT !.at = "commit"]]
               /\ reported' = [reported EXCEPT ![r] = IF s \notin DOMAIN stored[r][p] THEN @ + 1 ELSE @]
      <3>1. step'[r] = [step[r] EXCEPT !.at = "commit"]
        BY <2>4 DEF CatchupTypes
      <3>2. step'[r].events = step[r].events
        BY <1>2, <3>1 DEF InChunk
      <3>3. reported'[r] = IF s \notin DOMAIN stored[r][p] THEN reported[r] + 1 ELSE reported[r]
        BY <2>4 DEF CatchupTypes
      <3> QED BY <1>4, <3>2, <3>3
    <2> QED BY <2>2, <2>3, <2>4
  <1>6. HeldKeys(r)' = HeldKeys(r) \cup {<<p, s>>}
    <2>1. /\ DOMAIN stored'[r][p] = DOMAIN stored[r][p] \cup {s}
          /\ \A o \in Publisher \ {p} : stored'[r][o] = stored[r][o]
      BY <1>1, StoreEffect
    <2> QED BY <2>1 DEF HeldKeys
  <1>7. <<p, s>> \in HeldKeys(r) <=> s \in DOMAIN stored[r][p]
    BY DEF HeldKeys
  <1>8. IsFiniteSet(HeldKeys(r)) /\ Cardinality(HeldKeys(r)) = reported[r] + step[r].events
    BY <1>3 DEF Told
  <1>9. /\ IsFiniteSet(HeldKeys(r) \cup {<<p, s>>})
        /\ Cardinality(HeldKeys(r) \cup {<<p, s>>})
             = IF <<p, s>> \in HeldKeys(r) THEN Cardinality(HeldKeys(r)) ELSE Cardinality(HeldKeys(r)) + 1
    BY <1>8, FS_AddElement
  <1> QED BY <1>3, <1>4, <1>5, <1>6, <1>7, <1>8, <1>9 DEF Told

LEMMA ConsumeTold ==
  ASSUME CatchupTypes, cell.bound # "whole", NEW r \in Replica,
         Consume(r) \/ Arrive(r) \/ CancelStep(r), Told(r)
  PROVE  Told(r)'
  <1>1. CASE Receive(r)
    <2>1. PICK u \in Update : u = Head(updates[r])
      BY <1>1 DEF Receive, CatchupTypes
    <2>2. step'[r] = Asking(u.p, u.low, u.high, 0)
      BY <1>1, <2>1 DEF Receive, Move, CatchupTypes
    <2>3. Owed(r) = 0 /\ Owed(r)' = 0
      BY <1>1, <2>2 DEF Receive, Owed, At, Asking
    <2>4. UNCHANGED <<stored, reported>>
      BY <1>1 DEF Receive, ledgerVars
    <2> QED BY <2>3, <2>4, ToldSame
  <1>2. CASE Ask(r) \/ TakeNext(r) \/ Fetched(r) \/ Arrive(r)
    <2>1. UNCHANGED <<stored, reported>>
      BY <1>2 DEF Ask, TakeNext, Fetched, Arrive, ledgerVars
    <2>2. Owed(r)' = Owed(r)
      <3>1. step[r] \in {Waits} \cup InChunk \cup Ended
        BY DEF CatchupTypes
      <3>2. CASE step'[r] = step[r]
        BY <3>2 DEF Owed, At
      <3>3. CASE /\ step[r] \in InChunk
                 /\ \/ step'[r] \in {[step[r] EXCEPT !.at = "fetch"], [step[r] EXCEPT !.at = "ingest"]}
                    \/ \E g : step'[r] = [step[r] EXCEPT !.got = g]
        BY <3>3 DEF Owed, At, InChunk
      <3>4. CASE Ask(r) \/ Fetched(r)
        <4>1. step[r] \in InChunk
          BY <3>4, StepKinds DEF Ask, Fetched, At
        <4>2. step'[r] \in {[step[r] EXCEPT !.at = "fetch"], [step[r] EXCEPT !.at = "ingest"]}
          BY <3>4 DEF Ask, Fetched, CatchupTypes
        <4> QED BY <3>3, <4>1, <4>2
      <3>5. CASE TakeNext(r)
        <4>1. step[r] \in InChunk
          BY <3>5, StepKinds DEF TakeNext, Awaited, At
        <4>2. PICK g : g = Adding(NoBlocks, step[r].seq, Head(inbox[r]))
          OBVIOUS
        <4>3. step'[r] = [step[r] EXCEPT !.got = g]
          BY <3>5, <4>2 DEF TakeNext, CatchupTypes
        <4> QED BY <3>3, <4>1, <4>3
      <3>6. CASE Arrive(r)
        <4>1. PICK m \in wire[r] :
                \/ step' = step
                \/ /\ Paired(r, m) # {}
                   /\ step' = [step EXCEPT ![r].got = Adding(@, Min(Paired(r, m)), m.block)]
          BY <3>6 DEF Arrive
        <4>2. CASE step' = step
          BY <3>2, <4>2
        <4>3. CASE /\ Paired(r, m) # {}
                   /\ step' = [step EXCEPT ![r].got = Adding(@, Min(Paired(r, m)), m.block)]
          <5>1. step[r] \in InChunk
            BY <4>3, StepKinds DEF Paired, At
          <5>2. PICK g : g = Adding(step[r].got, Min(Paired(r, m)), m.block)
            OBVIOUS
          <5>3. step'[r] = [step[r] EXCEPT !.got = g]
            BY <4>3, <5>2 DEF CatchupTypes
          <5> QED BY <3>3, <5>1, <5>3
        <4> QED BY <4>1, <4>2, <4>3
      <3> QED BY <1>2, <3>4, <3>5, <3>6
    <2> QED BY <2>1, <2>2, ToldSame
  <1>3. CASE Miss(r) \/ Refuse(r) \/ Ack(r)
    <2>1. step[r] \in InChunk
      BY <1>3, StepKinds DEF Miss, Refuse, Ack, InHand, At
    <2>2. \/ step'[r] = [at |-> "over", events |-> step[r].events]
          \/ step'[r] = Following(r, step[r].events)
      BY <1>3 DEF Miss, Refuse, Ack, AfterMiss, Move, CatchupTypes
    <2>3. /\ [at |-> "over", events |-> step[r].events] \in Ended
          /\ [at |-> "over", events |-> step[r].events].events = step[r].events
      BY <2>1 DEF InChunk, Ended
    <2>4. step'[r] \in InChunk \cup Ended /\ step'[r].events = step[r].events
      BY <2>1, <2>2, <2>3, FollowingOwes
    <2>5. Owed(r)' = Owed(r)
      BY <2>1, <2>4 DEF Owed, At, InChunk, Ended
    <2>6. UNCHANGED <<stored, reported>>
      BY <1>3 DEF Miss, Refuse, Ack, ledgerVars
    <2> QED BY <2>5, <2>6, ToldSame
  <1>4. CASE Report(r)
    <2>1. step[r] \in Ended /\ step[r].events \in Nat /\ reported[r] \in Nat
      BY <1>4, StepKinds DEF Report, Ended, CatchupTypes
    <2>2. step'[r] = Waits /\ reported'[r] = reported[r] + step[r].events
      BY <1>4 DEF Report, Move, CatchupTypes
    <2>3. Owed(r) = step[r].events /\ Owed(r)' = 0
      BY <2>1, <2>2 DEF Owed, At, Waits, Ended
    <2>4. UNCHANGED stored
      BY <1>4 DEF Report
    <2> QED BY <2>1, <2>2, <2>3, <2>4, ToldSame
  <1>5. ~CancelStep(r)
    BY DEF CancelStep, CoversProcessing
  <1> QED BY <1>1, <1>2, <1>3, <1>4, <1>5, StoreTold DEF Consume

LEMMA ToldNext ==
  ASSUME CatchupTypes, cell.bound # "whole", \A q \in Replica : Told(q), [CatchupNext]_catchupVars
  PROVE  \A q \in Replica : Told(q)'
  <1>1. ASSUME NEW r \in Replica, Consume(r) \/ Arrive(r) \/ CancelStep(r)
        PROVE  \A q \in Replica : Told(q)'
    <2>1. Told(r)'
      BY <1>1, ConsumeTold
    <2>2. ASSUME NEW q \in Replica \ {r} PROVE Told(q)'
      <3>1. step'[q] = step[q] /\ stored'[q] = stored[q] /\ reported'[q] = reported[q]
        BY <1>1, OthersStay
      <3> QED BY <3>1, ToldSame DEF Owed, At
    <2> QED BY <2>1, <2>2
  <1>2. ASSUME UNCHANGED <<step, stored, reported>> PROVE \A q \in Replica : Told(q)'
    BY <1>2, ToldSame DEF Owed, At
  <1>3. ASSUME NEW p \in Publisher, Put(p) \/ Stop(p) \/ Start(p)
        PROVE  UNCHANGED <<step, stored, reported>>
    BY <1>3 DEF Put, Stop, Start, ledgerVars
  <1>4. ASSUME NEW b \in BOOLEAN, SetLinkUp(b) PROVE UNCHANGED <<step, stored, reported>>
    BY <1>4 DEF SetLinkUp, ledgerVars
  <1>5. ASSUME NEW r \in Replica, NEW p \in Publisher, Advertise(r, p)
        PROVE  UNCHANGED <<step, stored, reported>>
    BY <1>5 DEF Advertise, ledgerVars
  <1>6. CASE BeginWatch \/ Tick
    BY <1>2, <1>6 DEF BeginWatch, Tick, ledgerVars
  <1>7. CASE UNCHANGED catchupVars
    BY <1>2, <1>7 DEF catchupVars
  <1> QED BY <1>1, <1>2, <1>3, <1>4, <1>5, <1>6, <1>7 DEF CatchupNext

-----------------------------------------------------------------------------
(* The watchdog's patience.                                                *)

LEMMA PatientInit == CatchupInit => Patient
  BY DEF CatchupInit, Patient, WatchSample, StallIsSilence

LEMMA PatientStays == ASSUME Patient, UNCHANGED <<watch, silent>> PROVE Patient'
  BY DEF Patient, StallIsSilence

LEMMA TickPatient == ASSUME Patient, Tick PROVE Patient'
  <1>1. PICK zeros \in Nat, quiet \in Nat, verdict \in {"converged", "stalled", "budget", "watching"},
             still \in BOOLEAN :
          /\ watch' = [verdict |-> verdict, idle |-> quiet, spent |-> watch.spent + 1,
                       zeros |-> Min({zeros, 2}), fresh |-> FALSE]
          /\ quiet = IF still THEN watch.idle + 1 ELSE 0
          /\ still => ~watch.fresh
          /\ verdict = "stalled" => quiet >= StallTicks
          /\ verdict = "watching" => ~(quiet >= StallTicks)
    <2> DEFINE zeros == IF Backlog = 0 THEN watch.zeros + 1 ELSE 0
               still == ~watch.fresh /\ Backlog > 0
               quiet == IdleAfter(still)
               verdict == CASE zeros >= 2 /\ anyAck -> "converged"
                            [] quiet >= StallTicks -> "stalled"
                            [] watch.spent + 1 >= BudgetTicks -> "budget"
                            [] OTHER -> "watching"
    <2>1. watch' = [verdict |-> verdict, idle |-> quiet, spent |-> watch.spent + 1,
                    zeros |-> Min({zeros, 2}), fresh |-> FALSE]
      BY DEF Tick
    <2>2. zeros \in Nat /\ quiet \in Nat /\ quiet = IF still THEN watch.idle + 1 ELSE 0
      BY DEF Patient, WatchSample, IdleAfter
    <2>3. still \in BOOLEAN /\ (still => ~watch.fresh)
      OBVIOUS
    <2> HIDE DEF zeros, still, quiet
    <2>4. /\ verdict \in {"converged", "stalled", "budget", "watching"}
          /\ verdict = "stalled" => quiet >= StallTicks
          /\ verdict = "watching" => ~(quiet >= StallTicks)
      OBVIOUS
    <2> HIDE DEF verdict
    <2> QED BY <2>1, <2>2, <2>3, <2>4
  <1>2. PICK z \in Nat : z = Min({zeros, 2})
    BY MinOfTwo
  <1>3. silent' \in Nat /\ silent' = IF silent + 1 <= StallTicks + 1 THEN silent + 1 ELSE StallTicks + 1
    <2>1. silent + 1 \in Nat /\ StallTicks + 1 \in Nat /\ silent' = Min({silent + 1, StallTicks + 1})
      BY CatchupAssumption DEF Tick, Patient
    <2> QED BY <2>1, MinOfTwo
  <1>4. /\ watch.verdict = "watching" /\ watch \in WatchSample /\ silent \in Nat
        /\ watch.idle < StallTicks /\ (watch.fresh \/ watch.idle < silent)
    BY DEF Tick, Patient
  <1>5. watch' \in WatchSample
    BY <1>1, <1>2, <1>4 DEF WatchSample
  <1>6. /\ watch'.verdict = verdict /\ watch'.idle = quiet
    BY <1>1
  <1>7. quiet < silent'
    BY <1>1, <1>3, <1>4, CatchupAssumption DEF WatchSample
  <1>8. verdict = "stalled" => silent' > StallTicks
    BY <1>1, <1>3, <1>4, CatchupAssumption DEF WatchSample
  <1>9. verdict = "watching" => quiet < StallTicks
    BY <1>1, CatchupAssumption
  <1> QED BY <1>3, <1>5, <1>6, <1>7, <1>8, <1>9 DEF Patient, StallIsSilence

LEMMA PatientNext == ASSUME Patient, [CatchupNext]_catchupVars PROVE Patient'
  <1>1. CASE BeginWatch
    <2>1. /\ watch' = [verdict |-> "watching", idle |-> 0, spent |-> 0, zeros |-> 0, fresh |-> FALSE]
          /\ silent' = 1
      BY <1>1 DEF BeginWatch
    <2> QED BY <2>1, CatchupAssumption DEF Patient, WatchSample, StallIsSilence
  <1>2. ASSUME NEW r \in Replica, Ack(r) PROVE Patient'
    <2>1. CASE watch.verdict = "watching"
      <3>1. watch' = [watch EXCEPT !.fresh = TRUE] /\ silent' = 0
        BY <1>2, <2>1 DEF Ack
      <3> QED BY <2>1, <3>1 DEF Patient, WatchSample, StallIsSilence
    <2>2. CASE watch.verdict # "watching"
      BY <1>2, <2>2, PatientStays DEF Ack, watchVars
    <2> QED BY <2>1, <2>2
  <1>3. ASSUME NEW r \in Replica, Consume(r) \/ Arrive(r) \/ CancelStep(r) PROVE Patient'
    <2>1. CASE Ack(r)
      BY <1>2, <2>1
    <2>2. ASSUME ~Ack(r) PROVE UNCHANGED <<watch, silent>>
      BY <1>3, <2>2 DEF Consume, Receive, Ask, TakeNext, Fetched, Miss, Refuse, Store, Report, Arrive,
                        CancelStep, watchVars
    <2> QED BY <2>1, <2>2, PatientStays
  <1>4. ASSUME NEW p \in Publisher, Put(p) \/ Stop(p) \/ Start(p) PROVE Patient'
    BY <1>4, PatientStays DEF Put, Stop, Start, watchVars
  <1>5. ASSUME NEW b \in BOOLEAN, SetLinkUp(b) PROVE Patient'
    BY <1>5, PatientStays DEF SetLinkUp, watchVars
  <1>6. ASSUME NEW r \in Replica, NEW p \in Publisher, Advertise(r, p) PROVE Patient'
    BY <1>6, PatientStays DEF Advertise, watchVars
  <1>7. CASE UNCHANGED catchupVars
    BY <1>7, PatientStays DEF catchupVars
  <1> QED BY <1>1, <1>3, <1>4, <1>5, <1>6, <1>7, TickPatient DEF CatchupNext

LEMMA CatchupInvInit == CatchupInit => CatchupInv
  BY TypesInit, NoneSkippedInit, GenuineInit, ToldInit, PatientInit DEF CatchupInv

LEMMA CatchupInvNext == CatchupInv /\ [CatchupNext]_catchupVars => CatchupInv'
  <1> SUFFICES ASSUME CatchupInv, [CatchupNext]_catchupVars PROVE CatchupInv'
    OBVIOUS
  <1>1. cell' = cell
    BY DEF CatchupNext, catchupVars, Put, Stop, Start, SetLinkUp, Advertise, Consume, Receive, Ask,
           TakeNext, Fetched, Miss, Refuse, Store, Ack, Report, Arrive, CancelStep, BeginWatch, Tick
  <1>2. CatchupTypes'
    BY TypesNext DEF CatchupInv
  <1>3. (cell.fetch = "stock" => \A r \in Replica : NoneSkipped(r))'
    BY <1>1, NoneSkippedNext DEF CatchupInv
  <1>4. (cell.persistent => Retained)'
    BY <1>1, RetainedNext DEF CatchupInv
  <1>5. (cell.fetch = "stock" /\ cell.persistent => \A r \in Replica : Genuine(r))'
    BY <1>1, GenuineNext DEF CatchupInv
  <1>6. (cell.bound # "whole" => \A r \in Replica : Told(r))'
    BY <1>1, ToldNext DEF CatchupInv
  <1>7. Patient'
    BY PatientNext DEF CatchupInv
  <1> QED BY <1>2, <1>3, <1>4, <1>5, <1>6, <1>7 DEF CatchupInv

LEMMA CatchupInvImplies == CatchupInv => NoHole /\ NoPoison /\ EventsReported /\ StallIsSilence
  <1> SUFFICES ASSUME CatchupInv PROVE NoHole /\ NoPoison /\ EventsReported /\ StallIsSilence
    OBVIOUS
  <1>1. NoHole
    BY DEF CatchupInv, NoHole, NoneSkipped, HeldTo
  <1>2. NoPoison
    BY DEF CatchupInv, NoPoison, Genuine, Authored, Publisher
  <1>3. EventsReported
    <2> SUFFICES ASSUME cell.bound # "whole", NEW r \in Replica, At(r, "waits")
                 PROVE  reported[r] = StoredCount(r)
      BY DEF EventsReported
    <2>1. Told(r) /\ Owed(r) = 0 /\ reported[r] \in Nat
      BY DEF CatchupInv, Owed, CatchupTypes
    <2>2. StoredCount(r) = Cardinality(HeldKeys(r))
      BY DEF StoredCount, HeldKeys
    <2> QED BY <2>1, <2>2 DEF Told
  <1> QED BY <1>1, <1>2, <1>3 DEF CatchupInv, Patient

LEMMA CatchupPart == ToolkitSpec => CatchupInit /\ [][CatchupNext]_catchupVars
  <1>1. ToolkitInit => CatchupInit
    BY DEF ToolkitInit
  <1>2. [ToolkitNext]_toolkitVars => [CatchupNext]_catchupVars
    BY DEF ToolkitNext, toolkitVars, catchupVars
  <1> QED
    BY <1>1, <1>2, PTL DEF ToolkitSpec

LEMMA CatchupInvariant == ToolkitSpec => []CatchupInv
  BY CatchupPart, CatchupInvInit, CatchupInvNext, PTL

\* Ledger::invariants, byte identity: over lossy, reordering links and restarts of publishers, any
\* number of them, every Block a replica holds is the one its publisher authored under its number.
THEOREM NothingPoisoned == ToolkitSpec => []NoPoison
  BY CatchupInvariant, CatchupInvImplies, PTL

\* ledgered_catchup: the vector never vouches for a Block the replica does not hold, for any
\* window, loss, restart or cancelled step.
THEOREM VectorHasNoHole == ToolkitSpec => []NoHole
  BY CatchupInvariant, CatchupInvImplies, PTL

\* record_stored and the caller's events: while no deadline covers the processing, a consumer at
\* its wait has reported each Block it stored, once.
THEOREM StoredIsReported == ToolkitSpec => []EventsReported
  BY CatchupInvariant, CatchupInvImplies, PTL

\* watch: a stall is called only after more than StallTicks samples of silence, however acks and samples
\* interleave.
THEOREM StalledWasSilent == ToolkitSpec => []StallIsSilence
  BY CatchupInvariant, CatchupInvImplies, PTL

-----------------------------------------------------------------------------
(* The flow's invariant.                                                   *)

FetchTask == [i : Nat, at : {"out", "got", "over"}, version : Int]

FlowTypes ==
    /\ flow \in Flows /\ clock \in Nat /\ halted \in BOOLEAN
    /\ loop \in [at : {"test", "acquire", "pause", "ended"}, i : Nat]
    /\ idle \in Nat
    /\ fetches \in SUBSET FetchTask /\ IsFiniteSet(fetches)
    /\ stats \in [sent : Nat, received : Nat, lost : Nat]
    /\ track \in [last : Nat, repeats : Nat]
    /\ minted \in SUBSET (Nat \ {0}) /\ IsFiniteSet(minted)
    /\ reader \in [at : {"away", "between"}, repeats : Nat, received : Nat]
    /\ asked \in [Requests -> Nat]

\* No two tasks fetch the same name.
TasksApart(F) == \A f, g \in F : f.i = g.i => f = g

One(a, b) == IF a = b THEN 1 ELSE 0

InStage(F, where) == {f \in F : f.at = where}

\* The loop counts up, each index is expressed when it is passed, and each task is of an index passed.
LoopCounts ==
    /\ \A i \in 0..loop.i - 1 : i \in Requests
    /\ loop.at = "acquire" => loop.i \in Requests
    /\ \A i \in Requests : IF i < loop.i THEN asked[i] <= 1 /\ (~flow.open => asked[i] = 1) ELSE asked[i] = 0
    /\ TasksApart(fetches) /\ \A f \in fetches : f.i < loop.i

PoolCounts ==
    /\ stats.sent = stats.received + stats.lost + Cardinality(InStage(fetches, "out"))
    /\ idle + Cardinality(fetches) = flow.window

UpTo(n) == {v \in minted : v <= n}

\* Each reply is a repeat, or advanced the track to a version minted, or is still to be noted.
VersionsCount ==
    flow.versioned =>
        /\ \E m \in {0} \cup minted : \A v \in minted : v <= m
        /\ \A f \in InStage(fetches, "got") : f.version \in minted
        /\ track.last \in {0} \cup minted
        /\ track.repeats + Cardinality(InStage(fetches, "got")) <= stats.received
        /\ stats.received <= track.repeats + Cardinality(InStage(fetches, "got"))
                                + Cardinality(UpTo(track.last))

\* What the reader saw of repeats, it saw before it saw the replies.
SnapCounts ==
    flow.versioned =>
        /\ reader.repeats <= stats.received
        /\ reader.at = "away" => reader.repeats <= reader.received

FlowInv == FlowTypes /\ LoopCounts /\ PoolCounts /\ VersionsCount /\ SnapCounts

-----------------------------------------------------------------------------
(* Sets of tasks.                                                          *)

LEMMA StagesFinite ==
  ASSUME NEW F, IsFiniteSet(F), NEW where
  PROVE  IsFiniteSet(InStage(F, where)) /\ Cardinality(InStage(F, where)) \in Nat
  <1>1. InStage(F, where) \in SUBSET F
    BY DEF InStage
  <1>2. IsFiniteSet(InStage(F, where))
    BY <1>1, FS_Subset
  <1> QED BY <1>2, FS_CardinalityType

\* A task joins.
LEMMA TaskJoins ==
  ASSUME NEW F, F \in SUBSET FetchTask, IsFiniteSet(F), TasksApart(F), NEW g \in FetchTask,
         \A f \in F : f.i # g.i
  PROVE  /\ IsFiniteSet(F \cup {g}) /\ Cardinality(F \cup {g}) = Cardinality(F) + 1
         /\ TasksApart(F \cup {g})
         /\ \A where : Cardinality(InStage(F \cup {g}, where))
                         = Cardinality(InStage(F, where)) + One(where, g.at)
  <1>1. g \notin F
    OBVIOUS
  <1>2. IsFiniteSet(F \cup {g}) /\ Cardinality(F \cup {g}) = Cardinality(F) + 1
    BY <1>1, FS_AddElement
  <1>3. TasksApart(F \cup {g})
    BY DEF TasksApart
  <1>4. ASSUME NEW where
        PROVE  Cardinality(InStage(F \cup {g}, where))
                 = Cardinality(InStage(F, where)) + One(where, g.at)
    <2>1. IsFiniteSet(InStage(F, where)) /\ Cardinality(InStage(F, where)) \in Nat
      BY StagesFinite
    <2>2. CASE where = g.at
      <3>1. InStage(F \cup {g}, where) = InStage(F, where) \cup {g}
        BY <2>2 DEF InStage
      <3>2. g \notin InStage(F, where)
        BY <1>1 DEF InStage
      <3>3. Cardinality(InStage(F, where) \cup {g}) = Cardinality(InStage(F, where)) + 1
        BY <2>1, <3>2, FS_AddElement
      <3> QED BY <2>2, <3>1, <3>3 DEF One
    <2>3. CASE where # g.at
      <3>1. InStage(F \cup {g}, where) = InStage(F, where)
        BY <2>3 DEF InStage
      <3> QED BY <2>1, <2>3, <3>1 DEF One
    <2> QED BY <2>2, <2>3
  <1> QED BY <1>2, <1>3, <1>4

\* A task leaves.
LEMMA TaskLeaves ==
  ASSUME NEW F, F \in SUBSET FetchTask, IsFiniteSet(F), TasksApart(F), NEW f \in F
  PROVE  /\ IsFiniteSet(F \ {f}) /\ Cardinality(F \ {f}) = Cardinality(F) - 1
         /\ TasksApart(F \ {f})
         /\ \A where : Cardinality(InStage(F \ {f}, where))
                         = Cardinality(InStage(F, where)) - One(where, f.at)
  <1>1. IsFiniteSet(F \ {f}) /\ Cardinality(F \ {f}) = Cardinality(F) - 1
    BY FS_RemoveElement
  <1>2. TasksApart(F \ {f})
    BY DEF TasksApart
  <1>3. ASSUME NEW where
        PROVE  Cardinality(InStage(F \ {f}, where))
                 = Cardinality(InStage(F, where)) - One(where, f.at)
    <2>1. IsFiniteSet(InStage(F, where)) /\ Cardinality(InStage(F, where)) \in Nat
      BY StagesFinite
    <2>2. CASE where = f.at
      <3>1. InStage(F \ {f}, where) = InStage(F, where) \ {f} /\ f \in InStage(F, where)
        BY <2>2 DEF InStage
      <3>2. Cardinality(InStage(F, where) \ {f}) = Cardinality(InStage(F, where)) - 1
        BY <2>1, <3>1, FS_RemoveElement
      <3> QED BY <2>2, <3>1, <3>2 DEF One
    <2>3. CASE where # f.at
      <3>1. InStage(F \ {f}, where) = InStage(F, where)
        BY <2>3 DEF InStage
      <3> QED BY <2>1, <2>3, <3>1 DEF One
    <2> QED BY <2>2, <2>3
  <1> QED BY <1>1, <1>2, <1>3

\* A task goes on.
\* G is F with a task f gone on as g.
GoneOn(F, G, f, g) ==
    /\ IsFiniteSet(G) /\ Cardinality(G) = Cardinality(F) /\ TasksApart(G)
    /\ \A where : Cardinality(InStage(G, where))
                      = Cardinality(InStage(F, where)) - One(where, f.at) + One(where, g.at)

LEMMA TaskGoesOn ==
  ASSUME NEW F, F \in SUBSET FetchTask, IsFiniteSet(F), TasksApart(F), NEW f \in F, NEW g \in FetchTask,
         g.i = f.i, NEW G, G = (F \ {f}) \cup {g}
  PROVE  GoneOn(F, G, f, g)
  <1> DEFINE E == F \ {f}
  <1>1. /\ IsFiniteSet(E) /\ Cardinality(E) = Cardinality(F) - 1 /\ TasksApart(E)
        /\ \A where : Cardinality(InStage(E, where))
                         = Cardinality(InStage(F, where)) - One(where, f.at)
    BY TaskLeaves
  <1>2. E \in SUBSET FetchTask /\ \A e \in E : e.i # g.i
    BY DEF TasksApart
  <1>3. Cardinality(F) \in Nat /\ \A where : Cardinality(InStage(F, where)) \in Nat
    BY FS_CardinalityType, StagesFinite
  <1> HIDE DEF E
  <1>4. /\ IsFiniteSet(E \cup {g}) /\ Cardinality(E \cup {g}) = Cardinality(E) + 1
        /\ TasksApart(E \cup {g})
        /\ \A where : Cardinality(InStage(E \cup {g}, where))
                         = Cardinality(InStage(E, where)) + One(where, g.at)
    BY <1>1, <1>2, TaskJoins
  <1>5. E \cup {g} = G
    BY DEF E
  <1>6. ASSUME NEW where
        PROVE  Cardinality(InStage(G, where))
                 = Cardinality(InStage(F, where)) - One(where, f.at)
                      + One(where, g.at)
    <2>1. Cardinality(InStage(G, where)) = Cardinality(InStage(E, where)) + One(where, g.at)
      BY <1>4, <1>5
    <2>2. Cardinality(InStage(E, where)) = Cardinality(InStage(F, where)) - One(where, f.at)
      BY <1>1
    <2> QED BY <1>3, <2>1, <2>2
  <1>7. IsFiniteSet(G) /\ TasksApart(G)
    BY <1>4, <1>5
  <1>8. Cardinality(G) = Cardinality(F)
    <2>1. Cardinality(G) = Cardinality(E) + 1 /\ Cardinality(E) = Cardinality(F) - 1
      BY <1>1, <1>4, <1>5
    <2>2. Cardinality(F) \in Nat
      BY <1>3
    <2> QED BY <2>1, <2>2
  <1> QED BY <1>6, <1>7, <1>8 DEF GoneOn
-----------------------------------------------------------------------------
(* The flow's steps.                                                       *)

LEMMA FlowInvInit == FlowInit => FlowInv
  <1> SUFFICES ASSUME FlowInit PROVE FlowInv
    OBVIOUS
  <1>1. IsFiniteSet({}) /\ Cardinality({}) = 0
    BY FS_EmptySet, Zenon
  <1>2. flow.window \in Nat /\ flow.count \in Nat
    BY FlowAssumption DEF FlowInit
  <1>3. FlowTypes
    BY <1>1, <1>2 DEF FlowInit, FlowTypes
  <1>4. LoopCounts
    BY DEF FlowInit, LoopCounts, TasksApart, Requests
  <1>5. InStage(fetches, "out") = {} /\ InStage(fetches, "got") = {} /\ UpTo(0) = {} /\ fetches = {}
    BY DEF FlowInit, InStage, UpTo
  <1>6. PoolCounts
    BY <1>1, <1>2, <1>5 DEF FlowInit, PoolCounts
  <1>7. VersionsCount
    BY <1>1, <1>5 DEF FlowInit, VersionsCount
  <1> QED BY <1>3, <1>4, <1>6, <1>7 DEF FlowInv, FlowInit, SnapCounts

\* The counts are numbers.
LEMMA CountsAreNat ==
  ASSUME FlowTypes
  PROVE  /\ Cardinality(fetches) \in Nat
         /\ \A where : Cardinality(InStage(fetches, where)) \in Nat
         /\ \A n : IsFiniteSet(UpTo(n)) /\ Cardinality(UpTo(n)) \in Nat
         /\ flow.window \in Nat
  <1>1. \A n : UpTo(n) \in SUBSET minted
    BY DEF UpTo
  <1>2. \A n : IsFiniteSet(UpTo(n))
    BY <1>1, FS_Subset DEF FlowTypes
  <1> QED BY <1>2, FS_CardinalityType, StagesFinite, FlowAssumption DEF FlowTypes

LEMMA TestKeeps == ASSUME FlowInv, Test PROVE FlowInv'
  <1>1. UNCHANGED <<flow, clock, halted, idle, fetches, stats, track, minted, reader, asked>>
    BY DEF Test
  <1>2. /\ loop' = [loop EXCEPT !.at = "ended"] \/ loop' = [loop EXCEPT !.at = "acquire"]
        /\ loop' = [loop EXCEPT !.at = "acquire"] => ~halted /\ ~(flow.count # 0 /\ loop.i >= flow.count)
    <2>1. loop' = [loop EXCEPT !.at =
            IF halted \/ (flow.count # 0 /\ loop.i >= flow.count) THEN "ended" ELSE "acquire"]
      BY DEF Test
    <2> QED BY <2>1 DEF FlowInv, FlowTypes
  <1>3. loop' \in [at : {"test", "acquire", "pause", "ended"}, i : Nat] /\ loop'.i = loop.i
    BY <1>2 DEF FlowInv, FlowTypes
  <1>4. FlowTypes'
    BY <1>1, <1>3 DEF FlowInv, FlowTypes, Requests
  <1>5. loop'.at = "acquire" => loop'.i \in Requests
    <2> SUFFICES ASSUME loop'.at = "acquire" PROVE loop.i \in Requests
      BY <1>3
    <2>1. loop' = [loop EXCEPT !.at = "acquire"]
      BY <1>2
    <2>2. ~halted /\ ~(flow.count # 0 /\ loop.i >= flow.count)
      BY <1>2, <2>1
    <2>3. flow.count \in Nat /\ loop.i \in Nat /\ MaxRequests \in Nat
      BY FlowAssumption DEF FlowInv, FlowTypes
    <2>4. flow.count = 0 => loop.i < MaxRequests
      BY <2>2 DEF Test
    <2> QED BY <2>2, <2>3, <2>4 DEF Requests
  <1>6. LoopCounts'
    BY <1>1, <1>3, <1>5 DEF FlowInv, LoopCounts, Requests
  <1> QED BY <1>1, <1>4, <1>6 DEF FlowInv, PoolCounts, VersionsCount, UpTo, SnapCounts

\* The loop passes an index: it is in the flow's names, and past it is the next.
LEMMA PassedIndex ==
  ASSUME FlowInv, loop.at = "acquire"
  PROVE  /\ loop.i \in Nat /\ loop.i \in Requests /\ loop.i + 1 \in Nat
         /\ \A i \in 0..loop.i : i \in Requests
         /\ \A i \in Requests : i \in Nat
  BY DEF FlowInv, FlowTypes, LoopCounts, Requests

LEMMA IssueKeeps == ASSUME FlowInv, Issue PROVE FlowInv'
  <1> DEFINE i == loop.i
             g == [i |-> loop.i, at |-> "out", version |-> 0]
  <1>1. /\ idle > 0 /\ idle' = idle - 1 /\ stats' = [stats EXCEPT !.sent = @ + 1]
        /\ fetches' = fetches \cup {g}
        /\ asked' = [asked EXCEPT ![i] = @ + 1] /\ loop' = [at |-> "pause", i |-> i + 1]
        /\ UNCHANGED <<flow, clock, halted, track, minted, reader>>
    BY DEF Issue
  <1>2. /\ i \in Nat /\ i \in Requests /\ \A j \in 0..i : j \in Requests
        /\ \A j \in Requests : j \in Nat
    BY PassedIndex DEF Issue
  <1>3. g \in FetchTask /\ \A f \in fetches : f.i # g.i
    BY <1>2 DEF FlowInv, FlowTypes, LoopCounts, FetchTask
  <1>4. /\ IsFiniteSet(fetches') /\ Cardinality(fetches') = Cardinality(fetches) + 1
        /\ TasksApart(fetches')
        /\ \A where : Cardinality(InStage(fetches', where))
                        = Cardinality(InStage(fetches, where)) + One(where, g.at)
    <2>1. fetches \in SUBSET FetchTask /\ IsFiniteSet(fetches) /\ TasksApart(fetches)
      BY DEF FlowInv, FlowTypes, LoopCounts
    <2> HIDE DEF g
    <2>2. /\ IsFiniteSet(fetches \cup {g}) /\ Cardinality(fetches \cup {g}) = Cardinality(fetches) + 1
          /\ TasksApart(fetches \cup {g})
          /\ \A where : Cardinality(InStage(fetches \cup {g}, where))
                          = Cardinality(InStage(fetches, where)) + One(where, g.at)
      BY <1>3, <2>1, TaskJoins
    <2> QED BY <1>1, <2>2
  <1>5. /\ Cardinality(InStage(fetches', "out")) = Cardinality(InStage(fetches, "out")) + 1
        /\ Cardinality(InStage(fetches', "got")) = Cardinality(InStage(fetches, "got"))
        /\ InStage(fetches', "got") = InStage(fetches, "got")
    <2>1. g.at = "out"
      OBVIOUS
    <2> HIDE DEF g
    <2> QED BY <1>1, <1>4, <2>1, CountsAreNat DEF FlowInv, InStage, One
  <1>6. asked[i] = 0
    BY <1>2 DEF FlowInv, LoopCounts
  <1>7. FlowTypes'
    <2>1. stats' \in [sent : Nat, received : Nat, lost : Nat] /\ idle' \in Nat
      BY <1>1 DEF FlowInv, FlowTypes
    <2>2. loop' \in [at : {"test", "acquire", "pause", "ended"}, i : Nat]
      BY <1>1, <1>2
    <2>3. asked' \in [Requests' -> Nat]
      BY <1>1, <1>2 DEF FlowInv, FlowTypes, Requests
    <2>4. fetches' \in SUBSET FetchTask
      BY <1>1, <1>3 DEF FlowInv, FlowTypes
    <2> HIDE DEF g, i
    <2> QED BY <1>1, <1>4, <2>1, <2>2, <2>3, <2>4 DEF FlowInv, FlowTypes
  <1>8. LoopCounts'
    <2>1. loop'.i = i + 1 /\ loop'.at = "pause"
      BY <1>1
    <2>2. \A j \in 0..loop'.i - 1 : j \in Requests'
      BY <1>1, <1>2, <2>1 DEF Requests
    <2>3. ASSUME NEW j \in Requests'
          PROVE  IF j < loop'.i THEN asked'[j] <= 1 /\ (~flow'.open => asked'[j] = 1) ELSE asked'[j] = 0
      <3>1. j \in Requests /\ j \in Nat /\ flow' = flow
        BY <1>1, <1>2 DEF Requests
      <3>2. asked \in [Requests -> Nat]
        BY DEF FlowInv, FlowTypes
      <3>3. IF j < i THEN asked[j] <= 1 /\ (~flow.open => asked[j] = 1) ELSE asked[j] = 0
        BY <3>1 DEF FlowInv, LoopCounts
      <3>4. CASE j = i
        <4>1. asked'[j] = 1
          BY <1>1, <1>6, <3>1, <3>2, <3>4
        <4> QED BY <1>2, <2>1, <3>4, <4>1
      <3>5. CASE j # i
        <4>1. asked'[j] = asked[j]
          BY <1>1, <3>1, <3>2, <3>5
        <4>2. j < i + 1 <=> j < i
          BY <1>2, <3>1, <3>5
        <4> QED BY <2>1, <3>1, <3>3, <4>1, <4>2
      <3> QED BY <3>4, <3>5
    <2>4. ASSUME NEW f \in fetches' PROVE f.i < loop'.i
      <3>1. f \in fetches \/ f = g
        BY <1>1
      <3>2. f \in fetches => f.i < i /\ f.i \in Nat
        BY DEF FlowInv, LoopCounts, FlowTypes, FetchTask
      <3> QED BY <1>2, <2>1, <3>1, <3>2
    <2> QED BY <1>4, <2>1, <2>2, <2>3, <2>4 DEF LoopCounts
  <1>9. PoolCounts'
    BY <1>1, <1>4, <1>5, CountsAreNat DEF FlowInv, FlowTypes, PoolCounts
  <1>10. VersionsCount' /\ SnapCounts'
    <2>1. stats'.received = stats.received
      BY <1>1 DEF FlowInv, FlowTypes
    <2> HIDE DEF g
    <2> QED BY <1>1, <1>5, <2>1 DEF FlowInv, VersionsCount, SnapCounts, UpTo
  <1> QED BY <1>7, <1>8, <1>9, <1>10 DEF FlowInv

LEMMA DropKeeps == ASSUME FlowInv, Drop PROVE FlowInv'
  <1>1. /\ stats' = [stats EXCEPT !.sent = @ + 1, !.lost = @ + 1]
        /\ loop' = [at |-> "pause", i |-> loop.i + 1] /\ flow.open
        /\ UNCHANGED <<flow, clock, halted, idle, fetches, track, minted, reader, asked>>
    BY DEF Drop, Drops
  <1>2. /\ loop.i \in Nat /\ \A j \in 0..loop.i : j \in Requests
        /\ \A j \in Requests : j \in Nat
    BY PassedIndex DEF Drop
  <1>3. FlowTypes'
    <2>1. stats' \in [sent : Nat, received : Nat, lost : Nat]
      <3>1. stats \in [sent : Nat, received : Nat, lost : Nat]
        BY DEF FlowInv, FlowTypes
      <3>2. stats' = [stats EXCEPT !.sent = stats.sent + 1, !.lost = stats.lost + 1]
        BY <1>1
      <3>3. stats.sent + 1 \in Nat /\ stats.lost + 1 \in Nat
        BY <3>1
      <3> QED BY <3>1, <3>2, <3>3
    <2>2. loop' \in [at : {"test", "acquire", "pause", "ended"}, i : Nat]
      BY <1>1, <1>2
    <2>3. asked' \in [Requests' -> Nat]
      BY <1>1 DEF FlowInv, FlowTypes, Requests
    <2> QED BY <1>1, <2>1, <2>2, <2>3 DEF FlowInv, FlowTypes
  <1>4. LoopCounts'
    <2>1. loop'.i = loop.i + 1 /\ loop'.at = "pause"
      BY <1>1
    <2>2. \A j \in 0..loop'.i - 1 : j \in Requests'
      BY <1>1, <1>2, <2>1 DEF Requests
    <2>3. ASSUME NEW j \in Requests'
          PROVE  IF j < loop'.i THEN asked'[j] <= 1 /\ (~flow'.open => asked'[j] = 1) ELSE asked'[j] = 0
      <3>1. j \in Requests /\ j \in Nat /\ flow' = flow /\ asked' = asked
        BY <1>1, <1>2 DEF Requests
      <3>2. IF j < loop.i THEN asked[j] <= 1 /\ (~flow.open => asked[j] = 1) ELSE asked[j] = 0
        BY <3>1 DEF FlowInv, LoopCounts
      <3> QED BY <1>1, <1>2, <2>1, <3>1, <3>2
    <2>4. \A f \in fetches : f.i < loop.i /\ f.i \in Nat
      BY DEF FlowInv, LoopCounts, FlowTypes, FetchTask
    <2>5. \A f \in fetches' : f.i < loop'.i
      BY <1>1, <1>2, <2>1, <2>4
    <2>6. TasksApart(fetches')
      BY <1>1 DEF FlowInv, LoopCounts
    <2> QED BY <2>1, <2>2, <2>3, <2>5, <2>6 DEF LoopCounts
  <1>5. PoolCounts'
    BY <1>1, CountsAreNat DEF FlowInv, FlowTypes, PoolCounts
  <1>6. stats'.received = stats.received
    BY <1>1 DEF FlowInv, FlowTypes
  <1> QED BY <1>1, <1>3, <1>4, <1>5, <1>6 DEF FlowInv, VersionsCount, UpTo, SnapCounts
\* Types of the set of tasks, and of one of them.
LEMMA TasksTyped ==
  ASSUME FlowInv
  PROVE  /\ fetches \in SUBSET FetchTask /\ IsFiniteSet(fetches) /\ TasksApart(fetches)
         /\ stats \in [sent : Nat, received : Nat, lost : Nat]
         /\ track \in [last : Nat, repeats : Nat]
  BY DEF FlowInv, FlowTypes, LoopCounts

\* What a step of a task leaves of the loop's counting.
LEMMA LoopUndisturbed ==
  ASSUME LoopCounts, UNCHANGED <<flow, loop, asked>>, TasksApart(fetches'),
         \A g \in fetches' : \E f \in fetches : g.i = f.i
  PROVE  LoopCounts'
  BY DEF LoopCounts, Requests

LEMMA FetchGoesOn ==
  ASSUME FlowInv, NEW f \in fetches, NEW g \in FetchTask, g.i = f.i,
         fetches' = (fetches \ {f}) \cup {g}
  PROVE  GoneOn(fetches, fetches', f, g)
  <1>1. PICK F, G : F = fetches /\ G = fetches'
    OBVIOUS
  <1>2. F \in SUBSET FetchTask /\ IsFiniteSet(F) /\ TasksApart(F) /\ f \in F /\ G = (F \ {f}) \cup {g}
    BY <1>1, TasksTyped
  <1>3. GoneOn(F, G, f, g)
    BY <1>2, TaskGoesOn
  <1> QED BY <1>1, <1>3

LEMMA ReplyKeeps == ASSUME FlowInv, NEW f \in fetches, Reply(f) PROVE FlowInv'
  <1>1. PICK v \in Answers : fetches' = (fetches \ {f}) \cup {[f EXCEPT !.at = "got", !.version = v]}
    BY DEF Reply
  <1>2. /\ f.at = "out" /\ stats' = [stats EXCEPT !.received = @ + 1]
        /\ UNCHANGED <<flow, clock, halted, loop, idle, track, minted, reader, asked>>
    BY DEF Reply
  <1>3. f \in FetchTask /\ v \in Int /\ (flow.versioned => v \in minted)
    BY DEF FlowInv, FlowTypes, Answers
  <1>4. PICK g \in FetchTask : /\ g = [f EXCEPT !.at = "got", !.version = v]
                               /\ g.i = f.i /\ g.at = "got" /\ g.version = v
    <2>1. PICK g : g = [f EXCEPT !.at = "got", !.version = v]
      OBVIOUS
    <2>2. g \in FetchTask /\ g.i = f.i /\ g.at = "got" /\ g.version = v
      BY <1>3, <2>1 DEF FetchTask
    <2> QED BY <2>1, <2>2
  <1>5. fetches' = (fetches \ {f}) \cup {g}
    BY <1>1, <1>4
  <1>6. /\ IsFiniteSet(fetches') /\ Cardinality(fetches') = Cardinality(fetches) /\ TasksApart(fetches')
        /\ \A where : Cardinality(InStage(fetches', where))
                        = Cardinality(InStage(fetches, where)) - One(where, f.at)
                             + One(where, g.at)
    BY <1>4, <1>5, FetchGoesOn DEF GoneOn
  <1>7. /\ Cardinality(InStage(fetches', "out")) = Cardinality(InStage(fetches, "out")) - 1
        /\ Cardinality(InStage(fetches', "got")) = Cardinality(InStage(fetches, "got")) + 1
    BY <1>2, <1>4, <1>6, CountsAreNat DEF FlowInv, One
  <1>8. stats' \in [sent : Nat, received : Nat, lost : Nat] /\ stats'.received = stats.received + 1
        /\ stats'.sent = stats.sent /\ stats'.lost = stats.lost
    BY <1>2, TasksTyped
  <1>9. FlowTypes'
    BY <1>2, <1>4, <1>5, <1>6, <1>8 DEF FlowInv, FlowTypes, Requests
  <1>10. LoopCounts'
    BY <1>2, <1>4, <1>5, <1>6, LoopUndisturbed DEF FlowInv
  <1>11. PoolCounts'
    BY <1>2, <1>6, <1>7, <1>8, TasksTyped, CountsAreNat DEF FlowInv, PoolCounts
  <1>12. VersionsCount'
    <2>1. \A h \in InStage(fetches', "got") : h = g \/ h \in InStage(fetches, "got")
      BY <1>5 DEF InStage
    <2>2. UpTo(track.last)' = UpTo(track.last)
      BY <1>2 DEF UpTo
    <2>3. /\ Cardinality(InStage(fetches, "got")) \in Nat /\ stats.received \in Nat
          /\ track.repeats \in Nat /\ Cardinality(UpTo(track.last)) \in Nat
      BY CountsAreNat, TasksTyped DEF FlowInv
    <2>4. flow.versioned =>
             /\ track.repeats + Cardinality(InStage(fetches', "got")) <= stats'.received
             /\ stats'.received <= track.repeats + Cardinality(InStage(fetches', "got"))
                                     + Cardinality(UpTo(track.last))
      BY <1>7, <1>8, <2>3 DEF FlowInv, VersionsCount
    <2>5. flow.versioned => \A h \in InStage(fetches', "got") : h.version \in minted
      BY <1>3, <1>4, <2>1 DEF FlowInv, VersionsCount
    <2> QED BY <1>2, <2>2, <2>4, <2>5 DEF FlowInv, VersionsCount
  <1>13. SnapCounts'
    BY <1>2, <1>8, TasksTyped DEF FlowInv, FlowTypes, SnapCounts
  <1> QED BY <1>9, <1>10, <1>11, <1>12, <1>13 DEF FlowInv

LEMMA FailKeeps == ASSUME FlowInv, NEW f \in fetches, Fail(f) PROVE FlowInv'
  <1>2. /\ f.at = "out" /\ stats' = [stats EXCEPT !.lost = @ + 1]
        /\ fetches' = (fetches \ {f}) \cup {[f EXCEPT !.at = "over", !.version = -1]}
        /\ UNCHANGED <<flow, clock, halted, loop, idle, track, minted, reader, asked>>
    BY DEF Fail
  <1>3. f \in FetchTask
    BY DEF FlowInv, FlowTypes
  <1>4. PICK g \in FetchTask : /\ g = [f EXCEPT !.at = "over", !.version = -1]
                               /\ g.i = f.i /\ g.at = "over"
    <2>1. PICK v \in Int : v = -1
      OBVIOUS
    <2>2. PICK g : g = [f EXCEPT !.at = "over", !.version = v]
      OBVIOUS
    <2>3. g \in FetchTask /\ g.i = f.i /\ g.at = "over"
      BY <1>3, <2>2 DEF FetchTask
    <2> QED BY <2>1, <2>2, <2>3
  <1>5. fetches' = (fetches \ {f}) \cup {g}
    BY <1>2, <1>4
  <1>6. /\ IsFiniteSet(fetches') /\ Cardinality(fetches') = Cardinality(fetches) /\ TasksApart(fetches')
        /\ \A where : Cardinality(InStage(fetches', where))
                        = Cardinality(InStage(fetches, where)) - One(where, f.at)
                             + One(where, g.at)
    BY <1>4, <1>5, FetchGoesOn DEF GoneOn
  <1>7. /\ Cardinality(InStage(fetches', "out")) = Cardinality(InStage(fetches, "out")) - 1
        /\ Cardinality(InStage(fetches', "got")) = Cardinality(InStage(fetches, "got"))
    <2>1. Cardinality(InStage(fetches, "out")) \in Nat /\ Cardinality(InStage(fetches, "got")) \in Nat
      BY CountsAreNat DEF FlowInv
    <2>2. Cardinality(InStage(fetches', "out")) = Cardinality(InStage(fetches, "out")) - 1 + 0
      BY <1>2, <1>4, <1>6 DEF One
    <2>3. Cardinality(InStage(fetches', "got")) = Cardinality(InStage(fetches, "got")) - 0 + 0
      BY <1>2, <1>4, <1>6 DEF One
    <2> QED BY <2>1, <2>2, <2>3
  <1>8. stats' \in [sent : Nat, received : Nat, lost : Nat] /\ stats'.lost = stats.lost + 1
        /\ stats'.sent = stats.sent /\ stats'.received = stats.received
    BY <1>2, TasksTyped
  <1>9. FlowTypes'
    BY <1>2, <1>4, <1>5, <1>6, <1>8 DEF FlowInv, FlowTypes, Requests
  <1>10. LoopCounts'
    BY <1>2, <1>4, <1>5, <1>6, LoopUndisturbed DEF FlowInv
  <1>11. PoolCounts'
    BY <1>2, <1>6, <1>7, <1>8, TasksTyped, CountsAreNat DEF FlowInv, PoolCounts
  <1>12. VersionsCount'
    <2>1. \A h \in InStage(fetches', "got") : h \in InStage(fetches, "got")
      BY <1>4, <1>5 DEF InStage
    <2>2. UpTo(track.last)' = UpTo(track.last)
      BY <1>2 DEF UpTo
    <2> QED BY <1>2, <1>7, <1>8, <2>1, <2>2 DEF FlowInv, VersionsCount
  <1>13. SnapCounts'
    BY <1>2, <1>8 DEF FlowInv, SnapCounts
  <1> QED BY <1>9, <1>10, <1>11, <1>12, <1>13 DEF FlowInv

LEMMA ReturnKeeps == ASSUME FlowInv, NEW f \in fetches, Return(f) PROVE FlowInv'
  <1>1. /\ f.at = "over" /\ fetches' = fetches \ {f} /\ idle' = idle + 1
        /\ UNCHANGED <<flow, clock, halted, loop, stats, track, minted, reader, asked>>
    BY DEF Return, Returns
  <1>2. /\ IsFiniteSet(fetches') /\ Cardinality(fetches') = Cardinality(fetches) - 1 /\ TasksApart(fetches')
        /\ \A where : Cardinality(InStage(fetches', where))
                        = Cardinality(InStage(fetches, where)) - One(where, f.at)
    BY <1>1, TasksTyped, TaskLeaves
  <1>3. /\ Cardinality(InStage(fetches', "out")) = Cardinality(InStage(fetches, "out"))
        /\ Cardinality(InStage(fetches', "got")) = Cardinality(InStage(fetches, "got"))
    <2>1. Cardinality(InStage(fetches, "out")) \in Nat /\ Cardinality(InStage(fetches, "got")) \in Nat
      BY CountsAreNat DEF FlowInv
    <2>2. Cardinality(InStage(fetches', "out")) = Cardinality(InStage(fetches, "out")) - 0
      BY <1>1, <1>2 DEF One
    <2>3. Cardinality(InStage(fetches', "got")) = Cardinality(InStage(fetches, "got")) - 0
      BY <1>1, <1>2 DEF One
    <2> QED BY <2>1, <2>2, <2>3
  <1>4. FlowTypes'
    BY <1>1, <1>2 DEF FlowInv, FlowTypes, Requests
  <1>5. LoopCounts'
    BY <1>1, <1>2, LoopUndisturbed DEF FlowInv
  <1>6. PoolCounts'
    <2>1. idle \in Nat /\ Cardinality(fetches) \in Nat /\ idle + Cardinality(fetches) = flow.window
      BY CountsAreNat DEF FlowInv, FlowTypes, PoolCounts
    <2>2. idle' + Cardinality(fetches') = flow.window
      BY <1>1, <1>2, <2>1
    <2> QED BY <1>1, <1>3, <2>2 DEF FlowInv, PoolCounts
  <1>7. VersionsCount'
    <2>1. \A h \in InStage(fetches', "got") : h \in InStage(fetches, "got")
      BY <1>1 DEF InStage
    <2>2. UpTo(track.last)' = UpTo(track.last)
      BY <1>1 DEF UpTo
    <2> QED BY <1>1, <1>3, <2>1, <2>2 DEF FlowInv, VersionsCount
  <1>8. SnapCounts'
    BY <1>1 DEF FlowInv, SnapCounts
  <1> QED BY <1>4, <1>5, <1>6, <1>7, <1>8 DEF FlowInv

\* One version more is at or below a track that advances to one minted.
LEMMA TrackAdvances ==
  ASSUME FlowInv, NEW v \in minted, v > track.last
  PROVE  Cardinality(UpTo(track.last)) + 1 <= Cardinality(UpTo(v))
  <1>1. \A w \in minted : w \in Nat
    BY DEF FlowInv, FlowTypes
  <1>2. track.last \in Nat
    BY TasksTyped
  <1>3. UpTo(track.last) \cup {v} \in SUBSET UpTo(v) /\ v \notin UpTo(track.last)
    BY <1>1, <1>2 DEF UpTo
  <1>4. IsFiniteSet(UpTo(v)) /\ IsFiniteSet(UpTo(track.last))
    BY CountsAreNat DEF FlowInv
  <1>5. Cardinality(UpTo(track.last) \cup {v}) = Cardinality(UpTo(track.last)) + 1
    BY <1>3, <1>4, FS_AddElement
  <1>6. Cardinality(UpTo(track.last) \cup {v}) <= Cardinality(UpTo(v))
    BY <1>3, <1>4, FS_Subset
  <1> QED BY <1>5, <1>6

LEMMA NoteKeeps == ASSUME FlowInv, NEW f \in fetches, NoteVersion(f) PROVE FlowInv'
  <1>1. /\ f.at = "got" /\ track' = IF flow.versioned THEN OnVersion(f.version) ELSE track
        /\ fetches' = (fetches \ {f}) \cup {[f EXCEPT !.at = "over"]}
        /\ UNCHANGED <<flow, clock, halted, loop, idle, stats, minted, reader, asked>>
    BY DEF NoteVersion
  <1>2. f \in FetchTask /\ f \in InStage(fetches, "got")
    BY <1>1 DEF FlowInv, FlowTypes, InStage
  <1>3. PICK g \in FetchTask : g = [f EXCEPT !.at = "over"] /\ g.i = f.i /\ g.at = "over"
    <2>1. PICK g : g = [f EXCEPT !.at = "over"]
      OBVIOUS
    <2>2. g \in FetchTask /\ g.i = f.i /\ g.at = "over"
      BY <1>2, <2>1 DEF FetchTask
    <2> QED BY <2>1, <2>2
  <1>4. fetches' = (fetches \ {f}) \cup {g}
    BY <1>1, <1>3
  <1>5. /\ IsFiniteSet(fetches') /\ Cardinality(fetches') = Cardinality(fetches) /\ TasksApart(fetches')
        /\ \A where : Cardinality(InStage(fetches', where))
                        = Cardinality(InStage(fetches, where)) - One(where, f.at)
                             + One(where, g.at)
    BY <1>3, <1>4, FetchGoesOn DEF GoneOn
  <1>6. /\ Cardinality(InStage(fetches', "out")) = Cardinality(InStage(fetches, "out"))
        /\ Cardinality(InStage(fetches', "got")) = Cardinality(InStage(fetches, "got")) - 1
    BY <1>1, <1>3, <1>5, CountsAreNat DEF FlowInv, One
  <1>7. ASSUME flow.versioned
        PROVE  \/ /\ f.version \in minted /\ f.version \in Nat /\ f.version > track.last
                  /\ track'.last = f.version /\ track'.repeats = track.repeats
                  /\ track' \in [last : Nat, repeats : Nat]
               \/ /\ track'.last = track.last /\ track'.repeats = track.repeats + 1
                  /\ track' \in [last : Nat, repeats : Nat]
    <2>1. f.version \in minted /\ f.version \in Nat
      BY <1>2, <1>7 DEF FlowInv, FlowTypes, VersionsCount
    <2>2. track' = IF Advances(f.version) THEN [track EXCEPT !.last = f.version]
                   ELSE [track EXCEPT !.repeats = @ + 1]
      BY <1>1, <1>7 DEF OnVersion
    <2>3. CASE Advances(f.version)
      BY <2>1, <2>2, <2>3, TasksTyped DEF Advances
    <2>4. CASE ~Advances(f.version)
      BY <2>2, <2>4, TasksTyped
    <2> QED BY <2>3, <2>4
  <1>8. track' \in [last : Nat, repeats : Nat]
    BY <1>1, <1>7, TasksTyped
  <1>9. FlowTypes'
    BY <1>1, <1>3, <1>4, <1>5, <1>8 DEF FlowInv, FlowTypes, Requests
  <1>10. LoopCounts'
    BY <1>1, <1>3, <1>4, <1>5, LoopUndisturbed DEF FlowInv
  <1>11. PoolCounts'
    BY <1>1, <1>5, <1>6 DEF FlowInv, PoolCounts
  <1>12. VersionsCount'
    <2> SUFFICES ASSUME flow.versioned
                 PROVE  /\ \A h \in InStage(fetches', "got") : h.version \in minted
                        /\ track'.last \in {0} \cup minted
                        /\ track'.repeats + Cardinality(InStage(fetches', "got")) <= stats.received
                        /\ stats.received <= track'.repeats + Cardinality(InStage(fetches', "got"))
                                                + Cardinality(UpTo(track'.last))
      <3>1. UpTo(track.last)' = UpTo(track'.last)
        BY <1>1 DEF UpTo
      <3> QED BY <1>1, <3>1 DEF FlowInv, VersionsCount
    <2>1. \A h \in InStage(fetches', "got") : h \in InStage(fetches, "got")
      BY <1>3, <1>4 DEF InStage
    <2>2. /\ \A h \in InStage(fetches, "got") : h.version \in minted
          /\ track.last \in {0} \cup minted
          /\ track.repeats + Cardinality(InStage(fetches, "got")) <= stats.received
          /\ stats.received <= track.repeats + Cardinality(InStage(fetches, "got"))
                                  + Cardinality(UpTo(track.last))
      BY DEF FlowInv, VersionsCount
    <2>3. /\ Cardinality(InStage(fetches, "got")) \in Nat /\ stats.received \in Nat
          /\ track.repeats \in Nat /\ Cardinality(UpTo(track.last)) \in Nat
          /\ Cardinality(UpTo(track'.last)) \in Nat
      BY CountsAreNat, TasksTyped DEF FlowInv
    <2>4. CASE /\ f.version \in minted /\ f.version > track.last
               /\ track'.last = f.version /\ track'.repeats = track.repeats
      <3>1. Cardinality(UpTo(track.last)) + 1 <= Cardinality(UpTo(track'.last))
        BY <2>4, TrackAdvances
      <3> QED BY <1>6, <2>1, <2>2, <2>3, <2>4, <3>1
    <2>5. CASE track'.last = track.last /\ track'.repeats = track.repeats + 1
      BY <1>6, <2>1, <2>2, <2>3, <2>5
    <2> QED BY <1>7, <2>4, <2>5
  <1>13. SnapCounts'
    BY <1>1 DEF FlowInv, SnapCounts
  <1> QED BY <1>9, <1>10, <1>11, <1>12, <1>13 DEF FlowInv

LEMMA MintKeeps == ASSUME FlowInv, Mint PROVE FlowInv'
  <1>1. /\ flow.versioned /\ minted' = minted \cup {NextVersion(clock)}
        /\ UNCHANGED <<flow, clock, halted, loop, idle, fetches, stats, track, reader, asked>>
    BY DEF Mint
  <1>2. PICK m \in {0} \cup minted : \A v \in minted : v <= m
    BY <1>1 DEF FlowInv, VersionsCount
  <1>3. m \in Nat /\ \A v \in minted : v \in Nat
    BY DEF FlowInv, FlowTypes
  <1>4. Latest \in Nat /\ \A v \in minted : v <= Latest
    BY <1>2, <1>3 DEF Latest, Max
  <1>5. PICK n \in Nat : n = NextVersion(clock)
    <2>1. Latest + 1 \in Nat /\ clock \in Nat
      BY <1>4 DEF FlowInv, FlowTypes
    <2> QED BY <2>1, MaxOfTwo DEF NextVersion
  <1>6. n > Latest
    <2>1. Latest + 1 \in Nat /\ clock \in Nat
      BY <1>4 DEF FlowInv, FlowTypes
    <2>2. n = IF clock >= Latest + 1 THEN clock ELSE Latest + 1
      BY <1>5, <2>1, MaxOfTwo DEF NextVersion
    <2> QED BY <1>4, <2>1, <2>2
  <1>7. minted' = minted \cup {n} /\ \A v \in minted : v < n
    BY <1>1, <1>3, <1>4, <1>5, <1>6
  <1>8. IsFiniteSet(minted')
    BY <1>7, FS_AddElement DEF FlowInv, FlowTypes
  <1>9. FlowTypes'
    <2>1. n \in Nat \ {0}
      BY <1>4, <1>6
    <2>2. minted' \in SUBSET (Nat \ {0})
      BY <1>7, <2>1 DEF FlowInv, FlowTypes
    <2> QED BY <1>1, <1>8, <2>2 DEF FlowInv, FlowTypes, Requests
  <1>10. LoopCounts' /\ PoolCounts' /\ SnapCounts'
    BY <1>1 DEF FlowInv, LoopCounts, Requests, PoolCounts, SnapCounts
  <1>11. UpTo(track.last)' = UpTo(track.last)
    <2>1. track.last \in {0} \cup minted /\ track.last \in Nat
      BY <1>1, TasksTyped DEF FlowInv, VersionsCount
    <2>2. ~(n <= track.last)
      BY <1>4, <1>6, <1>7, <2>1
    <2> QED BY <1>1, <1>7, <2>2 DEF UpTo
  <1>12. VersionsCount'
    <2>1. \E k \in {0} \cup minted' : \A v \in minted' : v <= k
      BY <1>3, <1>7
    <2> QED BY <1>1, <1>7, <1>11, <2>1 DEF FlowInv, VersionsCount
  <1> QED BY <1>9, <1>10, <1>12 DEF FlowInv

LEMMA SnapKeeps == ASSUME FlowInv, SnapBegin \/ SnapEnd PROVE FlowInv'
  <1>1. UNCHANGED <<flow, clock, halted, loop, idle, fetches, stats, track, minted, asked>>
    BY DEF SnapBegin, SnapEnd
  <1>2. reader' \in [at : {"away", "between"}, repeats : Nat, received : Nat]
    <2>1. reader \in [at : {"away", "between"}, repeats : Nat, received : Nat]
      BY DEF FlowInv, FlowTypes
    <2> QED BY <2>1, TasksTyped DEF SnapBegin, SnapEnd
  <1>3. FlowTypes'
    BY <1>1, <1>2 DEF FlowInv, FlowTypes, Requests
  <1>4. LoopCounts' /\ PoolCounts' /\ VersionsCount'
    BY <1>1 DEF FlowInv, LoopCounts, Requests, PoolCounts, VersionsCount, UpTo
  <1>5. SnapCounts'
    <2> SUFFICES ASSUME flow.versioned
                 PROVE  /\ reader'.repeats <= stats.received
                        /\ reader'.at = "away" => reader'.repeats <= reader'.received
      BY <1>1 DEF SnapCounts
    <2>1. /\ reader \in [at : {"away", "between"}, repeats : Nat, received : Nat]
          /\ reader.repeats <= stats.received
      BY DEF FlowInv, FlowTypes, SnapCounts
    <2>2. CASE SnapBegin
      <3>1. reader' = [reader EXCEPT !.at = "between", !.repeats = track.repeats]
        BY <2>2 DEF SnapBegin
      <3>2. reader'.at = "between" /\ reader'.repeats = track.repeats
        BY <2>1, <3>1
      <3>3. track.repeats <= stats.received
        <4>1. track.repeats + Cardinality(InStage(fetches, "got")) <= stats.received
          BY DEF FlowInv, VersionsCount
        <4>2. Cardinality(InStage(fetches, "got")) \in Nat
          BY CountsAreNat DEF FlowInv
        <4> QED BY <4>1, <4>2, TasksTyped
      <3> QED BY <3>2, <3>3
    <2>3. CASE SnapEnd
      <3>1. reader' = [reader EXCEPT !.at = "away", !.received = stats.received]
        BY <2>3 DEF SnapEnd
      <3>2. reader'.repeats = reader.repeats /\ reader'.received = stats.received
        BY <2>1, <3>1
      <3> QED BY <2>1, <3>2
    <2> QED BY <2>2, <2>3
  <1> QED BY <1>3, <1>4, <1>5 DEF FlowInv

LEMMA FlowInvNext == FlowInv /\ [FlowNext]_flowVars => FlowInv'
  <1> SUFFICES ASSUME FlowInv, [FlowNext]_flowVars PROVE FlowInv'
    OBVIOUS
  <1>1. ASSUME NEW to \in {"test", "ended"}, loop' = [loop EXCEPT !.at = to],
               UNCHANGED <<flow, clock, halted, idle, fetches, stats, track, minted, reader, asked>>
        PROVE  FlowInv'
    <2>1. loop' \in [at : {"test", "acquire", "pause", "ended"}, i : Nat] /\ loop'.i = loop.i
          /\ loop'.at # "acquire"
      BY <1>1 DEF FlowInv, FlowTypes
    <2>2. FlowTypes'
      BY <1>1, <2>1 DEF FlowInv, FlowTypes, Requests
    <2>3. LoopCounts'
      BY <1>1, <2>1 DEF FlowInv, LoopCounts, Requests
    <2> QED BY <1>1, <2>2, <2>3 DEF FlowInv, PoolCounts, VersionsCount, UpTo, SnapCounts
  <1>2. CASE Pause
    BY <1>1, <1>2 DEF Pause
  <1>3. ASSUME UNCHANGED <<flow, loop, idle, fetches, stats, track, minted, reader, asked>>,
               clock' \in Nat, halted' \in BOOLEAN
        PROVE  FlowInv'
    BY <1>3 DEF FlowInv, FlowTypes, LoopCounts, Requests, PoolCounts, VersionsCount, UpTo, SnapCounts
  <1>4. CASE StopApp \/ SetClock \/ UNCHANGED flowVars
    <2>1. clock \in Nat /\ halted \in BOOLEAN /\ MaxClock \in Nat
      BY FlowAssumption DEF FlowInv, FlowTypes
    <2>2. CASE SetClock
      BY <1>3, <2>1, <2>2 DEF SetClock
    <2>3. CASE StopApp
      BY <1>3, <2>1, <2>3 DEF StopApp
    <2>4. CASE UNCHANGED flowVars
      BY <1>3, <2>1, <2>4 DEF flowVars
    <2> QED BY <1>4, <2>2, <2>3, <2>4
  <1> QED BY <1>2, <1>4, TestKeeps, IssueKeeps, DropKeeps, ReplyKeeps, NoteKeeps, FailKeeps,
             ReturnKeeps, MintKeeps, SnapKeeps DEF FlowNext, LoopNext, TaskNext

\* Tasks apart in their index are as many as the indices.
LEMMA TasksAndIndices ==
  ASSUME NEW F, IsFiniteSet(F), TasksApart(F)
  PROVE  Cardinality(F) = Cardinality({f.i : f \in F})
  <1> DEFINE T == {f.i : f \in F}
             b == [f \in F |-> f.i]
  <1>1. b \in Bijection(F, T)
    BY DEF Bijection, Injection, Surjection, IsInjective, TasksApart
  <1>2. ExistsBijection(F, T)
    BY <1>1 DEF ExistsBijection
  <1> QED BY <1>2, FS_Bijection

LEMMA FlowInvImplies == FlowInv => StatisticsSound
  <1> SUFFICES ASSUME FlowInv PROVE StatisticsSound
    OBVIOUS
  <1>1. /\ InStage(fetches, "out") = {f \in fetches : f.at = "out"}
        /\ InStage(fetches, "got") = {f \in fetches : f.at = "got"}
    BY DEF InStage
  <1>2. \A i \in 0..loop.i - 1 : asked[i] <= 1 /\ (~flow.open => asked[i] = 1)
    <2>1. loop.i \in Nat
      BY DEF FlowInv, FlowTypes
    <2> QED BY <2>1 DEF FlowInv, LoopCounts
  <1>3. RequestsAccounted
    BY <1>1, <1>2, TasksTyped, TasksAndIndices DEF FlowInv, PoolCounts, RequestsAccounted
  <1>4. NewVersionsSound
    <2>1. UpTo(track.last) \in SUBSET minted
      BY DEF UpTo
    <2>2. Cardinality(UpTo(track.last)) <= Cardinality(minted) /\ Cardinality(minted) \in Nat
      BY <2>1, FS_Subset, FS_CardinalityType DEF FlowInv, FlowTypes
    <2>3. /\ Cardinality(InStage(fetches, "got")) \in Nat /\ Cardinality(UpTo(track.last)) \in Nat
          /\ stats.received \in Nat /\ track.repeats \in Nat
      BY CountsAreNat, TasksTyped DEF FlowInv
    <2>4. flow.versioned => stats.received <= track.repeats + Cardinality(InStage(fetches, "got"))
                                                 + Cardinality(UpTo(track.last))
      BY DEF FlowInv, VersionsCount
    <2>5. flow.versioned =>
            stats.received - track.repeats - Cardinality(InStage(fetches, "got")) <= Cardinality(minted)
      BY <2>2, <2>3, <2>4
    <2> QED BY <1>1, <2>5 DEF FlowInv, SnapCounts, NewVersionsSound
  <1> QED BY <1>3, <1>4 DEF StatisticsSound

-----------------------------------------------------------------------------
(* The flow in the toolkit.                                                *)

LEMMA FlowPart == ToolkitSpec => FlowInit /\ [][FlowNext]_flowVars
  <1>1. ToolkitInit => FlowInit
    BY DEF ToolkitInit
  <1>2. [ToolkitNext]_toolkitVars => [FlowNext]_flowVars
    BY DEF ToolkitNext, toolkitVars, flowVars
  <1> QED
    BY <1>1, <1>2, PTL DEF ToolkitSpec

\* The statistics of a flow, for any window, pace, count and order of replies: every request sent is
\* out, answered or lost, the pool never leaks a permit, a name is asked for once, no version counts as
\* new twice once its task has noted it, and a snapshot takes no more repeats than replies.
THEOREM StatisticsAreSound == ToolkitSpec => []StatisticsSound
  BY FlowPart, FlowInvInit, FlowInvNext, FlowInvImplies, PTL

-----------------------------------------------------------------------------
(* The grid: a node within the radius is in a cell within reach.           *)

LEMMA CellBounds ==
  ASSUME NEW x \in Int, NEW c \in Nat \ {0}
  PROVE  /\ x \div c \in Int
         /\ c * (x \div c) <= x
         /\ x < c * (x \div c) + c
  OBVIOUS

LEMMA SquareBounds ==
  ASSUME NEW a \in Int, NEW r \in Nat, a * a <= r * r
  PROVE  a <= r /\ -r <= a
  OBVIOUS

LEMMA CellsWithinReach ==
  ASSUME NEW x \in Int, NEW y \in Int, x - y <= Radius
  PROVE  x \div Cell - y \div Cell <= Reach
  <1> DEFINE i == x \div Cell
             j == y \div Cell
             k == (Radius + Cell - 1) \div Cell
  <1>1. Cell \in Nat \ {0} /\ Radius \in Nat
    BY WorldAssumption
  <1>2. i \in Int /\ Cell * i <= x
    BY <1>1, CellBounds
  <1>3. j \in Int /\ y < Cell * j + Cell
    BY <1>1, CellBounds
  <1>4. k \in Int /\ Radius + Cell - 1 < Cell * k + Cell
    BY <1>1, CellBounds
  <1> HIDE DEF i, j, k
  <1>5. Cell * (i - j - k - 1) < Cell
    BY <1>1, <1>2, <1>3, <1>4
  <1>6. i - j - k - 1 < 1
    BY <1>1, <1>2, <1>3, <1>4, <1>5
  <1> QED BY <1>2, <1>3, <1>4, <1>6 DEF i, j, k, Reach

LEMMA NearIsInReach ==
  ASSUME NEW p \in Int \X Int, NEW q \in Int \X Int, Near(p, q)
  PROVE  \A axis \in 1..2 : Apart(CellOf(p)[axis], CellOf(q)[axis]) <= Reach
  <1> DEFINE a == p[1] - q[1]
             b == p[2] - q[2]
  <1>1. p[1] \in Int /\ p[2] \in Int /\ q[1] \in Int /\ q[2] \in Int /\ Radius \in Nat
    BY WorldAssumption
  <1>2. a \in Int /\ b \in Int /\ a * a + b * b <= Radius * Radius
    BY <1>1 DEF Near
  <1> HIDE DEF a, b
  <1>3. a * a >= 0 /\ b * b >= 0 /\ a * a \in Int /\ b * b \in Int /\ Radius * Radius \in Int
    BY <1>1, <1>2
  <1>4. a * a <= Radius * Radius /\ b * b <= Radius * Radius
    BY <1>2, <1>3
  <1>5. a <= Radius /\ -Radius <= a /\ b <= Radius /\ -Radius <= b
    BY <1>1, <1>2, <1>4, SquareBounds
  <1>6. /\ p[1] - q[1] <= Radius /\ q[1] - p[1] <= Radius
        /\ p[2] - q[2] <= Radius /\ q[2] - p[2] <= Radius
    BY <1>1, <1>5 DEF a, b
  <1>7. /\ p[1] \div Cell - q[1] \div Cell <= Reach /\ q[1] \div Cell - p[1] \div Cell <= Reach
        /\ p[2] \div Cell - q[2] \div Cell <= Reach /\ q[2] \div Cell - p[2] \div Cell <= Reach
    BY <1>1, <1>6, CellsWithinReach
  <1>8. Apart(p[1] \div Cell, q[1] \div Cell) <= Reach /\ Apart(p[2] \div Cell, q[2] \div Cell) <= Reach
    BY <1>7 DEF Apart
  <1>9. /\ CellOf(p)[1] = p[1] \div Cell /\ CellOf(p)[2] = p[2] \div Cell
        /\ CellOf(q)[1] = q[1] \div Cell /\ CellOf(q)[2] = q[2] \div Cell
    BY DEF CellOf
  <1> QED BY <1>8, <1>9

\* The grid hides nobody.
LEMMA GridFindsAll ==
  ASSUME NEW view, \A n \in DOMAIN view : view[n] \in Int \X Int, NEW center \in Int \X Int
  PROVE  WithinRange(view, center) = {n \in DOMAIN view : Near(view[n], center)}
  <1>1. \A n \in DOMAIN view : Near(view[n], center) =>
           \A axis \in 1..2 : Apart(CellOf(view[n])[axis], CellOf(center)[axis]) <= Reach
    BY NearIsInReach
  <1> QED BY <1>1 DEF WithinRange

-----------------------------------------------------------------------------
(* The view.                                                               *)

Place2D == Int \X Int

\* A node that stays, or goes straight from one point to another.
Resting == {<<<<t, p>>>> : t \in Nat, p \in Place2D}
Going == {<<<<t, p>>, <<t + d, q>>>> : t \in Nat, d \in Nat \ {0}, p \in Place2D, q \in Place2D}

LEMMA PositionOfResting ==
  ASSUME NEW m \in Resting, NEW t \in Nat
  PROVE  PositionAt(m, t) \in Place2D
  <1>1. PICK u \in Nat, p \in Place2D : m = <<<<u, p>>>>
    BY DEF Resting
  <1>2. Len(m) = 1 /\ m[1] = <<u, p>> /\ m[1][1] = u /\ m[1][2] = p
    BY <1>1
  <1>3. t <= u \/ t >= u
    OBVIOUS
  <1> QED BY <1>2, <1>3 DEF PositionAt

LEMMA BetweenType ==
  ASSUME NEW p \in Place2D, NEW q \in Place2D, NEW n \in Int, NEW d \in Nat \ {0}
  PROVE  Between(p, q, n, d) \in Place2D
  <1>1. p[1] \in Int /\ p[2] \in Int /\ q[1] \in Int /\ q[2] \in Int
    BY DEF Place2D
  <1>2. (q[1] - p[1]) * n \in Int /\ (q[2] - p[2]) * n \in Int
    BY <1>1
  <1>3. ((q[1] - p[1]) * n) \div d \in Int /\ ((q[2] - p[2]) * n) \div d \in Int
    BY <1>2, CellBounds
  <1> QED BY <1>1, <1>3 DEF Between, Place2D

LEMMA PositionOfGoing ==
  ASSUME NEW m \in Going, NEW t \in Nat
  PROVE  PositionAt(m, t) \in Place2D
  <1>1. PICK u \in Nat, v \in Nat, p \in Place2D, q \in Place2D : u < v /\ m = <<<<u, p>>, <<v, q>>>>
    <2>1. PICK u \in Nat, d \in Nat \ {0}, p \in Place2D, q \in Place2D : m = <<<<u, p>>, <<u + d, q>>>>
      BY DEF Going
    <2>2. u + d \in Nat /\ u < u + d
      OBVIOUS
    <2> QED BY <2>1, <2>2
  <1>2. /\ Len(m) = 2 /\ m[1][1] = u /\ m[1][2] = p /\ m[2][1] = v /\ m[2][2] = q
    BY <1>1
  <1>3. CASE t <= u
    BY <1>2, <1>3 DEF PositionAt
  <1>4. CASE t >= v
    BY <1>1, <1>2, <1>4 DEF PositionAt
  <1>5. CASE u < t /\ t < v
    <2>1. (CHOOSE i \in 2..2 : m[i - 1][1] <= t /\ t < m[i][1]) = 2
      <3>1. \A i \in 2..2 : i = 2
        OBVIOUS
      <3>2. m[2 - 1][1] <= t /\ t < m[2][1]
        BY <1>2, <1>5
      <3> QED BY <3>1, <3>2
    <2>2. PositionAt(m, t) = Between(p, q, t - u, v - u)
      BY <1>1, <1>2, <1>5, <2>1 DEF PositionAt
    <2>3. t - u \in Int /\ v - u \in Nat \ {0}
      BY <1>1
    <2> QED BY <2>2, <2>3, BetweenType
  <1> QED BY <1>3, <1>4, <1>5
-----------------------------------------------------------------------------
(* The world's invariant.                                                  *)

Model == Resting \cup Going
Timed == [node : Body, t : Nat, point : Place2D]
Asked == [at : {"keyed"}, generation : Nat, tick : Nat, clean : BOOLEAN]

\* What is recorded has been placed: the head of the batch.
Driver ==
    {d \in [at : {"poll", "apply", "record", "sleep", "done"}, batch : Seq(Timed), done : BOOLEAN, wake : Nat] :
        d.at = "record" => d.batch # <<>>}

WorldTypes ==
    /\ feed \in Feeds /\ tick \in Nat /\ generation \in Nat
    /\ \A n \in DOMAIN mobility : mobility[n] \in Model
    /\ query \in [feed.readers -> {Idle} \cup Asked]
    /\ toCome \in Seq(Timed) /\ driver \in Driver /\ senderGone \in BOOLEAN

\* An edit under way is in the map, and has its bump before it.
InMapFirst == edit = <<>> \/ edit = <<[map |-> mobility, bump |-> 1]>>

\* No label is of a generation to come, and an untouched query is of the present one.
QueriesLabelled ==
    \A r \in feed.readers :
        query[r].at = "keyed" =>
            /\ query[r].generation <= generation
            /\ query[r].clean => query[r].generation = generation /\ edit = <<>>

\* Unless an edit is under way, a view labelled with the present generation is of the present map.
CacheLabelled ==
    viewCache # NoView =>
        /\ viewCache.tick \in Nat /\ viewCache.generation \in Nat
        /\ viewCache.generation <= generation
        /\ edit = <<>> /\ viewCache.generation = generation =>
              viewCache.view = Snapshot(viewCache.tick)

WorldInv == WorldTypes /\ InMapFirst /\ QueriesLabelled /\ CacheLabelled /\ RangeQuerySound

LEMMA IdleIsNotAsked == Idle.at # "keyed" /\ \A q \in {Idle} \cup Asked : q.at = "keyed" => q \in Asked
  BY DEF Idle, Asked

LEMMA SnapshotType ==
  ASSUME WorldTypes, NEW t \in Nat
  PROVE  DOMAIN Snapshot(t) = DOMAIN mobility /\ \A n \in DOMAIN mobility : Snapshot(t)[n] \in Place2D
  BY PositionOfResting, PositionOfGoing DEF WorldTypes, Model, Snapshot

LEMMA SequenceIsFunction ==
  ASSUME NEW S, NEW q \in Seq(S)
  PROVE  q \in [1..Len(q) -> S]
  OBVIOUS

LEMMA WorldInvInit == WorldInit => WorldInv
  <1> SUFFICES ASSUME WorldInit PROVE WorldInv
    OBVIOUS
  <1>1. feed \in Feeds /\ feed.script \in Seq(Timed)
    BY WorldAssumption DEF WorldInit, Timed, Place2D
  <1>2. PICK n \in Nat : n = Len(feed.script) /\ DOMAIN feed.script = 1..n
    BY <1>1
  <1>3. PICK s \in [1..n -> Timed] : feed.script = s
    BY <1>1, <1>2, SequenceIsFunction
  <1>4. toCome \in Seq(Timed)
    <2>1. PICK p \in [1..n -> 1..n] : toCome = [i \in 1..n |-> s[p[i]]]
      BY <1>3, <1>2 DEF WorldInit, ByTime
    <2>2. toCome \in [1..n -> Timed]
      BY <2>1
    <2> QED BY <1>3, <2>2
  <1>5. driver \in Driver
    BY DEF WorldInit, Driver
  <1>6. DOMAIN mobility = {}
    BY DEF WorldInit
  <1>7. query \in [feed.readers -> {Idle} \cup Asked] /\ \A r \in feed.readers : query[r].at # "keyed"
    BY IdleIsNotAsked DEF WorldInit
  <1> QED BY <1>1, <1>4, <1>5, <1>6, <1>7
          DEF WorldInit, WorldInv, WorldTypes, InMapFirst, QueriesLabelled, CacheLabelled, RangeQuerySound

\* After an edit's first or second half no query under way is clean.
LEMMA DisturbedQueries ==
  ASSUME WorldTypes, query' = Disturbed
  PROVE  /\ query' \in [feed.readers -> {Idle} \cup Asked]
         /\ \A r \in feed.readers : query'[r].at = "keyed" =>
               /\ query[r].at = "keyed" /\ query'[r].generation = query[r].generation
               /\ ~query'[r].clean
  <1> SUFFICES ASSUME NEW r \in feed.readers
               PROVE  /\ query'[r] \in {Idle} \cup Asked
                      /\ query'[r].at = "keyed" =>
                            /\ query[r].at = "keyed" /\ query'[r].generation = query[r].generation
                            /\ ~query'[r].clean
    BY DEF Disturbed
  <1>1. query[r] \in {Idle} \cup Asked
    BY DEF WorldTypes
  <1>2. query'[r] = IF query[r].at = "keyed" THEN [query[r] EXCEPT !.clean = FALSE] ELSE query[r]
    BY DEF Disturbed
  <1>3. CASE query[r].at = "keyed"
    <2>1. query[r] \in Asked
      BY <1>1, <1>3, IdleIsNotAsked
    <2> QED BY <1>2, <1>3, <2>1 DEF Asked
  <1>4. CASE query[r].at # "keyed"
    BY <1>1, <1>2, <1>4
  <1> QED BY <1>3, <1>4

\* The first half of an edit.
LEMMA EditBegins ==
  ASSUME WorldInv, NEW map, Edit(map), \A n \in DOMAIN map : map[n] \in Model,
         feed' = feed, tick' \in Nat, toCome' \in Seq(Timed), driver' \in Driver, senderGone' = senderGone
  PROVE  WorldInv'
  <1>1. /\ mobility' = map /\ edit' = <<[map |-> map, bump |-> 1]>> /\ generation' = generation
        /\ query' = Disturbed /\ viewCache' = viewCache /\ answer' = answer
    BY DEF Edit, Insert
  <1>2. /\ query' \in [feed.readers -> {Idle} \cup Asked]
        /\ \A r \in feed.readers : query'[r].at = "keyed" =>
               /\ query[r].at = "keyed" /\ query'[r].generation = query[r].generation
               /\ ~query'[r].clean
    BY <1>1, DisturbedQueries DEF WorldInv
  <1>3. WorldTypes'
    BY <1>1, <1>2 DEF WorldInv, WorldTypes
  <1>4. InMapFirst' /\ edit' # <<>>
    BY <1>1 DEF InMapFirst
  <1>5. QueriesLabelled'
    BY <1>1, <1>2 DEF WorldInv, QueriesLabelled
  <1>6. CacheLabelled'
    BY <1>1, <1>4 DEF WorldInv, CacheLabelled
  <1> QED BY <1>1, <1>3, <1>4, <1>5, <1>6 DEF WorldInv, RangeQuerySound

LEMMA EndEditKeeps == ASSUME WorldInv, EndEdit PROVE WorldInv'
  <1>1. /\ edit # <<>> /\ mobility' = edit[1].map /\ generation' = generation + edit[1].bump
        /\ edit' = <<>> /\ query' = Disturbed
        /\ UNCHANGED <<feed, tick, toCome, driver, senderGone, viewCache, answer>>
    BY DEF EndEdit, feedVars
  <1>2. mobility' = mobility /\ generation' = generation + 1 /\ generation \in Nat
    BY <1>1 DEF WorldInv, WorldTypes, InMapFirst
  <1>3. /\ query' \in [feed.readers -> {Idle} \cup Asked]
        /\ \A r \in feed.readers : query'[r].at = "keyed" =>
               /\ query[r].at = "keyed" /\ query'[r].generation = query[r].generation
               /\ ~query'[r].clean
    BY <1>1, DisturbedQueries DEF WorldInv
  <1>4. WorldTypes' /\ InMapFirst'
    BY <1>1, <1>2, <1>3 DEF WorldInv, WorldTypes, InMapFirst
  <1>5. QueriesLabelled'
    <2> SUFFICES ASSUME NEW r \in feed.readers, query'[r].at = "keyed"
                 PROVE  query'[r].generation <= generation' /\ ~query'[r].clean
      BY <1>1 DEF QueriesLabelled
    <2>1. query[r] \in Asked /\ query'[r].generation = query[r].generation
      BY <1>3, IdleIsNotAsked DEF WorldInv, WorldTypes
    <2>2. query[r].generation \in Nat /\ query[r].generation <= generation
      BY <1>3, <2>1 DEF Asked, WorldInv, QueriesLabelled
    <2> QED BY <1>2, <1>3, <2>1, <2>2
  <1>6. CacheLabelled'
    <2> SUFFICES ASSUME viewCache # NoView
                 PROVE  /\ viewCache.tick \in Nat /\ viewCache.generation \in Nat
                        /\ viewCache.generation <= generation' /\ viewCache.generation # generation'
      BY <1>1 DEF CacheLabelled
    <2>1. viewCache.tick \in Nat /\ viewCache.generation \in Nat /\ viewCache.generation <= generation
      BY DEF WorldInv, CacheLabelled
    <2> QED BY <1>2, <2>1
  <1> QED BY <1>1, <1>4, <1>5, <1>6 DEF WorldInv, RangeQuerySound

LEMMA OperateKeeps == ASSUME WorldInv, Operate PROVE WorldInv'
  <1>1. PICK n \in Body :
          \/ \E p \in Points : Edit(With(n, <<<<0, p>>>>))
          \/ \E p, q \in Points : p # q /\ Edit(With(n, <<<<tick, p>>, <<tick + 2, q>>>>))
          \/ n \in DOMAIN mobility /\ Edit(Restrict(mobility, DOMAIN mobility \ {n}))
    BY DEF Operate
  <1>2. /\ feed' = feed /\ tick' \in Nat /\ toCome' \in Seq(Timed) /\ driver' \in Driver
        /\ senderGone' = senderGone
    BY DEF Operate, feedVars, WorldInv, WorldTypes
  <1>3. ASSUME NEW m \in Model, Edit(With(n, m)) PROVE WorldInv'
    <2>1. \A b \in DOMAIN With(n, m) : With(n, m)[b] \in Model
      BY DEF With, WorldInv, WorldTypes
    <2> QED BY <1>2, <1>3, <2>1, EditBegins
  <1>4. ASSUME NEW p \in Points, Edit(With(n, <<<<0, p>>>>)) PROVE WorldInv'
    <2>1. p \in Place2D
      BY WorldAssumption DEF Place2D
    <2>2. <<<<0, p>>>> \in Model
      BY <2>1 DEF Model, Resting
    <2> QED BY <1>3, <1>4, <2>2
  <1>5. ASSUME NEW p \in Points, NEW q \in Points, Edit(With(n, <<<<tick, p>>, <<tick + 2, q>>>>))
        PROVE  WorldInv'
    <2>1. p \in Place2D /\ q \in Place2D /\ tick \in Nat /\ 2 \in Nat \ {0}
      BY WorldAssumption DEF Place2D, WorldInv, WorldTypes
    <2>2. <<<<tick, p>>, <<tick + 2, q>>>> \in Model
      BY <2>1 DEF Model, Going
    <2> QED BY <1>3, <1>5, <2>2
  <1>6. ASSUME Edit(Restrict(mobility, DOMAIN mobility \ {n})) PROVE WorldInv'
    <2>1. \A b \in DOMAIN Restrict(mobility, DOMAIN mobility \ {n}) :
             Restrict(mobility, DOMAIN mobility \ {n})[b] \in Model
      BY DEF Restrict, WorldInv, WorldTypes
    <2> QED BY <1>2, <1>6, <2>1, EditBegins
  <1> QED BY <1>1, <1>4, <1>5, <1>6

LEMMA PlaceKeeps == ASSUME WorldInv, Place PROVE WorldInv'
  <1>1. /\ driver.batch # <<>> /\ driver.batch \in Seq(Timed) /\ driver \in Driver
        /\ driver' = [driver EXCEPT !.at = "record"]
        /\ UNCHANGED <<feed, tick, toCome, senderGone>>
    BY DEF Place, WorldInv, WorldTypes, Driver
  <1>2. PICK s \in Timed : s = Head(driver.batch)
    BY <1>1
  <1>3. Edit(With(s.node, <<<<0, s.point>>>>))
    BY <1>2 DEF Place
  <1>4. <<<<0, s.point>>>> \in Model
    BY DEF Timed, Model, Resting
  <1>5. PICK m \in Model : m = <<<<0, s.point>>>>
    BY <1>4
  <1>6. \A b \in DOMAIN With(s.node, m) : With(s.node, m)[b] \in Model
    BY DEF With, WorldInv, WorldTypes
  <1>7. driver' \in Driver
    BY <1>1 DEF Driver
  <1>8. tick' \in Nat /\ toCome' \in Seq(Timed)
    BY <1>1 DEF WorldInv, WorldTypes
  <1> QED BY <1>1, <1>3, <1>5, <1>6, <1>7, <1>8, EditBegins

LEMMA KeyKeeps == ASSUME WorldInv, NEW r \in feed.readers, Key(r) PROVE WorldInv'
  <1>1. UNCHANGED <<feed, tick, toCome, driver, senderGone, mobility, generation, edit, viewCache, answer>>
    BY DEF Key, feedVars, mapVars
  <1>2. PICK a \in Asked :
          /\ a = [at |-> "keyed", generation |-> generation, tick |-> tick, clean |-> edit = <<>>]
          /\ a.generation = generation /\ (a.clean => edit = <<>>)
    <2>1. generation \in Nat /\ tick \in Nat /\ (edit = <<>>) \in BOOLEAN
      BY DEF WorldInv, WorldTypes
    <2>2. PICK c \in BOOLEAN : c = (edit = <<>>)
      BY <2>1, Zenon
    <2>3. [at |-> "keyed", generation |-> generation, tick |-> tick, clean |-> c] \in Asked
      BY <2>1 DEF Asked
    <2> QED BY <2>2, <2>3
  <1>3. query' = [query EXCEPT ![r] = a] /\ query \in [feed.readers -> {Idle} \cup Asked]
    BY <1>2 DEF Key, WorldInv, WorldTypes
  <1>4. query' \in [feed.readers -> {Idle} \cup Asked]
    BY <1>3
  <1>5. WorldTypes'
    BY <1>1, <1>4 DEF WorldInv, WorldTypes
  <1>6. QueriesLabelled'
    <2> SUFFICES ASSUME NEW b \in feed.readers, query'[b].at = "keyed"
                 PROVE  /\ query'[b].generation <= generation
                        /\ query'[b].clean => query'[b].generation = generation /\ edit = <<>>
      BY <1>1 DEF QueriesLabelled
    <2>1. CASE b = r
      BY <1>2, <1>3, <2>1 DEF WorldInv, WorldTypes
    <2>2. CASE b # r
      BY <1>3, <2>2 DEF WorldInv, QueriesLabelled
    <2> QED BY <2>1, <2>2
  <1>7. InMapFirst' /\ CacheLabelled'
    BY <1>1 DEF WorldInv, InMapFirst, CacheLabelled, Snapshot
  <1> QED BY <1>1, <1>5, <1>6, <1>7 DEF WorldInv, RangeQuerySound

LEMMA ViewAtKeeps == ASSUME WorldInv, NEW r \in feed.readers, ViewAt(r) PROVE WorldInv'
  <1>1. /\ query[r].at = "keyed" /\ query' = [query EXCEPT ![r] = Idle]
        /\ UNCHANGED <<feed, tick, toCome, driver, senderGone, mobility, generation, edit>>
    BY DEF ViewAt, feedVars, mapVars
  <1>2. query[r] \in Asked
    BY <1>1, IdleIsNotAsked DEF WorldInv, WorldTypes
  <1>3. PICK t \in Nat, g \in Nat : t = query[r].tick /\ g = query[r].generation
    BY <1>2 DEF Asked
  <1>4. PICK view :
          /\ view = IF viewCache # NoView /\ viewCache.tick = t /\ viewCache.generation = g
                    THEN viewCache.view ELSE Snapshot(t)
          /\ viewCache' = [tick |-> t, generation |-> g, view |-> view]
          /\ answer' \in {IF query[r].clean
                       THEN [told |-> WithinRange(view, p), due |-> {n \in DOMAIN Snapshot(t) : Near(Snapshot(t)[n], p)}]
                       ELSE [told |-> {}, due |-> {}] : p \in Points}
    BY <1>3 DEF ViewAt
  <1>5. g <= generation /\ (query[r].clean => g = generation /\ edit = <<>>) /\ generation \in Nat
    BY <1>1, <1>3 DEF WorldInv, WorldTypes, QueriesLabelled
  <1>6. edit = <<>> /\ g = generation => view = Snapshot(t)
    BY <1>4 DEF WorldInv, CacheLabelled
  <1>7. query' \in [feed.readers -> {Idle} \cup Asked]
    BY <1>1 DEF WorldInv, WorldTypes
  <1>8. WorldTypes' /\ InMapFirst'
    BY <1>1, <1>7 DEF WorldInv, WorldTypes, InMapFirst
  <1>9. QueriesLabelled'
    <2> SUFFICES ASSUME NEW b \in feed.readers, query'[b].at = "keyed"
                 PROVE  /\ query'[b].generation <= generation
                        /\ query'[b].clean => query'[b].generation = generation /\ edit = <<>>
      BY <1>1 DEF QueriesLabelled
    <2>1. b # r /\ query'[b] = query[b]
      BY <1>1, IdleIsNotAsked DEF WorldInv, WorldTypes
    <2> QED BY <2>1 DEF WorldInv, QueriesLabelled
  <1>10. CacheLabelled'
    <2>1. viewCache'.tick = t /\ viewCache'.generation = g /\ viewCache'.view = view
      BY <1>4
    <2>2. Snapshot(t)' = Snapshot(t)
      BY <1>1 DEF Snapshot
    <2> QED BY <1>1, <1>5, <1>6, <2>1, <2>2 DEF CacheLabelled, Snapshot
  <1>11. RangeQuerySound'
    <2>1. PICK p \in Points : answer' =
             IF query[r].clean
             THEN [told |-> WithinRange(view, p), due |-> {n \in DOMAIN Snapshot(t) : Near(Snapshot(t)[n], p)}]
             ELSE [told |-> {}, due |-> {}]
      BY <1>4
    <2>2. CASE ~query[r].clean
      BY <2>1, <2>2 DEF RangeQuerySound
    <2>3. CASE query[r].clean
      <3>1. view = Snapshot(t)
        BY <1>5, <1>6, <2>3
      <3>2. p \in Int \X Int /\ \A n \in DOMAIN view : view[n] \in Int \X Int
        BY <3>1, SnapshotType, WorldAssumption DEF WorldInv, Place2D
      <3>3. WithinRange(view, p) = {n \in DOMAIN view : Near(view[n], p)}
        BY <3>2, GridFindsAll
      <3> QED BY <2>1, <2>3, <3>1, <3>3 DEF RangeQuerySound
    <2> QED BY <2>2, <2>3
  <1> QED BY <1>8, <1>9, <1>10, <1>11 DEF WorldInv

\* Steps of the feed and of time touch neither map nor views.
LEMMA ElsewhereKeeps ==
  ASSUME WorldInv, UNCHANGED <<feed, mobility, generation, edit, viewCache, query, answer>>,
         tick' \in Nat, toCome' \in Seq(Timed), driver' \in Driver, senderGone' \in BOOLEAN
  PROVE  WorldInv'
  <1>1. WorldTypes'
    BY DEF WorldInv, WorldTypes
  <1>2. CacheLabelled' /\ QueriesLabelled' /\ InMapFirst' /\ RangeQuerySound'
    BY DEF WorldInv, CacheLabelled, QueriesLabelled, InMapFirst, RangeQuerySound, Snapshot
  <1> QED BY <1>1, <1>2 DEF WorldInv

LEMMA DueType == ASSUME WorldTypes PROVE Due \in 0..Len(toCome)
  <1>1. Len(toCome) \in Nat /\ DOMAIN toCome = 1..Len(toCome)
    BY DEF WorldTypes
  <1>2. IsFiniteSet(1..Len(toCome)) /\ Cardinality(1..Len(toCome)) = Len(toCome)
    <2>1. PICK m \in Nat : m = Len(toCome)
      BY <1>1
    <2>2. IsFiniteSet(1..m) /\ Cardinality(1..m) = IF 1 > m THEN 0 ELSE m - 1 + 1
      BY FS_Interval
    <2> QED BY <2>1, <2>2
  <1>3. {i \in DOMAIN toCome : toCome[i].t <= tick} \in SUBSET (1..Len(toCome))
    BY <1>1
  <1>4. /\ Cardinality({i \in DOMAIN toCome : toCome[i].t <= tick}) <= Len(toCome)
        /\ Cardinality({i \in DOMAIN toCome : toCome[i].t <= tick}) \in Nat
    BY <1>2, <1>3, FS_Subset, FS_CardinalityType
  <1> QED BY <1>1, <1>4 DEF Due

LEMMA PollKeeps == ASSUME WorldInv, Poll PROVE WorldInv'
  <1>1. /\ UNCHANGED <<feed, mobility, generation, edit, viewCache, query, answer, tick, senderGone>>
        /\ driver \in Driver /\ toCome \in Seq(Timed) /\ tick \in Nat /\ senderGone \in BOOLEAN
    BY DEF Poll, mapVars, readVars, WorldInv, WorldTypes
  <1>2. Due \in 0..Len(toCome) /\ Len(toCome) \in Nat
    BY <1>1, DueType DEF WorldInv
  <1>3. DoneByPoll \in BOOLEAN
    BY <1>1 DEF DoneByPoll
  <1>4. Stepped \in Timed
    <2>1. (CHOOSE n \in Body : TRUE) \in Body
      BY WorldAssumption
    <2>2. <<tick, 0>> \in Place2D
      BY <1>1 DEF Place2D
    <2> QED BY <1>1, <2>1, <2>2 DEF Stepped, Timed
  <1>5. /\ SubSeq(toCome, 1, Due) \in Seq(Timed)
        /\ SubSeq(toCome, Due + 1, Len(toCome)) \in Seq(Timed)
    <2>1. \A i \in 1..Due : toCome[i] \in Timed
      BY <1>1, <1>2
    <2>2. \A i \in (Due + 1)..Len(toCome) : toCome[i] \in Timed
      BY <1>1, <1>2
    <2>3. SubSeq(toCome, 1, Due) \in Seq(Timed)
      BY <1>1, <1>2, <2>1, SubSeqProperties
    <2>4. SubSeq(toCome, Due + 1, Len(toCome)) \in Seq(Timed)
      BY <1>1, <1>2, <2>2, SubSeqProperties
    <2> QED BY <2>3, <2>4
  <1>6. PICK b \in Seq(Timed), d \in BOOLEAN : driver' = [driver EXCEPT !.at = "apply", !.batch = b, !.done = d]
    <2>1. <<Stepped>> \in Seq(Timed)
      BY <1>4
    <2> QED BY <1>3, <1>5, <2>1 DEF Poll
  <1>7. driver' \in Driver
    BY <1>1, <1>6 DEF Driver
  <1>8. toCome' \in Seq(Timed)
    BY <1>1, <1>5 DEF Poll
  <1> QED BY <1>1, <1>7, <1>8, ElsewhereKeeps

LEMMA WorldInvNext == WorldInv /\ [WorldNext]_worldVars => WorldInv'
  <1> SUFFICES ASSUME WorldInv, [WorldNext]_worldVars PROVE WorldInv'
    OBVIOUS
  <1>1. /\ driver \in Driver /\ toCome \in Seq(Timed) /\ tick \in Nat /\ senderGone \in BOOLEAN
    BY DEF WorldInv, WorldTypes
  <1>2. CASE Pass
    BY <1>1, <1>2, ElsewhereKeeps DEF Pass, feedVars, mapVars, readVars
  <1>3. CASE Send
    <2>1. PICK n \in Body, t \in 0..MaxTick, p \in Points :
             toCome' = Append(toCome, [node |-> n, t |-> t, point |-> p])
      BY <1>3 DEF Send
    <2>2. PICK s \in Timed : s = [node |-> n, t |-> t, point |-> p]
      <3>1. t \in Nat /\ p \in Place2D
        BY WorldAssumption DEF Place2D
      <3> QED BY <3>1 DEF Timed
    <2>3. toCome' \in Seq(Timed)
      BY <1>1, <2>1, <2>2, AppendProperties
    <2>4. UNCHANGED <<feed, tick, mobility, generation, edit, viewCache, query, answer, senderGone, driver>>
      BY <1>3 DEF Send, mapVars, readVars
    <2> QED BY <1>1, <2>3, <2>4, ElsewhereKeeps
  <1>4. CASE DropSender \/ CancelDriver
    BY <1>1, <1>4, ElsewhereKeeps DEF DropSender, CancelDriver, mapVars, readVars
  <1>5. CASE Record
    <2>1. driver' = [driver EXCEPT !.at = "apply", !.batch = Tail(@)] /\ driver.batch \in Seq(Timed)
      BY <1>1, <1>5 DEF Record, Driver
    <2>2. driver.batch # <<>>
      BY <1>1, <1>5 DEF Record, Driver
    <2>3. Tail(driver.batch) \in Seq(Timed)
      BY <2>1, <2>2
    <2>4. driver' \in Driver
      BY <1>1, <2>1, <2>3 DEF Driver
    <2>5. UNCHANGED <<feed, tick, mobility, generation, edit, viewCache, query, answer, senderGone, toCome>>
      BY <1>5 DEF Record, mapVars, readVars
    <2> QED BY <1>1, <2>4, <2>5, ElsewhereKeeps
  <1>6. CASE BatchOver \/ Wake
    <2>1. PICK at \in {"done", "sleep", "poll"}, w \in Nat : driver' = [driver EXCEPT !.at = at, !.wake = w]
      <3>1. CASE BatchOver
        <4>1. tick + 1 \in Nat
          BY <1>1
        <4> QED BY <3>1, <4>1 DEF BatchOver
      <3>2. CASE Wake
        <4>1. driver' = [driver EXCEPT !.at = IF @ = "sleep" THEN "poll" ELSE "done"]
          BY <3>2 DEF Wake
        <4>2. driver.wake \in Nat /\ driver' = [driver' EXCEPT !.wake = driver.wake]
          BY <1>1, <4>1 DEF Driver
        <4> QED BY <1>1, <4>1, <4>2 DEF Driver
      <3> QED BY <1>6, <3>1, <3>2
    <2>2. driver' \in Driver
      BY <1>1, <2>1 DEF Driver
    <2>3. UNCHANGED <<feed, tick, mobility, generation, edit, viewCache, query, answer, senderGone, toCome>>
      BY <1>6 DEF BatchOver, Wake, mapVars, readVars
    <2> QED BY <1>1, <2>2, <2>3, ElsewhereKeeps
  <1>7. CASE UNCHANGED worldVars
    BY <1>1, <1>7, ElsewhereKeeps DEF worldVars
  <1> QED BY <1>2, <1>3, <1>4, <1>5, <1>6, <1>7, OperateKeeps, EndEditKeeps, KeyKeeps, ViewAtKeeps,
             PollKeeps, PlaceKeeps DEF WorldNext

-----------------------------------------------------------------------------
(* The world in the toolkit.                                               *)

LEMMA WorldPart == ToolkitSpec => WorldInit /\ [][WorldNext]_worldVars
  <1>1. ToolkitInit => WorldInit
    BY DEF ToolkitInit
  <1>2. [ToolkitNext]_toolkitVars => [WorldNext]_worldVars
    BY DEF ToolkitNext, toolkitVars, worldVars
  <1> QED
    BY <1>1, <1>2, PTL DEF ToolkitSpec

\* RadioBus::view_at and SpatialGrid::query: for any points, cell size, radius, readers and edits, a
\* transmission no edit overlaps is told exactly who is in range at its instant.
THEOREM RangeQueriesAreSound == ToolkitSpec => []RangeQuerySound
  <1>1. WorldInv => RangeQuerySound
    BY DEF WorldInv
  <1> QED BY <1>1, WorldPart, WorldInvInit, WorldInvNext, PTL

-----------------------------------------------------------------------------
(* Ranks in a finite total order.                                          *)

Orders(R, S) ==
    /\ \A i \in S : <<i, i>> \in R
    /\ \A i, j \in S : <<i, j>> \in R \/ <<j, i>> \in R
    /\ \A i, j \in S : <<i, j>> \in R /\ <<j, i>> \in R => i = j
    /\ \A i, j, k \in S : <<i, j>> \in R /\ <<j, k>> \in R => <<i, k>> \in R

Below(R, S, i) == {j \in S : <<j, i>> \in R}

\* Ranks are from one to the number of members, grow with the order, and each is some member's.
LEMMA RanksOfOrder ==
  ASSUME NEW R, NEW S, IsFiniteSet(S), Orders(R, S)
  PROVE  /\ \A i \in S : Cardinality(Below(R, S, i)) \in 1..Cardinality(S)
         /\ \A i, j \in S : <<i, j>> \in R /\ i # j => Cardinality(Below(R, S, i)) < Cardinality(Below(R, S, j))
         /\ \A k \in 1..Cardinality(S) : \E i \in S : Cardinality(Below(R, S, i)) = k
  <1>1. PICK m \in Nat : m = Cardinality(S)
    BY FS_CardinalityType
  <1>2. ASSUME NEW k \in S
        PROVE  /\ Below(R, S, k) \in SUBSET S /\ k \in Below(R, S, k)
               /\ IsFiniteSet(Below(R, S, k)) /\ Cardinality(Below(R, S, k)) \in 1..m
    <2>1. Below(R, S, k) \in SUBSET S /\ k \in Below(R, S, k)
      BY DEF Below, Orders
    <2>2. /\ IsFiniteSet(Below(R, S, k)) /\ Cardinality(Below(R, S, k)) \in Nat
          /\ Cardinality(Below(R, S, k)) <= Cardinality(S)
      BY <2>1, FS_Subset, FS_CardinalityType
    <2>3. Cardinality(Below(R, S, k)) # 0
      BY <2>1, <2>2, FS_EmptySet
    <2> QED BY <1>1, <2>1, <2>2, <2>3
  <1>3. ASSUME NEW i \in S, NEW j \in S, <<i, j>> \in R, i # j
        PROVE  Cardinality(Below(R, S, i)) < Cardinality(Below(R, S, j))
    <2>1. Below(R, S, i) \in SUBSET Below(R, S, j)
      BY <1>3 DEF Below, Orders
    <2>2. j \notin Below(R, S, i)
      BY <1>3 DEF Below, Orders
    <2>3. Below(R, S, i) # Below(R, S, j)
      BY <1>2, <2>2
    <2>4. /\ Cardinality(Below(R, S, i)) <= Cardinality(Below(R, S, j))
          /\ Cardinality(Below(R, S, j)) # Cardinality(Below(R, S, i))
      BY <1>2, <2>1, <2>3, FS_Subset
    <2> QED BY <1>2, <2>4
  <1> DEFINE ranks == [i \in S |-> Cardinality(Below(R, S, i))]
  <1>4. IsFiniteSet(1..m) /\ Cardinality(1..m) = m
    BY FS_Interval
  <1>5. ranks \in [S -> 1..m]
    BY <1>2
  <1>6. ASSUME NEW i \in S, NEW j \in S, i # j PROVE ranks[i] # ranks[j]
    <2>1. ranks[i] \in Nat /\ ranks[j] \in Nat
      BY <1>2
    <2>2. ranks[i] < ranks[j] \/ ranks[j] < ranks[i]
      BY <1>3, <1>6 DEF Orders
    <2> QED BY <2>1, <2>2
  <1>7. ranks \in Injection(S, 1..m)
    BY <1>5, <1>6 DEF Injection, IsInjective
  <1>8. ranks \in Surjection(S, 1..m)
    BY <1>1, <1>4, <1>7, FS_Injection
  <1>9. \A k \in 1..m : \E i \in S : ranks[i] = k
    BY <1>8 DEF Surjection
  <1> QED BY <1>1, <1>2, <1>3, <1>9

-----------------------------------------------------------------------------
(* The recording's order.                                                  *)

Recording == Seq(Timed)

LEMMA RecordingIs ==
  ASSUME trace \in Recording
  PROVE  /\ Len(trace) \in Nat /\ DOMAIN trace = 1..Len(trace)
         /\ \A i \in DOMAIN trace :
               /\ i \in Nat /\ trace[i] \in Timed /\ trace[i].t \in Nat
               /\ trace[i].point \in Place2D
  <1>1. Len(trace) \in Nat /\ DOMAIN trace = 1..Len(trace)
    BY LenProperties DEF Recording
  <1>2. \A i \in DOMAIN trace : i \in Nat /\ trace[i] \in Timed
    BY <1>1, ElementOfSeq DEF Recording
  <1> QED BY <1>1, <1>2 DEF Timed

\* A total order of the entries.
LEMMA SortedByOrders ==
  ASSUME trace \in Recording, NEW i \in DOMAIN trace, NEW j \in DOMAIN trace, NEW k \in DOMAIN trace
  PROVE  /\ SortedBy(trace, i, i)
         /\ SortedBy(trace, i, j) \/ SortedBy(trace, j, i)
         /\ SortedBy(trace, i, j) /\ SortedBy(trace, j, i) => i = j
         /\ SortedBy(trace, i, j) /\ SortedBy(trace, j, k) => SortedBy(trace, i, k)
         /\ SortedBy(trace, i, j) => trace[i].t <= trace[j].t
  <1>1. /\ i \in Nat /\ j \in Nat /\ k \in Nat
        /\ trace[i].t \in Nat /\ trace[j].t \in Nat /\ trace[k].t \in Nat
    BY RecordingIs
  <1> QED BY <1>1 DEF SortedBy

LEMMA MineIs ==
  ASSUME trace \in Recording, NEW n
  PROVE  /\ Mine(n) \subseteq DOMAIN trace /\ IsFiniteSet(Mine(n))
         /\ Cardinality(Mine(n)) \in Nat
  <1>1. PICK m \in Nat : DOMAIN trace = 1..m
    BY RecordingIs
  <1>2. IsFiniteSet(1..m)
    BY FS_Interval
  <1>3. Mine(n) \in SUBSET (1..m)
    BY <1>1 DEF Mine
  <1> QED BY <1>1, <1>2, <1>3, FS_Subset, FS_CardinalityType

\* Ranks are from one to the number of entries, grow with the order, and each is some entry's.
LEMMA RanksAre ==
  ASSUME trace \in Recording, NEW mine, mine \subseteq DOMAIN trace, IsFiniteSet(mine)
  PROVE  /\ \A i \in mine : Rank(mine, i) \in 1..Cardinality(mine)
         /\ \A i, j \in mine : SortedBy(trace, i, j) /\ i # j => Rank(mine, i) < Rank(mine, j)
         /\ \A k \in 1..Cardinality(mine) : \E i \in mine : Rank(mine, i) = k
  <1> DEFINE R == {p \in mine \X mine : SortedBy(trace, p[1], p[2])}
  <1>1. \A i, j \in mine : <<i, j>> \in R <=> SortedBy(trace, i, j)
    OBVIOUS
  <1>2. \A i \in mine : Rank(mine, i) = Cardinality(Below(R, mine, i))
    BY <1>1 DEF Rank, Below
  <1> HIDE DEF R
  <1>3. Orders(R, mine)
    <2>1. ASSUME NEW i \in mine, NEW j \in mine, NEW k \in mine
          PROVE  /\ SortedBy(trace, i, i)
                 /\ SortedBy(trace, i, j) \/ SortedBy(trace, j, i)
                 /\ SortedBy(trace, i, j) /\ SortedBy(trace, j, i) => i = j
                 /\ SortedBy(trace, i, j) /\ SortedBy(trace, j, k) => SortedBy(trace, i, k)
      BY SortedByOrders
    <2> QED BY <1>1, <2>1 DEF Orders
  <1>4. /\ \A i \in mine : Cardinality(Below(R, mine, i)) \in 1..Cardinality(mine)
        /\ \A i, j \in mine : <<i, j>> \in R /\ i # j =>
              Cardinality(Below(R, mine, i)) < Cardinality(Below(R, mine, j))
        /\ \A k \in 1..Cardinality(mine) : \E i \in mine : Cardinality(Below(R, mine, i)) = k
    BY <1>3, RanksOfOrder
  <1> QED BY <1>1, <1>2, <1>4

\* The entries in the order of their ranks: sorted, and each at its own rank.
LEMMA ReplayedIsSorted ==
  ASSUME trace \in Recording, NEW mine, mine \subseteq DOMAIN trace, IsFiniteSet(mine)
  PROVE  /\ DOMAIN Replayed(mine) = 1..Cardinality(mine)
         /\ \A k \in 1..Cardinality(mine) : Replayed(mine)[k] \in mine
         /\ \A i \in mine : Rank(mine, i) \in 1..Cardinality(mine) /\ Replayed(mine)[Rank(mine, i)] = i
         /\ \A k, l \in 1..Cardinality(mine) :
               k <= l => trace[Replayed(mine)[k]].t <= trace[Replayed(mine)[l]].t
         /\ \A k, l \in 1..Cardinality(mine) : Replayed(mine)[k] = Replayed(mine)[l] => k = l
  <1>1. PICK m \in Nat : m = Cardinality(mine)
    BY FS_CardinalityType
  <1>2. \A k \in 1..m : Replayed(mine)[k] \in mine /\ Rank(mine, Replayed(mine)[k]) = k
    BY <1>1, RanksAre DEF Replayed
  <1>3. ASSUME NEW i \in mine, NEW j \in mine, Rank(mine, i) <= Rank(mine, j)
        PROVE  SortedBy(trace, i, j)
    <2>1. Rank(mine, i) \in Nat /\ Rank(mine, j) \in Nat
      BY RanksAre
    <2>2. CASE i = j
      BY <2>2, SortedByOrders
    <2>3. CASE i # j
      BY <1>3, <2>1, <2>3, RanksAre, SortedByOrders
    <2> QED BY <2>2, <2>3
  <1>4. ASSUME NEW i \in mine PROVE Rank(mine, i) \in 1..m /\ Replayed(mine)[Rank(mine, i)] = i
    <2>1. Rank(mine, i) \in 1..m
      BY <1>1, RanksAre
    <2>2. PICK j \in mine : j = Replayed(mine)[Rank(mine, i)] /\ Rank(mine, j) = Rank(mine, i)
      BY <1>2, <2>1
    <2>3. SortedBy(trace, i, j) /\ SortedBy(trace, j, i)
      BY <1>3, <2>1, <2>2
    <2> QED BY <2>1, <2>2, <2>3, SortedByOrders
  <1>5. ASSUME NEW k \in 1..m, NEW l \in 1..m, k <= l
        PROVE  trace[Replayed(mine)[k]].t <= trace[Replayed(mine)[l]].t
    <2>1. SortedBy(trace, Replayed(mine)[k], Replayed(mine)[l])
      BY <1>2, <1>3, <1>5
    <2> QED BY <1>2, <2>1, SortedByOrders
  <1>6. DOMAIN Replayed(mine) = 1..m
    BY <1>1 DEF Replayed
  <1> QED BY <1>1, <1>2, <1>4, <1>5, <1>6

\* Neither neighbour is at the instant of a sample alone at its own: it is passed through.
LEMMA SamplePassed ==
  ASSUME NEW samples, NEW m \in Nat, DOMAIN samples = 1..m, Len(samples) = m, NEW k \in 1..m,
         \A l \in 1..m : samples[l][1] \in Nat /\ samples[l][2] \in Place2D,
         \A l \in 1..m : l < k => samples[l][1] < samples[k][1],
         \A l \in 1..m : k < l => samples[k][1] < samples[l][1]
  PROVE  PositionAt(samples, samples[k][1]) = samples[k][2]
  <1>1. PICK t \in Nat, p \in Place2D : t = samples[k][1] /\ p = samples[k][2]
    OBVIOUS
  <1>2. 1 \in 1..m /\ m \in 1..m
    OBVIOUS
  <1>3. (t <= samples[1][1]) <=> k = 1
    BY <1>1, <1>2
  <1>4. (t >= samples[m][1]) <=> k = m
    BY <1>1, <1>2
  <1>5. CASE k = 1
    BY <1>1, <1>3, <1>4, <1>5 DEF PositionAt
  <1>6. CASE k # 1 /\ k = m
    BY <1>1, <1>3, <1>4, <1>6 DEF PositionAt
  <1>7. CASE k # 1 /\ k # m
    <2>1. k + 1 \in 2..m /\ k + 1 - 1 = k /\ k + 1 \in 1..m
      BY <1>7
    <2>2. samples[k + 1 - 1][1] <= t /\ t < samples[k + 1][1]
      BY <1>1, <2>1
    <2>3. ASSUME NEW i \in 2..m, samples[i - 1][1] <= t, t < samples[i][1] PROVE i = k + 1
      <3>1. i - 1 \in 1..m /\ i \in 1..m
        OBVIOUS
      <3>2. ~(k < i - 1)
        BY <1>1, <2>3, <3>1
      <3>3. ~(i < k) /\ i # k
        BY <1>1, <2>3, <3>1
      <3> QED BY <3>1, <3>2, <3>3
    <2>4. (CHOOSE i \in 2..m : samples[i - 1][1] <= t /\ t < samples[i][1]) = k + 1
      BY <2>1, <2>2, <2>3
    <2>5. PICK d \in Nat \ {0}, q \in Place2D : d = samples[k + 1][1] - t /\ q = samples[k + 1][2]
      BY <1>1, <2>1, <2>2
    <2>6. PositionAt(samples, t) = Between(p, q, 0, d)
      <3>1. t - t = 0
        OBVIOUS
      <3>2. PICK hi : hi = CHOOSE i \in 2..m : samples[i - 1][1] <= t /\ t < samples[i][1]
        OBVIOUS
      <3>3. hi = k + 1 /\ hi - 1 = k
        <4>1. hi = k + 1
          BY <2>4, <3>2, Zenon
        <4> QED BY <4>1
      <3>4. ~(t <= samples[1][1]) /\ ~(t >= samples[m][1])
        BY <1>3, <1>4, <1>7
      <3>5. PositionAt(samples, t) = Between(samples[hi - 1][2], samples[hi][2],
                                            t - samples[hi - 1][1], samples[hi][1] - samples[hi - 1][1])
        BY <3>2, <3>4, Zenon DEF PositionAt
      <3>6. /\ samples[hi - 1][2] = p /\ samples[hi][2] = q
            /\ samples[hi - 1][1] = t /\ samples[hi][1] - samples[hi - 1][1] = d
        BY <1>1, <2>5, <3>3
      <3> QED BY <3>1, <3>5, <3>6, Zenon
    <2>7. Between(p, q, 0, d) = p
      <3>1. PICK a \in Int, b \in Int : p = <<a, b>>
        BY DEF Place2D
      <3>2. (q[1] - p[1]) * 0 = 0 /\ (q[2] - p[2]) * 0 = 0
        BY DEF Place2D
      <3>3. 0 \div d = 0
        BY CellBounds
      <3>4. Between(p, q, 0, d) = <<a + 0, b + 0>>
        BY <3>1, <3>2, <3>3 DEF Between
      <3> QED BY <3>1, <3>4
    <2> QED BY <1>1, <2>6, <2>7
  <1> QED BY <1>5, <1>6, <1>7

\* The replay passes through every entry alone at its node and instant.
LEMMA ReplayFaithful ==
  ASSUME trace \in Recording, NEW i \in DOMAIN trace,
         \A j \in DOMAIN trace \ {i} : <<trace[j].node, trace[j].t>> # <<trace[i].node, trace[i].t>>
  PROVE  PositionAt(IntoModels[trace[i].node], trace[i].t) = trace[i].point
  <1> DEFINE n == trace[i].node
             mine == Mine(n)
             order == Replayed(mine)
             samples == [k \in DOMAIN order |-> <<trace[order[k]].t, trace[order[k]].point>>]
  <1>1. mine \subseteq DOMAIN trace /\ IsFiniteSet(mine) /\ Cardinality(mine) \in Nat
    BY MineIs
  <1>2. i \in mine
    BY DEF Mine
  <1>3. IntoModels[n] = samples
    BY DEF IntoModels
  <1>4. PICK m \in Nat : m = Cardinality(mine)
    BY <1>1
  <1>5. /\ DOMAIN order = 1..m
        /\ \A k \in 1..m : order[k] \in mine
        /\ Rank(mine, i) \in 1..m /\ order[Rank(mine, i)] = i
        /\ \A k, l \in 1..m : k <= l => trace[order[k]].t <= trace[order[l]].t
        /\ \A k, l \in 1..m : order[k] = order[l] => k = l
    BY <1>1, <1>2, <1>4, ReplayedIsSorted
  <1>6. PICK k \in 1..m : order[k] = i
    BY <1>5
  <1> HIDE DEF order
  <1>7. DOMAIN samples = 1..m /\ Len(samples) = m
    BY <1>5
  <1>8. \A l \in 1..m : /\ samples[l][1] = trace[order[l]].t /\ samples[l][2] = trace[order[l]].point
                        /\ trace[order[l]].t \in Nat /\ trace[order[l]].point \in Place2D
    BY <1>1, <1>5, RecordingIs
  <1> HIDE DEF samples
  <1>9. ASSUME NEW l \in 1..m, l # k PROVE trace[order[l]].t # trace[i].t
    <2>1. order[l] \in DOMAIN trace \ {i} /\ trace[order[l]].node = trace[i].node
      BY <1>1, <1>5, <1>6, <1>9 DEF Mine
    <2> QED BY <2>1
  <1>10. ASSUME NEW l \in 1..m, l < k PROVE samples[l][1] < samples[k][1]
    <2>1. trace[order[l]].t <= trace[order[k]].t
      BY <1>5, <1>10
    <2>2. trace[order[l]].t # trace[order[k]].t
      BY <1>6, <1>9, <1>10
    <2> QED BY <1>8, <2>1, <2>2
  <1>11. ASSUME NEW l \in 1..m, k < l PROVE samples[k][1] < samples[l][1]
    <2>1. trace[order[k]].t <= trace[order[l]].t
      BY <1>5, <1>11
    <2>2. trace[order[l]].t # trace[order[k]].t
      BY <1>6, <1>9, <1>11
    <2> QED BY <1>8, <2>1, <2>2
  <1>12. PositionAt(samples, samples[k][1]) = samples[k][2]
    <2>1. \A l \in 1..m : samples[l][1] \in Nat /\ samples[l][2] \in Place2D
      BY <1>8
    <2> QED BY <1>7, <1>10, <1>11, <2>1, SamplePassed
  <1> QED BY <1>3, <1>6, <1>8, <1>12

-----------------------------------------------------------------------------
(* The feed's invariant.                                                   *)

\* What was fed is recorded, in the batch, or to come, in its order.
Line(recorded, batch, coming) == (recorded \o batch) \o coming

\* A driver has a batch only while it applies it, and is through only with a source that has
\* nothing left and will have nothing more.
FeedInv ==
    /\ trace \in Recording /\ sent \in Recording
    /\ Line(trace, driver.batch, toCome) = sent
    /\ driver.at \in {"poll", "sleep", "done"} => driver.batch = <<>>
    /\ driver.done => toCome = <<>> /\ (feed.kind = "channel" => senderGone)
    /\ driver.at = "done" => driver.done \/ cancelled
    /\ feed.kind = "lockstep" => toCome = <<>>

LEMMA LineAppends ==
  ASSUME NEW S, NEW r \in Seq(S), NEW b \in Seq(S), NEW c \in Seq(S), NEW x \in S
  PROVE  Line(r, b, Append(c, x)) = Append(Line(r, b, c), x)
  <1>1. <<x>> \in Seq(S) /\ r \o b \in Seq(S) /\ (r \o b) \o c \in Seq(S)
    BY ConcatProperties
  <1>2. Append(c, x) = c \o <<x>> /\ Append((r \o b) \o c, x) = ((r \o b) \o c) \o <<x>>
    BY <1>1, AppendIsConcat
  <1>3. (r \o b) \o (c \o <<x>>) = ((r \o b) \o c) \o <<x>>
    BY <1>1, ConcatAssociative
  <1> QED BY <1>2, <1>3, Zenon DEF Line

\* The head of the batch moves to the end of the recording.
LEMMA LineMoves ==
  ASSUME NEW S, NEW r \in Seq(S), NEW b \in Seq(S), NEW c \in Seq(S), b # <<>>
  PROVE  Line(Append(r, Head(b)), Tail(b), c) = Line(r, b, c)
  <1>1. PICK x, rest : x = Head(b) /\ rest = Tail(b)
    OBVIOUS
  <1>2. x \in S /\ rest \in Seq(S) /\ <<x>> \in Seq(S)
    BY <1>1, HeadTailProperties
  <1>3. b = <<x>> \o rest
    <2>1. Len(b) \in Nat \ {0}
      BY EmptySeq
    <2>2. 1 \in 1..Len(b) /\ Len(b) \in 1..Len(b) /\ 1 + 1 = 2
      BY <2>1
    <2>3. SubSeq(b, 1, Len(b)) = <<b[1]>> \o SubSeq(b, 1 + 1, Len(b))
      BY <2>2, SubSeqRecursiveFirst
    <2>4. Head(b) = b[1] /\ Tail(b) = SubSeq(b, 2, Len(b)) /\ SubSeq(b, 1, Len(b)) = b
      BY <2>1, TailIsSubSeq, SubSeqFull
    <2> QED BY <1>1, <2>2, <2>3, <2>4, Zenon
  <1>4. Append(r, x) = r \o <<x>>
    BY <1>2, AppendIsConcat
  <1>5. (r \o <<x>>) \o rest = r \o (<<x>> \o rest)
    BY <1>2, ConcatAssociative
  <1> QED BY <1>1, <1>3, <1>4, <1>5, Zenon DEF Line

\* A poll cuts the states to come in two.
LEMMA LineCut ==
  ASSUME NEW S, NEW r \in Seq(S), NEW c \in Seq(S), NEW d \in 0..Len(c)
  PROVE  Line(r, SubSeq(c, 1, d), SubSeq(c, d + 1, Len(c))) = Line(r, <<>>, c)
  <1>1. PICK m \in Nat : m = Len(c)
    BY LenProperties
  <1>2. PICK a, z : a = SubSeq(c, 1, d) /\ z = SubSeq(c, d + 1, m)
    OBVIOUS
  <1>3. /\ a \in Seq(S) /\ Len(a) = d /\ \A i \in 1..d : a[i] = c[i]
    <2>1. \A i \in 1..d : c[i] \in S
      BY <1>1, ElementOfSeq
    <2>2. /\ a \in Seq(S) /\ Len(a) = (IF 1 <= d THEN d - 1 + 1 ELSE 0)
          /\ \A i \in 1..(d - 1 + 1) : a[i] = c[1 + i - 1]
      BY <1>1, <1>2, <2>1, SubSeqProperties
    <2>3. d \in Nat /\ d - 1 + 1 = d /\ \A i \in 1..d : 1 + i - 1 = i
      BY <1>1
    <2> QED BY <2>2, <2>3
  <1>4. /\ z \in Seq(S) /\ Len(z) = m - d /\ \A i \in 1..(m - d) : z[i] = c[d + i]
    <2>1. \A i \in (d + 1)..m : c[i] \in S
      BY <1>1, ElementOfSeq
    <2>2. /\ z \in Seq(S) /\ Len(z) = (IF d + 1 <= m THEN m - (d + 1) + 1 ELSE 0)
          /\ \A i \in 1..(m - (d + 1) + 1) : z[i] = c[d + 1 + i - 1]
      BY <1>1, <1>2, <2>1, SubSeqProperties
    <2>3. /\ d \in Nat /\ d <= m /\ m - (d + 1) + 1 = m - d
          /\ (d + 1 <= m \/ m - d = 0) /\ \A i \in 1..(m - d) : d + 1 + i - 1 = d + i
      BY <1>1
    <2> QED BY <2>2, <2>3
  <1>5. a \o z = c
    <2>1. /\ a \o z \in Seq(S) /\ Len(a \o z) = d + (m - d)
          /\ \A i \in 1..(d + (m - d)) : (a \o z)[i] = IF i <= d THEN a[i] ELSE z[i - d]
      <3>1. /\ a \o z \in Seq(S) /\ Len(a \o z) = Len(a) + Len(z)
            /\ \A i \in 1..(Len(a) + Len(z)) : (a \o z)[i] = IF i <= Len(a) THEN a[i] ELSE z[i - Len(a)]
        <4>1. a \in Seq(S) /\ z \in Seq(S)
          BY <1>3, <1>4
        <4> QED BY <4>1, ConcatProperties, Zenon
      <3>2. Len(a) = d /\ Len(z) = m - d
        BY <1>3, <1>4
      <3> QED BY <3>1, <3>2, Zenon
    <2>2. d + (m - d) = m
      BY <1>1
    <2>3. ASSUME NEW i \in 1..m PROVE (a \o z)[i] = c[i]
      <3>1. CASE i <= d
        BY <1>1, <1>3, <2>1, <2>2, <3>1
      <3>2. CASE ~(i <= d)
        <4>1. i - d \in 1..(m - d) /\ d + (i - d) = i
          BY <1>1, <3>2
        <4> QED BY <1>4, <2>1, <2>2, <3>2, <4>1
      <3> QED BY <3>1, <3>2
    <2> QED BY <1>1, <2>1, <2>2, <2>3, SeqEqual
  <1>6. (r \o a) \o z = r \o (a \o z) /\ r \o <<>> = r
    BY <1>3, <1>4, ConcatAssociative, ConcatEmptySeq
  <1> QED BY <1>1, <1>2, <1>5, <1>6, Zenon DEF Line

LEMMA LineEmpty ==
  ASSUME NEW S, NEW r \in Seq(S)
  PROVE  Line(r, <<>>, <<>>) = r
  BY ConcatEmptySeq DEF Line

LEMMA FeedInvInit == WorldInit => FeedInv
  <1> SUFFICES ASSUME WorldInit PROVE FeedInv
    OBVIOUS
  <1>1. toCome \in Seq(Timed) /\ feed \in Feeds
    BY WorldInvInit DEF WorldInv, WorldTypes
  <1>2. trace = <<>> /\ sent = toCome /\ driver.batch = <<>> /\ driver.at = "poll" /\ ~driver.done
    BY DEF WorldInit
  <1>3. Line(<<>>, <<>>, toCome) = toCome
    BY <1>1, ConcatEmptySeq, EmptySeq DEF Line
  <1>4. ASSUME feed.kind = "lockstep" PROVE toCome = <<>>
    <2>1. feed.script = <<>> /\ DOMAIN feed.script = {}
      BY <1>1, <1>4, WorldAssumption
    <2>2. PICK p : toCome = [i \in DOMAIN feed.script |-> feed.script[p[i]]]
      BY DEF WorldInit, ByTime
    <2>3. DOMAIN toCome = {}
      BY <2>1, <2>2
    <2>4. Len(toCome) = 0
      BY <1>1, <2>3, LenProperties
    <2> QED BY <1>1, <2>4, EmptySeq
  <1>5. trace \in Recording /\ sent \in Recording
    BY <1>1, <1>2, EmptySeq DEF Recording
  <1> QED BY <1>2, <1>3, <1>4, <1>5 DEF FeedInv

\* Steps that move no state.
LEMMA FeedStays ==
  ASSUME FeedInv, UNCHANGED <<feed, toCome, trace, sent>>,
         driver'.batch = driver.batch, driver'.done = driver.done,
         driver'.at \in {"poll", "sleep", "done"} => driver.batch = <<>>,
         driver'.at = "done" => driver.done \/ cancelled',
         senderGone => senderGone'
  PROVE  FeedInv'
  BY DEF FeedInv, Recording, Line

LEMMA PollFeeds == ASSUME WorldInv, FeedInv, Poll PROVE FeedInv'
  <1>1. /\ driver.at = "poll" /\ driver.batch = <<>> /\ feed.kind \in {"channel", "scripted", "lockstep"}
        /\ trace \in Seq(Timed) /\ sent \in Seq(Timed) /\ toCome \in Seq(Timed) /\ driver \in Driver
        /\ Line(trace, <<>>, toCome) = sent
    BY WorldAssumption DEF Poll, WorldInv, WorldTypes, FeedInv, Recording
  <1>2. UNCHANGED <<feed, trace, senderGone, cancelled>>
    BY DEF Poll
  <1>3. CASE feed.kind = "lockstep"
    <2>1. PICK s : s = Stepped
      OBVIOUS
    <2>2. s \in Timed
      <3>1. (CHOOSE n \in Body : TRUE) \in Body /\ tick \in Nat
        BY WorldAssumption DEF WorldInv, WorldTypes
      <3>2. <<tick, 0>> \in Place2D
        BY <3>1 DEF Place2D
      <3> QED BY <2>1, <3>1, <3>2 DEF Stepped, Timed
    <2>3. /\ driver' = [driver EXCEPT !.at = "apply", !.batch = <<s>>, !.done = DoneByPoll]
          /\ sent' = Append(sent, s) /\ toCome' = toCome /\ toCome = <<>>
      BY <1>3, <2>1 DEF Poll, FeedInv
    <2>4. driver'.at = "apply" /\ driver'.batch = <<s>>
      BY <1>1, <2>3 DEF Driver
    <2>5. sent' \in Seq(Timed) /\ <<s>> \in Seq(Timed)
      BY <1>1, <2>2, <2>3, AppendProperties
    <2>6. Line(trace, <<s>>, <<>>) = sent'
      <3>1. sent = trace
        BY <1>1, <2>3, LineEmpty
      <3>2. Append(trace, s) = trace \o <<s>> /\ Append(trace, s) \in Seq(Timed)
        BY <1>1, <2>2, AppendIsConcat, AppendProperties
      <3>3. (trace \o <<s>>) \o <<>> = trace \o <<s>>
        BY <3>2, ConcatEmptySeq
      <3> QED BY <2>3, <3>1, <3>2, <3>3, Zenon DEF Line
    <2> QED BY <1>1, <1>2, <1>3, <2>3, <2>4, <2>5, <2>6 DEF FeedInv, Recording
  <1>4. CASE feed.kind # "lockstep"
    <2>1. Due \in 0..Len(toCome) /\ Len(toCome) \in Nat
      BY <1>1, DueType, LenProperties DEF WorldInv
    <2>2. PICK d \in 0..Len(toCome) : d = Due
      BY <2>1
    <2>3. /\ driver' = [driver EXCEPT !.at = "apply", !.batch = SubSeq(toCome, 1, d), !.done = DoneByPoll]
          /\ toCome' = SubSeq(toCome, d + 1, Len(toCome)) /\ sent' = sent
      BY <1>4, <2>2 DEF Poll
    <2>4. /\ driver'.at = "apply" /\ driver'.batch = SubSeq(toCome, 1, d)
          /\ driver'.done = DoneByPoll
      BY <1>1, <2>3 DEF Driver
    <2>5. Line(trace, driver'.batch, toCome') = sent'
      BY <1>1, <2>3, <2>4, LineCut
    <2>6. ASSUME DoneByPoll PROVE toCome' = <<>> /\ (feed.kind = "channel" => senderGone)
      <3>1. d = Len(toCome) /\ (feed.kind = "channel" => senderGone)
        BY <1>1, <1>4, <2>2, <2>6 DEF DoneByPoll, Due
      <3>2. SubSeq(toCome, d + 1, Len(toCome)) = <<>>
        BY <2>1, <3>1, SubSeqEmpty
      <3> QED BY <2>3, <3>1, <3>2
    <2> QED BY <1>1, <1>2, <1>4, <2>3, <2>4, <2>5, <2>6 DEF FeedInv, Recording
  <1> QED BY <1>3, <1>4

LEMMA RecordFeeds == ASSUME WorldInv, FeedInv, Record PROVE FeedInv'
  <1>1. /\ driver \in Driver /\ driver.at = "record" /\ driver.batch \in Seq(Timed) /\ driver.batch # <<>>
        /\ trace \in Seq(Timed) /\ toCome \in Seq(Timed) /\ sent \in Seq(Timed)
        /\ Line(trace, driver.batch, toCome) = sent
    BY DEF Record, WorldInv, WorldTypes, Driver, FeedInv, Recording
  <1>2. /\ trace' = Append(trace, Head(driver.batch))
        /\ driver' = [driver EXCEPT !.at = "apply", !.batch = Tail(@)]
        /\ UNCHANGED <<feed, toCome, senderGone, cancelled, sent>>
    BY DEF Record
  <1>3. /\ driver'.at = "apply" /\ driver'.batch = Tail(driver.batch) /\ driver'.done = driver.done
    BY <1>1, <1>2 DEF Driver
  <1>4. trace' \in Seq(Timed)
    BY <1>1, <1>2, HeadTailProperties, AppendProperties
  <1>5. Line(trace', driver'.batch, toCome') = sent'
    BY <1>1, <1>2, <1>3, LineMoves
  <1> QED BY <1>1, <1>2, <1>3, <1>4, <1>5 DEF FeedInv, Recording

LEMMA SendFeeds == ASSUME WorldInv, FeedInv, Send PROVE FeedInv'
  <1>1. /\ driver \in Driver /\ driver.batch \in Seq(Timed) /\ toCome \in Seq(Timed)
        /\ trace \in Seq(Timed) /\ sent \in Seq(Timed)
        /\ Line(trace, driver.batch, toCome) = sent
    BY DEF WorldInv, WorldTypes, Driver, FeedInv, Recording
  <1>2. PICK s \in Timed : toCome' = Append(toCome, s) /\ sent' = Append(sent, s)
    <2>1. PICK n \in Body, t \in 0..MaxTick, p \in Points :
             /\ toCome' = Append(toCome, [node |-> n, t |-> t, point |-> p])
             /\ sent' = Append(sent, [node |-> n, t |-> t, point |-> p])
      BY DEF Send
    <2>2. t \in Nat /\ p \in Place2D
      BY WorldAssumption DEF Place2D
    <2>3. [node |-> n, t |-> t, point |-> p] \in Timed
      BY <2>2 DEF Timed
    <2> QED BY <2>1, <2>3
  <1>3. /\ feed.kind = "channel" /\ ~senderGone /\ UNCHANGED <<feed, trace, driver, senderGone, cancelled>>
    BY DEF Send
  <1>4. ~driver.done
    BY <1>3 DEF FeedInv
  <1>5. Line(trace, driver.batch, toCome') = sent'
    <2>1. Line(trace, driver.batch, Append(toCome, s)) = Append(Line(trace, driver.batch, toCome), s)
      <3>1. s \in Timed
        BY <1>2
      <3>2. trace \in Seq(Timed) /\ driver.batch \in Seq(Timed) /\ toCome \in Seq(Timed)
        BY <1>1
      <3>3. \A r, b, c \in Seq(Timed), x \in Timed : Line(r, b, Append(c, x)) = Append(Line(r, b, c), x)
        BY LineAppends
      <3> QED BY <3>1, <3>2, <3>3, Zenon
    <2> QED BY <1>1, <1>2, <2>1, Zenon
  <1>6. sent' \in Seq(Timed)
    BY <1>1, <1>2, AppendProperties
  <1> QED BY <1>1, <1>3, <1>4, <1>5, <1>6 DEF FeedInv, Recording

LEMMA FeedInvNext == WorldInv /\ FeedInv /\ [WorldNext]_worldVars => FeedInv'
  <1> SUFFICES ASSUME WorldInv, FeedInv, [WorldNext]_worldVars PROVE FeedInv'
    OBVIOUS
  <1>1. driver \in Driver
    BY DEF WorldInv, WorldTypes
  <1>2. ASSUME UNCHANGED <<feed, toCome, senderGone, cancelled, driver, trace, sent>> PROVE FeedInv'
    BY <1>2, FeedStays DEF FeedInv
  <1>3. CASE Operate \/ EndEdit \/ Pass \/ UNCHANGED worldVars
    BY <1>2, <1>3 DEF Operate, EndEdit, Pass, feedVars, worldVars
  <1>4. CASE \E r \in feed.readers : Key(r) \/ ViewAt(r)
    BY <1>2, <1>4 DEF Key, ViewAt, feedVars
  <1>5. CASE DropSender \/ CancelDriver
    BY <1>5, FeedStays DEF DropSender, CancelDriver, FeedInv
  <1>6. CASE Place
    <2>1. driver' = [driver EXCEPT !.at = "record"] /\ UNCHANGED <<feed, toCome, senderGone, cancelled, trace, sent>>
      BY <1>6 DEF Place
    <2>2. driver'.at = "record" /\ driver'.batch = driver.batch /\ driver'.done = driver.done
      BY <1>1, <2>1 DEF Driver
    <2> QED BY <2>1, <2>2, FeedStays
  <1>7. CASE BatchOver
    <2>1. /\ driver' = [driver EXCEPT !.at = IF driver.done THEN "done" ELSE "sleep", !.wake = tick + 1]
          /\ driver.batch = <<>> /\ UNCHANGED <<feed, toCome, senderGone, cancelled, trace, sent>>
      BY <1>7 DEF BatchOver
    <2>2. /\ driver'.at = (IF driver.done THEN "done" ELSE "sleep")
          /\ driver'.batch = driver.batch /\ driver'.done = driver.done
      BY <1>1, <2>1 DEF Driver
    <2> QED BY <2>1, <2>2, FeedStays
  <1>8. CASE Wake
    <2>1. /\ driver' = [driver EXCEPT !.at = IF @ = "sleep" THEN "poll" ELSE "done"]
          /\ driver.at = "sleep" \/ (driver.at = "poll" /\ cancelled)
          /\ UNCHANGED <<feed, toCome, senderGone, cancelled, trace, sent>>
      BY <1>8 DEF Wake
    <2>2. /\ driver'.at = (IF driver.at = "sleep" THEN "poll" ELSE "done")
          /\ driver'.batch = driver.batch /\ driver'.done = driver.done
      BY <1>1, <2>1 DEF Driver
    <2>3. driver.batch = <<>>
      BY <2>1 DEF FeedInv
    <2> QED BY <2>1, <2>2, <2>3, FeedStays
  <1> QED BY <1>3, <1>4, <1>5, <1>6, <1>7, <1>8, PollFeeds, RecordFeeds, SendFeeds DEF WorldNext

\* drive_cosim, MobilityTrace and SampledMobility: for any feed of any length, every state is
\* recorded in its turn, none is left behind by a driver that ended by itself, and the replay
\* passes through every sample alone at its instant, in whatever order the feed delivered them.
THEOREM FeedsAreRecorded == ToolkitSpec => []FeedRecorded
  <1>1. WorldInv /\ FeedInv => FeedRecorded
    <2> SUFFICES ASSUME WorldInv, FeedInv PROVE FeedRecorded
      OBVIOUS
    <2>1. trace \in Recording /\ trace \in Seq(Timed)
      BY DEF FeedInv, Recording
    <2>2. (trace \o driver.batch) \o toCome = sent
      BY DEF FeedInv, Line
    <2>3. ASSUME driver.at = "done", ~cancelled PROVE trace = sent
      <3>1. driver.batch = <<>> /\ toCome = <<>> /\ Line(trace, driver.batch, toCome) = sent
        BY <2>3 DEF FeedInv
      <3> QED BY <2>1, <3>1, LineEmpty
    <2>4. ASSUME NEW i \in DOMAIN trace,
                 \A j \in DOMAIN trace \ {i} : <<trace[j].node, trace[j].t>> # <<trace[i].node, trace[i].t>>
          PROVE  PositionAt(IntoModels[trace[i].node], trace[i].t) = trace[i].point
      BY <2>1, <2>4, ReplayFaithful
    <2> QED BY <2>2, <2>3, <2>4 DEF FeedRecorded
  <1> QED BY <1>1, WorldPart, WorldInvInit, WorldInvNext, FeedInvInit, FeedInvNext, PTL

-----------------------------------------------------------------------------
(* Calls one after another.                                                *)

\* A set of naturals has a least one.
LEMMA LeastOne ==
  ASSUME NEW T, T \subseteq Nat, T # {}
  PROVE  \E m \in T : \A k \in T : m <= k
  <1>1. PICK m \in T : \A k \in T : ~(<<k, m>> \in OpToRel(<, Nat))
    BY NatLessThanWellFounded, WFMin
  <1>2. ASSUME NEW k \in T PROVE m <= k
    <2>1. ~(k < m)
      BY <1>1, Zenon DEF OpToRel
    <2> QED BY <2>1
  <1> QED BY <1>2

\* g holds what n calls make of f, and what each of them found.
Course(f, calls, n, g) == g = [k \in 0..n |-> IF k = 0 THEN f ELSE Executes(g[k - 1], calls[k])]

\* A course of calls, however long, is there: the shortest that were not could be taken a call further.
LEMMA CourseExists ==
  ASSUME NEW f, NEW calls, NEW n \in Nat
  PROVE  \E g : Course(f, calls, n, g)
  <1> DEFINE T == {m \in Nat : ~ \E g : Course(f, calls, m, g)}
  <1> SUFFICES ASSUME T # {} PROVE FALSE
    OBVIOUS
  <1>1. PICK m \in T : \A k \in T : m <= k
    BY LeastOne
  <1>2. m \in Nat /\ ~ \E g : Course(f, calls, m, g)
    BY <1>1
  <1>3. CASE m = 0
    <2> DEFINE g == [k \in 0..0 |-> f]
    <2>1. g = [k \in 0..0 |-> IF k = 0 THEN f ELSE Executes(g[k - 1], calls[k])]
      OBVIOUS
    <2> QED BY <1>2, <1>3, <2>1 DEF Course
  <1>4. CASE m # 0
    <2>1. m - 1 \in Nat /\ ~(m <= m - 1)
      BY <1>2, <1>4
    <2>2. m - 1 \notin T
      BY <1>1, <2>1
    <2>3. PICK g : Course(f, calls, m - 1, g)
      BY <2>1, <2>2
    <2>4. \A k \in 0..(m - 1) : g[k] = IF k = 0 THEN f ELSE Executes(g[k - 1], calls[k])
      BY <2>3 DEF Course
    <2> DEFINE h == [k \in 0..m |-> IF k = m THEN Executes(g[m - 1], calls[m]) ELSE g[k]]
    <2>5. ASSUME NEW k \in 0..m
          PROVE  h[k] = IF k = 0 THEN f ELSE Executes(h[k - 1], calls[k])
      <3>1. CASE k = m
        <4>1. k - 1 \in 0..m /\ k - 1 # m /\ k # 0
          BY <1>2, <1>4, <3>1
        <4>2. h[k - 1] = g[m - 1] /\ h[k] = Executes(g[m - 1], calls[m])
          BY <3>1, <4>1
        <4> QED BY <3>1, <4>1, <4>2
      <3>2. CASE k # m
        <4>1. k \in 0..(m - 1) /\ (k # 0 => k - 1 \in 0..m /\ k - 1 # m)
          BY <1>2, <3>2
        <4>2. h[k] = g[k] /\ (k # 0 => h[k - 1] = g[k - 1])
          BY <3>2, <4>1
        <4> QED BY <2>4, <4>1, <4>2
      <3> QED BY <3>1, <3>2
    <2>6. h = [k \in 0..m |-> h[k]]
      OBVIOUS
    <2> HIDE DEF h
    <2>7. h = [k \in 0..m |-> IF k = 0 THEN f ELSE Executes(h[k - 1], calls[k])]
      BY <2>5, <2>6
    <2> QED BY <1>2, <2>7 DEF Course
  <1> QED BY <1>3, <1>4

\* As far as they make the same calls, two courses agree.
LEMMA CoursesAgree ==
  ASSUME NEW f, NEW calls, NEW more, NEW n \in Nat, NEW m \in Nat, n <= m,
         \A k \in 1..n : calls[k] = more[k],
         NEW g, Course(f, calls, n, g), NEW h, Course(f, more, m, h)
  PROVE  \A k \in 0..n : g[k] = h[k]
  <1> DEFINE T == {k \in 0..n : g[k] # h[k]}
  <1> SUFFICES ASSUME T # {} PROVE FALSE
    OBVIOUS
  <1>1. PICK k \in T : \A j \in T : k <= j
    <2>1. T \subseteq Nat
      OBVIOUS
    <2> QED BY <2>1, LeastOne
  <1>2. k \in 0..n /\ g[k] # h[k] /\ k \in 0..m
    BY <1>1
  <1>3. /\ g[k] = IF k = 0 THEN f ELSE Executes(g[k - 1], calls[k])
        /\ h[k] = IF k = 0 THEN f ELSE Executes(h[k - 1], more[k])
    BY <1>2 DEF Course
  <1>4. k # 0 /\ k \in 1..n /\ k - 1 \in 0..n /\ ~(k <= k - 1)
    BY <1>2, <1>3
  <1>5. g[k - 1] = h[k - 1]
    BY <1>1, <1>4
  <1> QED BY <1>2, <1>3, <1>4, <1>5

\* ExecutesFirst is where the course of so many calls ends.
LEMMA ExecutesFirstIs ==
  ASSUME NEW f, NEW calls, NEW n \in Nat
  PROVE  \E g : Course(f, calls, n, g) /\ ExecutesFirst(f, calls, n) = g[n]
  <1>1. \E g : Course(f, calls, n, g)
    BY CourseExists
  <1>2. PICK g : g = CHOOSE h : Course(f, calls, n, h)
    OBVIOUS
  <1>3. Course(f, calls, n, g)
    BY <1>1, <1>2
  <1>4. ExecutesFirst(f, calls, n) = g[n]
    BY <1>2, Zenon DEF ExecutesFirst, Course
  <1> QED BY <1>3, <1>4

LEMMA ExecutesAllIs ==
  ASSUME NEW f, NEW calls, Len(calls) \in Nat
  PROVE  \E g : Course(f, calls, Len(calls), g) /\ ExecutesAll(f, calls) = g[Len(calls)]
  <1>1. PICK n \in Nat : n = Len(calls)
    OBVIOUS
  <1>2. \A x, y : \A m \in Nat : \E g : Course(x, y, m, g) /\ ExecutesFirst(x, y, m) = g[m]
    BY ExecutesFirstIs
  <1>3. \E g : Course(f, calls, n, g) /\ ExecutesFirst(f, calls, n) = g[n]
    BY <1>2
  <1> QED BY <1>1, <1>3 DEF ExecutesAll

\* No call leaves the fabric as it is.
LEMMA ExecutesNone ==
  ASSUME NEW f, NEW calls
  PROVE  ExecutesFirst(f, calls, 0) = f
  <1>1. PICK g : Course(f, calls, 0, g) /\ ExecutesFirst(f, calls, 0) = g[0]
    <2>1. \A m \in Nat : \E g : Course(f, calls, m, g) /\ ExecutesFirst(f, calls, m) = g[m]
      BY ExecutesFirstIs
    <2> QED BY <2>1
  <1>2. g[0] = f
    BY <1>1 DEF Course
  <1> QED BY <1>1, <1>2

\* What comes after the first calls makes no difference to them.
LEMMA FirstAgrees ==
  ASSUME NEW f, NEW calls, NEW more, NEW n \in Nat, \A k \in 1..n : calls[k] = more[k]
  PROVE  ExecutesFirst(f, calls, n) = ExecutesFirst(f, more, n)
  <1>1. PICK g : Course(f, calls, n, g) /\ ExecutesFirst(f, calls, n) = g[n]
    BY ExecutesFirstIs
  <1>2. PICK h : Course(f, more, n, h) /\ ExecutesFirst(f, more, n) = h[n]
    BY ExecutesFirstIs
  <1>3. \A k \in 0..n : g[k] = h[k]
    BY <1>1, <1>2, CoursesAgree
  <1> QED BY <1>1, <1>2, <1>3

\* One call more is that call, executed on what the others have made.
LEMMA FirstOneMore ==
  ASSUME NEW f, NEW calls, NEW n \in Nat
  PROVE  ExecutesFirst(f, calls, n + 1) = Executes(ExecutesFirst(f, calls, n), calls[n + 1])
  <1>1. PICK g : Course(f, calls, n, g) /\ ExecutesFirst(f, calls, n) = g[n]
    BY ExecutesFirstIs
  <1>2. PICK m \in Nat : m = n + 1
    OBVIOUS
  <1>3. PICK h : Course(f, calls, m, h) /\ ExecutesFirst(f, calls, m) = h[m]
    BY ExecutesFirstIs
  <1>4. \A k \in 0..n : g[k] = h[k]
    <2>1. n <= m
      BY <1>2
    <2> QED BY <1>1, <1>3, <2>1, CoursesAgree
  <1>5. h[m] = Executes(h[n], calls[m])
    <2>1. m \in 0..m /\ m # 0 /\ m - 1 = n
      BY <1>2
    <2>2. h[m] = IF m = 0 THEN f ELSE Executes(h[m - 1], calls[m])
      BY <1>3, <2>1 DEF Course
    <2> QED BY <2>1, <2>2
  <1> QED BY <1>1, <1>2, <1>3, <1>4, <1>5

\* A call at the end.
OneMoreCall(calls, c, more) ==
    /\ Len(calls) \in Nat /\ Len(more) = Len(calls) + 1 /\ more[Len(calls) + 1] = c
    /\ \A k \in 1..Len(calls) : calls[k] = more[k]

LEMMA ExecutesOneMore ==
  ASSUME NEW f, NEW calls, NEW c, NEW more, OneMoreCall(calls, c, more)
  PROVE  ExecutesAll(f, more) = Executes(ExecutesAll(f, calls), c)
  <1>1. PICK n \in Nat : /\ n = Len(calls) /\ Len(more) = n + 1 /\ more[n + 1] = c
                         /\ \A k \in 1..n : calls[k] = more[k]
    BY DEF OneMoreCall
  <1>2. ExecutesFirst(f, calls, n) = ExecutesFirst(f, more, n)
    BY <1>1, FirstAgrees
  <1>3. ExecutesFirst(f, more, n + 1) = Executes(ExecutesFirst(f, more, n), more[n + 1])
    BY FirstOneMore
  <1> QED BY <1>1, <1>2, <1>3 DEF ExecutesAll

-----------------------------------------------------------------------------
(* A fabric by its fields.                                                 *)

Fab(n, l, k, r, o, a, p, nn, na, nf) ==
    [nodes |-> n, links |-> l, knobs |-> k, radios |-> r, routes |-> o, apps |-> a, places |-> p,
     nextNode |-> nn, nextApp |-> na, nextFace |-> nf]

Shaped(f) == f = Fab(f.nodes, f.links, f.knobs, f.radios, f.routes, f.apps, f.places,
                     f.nextNode, f.nextApp, f.nextFace)

LEMMA FabIs ==
  ASSUME NEW n, NEW l, NEW k, NEW r, NEW o, NEW a, NEW p, NEW nn, NEW na, NEW nf, NEW f, f = Fab(n, l, k, r, o, a, p, nn, na, nf)
  PROVE  /\ Shaped(f)
         /\ f.nodes = n /\ f.links = l /\ f.knobs = k /\ f.radios = r /\ f.routes = o
         /\ f.apps = a /\ f.places = p /\ f.nextNode = nn /\ f.nextApp = na /\ f.nextFace = nf
  BY DEF Shaped, Fab

WithApps(f, a1, na1) == [f EXCEPT !.apps = a1, !.nextApp = na1]
WithLinks(f, l1, k1, nf1) == [f EXCEPT !.links = l1, !.knobs = k1, !.nextFace = nf1]

Without(f, l1, n1, o1) == [f EXCEPT !.links = l1, !.nodes = n1, !.routes = o1]
WithNode(f, n1, nn1, r1, p1) == [f EXCEPT !.nodes = n1, !.nextNode = nn1, !.radios = r1, !.places = p1]

LEMMA FabWithApps ==
  ASSUME NEW n, NEW l, NEW k, NEW r, NEW o, NEW a, NEW p, NEW nn, NEW na, NEW nf, NEW a1, NEW na1
  PROVE  WithApps(Fab(n, l, k, r, o, a, p, nn, na, nf), a1, na1) = Fab(n, l, k, r, o, a1, p, nn, na1, nf)
  <1>1. [Fab(n, l, k, r, o, a, p, nn, na, nf) EXCEPT !.apps = a1] = Fab(n, l, k, r, o, a1, p, nn, na, nf)
    BY DEF Fab
  <1>2. [Fab(n, l, k, r, o, a1, p, nn, na, nf) EXCEPT !.nextApp = na1] = Fab(n, l, k, r, o, a1, p, nn, na1, nf)
    BY DEF Fab
  <1> QED BY <1>1, <1>2 DEF WithApps

LEMMA FabWithLinks ==
  ASSUME NEW n, NEW l, NEW k, NEW r, NEW o, NEW a, NEW p, NEW nn, NEW na, NEW nf, NEW l1, NEW k1, NEW nf1
  PROVE  WithLinks(Fab(n, l, k, r, o, a, p, nn, na, nf), l1, k1, nf1) = Fab(n, l1, k1, r, o, a, p, nn, na, nf1)
  <1>1. [Fab(n, l, k, r, o, a, p, nn, na, nf) EXCEPT !.links = l1] = Fab(n, l1, k, r, o, a, p, nn, na, nf)
    BY DEF Fab
  <1>2. [Fab(n, l1, k, r, o, a, p, nn, na, nf) EXCEPT !.knobs = k1] = Fab(n, l1, k1, r, o, a, p, nn, na, nf)
    BY DEF Fab
  <1>3. [Fab(n, l1, k1, r, o, a, p, nn, na, nf) EXCEPT !.nextFace = nf1] = Fab(n, l1, k1, r, o, a, p, nn, na, nf1)
    BY DEF Fab
  <1> QED BY <1>1, <1>2, <1>3 DEF WithLinks

LEMMA FabWithout ==
  ASSUME NEW n, NEW l, NEW k, NEW r, NEW o, NEW a, NEW p, NEW nn, NEW na, NEW nf, NEW l1, NEW n1, NEW o1
  PROVE  Without(Fab(n, l, k, r, o, a, p, nn, na, nf), l1, n1, o1) = Fab(n1, l1, k, r, o1, a, p, nn, na, nf)
  <1>1. [Fab(n, l, k, r, o, a, p, nn, na, nf) EXCEPT !.links = l1] = Fab(n, l1, k, r, o, a, p, nn, na, nf)
    BY DEF Fab
  <1>2. [Fab(n, l1, k, r, o, a, p, nn, na, nf) EXCEPT !.nodes = n1] = Fab(n1, l1, k, r, o, a, p, nn, na, nf)
    BY DEF Fab
  <1>3. [Fab(n1, l1, k, r, o, a, p, nn, na, nf) EXCEPT !.routes = o1] = Fab(n1, l1, k, r, o1, a, p, nn, na, nf)
    BY DEF Fab
  <1> QED BY <1>1, <1>2, <1>3 DEF Without

LEMMA FabWithNode ==
  ASSUME NEW n, NEW l, NEW k, NEW r, NEW o, NEW a, NEW p, NEW nn, NEW na, NEW nf, NEW n1, NEW nn1, NEW r1, NEW p1
  PROVE  WithNode(Fab(n, l, k, r, o, a, p, nn, na, nf), n1, nn1, r1, p1) = Fab(n1, l, k, r1, o, a, p1, nn1, na, nf)
  <1>1. [Fab(n, l, k, r, o, a, p, nn, na, nf) EXCEPT !.nodes = n1] = Fab(n1, l, k, r, o, a, p, nn, na, nf)
    BY DEF Fab
  <1>2. [Fab(n1, l, k, r, o, a, p, nn, na, nf) EXCEPT !.nextNode = nn1] = Fab(n1, l, k, r, o, a, p, nn1, na, nf)
    BY DEF Fab
  <1>3. [Fab(n1, l, k, r, o, a, p, nn1, na, nf) EXCEPT !.radios = r1] = Fab(n1, l, k, r1, o, a, p, nn1, na, nf)
    BY DEF Fab
  <1>4. [Fab(n1, l, k, r1, o, a, p, nn1, na, nf) EXCEPT !.places = p1] = Fab(n1, l, k, r1, o, a, p1, nn1, na, nf)
    BY DEF Fab
  <1> QED BY <1>1, <1>2, <1>3, <1>4 DEF WithNode

\* A fabric with more nodes and apps.
Overlay(f, x, y) == [f EXCEPT !.nodes = Under(@, x), !.apps = Under(@, y)]

WithMaps(f, n1, a1) == [f EXCEPT !.nodes = n1, !.apps = a1]

LEMMA OverlayIs ==
  ASSUME NEW n, NEW l, NEW k, NEW r, NEW o, NEW a, NEW p, NEW nn, NEW na, NEW nf, NEW x, NEW y
  PROVE  Overlay(Fab(n, l, k, r, o, a, p, nn, na, nf), x, y) = Fab(Under(n, x), l, k, r, o, Under(a, y), p, nn, na, nf)
  <1>1. PICK f, n1, a1 : f = Fab(n, l, k, r, o, a, p, nn, na, nf) /\ n1 = Under(n, x) /\ a1 = Under(a, y)
    OBVIOUS
  <1>2. [Fab(n, l, k, r, o, a, p, nn, na, nf) EXCEPT !.nodes = n1] = Fab(n1, l, k, r, o, a, p, nn, na, nf)
    BY DEF Fab
  <1>3. [Fab(n1, l, k, r, o, a, p, nn, na, nf) EXCEPT !.apps = a1] = Fab(n1, l, k, r, o, a1, p, nn, na, nf)
    BY DEF Fab
  <1>4. WithMaps(f, n1, a1) = Fab(n1, l, k, r, o, a1, p, nn, na, nf)
    BY <1>1, <1>2, <1>3 DEF WithMaps
  <1>5. f.nodes = n /\ f.apps = a
    BY <1>1, FabIs
  <1>6. Overlay(f, x, y) = WithMaps(f, n1, a1)
    BY <1>1, <1>5, Zenon DEF Overlay, WithMaps
  <1> QED BY <1>1, <1>4, <1>6

\* A call that touches neither the nodes nor the apps does the same with more of them.
LEMMA DoesElsewhere ==
  ASSUME NEW f, Shaped(f), NEW x, NEW y, NEW c,
         c.cmd \notin {"spawn", "remove", "declare", "app", "apps", "stop"}
  PROVE  /\ Does(Overlay(f, x, y), c) = Overlay(Does(f, c), x, y)
         /\ Shaped(Does(f, c))
         /\ Does(f, c).nodes = f.nodes /\ Does(f, c).nextNode = f.nextNode
         /\ Does(f, c).apps = f.apps /\ Does(f, c).nextApp = f.nextApp
  <1>1. PICK n, l, k, r, o, a, p, nn, na, nf : f = Fab(n, l, k, r, o, a, p, nn, na, nf)
    BY DEF Shaped
  <1>2. Overlay(f, x, y) = Fab(Under(n, x), l, k, r, o, Under(a, y), p, nn, na, nf)
    BY <1>1, OverlayIs
  <1> SUFFICES \E l1, k1, o1, p1, nf1 :
                  /\ Does(f, c) = Fab(n, l1, k1, r, o1, a, p1, nn, na, nf1)
                  /\ Does(Overlay(f, x, y), c) = Fab(Under(n, x), l1, k1, r, o1, Under(a, y), p1, nn, na, nf1)
    <2>1. PICK l1, k1, o1, p1, nf1 :
                  /\ Does(f, c) = Fab(n, l1, k1, r, o1, a, p1, nn, na, nf1)
                  /\ Does(Overlay(f, x, y), c) = Fab(Under(n, x), l1, k1, r, o1, Under(a, y), p1, nn, na, nf1)
      OBVIOUS
    <2>2. Overlay(Does(f, c), x, y) = Does(Overlay(f, x, y), c)
      BY <2>1, OverlayIs
    <2>3. /\ Shaped(Does(f, c)) /\ Does(f, c).nodes = n /\ Does(f, c).nextNode = nn
          /\ Does(f, c).apps = a /\ Does(f, c).nextApp = na
      BY <2>1, FabIs
    <2>4. f.nodes = n /\ f.nextNode = nn /\ f.apps = a /\ f.nextApp = na
      BY <1>1, FabIs
    <2> QED BY <2>2, <2>3, <2>4
  <1>a. /\ \A u, v, w : WithLinks(f, u, v, w) = Fab(n, u, v, r, o, a, p, nn, na, w)
        /\ \A u, v, w : WithLinks(Overlay(f, x, y), u, v, w) = Fab(Under(n, x), u, v, r, o, Under(a, y), p, nn, na, w)
    <2>1. \A b1, b2, b3, b4, b5, b6, b7, b8, b9, b10, u, v, w :
             WithLinks(Fab(b1, b2, b3, b4, b5, b6, b7, b8, b9, b10), u, v, w) = Fab(b1, u, v, b4, b5, b6, b7, b8, b9, w)
      BY FabWithLinks
    <2> QED BY <1>1, <1>2, <2>1, SMT
  <1>3. CASE c.cmd = "connect"
    <2>1. PICK g : g = Overlay(f, x, y)
      OBVIOUS
    <2>2. Does(f, c) = Connects(f, c.a, c.b) /\ Does(g, c) = Connects(g, c.a, c.b)
      BY <1>3 DEF Does
    <2>3. g.knobs = f.knobs /\ g.links = f.links /\ g.nextFace = f.nextFace
      BY <1>1, <1>2, <2>1, FabIs
    <2>4. PICK l1, k1, nf1 : l1 = Bind(Bind(f.links, <<c.a, c.b>>, f.nextFace), <<c.b, c.a>>, f.nextFace + 1) /\ k1 = Bind(Bind(f.knobs, <<c.a, c.b>>, "up"), <<c.b, c.a>>, "up") /\ nf1 = f.nextFace + 2
      OBVIOUS
    <2>5. l1 = Bind(Bind(g.links, <<c.a, c.b>>, g.nextFace), <<c.b, c.a>>, g.nextFace + 1) /\ k1 = Bind(Bind(g.knobs, <<c.a, c.b>>, "up"), <<c.b, c.a>>, "up") /\ nf1 = g.nextFace + 2
      BY <2>3, <2>4, Zenon
    <2>6. Connects(f, c.a, c.b) = WithLinks(f, l1, k1, nf1)
      BY <2>4, Zenon DEF Connects, WithLinks
    <2>7. Connects(g, c.a, c.b) = WithLinks(g, l1, k1, nf1)
      BY <2>5, Zenon DEF Connects, WithLinks
    <2>8. WithLinks(f, l1, k1, nf1) = Fab(n, l1, k1, r, o, a, p, nn, na, nf1)
      BY <1>a, Zenon
    <2>9. WithLinks(g, l1, k1, nf1) = Fab(Under(n, x), l1, k1, r, o, Under(a, y), p, nn, na, nf1)
      BY <1>a, <2>1, Zenon
    <2> QED BY <2>1, <2>2, <2>6, <2>7, <2>8, <2>9
  <1>4. CASE c.cmd = "route"
    <2>1. Does(f, c) = Routes(f, c.node, c.nexthop) /\ Does(Overlay(f, x, y), c) = Routes(Overlay(f, x, y), c.node, c.nexthop)
      BY <1>4 DEF Does
    <2>2. Routes(f, c.node, c.nexthop) = Fab(n, l, k, r, o \cup {<<c.node, l[<<c.node, c.nexthop>>]>>}, a, p, nn, na, nf)
      BY <1>1 DEF Routes, Fab
    <2>3. Routes(Overlay(f, x, y), c.node, c.nexthop) = Fab(Under(n, x), l, k, r, o \cup {<<c.node, l[<<c.node, c.nexthop>>]>>}, Under(a, y), p, nn, na, nf)
      BY <1>2 DEF Routes, Fab
    <2> QED BY <2>1, <2>2, <2>3
  <1>5. CASE c.cmd = "radio"
    <2>1. Does(f, c) = RoutesOverRadio(f, c.node) /\ Does(Overlay(f, x, y), c) = RoutesOverRadio(Overlay(f, x, y), c.node)
      BY <1>5 DEF Does
    <2>2. RoutesOverRadio(f, c.node) = Fab(n, l, k, r, o \cup {<<c.node, RadioFace>>}, a, p, nn, na, nf)
      BY <1>1 DEF RoutesOverRadio, Fab
    <2>3. RoutesOverRadio(Overlay(f, x, y), c.node) = Fab(Under(n, x), l, k, r, o \cup {<<c.node, RadioFace>>}, Under(a, y), p, nn, na, nf)
      BY <1>2 DEF RoutesOverRadio, Fab
    <2> QED BY <2>1, <2>2, <2>3
  <1>6. CASE c.cmd = "move"
    <2>1. Does(f, c) = Moves(f, c.node, c.to) /\ Does(Overlay(f, x, y), c) = Moves(Overlay(f, x, y), c.node, c.to)
      BY <1>6 DEF Does
    <2>2. Moves(f, c.node, c.to) = Fab(n, l, k, r, o, a, Bind(p, c.node, c.to), nn, na, nf)
      BY <1>1 DEF Moves, Fab
    <2>3. Moves(Overlay(f, x, y), c.node, c.to) = Fab(Under(n, x), l, k, r, o, Under(a, y), Bind(p, c.node, c.to), nn, na, nf)
      BY <1>2 DEF Moves, Fab
    <2> QED BY <2>1, <2>2, <2>3
  <1>7. CASE c.cmd = "link"
    <2>1. Does(f, c) = Turns(f, {<<c.a, c.b>>, <<c.b, c.a>>}, c.knob) /\ Does(Overlay(f, x, y), c) = Turns(Overlay(f, x, y), {<<c.a, c.b>>, <<c.b, c.a>>}, c.knob)
      BY <1>7 DEF Does
    <2>2. Turns(f, {<<c.a, c.b>>, <<c.b, c.a>>}, c.knob) = Fab(n, l, [q \in DOMAIN k |-> IF q \in {<<c.a, c.b>>, <<c.b, c.a>>} THEN c.knob ELSE k[q]], r, o, a, p, nn, na, nf)
      BY <1>1 DEF Turns, Fab
    <2>3. Turns(Overlay(f, x, y), {<<c.a, c.b>>, <<c.b, c.a>>}, c.knob) = Fab(Under(n, x), l, [q \in DOMAIN k |-> IF q \in {<<c.a, c.b>>, <<c.b, c.a>>} THEN c.knob ELSE k[q]], r, o, Under(a, y), p, nn, na, nf)
      BY <1>2 DEF Turns, Fab
    <2> QED BY <2>1, <2>2, <2>3
  <1>8. CASE c.cmd = "part"
    <2>1. Does(f, c) = Turns(f, Across(f, c.group), "cut") /\ Does(Overlay(f, x, y), c) = Turns(Overlay(f, x, y), Across(Overlay(f, x, y), c.group), "cut")
      BY <1>8 DEF Does
    <2>2. Turns(f, Across(f, c.group), "cut") = Fab(n, l, [q \in DOMAIN k |-> IF q \in {w \in DOMAIN k : (w[1] \in c.group) # (w[2] \in c.group)} THEN "cut" ELSE k[q]], r, o, a, p, nn, na, nf)
      BY <1>1 DEF Turns, Across, Fab
    <2>3. Turns(Overlay(f, x, y), Across(Overlay(f, x, y), c.group), "cut") = Fab(Under(n, x), l, [q \in DOMAIN k |-> IF q \in {w \in DOMAIN k : (w[1] \in c.group) # (w[2] \in c.group)} THEN "cut" ELSE k[q]], r, o, Under(a, y), p, nn, na, nf)
      BY <1>2 DEF Turns, Across, Fab
    <2> QED BY <2>1, <2>2, <2>3
  <1>9. CASE c.cmd = "heal"
    <2>1. Does(f, c) = Turns(f, DOMAIN f.knobs, "up") /\ Does(Overlay(f, x, y), c) = Turns(Overlay(f, x, y), DOMAIN Overlay(f, x, y).knobs, "up")
      BY <1>9 DEF Does
    <2>2. Turns(f, DOMAIN f.knobs, "up") = Fab(n, l, [q \in DOMAIN k |-> IF q \in DOMAIN k THEN "up" ELSE k[q]], r, o, a, p, nn, na, nf)
      BY <1>1 DEF Turns, Fab
    <2>3. Turns(Overlay(f, x, y), DOMAIN Overlay(f, x, y).knobs, "up") = Fab(Under(n, x), l, [q \in DOMAIN k |-> IF q \in DOMAIN k THEN "up" ELSE k[q]], r, o, Under(a, y), p, nn, na, nf)
      BY <1>2 DEF Turns, Fab
    <2> QED BY <2>1, <2>2, <2>3
  <1>10. CASE c.cmd \notin {"connect", "route", "radio", "move", "link", "part", "heal"}
    <2>1. Does(f, c) = f /\ Does(Overlay(f, x, y), c) = Overlay(f, x, y)
      BY <1>10 DEF Does
    <2> QED BY <1>1, <1>2, <2>1
  <1> QED BY <1>3, <1>4, <1>5, <1>6, <1>7, <1>8, <1>9, <1>10

-----------------------------------------------------------------------------
(* Maps with more entries under them.                                      *)

\* Two maps are the same if they have the same entries.
LEMMA SameMap ==
  ASSUME NEW m, NEW w, m = [v \in DOMAIN m |-> m[v]], w = [v \in DOMAIN w |-> w[v]],
         DOMAIN m = DOMAIN w, \A v \in DOMAIN m : m[v] = w[v]
  PROVE  m = w
  OBVIOUS

\* An entry that is not under the map goes.
LEMMA UnderLess ==
  ASSUME NEW m, NEW x, NEW key, key \notin DOMAIN x
  PROVE  Restrict(Under(m, x), DOMAIN Under(m, x) \ {key}) = Under(Restrict(m, DOMAIN m \ {key}), x)
  <1>1. PICK u, w, l, r : /\ u = Under(m, x) /\ l = Restrict(u, DOMAIN u \ {key})
                          /\ w = Restrict(m, DOMAIN m \ {key}) /\ r = Under(w, x)
    OBVIOUS
  <1>2. /\ DOMAIN u = DOMAIN m \cup DOMAIN x
        /\ \A v \in DOMAIN u : u[v] = IF v \in DOMAIN m THEN m[v] ELSE x[v]
    BY <1>1 DEF Under
  <1>3. /\ DOMAIN l = DOMAIN u \ {key} /\ \A v \in DOMAIN u \ {key} : l[v] = u[v]
        /\ l = [v \in DOMAIN l |-> l[v]]
    BY <1>1 DEF Restrict
  <1>4. DOMAIN w = DOMAIN m \ {key} /\ \A v \in DOMAIN m \ {key} : w[v] = m[v]
    BY <1>1 DEF Restrict
  <1>5. /\ DOMAIN r = DOMAIN w \cup DOMAIN x
        /\ \A v \in DOMAIN r : r[v] = IF v \in DOMAIN w THEN w[v] ELSE x[v]
        /\ r = [v \in DOMAIN r |-> r[v]]
    BY <1>1 DEF Under
  <1>6. DOMAIN l = DOMAIN r
    BY <1>2, <1>3, <1>4, <1>5
  <1>7. \A v \in DOMAIN l : l[v] = r[v]
    BY <1>2, <1>3, <1>4, <1>5
  <1>8. l = r
    BY <1>3, <1>5, <1>6, <1>7, SameMap
  <1> QED BY <1>1, <1>8

\* A new entry is as good under the map as in it.
LEMMA UnderMore ==
  ASSUME NEW m, NEW x, NEW key, NEW value, key \notin DOMAIN m
  PROVE  Bind(Under(m, x), key, value) = Under(m, Bind(x, key, value))
  <1>1. PICK u, w, l, r : /\ u = Under(m, x) /\ l = Bind(u, key, value)
                          /\ w = Bind(x, key, value) /\ r = Under(m, w)
    OBVIOUS
  <1>2. /\ DOMAIN u = DOMAIN m \cup DOMAIN x
        /\ \A v \in DOMAIN u : u[v] = IF v \in DOMAIN m THEN m[v] ELSE x[v]
    BY <1>1 DEF Under
  <1>3. /\ DOMAIN l = DOMAIN u \cup {key} /\ \A v \in DOMAIN l : l[v] = IF v = key THEN value ELSE u[v]
        /\ l = [v \in DOMAIN l |-> l[v]]
    BY <1>1 DEF Bind
  <1>4. DOMAIN w = DOMAIN x \cup {key} /\ \A v \in DOMAIN w : w[v] = IF v = key THEN value ELSE x[v]
    BY <1>1 DEF Bind
  <1>5. /\ DOMAIN r = DOMAIN m \cup DOMAIN w
        /\ \A v \in DOMAIN r : r[v] = IF v \in DOMAIN m THEN m[v] ELSE w[v]
        /\ r = [v \in DOMAIN r |-> r[v]]
    BY <1>1 DEF Under
  <1>6. DOMAIN l = DOMAIN r
    BY <1>2, <1>3, <1>4, <1>5
  <1>7. \A v \in DOMAIN l : l[v] = r[v]
    BY <1>2, <1>3, <1>4, <1>5
  <1>8. l = r
    BY <1>3, <1>5, <1>6, <1>7, SameMap
  <1> QED BY <1>1, <1>8

\* An entry under the map comes into it.
LEMMA UnderNow ==
  ASSUME NEW m, NEW x, NEW z, NEW key \in DOMAIN x, key \notin DOMAIN m,
         DOMAIN z = DOMAIN x \ {key}, \A v \in DOMAIN z : z[v] = x[v]
  PROVE  Under(Bind(m, key, x[key]), z) = Under(m, x)
  <1>1. PICK w, l, r : w = Bind(m, key, x[key]) /\ l = Under(w, z) /\ r = Under(m, x)
    OBVIOUS
  <1>2. DOMAIN w = DOMAIN m \cup {key} /\ \A v \in DOMAIN w : w[v] = IF v = key THEN x[key] ELSE m[v]
    BY <1>1 DEF Bind
  <1>3. /\ DOMAIN l = DOMAIN w \cup DOMAIN z
        /\ \A v \in DOMAIN l : l[v] = IF v \in DOMAIN w THEN w[v] ELSE z[v]
        /\ l = [v \in DOMAIN l |-> l[v]]
    BY <1>1 DEF Under
  <1>4. /\ DOMAIN r = DOMAIN m \cup DOMAIN x
        /\ \A v \in DOMAIN r : r[v] = IF v \in DOMAIN m THEN m[v] ELSE x[v]
        /\ r = [v \in DOMAIN r |-> r[v]]
    BY <1>1 DEF Under
  <1>5. DOMAIN l = DOMAIN r
    BY <1>2, <1>3, <1>4
  <1>6. ASSUME NEW v \in DOMAIN l PROVE l[v] = r[v]
    <2>1. CASE v = key
      BY <1>2, <1>3, <1>4, <2>1
    <2>2. CASE v # key /\ v \in DOMAIN m
      BY <1>2, <1>3, <1>4, <1>5, <2>2
    <2>3. CASE v # key /\ v \notin DOMAIN m
      BY <1>2, <1>3, <1>4, <1>5, <2>3
    <2> QED BY <2>1, <2>2, <2>3
  <1>7. l = r
    BY <1>3, <1>4, <1>5, <1>6, SameMap
  <1> QED BY <1>1, <1>7

LEMMA UnderNone ==
  ASSUME NEW m, m = [v \in DOMAIN m |-> m[v]], NEW x, DOMAIN x = {}
  PROVE  Under(m, x) = m
  <1>1. Under(m, x) = [v \in DOMAIN m |-> m[v]]
    BY DEF Under
  <1> QED BY <1>1

-----------------------------------------------------------------------------
(* What the calls leave of the nodes and the apps.                         *)

\* Numbers are drawn in order: no node and no app has one that is still to be drawn.
Ordered(f) ==
    /\ Shaped(f)
    /\ f.nextNode \in Nat /\ DOMAIN f.nodes \subseteq 0..(f.nextNode - 1)
    /\ f.nextApp \in Nat /\ DOMAIN f.apps \subseteq 0..(f.nextApp - 1)
    /\ f.nodes = [id \in DOMAIN f.nodes |-> f.nodes[id]]
    /\ f.apps = [id \in DOMAIN f.apps |-> f.apps[id]]

\* A fabric by its nodes and apps.
Like(g, nodes, nextNode, apps, nextApp) ==
    /\ Shaped(g)
    /\ g.nodes = nodes /\ g.nextNode = nextNode /\ g.apps = apps /\ g.nextApp = nextApp

LEMMA RemovesIs ==
  ASSUME NEW f, Shaped(f), NEW node
  PROVE  Like(Removes(f, node), Restrict(f.nodes, DOMAIN f.nodes \ {node}), f.nextNode, f.apps, f.nextApp)
  <1>1. PICK n, l, k, r, o, a, p, nn, na, nf : f = Fab(n, l, k, r, o, a, p, nn, na, nf)
    BY DEF Shaped
  <1>2. f.nodes = n /\ f.nextNode = nn /\ f.apps = a /\ f.nextApp = na
    BY <1>1, FabIs
  <1>3. PICK l1, o1, n1 : /\ l1 = Restrict(f.links, {q \in DOMAIN f.links : node \notin {q[1], q[2]}})
                          /\ o1 = {q \in f.routes : q[1] # node}
                          /\ n1 = Restrict(f.nodes, DOMAIN f.nodes \ {node})
    OBVIOUS
  <1>4. Removes(f, node) = Without(f, l1, n1, o1)
    BY <1>3, Zenon DEF Removes, Without
  <1>5. Removes(f, node) = Fab(n1, l1, k, r, o1, a, p, nn, na, nf)
    <2>1. \A b1, b2, b3, b4, b5, b6, b7, b8, b9, b10, u, v, w :
             Without(Fab(b1, b2, b3, b4, b5, b6, b7, b8, b9, b10), u, v, w) = Fab(v, u, b3, b4, w, b6, b7, b8, b9, b10)
      BY FabWithout
    <2> QED BY <1>1, <1>4, <2>1, SMT
  <1>6. Like(Removes(f, node), n1, nn, a, na)
    BY <1>5, FabIs DEF Like
  <1> QED BY <1>2, <1>3, <1>6

LEMMA StopsIs ==
  ASSUME NEW f, Shaped(f), NEW app
  PROVE  Like(StopsApp(f, app), f.nodes, f.nextNode, Restrict(f.apps, DOMAIN f.apps \ {app}), f.nextApp)
  <1>1. PICK n, l, k, r, o, a, p, nn, na, nf : f = Fab(n, l, k, r, o, a, p, nn, na, nf)
    BY DEF Shaped
  <1>2. f.nodes = n /\ f.nextNode = nn /\ f.apps = a /\ f.nextApp = na
    BY <1>1, FabIs
  <1>3. PICK a1 : a1 = Restrict(f.apps, DOMAIN f.apps \ {app})
    OBVIOUS
  <1>4. StopsApp(f, app) = Fab(n, l, k, r, o, a1, p, nn, na, nf)
    <2>1. [Fab(n, l, k, r, o, a, p, nn, na, nf) EXCEPT !.apps = a1] = Fab(n, l, k, r, o, a1, p, nn, na, nf)
      BY DEF Fab
    <2>2. StopsApp(f, app) = [f EXCEPT !.apps = a1]
      BY <1>3, Zenon DEF StopsApp
    <2> QED BY <1>1, <2>1, <2>2
  <1>5. Like(StopsApp(f, app), n, nn, a1, na)
    BY <1>4, FabIs DEF Like
  <1> QED BY <1>2, <1>3, <1>5

\* Removing a node that is not among those under way.
LEMMA RemovesOver ==
  ASSUME NEW f, Shaped(f), NEW x, NEW y, NEW node, node \notin DOMAIN x
  PROVE  Removes(Overlay(f, x, y), node) = Overlay(Removes(f, node), x, y)
  <1>1. PICK n, l, k, r, o, a, p, nn, na, nf : f = Fab(n, l, k, r, o, a, p, nn, na, nf)
    BY DEF Shaped
  <1>2. Overlay(f, x, y) = Fab(Under(n, x), l, k, r, o, Under(a, y), p, nn, na, nf)
    BY <1>1, OverlayIs
  <1>3. PICK l1, o1, n1 : /\ l1 = Restrict(l, {q \in DOMAIN l : node \notin {q[1], q[2]}})
                          /\ o1 = {q \in o : q[1] # node}
                          /\ n1 = Restrict(n, DOMAIN n \ {node})
    OBVIOUS
  <1>4. f.nodes = n /\ f.links = l /\ f.routes = o /\ f.nextNode = nn /\ f.apps = a /\ f.nextApp = na
    BY <1>1, FabIs
  <1>5. PICK g, n2 : g = Overlay(f, x, y) /\ n2 = Under(n1, x)
    OBVIOUS
  <1>6. g.nodes = Under(n, x) /\ g.links = l /\ g.routes = o
    BY <1>2, <1>5, FabIs
  <1>7. n2 = Restrict(g.nodes, DOMAIN g.nodes \ {node})
    <2>1. Restrict(Under(n, x), DOMAIN Under(n, x) \ {node}) = Under(Restrict(n, DOMAIN n \ {node}), x)
      BY UnderLess
    <2> QED BY <1>3, <1>5, <1>6, <2>1
  <1>8. \A b1, b2, b3, b4, b5, b6, b7, b8, b9, b10, u, v, w :
           Without(Fab(b1, b2, b3, b4, b5, b6, b7, b8, b9, b10), u, v, w) = Fab(v, u, b3, b4, w, b6, b7, b8, b9, b10)
    BY FabWithout
  <1>9. Removes(f, node) = Fab(n1, l1, k, r, o1, a, p, nn, na, nf)
    <2>1. Removes(f, node) = Without(f, l1, n1, o1)
      BY <1>3, <1>4, Zenon DEF Removes, Without
    <2> QED BY <1>1, <1>8, <2>1, SMT
  <1>10. Removes(g, node) = Fab(n2, l1, k, r, o1, Under(a, y), p, nn, na, nf)
    <2>1. l1 = Restrict(g.links, {q \in DOMAIN g.links : node \notin {q[1], q[2]}}) /\ o1 = {q \in g.routes : q[1] # node}
      BY <1>3, <1>6, Zenon
    <2>2. Removes(g, node) = Without(g, l1, n2, o1)
      BY <1>7, <2>1, Zenon DEF Removes, Without
    <2> QED BY <1>2, <1>5, <1>8, <2>2, SMT
  <1>11. Overlay(Removes(f, node), x, y) = Fab(n2, l1, k, r, o1, Under(a, y), p, nn, na, nf)
    BY <1>5, <1>9, OverlayIs
  <1> QED BY <1>5, <1>10, <1>11

\* Stopping an app that is not among those under way.
LEMMA StopsOver ==
  ASSUME NEW f, Shaped(f), NEW x, NEW y, NEW app, app \notin DOMAIN y
  PROVE  StopsApp(Overlay(f, x, y), app) = Overlay(StopsApp(f, app), x, y)
  <1>1. PICK n, l, k, r, o, a, p, nn, na, nf : f = Fab(n, l, k, r, o, a, p, nn, na, nf)
    BY DEF Shaped
  <1>2. PICK n2, a2 : n2 = Under(n, x) /\ a2 = Under(a, y)
    OBVIOUS
  <1>3. PICK g : g = Overlay(f, x, y)
    OBVIOUS
  <1>4. g = Fab(n2, l, k, r, o, a2, p, nn, na, nf)
    BY <1>1, <1>2, <1>3, OverlayIs
  <1>5. /\ f.nodes = n /\ f.nextNode = nn /\ f.apps = a /\ f.nextApp = na
        /\ g.apps = a2
    <2>1. f.nodes = n /\ f.nextNode = nn /\ f.apps = a /\ f.nextApp = na
      BY <1>1, FabIs
    <2>2. g.apps = a2
      BY <1>4, FabIs
    <2> QED BY <2>1, <2>2
  <1>6. PICK a1, a3 : a1 = Restrict(a, DOMAIN a \ {app}) /\ a3 = Restrict(a2, DOMAIN a2 \ {app})
    OBVIOUS
  <1>7. a3 = Under(a1, y)
    <2>1. Restrict(Under(a, y), DOMAIN Under(a, y) \ {app}) = Under(Restrict(a, DOMAIN a \ {app}), y)
      BY UnderLess
    <2> QED BY <1>2, <1>6, <2>1
  <1>8. StopsApp(f, app) = Fab(n, l, k, r, o, a1, p, nn, na, nf)
    <2>1. [Fab(n, l, k, r, o, a, p, nn, na, nf) EXCEPT !.apps = a1] = Fab(n, l, k, r, o, a1, p, nn, na, nf)
      BY DEF Fab
    <2>2. StopsApp(f, app) = [f EXCEPT !.apps = a1]
      BY <1>5, <1>6, Zenon DEF StopsApp
    <2> QED BY <1>1, <2>1, <2>2
  <1>9. StopsApp(g, app) = Fab(n2, l, k, r, o, a3, p, nn, na, nf)
    <2>1. [Fab(n2, l, k, r, o, a2, p, nn, na, nf) EXCEPT !.apps = a3] = Fab(n2, l, k, r, o, a3, p, nn, na, nf)
      BY DEF Fab
    <2>2. StopsApp(g, app) = [g EXCEPT !.apps = a3]
      BY <1>5, <1>6, Zenon DEF StopsApp
    <2> QED BY <1>4, <2>1, <2>2
  <1>10. Overlay(StopsApp(f, app), x, y) = Fab(n2, l, k, r, o, a3, p, nn, na, nf)
    BY <1>2, <1>7, <1>8, OverlayIs
  <1> QED BY <1>3, <1>9, <1>10

\* A spawn draws a number and leaves the rest; what was spawned is put in its map.
LEMMA SpawnsIs ==
  ASSUME NEW f, Shaped(f), NEW id, NEW value
  PROVE  /\ Like(Draws(f), f.nodes, f.nextNode + 1, f.apps, f.nextApp)
         /\ Like(DrawsApp(f), f.nodes, f.nextNode, f.apps, f.nextApp + 1)
         /\ Like(Inserts(f, id, value), Bind(f.nodes, id, value), f.nextNode, f.apps, f.nextApp)
         /\ Like(RecordsApp(f, id, value), f.nodes, f.nextNode, Bind(f.apps, id, value), f.nextApp)
  <1>1. PICK n, l, k, r, o, a, p, nn, na, nf : f = Fab(n, l, k, r, o, a, p, nn, na, nf)
    BY DEF Shaped
  <1>2. f.nodes = n /\ f.nextNode = nn /\ f.apps = a /\ f.nextApp = na
    BY <1>1, FabIs
  <1>3. PICK n1, a1 : n1 = Bind(n, id, value) /\ a1 = Bind(a, id, value)
    OBVIOUS
  <1>4. Draws(f) = Fab(n, l, k, r, o, a, p, nn + 1, na, nf)
    BY <1>1 DEF Draws, Fab
  <1>5. DrawsApp(f) = Fab(n, l, k, r, o, a, p, nn, na + 1, nf)
    BY <1>1 DEF DrawsApp, Fab
  <1>6. Inserts(f, id, value) = Fab(n1, l, k, r, o, a, p, nn, na, nf)
    BY <1>1, <1>3 DEF Inserts, Fab
  <1>7. RecordsApp(f, id, value) = Fab(n, l, k, r, o, a1, p, nn, na, nf)
    BY <1>1, <1>3 DEF RecordsApp, Fab
  <1>8. Like(Draws(f), n, nn + 1, a, na)
    BY <1>4, FabIs DEF Like
  <1>9. Like(DrawsApp(f), n, nn, a, na + 1)
    BY <1>5, FabIs DEF Like
  <1>10. Like(Inserts(f, id, value), n1, nn, a, na)
    BY <1>6, FabIs DEF Like
  <1>11. Like(RecordsApp(f, id, value), n, nn, a1, na)
    BY <1>7, FabIs DEF Like
  <1> QED BY <1>2, <1>3, <1>8, <1>9, <1>10, <1>11

\* Whether a call succeeds does not depend on nodes and apps it does not name.
LEMMA SucceedsOver ==
  ASSUME NEW f, Shaped(f), NEW x, NEW y, NEW c,
         Names(c) \cap DOMAIN x = {}, c.cmd = "stop" => c.app \notin DOMAIN y
  PROVE  Succeeds(Overlay(f, x, y), c) <=> Succeeds(f, c)
  <1>1. PICK n, l, k, r, o, a, p, nn, na, nf : f = Fab(n, l, k, r, o, a, p, nn, na, nf)
    BY DEF Shaped
  <1>2. PICK g : g = Overlay(f, x, y)
    OBVIOUS
  <1>3. g = Fab(Under(n, x), l, k, r, o, Under(a, y), p, nn, na, nf)
    BY <1>1, <1>2, OverlayIs
  <1>4. /\ g.nodes = Under(n, x) /\ g.links = f.links /\ g.knobs = f.knobs /\ g.radios = f.radios
        /\ g.apps = Under(a, y) /\ f.nodes = n /\ f.apps = a
    BY <1>1, <1>3, FabIs
  <1>5. DOMAIN g.nodes = DOMAIN f.nodes \cup DOMAIN x /\ DOMAIN g.apps = DOMAIN f.apps \cup DOMAIN y
    BY <1>4 DEF Under
  <1> SUFFICES Succeeds(g, c) <=> Succeeds(f, c)
    BY <1>2
  <1>6. CASE c.cmd \in {"remove", "app"}
    <2>1. Names(c) = {c.node}
      BY <1>6 DEF Names
    <2>2. /\ Succeeds(g, c) <=> c.node \in DOMAIN g.nodes
          /\ Succeeds(f, c) <=> c.node \in DOMAIN f.nodes
      BY <1>6 DEF Succeeds
    <2> QED BY <1>5, <2>1, <2>2
  <1>7. CASE c.cmd = "connect"
    <2>1. Names(c) = {c.a, c.b}
      BY <1>7 DEF Names
    <2>2. /\ Succeeds(g, c) <=> {c.a, c.b} \subseteq DOMAIN g.nodes
          /\ Succeeds(f, c) <=> {c.a, c.b} \subseteq DOMAIN f.nodes
      BY <1>7 DEF Succeeds
    <2> QED BY <1>5, <2>1, <2>2
  <1>8. CASE c.cmd = "route"
    <2>1. Names(c) = {c.node}
      BY <1>8 DEF Names
    <2>2. /\ Succeeds(g, c) <=> <<c.node, c.nexthop>> \in DOMAIN g.links /\ c.node \in DOMAIN g.nodes
          /\ Succeeds(f, c) <=> <<c.node, c.nexthop>> \in DOMAIN f.links /\ c.node \in DOMAIN f.nodes
      BY <1>8 DEF Succeeds
    <2> QED BY <1>4, <1>5, <2>1, <2>2
  <1>9. CASE c.cmd = "radio"
    <2>1. Names(c) = {c.node}
      BY <1>9 DEF Names
    <2>2. /\ Succeeds(g, c) <=> c.node \in g.radios \cap DOMAIN g.nodes
          /\ Succeeds(f, c) <=> c.node \in f.radios \cap DOMAIN f.nodes
      BY <1>9 DEF Succeeds
    <2> QED BY <1>4, <1>5, <2>1, <2>2
  <1>10. CASE c.cmd = "stop"
    <2>1. /\ Succeeds(g, c) <=> c.app \in DOMAIN g.apps
          /\ Succeeds(f, c) <=> c.app \in DOMAIN f.apps
      BY <1>10 DEF Succeeds
    <2> QED BY <1>5, <1>10, <2>1
  <1>11. CASE c.cmd = "link"
    BY <1>4, <1>11 DEF Succeeds
  <1>12. CASE c.cmd \notin {"remove", "app", "connect", "route", "radio", "stop", "link"}
    BY <1>12 DEF Succeeds
  <1> QED BY <1>6, <1>7, <1>8, <1>9, <1>10, <1>11, <1>12

\* A call that spawns nothing does the same with nodes and apps it does not name.
LEMMA OtherwiseOver ==
  ASSUME NEW f, Shaped(f), NEW x, NEW y, NEW c, c.cmd \notin {"spawn", "declare", "apps"},
         ~(c.cmd = "app" /\ Succeeds(f, c)),
         Names(c) \cap DOMAIN x = {}, c.cmd = "stop" => c.app \notin DOMAIN y
  PROVE  Executes(Overlay(f, x, y), c) = Overlay(Effect(f, c), x, y)
  <1>1. PICK g : g = Overlay(f, x, y)
    OBVIOUS
  <1>2. Succeeds(g, c) <=> Succeeds(f, c)
    BY <1>1, SucceedsOver
  <1>3. Executes(g, c) = Effect(g, c)
    BY DEF Executes
  <1>4. CASE ~Succeeds(f, c)
    BY <1>1, <1>2, <1>3, <1>4 DEF Effect
  <1>5. CASE Succeeds(f, c)
    <2>1. Executes(g, c) = Does(g, c) /\ Effect(f, c) = Does(f, c)
      BY <1>2, <1>3, <1>5 DEF Effect
    <2>2. CASE c.cmd = "remove"
      <3>1. Does(g, c) = Removes(g, c.node) /\ Does(f, c) = Removes(f, c.node) /\ c.node \notin DOMAIN x
        BY <2>2 DEF Does, Names
      <3>2. ASSUME NEW h, NEW u, NEW v, NEW w, Shaped(h), w \notin DOMAIN u
            PROVE  Removes(Overlay(h, u, v), w) = Overlay(Removes(h, w), u, v)
        BY <3>2, RemovesOver
      <3> QED BY <1>1, <2>1, <3>1, <3>2
    <2>3. CASE c.cmd = "stop"
      <3>1. Does(g, c) = StopsApp(g, c.app) /\ Does(f, c) = StopsApp(f, c.app)
        BY <2>3 DEF Does
      <3>2. ASSUME NEW h, NEW u, NEW v, NEW w, Shaped(h), w \notin DOMAIN v
            PROVE  StopsApp(Overlay(h, u, v), w) = Overlay(StopsApp(h, w), u, v)
        BY <3>2, StopsOver
      <3> QED BY <1>1, <2>1, <2>3, <3>1, <3>2
    <2>4. CASE c.cmd \notin {"remove", "stop"}
      BY <1>1, <1>5, <2>1, <2>4, DoesElsewhere
    <2> QED BY <2>2, <2>3, <2>4
  <1> QED BY <1>1, <1>4, <1>5

\* A spawn: the new node is one of those under way.
LEMMA SpawnOver ==
  ASSUME NEW f, Ordered(f), NEW x, NEW y, NEW c, c.cmd = "spawn"
  PROVE  Executes(Overlay(f, x, y), c) = Overlay(Draws(f), Bind(x, f.nextNode, c.label), y)
  <1>1. PICK n, l, k, r, o, a, p, nn, na, nf : f = Fab(n, l, k, r, o, a, p, nn, na, nf)
    BY DEF Ordered, Shaped
  <1>2. f.nodes = n /\ f.nextNode = nn /\ nn \notin DOMAIN n
    <2>1. f.nodes = n /\ f.nextNode = nn
      BY <1>1, FabIs
    <2>2. nn \in Nat /\ DOMAIN n \subseteq 0..(nn - 1)
      BY <2>1 DEF Ordered
    <2> QED BY <2>1, <2>2
  <1>3. PICK g, n2, a2, x1, n3 : /\ g = Overlay(f, x, y) /\ n2 = Under(n, x) /\ a2 = Under(a, y)
                                 /\ x1 = Bind(x, nn, c.label) /\ n3 = Bind(n2, nn, c.label)
    OBVIOUS
  <1>4. g = Fab(n2, l, k, r, o, a2, p, nn, na, nf)
    BY <1>1, <1>3, OverlayIs
  <1>5. Executes(g, c) = Fab(n3, l, k, r, o, a2, p, nn + 1, na, nf)
    <2>1. g.nextNode = nn
      BY <1>4, FabIs
    <2>2. Executes(g, c) = Inserts(Draws(g), nn, c.label)
      BY <2>1 DEF Executes
    <2>3. Draws(g) = Fab(n2, l, k, r, o, a2, p, nn + 1, na, nf)
      BY <1>4 DEF Draws, Fab
    <2> QED BY <1>3, <2>2, <2>3 DEF Inserts, Fab
  <1>6. n3 = Under(n, x1)
    <2>1. Bind(Under(n, x), nn, c.label) = Under(n, Bind(x, nn, c.label))
      BY <1>2, UnderMore
    <2> QED BY <1>3, <2>1
  <1>7. Draws(f) = Fab(n, l, k, r, o, a, p, nn + 1, na, nf)
    BY <1>1 DEF Draws, Fab
  <1>8. Overlay(Draws(f), x1, y) = Fab(n3, l, k, r, o, a2, p, nn + 1, na, nf)
    BY <1>3, <1>6, <1>7, OverlayIs
  <1> QED BY <1>2, <1>3, <1>5, <1>8

\* An app: the new app is one of those under way.
LEMMA AppOver ==
  ASSUME NEW f, Ordered(f), NEW x, NEW y, NEW c, c.cmd = "app", Succeeds(f, c),
         Names(c) \cap DOMAIN x = {}, f.nextApp \notin DOMAIN y
  PROVE  Executes(Overlay(f, x, y), c) = Overlay(DrawsApp(f), x, Bind(y, f.nextApp, c.node))
  <1>1. PICK n, l, k, r, o, a, p, nn, na, nf : f = Fab(n, l, k, r, o, a, p, nn, na, nf)
    BY DEF Ordered, Shaped
  <1>2. f.apps = a /\ f.nextApp = na /\ na \in Nat /\ na \notin DOMAIN a
    <2>1. f.apps = a /\ f.nextApp = na
      BY <1>1, FabIs
    <2>2. na \in Nat /\ DOMAIN a \subseteq 0..(na - 1)
      BY <2>1 DEF Ordered
    <2> QED BY <2>1, <2>2
  <1>3. PICK g, n2, a2, y1, a3 : /\ g = Overlay(f, x, y) /\ n2 = Under(n, x) /\ a2 = Under(a, y)
                                 /\ y1 = Bind(y, na, c.node) /\ a3 = Bind(a2, na, c.node)
    OBVIOUS
  <1>4. g = Fab(n2, l, k, r, o, a2, p, nn, na, nf)
    BY <1>1, <1>3, OverlayIs
  <1>5. Executes(g, c) = SpawnsApps(g, c.node, 1)
    <2>1. Shaped(f)
      BY DEF Ordered
    <2>2. Succeeds(g, c)
      BY <1>3, <2>1, SucceedsOver
    <2> QED BY <2>2 DEF Executes, Effect, Does
  <1>6. SpawnsApps(g, c.node, 1) = Fab(n2, l, k, r, o, a3, p, nn, na + 1, nf)
    <2>1. g.apps = a2 /\ g.nextApp = na
      BY <1>4, FabIs
    <2>2. na..(na + 1 - 1) = {na} /\ na \notin DOMAIN a2
      BY <1>2, <1>3 DEF Under
    <2>3. PICK a4 : a4 = [q \in DOMAIN g.apps \cup g.nextApp..(g.nextApp + 1 - 1) |->
                             IF q \in DOMAIN g.apps THEN g.apps[q] ELSE c.node]
      OBVIOUS
    <2>4. a4 = [q \in DOMAIN a2 \cup {na} |-> IF q \in DOMAIN a2 THEN a2[q] ELSE c.node]
      BY <2>1, <2>2, <2>3
    <2>5. a4 = a3
      BY <1>3, <2>2, <2>4 DEF Bind
    <2>6. SpawnsApps(g, c.node, 1) = WithApps(g, a4, na + 1)
      BY <2>1, <2>3, Zenon DEF SpawnsApps, WithApps
    <2>7. \A b1, b2, b3, b4, b5, b6, b7, b8, b9, b10, u, v :
             WithApps(Fab(b1, b2, b3, b4, b5, b6, b7, b8, b9, b10), u, v) = Fab(b1, b2, b3, b4, b5, u, b7, b8, v, b10)
      BY FabWithApps
    <2> QED BY <1>4, <2>5, <2>6, <2>7, SMT
  <1>7. a3 = Under(a, y1)
    <2>1. Bind(Under(a, y), na, c.node) = Under(a, Bind(y, na, c.node))
      BY <1>2, UnderMore
    <2> QED BY <1>3, <2>1
  <1>8. DrawsApp(f) = Fab(n, l, k, r, o, a, p, nn, na + 1, nf)
    BY <1>1 DEF DrawsApp, Fab
  <1>9. Overlay(DrawsApp(f), x, y1) = Fab(n2, l, k, r, o, a3, p, nn, na + 1, nf)
    BY <1>3, <1>7, <1>8, OverlayIs
  <1> QED BY <1>2, <1>3, <1>5, <1>6, <1>9

\* What was under way is there.
LEMMA InsertOver ==
  ASSUME NEW f, Ordered(f), NEW x, NEW y, NEW z, NEW id \in DOMAIN x, id \notin DOMAIN f.nodes,
         DOMAIN z = DOMAIN x \ {id}, \A v \in DOMAIN z : z[v] = x[v]
  PROVE  Overlay(Inserts(f, id, x[id]), z, y) = Overlay(f, x, y)
  <1>1. PICK n, l, k, r, o, a, p, nn, na, nf : f = Fab(n, l, k, r, o, a, p, nn, na, nf)
    BY DEF Ordered, Shaped
  <1>2. f.nodes = n
    BY <1>1, FabIs
  <1>3. PICK n1 : n1 = Bind(n, id, x[id])
    OBVIOUS
  <1>4. Inserts(f, id, x[id]) = Fab(n1, l, k, r, o, a, p, nn, na, nf)
    BY <1>1, <1>3 DEF Inserts, Fab
  <1>5. Under(n1, z) = Under(n, x)
    <2>1. Under(Bind(n, id, x[id]), z) = Under(n, x)
      BY <1>2, UnderNow
    <2> QED BY <1>3, <2>1
  <1>6. /\ Overlay(Fab(n1, l, k, r, o, a, p, nn, na, nf), z, y) = Fab(Under(n1, z), l, k, r, o, Under(a, y), p, nn, na, nf)
        /\ Overlay(f, x, y) = Fab(Under(n, x), l, k, r, o, Under(a, y), p, nn, na, nf)
    BY <1>1, OverlayIs
  <1> QED BY <1>4, <1>5, <1>6

LEMMA RecordOver ==
  ASSUME NEW f, Ordered(f), NEW x, NEW y, NEW z, NEW id \in DOMAIN y, id \notin DOMAIN f.apps,
         DOMAIN z = DOMAIN y \ {id}, \A v \in DOMAIN z : z[v] = y[v]
  PROVE  Overlay(RecordsApp(f, id, y[id]), x, z) = Overlay(f, x, y)
  <1>1. PICK n, l, k, r, o, a, p, nn, na, nf : f = Fab(n, l, k, r, o, a, p, nn, na, nf)
    BY DEF Ordered, Shaped
  <1>2. f.apps = a
    BY <1>1, FabIs
  <1>3. PICK a1 : a1 = Bind(a, id, y[id])
    OBVIOUS
  <1>4. RecordsApp(f, id, y[id]) = Fab(n, l, k, r, o, a1, p, nn, na, nf)
    BY <1>1, <1>3 DEF RecordsApp, Fab
  <1>5. Under(a1, z) = Under(a, y)
    <2>1. Under(Bind(a, id, y[id]), z) = Under(a, y)
      BY <1>2, UnderNow
    <2> QED BY <1>3, <2>1
  <1>6. /\ Overlay(Fab(n, l, k, r, o, a1, p, nn, na, nf), x, z) = Fab(Under(n, x), l, k, r, o, Under(a1, z), p, nn, na, nf)
        /\ Overlay(f, x, y) = Fab(Under(n, x), l, k, r, o, Under(a, y), p, nn, na, nf)
    BY <1>1, OverlayIs
  <1> QED BY <1>4, <1>5, <1>6

\* With nothing under way, the fabric is the whole of it.
LEMMA NoneOver ==
  ASSUME NEW f, Ordered(f), NEW x, DOMAIN x = {}, NEW y, DOMAIN y = {}
  PROVE  Overlay(f, x, y) = f
  <1>1. PICK n, l, k, r, o, a, p, nn, na, nf : f = Fab(n, l, k, r, o, a, p, nn, na, nf)
    BY DEF Ordered, Shaped
  <1>2. n = [id \in DOMAIN n |-> n[id]] /\ a = [id \in DOMAIN a |-> a[id]]
    BY <1>1, FabIs DEF Ordered
  <1>3. Under(n, x) = n /\ Under(a, y) = a
    BY <1>2, UnderNone
  <1> QED BY <1>1, <1>3, OverlayIs

\* A fabric whose numbers are in order.
LEMMA OrderedIs ==
  ASSUME NEW g, NEW n, NEW nn, NEW a, NEW na, Like(g, n, nn, a, na),
         nn \in Nat, DOMAIN n \subseteq 0..(nn - 1), n = [id \in DOMAIN n |-> n[id]],
         na \in Nat, DOMAIN a \subseteq 0..(na - 1), a = [id \in DOMAIN a |-> a[id]]
  PROVE  Ordered(g)
  BY DEF Like, Ordered

\* What the first step of a command leaves of the nodes and the apps.
LEMMA BeginsIs ==
  ASSUME NEW f, Ordered(f), NEW c, c.cmd \notin {"declare", "apps"}
  PROVE  /\ Ordered(Begins(f, c))
         /\ Begins(f, c).nextNode = IF c.cmd = "spawn" THEN f.nextNode + 1 ELSE f.nextNode
         /\ Begins(f, c).nodes = IF c.cmd = "remove" /\ c.node \in DOMAIN f.nodes
                                 THEN Restrict(f.nodes, DOMAIN f.nodes \ {c.node}) ELSE f.nodes
         /\ Begins(f, c).nextApp = IF c.cmd = "app" /\ Succeeds(f, c) THEN f.nextApp + 1 ELSE f.nextApp
         /\ DOMAIN Begins(f, c).apps \subseteq DOMAIN f.apps
  <1>1. PICK n, nn, a, na : n = f.nodes /\ nn = f.nextNode /\ a = f.apps /\ na = f.nextApp
    OBVIOUS
  <1>2. /\ Shaped(f) /\ nn \in Nat /\ DOMAIN n \subseteq 0..(nn - 1) /\ n = [id \in DOMAIN n |-> n[id]]
        /\ na \in Nat /\ DOMAIN a \subseteq 0..(na - 1) /\ a = [id \in DOMAIN a |-> a[id]]
    BY <1>1 DEF Ordered
  <1>3. CASE c.cmd = "spawn"
    <2>1. Begins(f, c) = Draws(f)
      BY <1>3 DEF Begins, Effect, Succeeds, Does
    <2>2. Like(Draws(f), n, nn + 1, a, na)
      BY <1>1, <1>2, SpawnsIs
    <2>3. nn + 1 \in Nat /\ DOMAIN n \subseteq 0..(nn + 1 - 1)
      BY <1>2
    <2>4. Ordered(Draws(f))
      <3>1. PICK m : m = nn + 1
        OBVIOUS
      <3> QED BY <1>2, <2>2, <2>3, <3>1, OrderedIs
    <2> QED BY <1>1, <1>3, <2>1, <2>2, <2>4 DEF Like
  <1>4. CASE c.cmd = "app" /\ Succeeds(f, c)
    <2>1. Begins(f, c) = DrawsApp(f)
      BY <1>4 DEF Begins
    <2>2. Like(DrawsApp(f), n, nn, a, na + 1)
      BY <1>1, <1>2, SpawnsIs
    <2>3. na + 1 \in Nat /\ DOMAIN a \subseteq 0..(na + 1 - 1)
      BY <1>2
    <2>4. Ordered(DrawsApp(f))
      <3>1. PICK m : m = na + 1
        OBVIOUS
      <3> QED BY <1>2, <2>2, <2>3, <3>1, OrderedIs
    <2> QED BY <1>1, <1>4, <2>1, <2>2, <2>4 DEF Like
  <1>5. CASE c.cmd # "spawn" /\ ~(c.cmd = "app" /\ Succeeds(f, c))
    <2>1. Begins(f, c) = Effect(f, c)
      BY <1>5 DEF Begins
    <2>2. CASE ~Succeeds(f, c)
      <3>1. Begins(f, c) = f
        BY <2>1, <2>2 DEF Effect
      <3>2. ~(c.cmd = "remove" /\ c.node \in DOMAIN f.nodes)
        BY <2>2 DEF Succeeds
      <3> QED BY <1>5, <3>1, <3>2
    <2>3. CASE Succeeds(f, c) /\ c.cmd = "remove"
      <3>1. Begins(f, c) = Removes(f, c.node) /\ c.node \in DOMAIN f.nodes
        BY <2>1, <2>3 DEF Effect, Does, Succeeds
      <3>2. PICK n1, w : w = c.node /\ n1 = Restrict(n, DOMAIN n \ {w})
        OBVIOUS
      <3>3. Like(Removes(f, w), n1, nn, a, na)
        <4>1. Like(Removes(f, w), Restrict(f.nodes, DOMAIN f.nodes \ {w}), f.nextNode, f.apps, f.nextApp)
          BY <1>2, RemovesIs
        <4> QED BY <1>1, <3>2, <4>1
      <3>4. DOMAIN n1 \subseteq 0..(nn - 1) /\ n1 = [id \in DOMAIN n1 |-> n1[id]]
        BY <1>2, <3>2 DEF Restrict
      <3>5. Ordered(Removes(f, w))
        BY <1>2, <3>3, <3>4, OrderedIs
      <3> QED BY <1>1, <1>5, <2>3, <3>1, <3>2, <3>3, <3>5 DEF Like
    <2>4. CASE Succeeds(f, c) /\ c.cmd = "stop"
      <3>1. Begins(f, c) = StopsApp(f, c.app)
        BY <2>1, <2>4 DEF Effect, Does
      <3>2. PICK a1, w : w = c.app /\ a1 = Restrict(a, DOMAIN a \ {w})
        OBVIOUS
      <3>3. Like(StopsApp(f, w), n, nn, a1, na)
        <4>1. Like(StopsApp(f, w), f.nodes, f.nextNode, Restrict(f.apps, DOMAIN f.apps \ {w}), f.nextApp)
          BY <1>2, StopsIs
        <4> QED BY <1>1, <3>2, <4>1
      <3>4. DOMAIN a1 \subseteq DOMAIN a /\ DOMAIN a1 \subseteq 0..(na - 1) /\ a1 = [id \in DOMAIN a1 |-> a1[id]]
        BY <1>2, <3>2 DEF Restrict
      <3>5. Ordered(StopsApp(f, w))
        BY <1>2, <3>3, <3>4, OrderedIs
      <3> QED BY <1>1, <1>5, <2>4, <3>1, <3>2, <3>3, <3>4, <3>5 DEF Like
    <2>5. CASE Succeeds(f, c) /\ c.cmd \notin {"remove", "stop"}
      <3>1. Begins(f, c) = Does(f, c) /\ c.cmd # "app"
        BY <1>5, <2>1, <2>5 DEF Effect
      <3>2. Like(Does(f, c), n, nn, a, na)
        <4>1. PICK x : x = [id \in {} |-> 0]
          OBVIOUS
        <4> QED BY <1>1, <1>2, <1>5, <2>5, <3>1, DoesElsewhere DEF Like
      <3>3. Ordered(Does(f, c))
        BY <1>2, <3>2, OrderedIs
      <3> QED BY <1>1, <1>5, <2>5, <3>1, <3>2, <3>3 DEF Like
    <2> QED BY <2>2, <2>3, <2>4, <2>5
  <1> QED BY <1>3, <1>4, <1>5

\* A node or an app takes the number that was drawn for it.
LEMMA InsertsIs ==
  ASSUME NEW f, Ordered(f), NEW id \in 0..(f.nextNode - 1), NEW value
  PROVE  Ordered(Inserts(f, id, value)) /\ Like(Inserts(f, id, value), Bind(f.nodes, id, value), f.nextNode, f.apps, f.nextApp)
  <1>1. PICK n, nn, a, na : n = Bind(f.nodes, id, value) /\ nn = f.nextNode /\ a = f.apps /\ na = f.nextApp
    OBVIOUS
  <1>2. Like(Inserts(f, id, value), n, nn, a, na)
    BY <1>1, SpawnsIs DEF Ordered
  <1>3. DOMAIN n = DOMAIN f.nodes \cup {id} /\ n = [v \in DOMAIN n |-> n[v]]
    BY <1>1 DEF Bind
  <1>4. /\ nn \in Nat /\ DOMAIN n \subseteq 0..(nn - 1)
        /\ na \in Nat /\ DOMAIN a \subseteq 0..(na - 1) /\ a = [v \in DOMAIN a |-> a[v]]
    BY <1>1, <1>3 DEF Ordered
  <1>5. Ordered(Inserts(f, id, value))
    BY <1>2, <1>3, <1>4, OrderedIs
  <1> QED BY <1>1, <1>2, <1>5

LEMMA RecordsIs ==
  ASSUME NEW f, Ordered(f), NEW id \in 0..(f.nextApp - 1), NEW value
  PROVE  Ordered(RecordsApp(f, id, value)) /\ Like(RecordsApp(f, id, value), f.nodes, f.nextNode, Bind(f.apps, id, value), f.nextApp)
  <1>1. PICK n, nn, a, na : n = f.nodes /\ nn = f.nextNode /\ a = Bind(f.apps, id, value) /\ na = f.nextApp
    OBVIOUS
  <1>2. Like(RecordsApp(f, id, value), n, nn, a, na)
    BY <1>1, SpawnsIs DEF Ordered
  <1>3. DOMAIN a = DOMAIN f.apps \cup {id} /\ a = [v \in DOMAIN a |-> a[v]]
    BY <1>1 DEF Bind
  <1>4. /\ nn \in Nat /\ DOMAIN n \subseteq 0..(nn - 1) /\ n = [v \in DOMAIN n |-> n[v]]
        /\ na \in Nat /\ DOMAIN a \subseteq 0..(na - 1)
    BY <1>1, <1>3 DEF Ordered
  <1>5. Ordered(RecordsApp(f, id, value))
    BY <1>2, <1>3, <1>4, OrderedIs
  <1> QED BY <1>1, <1>2, <1>5

\* A node of the scenario takes the next id.
LEMMA DeclaresIs ==
  ASSUME NEW f, Ordered(f), NEW n
  PROVE  Ordered(Declares(f, n))
  <1>1. PICK n0, l, k, r, o, a, p, nn, na, nf : f = Fab(n0, l, k, r, o, a, p, nn, na, nf)
    BY DEF Ordered, Shaped
  <1>2. f.nodes = n0 /\ f.nextNode = nn /\ f.apps = a /\ f.nextApp = na
    BY <1>1, FabIs
  <1>3. PICK n1, nn1, r1, p1 :
           /\ n1 = Bind(f.nodes, f.nextNode, n.label) /\ nn1 = f.nextNode + 1
           /\ r1 = IF n.radio THEN f.radios \cup {f.nextNode} ELSE f.radios
           /\ p1 = IF n.place # <<>> THEN Bind(f.places, f.nextNode, n.place[1])
                   ELSE IF n.radio THEN Bind(f.places, f.nextNode, Origin) ELSE f.places
    OBVIOUS
  <1>4. Declares(f, n) = WithNode(f, n1, nn1, r1, p1)
    BY <1>3, Zenon DEF Declares, WithNode
  <1>5. Declares(f, n) = Fab(n1, l, k, r1, o, a, p1, nn1, na, nf)
    <2>1. \A b1, b2, b3, b4, b5, b6, b7, b8, b9, b10, u, v, w, x :
             WithNode(Fab(b1, b2, b3, b4, b5, b6, b7, b8, b9, b10), u, v, w, x) = Fab(u, b2, b3, w, b5, b6, x, v, b9, b10)
      BY FabWithNode
    <2> QED BY <1>1, <1>4, <2>1, SMT
  <1>6. Like(Declares(f, n), n1, nn1, a, na)
    BY <1>5, FabIs DEF Like
  <1>7. DOMAIN n1 = DOMAIN n0 \cup {nn} /\ n1 = [x \in DOMAIN n1 |-> n1[x]]
    BY <1>2, <1>3 DEF Bind
  <1>8. nn \in Nat /\ DOMAIN n0 \subseteq 0..(nn - 1) /\ nn1 = nn + 1
    BY <1>2, <1>3 DEF Ordered
  <1>9. nn1 \in Nat /\ DOMAIN n1 \subseteq 0..(nn1 - 1)
    BY <1>7, <1>8
  <1>10. na \in Nat /\ DOMAIN a \subseteq 0..(na - 1) /\ a = [x \in DOMAIN a |-> a[x]]
    BY <1>2 DEF Ordered
  <1> QED BY <1>6, <1>7, <1>9, <1>10, OrderedIs

\* So many apps take the next numbers.
LEMMA SpawnsAppsIs ==
  ASSUME NEW f, Ordered(f), NEW node, NEW count \in Nat
  PROVE  Ordered(SpawnsApps(f, node, count))
  <1>1. PICK n, l, k, r, o, a, p, nn, na, nf : f = Fab(n, l, k, r, o, a, p, nn, na, nf)
    BY DEF Ordered, Shaped
  <1>2. f.nodes = n /\ f.nextNode = nn /\ f.apps = a /\ f.nextApp = na
    BY <1>1, FabIs
  <1>3. PICK a1, na1 : /\ a1 = [q \in DOMAIN f.apps \cup f.nextApp..(f.nextApp + count - 1) |->
                                   IF q \in DOMAIN f.apps THEN f.apps[q] ELSE node]
                       /\ na1 = f.nextApp + count
    OBVIOUS
  <1>4. SpawnsApps(f, node, count) = WithApps(f, a1, na1)
    BY <1>3, Zenon DEF SpawnsApps, WithApps
  <1>5. SpawnsApps(f, node, count) = Fab(n, l, k, r, o, a1, p, nn, na1, nf)
    <2>1. \A b1, b2, b3, b4, b5, b6, b7, b8, b9, b10, u, v :
             WithApps(Fab(b1, b2, b3, b4, b5, b6, b7, b8, b9, b10), u, v) = Fab(b1, b2, b3, b4, b5, u, b7, b8, v, b10)
      BY FabWithApps
    <2> QED BY <1>1, <1>4, <2>1, SMT
  <1>6. Like(SpawnsApps(f, node, count), n, nn, a1, na1)
    BY <1>5, FabIs DEF Like
  <1>7. DOMAIN a1 = DOMAIN a \cup na..(na + count - 1) /\ a1 = [q \in DOMAIN a1 |-> a1[q]]
    BY <1>2, <1>3
  <1>8. na \in Nat /\ DOMAIN a \subseteq 0..(na - 1) /\ na1 = na + count
    BY <1>2, <1>3 DEF Ordered
  <1>9. na1 \in Nat /\ DOMAIN a1 \subseteq 0..(na1 - 1)
    BY <1>7, <1>8
  <1>10. nn \in Nat /\ DOMAIN n \subseteq 0..(nn - 1) /\ n = [x \in DOMAIN n |-> n[x]]
    BY <1>2 DEF Ordered
  <1> QED BY <1>6, <1>7, <1>9, <1>10, OrderedIs

\* Every call keeps the numbers in order.
LEMMA ExecutesOrdered ==
  ASSUME NEW f, Ordered(f), NEW c, c.cmd = "apps" => c.count \in Nat
  PROVE  Ordered(Executes(f, c))
  <1>1. CASE c.cmd = "spawn"
    <2>1. Executes(f, c) = Inserts(Draws(f), f.nextNode, c.label) /\ Begins(f, c) = Draws(f)
      BY <1>1 DEF Executes, Begins, Effect, Succeeds, Does
    <2>2. Ordered(Draws(f)) /\ Draws(f).nextNode = f.nextNode + 1
      <3>1. Ordered(Begins(f, c))
        BY <1>1, BeginsIs
      <3>2. Like(Draws(f), f.nodes, f.nextNode + 1, f.apps, f.nextApp)
        BY SpawnsIs DEF Ordered
      <3> QED BY <2>1, <3>1, <3>2 DEF Like
    <2>3. f.nextNode \in 0..(Draws(f).nextNode - 1)
      BY <2>2 DEF Ordered
    <2> QED BY <2>1, <2>2, <2>3, InsertsIs
  <1>2. CASE c.cmd = "declare"
    <2>1. Executes(f, c) = Declares(f, c.node)
      BY <1>2 DEF Executes, Effect, Succeeds, Does
    <2> QED BY <2>1, DeclaresIs
  <1>3. CASE c.cmd = "app" /\ Succeeds(f, c)
    <2>1. Executes(f, c) = SpawnsApps(f, c.node, 1)
      BY <1>3 DEF Executes, Effect, Does
    <2> QED BY <2>1, SpawnsAppsIs
  <1>4. CASE c.cmd = "apps"
    <2>1. Executes(f, c) = SpawnsApps(f, c.node, c.count)
      BY <1>4 DEF Executes, Effect, Succeeds, Does
    <2> QED BY <1>4, <2>1, SpawnsAppsIs
  <1>5. CASE c.cmd \notin {"spawn", "declare", "apps"} /\ ~(c.cmd = "app" /\ Succeeds(f, c))
    <2>1. Executes(f, c) = Begins(f, c)
      BY <1>5 DEF Executes, Begins
    <2> QED BY <1>5, <2>1, BeginsIs
  <1> QED BY <1>1, <1>2, <1>3, <1>4, <1>5

\* And so does every course of calls.
LEMMA AllOrdered ==
  ASSUME NEW f, Ordered(f), NEW calls, Len(calls) \in Nat,
         \A k \in 1..Len(calls) : calls[k].cmd = "apps" => calls[k].count \in Nat
  PROVE  Ordered(ExecutesAll(f, calls))
  <1>1. PICK n \in Nat : n = Len(calls)
    OBVIOUS
  <1>2. PICK g : Course(f, calls, n, g) /\ ExecutesAll(f, calls) = g[n]
    BY <1>1, ExecutesAllIs
  <1> DEFINE T == {k \in 0..n : ~Ordered(g[k])}
  <1>3. T = {}
    <2> SUFFICES ASSUME T # {} PROVE FALSE
      OBVIOUS
    <2>1. PICK k \in T : \A j \in T : k <= j
      <3>1. T \subseteq Nat
        OBVIOUS
      <3> QED BY <3>1, LeastOne
    <2>2. k \in 0..n /\ ~Ordered(g[k])
      BY <2>1
    <2>3. g[k] = IF k = 0 THEN f ELSE Executes(g[k - 1], calls[k])
      BY <1>2, <2>2 DEF Course
    <2>4. k # 0 /\ k - 1 \in 0..n /\ ~(k <= k - 1) /\ k \in 1..Len(calls)
      BY <1>1, <2>2, <2>3
    <2>5. Ordered(g[k - 1])
      BY <2>1, <2>4
    <2> QED BY <2>2, <2>3, <2>4, <2>5, ExecutesOrdered
  <1>4. Ordered(g[n])
    <2>1. n \in 0..n
      OBVIOUS
    <2> QED BY <1>3, <2>1
  <1> QED BY <1>2, <1>4

-----------------------------------------------------------------------------
(* The start of a scenario.                                                *)

LEMMA TabulatedIsSeq ==
  ASSUME NEW S, NEW n \in Nat, NEW e, DOMAIN e = 1..n, e = [i \in DOMAIN e |-> e[i]],
         \A i \in DOMAIN e : e[i] \in S
  PROVE  e \in Seq(S)
  <1>1. e \in [1..n -> S]
    OBVIOUS
  <1> QED BY <1>1, SeqDef

\* The calls of a start are a sequence.
LEMMA PlanIsSeq ==
  ASSUME NEW s \in Scenes
  PROVE  /\ Len(Plan(s)) \in Nat
         /\ \A k \in 1..Len(Plan(s)) : Plan(s)[k].cmd = "apps" => Plan(s)[k].count \in Nat
  <1> DEFINE declared == [i \in DOMAIN s.nodes |-> [cmd |-> "declare", node |-> s.nodes[i]]]
             links == [i \in DOMAIN s.links |-> [cmd |-> "connect", a |-> s.links[i][1], b |-> s.links[i][2]]]
             routes == [i \in DOMAIN s.routes |->
                          [cmd |-> "route", node |-> s.routes[i][1], nexthop |-> s.routes[i][2]]]
             radios == [i \in DOMAIN s.radioRoutes |-> [cmd |-> "radio", node |-> s.radioRoutes[i]]]
             apps == [i \in DOMAIN s.nodes |-> [cmd |-> "apps", node |-> i - 1, count |-> s.nodes[i].apps]]
             S == {declared[i] : i \in DOMAIN declared} \cup {links[i] : i \in DOMAIN links}
                     \cup {routes[i] : i \in DOMAIN routes} \cup {radios[i] : i \in DOMAIN radios}
                     \cup {apps[i] : i \in DOMAIN apps}
  <1>1. \A q \in {s.nodes, s.links, s.routes, s.radioRoutes} : \E n \in Nat : DOMAIN q = 1..n
    <2>1. \A q \in {s.nodes, s.links, s.routes, s.radioRoutes} : q \in Seq(Range(q))
      BY SessionAssumption
    <2>2. ASSUME NEW q, q \in Seq(Range(q)) PROVE \E n \in Nat : DOMAIN q = 1..n
      BY <2>2, LenProperties
    <2> QED BY <2>1, <2>2
  <1>2. declared \in Seq(S)
    <2>1. PICK n \in Nat : DOMAIN declared = 1..n
      BY <1>1
    <2>2. declared = [i \in DOMAIN declared |-> declared[i]] /\ \A i \in DOMAIN declared : declared[i] \in S
      OBVIOUS
    <2> HIDE DEF declared, S
    <2> QED BY <2>1, <2>2, TabulatedIsSeq
  <1>3. links \in Seq(S)
    <2>1. PICK n \in Nat : DOMAIN links = 1..n
      BY <1>1
    <2>2. links = [i \in DOMAIN links |-> links[i]] /\ \A i \in DOMAIN links : links[i] \in S
      OBVIOUS
    <2> HIDE DEF links, S
    <2> QED BY <2>1, <2>2, TabulatedIsSeq
  <1>4. routes \in Seq(S)
    <2>1. PICK n \in Nat : DOMAIN routes = 1..n
      BY <1>1
    <2>2. routes = [i \in DOMAIN routes |-> routes[i]] /\ \A i \in DOMAIN routes : routes[i] \in S
      OBVIOUS
    <2> HIDE DEF routes, S
    <2> QED BY <2>1, <2>2, TabulatedIsSeq
  <1>5. radios \in Seq(S)
    <2>1. PICK n \in Nat : DOMAIN radios = 1..n
      BY <1>1
    <2>2. radios = [i \in DOMAIN radios |-> radios[i]] /\ \A i \in DOMAIN radios : radios[i] \in S
      OBVIOUS
    <2> HIDE DEF radios, S
    <2> QED BY <2>1, <2>2, TabulatedIsSeq
  <1>6. apps \in Seq(S)
    <2>1. PICK n \in Nat : DOMAIN apps = 1..n
      BY <1>1
    <2>2. apps = [i \in DOMAIN apps |-> apps[i]] /\ \A i \in DOMAIN apps : apps[i] \in S
      OBVIOUS
    <2> HIDE DEF apps, S
    <2> QED BY <2>1, <2>2, TabulatedIsSeq
  <1>7. Plan(s) = declared \o links \o routes \o radios \o apps
    BY DEF Plan
  <1>8. \A c \in S : c.cmd = "apps" => c.count \in Nat
    <2>1. \A i \in DOMAIN s.nodes : s.nodes[i].apps \in Nat
      BY SessionAssumption
    <2>2. \A i \in DOMAIN apps : apps[i].count \in Nat
      BY <2>1
    <2>3. /\ \A i \in DOMAIN declared : declared[i].cmd # "apps"
          /\ \A i \in DOMAIN links : links[i].cmd # "apps"
          /\ \A i \in DOMAIN routes : routes[i].cmd # "apps"
          /\ \A i \in DOMAIN radios : radios[i].cmd # "apps"
      OBVIOUS
    <2> HIDE DEF declared, links, routes, radios, apps
    <2> QED BY <2>2, <2>3
  <1> HIDE DEF declared, links, routes, radios, apps, S
  <1>9. Plan(s) \in Seq(S)
    BY <1>2, <1>3, <1>4, <1>5, <1>6, <1>7, ConcatProperties
  <1>10. Len(Plan(s)) \in Nat /\ \A k \in 1..Len(Plan(s)) : Plan(s)[k] \in S
    BY <1>9, ElementOfSeq, LenProperties
  <1> QED BY <1>8, <1>10

\* The fabric of a start has its numbers in order.
LEMMA StartedOrdered == ASSUME NEW s \in Scenes PROVE Ordered(Started(s))
  <1>1. Ordered(EmptyFabric)
    <2>1. EmptyFabric = Fab(<<>>, <<>>, <<>>, {}, {}, <<>>, <<>>, 0, 0, 0)
      BY DEF EmptyFabric, Fab
    <2>2. Like(EmptyFabric, <<>>, 0, <<>>, 0)
      BY <2>1, FabIs DEF Like
    <2>3. PICK e : e = <<>>
      OBVIOUS
    <2>4. DOMAIN e = {} /\ e = [id \in DOMAIN e |-> e[id]]
      BY <2>3
    <2> QED BY <2>2, <2>3, <2>4, OrderedIs
  <1>2. /\ Len(Plan(s)) \in Nat
        /\ \A k \in 1..Len(Plan(s)) : Plan(s)[k].cmd = "apps" => Plan(s)[k].count \in Nat
    BY PlanIsSeq
  <1> QED BY <1>1, <1>2, AllOrdered DEF Started

-----------------------------------------------------------------------------
(* The calls at a stage.                                                   *)

Waiting(calls, at) == {k \in Client : calls[k].at = at}
IdsOf(calls, at) == {calls[k].id : k \in Waiting(calls, at)}
Distinct(calls, at) == \A j, k \in Waiting(calls, at) : j # k => calls[j].id # calls[k].id

\* What a call puts at its number, and what those at a stage will.
Brings(c) == IF c.cmd = "spawn" THEN c.label ELSE c.node
Pend(calls, at) ==
    [id \in IdsOf(calls, at) |-> Brings(calls[CHOOSE k \in Waiting(calls, at) : calls[k].id = id].cmd)]

\* One call turns into r, the others stay.
Turned(calls, more, k, r) ==
    /\ k \in Client /\ more[k] = r
    /\ \A j \in Client \ {k} : more[j] = calls[j]

LEMMA PendIs ==
  ASSUME NEW calls, NEW at, Distinct(calls, at)
  PROVE  /\ DOMAIN Pend(calls, at) = IdsOf(calls, at)
         /\ \A k \in Waiting(calls, at) : Pend(calls, at)[calls[k].id] = Brings(calls[k].cmd)
         /\ Pend(calls, at) = [id \in DOMAIN Pend(calls, at) |-> Pend(calls, at)[id]]
  <1>1. DOMAIN Pend(calls, at) = IdsOf(calls, at)
    BY DEF Pend
  <1>2. ASSUME NEW k \in Waiting(calls, at)
        PROVE  Pend(calls, at)[calls[k].id] = Brings(calls[k].cmd)
    <2>1. PICK id : id = calls[k].id
      OBVIOUS
    <2>2. PICK j : j = CHOOSE i \in Waiting(calls, at) : calls[i].id = id
      OBVIOUS
    <2>3. j \in Waiting(calls, at) /\ calls[j].id = id
      BY <2>1, <2>2
    <2>4. j = k
      BY <2>1, <2>3 DEF Distinct
    <2>5. id \in IdsOf(calls, at)
      BY <2>1 DEF IdsOf
    <2>6. Pend(calls, at)[id] = Brings(calls[j].cmd)
      BY <2>2, <2>5 DEF Pend
    <2> QED BY <2>1, <2>4, <2>6
  <1>3. Pend(calls, at) = [id \in DOMAIN Pend(calls, at) |-> Pend(calls, at)[id]]
    BY DEF Pend
  <1> QED BY <1>1, <1>2, <1>3

\* What is under way holds what every call will put, and nothing else.
LEMMA PendEquals ==
  ASSUME NEW calls, NEW at, Distinct(calls, at), NEW x, x = [id \in DOMAIN x |-> x[id]],
         DOMAIN x = IdsOf(calls, at),
         \A k \in Waiting(calls, at) : x[calls[k].id] = Brings(calls[k].cmd)
  PROVE  Pend(calls, at) = x
  <1>1. PICK y : y = Pend(calls, at)
    OBVIOUS
  <1>2. /\ DOMAIN y = IdsOf(calls, at)
        /\ \A k \in Waiting(calls, at) : y[calls[k].id] = Brings(calls[k].cmd)
        /\ y = [id \in DOMAIN y |-> y[id]]
    BY <1>1, PendIs
  <1>3. \A id \in DOMAIN y : y[id] = x[id]
    BY <1>2 DEF IdsOf
  <1> QED BY <1>1, <1>2, <1>3, SameMap

\* A call that neither comes to a stage nor leaves it.
LEMMA Stays ==
  ASSUME NEW calls, NEW more, NEW k, NEW r, Turned(calls, more, k, r), NEW at,
         calls[k].at # at, r.at # at
  PROVE  /\ Waiting(more, at) = Waiting(calls, at) /\ IdsOf(more, at) = IdsOf(calls, at)
         /\ Distinct(calls, at) => Distinct(more, at) /\ Pend(more, at) = Pend(calls, at)
  <1>1. Waiting(more, at) = Waiting(calls, at) /\ \A j \in Waiting(calls, at) : more[j] = calls[j]
    BY DEF Turned, Waiting
  <1>2. IdsOf(more, at) = IdsOf(calls, at)
    BY <1>1 DEF IdsOf
  <1>3. ASSUME Distinct(calls, at) PROVE Distinct(more, at) /\ Pend(more, at) = Pend(calls, at)
    <2>1. Distinct(more, at)
      BY <1>1, <1>3 DEF Distinct
    <2>2. PICK x : x = Pend(calls, at)
      OBVIOUS
    <2>3. /\ DOMAIN x = IdsOf(calls, at) /\ x = [id \in DOMAIN x |-> x[id]]
          /\ \A j \in Waiting(calls, at) : x[calls[j].id] = Brings(calls[j].cmd)
      BY <1>3, <2>2, PendIs
    <2>4. DOMAIN x = IdsOf(more, at) /\ \A j \in Waiting(more, at) : x[more[j].id] = Brings(more[j].cmd)
      BY <1>1, <1>2, <2>3
    <2> QED BY <2>1, <2>2, <2>3, <2>4, PendEquals
  <1> QED BY <1>1, <1>2, <1>3

\* A call that comes to a stage with a number of its own.
LEMMA Joins ==
  ASSUME NEW calls, NEW more, NEW k, NEW r, Turned(calls, more, k, r), NEW at,
         calls[k].at # at, r.at = at, r.id \notin IdsOf(calls, at), Distinct(calls, at)
  PROVE  /\ IdsOf(more, at) = IdsOf(calls, at) \cup {r.id} /\ Distinct(more, at)
         /\ Pend(more, at) = Bind(Pend(calls, at), r.id, Brings(r.cmd))
  <1>1. /\ Waiting(more, at) = Waiting(calls, at) \cup {k} /\ k \notin Waiting(calls, at) /\ more[k] = r
        /\ \A j \in Waiting(calls, at) : more[j] = calls[j]
    BY DEF Turned, Waiting
  <1>2. \A j \in Waiting(calls, at) : calls[j].id # r.id
    BY DEF IdsOf
  <1>3. IdsOf(more, at) = IdsOf(calls, at) \cup {r.id}
    BY <1>1 DEF IdsOf
  <1>4. Distinct(more, at)
    BY <1>1, <1>2 DEF Distinct
  <1>5. PICK x, y : x = Pend(calls, at) /\ y = Bind(x, r.id, Brings(r.cmd))
    OBVIOUS
  <1>6. /\ DOMAIN x = IdsOf(calls, at)
        /\ \A j \in Waiting(calls, at) : x[calls[j].id] = Brings(calls[j].cmd)
    BY <1>5, PendIs
  <1>7. /\ DOMAIN y = DOMAIN x \cup {r.id} /\ \A v \in DOMAIN y : y[v] = IF v = r.id THEN Brings(r.cmd) ELSE x[v]
        /\ y = [v \in DOMAIN y |-> y[v]]
    BY <1>5 DEF Bind
  <1>8. DOMAIN y = IdsOf(more, at)
    BY <1>3, <1>6, <1>7
  <1>9. ASSUME NEW j \in Waiting(more, at) PROVE y[more[j].id] = Brings(more[j].cmd)
    <2>1. CASE j = k
      BY <1>1, <1>7, <2>1
    <2>2. CASE j # k
      <3>1. j \in Waiting(calls, at) /\ more[j] = calls[j] /\ calls[j].id # r.id /\ calls[j].id \in DOMAIN x
        BY <1>1, <1>2, <1>6, <2>2 DEF IdsOf
      <3> QED BY <1>6, <1>7, <3>1
    <2> QED BY <2>1, <2>2
  <1>10. Pend(more, at) = y
    BY <1>4, <1>7, <1>8, <1>9, PendEquals
  <1> QED BY <1>3, <1>4, <1>5, <1>10

\* A call that leaves a stage.
LEMMA Quits ==
  ASSUME NEW calls, NEW more, NEW k, NEW r, Turned(calls, more, k, r), NEW at,
         calls[k].at = at, r.at # at, Distinct(calls, at)
  PROVE  /\ IdsOf(more, at) = IdsOf(calls, at) \ {calls[k].id} /\ Distinct(more, at)
         /\ calls[k].id \in IdsOf(calls, at)
         /\ DOMAIN Pend(calls, at) = IdsOf(calls, at) /\ Pend(calls, at)[calls[k].id] = Brings(calls[k].cmd)
         /\ DOMAIN Pend(more, at) = IdsOf(calls, at) \ {calls[k].id}
         /\ \A v \in DOMAIN Pend(more, at) : Pend(more, at)[v] = Pend(calls, at)[v]
  <1>1. /\ Waiting(more, at) = Waiting(calls, at) \ {k} /\ k \in Waiting(calls, at)
        /\ \A j \in Waiting(more, at) : more[j] = calls[j]
    BY DEF Turned, Waiting
  <1>2. \A j \in Waiting(more, at) : calls[j].id # calls[k].id
    BY <1>1 DEF Distinct
  <1>3. IdsOf(more, at) = IdsOf(calls, at) \ {calls[k].id}
    BY <1>1, <1>2 DEF IdsOf
  <1>4. Distinct(more, at)
    BY <1>1 DEF Distinct
  <1>5. PICK x, y : x = Pend(calls, at) /\ y = Pend(more, at)
    OBVIOUS
  <1>6. DOMAIN x = IdsOf(calls, at) /\ \A j \in Waiting(calls, at) : x[calls[j].id] = Brings(calls[j].cmd)
    BY <1>5, PendIs
  <1>7. DOMAIN y = IdsOf(more, at) /\ \A j \in Waiting(more, at) : y[more[j].id] = Brings(more[j].cmd)
    BY <1>4, <1>5, PendIs
  <1>8. ASSUME NEW v \in DOMAIN y PROVE y[v] = x[v]
    <2>1. PICK j \in Waiting(more, at) : v = more[j].id
      BY <1>7 DEF IdsOf
    <2>2. j \in Waiting(calls, at) /\ more[j] = calls[j]
      BY <1>1, <2>1
    <2> QED BY <1>6, <1>7, <2>1, <2>2
  <1>9. calls[k].id \in IdsOf(calls, at)
    BY <1>1 DEF IdsOf
  <1> QED BY <1>1, <1>3, <1>4, <1>5, <1>6, <1>7, <1>8, <1>9

-----------------------------------------------------------------------------
(* The session.                                                            *)

CallTyped(r) ==
    \/ r.at = "idle"
    \/ r.at \in {"checking", "issued"} /\ r.cmd \in Command
    \/ /\ r.at = "building" /\ r.cmd \in Command /\ r.cmd.cmd = "spawn"
       /\ r = [at |-> "building", cmd |-> r.cmd, id |-> r.id]
    \/ r.at = "built" /\ r.cmd \in Command /\ r.cmd.cmd = "spawn"
    \/ r.at = "starting" /\ r.cmd \in Command /\ r.cmd.cmd = "app"
    \/ r.at = "stopping" /\ r.cmd \in Command /\ r.cmd.cmd = "remove"

SessionTypes ==
    /\ scene \in Scenes /\ Ordered(fabric)
    /\ DOMAIN call = Client /\ call = [k \in Client |-> call[k]]
    /\ \A k \in Client : CallTyped(call[k])
    /\ journal \in Seq(Command) /\ taken \in Nat

\* The nodes whose going has been published.
Gone == {n.node : n \in {m \in notices : m.event = "remove"}}
Come == {n.node : n \in {m \in notices : m.event = "spawn"}}

\* Numbers under way are apart from each other and from those of the nodes and apps there are; a
\* node that went, or goes, does not come again, and one that is there to be announced may be gone
\* by then.
NumbersApart(calls, f, gone) ==
    LET building == IdsOf(calls, "building")
        built == IdsOf(calls, "built")
        stopping == IdsOf(calls, "stopping")
        starting == IdsOf(calls, "starting")
    IN /\ \A at \in {"building", "built", "stopping", "starting"} : Distinct(calls, at)
       /\ building \cup built \cup stopping \cup gone \subseteq 0..(f.nextNode - 1)
       /\ building \cap (DOMAIN f.nodes \cup built \cup stopping \cup gone) = {}
       /\ stopping \cap DOMAIN f.nodes = {}
       /\ gone \cap (DOMAIN f.nodes \cup stopping) = {}
       /\ built \subseteq DOMAIN f.nodes \cup stopping \cup gone
       /\ starting \subseteq 0..(f.nextApp - 1) /\ starting \cap DOMAIN f.apps = {}

\* The journal has the commands that are to take effect at their turns.
Entered(calls, entries) ==
    \A k \in Waiting(calls, "issued") :
        calls[k].turn \in 1..Len(entries) /\ entries[calls[k].turn] = calls[k].cmd

\* The replay of what took effect is the fabric with what is under way laid under it.
Replays ==
    recording /\ ~tangled =>
        /\ Entered(call, journal) /\ taken <= Len(journal)
        /\ ExecutesFirst(base, journal, taken) = Overlay(fabric, Pend(call, "building"), Pend(call, "starting"))

\* Who follows the notices knows the nodes there are, but for those to be announced yet, and those
\* being shut down.
Follows == Known = (DOMAIN fabric.nodes \cup IdsOf(call, "stopping")) \ IdsOf(call, "built")

\* The inductive invariant.
SessionInv == SessionTypes /\ NumbersApart(call, fabric, Gone) /\ Replays /\ Follows

LEMMA KnownIs == Known = (DOMAIN Started(scene).nodes \cup Come) \ Gone
  BY DEF Known, Come, Gone

\* What comes of a call that turns.
LEMMA TurnsTyped ==
  ASSUME SessionTypes, NEW k \in Client, NEW r, CallTyped(r), call' = [call EXCEPT ![k] = r]
  PROVE  /\ DOMAIN call' = Client /\ call' = [j \in Client |-> call'[j]]
         /\ \A j \in Client : CallTyped(call'[j])
         /\ Turned(call, call', k, r)
  <1>1. DOMAIN call = Client /\ \A j \in Client : CallTyped(call[j])
    BY DEF SessionTypes
  <1>2. /\ DOMAIN call' = Client /\ call' = [j \in Client |-> call'[j]]
        /\ call'[k] = r /\ \A j \in Client \ {k} : call'[j] = call[j]
    BY <1>1
  <1>3. \A j \in Client : CallTyped(call'[j])
    BY <1>1, <1>2
  <1> QED BY <1>2, <1>3 DEF Turned

LEMMA SessionInvInit == SessionInit => SessionInv
  <1> SUFFICES ASSUME SessionInit PROVE SessionInv
    OBVIOUS
  <1>1. /\ scene \in Scenes /\ fabric = Started(scene) /\ call = [c \in Client |-> AtRest]
        /\ journal = <<>> /\ recording = FALSE /\ notices = {} /\ taken = 0
    BY DEF SessionInit
  <1>2. \A k \in Client : call[k].at = "idle"
    BY <1>1 DEF AtRest
  <1>3. SessionTypes
    <2>1. Ordered(fabric)
      BY <1>1, StartedOrdered
    <2>2. journal \in Seq(Command)
      BY <1>1, EmptySeq
    <2> QED BY <1>1, <1>2, <2>1, <2>2 DEF SessionTypes, CallTyped
  <1>4. \A at \in {"building", "built", "stopping", "starting"} :
           Waiting(call, at) = {} /\ IdsOf(call, at) = {} /\ Distinct(call, at)
    BY <1>2 DEF Waiting, IdsOf, Distinct
  <1>5. Gone = {} /\ Come = {}
    BY <1>1 DEF Gone, Come
  <1>6. NumbersApart(call, fabric, Gone) /\ Replays
    BY <1>1, <1>4, <1>5 DEF NumbersApart, Replays
  <1>7. Follows
    BY <1>1, <1>4, <1>5, KnownIs DEF Follows
  <1> QED BY <1>3, <1>6, <1>7 DEF SessionInv

\* A call that turns where nothing is under way leaves all that as it was.
LEMMA WaitingKeeps ==
  ASSUME SessionInv, NEW k \in Client, call[k].at \in {"idle", "checking", "issued"},
         NEW r, CallTyped(r), r.at \in {"idle", "checking", "issued"}, call' = [call EXCEPT ![k] = r],
         UNCHANGED <<scene, fabric, notices>>
  PROVE  /\ DOMAIN call' = Client /\ call' = [j \in Client |-> call'[j]]
         /\ \A j \in Client : CallTyped(call'[j])
         /\ Turned(call, call', k, r)
         /\ NumbersApart(call', fabric', Gone') /\ Follows'
         /\ Pend(call', "building") = Pend(call, "building") /\ Pend(call', "starting") = Pend(call, "starting")
  <1>1. /\ DOMAIN call' = Client /\ call' = [j \in Client |-> call'[j]]
        /\ \A j \in Client : CallTyped(call'[j])
        /\ Turned(call, call', k, r)
    BY TurnsTyped DEF SessionInv
  <1>2. \A at \in {"building", "built", "stopping", "starting"} : Distinct(call, at)
    BY DEF SessionInv, NumbersApart
  <1>3. ASSUME NEW at \in {"building", "built", "stopping", "starting"}
        PROVE  /\ IdsOf(call', at) = IdsOf(call, at) /\ Distinct(call', at)
               /\ Pend(call', at) = Pend(call, at)
    <2>1. call[k].at # at /\ r.at # at
      OBVIOUS
    <2> QED BY <1>1, <1>2, <2>1, Stays
  <1>4. Gone' = Gone /\ Known' = Known
    BY DEF Gone, Known
  <1>5. NumbersApart(call', fabric', Gone')
    BY <1>3, <1>4 DEF SessionInv, NumbersApart
  <1>6. Follows'
    BY <1>3, <1>4 DEF SessionInv, Follows
  <1> QED BY <1>1, <1>3, <1>5, <1>6

\* A request enters the journal.
LEMMA EnterKeeps ==
  ASSUME SessionInv, NEW k \in Client, call[k].at \in {"idle", "checking"}, NEW c \in Command, Enter(k, c)
  PROVE  SessionInv'
  <1> DEFINE r == [at |-> "issued", cmd |-> c, turn |-> Len(journal) + 1]
  <1>1. /\ call' = [call EXCEPT ![k] = r]
        /\ UNCHANGED <<scene, fabric, recording, base, taken, tangled, notices>>
    BY DEF Enter
  <1>2. CallTyped(r) /\ r.at = "issued" /\ r.cmd = c /\ r.turn = Len(journal) + 1
    BY DEF CallTyped
  <1> HIDE DEF r
  <1>3. /\ DOMAIN call' = Client /\ call' = [j \in Client |-> call'[j]]
        /\ \A j \in Client : CallTyped(call'[j])
        /\ Turned(call, call', k, r)
        /\ NumbersApart(call', fabric', Gone') /\ Follows'
        /\ Pend(call', "building") = Pend(call, "building") /\ Pend(call', "starting") = Pend(call, "starting")
    BY <1>1, <1>2, WaitingKeeps
  <1>4. journal \in Seq(Command) /\ taken \in Nat
    BY DEF SessionInv, SessionTypes
  <1>5. journal' = IF recording THEN Append(journal, c) ELSE journal
    <2>1. Journaled("issued", c) = IF recording THEN <<c>> ELSE <<>>
      BY DEF Journaled, Journals
    <2>2. Append(journal, c) = journal \o <<c>> /\ journal \o <<>> = journal
      BY <1>4, AppendIsConcat, ConcatEmptySeq
    <2> QED BY <2>1, <2>2 DEF Enter
  <1>6. journal' \in Seq(Command)
    BY <1>4, <1>5, AppendProperties
  <1>7. SessionTypes'
    BY <1>1, <1>3, <1>4, <1>6 DEF SessionInv, SessionTypes
  <1>8. Replays'
    <2> SUFFICES ASSUME recording, ~tangled
                 PROVE  /\ Entered(call', journal') /\ taken <= Len(journal')
                        /\ ExecutesFirst(base, journal', taken)
                              = Overlay(fabric, Pend(call', "building"), Pend(call', "starting"))
      BY <1>1 DEF Replays
    <2>1. /\ Entered(call, journal) /\ taken <= Len(journal)
          /\ ExecutesFirst(base, journal, taken) = Overlay(fabric, Pend(call, "building"), Pend(call, "starting"))
      BY DEF SessionInv, Replays
    <2>2. PICK n \in Nat : n = Len(journal)
      BY <1>4, LenProperties
    <2>3. /\ Len(journal') = n + 1 /\ journal'[n + 1] = c
          /\ \A i \in 1..n : journal'[i] = journal[i]
      BY <1>4, <1>5, <2>2, AppendProperties
    <2>4. ASSUME NEW j \in Waiting(call', "issued")
          PROVE  call'[j].turn \in 1..Len(journal') /\ journal'[call'[j].turn] = call'[j].cmd
      <3>1. CASE j = k
        <4>1. call'[j] = r
          BY <1>3, <3>1 DEF Turned
        <4>2. n + 1 \in 1..(n + 1)
          OBVIOUS
        <4> QED BY <1>2, <2>2, <2>3, <4>1, <4>2
      <3>2. CASE j # k
        <4>1. call'[j] = call[j] /\ j \in Waiting(call, "issued")
          BY <1>3, <3>2 DEF Turned, Waiting
        <4>2. call[j].turn \in 1..n /\ journal[call[j].turn] = call[j].cmd
          BY <2>1, <2>2, <4>1 DEF Entered
        <4>3. PICK t : t = call[j].turn
          OBVIOUS
        <4>4. t \in 1..(n + 1)
          BY <4>2, <4>3
        <4> QED BY <2>3, <4>1, <4>2, <4>3, <4>4
      <3> QED BY <3>1, <3>2
    <2>5. taken <= n + 1 /\ \A i \in 1..taken : journal[i] = journal'[i]
      BY <1>4, <2>1, <2>2, <2>3
    <2>6. ExecutesFirst(base, journal', taken) = ExecutesFirst(base, journal, taken)
      <3>1. PICK more : more = journal'
        OBVIOUS
      <3>2. ExecutesFirst(base, journal, taken) = ExecutesFirst(base, more, taken)
        BY <1>4, <2>5, <3>1, FirstAgrees
      <3> QED BY <3>1, <3>2
    <2> QED BY <1>3, <2>1, <2>3, <2>4, <2>5, <2>6 DEF Entered
  <1> QED BY <1>3, <1>7, <1>8 DEF SessionInv

\* A request that is validated first, or refused.
LEMMA RequestKeeps ==
  ASSUME SessionInv, NEW k \in Client, call[k].at \in {"idle", "checking"},
         NEW r, CallTyped(r), r.at \in {"idle", "checking"}, call' = [call EXCEPT ![k] = r],
         UNCHANGED <<scene, fabric, journal, recording, base, taken, tangled, notices>>
  PROVE  SessionInv'
  <1>1. /\ DOMAIN call' = Client /\ call' = [j \in Client |-> call'[j]]
        /\ \A j \in Client : CallTyped(call'[j])
        /\ Turned(call, call', k, r)
        /\ NumbersApart(call', fabric', Gone') /\ Follows'
        /\ Pend(call', "building") = Pend(call, "building") /\ Pend(call', "starting") = Pend(call, "starting")
    BY WaitingKeeps
  <1>2. SessionTypes'
    BY <1>1 DEF SessionInv, SessionTypes
  <1>3. Entered(call, journal) => Entered(call', journal)
    <2>1. Waiting(call', "issued") = Waiting(call, "issued")
      BY <1>1, Stays
    <2>2. \A j \in Waiting(call, "issued") : call'[j] = call[j]
      BY <1>1 DEF Turned, Waiting
    <2> QED BY <2>1, <2>2 DEF Entered
  <1>4. Replays'
    BY <1>1, <1>3 DEF SessionInv, Replays
  <1> QED BY <1>1, <1>2, <1>4 DEF SessionInv

-----------------------------------------------------------------------------
(* What a command does to the fabric.                                      *)

\* A command that takes effect in its turn is the next of the replay.
LEMMA ActReplays ==
  ASSUME SessionInv, NEW k \in Client, Act(k)
  PROVE  /\ call[k].cmd \in Command /\ call[k].cmd.cmd \notin {"declare", "apps"}
         /\ journal' = journal /\ taken' \in Nat /\ UNCHANGED <<scene, recording, base, notices>>
         /\ recording /\ ~tangled' =>
               /\ Entered(call, journal) /\ taken' <= Len(journal)
               /\ ExecutesFirst(base, journal, taken')
                     = Executes(Overlay(fabric, Pend(call, "building"), Pend(call, "starting")), call[k].cmd)
               /\ Names(call[k].cmd) \cap IdsOf(call, "building") = {}
               /\ call[k].cmd.cmd = "stop" => call[k].cmd.app \notin IdsOf(call, "starting")
  <1>1. call[k].at = "issued" /\ UNCHANGED <<scene, recording, base, notices>>
    BY DEF Act
  <1>2. call[k].cmd \in Command
    BY <1>1 DEF SessionInv, SessionTypes, CallTyped
  <1>3. call[k].cmd.cmd \notin {"declare", "apps"}
    BY <1>2, SessionAssumption
  <1>4. journal \in Seq(Command) /\ taken \in Nat
    BY DEF SessionInv, SessionTypes
  <1>5. journal' = journal
    <2>1. Journaled("executed", call[k].cmd) = <<>>
      BY DEF Journaled, Journals
    <2>2. journal \o <<>> = journal
      BY <1>4, ConcatEmptySeq
    <2>3. journal' = journal \/ journal' = journal \o Journaled("executed", call[k].cmd)
      BY DEF Act
    <2> QED BY <2>1, <2>2, <2>3
  <1>6. /\ recording => /\ taken' = taken + 1
                        /\ ~tangled' => ~tangled /\ call[k].turn = taken + 1 /\ ~NamesAhead(call[k].cmd)
        /\ ~recording => taken' = taken
    BY DEF Act
  <1>7. taken' \in Nat
    BY <1>4, <1>6
  <1>8. ASSUME recording, ~tangled'
        PROVE  /\ Entered(call, journal) /\ taken' <= Len(journal)
               /\ ExecutesFirst(base, journal, taken')
                     = Executes(Overlay(fabric, Pend(call, "building"), Pend(call, "starting")), call[k].cmd)
    <2>1. /\ Entered(call, journal) /\ taken <= Len(journal)
          /\ ExecutesFirst(base, journal, taken) = Overlay(fabric, Pend(call, "building"), Pend(call, "starting"))
      BY <1>6, <1>8 DEF SessionInv, Replays
    <2>2. k \in Waiting(call, "issued")
      BY <1>1 DEF Waiting
    <2>3. taken + 1 \in 1..Len(journal) /\ journal[taken + 1] = call[k].cmd
      BY <1>6, <1>8, <2>1, <2>2 DEF Entered
    <2>4. ExecutesFirst(base, journal, taken + 1) = Executes(ExecutesFirst(base, journal, taken), journal[taken + 1])
      BY <1>4, FirstOneMore
    <2> QED BY <1>6, <1>8, <2>1, <2>3, <2>4
  <1>9. ASSUME recording, ~tangled'
        PROVE  /\ Names(call[k].cmd) \cap IdsOf(call, "building") = {}
               /\ call[k].cmd.cmd = "stop" => call[k].cmd.app \notin IdsOf(call, "starting")
    <2>1. ~NamesAhead(call[k].cmd)
      BY <1>6, <1>9
    <2>2. Ids("building") = IdsOf(call, "building") /\ Ids("starting") = IdsOf(call, "starting")
      BY DEF Ids, Calls, IdsOf, Waiting
    <2> QED BY <2>1, <2>2 DEF NamesAhead
  <1> QED BY <1>1, <1>2, <1>3, <1>5, <1>7, <1>8, <1>9

\* The other commands that were issued stay in their turns.
LEMMA LeavesEntered ==
  ASSUME NEW calls, NEW more, NEW k, NEW r, Turned(calls, more, k, r), r.at # "issued",
         NEW entries, Entered(calls, entries)
  PROVE  Entered(more, entries)
  <1>1. \A j \in Waiting(more, "issued") : j \in Waiting(calls, "issued") /\ more[j] = calls[j]
    BY DEF Turned, Waiting
  <1> QED BY <1>1 DEF Entered

\* A spawn draws an id.
LEMMA ActSpawnKeeps ==
  ASSUME SessionInv, NEW k \in Client, Act(k), call[k].cmd.cmd = "spawn"
  PROVE  SessionInv'
  <1> DEFINE c == call[k].cmd
             r == [at |-> "building", cmd |-> c, id |-> fabric.nextNode]
             X == Pend(call, "building")
             Y == Pend(call, "starting")
  <1>1. /\ c \in Command /\ c.cmd \notin {"declare", "apps"}
        /\ journal' = journal /\ taken' \in Nat /\ UNCHANGED <<scene, recording, base, notices>>
        /\ recording /\ ~tangled' =>
              /\ Entered(call, journal) /\ taken' <= Len(journal)
              /\ ExecutesFirst(base, journal, taken') = Executes(Overlay(fabric, X, Y), c)
    BY ActReplays
  <1>2. SessionTypes /\ NumbersApart(call, fabric, Gone) /\ Follows /\ Ordered(fabric)
    BY DEF SessionInv, SessionTypes
  <1>3. fabric' = Draws(fabric)
    <2>1. fabric' = Begins(fabric, c)
      BY DEF Act
    <2> QED BY <2>1 DEF Begins, Effect, Succeeds, Does
  <1>4. call[k].at = "issued" /\ call' = [call EXCEPT ![k] = r]
    <2>1. Continues(c)
      BY DEF Continues, Succeeds
    <2> QED BY <2>1 DEF Act, Afterwards, Drawn
  <1>5. CallTyped(r) /\ r.at = "building" /\ r.id = fabric.nextNode /\ r.cmd = c /\ Brings(c) = c.label
    BY <1>1 DEF CallTyped, Brings
  <1> HIDE DEF r, X, Y
  <1>6. /\ DOMAIN call' = Client /\ call' = [j \in Client |-> call'[j]]
        /\ \A j \in Client : CallTyped(call'[j])
        /\ Turned(call, call', k, r)
    BY <1>2, <1>4, <1>5, TurnsTyped
  <1>7. /\ Ordered(fabric') /\ fabric'.nodes = fabric.nodes /\ fabric'.nextNode = fabric.nextNode + 1
        /\ fabric'.apps = fabric.apps /\ fabric'.nextApp = fabric.nextApp
    <2>1. Like(Draws(fabric), fabric.nodes, fabric.nextNode + 1, fabric.apps, fabric.nextApp)
      BY <1>2, SpawnsIs DEF Ordered
    <2>2. Ordered(Begins(fabric, c)) /\ fabric' = Begins(fabric, c)
      BY <1>1, <1>2, BeginsIs DEF Act
    <2> QED BY <1>3, <2>1, <2>2 DEF Like
  <1>8. fabric.nextNode \in Nat /\ DOMAIN fabric.nodes \subseteq 0..(fabric.nextNode - 1)
    BY <1>2 DEF Ordered
  <1>9. fabric.nextNode \notin DOMAIN fabric.nodes \cup IdsOf(call, "building") \cup IdsOf(call, "built")
                                 \cup IdsOf(call, "stopping") \cup Gone
    BY <1>2, <1>8 DEF NumbersApart
  <1>10. /\ IdsOf(call', "building") = IdsOf(call, "building") \cup {fabric.nextNode}
         /\ Distinct(call', "building")
         /\ Pend(call', "building") = Bind(X, fabric.nextNode, c.label)
    BY <1>2, <1>4, <1>5, <1>6, <1>9, Joins DEF X, NumbersApart
  <1>11. ASSUME NEW at \in {"built", "stopping", "starting"}
         PROVE  IdsOf(call', at) = IdsOf(call, at) /\ Distinct(call', at) /\ Pend(call', at) = Pend(call, at)
    <2>1. call[k].at # at /\ r.at # at /\ Distinct(call, at)
      BY <1>2, <1>4, <1>5 DEF NumbersApart
    <2> QED BY <1>6, <2>1, Stays
  <1>12. Gone' = Gone /\ Known' = Known
    BY <1>1 DEF Gone, Known
  <1>13. NumbersApart(call', fabric', Gone')
    <2>1. PICK m, m1 : m = fabric.nextNode /\ m1 = fabric'.nextNode
      OBVIOUS
    <2>2. m \in Nat /\ m1 = m + 1 /\ 0..(m - 1) \subseteq 0..(m1 - 1) /\ m \in 0..(m1 - 1)
      BY <1>7, <1>8, <2>1
    <2>3. IdsOf(call', "building") \cup IdsOf(call', "built") \cup IdsOf(call', "stopping") \cup Gone \subseteq 0..(m1 - 1)
      BY <1>2, <1>10, <1>11, <2>1, <2>2 DEF NumbersApart
    <2> QED BY <1>2, <1>7, <1>9, <1>10, <1>11, <1>12, <2>1, <2>3 DEF NumbersApart
  <1>14. Follows'
    BY <1>2, <1>7, <1>11, <1>12 DEF Follows
  <1>15. Replays'
    <2> SUFFICES ASSUME recording, ~tangled'
                 PROVE  /\ Entered(call', journal) /\ taken' <= Len(journal)
                        /\ ExecutesFirst(base, journal, taken')
                              = Overlay(fabric', Pend(call', "building"), Pend(call', "starting"))
      BY <1>1 DEF Replays
    <2>1. Executes(Overlay(fabric, X, Y), c) = Overlay(fabric', Bind(X, fabric.nextNode, c.label), Y)
      BY <1>2, <1>3, SpawnOver
    <2>2. Pend(call', "starting") = Y
      BY <1>11 DEF Y
    <2>3. Entered(call', journal)
      BY <1>1, <1>5, <1>6, LeavesEntered
    <2> QED BY <1>1, <1>10, <2>1, <2>2, <2>3
  <1>16. SessionTypes'
    BY <1>1, <1>2, <1>6, <1>7 DEF SessionTypes
  <1> QED BY <1>13, <1>14, <1>15, <1>16 DEF SessionInv

\* An app draws a number.
LEMMA ActAppKeeps ==
  ASSUME SessionInv, NEW k \in Client, Act(k), call[k].cmd.cmd = "app", Succeeds(fabric, call[k].cmd)
  PROVE  SessionInv'
  <1> DEFINE c == call[k].cmd
             r == [at |-> "starting", cmd |-> c, id |-> fabric.nextApp]
             X == Pend(call, "building")
             Y == Pend(call, "starting")
  <1>1. /\ c \in Command /\ c.cmd \notin {"declare", "apps"}
        /\ journal' = journal /\ taken' \in Nat /\ UNCHANGED <<scene, recording, base, notices>>
        /\ recording /\ ~tangled' =>
              /\ Entered(call, journal) /\ taken' <= Len(journal)
              /\ ExecutesFirst(base, journal, taken') = Executes(Overlay(fabric, X, Y), c)
              /\ Names(c) \cap IdsOf(call, "building") = {}
    BY ActReplays
  <1>2. SessionTypes /\ NumbersApart(call, fabric, Gone) /\ Follows /\ Ordered(fabric)
    BY DEF SessionInv, SessionTypes
  <1>3. fabric' = DrawsApp(fabric)
    BY DEF Act, Begins
  <1>4. call[k].at = "issued" /\ call' = [call EXCEPT ![k] = r]
    <2>1. Continues(c)
      BY DEF Continues
    <2> QED BY <2>1 DEF Act, Afterwards, Drawn
  <1>5. CallTyped(r) /\ r.at = "starting" /\ r.id = fabric.nextApp /\ r.cmd = c /\ Brings(c) = c.node
    BY <1>1 DEF CallTyped, Brings
  <1> HIDE DEF r, X, Y
  <1>6. /\ DOMAIN call' = Client /\ call' = [j \in Client |-> call'[j]]
        /\ \A j \in Client : CallTyped(call'[j])
        /\ Turned(call, call', k, r)
    BY <1>2, <1>4, <1>5, TurnsTyped
  <1>7. /\ Ordered(fabric') /\ fabric'.nodes = fabric.nodes /\ fabric'.nextNode = fabric.nextNode
        /\ fabric'.apps = fabric.apps /\ fabric'.nextApp = fabric.nextApp + 1
    <2>1. Like(DrawsApp(fabric), fabric.nodes, fabric.nextNode, fabric.apps, fabric.nextApp + 1)
      BY <1>2, SpawnsIs DEF Ordered
    <2>2. Ordered(Begins(fabric, c)) /\ fabric' = Begins(fabric, c)
      BY <1>1, <1>2, BeginsIs DEF Act
    <2> QED BY <1>3, <2>1, <2>2 DEF Like
  <1>8. fabric.nextApp \in Nat /\ DOMAIN fabric.apps \subseteq 0..(fabric.nextApp - 1)
    BY <1>2 DEF Ordered
  <1>9. fabric.nextApp \notin DOMAIN fabric.apps \cup IdsOf(call, "starting")
    BY <1>2, <1>8 DEF NumbersApart
  <1>10. /\ IdsOf(call', "starting") = IdsOf(call, "starting") \cup {fabric.nextApp}
         /\ Distinct(call', "starting")
         /\ Pend(call', "starting") = Bind(Y, fabric.nextApp, c.node)
    BY <1>2, <1>4, <1>5, <1>6, <1>9, Joins DEF Y, NumbersApart
  <1>11. ASSUME NEW at \in {"building", "built", "stopping"}
         PROVE  IdsOf(call', at) = IdsOf(call, at) /\ Distinct(call', at) /\ Pend(call', at) = Pend(call, at)
    <2>1. call[k].at # at /\ r.at # at /\ Distinct(call, at)
      BY <1>2, <1>4, <1>5 DEF NumbersApart
    <2> QED BY <1>6, <2>1, Stays
  <1>12. Gone' = Gone /\ Known' = Known
    BY <1>1 DEF Gone, Known
  <1>13. NumbersApart(call', fabric', Gone')
    <2>1. PICK m, m1 : m = fabric.nextApp /\ m1 = fabric'.nextApp
      OBVIOUS
    <2>2. m \in Nat /\ m1 = m + 1 /\ 0..(m - 1) \subseteq 0..(m1 - 1) /\ m \in 0..(m1 - 1)
      BY <1>7, <1>8, <2>1
    <2>3. IdsOf(call', "starting") \subseteq 0..(m1 - 1)
      BY <1>2, <1>10, <2>1, <2>2 DEF NumbersApart
    <2> QED BY <1>2, <1>7, <1>9, <1>10, <1>11, <1>12, <2>1, <2>3 DEF NumbersApart
  <1>14. Follows'
    BY <1>2, <1>7, <1>11, <1>12 DEF Follows
  <1>15. Replays'
    <2> SUFFICES ASSUME recording, ~tangled'
                 PROVE  /\ Entered(call', journal) /\ taken' <= Len(journal)
                        /\ ExecutesFirst(base, journal, taken')
                              = Overlay(fabric', Pend(call', "building"), Pend(call', "starting"))
      BY <1>1 DEF Replays
    <2>1. DOMAIN X = IdsOf(call, "building") /\ DOMAIN Y = IdsOf(call, "starting")
      BY DEF X, Y, Pend
    <2>2. Executes(Overlay(fabric, X, Y), c) = Overlay(fabric', X, Bind(Y, fabric.nextApp, c.node))
      BY <1>1, <1>2, <1>3, <1>9, <2>1, AppOver
    <2>3. Pend(call', "building") = X
      BY <1>11 DEF X
    <2>4. Entered(call', journal)
      BY <1>1, <1>5, <1>6, LeavesEntered
    <2> QED BY <1>1, <1>10, <2>2, <2>3, <2>4
  <1>16. SessionTypes'
    BY <1>1, <1>2, <1>6, <1>7 DEF SessionTypes
  <1> QED BY <1>13, <1>14, <1>15, <1>16 DEF SessionInv

\* A command that spawns nothing.
LEMMA ActOtherKeeps ==
  ASSUME SessionInv, NEW k \in Client, Act(k), call[k].cmd.cmd # "spawn",
         ~(call[k].cmd.cmd = "app" /\ Succeeds(fabric, call[k].cmd))
  PROVE  SessionInv'
  <1> DEFINE c == call[k].cmd
             X == Pend(call, "building")
             Y == Pend(call, "starting")
             Removed == c.cmd = "remove" /\ c.node \in DOMAIN fabric.nodes
  <1>1. /\ c \in Command /\ c.cmd \notin {"declare", "apps"}
        /\ journal' = journal /\ taken' \in Nat /\ UNCHANGED <<scene, recording, base, notices>>
        /\ recording /\ ~tangled' =>
              /\ Entered(call, journal) /\ taken' <= Len(journal)
              /\ ExecutesFirst(base, journal, taken') = Executes(Overlay(fabric, X, Y), c)
              /\ Names(c) \cap IdsOf(call, "building") = {}
              /\ c.cmd = "stop" => c.app \notin IdsOf(call, "starting")
    BY ActReplays
  <1>2. SessionTypes /\ NumbersApart(call, fabric, Gone) /\ Follows /\ Ordered(fabric) /\ Shaped(fabric)
    BY DEF SessionInv, SessionTypes, Ordered
  <1>3. fabric' = Begins(fabric, c) /\ fabric' = Effect(fabric, c)
    BY DEF Act, Begins
  <1>4. PICK r : /\ call' = [call EXCEPT ![k] = r] /\ CallTyped(r) /\ r.at \in {"idle", "stopping"}
                 /\ r.at = "stopping" <=> Removed
                 /\ Removed => r.id = c.node
    <2>1. Continues(c) <=> Removed
      BY DEF Continues, Succeeds
    <2>2. CASE Removed
      <3> DEFINE s == [at |-> "stopping", cmd |-> c, id |-> c.node]
      <3>1. call' = [call EXCEPT ![k] = s]
        BY <2>1, <2>2 DEF Act, Afterwards, Drawn
      <3>2. CallTyped(s) /\ s.at = "stopping" /\ s.id = c.node
        BY <1>1, <2>2 DEF CallTyped
      <3> QED BY <2>2, <3>1, <3>2
    <2>3. CASE ~Removed
      <3>1. call' = [call EXCEPT ![k] = AtRest]
        BY <2>1, <2>3 DEF Act
      <3>2. CallTyped(AtRest) /\ AtRest.at = "idle"
        BY DEF CallTyped, AtRest
      <3> QED BY <2>3, <3>1, <3>2
    <2> QED BY <2>2, <2>3
  <1>5. call[k].at = "issued"
    BY DEF Act
  <1> HIDE DEF X, Y
  <1>6. /\ DOMAIN call' = Client /\ call' = [j \in Client |-> call'[j]]
        /\ \A j \in Client : CallTyped(call'[j])
        /\ Turned(call, call', k, r)
    BY <1>2, <1>4, TurnsTyped
  <1>7. /\ Ordered(fabric') /\ fabric'.nextNode = fabric.nextNode /\ fabric'.nextApp = fabric.nextApp
        /\ DOMAIN fabric'.nodes = IF Removed THEN DOMAIN fabric.nodes \ {c.node} ELSE DOMAIN fabric.nodes
        /\ DOMAIN fabric'.apps \subseteq DOMAIN fabric.apps
    <2>1. /\ Ordered(Begins(fabric, c))
          /\ Begins(fabric, c).nextNode = IF c.cmd = "spawn" THEN fabric.nextNode + 1 ELSE fabric.nextNode
          /\ Begins(fabric, c).nodes = IF c.cmd = "remove" /\ c.node \in DOMAIN fabric.nodes
                                       THEN Restrict(fabric.nodes, DOMAIN fabric.nodes \ {c.node}) ELSE fabric.nodes
          /\ Begins(fabric, c).nextApp = IF c.cmd = "app" /\ Succeeds(fabric, c) THEN fabric.nextApp + 1 ELSE fabric.nextApp
          /\ DOMAIN Begins(fabric, c).apps \subseteq DOMAIN fabric.apps
      BY <1>1, <1>2, BeginsIs
    <2>2. \A m, S : DOMAIN Restrict(m, S) = S
      BY DEF Restrict
    <2> QED BY <1>3, <2>1, <2>2
  <1>8. ASSUME NEW at \in {"building", "built", "starting"}
        PROVE  IdsOf(call', at) = IdsOf(call, at) /\ Distinct(call', at) /\ Pend(call', at) = Pend(call, at)
    <2>1. call[k].at # at /\ r.at # at /\ Distinct(call, at)
      BY <1>2, <1>4, <1>5 DEF NumbersApart
    <2> QED BY <1>6, <2>1, Stays
  <1>9. Gone' = Gone /\ Known' = Known
    BY <1>1 DEF Gone, Known
  <1>10. /\ IdsOf(call', "stopping") = IdsOf(call, "stopping") \cup (IF Removed THEN {c.node} ELSE {})
         /\ Distinct(call', "stopping")
    <2>1. CASE Removed
      <3>1. r.id \notin IdsOf(call, "stopping") /\ Distinct(call, "stopping")
        BY <1>2, <1>4, <2>1 DEF NumbersApart
      <3> QED BY <1>4, <1>5, <1>6, <2>1, <3>1, Joins
    <2>2. CASE ~Removed
      BY <1>2, <1>4, <1>5, <1>6, <2>2, Stays DEF NumbersApart
    <2> QED BY <2>1, <2>2
  <1>11. NumbersApart(call', fabric', Gone')
    <2>1. Removed => c.node \in 0..(fabric.nextNode - 1)
      BY <1>2 DEF Ordered
    <2>2. \A at \in {"building", "built", "stopping", "starting"} : Distinct(call', at)
      BY <1>8, <1>10
    <2>3. /\ IdsOf(call', "building") = IdsOf(call, "building") /\ IdsOf(call', "built") = IdsOf(call, "built")
          /\ IdsOf(call', "starting") = IdsOf(call, "starting")
      BY <1>8
    <2> QED BY <1>2, <1>7, <1>9, <1>10, <2>1, <2>2, <2>3 DEF NumbersApart
  <1>12. Follows'
    BY <1>2, <1>7, <1>8, <1>9, <1>10 DEF Follows
  <1>13. Replays'
    <2> SUFFICES ASSUME recording, ~tangled'
                 PROVE  /\ Entered(call', journal) /\ taken' <= Len(journal)
                        /\ ExecutesFirst(base, journal, taken')
                              = Overlay(fabric', Pend(call', "building"), Pend(call', "starting"))
      BY <1>1 DEF Replays
    <2>1. DOMAIN X = IdsOf(call, "building") /\ DOMAIN Y = IdsOf(call, "starting")
      BY DEF X, Y, Pend
    <2>2. Executes(Overlay(fabric, X, Y), c) = Overlay(fabric', X, Y)
      BY <1>1, <1>2, <1>3, <2>1, OtherwiseOver
    <2>3. Pend(call', "building") = X /\ Pend(call', "starting") = Y
      BY <1>8 DEF X, Y
    <2>4. Entered(call', journal)
      BY <1>1, <1>4, <1>6, LeavesEntered
    <2> QED BY <1>1, <2>2, <2>3, <2>4
  <1>14. SessionTypes'
    BY <1>1, <1>2, <1>6, <1>7 DEF SessionTypes
  <1> QED BY <1>11, <1>12, <1>13, <1>14 DEF SessionInv

\* The node is built: what was under way is there, to be announced.
LEMMA BuiltKeeps == ASSUME SessionInv, NEW k \in Client, Built(k) PROVE SessionInv'
  <1> DEFINE X == Pend(call, "building")
             Y == Pend(call, "starting")
             Z == Pend(call', "building")
  <1>1. /\ SessionTypes /\ NumbersApart(call, fabric, Gone) /\ Follows /\ Replays /\ Ordered(fabric)
        /\ UNCHANGED <<scene, journal, recording, base, taken, tangled, notices>>
    BY DEF SessionInv, SessionTypes, Built
  <1>2. PICK id, c, r : id = call[k].id /\ c = call[k].cmd /\ r = [at |-> "built", cmd |-> c, id |-> id]
    OBVIOUS
  <1>3. /\ call[k].at = "building" /\ c \in Command /\ c.cmd = "spawn"
        /\ call[k] = [at |-> "building", cmd |-> c, id |-> id]
    BY <1>1, <1>2 DEF Built, SessionTypes, CallTyped
  <1>4. call' = [call EXCEPT ![k] = r] /\ fabric' = Inserts(fabric, id, c.label)
    <2>1. call' = [call EXCEPT ![k] = [call[k] EXCEPT !.at = "built"]]
      BY DEF Built
    <2>2. [call[k] EXCEPT !.at = "built"] = r
      BY <1>2, <1>3
    <2> QED BY <1>2, <2>1, <2>2 DEF Built
  <1>5. CallTyped(r) /\ r.at = "built" /\ r.id = id /\ Brings(c) = c.label
    BY <1>2, <1>3 DEF CallTyped, Brings
  <1> HIDE DEF X, Y, Z
  <1>6. /\ DOMAIN call' = Client /\ call' = [j \in Client |-> call'[j]]
        /\ \A j \in Client : CallTyped(call'[j])
        /\ Turned(call, call', k, r)
    BY <1>1, <1>4, <1>5, TurnsTyped
  <1>7. /\ IdsOf(call', "building") = IdsOf(call, "building") \ {id} /\ Distinct(call', "building")
        /\ id \in IdsOf(call, "building")
        /\ DOMAIN X = IdsOf(call, "building") /\ X[id] = c.label
        /\ DOMAIN Z = DOMAIN X \ {id} /\ \A v \in DOMAIN Z : Z[v] = X[v]
    <2>1. PICK at : at = "building"
      OBVIOUS
    <2>2. call[k].at = at /\ Distinct(call, at) /\ r.at # at
      BY <1>3, <1>1, <1>5, <2>1 DEF NumbersApart
    <2>3. /\ IdsOf(call', at) = IdsOf(call, at) \ {call[k].id} /\ Distinct(call', at)
          /\ call[k].id \in IdsOf(call, at)
          /\ DOMAIN Pend(call, at) = IdsOf(call, at) /\ Pend(call, at)[call[k].id] = Brings(call[k].cmd)
          /\ DOMAIN Pend(call', at) = IdsOf(call, at) \ {call[k].id}
          /\ \A v \in DOMAIN Pend(call', at) : Pend(call', at)[v] = Pend(call, at)[v]
      BY <1>6, <2>2, Quits
    <2> QED BY <1>2, <1>5, <2>1, <2>3 DEF X, Z
  <1>8. /\ id \in 0..(fabric.nextNode - 1)
        /\ id \notin DOMAIN fabric.nodes \cup IdsOf(call, "built") \cup IdsOf(call, "stopping") \cup Gone
    BY <1>1, <1>7 DEF NumbersApart
  <1>9. /\ Ordered(fabric') /\ DOMAIN fabric'.nodes = DOMAIN fabric.nodes \cup {id}
        /\ fabric'.nextNode = fabric.nextNode /\ fabric'.apps = fabric.apps /\ fabric'.nextApp = fabric.nextApp
    <2>1. /\ Ordered(Inserts(fabric, id, c.label))
          /\ Like(Inserts(fabric, id, c.label), Bind(fabric.nodes, id, c.label), fabric.nextNode, fabric.apps, fabric.nextApp)
      BY <1>1, <1>8, InsertsIs
    <2>2. DOMAIN Bind(fabric.nodes, id, c.label) = DOMAIN fabric.nodes \cup {id}
      BY DEF Bind
    <2> QED BY <1>4, <2>1, <2>2 DEF Like
  <1>10. IdsOf(call', "built") = IdsOf(call, "built") \cup {id} /\ Distinct(call', "built")
    <2>1. Distinct(call, "built") /\ call[k].at # "built" /\ r.id \notin IdsOf(call, "built")
      BY <1>1, <1>3, <1>5, <1>8 DEF NumbersApart
    <2> QED BY <1>5, <1>6, <2>1, Joins
  <1>11. ASSUME NEW at \in {"stopping", "starting"}
         PROVE  IdsOf(call', at) = IdsOf(call, at) /\ Distinct(call', at) /\ Pend(call', at) = Pend(call, at)
    <2>1. call[k].at # at /\ r.at # at /\ Distinct(call, at)
      BY <1>1, <1>3, <1>5 DEF NumbersApart
    <2> QED BY <1>6, <2>1, Stays
  <1>12. Gone' = Gone /\ Known' = Known
    BY <1>1 DEF Gone, Known
  <1>13. NumbersApart(call', fabric', Gone')
    <2>1. \A at \in {"building", "built", "stopping", "starting"} : Distinct(call', at)
      BY <1>7, <1>10, <1>11
    <2>2. IdsOf(call', "stopping") = IdsOf(call, "stopping") /\ IdsOf(call', "starting") = IdsOf(call, "starting")
      BY <1>11
    <2> QED BY <1>1, <1>7, <1>8, <1>9, <1>10, <1>12, <2>1, <2>2 DEF NumbersApart
  <1>14. Follows'
    BY <1>1, <1>8, <1>9, <1>10, <1>11, <1>12 DEF Follows
  <1>15. Replays'
    <2>1. Overlay(fabric', Z, Y) = Overlay(fabric, X, Y)
      BY <1>1, <1>4, <1>7, <1>8, InsertOver
    <2>2. Pend(call', "starting") = Y
      BY <1>11 DEF Y
    <2>3. Entered(call, journal) => Entered(call', journal)
      BY <1>5, <1>6, LeavesEntered
    <2> QED BY <1>1, <2>1, <2>2, <2>3 DEF Replays, X, Y, Z
  <1>16. SessionTypes'
    BY <1>1, <1>6, <1>9 DEF SessionTypes
  <1> QED BY <1>13, <1>14, <1>15, <1>16 DEF SessionInv

\* A call that is over is of nobody, and a journal takes nothing after the command was issued.
LEMMA NothingLate ==
  ASSUME SessionInv, NEW c
  PROVE  CallTyped(AtRest) /\ AtRest.at = "idle" /\ journal \o Journaled("executed", c) = journal
  <1>1. journal \in Seq(Command)
    BY DEF SessionInv, SessionTypes
  <1>2. Journaled("executed", c) = <<>>
    BY DEF Journaled, Journals
  <1> QED BY <1>1, <1>2, ConcatEmptySeq DEF CallTyped, AtRest

\* The app is started: its handle is there.
LEMMA HandleRecordedKeeps == ASSUME SessionInv, NEW k \in Client, HandleRecorded(k) PROVE SessionInv'
  <1> DEFINE X == Pend(call, "building")
             Y == Pend(call, "starting")
             Z == Pend(call', "starting")
  <1>1. PICK id, c, r : id = call[k].id /\ c = call[k].cmd /\ r = AtRest
    OBVIOUS
  <1>2. CallTyped(r) /\ r.at = "idle" /\ journal \o Journaled("executed", c) = journal
    BY <1>1, NothingLate
  <1>3. /\ SessionTypes /\ NumbersApart(call, fabric, Gone) /\ Follows /\ Replays /\ Ordered(fabric)
        /\ UNCHANGED <<scene, journal, recording, base, taken, tangled, notices>>
    BY <1>1, <1>2 DEF SessionInv, SessionTypes, HandleRecorded
  <1>4. /\ call[k].at = "starting" /\ c \in Command /\ c.cmd = "app" /\ Brings(c) = c.node
        /\ call' = [call EXCEPT ![k] = r] /\ fabric' = RecordsApp(fabric, id, c.node)
    BY <1>1, <1>3 DEF HandleRecorded, SessionTypes, CallTyped, Brings
  <1> HIDE DEF X, Y, Z
  <1>5. /\ DOMAIN call' = Client /\ call' = [j \in Client |-> call'[j]]
        /\ \A j \in Client : CallTyped(call'[j])
        /\ Turned(call, call', k, r)
    BY <1>2, <1>3, <1>4, TurnsTyped
  <1>6. /\ IdsOf(call', "starting") = IdsOf(call, "starting") \ {id} /\ Distinct(call', "starting")
        /\ id \in IdsOf(call, "starting")
        /\ DOMAIN Y = IdsOf(call, "starting") /\ Y[id] = c.node
        /\ DOMAIN Z = DOMAIN Y \ {id} /\ \A v \in DOMAIN Z : Z[v] = Y[v]
    <2>1. PICK at : at = "starting"
      OBVIOUS
    <2>2. call[k].at = at /\ Distinct(call, at) /\ r.at # at
      BY <1>4, <1>2, <1>3, <2>1 DEF NumbersApart
    <2>3. /\ IdsOf(call', at) = IdsOf(call, at) \ {call[k].id} /\ Distinct(call', at)
          /\ call[k].id \in IdsOf(call, at)
          /\ DOMAIN Pend(call, at) = IdsOf(call, at) /\ Pend(call, at)[call[k].id] = Brings(call[k].cmd)
          /\ DOMAIN Pend(call', at) = IdsOf(call, at) \ {call[k].id}
          /\ \A v \in DOMAIN Pend(call', at) : Pend(call', at)[v] = Pend(call, at)[v]
      BY <1>5, <2>2, Quits
    <2> QED BY <1>1, <1>4, <2>1, <2>3 DEF Y, Z
  <1>7. id \in 0..(fabric.nextApp - 1) /\ id \notin DOMAIN fabric.apps
    BY <1>3, <1>6 DEF NumbersApart
  <1>8. /\ Ordered(fabric') /\ DOMAIN fabric'.apps = DOMAIN fabric.apps \cup {id}
        /\ fabric'.nodes = fabric.nodes /\ fabric'.nextNode = fabric.nextNode /\ fabric'.nextApp = fabric.nextApp
    <2>1. /\ Ordered(RecordsApp(fabric, id, c.node))
          /\ Like(RecordsApp(fabric, id, c.node), fabric.nodes, fabric.nextNode, Bind(fabric.apps, id, c.node), fabric.nextApp)
      BY <1>3, <1>7, RecordsIs
    <2>2. DOMAIN Bind(fabric.apps, id, c.node) = DOMAIN fabric.apps \cup {id}
      BY DEF Bind
    <2> QED BY <1>4, <2>1, <2>2 DEF Like
  <1>9. ASSUME NEW at \in {"building", "built", "stopping"}
        PROVE  IdsOf(call', at) = IdsOf(call, at) /\ Distinct(call', at) /\ Pend(call', at) = Pend(call, at)
    <2>1. call[k].at # at /\ r.at # at /\ Distinct(call, at)
      BY <1>2, <1>3, <1>4 DEF NumbersApart
    <2> QED BY <1>5, <2>1, Stays
  <1>10. Gone' = Gone /\ Known' = Known
    BY <1>3 DEF Gone, Known
  <1>11. NumbersApart(call', fabric', Gone')
    <2>1. \A at \in {"building", "built", "stopping", "starting"} : Distinct(call', at)
      BY <1>6, <1>9
    <2>2. /\ IdsOf(call', "building") = IdsOf(call, "building") /\ IdsOf(call', "built") = IdsOf(call, "built")
          /\ IdsOf(call', "stopping") = IdsOf(call, "stopping")
      BY <1>9
    <2> QED BY <1>3, <1>6, <1>8, <1>10, <2>1, <2>2 DEF NumbersApart
  <1>12. Follows'
    BY <1>3, <1>8, <1>9, <1>10 DEF Follows
  <1>13. Replays'
    <2>1. Overlay(fabric', X, Z) = Overlay(fabric, X, Y)
      BY <1>3, <1>4, <1>6, <1>7, RecordOver
    <2>2. Pend(call', "building") = X
      BY <1>9 DEF X
    <2>3. Entered(call, journal) => Entered(call', journal)
      BY <1>2, <1>5, LeavesEntered
    <2> QED BY <1>3, <2>1, <2>2, <2>3 DEF Replays, X, Y, Z
  <1>14. SessionTypes'
    BY <1>3, <1>5, <1>8 DEF SessionTypes
  <1> QED BY <1>11, <1>12, <1>13, <1>14 DEF SessionInv

\* A notice goes out.
LEMMA PublishKeeps == ASSUME SessionInv, NEW k \in Client, Publish(k) PROVE SessionInv'
  <1>1. PICK id, c, r, n : /\ id = call[k].id /\ c = call[k].cmd /\ r = AtRest
                           /\ n = [event |-> call[k].cmd.cmd, node |-> call[k].id]
    OBVIOUS
  <1>2. CallTyped(r) /\ r.at = "idle" /\ journal \o Journaled("executed", c) = journal
    BY <1>1, NothingLate
  <1>3. /\ SessionTypes /\ NumbersApart(call, fabric, Gone) /\ Follows /\ Replays /\ Ordered(fabric)
        /\ UNCHANGED <<scene, fabric, journal, recording, base, taken, tangled>>
        /\ call' = [call EXCEPT ![k] = r] /\ notices' = notices \cup {n}
    BY <1>1, <1>2 DEF SessionInv, SessionTypes, Publish
  <1>4. /\ call[k].at \in {"built", "stopping"}
        /\ c.cmd = IF call[k].at = "built" THEN "spawn" ELSE "remove"
    BY <1>1, <1>3 DEF Publish, SessionTypes, CallTyped
  <1>5. n.event = c.cmd /\ n.node = id
    BY <1>1
  <1>6. /\ DOMAIN call' = Client /\ call' = [j \in Client |-> call'[j]]
        /\ \A j \in Client : CallTyped(call'[j])
        /\ Turned(call, call', k, r)
    BY <1>2, <1>3, TurnsTyped
  <1>7. /\ Come' = IF call[k].at = "built" THEN Come \cup {id} ELSE Come
        /\ Gone' = IF call[k].at = "stopping" THEN Gone \cup {id} ELSE Gone
    BY <1>3, <1>4, <1>5 DEF Come, Gone
  <1>8. Known' = (DOMAIN Started(scene).nodes \cup Come') \ Gone'
    BY <1>3 DEF Known, Come, Gone
  <1>9. ASSUME NEW at \in {"building", "built", "stopping", "starting"}
        PROVE  /\ Distinct(call', at)
               /\ IdsOf(call', at) = IF at = call[k].at THEN IdsOf(call, at) \ {id} ELSE IdsOf(call, at)
               /\ at = call[k].at => id \in IdsOf(call, at)
               /\ at # call[k].at => Pend(call', at) = Pend(call, at)
    <2>1. Distinct(call, at) /\ r.at # at
      BY <1>2, <1>3 DEF NumbersApart
    <2>2. CASE call[k].at = at
      <3>1. /\ IdsOf(call', at) = IdsOf(call, at) \ {call[k].id} /\ Distinct(call', at)
            /\ call[k].id \in IdsOf(call, at)
            /\ DOMAIN Pend(call, at) = IdsOf(call, at) /\ Pend(call, at)[call[k].id] = Brings(call[k].cmd)
            /\ DOMAIN Pend(call', at) = IdsOf(call, at) \ {call[k].id}
            /\ \A v \in DOMAIN Pend(call', at) : Pend(call', at)[v] = Pend(call, at)[v]
        BY <1>6, <2>1, <2>2, Quits
      <3> QED BY <1>1, <2>2, <3>1
    <2>3. CASE call[k].at # at
      BY <1>6, <2>1, <2>3, Stays
    <2> QED BY <2>2, <2>3
  <1> DEFINE B == IdsOf(call, "building")
             U == IdsOf(call, "built")
             T == IdsOf(call, "stopping")
             D == DOMAIN fabric.nodes
  <1>10. /\ IdsOf(call', "building") = B /\ IdsOf(call', "starting") = IdsOf(call, "starting")
         /\ Pend(call', "building") = Pend(call, "building") /\ Pend(call', "starting") = Pend(call, "starting")
    BY <1>4, <1>9
  <1>11. /\ \A at \in {"building", "built", "stopping", "starting"} : Distinct(call', at)
         /\ call[k].at = "built" =>
               id \in U /\ IdsOf(call', "built") = U \ {id} /\ IdsOf(call', "stopping") = T
         /\ call[k].at = "stopping" =>
               id \in T /\ IdsOf(call', "built") = U /\ IdsOf(call', "stopping") = T \ {id}
    BY <1>4, <1>9
  <1>12. /\ B \cup U \cup T \cup Gone \subseteq 0..(fabric.nextNode - 1)
         /\ B \cap (D \cup U \cup T \cup Gone) = {}
         /\ T \cap D = {} /\ Gone \cap (D \cup T) = {} /\ U \subseteq D \cup T \cup Gone
         /\ IdsOf(call, "starting") \subseteq 0..(fabric.nextApp - 1) /\ IdsOf(call, "starting") \cap DOMAIN fabric.apps = {}
    BY <1>3 DEF NumbersApart
  <1>13. Known = (D \cup T) \ U /\ Known = (DOMAIN Started(scene).nodes \cup Come) \ Gone
    BY <1>3, KnownIs DEF Follows
  <1> HIDE DEF B, U, T, D
  <1>14. /\ B \cup IdsOf(call', "built") \cup IdsOf(call', "stopping") \cup Gone' \subseteq 0..(fabric.nextNode - 1)
         /\ B \cap (D \cup IdsOf(call', "built") \cup IdsOf(call', "stopping") \cup Gone') = {}
         /\ IdsOf(call', "stopping") \cap D = {} /\ Gone' \cap (D \cup IdsOf(call', "stopping")) = {}
         /\ IdsOf(call', "built") \subseteq D \cup IdsOf(call', "stopping") \cup Gone'
    <2>1. CASE call[k].at = "built"
      <3>1. IdsOf(call', "built") = U \ {id} /\ IdsOf(call', "stopping") = T /\ Gone' = Gone
        BY <1>7, <1>11, <2>1
      <3> QED BY <1>12, <3>1
    <2>2. CASE call[k].at = "stopping"
      <3>1. id \in T /\ IdsOf(call', "built") = U /\ IdsOf(call', "stopping") = T \ {id} /\ Gone' = Gone \cup {id}
        BY <1>7, <1>11, <2>2
      <3> QED BY <1>12, <3>1
    <2> QED BY <1>4, <2>1, <2>2
  <1>15. NumbersApart(call', fabric', Gone')
    BY <1>3, <1>10, <1>11, <1>12, <1>14 DEF NumbersApart, D
  <1>16. Known' = (D \cup IdsOf(call', "stopping")) \ IdsOf(call', "built")
    <2>1. CASE call[k].at = "built"
      <3>1. id \in U /\ IdsOf(call', "built") = U \ {id} /\ IdsOf(call', "stopping") = T
        BY <1>11, <2>1
      <3>2. Known' = (DOMAIN Started(scene).nodes \cup Come \cup {id}) \ Gone
        BY <1>7, <1>8, <2>1
      <3>3. id \in D \cup T <=> id \notin Gone
        BY <1>12, <3>1
      <3> QED BY <1>13, <3>1, <3>2, <3>3
    <2>2. CASE call[k].at = "stopping"
      <3>1. id \in T /\ IdsOf(call', "built") = U /\ IdsOf(call', "stopping") = T \ {id} /\ id \notin D
        BY <1>11, <1>12, <2>2
      <3>2. Known' = (DOMAIN Started(scene).nodes \cup Come) \ (Gone \cup {id})
        BY <1>4, <1>7, <1>8, <2>2
      <3> QED BY <1>13, <3>1, <3>2
    <2> QED BY <1>4, <2>1, <2>2
  <1>17. Follows'
    BY <1>3, <1>16 DEF Follows, D
  <1>18. Replays'
    <2>1. Entered(call, journal) => Entered(call', journal)
      BY <1>2, <1>6, LeavesEntered
    <2> QED BY <1>3, <1>10, <2>1 DEF Replays
  <1>19. SessionTypes'
    BY <1>3, <1>6 DEF SessionTypes
  <1> QED BY <1>15, <1>17, <1>18, <1>19 DEF SessionInv

\* A recording begins: what is under way counts as tangled.
LEMMA StartRecordingKeeps == ASSUME SessionInv, StartRecording PROVE SessionInv'
  <1>1. /\ journal' = <<>> /\ base' = fabric /\ taken' = 0
        /\ tangled' = (Calls("issued") \cup Calls("building") \cup Calls("starting") # {})
        /\ UNCHANGED <<scene, fabric, call, notices>>
    BY DEF StartRecording
  <1>2. SessionTypes'
    BY <1>1, EmptySeq DEF SessionInv, SessionTypes
  <1>3. Gone' = Gone /\ Known' = Known
    BY <1>1 DEF Gone, Known
  <1>4. NumbersApart(call', fabric', Gone') /\ Follows'
    BY <1>1, <1>3 DEF SessionInv, NumbersApart, Follows
  <1>5. Replays'
    <2> SUFFICES ASSUME ~tangled'
                 PROVE  /\ Entered(call, <<>>) /\ 0 <= Len(<<>>)
                        /\ ExecutesFirst(fabric, <<>>, 0) = Overlay(fabric, Pend(call, "building"), Pend(call, "starting"))
      BY <1>1 DEF Replays
    <2>1. Waiting(call, "issued") = {} /\ Waiting(call, "building") = {} /\ Waiting(call, "starting") = {}
      BY <1>1 DEF Calls, Waiting
    <2>2. DOMAIN Pend(call, "building") = {} /\ DOMAIN Pend(call, "starting") = {}
      BY <2>1 DEF Pend, IdsOf
    <2>3. Overlay(fabric, Pend(call, "building"), Pend(call, "starting")) = fabric
      BY <2>2, NoneOver DEF SessionInv, SessionTypes
    <2>4. ExecutesFirst(fabric, <<>>, 0) = fabric
      BY ExecutesNone
    <2> QED BY <2>1, <2>3, <2>4 DEF Entered
  <1> QED BY <1>2, <1>4, <1>5 DEF SessionInv

LEMMA SessionInvNext == SessionInv /\ [SessionNext]_sessionVars => SessionInv'
  <1> SUFFICES ASSUME SessionInv, [SessionNext]_sessionVars PROVE SessionInv'
    OBVIOUS
  <1>1. CASE UNCHANGED sessionVars
    <2>1. UNCHANGED <<scene, fabric, call, requests, journal, recording, base, taken, tangled, notices>>
      BY <1>1 DEF sessionVars
    <2>2. Known' = Known /\ Gone' = Gone
      BY <2>1 DEF Known, Gone
    <2> QED BY <2>1, <2>2 DEF SessionInv, SessionTypes, NumbersApart, Replays, Follows
  <1>2. ASSUME NEW k \in Client, HandleJson(k) PROVE SessionInv'
    <2>1. call[k].at = "idle" /\ \E c \in Command : Enter(k, c)
      BY <1>2 DEF HandleJson
    <2> QED BY <2>1, EnterKeeps
  <1>3. ASSUME NEW k \in Client, HandleInterest(k) PROVE SessionInv'
    <2>1. PICK c \in Command : call' = [call EXCEPT ![k] = [at |-> "checking", cmd |-> c]]
      BY <1>3 DEF HandleInterest
    <2>2. PICK r : r = [at |-> "checking", cmd |-> c]
      OBVIOUS
    <2>3. CallTyped(r) /\ r.at = "checking"
      BY <2>1, <2>2 DEF CallTyped
    <2>4. call[k].at = "idle" /\ UNCHANGED <<scene, fabric, journal, recording, base, taken, tangled, notices>>
      BY <1>3 DEF HandleInterest
    <2> QED BY <2>1, <2>2, <2>3, <2>4, RequestKeeps
  <1>4. ASSUME NEW k \in Client, Validated(k) PROVE SessionInv'
    <2>1. call[k].at = "checking" /\ Enter(k, call[k].cmd)
      BY <1>4 DEF Validated
    <2>2. call[k].cmd \in Command
      BY <2>1 DEF SessionInv, SessionTypes, CallTyped
    <2> QED BY <2>1, <2>2, EnterKeeps
  <1>5. ASSUME NEW k \in Client, Unauthorized(k) PROVE SessionInv'
    <2>1. CallTyped(AtRest) /\ AtRest.at = "idle"
      BY DEF CallTyped, AtRest
    <2>2. /\ call[k].at = "checking" /\ call' = [call EXCEPT ![k] = AtRest]
          /\ UNCHANGED <<scene, fabric, journal, recording, base, taken, tangled, notices>>
      BY <1>5 DEF Unauthorized
    <2> QED BY <2>1, <2>2, RequestKeeps
  <1>6. ASSUME NEW k \in Client, Act(k) PROVE SessionInv'
    BY <1>6, ActSpawnKeeps, ActAppKeeps, ActOtherKeeps
  <1> QED BY <1>1, <1>2, <1>3, <1>4, <1>5, <1>6, BuiltKeeps, HandleRecordedKeeps, PublishKeeps,
             StartRecordingKeeps DEF SessionNext

LEMMA SessionInvImplies == SessionInv => SessionSound
  <1> SUFFICES ASSUME SessionInv PROVE SessionSound
    OBVIOUS
  <1>1. ASSUME NEW at PROVE Ids(at) = IdsOf(call, at) /\ Pending(at) = Pend(call, at)
    <2>1. Calls(at) = Waiting(call, at)
      BY DEF Calls, Waiting
    <2>2. Ids(at) = IdsOf(call, at)
      BY <2>1 DEF Ids, IdsOf
    <2>3. Pending(at) = [id \in Ids(at) |-> Brings(call[CHOOSE k \in Calls(at) : call[k].id = id].cmd)]
      BY DEF Pending, Brings
    <2>4. Pend(call, at) = [id \in IdsOf(call, at) |-> Brings(call[CHOOSE k \in Waiting(call, at) : call[k].id = id].cmd)]
      BY DEF Pend
    <2> QED BY <2>1, <2>2, <2>3, <2>4
  <1>2. Pending("building") = Pend(call, "building") /\ Pending("starting") = Pend(call, "starting")
    BY <1>1
  <1>3. Ids("stopping") = IdsOf(call, "stopping") /\ Ids("built") = IdsOf(call, "built")
    BY <1>1
  <1>4. Completed = Overlay(fabric, Pend(call, "building"), Pend(call, "starting"))
    BY <1>2 DEF Completed, Overlay
  <1> QED BY <1>3, <1>4 DEF SessionInv, Replays, Follows, SessionSound

LEMMA SessionPart == ToolkitSpec => SessionInit /\ [][SessionNext]_sessionVars
  <1>1. ToolkitInit => SessionInit
    BY DEF ToolkitInit
  <1>2. [ToolkitNext]_toolkitVars => [SessionNext]_sessionVars
    BY DEF ToolkitNext, toolkitVars, sessionVars
  <1> QED BY <1>1, <1>2, PTL DEF ToolkitSpec

\* ControlPlane::execute and Recording of replay.rs: for any clients, scenarios and commands, and with
\* the journal entry, the act, the insertion or handle and the notice of every call interleaved with
\* those of the others: as long as the commands took effect in the order they were journaled, and none
\* named a node or an app that was still under way, replaying those that did makes the fabric that
\* they made, numbers included.  And who follows the notices, in any order, knows the nodes there are
\* but for those not announced yet, and those being shut down.
THEOREM SessionsAreSound == ToolkitSpec => []SessionSound
  BY SessionPart, SessionInvInit, SessionInvNext, SessionInvImplies, PTL

-----------------------------------------------------------------------------
(* The fault schedule in the order it fires.                               *)

\* The schedule in order, and how long it is.
Schedule == InOrder(spec.faults)
Length == Len(spec.faults)

\* What the assumption on the specs gives.
LEMMA SpecIs ==
  ASSUME spec \in Specs
  PROVE  /\ spec.duration \in Nat
         /\ Length \in Nat /\ DOMAIN spec.faults = 1..Length
         /\ \A i \in DOMAIN spec.faults : spec.faults[i].at \in Nat
         /\ Len(spec.kernels) \in Nat \ {0} /\ DOMAIN spec.kernels = 1..Len(spec.kernels)
         /\ Len(spec.seeds) \in Nat \ {0} /\ DOMAIN spec.seeds = 1..Len(spec.seeds)
  <1>1. /\ spec.duration \in Nat /\ spec.kernels # <<>> /\ spec.seeds # <<>>
        /\ spec.faults \in Seq(Range(spec.faults)) /\ spec.kernels \in Seq(Range(spec.kernels))
        /\ spec.seeds \in Seq(Range(spec.seeds))
        /\ \A i \in DOMAIN spec.faults : spec.faults[i].at \in Nat
    BY ValidationAssumption
  <1>2. ASSUME NEW q, q \in Seq(Range(q))
        PROVE  Len(q) \in Nat /\ DOMAIN q = 1..Len(q) /\ (q # <<>> => Len(q) # 0)
    BY <1>2, LenProperties, EmptySeq
  <1> QED BY <1>1, <1>2 DEF Length

\* The schedule is as long as the faults and in the order of their offsets.
LEMMA ScheduleIs ==
  ASSUME spec \in Specs
  PROVE  /\ DOMAIN Schedule = 1..Length /\ Schedule \in Seq(Range(spec.faults)) /\ Len(Schedule) = Length
         /\ \A k \in 1..Length : Schedule[k].at \in Nat
         /\ \A k, l \in 1..Length : k <= l => Schedule[k].at <= Schedule[l].at
  <1>1. /\ Length \in Nat /\ DOMAIN spec.faults = 1..Length
        /\ \A i \in DOMAIN spec.faults : spec.faults[i].at \in Nat
    BY SpecIs
  <1> DEFINE S == DOMAIN spec.faults
             R == {p \in S \X S : Before(spec.faults, p[1], p[2])}
  <1>2. IsFiniteSet(S) /\ Cardinality(S) = Length
    BY <1>1, FS_Interval
  <1>3. \A i, j \in S : <<i, j>> \in R <=> Before(spec.faults, i, j)
    OBVIOUS
  <1>4. Orders(R, S)
    <2>1. ASSUME NEW i \in S, NEW j \in S, NEW k \in S
          PROVE  /\ Before(spec.faults, i, i)
                 /\ Before(spec.faults, i, j) \/ Before(spec.faults, j, i)
                 /\ Before(spec.faults, i, j) /\ Before(spec.faults, j, i) => i = j
                 /\ Before(spec.faults, i, j) /\ Before(spec.faults, j, k) => Before(spec.faults, i, k)
      <3>1. i \in Nat /\ j \in Nat /\ k \in Nat
        BY <1>1
      <3>2. spec.faults[i].at \in Nat /\ spec.faults[j].at \in Nat /\ spec.faults[k].at \in Nat
        BY <1>1
      <3> QED BY <3>1, <3>2 DEF Before
    <2> HIDE DEF R, S
    <2> QED BY <1>3, <2>1 DEF Orders
  <1>5. \A i \in S : Below(R, S, i) = {j \in S : Before(spec.faults, j, i)}
    BY DEF Below
  <1> HIDE DEF R, S
  <1>6. /\ \A i \in S : Cardinality(Below(R, S, i)) \in 1..Length
        /\ \A i, j \in S : <<i, j>> \in R /\ i # j => Cardinality(Below(R, S, i)) < Cardinality(Below(R, S, j))
        /\ \A k \in 1..Length : \E i \in S : Cardinality(Below(R, S, i)) = k
    BY <1>2, <1>4, RanksOfOrder
  <1> DEFINE PlaceOf(k) == CHOOSE i \in S : Cardinality({j \in S : Before(spec.faults, j, i)}) = k
  <1>7. \A k \in 1..Length : PlaceOf(k) \in S /\ Cardinality(Below(R, S, PlaceOf(k))) = k
    BY <1>5, <1>6
  <1>8. Schedule = [k \in 1..Length |-> spec.faults[PlaceOf(k)]]
    BY DEF Schedule, InOrder, Length, S
  <1> HIDE DEF PlaceOf
  <1>9. \A k \in 1..Length : Schedule[k] = spec.faults[PlaceOf(k)] /\ Schedule[k].at \in Nat /\ Schedule[k] \in Range(spec.faults)
    BY <1>1, <1>7, <1>8 DEF S, Range
  <1>10. Schedule \in Seq(Range(spec.faults)) /\ DOMAIN Schedule = 1..Length /\ Len(Schedule) = Length
    <2>1. Schedule \in [1..Length -> Range(spec.faults)]
      BY <1>8, <1>9
    <2>2. Schedule \in Seq(Range(spec.faults))
      BY <1>1, <2>1, SeqDef
    <2>3. DOMAIN Schedule = 1..Length
      BY <1>8
    <2>4. DOMAIN Schedule = 1..Len(Schedule) /\ Len(Schedule) \in Nat
      BY <2>2, LenProperties
    <2> QED BY <1>1, <2>2, <2>3, <2>4
  <1>11. ASSUME NEW k \in 1..Length, NEW l \in 1..Length, k <= l
         PROVE  Schedule[k].at <= Schedule[l].at
    <2>1. PICK i \in S, j \in S : i = PlaceOf(k) /\ j = PlaceOf(l)
      BY <1>7
    <2>2. Cardinality(Below(R, S, i)) = k /\ Cardinality(Below(R, S, j)) = l
      BY <1>7, <2>1
    <2>3. <<i, j>> \in R \/ (<<j, i>> \in R /\ i # j)
      BY <1>4 DEF Orders
    <2>4. <<i, j>> \in R
      <3>1. l \in Nat /\ k \in Nat
        BY <1>1
      <3> QED BY <1>6, <1>11, <2>2, <2>3, <3>1
    <2>5. Before(spec.faults, i, j)
      BY <1>3, <2>4
    <2>6. spec.faults[i].at \in Nat /\ spec.faults[j].at \in Nat
      BY <1>1 DEF S
    <2>7. spec.faults[i].at <= spec.faults[j].at
      BY <2>5, <2>6 DEF Before
    <2> QED BY <1>9, <2>1, <2>7
  <1> QED BY <1>9, <1>10, <1>11

-----------------------------------------------------------------------------
(* The fabric after some of the faults.                                    *)

\* The fabric of a run that has fired n faults.
FabricAfter(n) == ExecutesAll(Started(spec.scene), [i \in 1..n |-> Schedule[i].fault])

LEMMA FiringsAre ==
  ASSUME NEW n \in Nat
  PROVE  Len([i \in 1..n |-> Schedule[i].fault]) = n
  <1> DEFINE e == [i \in 1..n |-> Schedule[i].fault]
  <1>1. PICK S : S = {e[i] : i \in DOMAIN e}
    OBVIOUS
  <1>2. DOMAIN e = 1..n /\ e = [i \in DOMAIN e |-> e[i]] /\ \A i \in DOMAIN e : e[i] \in S
    BY <1>1
  <1> HIDE DEF e
  <1>3. e \in Seq(S)
    BY <1>2, TabulatedIsSeq
  <1>4. 1..Len(e) = 1..n /\ Len(e) \in Nat
    BY <1>2, <1>3, LenProperties
  <1>5. Len(e) = n
    BY <1>4
  <1> QED BY <1>5 DEF e

LEMMA NothingFired == FabricAfter(0) = Started(spec.scene)
  <1>1. PICK e : e = [i \in 1..0 |-> Schedule[i].fault]
    OBVIOUS
  <1>2. Len(e) = 0
    BY <1>1, FiringsAre
  <1>3. PICK f : f = Started(spec.scene)
    OBVIOUS
  <1>4. PICK g : Course(f, e, 0, g) /\ ExecutesAll(f, e) = g[0]
    <2>1. PICK g : Course(f, e, Len(e), g) /\ ExecutesAll(f, e) = g[Len(e)]
      BY <1>2, ExecutesAllIs
    <2> QED BY <1>2, <2>1
  <1>5. g[0] = f
    BY <1>4 DEF Course
  <1> QED BY <1>1, <1>3, <1>4, <1>5 DEF FabricAfter

\* One fault more is that fault, executed on the fabric after the others.
LEMMA OneMoreFired ==
  ASSUME NEW n \in Nat
  PROVE  FabricAfter(n + 1) = Executes(FabricAfter(n), Schedule[n + 1].fault)
  <1>1. PICK e, d : e = [i \in 1..n |-> Schedule[i].fault] /\ d = [i \in 1..(n + 1) |-> Schedule[i].fault]
    OBVIOUS
  <1>2. Len(e) = n /\ Len(d) = n + 1
    BY <1>1, FiringsAre
  <1>3. n + 1 \in 1..(n + 1) /\ \A i \in 1..n : i \in 1..(n + 1)
    OBVIOUS
  <1>4. d[n + 1] = Schedule[n + 1].fault /\ \A i \in 1..n : e[i] = d[i]
    BY <1>1, <1>3
  <1>5. PICK c : c = Schedule[n + 1].fault
    OBVIOUS
  <1>6. OneMoreCall(e, c, d)
    BY <1>2, <1>4, <1>5 DEF OneMoreCall
  <1>7. \A x, y, z, w : OneMoreCall(y, z, w) => ExecutesAll(x, w) = Executes(ExecutesAll(x, y), z)
    BY ExecutesOneMore
  <1> QED BY <1>1, <1>5, <1>6, <1>7 DEF FabricAfter

-----------------------------------------------------------------------------
(* A run by its fields.                                                    *)

RunOf(at, f, now, slept, rest) ==
    [at |-> at, fabric |-> f, clock |-> now, elapsed |-> slept, left |-> rest]

SleptRun(r, now, slept, at) == [r EXCEPT !.clock = now, !.elapsed = slept, !.at = at]
FiredRun(r, f, rest, at) == [r EXCEPT !.fabric = f, !.left = rest, !.at = at]
EndedRun(r, now, at) == [r EXCEPT !.clock = now, !.at = at]

LEMMA RunIs ==
  ASSUME NEW a, NEW f, NEW c, NEW e, NEW l, NEW r, r = RunOf(a, f, c, e, l)
  PROVE  r.at = a /\ r.fabric = f /\ r.clock = c /\ r.elapsed = e /\ r.left = l
  BY DEF RunOf

LEMMA RunMoves ==
  ASSUME NEW a, NEW f, NEW c, NEW e, NEW l, NEW x, NEW y, NEW z
  PROVE  /\ SleptRun(RunOf(a, f, c, e, l), x, y, z) = RunOf(z, f, x, y, l)
         /\ FiredRun(RunOf(a, f, c, e, l), x, y, z) = RunOf(z, x, c, e, y)
         /\ EndedRun(RunOf(a, f, c, e, l), x, z) = RunOf(z, f, x, e, l)
  <1>1. SleptRun(RunOf(a, f, c, e, l), x, y, z) = RunOf(z, f, x, y, l)
    <2>1. [RunOf(a, f, c, e, l) EXCEPT !.clock = x] = RunOf(a, f, x, e, l)
      BY DEF RunOf
    <2>2. [RunOf(a, f, x, e, l) EXCEPT !.elapsed = y] = RunOf(a, f, x, y, l)
      BY DEF RunOf
    <2>3. [RunOf(a, f, x, y, l) EXCEPT !.at = z] = RunOf(z, f, x, y, l)
      BY DEF RunOf
    <2> QED BY <2>1, <2>2, <2>3 DEF SleptRun
  <1>2. FiredRun(RunOf(a, f, c, e, l), x, y, z) = RunOf(z, x, c, e, y)
    <2>1. [RunOf(a, f, c, e, l) EXCEPT !.fabric = x] = RunOf(a, x, c, e, l)
      BY DEF RunOf
    <2>2. [RunOf(a, x, c, e, l) EXCEPT !.left = y] = RunOf(a, x, c, e, y)
      BY DEF RunOf
    <2>3. [RunOf(a, x, c, e, y) EXCEPT !.at = z] = RunOf(z, x, c, e, y)
      BY DEF RunOf
    <2> QED BY <2>1, <2>2, <2>3 DEF FiredRun
  <1>3. EndedRun(RunOf(a, f, c, e, l), x, z) = RunOf(z, f, x, e, l)
    <2>1. [RunOf(a, f, c, e, l) EXCEPT !.clock = x] = RunOf(a, f, x, e, l)
      BY DEF RunOf
    <2>2. [RunOf(a, f, x, e, l) EXCEPT !.at = z] = RunOf(z, f, x, e, l)
      BY DEF RunOf
    <2> QED BY <2>1, <2>2 DEF EndedRun
  <1> QED BY <1>1, <1>2, <1>3

-----------------------------------------------------------------------------
(* The invariant of a validation.                                          *)

\* When the i-th fault of the schedule is due.
DueAt(i) == Min({Schedule[i].at, spec.duration})

Firing == Nat \X Range(spec.faults)

\* The faults fired so far are the first of the schedule, each at its time.
FiredInv ==
    /\ fired \in Seq(Firing) /\ Len(fired) <= Length
    /\ \A i \in 1..Len(fired) : fired[i] = <<DueAt(i), Schedule[i]>>

\* A run in the middle of its faults is at the offset it has slept to, which is before the next.
RunInv ==
    \/ run = NoRun
    \/ /\ run = RunOf(run.at, run.fabric, run.clock, run.elapsed, run.left)
       /\ run.fabric = FabricAfter(Len(fired)) /\ sweep <= Swept
       /\ \/ /\ run.at = "faults" /\ run.clock = run.elapsed /\ run.elapsed \in 0..spec.duration
             /\ run.left = SubSeq(Schedule, Len(fired) + 1, Length)
             /\ \A i \in Len(fired) + 1..Length : run.elapsed <= DueAt(i)
          \/ /\ run.at = "fire" /\ run.clock = run.elapsed /\ run.elapsed \in 0..spec.duration
             /\ run.left = SubSeq(Schedule, Len(fired) + 1, Length)
             /\ Len(fired) < Length /\ run.elapsed = DueAt(Len(fired) + 1)
          \/ run.at = "sample" /\ run.clock = spec.duration /\ Len(fired) = Length

\* Every observation is what its kernel and seed come to on the fabric after all faults.
SeenInv ==
    /\ sweep \in Nat \ {0} /\ sweep <= Swept + 1
    /\ \E S : observations \in Seq(S)
    /\ Len(observations) = sweep - 1
    /\ \A i \in 1..Len(observations) :
          /\ observations[i].seed = Seed(i)
          /\ observations[i].metrics =
                [n \in DOMAIN FabricAfter(Length).nodes |-> outcome[<<Kernel(i), Seed(i)>>]]

\* What a passing verdict was given for.
Passed ==
    /\ \A i \in DOMAIN observations : \A p \in Range(spec.props) :
          p.need = 100 => Holds(p, observations[i])
    /\ KernelsAgree

ReportInv == report.verdict = "passed" => run = NoRun /\ sweep = Swept + 1 /\ Passed

\* The inductive invariant.
ValidationInv == spec \in Specs /\ FiredInv /\ RunInv /\ SeenInv /\ ReportInv

\* The due times are in order and within the run.
LEMMA DueAtIs ==
  ASSUME spec \in Specs
  PROVE  /\ \A i \in 1..Length : DueAt(i) \in Nat /\ DueAt(i) \in 0..spec.duration
         /\ \A i, j \in 1..Length : i <= j => DueAt(i) <= DueAt(j)
  <1>1. spec.duration \in Nat /\ Length \in Nat
    BY SpecIs
  <1>2. ASSUME NEW i \in 1..Length
        PROVE  /\ Schedule[i].at \in Nat /\ DueAt(i) \in Nat
               /\ DueAt(i) = IF Schedule[i].at <= spec.duration THEN Schedule[i].at ELSE spec.duration
    <2>1. Schedule[i].at \in Nat
      BY ScheduleIs
    <2> QED BY <1>1, <2>1, MinOfTwo DEF DueAt
  <1>3. ASSUME NEW i \in 1..Length PROVE DueAt(i) \in 0..spec.duration
    <2>1. PICK a \in Nat, d \in Nat, m \in Nat : a = Schedule[i].at /\ d = spec.duration /\ m = DueAt(i)
      BY <1>1, <1>2
    <2>2. m = IF a <= d THEN a ELSE d
      BY <1>2, <2>1
    <2>3. m \in 0..d
      BY <2>1, <2>2
    <2> QED BY <2>1, <2>3
  <1>4. ASSUME NEW i \in 1..Length, NEW j \in 1..Length, i <= j PROVE DueAt(i) <= DueAt(j)
    <2>1. PICK a \in Nat, b \in Nat, d \in Nat : a = Schedule[i].at /\ b = Schedule[j].at /\ d = spec.duration
      BY <1>1, <1>2
    <2>2. a <= b
      BY <1>4, <2>1, ScheduleIs
    <2>3. DueAt(i) = (IF a <= d THEN a ELSE d) /\ DueAt(j) = IF b <= d THEN b ELSE d
      BY <1>2, <2>1
    <2> QED BY <2>1, <2>2, <2>3
  <1> QED BY <1>2, <1>3, <1>4

-----------------------------------------------------------------------------
(* The validation's steps.                                                 *)

LEMMA ValidationInvInit == ValidationInit => ValidationInv
  <1> SUFFICES ASSUME ValidationInit PROVE ValidationInv
    OBVIOUS
  <1>1. /\ spec \in Specs /\ sweep = 1 /\ run = NoRun /\ fired = <<>> /\ observations = <<>>
        /\ report = [verdict |-> "none"]
    BY DEF ValidationInit
  <1>2. Length \in Nat /\ Len(spec.kernels) \in Nat \ {0} /\ Len(spec.seeds) \in Nat \ {0}
    BY <1>1, SpecIs
  <1>3. FiredInv
    <2>1. fired \in Seq(Firing) /\ Len(fired) = 0
      BY <1>1, EmptySeq
    <2> QED BY <1>2, <2>1 DEF FiredInv
  <1>4. SeenInv
    <2>1. Swept \in Nat \ {0}
      <3>1. \A a, b \in Nat \ {0} : a * b \in Nat \ {0}
        OBVIOUS
      <3> QED BY <1>2, <3>1 DEF Swept
    <2>2. \E S : observations \in Seq(S)
      BY <1>1, EmptySeq
    <2>3. Len(observations) = 0
      BY <1>1
    <2> QED BY <1>1, <2>1, <2>2, <2>3 DEF SeenInv
  <1>5. RunInv /\ ReportInv
    BY <1>1 DEF RunInv, ReportInv
  <1> QED BY <1>1, <1>3, <1>4, <1>5 DEF ValidationInv

\* What a step that leaves the spec and the observations alone keeps.
LEMMA StepKeeps ==
  ASSUME ValidationInv, UNCHANGED <<spec, outcome, sweep, observations>>
  PROVE  SeenInv' /\ (Passed' <=> Passed)
  <1>1. SeenInv'
    <2>1. Swept' = Swept /\ FabricAfter(Length)' = FabricAfter(Length)
      BY DEF Swept, FabricAfter, Schedule, Length
    <2>2. ASSUME NEW i PROVE Seed(i)' = Seed(i) /\ Kernel(i)' = Kernel(i)
      BY DEF Seed, Kernel
    <2>3. SeenInv
      BY DEF ValidationInv
    <2> QED BY <2>1, <2>2, <2>3 DEF SeenInv
  <1>2. Passed' <=> Passed
    BY DEF Passed, KernelsAgree, Holds
  <1> QED BY <1>1, <1>2

\* The spec never changes, nor what depends on it alone.
LEMMA Constant ==
  ASSUME UNCHANGED spec
  PROVE  /\ Schedule' = Schedule /\ Length' = Length /\ Swept' = Swept /\ Firing' = Firing
         /\ \A i : DueAt(i)' = DueAt(i)
         /\ \A n : FabricAfter(n)' = FabricAfter(n)
  BY DEF Schedule, Length, Swept, Firing, DueAt, FabricAfter

\* The run stops, or the validation does.
LEMMA FailsKeeps == ASSUME ValidationInv, Fails, UNCHANGED <<spec, outcome>> PROVE ValidationInv'
  <1>1. report' = [verdict |-> "error"] /\ UNCHANGED <<spec, outcome, sweep, run, fired, observations>>
    BY DEF Fails
  <1>2. SeenInv'
    BY <1>1, StepKeeps
  <1>3. FiredInv'
    BY <1>1 DEF ValidationInv, FiredInv, Firing, Length, DueAt, Schedule
  <1>4. RunInv'
    BY <1>1 DEF ValidationInv, RunInv, FabricAfter, Length, DueAt, Schedule, Swept
  <1>5. ReportInv'
    BY <1>1 DEF ReportInv
  <1> QED BY <1>1, <1>2, <1>3, <1>4, <1>5 DEF ValidationInv

LEMMA StartRunKeeps == ASSUME ValidationInv, StartRun PROVE ValidationInv'
  <1>0. spec \in Specs /\ UNCHANGED <<spec, outcome>>
    BY DEF ValidationInv, StartRun
  <1>a. CASE ~Starts(spec.scene)
    BY <1>0, <1>a, FailsKeeps DEF StartRun
  <1>b. CASE Starts(spec.scene)
    <2>1. /\ run' = RunOf("faults", Started(spec.scene), 0, 0, Schedule)
          /\ fired' = <<>> /\ UNCHANGED <<sweep, observations, report>>
          /\ sweep <= Swept /\ report.verdict = "none"
      BY <1>b DEF StartRun, RunOf, Schedule
    <2>2. /\ run'.at = "faults" /\ run'.fabric = Started(spec.scene) /\ run'.clock = 0
          /\ run'.elapsed = 0 /\ run'.left = Schedule
      BY <2>1, RunIs
    <2>3. FiredInv'
      <3>1. fired' \in Seq(Firing') /\ Len(fired') = 0
        BY <2>1, EmptySeq
      <3>2. Length' \in Nat
        BY <1>0, SpecIs, Constant
      <3> QED BY <3>1, <3>2 DEF FiredInv
    <2>4. RunInv'
      <3>1. Len(fired') = 0
        BY <2>1, EmptySeq
      <3>2. run'.fabric = FabricAfter(Len(fired))'
        <4>1. FabricAfter(0)' = FabricAfter(0)
          BY <1>0, Constant
        <4>2. FabricAfter(Len(fired))' = FabricAfter(0)'
          BY <3>1 DEF FabricAfter
        <4> QED BY <2>2, <4>1, <4>2, NothingFired
      <3>3. Schedule = SubSeq(Schedule, 1, Length) /\ Length \in Nat
        BY <1>0, ScheduleIs, SpecIs, SubSeqFull
      <3>4. run'.left = SubSeq(Schedule', Len(fired') + 1, Length')
        BY <1>0, <2>2, <3>1, <3>3, Constant
      <3>5. \A i \in 1..Length : 0 <= DueAt(i)
        BY <1>0, DueAtIs
      <3>6. \A i \in (Len(fired') + 1)..Length' : run'.elapsed <= DueAt(i)'
        <4>1. Len(fired') + 1 = 1 /\ Length' = Length
          BY <1>0, <3>1, Constant
        <4> QED BY <1>0, <2>2, <3>5, <4>1, Constant
      <3>7. run'.elapsed \in 0..spec'.duration
        BY <1>0, <2>2, SpecIs
      <3>8. run' = RunOf(run'.at, run'.fabric, run'.clock, run'.elapsed, run'.left)
        BY <2>1, <2>2
      <3>9. sweep' <= Swept'
        BY <1>0, <2>1, Constant
      <3> QED BY <2>2, <3>2, <3>4, <3>6, <3>7, <3>8, <3>9 DEF RunInv
    <2>5. SeenInv'
      BY <1>0, <2>1, StepKeeps
    <2>6. ReportInv'
      BY <2>1 DEF ReportInv
    <2> QED BY <1>0, <2>3, <2>4, <2>5, <2>6 DEF ValidationInv
  <1> QED BY <1>a, <1>b

\* The first of the faults to come.
LEMMA HeadIs ==
  ASSUME spec \in Specs, NEW n \in Nat, n <= Length, NEW left, left = SubSeq(Schedule, n + 1, Length)
  PROVE  /\ left # <<>> => n < Length /\ Head(left) = Schedule[n + 1] /\ n + 1 \in 1..Length
                           /\ Tail(left) = SubSeq(Schedule, n + 2, Length)
         /\ n < Length => left # <<>>
  <1>1. Length \in Nat /\ Schedule \in Seq(Range(spec.faults)) /\ Len(Schedule) = Length
    BY SpecIs, ScheduleIs
  <1>2. ASSUME n < Length
        PROVE  /\ n + 1 \in 1..Length /\ Head(left) = Schedule[n + 1]
               /\ Tail(left) = SubSeq(Schedule, n + 2, Length) /\ left # <<>>
    <2>1. n + 1 \in 1..Len(Schedule) /\ Length \in (n + 1)..Len(Schedule) /\ n + 1 \in 1..Length
          /\ n + 1 + 1 = n + 2
      BY <1>1, <1>2
    <2>2. PICK m : m = n + 1
      OBVIOUS
    <2>3. m \in 1..Len(Schedule) /\ Length \in m..Len(Schedule)
      BY <2>1, <2>2
    <2>4. Head(SubSeq(Schedule, m, Length)) = Schedule[m] /\ Tail(SubSeq(Schedule, m, Length)) = SubSeq(Schedule, m + 1, Length)
      BY <1>1, <2>3, HeadTailOfSubSeq
    <2>5. left # <<>>
      <3>1. \A i \in m..Length : Schedule[i] \in Range(spec.faults)
        <4>1. \A i \in m..Length : i \in 1..Len(Schedule)
          BY <1>1, <2>3
        <4> QED BY <1>1, <4>1, ElementOfSeq
      <3>2. m \in Int /\ Length \in Int /\ m <= Length
        BY <1>1, <2>1, <2>2
      <3>3. Len(SubSeq(Schedule, m, Length)) = IF m <= Length THEN Length - m + 1 ELSE 0
        BY <3>1, <3>2, SubSeqProperties
      <3>4. Len(left) # 0
        BY <2>2, <3>2, <3>3
      <3> QED BY <3>4, EmptySeq
    <2> QED BY <2>1, <2>2, <2>4, <2>5
  <1>3. ASSUME ~(n < Length) PROVE left = <<>>
    <2>1. n + 1 \in Int /\ Length \in Int /\ Length < n + 1
      BY <1>1, <1>3
    <2> QED BY <2>1, SubSeqEmpty
  <1> QED BY <1>2, <1>3

\* In the middle of its faults: the next is due at or after the offset the run is at.
LEMMA Underway ==
  ASSUME ValidationInv, run.at \in {"faults", "fire"}
  PROVE  /\ run = RunOf(run.at, run.fabric, run.clock, run.elapsed, run.left)
         /\ run.fabric = FabricAfter(Len(fired)) /\ sweep <= Swept
         /\ run.clock = run.elapsed /\ run.elapsed \in 0..spec.duration
         /\ run.left = SubSeq(Schedule, Len(fired) + 1, Length)
         /\ Len(fired) \in Nat /\ Len(fired) <= Length /\ Length \in Nat
         /\ report.verdict # "passed"
         /\ run.left # <<>> =>
               /\ Len(fired) < Length /\ Len(fired) + 1 \in 1..Length
               /\ Head(run.left) = Schedule[Len(fired) + 1] /\ Target = DueAt(Len(fired) + 1)
               /\ Tail(run.left) = SubSeq(Schedule, Len(fired) + 2, Length)
               /\ run.elapsed <= DueAt(Len(fired) + 1)
         /\ run.left = <<>> => Len(fired) = Length
         /\ run.at = "fire" => run.elapsed = DueAt(Len(fired) + 1)
  <1>1. spec \in Specs /\ Len(fired) \in Nat /\ Len(fired) <= Length /\ Length \in Nat
    BY LenProperties, SpecIs DEF ValidationInv, FiredInv
  <1>2. run # NoRun
    BY DEF NoRun
  <1>3. /\ run = RunOf(run.at, run.fabric, run.clock, run.elapsed, run.left)
        /\ run.fabric = FabricAfter(Len(fired)) /\ sweep <= Swept
        /\ run.clock = run.elapsed /\ run.elapsed \in 0..spec.duration
        /\ run.left = SubSeq(Schedule, Len(fired) + 1, Length)
        /\ run.at = "fire" => run.elapsed = DueAt(Len(fired) + 1)
        /\ run.at = "faults" => \A i \in Len(fired) + 1..Length : run.elapsed <= DueAt(i)
    BY <1>2 DEF ValidationInv, RunInv
  <1>4. PICK n \in Nat, m \in Nat : n = Len(fired) /\ m = Length
    BY <1>1
  <1>5. /\ run.left # <<>> => n < m /\ Head(run.left) = Schedule[n + 1] /\ n + 1 \in 1..m
                              /\ Tail(run.left) = SubSeq(Schedule, n + 2, m)
        /\ n < m => run.left # <<>>
    BY <1>1, <1>3, <1>4, HeadIs
  <1>6. ASSUME run.left # <<>> PROVE run.elapsed <= DueAt(n + 1) /\ Target = DueAt(n + 1)
    <2>1. Target = DueAt(n + 1)
      BY <1>5, <1>6 DEF Target, DueAt
    <2>2. n + 1 \in n + 1..m /\ n + 1 \in 1..m
      BY <1>5, <1>6
    <2>3. CASE run.at = "faults"
      BY <1>3, <1>4, <2>1, <2>2, <2>3
    <2>4. CASE run.at = "fire"
      <3>1. DueAt(n + 1) \in Nat
        BY <1>1, <1>4, <2>2, DueAtIs
      <3>2. run.elapsed = DueAt(n + 1)
        BY <1>3, <1>4, <2>4
      <3> QED BY <2>1, <3>1, <3>2
    <2> QED BY <2>3, <2>4
  <1>7. run.left = <<>> => n = m
    BY <1>1, <1>4, <1>5
  <1>8. report.verdict # "passed"
    BY <1>2 DEF ValidationInv, ReportInv
  <1> QED BY <1>1, <1>3, <1>4, <1>5, <1>6, <1>7, <1>8

LEMMA SleepToFaultKeeps == ASSUME ValidationInv, SleepToFault PROVE ValidationInv'
  <1>1. /\ run.at = "faults" /\ run.left # <<>> /\ UNCHANGED <<spec, outcome, sweep, fired, observations, report>>
        /\ run' = SleptRun(run, run.clock + (Target - run.elapsed), SleptTo(Target), "fire")
        /\ spec \in Specs
    BY DEF SleepToFault, SleptRun, ValidationInv
  <1>2. PICK n \in Nat, m \in Nat : n = Len(fired) /\ m = Length
    BY <1>1, Underway
  <1>e. PICK t, e : t = DueAt(n + 1) /\ e = run.elapsed
    OBVIOUS
  <1>3. /\ run = RunOf(run.at, run.fabric, run.clock, run.elapsed, run.left)
        /\ run.fabric = FabricAfter(n) /\ sweep <= Swept
        /\ run.clock = e /\ e \in 0..spec.duration
        /\ run.left = SubSeq(Schedule, n + 1, m) /\ n < m /\ n + 1 \in 1..m /\ Target = t
        /\ report.verdict # "passed"
    BY <1>1, <1>2, <1>e, Underway
  <1>4. t \in Nat /\ t \in 0..spec.duration
    BY <1>1, <1>2, <1>e, <1>3, DueAtIs
  <1>5. run.clock + (Target - run.elapsed) = t /\ SleptTo(Target) = t
    <2>1. e \in Nat
      BY <1>1, <1>3, SpecIs
    <2>2. e + (t - e) = t
      BY <1>4, <2>1
    <2> QED BY <1>2, <1>e, <1>3, <2>2 DEF SleptTo
  <1>6. run' = RunOf("fire", run.fabric, t, t, run.left)
    <2>1. \A a, f, c, e1, l, x, y, z : SleptRun(RunOf(a, f, c, e1, l), x, y, z) = RunOf(z, f, x, y, l)
      BY RunMoves
    <2> QED BY <1>1, <1>3, <1>5, <2>1
  <1>7. /\ run'.at = "fire" /\ run'.fabric = run.fabric /\ run'.clock = t /\ run'.elapsed = t
        /\ run'.left = run.left
    BY <1>6, RunIs
  <1>8. RunInv'
    <2>1. /\ Schedule' = Schedule /\ Length' = Length /\ Swept' = Swept
          /\ DueAt(n + 1)' = DueAt(n + 1) /\ FabricAfter(n)' = FabricAfter(n)
      BY <1>1, Constant
    <2>2. Len(fired') = n /\ FabricAfter(Len(fired))' = FabricAfter(n)' /\ DueAt(Len(fired) + 1)' = DueAt(n + 1)'
      BY <1>1, <1>2, <1>e DEF FabricAfter, DueAt
    <2>3. run' = RunOf(run'.at, run'.fabric, run'.clock, run'.elapsed, run'.left)
      BY <1>6, <1>7
    <2>4. run'.fabric = FabricAfter(Len(fired))' /\ sweep' <= Swept'
      BY <1>1, <1>3, <1>7, <2>1, <2>2
    <2>5. run'.left = SubSeq(Schedule', Len(fired') + 1, Length') /\ Len(fired') < Length'
      BY <1>2, <1>e, <1>3, <1>7, <2>1, <2>2
    <2>6. run'.elapsed = DueAt(Len(fired) + 1)' /\ run'.elapsed \in 0..spec'.duration
      BY <1>1, <1>2, <1>e, <1>4, <1>7, <2>1, <2>2
    <2> QED BY <1>7, <2>3, <2>4, <2>5, <2>6 DEF RunInv
  <1>9. FiredInv'
    BY <1>1 DEF ValidationInv, FiredInv, Firing, Length, DueAt, Schedule
  <1>10. SeenInv' /\ ReportInv'
    BY <1>1, <1>3, StepKeeps DEF ReportInv
  <1> QED BY <1>1, <1>8, <1>9, <1>10 DEF ValidationInv

LEMMA FireKeeps == ASSUME ValidationInv, Fire PROVE ValidationInv'
  <1>1. /\ run.at \in {"faults", "fire"} /\ run.left # <<>> /\ UNCHANGED <<spec, outcome>>
        /\ run.at = "fire" \/ Target <= run.elapsed
        /\ spec \in Specs
    BY DEF Fire, ValidationInv
  <1>a. CASE ~Succeeds(run.fabric, Head(run.left).fault)
    BY <1>1, <1>a, FailsKeeps DEF Fire
  <1>b. CASE Succeeds(run.fabric, Head(run.left).fault)
    <2>1. /\ run' = FiredRun(run, Executes(run.fabric, Head(run.left).fault), Tail(run.left), "faults")
          /\ fired' = Append(fired, <<run.clock, Head(run.left)>>)
          /\ UNCHANGED <<sweep, observations, report>>
      BY <1>b DEF Fire, FiredRun
    <2>2. PICK n \in Nat, m \in Nat : n = Len(fired) /\ m = Length
      BY <1>1, Underway
    <2>e. PICK t, e : t = DueAt(n + 1) /\ e = run.elapsed
      OBVIOUS
    <2>3. /\ run = RunOf(run.at, run.fabric, run.clock, run.elapsed, run.left)
          /\ run.fabric = FabricAfter(n) /\ sweep <= Swept
          /\ run.clock = e /\ e \in 0..spec.duration
          /\ n < m /\ n + 1 \in 1..m /\ Target = t /\ Head(run.left) = Schedule[n + 1]
          /\ Tail(run.left) = SubSeq(Schedule, n + 2, m) /\ e <= t
          /\ run.at = "fire" => e = t
          /\ report.verdict # "passed"
      BY <1>1, <2>2, <2>e, Underway
    <2>4. t \in Nat /\ e \in Nat /\ spec.duration \in Nat
      BY <1>1, <2>2, <2>e, <2>3, DueAtIs, SpecIs
    <2>5. e = t
      BY <1>1, <2>2, <2>e, <2>3, <2>4
    <2>f. PICK g, q : g = FabricAfter(n + 1) /\ q = SubSeq(Schedule, n + 2, m)
      OBVIOUS
    <2>6. run' = RunOf("faults", g, t, t, q)
      <3>1. \A a, f, c, e1, l, x, y, z : FiredRun(RunOf(a, f, c, e1, l), x, y, z) = RunOf(z, x, c, e1, y)
        BY RunMoves
      <3>2. g = Executes(run.fabric, Head(run.left).fault)
        BY <2>3, <2>f, OneMoreFired
      <3>3. q = Tail(run.left)
        BY <2>3, <2>f
      <3>4. run = RunOf(run.at, run.fabric, t, t, run.left)
        BY <2>3, <2>5, <2>e
      <3>5. FiredRun(run, g, q, "faults") = RunOf("faults", g, t, t, q)
        BY <3>1, <3>4
      <3> QED BY <2>1, <3>2, <3>3, <3>5
    <2>7. /\ run'.at = "faults" /\ run'.fabric = FabricAfter(n + 1) /\ run'.clock = t /\ run'.elapsed = t
          /\ run'.left = SubSeq(Schedule, n + 2, m)
      <3>1. run'.at = "faults" /\ run'.fabric = g /\ run'.clock = t /\ run'.elapsed = t /\ run'.left = q
        BY <2>6, RunIs
      <3> QED BY <2>f, <3>1
    <2>8. PICK r : r = <<t, Schedule[n + 1]>>
      OBVIOUS
    <2>9. fired' = Append(fired, r) /\ r \in Firing /\ fired \in Seq(Firing)
      <3>1. Schedule[n + 1] \in Range(spec.faults)
        BY <1>1, <2>2, <2>e, <2>3, ScheduleIs, ElementOfSeq
      <3>2. fired \in Seq(Firing)
        BY DEF ValidationInv, FiredInv
      <3> QED BY <2>1, <2>3, <2>4, <2>5, <2>8, <3>1, <3>2 DEF Firing
    <2>10. /\ fired' \in Seq(Firing) /\ Len(fired') = n + 1 /\ fired'[n + 1] = r
           /\ \A i \in 1..n : fired'[i] = fired[i]
      BY <2>2, <2>e, <2>9, AppendProperties
    <2>11. /\ Schedule' = Schedule /\ Length' = Length /\ Swept' = Swept /\ Firing' = Firing
           /\ (\A i : DueAt(i)' = DueAt(i)) /\ (\A i : FabricAfter(i)' = FabricAfter(i))
      BY <1>1, Constant
    <2>12. FiredInv'
      <3>1. \A i \in 1..n : fired[i] = <<DueAt(i), Schedule[i]>>
        BY <2>2, <2>e DEF ValidationInv, FiredInv
      <3>2. ASSUME NEW i \in 1..(n + 1) PROVE fired'[i] = <<DueAt(i), Schedule[i]>>
        <4>1. CASE i = n + 1
          BY <2>2, <2>e, <2>8, <2>10, <4>1
        <4>2. CASE i # n + 1
          <5>1. i \in 1..n
            BY <4>2
          <5> QED BY <2>10, <3>1, <5>1
        <4> QED BY <4>1, <4>2
      <3>3. ASSUME NEW i \in 1..Len(fired') PROVE fired'[i] = <<DueAt(i)', Schedule'[i]>>
        BY <2>10, <2>11, <3>2
      <3>4. fired' \in Seq(Firing') /\ Len(fired') <= Length'
        BY <2>2, <2>e, <2>3, <2>10, <2>11
      <3> QED BY <3>3, <3>4 DEF FiredInv
    <2>13. RunInv'
      <3>1. run' = RunOf(run'.at, run'.fabric, run'.clock, run'.elapsed, run'.left)
        BY <2>6, <2>7, <2>f
      <3>2. FabricAfter(Len(fired))' = FabricAfter(n + 1)'
        BY <2>10 DEF FabricAfter
      <3>3. run'.fabric = FabricAfter(Len(fired))' /\ sweep' <= Swept'
        BY <2>1, <2>3, <2>7, <2>11, <3>2
      <3>4. run'.left = SubSeq(Schedule', Len(fired') + 1, Length')
        <4>1. Len(fired') + 1 = n + 2
          BY <2>10
        <4> QED BY <2>2, <2>e, <2>7, <2>11, <4>1
      <3>5. run'.elapsed \in 0..spec'.duration
        BY <1>1, <2>3, <2>5, <2>7
      <3>6. ASSUME NEW i \in Len(fired') + 1..Length' PROVE run'.elapsed <= DueAt(i)'
        <4>1. i \in 1..m /\ n + 1 <= i
          BY <2>2, <2>e, <2>10, <2>11
        <4>2. t <= DueAt(i)
          BY <1>1, <2>2, <2>e, <2>3, <4>1, DueAtIs
        <4> QED BY <2>7, <2>11, <4>2
      <3> QED BY <2>7, <3>1, <3>3, <3>4, <3>5, <3>6 DEF RunInv
    <2>14. SeenInv'
      BY <1>1, <2>1, StepKeeps
    <2>15. ReportInv'
      BY <2>1, <2>3 DEF ReportInv
    <2> QED BY <1>1, <2>12, <2>13, <2>14, <2>15 DEF ValidationInv
  <1> QED BY <1>a, <1>b

LEMMA SleepToEndKeeps == ASSUME ValidationInv, SleepToEnd PROVE ValidationInv'
  <1>1. /\ run.at = "faults" /\ run.left = <<>> /\ UNCHANGED <<spec, outcome, sweep, fired, observations, report>>
        /\ run' = EndedRun(run, run.clock + Max({0, spec.duration - run.elapsed}), "sample")
        /\ spec \in Specs
    BY DEF SleepToEnd, EndedRun, ValidationInv
  <1>2. /\ run = RunOf(run.at, run.fabric, run.clock, run.elapsed, run.left)
        /\ run.fabric = FabricAfter(Len(fired)) /\ sweep <= Swept
        /\ run.clock = run.elapsed /\ run.elapsed \in 0..spec.duration
        /\ Len(fired) = Length /\ report.verdict # "passed"
    BY <1>1, Underway
  <1>3. PICK e \in Nat, d \in Nat : e = run.elapsed /\ d = spec.duration /\ e <= d
    BY <1>1, <1>2, SpecIs
  <1>4. run.clock + Max({0, spec.duration - run.elapsed}) = spec.duration
    <2>1. d - e \in Nat /\ 0 \in Nat
      BY <1>3
    <2>2. PICK x \in Nat : x = d - e
      BY <2>1
    <2>3. Max({0, x}) = IF 0 >= x THEN 0 ELSE x
      BY <2>1, MaxOfTwo
    <2>4. Max({0, x}) = x
      BY <2>2, <2>3
    <2>5. e + x = d
      BY <1>3, <2>2
    <2> QED BY <1>2, <1>3, <2>2, <2>4, <2>5
  <1>5. run' = RunOf("sample", run.fabric, spec.duration, run.elapsed, run.left)
    <2>1. \A a, f, c, e1, l, x, z : EndedRun(RunOf(a, f, c, e1, l), x, z) = RunOf(z, f, x, e1, l)
      BY RunMoves
    <2> QED BY <1>1, <1>2, <1>4, <2>1
  <1>6. /\ run'.at = "sample" /\ run'.fabric = run.fabric /\ run'.clock = spec.duration
        /\ run'.elapsed = run.elapsed /\ run'.left = run.left
    BY <1>5, RunIs
  <1>7. RunInv'
    <2>1. Length' = Length /\ Swept' = Swept /\ \A i : FabricAfter(i)' = FabricAfter(i)
      BY <1>1, Constant
    <2>2. FabricAfter(Len(fired))' = FabricAfter(Len(fired))
      BY <1>1, <2>1 DEF FabricAfter, Schedule
    <2>3. run' = RunOf(run'.at, run'.fabric, run'.clock, run'.elapsed, run'.left)
      BY <1>5, <1>6
    <2>4. run'.fabric = FabricAfter(Len(fired))' /\ sweep' <= Swept' /\ Len(fired') = Length' /\ run'.clock = spec'.duration
      BY <1>1, <1>2, <1>6, <2>1, <2>2
    <2> QED BY <1>6, <2>3, <2>4 DEF RunInv
  <1>8. FiredInv'
    BY <1>1 DEF ValidationInv, FiredInv, Firing, Length, DueAt, Schedule
  <1>9. SeenInv' /\ ReportInv'
    BY <1>1, <1>2, StepKeeps DEF ReportInv
  <1> QED BY <1>1, <1>7, <1>8, <1>9 DEF ValidationInv

\* The observation of a run is of the fabric after the whole schedule.
LEMMA SampleKeeps == ASSUME ValidationInv, Sample PROVE ValidationInv'
  <1>1. /\ run.at = "sample" /\ run' = NoRun /\ sweep' = sweep + 1 /\ UNCHANGED <<spec, outcome, fired, report>>
        /\ spec \in Specs
    BY DEF Sample, ValidationInv
  <1>2. PICK o : /\ observations' = Append(observations, o)
                 /\ o.seed = Seed(sweep)
                 /\ o.metrics = [n \in DOMAIN run.fabric.nodes |-> outcome[<<Kernel(sweep), Seed(sweep)>>]]
    <2> DEFINE came == outcome[<<Kernel(sweep), Seed(sweep)>>]
               o == [kernel |-> Kernel(sweep), seed |-> Seed(sweep),
                     apps |-> [a \in DOMAIN run.fabric.apps |-> came],
                     metrics |-> [n \in DOMAIN run.fabric.nodes |-> came]]
    <2>1. observations' = Append(observations, o)
      BY DEF Sample
    <2>2. o.seed = Seed(sweep) /\ o.metrics = [n \in DOMAIN run.fabric.nodes |-> came]
      OBVIOUS
    <2> HIDE DEF o
    <2> QED BY <2>1, <2>2
  <1>3. run # NoRun
    BY <1>1 DEF NoRun
  <1>4. run.fabric = FabricAfter(Length) /\ sweep <= Swept /\ report.verdict # "passed"
    BY <1>1, <1>3 DEF ValidationInv, RunInv, ReportInv
  <1>5. FiredInv'
    BY <1>1 DEF ValidationInv, FiredInv, Firing, Length, DueAt, Schedule
  <1>6. RunInv' /\ ReportInv'
    BY <1>1, <1>4 DEF RunInv, ReportInv
  <1>7. SeenInv'
    <2>1. /\ sweep \in Nat \ {0} /\ Len(observations) = sweep - 1
          /\ \A i \in 1..Len(observations) :
                /\ observations[i].seed = Seed(i)
                /\ observations[i].metrics =
                      [n \in DOMAIN FabricAfter(Length).nodes |-> outcome[<<Kernel(i), Seed(i)>>]]
      BY DEF ValidationInv, SeenInv
    <2>2. PICK S : observations \in Seq(S)
      BY DEF ValidationInv, SeenInv
    <2>3. PICK T : T = S \cup {o}
      OBVIOUS
    <2>4. observations \in Seq(T) /\ o \in T
      BY <2>2, <2>3, SeqMonotonic
    <2>5. PICK n \in Nat : n = sweep - 1 /\ n = Len(observations) /\ sweep = n + 1
      BY <2>1
    <2>6. /\ observations' \in Seq(T) /\ Len(observations') = n + 1
          /\ \A i \in 1..n : observations'[i] = observations[i]
          /\ observations'[n + 1] = o
      BY <1>2, <2>4, <2>5, AppendProperties
    <2>7. Swept' = Swept /\ FabricAfter(Length)' = FabricAfter(Length)
      BY <1>1 DEF Swept, FabricAfter, Schedule, Length
    <2>8. ASSUME NEW i PROVE Seed(i)' = Seed(i) /\ Kernel(i)' = Kernel(i)
      BY <1>1 DEF Seed, Kernel
    <2>9. ASSUME NEW i \in 1..(n + 1)
          PROVE  /\ observations'[i].seed = Seed(i)
                 /\ observations'[i].metrics =
                       [k \in DOMAIN FabricAfter(Length).nodes |-> outcome[<<Kernel(i), Seed(i)>>]]
      <3>1. CASE i = n + 1
        BY <1>2, <1>4, <2>5, <2>6, <3>1
      <3>2. CASE i # n + 1
        <4>1. i \in 1..n
          BY <3>2
        <4> QED BY <2>1, <2>5, <2>6, <4>1
      <3> QED BY <3>1, <3>2
    <2>10. sweep' \in Nat \ {0} /\ sweep' <= Swept' + 1 /\ Len(observations') = sweep' - 1
      <3>1. Swept \in Nat
        <4>1. \A a, b \in Nat : a * b \in Nat
          OBVIOUS
        <4> QED BY <1>1, <4>1, SpecIs DEF Swept
      <3>2. PICK w \in Nat : w = Swept
        BY <3>1
      <3>3. n + 1 <= w /\ sweep' = n + 1 + 1
        BY <1>1, <1>4, <2>5, <3>2
      <3> QED BY <2>6, <2>7, <3>2, <3>3
    <2>11. \E U : observations' \in Seq(U)
      BY <2>6
    <2>12. ASSUME NEW i \in 1..Len(observations')
           PROVE  /\ observations'[i].seed = Seed(i)'
                  /\ observations'[i].metrics =
                       [k \in DOMAIN FabricAfter(Length)'.nodes |-> outcome'[<<Kernel(i)', Seed(i)'>>]]
      BY <1>1, <2>6, <2>7, <2>8, <2>9
    <2> QED BY <2>10, <2>11, <2>12 DEF SeenInv
  <1> QED BY <1>1, <1>5, <1>6, <1>7 DEF ValidationInv

-----------------------------------------------------------------------------
(* The verdict.                                                            *)

\* Which kernel and which seed each run of the sweep is of.
LEMMA SweptIs ==
  ASSUME spec \in Specs, NEW i \in 1..Swept
  PROVE  /\ Swept \in Nat /\ i \in Nat
         /\ (i - 1) \div Len(spec.seeds) \in 0..Len(spec.kernels) - 1
         /\ (i - 1) % Len(spec.seeds) \in 0..Len(spec.seeds) - 1
         /\ ((i - 1) % Len(spec.seeds)) + 1 \in 1..Swept
         /\ Seed(((i - 1) % Len(spec.seeds)) + 1) = Seed(i)
         /\ Kernel(((i - 1) % Len(spec.seeds)) + 1) = spec.kernels[1]
  <1>1. PICK K \in Nat \ {0}, L \in Nat \ {0} : K = Len(spec.kernels) /\ L = Len(spec.seeds)
    BY SpecIs
  <1>2. Swept = K * L
    BY <1>1 DEF Swept
  <1>3. K * L \in Nat /\ L <= K * L
    <2>1. K - 1 \in Nat
      BY <1>1
    <2>2. \A a, b \in Nat : a * b \in Nat
      OBVIOUS
    <2>3. K * L = (K - 1) * L + L
      OBVIOUS
    <2>4. (K - 1) * L \in Nat /\ K * L \in Nat
      BY <2>1, <2>2
    <2>5. PICK x \in Nat : x = (K - 1) * L
      BY <2>4
    <2> QED BY <2>3, <2>4, <2>5
  <1>4. PICK w \in Nat : w = i - 1 /\ w < K * L
    BY <1>2, <1>3
  <1>5. PICK q \in Nat, r \in Nat : q = w \div L /\ r = w % L /\ w = L * q + r /\ r < L
    <2>1. w \div L \in Nat /\ w % L \in 0..L - 1 /\ w = L * (w \div L) + (w % L)
      OBVIOUS
    <2> QED BY <2>1
  <1>6. q < K
    <2> SUFFICES ASSUME q >= K PROVE FALSE
      OBVIOUS
    <2>1. PICK d \in Nat : q = K + d
      <3>1. q - K \in Nat /\ q = K + (q - K)
        OBVIOUS
      <3> QED BY <3>1
    <2>2. L * q = K * L + L * d
      BY <2>1
    <2>3. L * d \in Nat /\ K * L \in Nat
      <3>1. \A a, b \in Nat : a * b \in Nat
        OBVIOUS
      <3> QED BY <3>1
    <2>4. PICK x \in Nat, y \in Nat : x = L * d /\ y = K * L
      BY <2>3
    <2> QED BY <1>4, <1>5, <2>2, <2>4
  <1>7. r + 1 - 1 = r /\ r \div L = 0 /\ r % L = r
    BY <1>5
  <1>8. r + 1 \in 1..Swept
    <2>1. PICK y \in Nat : y = K * L /\ L <= y
      BY <1>3
    <2>2. r + 1 \in 1..y
      BY <1>5, <2>1
    <2> QED BY <1>2, <2>1, <2>2
  <1>9. Seed(r + 1) = spec.seeds[r + 1] /\ Seed(i) = spec.seeds[r + 1]
    <2>1. Seed(r + 1) = spec.seeds[((r + 1 - 1) % L) + 1] /\ Seed(i) = spec.seeds[((i - 1) % L) + 1]
      BY <1>1 DEF Seed
    <2> QED BY <1>4, <1>5, <1>7, <2>1
  <1>10. Kernel(r + 1) = spec.kernels[1]
    <2>1. Kernel(r + 1) = spec.kernels[((r + 1 - 1) \div L) + 1]
      BY <1>1 DEF Kernel
    <2>2. ((r + 1 - 1) \div L) + 1 = 1
      BY <1>7
    <2> QED BY <2>1, <2>2
  <1>11. Swept \in Nat /\ i \in Nat
    BY <1>2, <1>3
  <1>12. q \in 0..K - 1 /\ r \in 0..L - 1
    BY <1>5, <1>6
  <1> QED BY <1>1, <1>4, <1>5, <1>8, <1>9, <1>10, <1>11, <1>12

\* A ratio of a hundred hundredths leaves no run out.
LEMMA AllOfThem ==
  ASSUME NEW T, IsFiniteSet(T), NEW S, S \subseteq T, 100 * Cardinality(S) >= 100 * Cardinality(T)
  PROVE  S = T
  <1>1. S \in SUBSET T /\ Cardinality(S) \in Nat /\ Cardinality(T) \in Nat /\ IsFiniteSet(S) /\ Cardinality(S) <= Cardinality(T)
    BY FS_Subset, FS_CardinalityType
  <1>2. Cardinality(S) = Cardinality(T)
    <2>1. PICK a \in Nat, b \in Nat : a = Cardinality(S) /\ b = Cardinality(T)
      BY <1>1
    <2>2. 100 * a >= 100 * b /\ a <= b
      BY <1>1, <2>1
    <2>3. a = b
      BY <2>2
    <2> QED BY <2>1, <2>3
  <1> QED BY <1>1, <1>2, FS_Subset

LEMMA VerdictKeeps == ASSUME ValidationInv, Verdict PROVE ValidationInv'
  <1>1. /\ run.at = "none" /\ sweep > Swept /\ UNCHANGED <<spec, outcome, sweep, run, fired, observations>>
        /\ spec \in Specs
    BY DEF Verdict, ValidationInv
  <1>2. SeenInv' /\ (Passed' <=> Passed)
    BY <1>1, StepKeeps
  <1>3. FiredInv'
    BY <1>1 DEF ValidationInv, FiredInv, Firing, Length, DueAt, Schedule
  <1>4. RunInv'
    BY <1>1 DEF ValidationInv, RunInv, FabricAfter, Length, DueAt, Schedule, Swept
  <1>5. run = NoRun
    BY <1>1 DEF ValidationInv, RunInv
  <1>6. Swept \in Nat /\ Len(spec.seeds) \in Nat \ {0} /\ Len(spec.kernels) \in Nat
        /\ DOMAIN spec.kernels = 1..Len(spec.kernels)
    <2>1. \A a, b \in Nat : a * b \in Nat
      OBVIOUS
    <2> QED BY <1>1, <2>1, SpecIs DEF Swept
  <1>7. sweep = Swept + 1 /\ DOMAIN observations = 1..Swept
    <2>1. /\ sweep \in Nat \ {0} /\ sweep <= Swept + 1 /\ Len(observations) = sweep - 1
          /\ \E S : observations \in Seq(S)
      BY DEF ValidationInv, SeenInv
    <2>2. DOMAIN observations = 1..Len(observations)
      BY <2>1, LenProperties
    <2>3. sweep = Swept + 1
      BY <1>1, <1>6, <2>1
    <2> QED BY <1>6, <2>1, <2>2, <2>3
  <1>8. ASSUME report'.verdict = "passed" PROVE Passed
    <2>1. /\ \A k \in DOMAIN spec.kernels : \A p \in Range(spec.props) : PropertyPasses(p, OfKernel(k))
          /\ KernelsAgree
      BY <1>8 DEF Verdict
    <2>2. ASSUME NEW i \in DOMAIN observations, NEW p \in Range(spec.props), p.need = 100
          PROVE  Holds(p, observations[i])
      <3>1. PICK q : q = (i - 1) \div Len(spec.seeds)
        OBVIOUS
      <3>2. q \in 0..Len(spec.kernels) - 1
        BY <1>1, <1>7, <3>1, SweptIs
      <3>3. PICK k \in DOMAIN spec.kernels : k = q + 1 /\ k - 1 = q
        BY <1>6, <3>2
      <3>4. PICK T : T = OfKernel(k)
        OBVIOUS
      <3>5. i \in T /\ T \subseteq 1..Swept
        BY <1>7, <3>1, <3>3, <3>4 DEF OfKernel
      <3>6. IsFiniteSet(T)
        BY <1>6, <3>5, FS_Interval, FS_Subset
      <3>7. PICK S : S = {j \in T : Holds(p, observations[j])}
        OBVIOUS
      <3>8. 100 * Cardinality(S) >= 100 * Cardinality(T)
        BY <2>1, <2>2, <3>4, <3>7 DEF PropertyPasses
      <3>9. S = T
        BY <3>6, <3>7, <3>8, AllOfThem
      <3> QED BY <3>5, <3>7, <3>9
    <2> QED BY <2>1, <2>2 DEF Passed
  <1>9. ReportInv'
    <2>1. Swept' = Swept
      BY <1>1 DEF Swept
    <2> QED BY <1>1, <1>2, <1>5, <1>7, <1>8, <2>1 DEF ReportInv
  <1> QED BY <1>1, <1>2, <1>3, <1>4, <1>9 DEF ValidationInv

LEMMA ValidationInvNext == ValidationInv /\ [ValidationNext]_validationVars => ValidationInv'
  <1> SUFFICES ASSUME ValidationInv, [ValidationNext]_validationVars PROVE ValidationInv'
    OBVIOUS
  <1>1. CASE UNCHANGED validationVars
    <2>1. UNCHANGED <<spec, outcome, sweep, run, fired, observations, report>>
      BY <1>1 DEF validationVars
    <2>2. SeenInv' /\ (Passed' <=> Passed)
      BY <2>1, StepKeeps
    <2>3. FiredInv'
      BY <2>1 DEF ValidationInv, FiredInv, Firing, Length, DueAt, Schedule
    <2>4. RunInv'
      BY <2>1 DEF ValidationInv, RunInv, FabricAfter, Length, DueAt, Schedule, Swept
    <2>5. ReportInv'
      BY <2>1, <2>2 DEF ValidationInv, ReportInv, Swept
    <2> QED BY <2>1, <2>2, <2>3, <2>4, <2>5 DEF ValidationInv
  <1> QED BY <1>1, StartRunKeeps, SleepToFaultKeeps, FireKeeps, SleepToEndKeeps, SampleKeeps,
            VerdictKeeps DEF ValidationNext

LEMMA ValidationInvImplies == ValidationInv => VerdictStands
  <1> SUFFICES ASSUME ValidationInv PROVE VerdictStands
    OBVIOUS
  <1>1. /\ spec \in Specs /\ fired \in Seq(Firing) /\ Len(fired) \in Nat /\ Len(fired) <= Length
        /\ \A i \in 1..Len(fired) : fired[i] = <<DueAt(i), Schedule[i]>>
        /\ DOMAIN fired = 1..Len(fired) /\ Length \in Nat
    BY LenProperties, SpecIs DEF ValidationInv, FiredInv
  <1>2. FaultsOnTime
    <2>1. ASSUME NEW i \in DOMAIN fired PROVE fired[i][1] = Min({fired[i][2].at, spec.duration})
      <3>1. fired[i] = <<DueAt(i), Schedule[i]>>
        BY <1>1
      <3>2. fired[i][1] = DueAt(i) /\ fired[i][2] = Schedule[i]
        BY <3>1
      <3> QED BY <3>2, Zenon DEF DueAt
    <2>2. ASSUME NEW i \in 1..Len(fired) - 1 PROVE fired[i][2].at <= fired[i + 1][2].at
      <3>1. i \in 1..Len(fired) /\ i + 1 \in 1..Len(fired) /\ i \in 1..Length /\ i + 1 \in 1..Length /\ i <= i + 1
        BY <1>1
      <3>2. fired[i][2] = Schedule[i] /\ fired[i + 1][2] = Schedule[i + 1]
        BY <1>1, <3>1
      <3> QED BY <1>1, <3>1, <3>2, ScheduleIs
    <2>3. ASSUME run.at = "sample" PROVE run.clock = spec.duration /\ Len(fired) = Len(spec.faults)
      BY <2>3 DEF ValidationInv, RunInv, NoRun, Length
    <2> QED BY <2>1, <2>2, <2>3 DEF FaultsOnTime
  <1>3. ASSUME report.verdict = "passed"
        PROVE  /\ Len(observations) = Swept
               /\ \A i \in DOMAIN observations : \A p \in Range(spec.props) :
                     p.need = 100 => Holds(p, observations[i])
               /\ \A i, j \in DOMAIN observations : observations[i].seed = observations[j].seed
                     => observations[i].metrics = observations[j].metrics
    <2>1. sweep = Swept + 1 /\ Passed
      BY <1>3 DEF ValidationInv, ReportInv
    <2>2. /\ sweep \in Nat \ {0} /\ Len(observations) = sweep - 1
          /\ \E S : observations \in Seq(S)
          /\ \A i \in 1..Len(observations) :
                /\ observations[i].seed = Seed(i)
                /\ observations[i].metrics =
                      [n \in DOMAIN FabricAfter(Length).nodes |-> outcome[<<Kernel(i), Seed(i)>>]]
      BY DEF ValidationInv, SeenInv
    <2>3. Swept \in Nat /\ DOMAIN observations = 1..Len(observations)
      <3>1. \A a, b \in Nat : a * b \in Nat
        OBVIOUS
      <3> QED BY <1>1, <2>2, <3>1, SpecIs, LenProperties DEF Swept
    <2>4. Len(observations) = Swept
      BY <2>1, <2>2, <2>3
    <2>5. ASSUME NEW i \in DOMAIN observations
          PROVE  /\ observations[i].seed = Seed(i)
                 /\ observations[i].metrics =
                      [n \in DOMAIN FabricAfter(Length).nodes |-> outcome[<<spec.kernels[1], Seed(i)>>]]
      <3>1. i \in 1..Swept
        BY <2>3, <2>4
      <3>2. PICK j : j = ((i - 1) % Len(spec.seeds)) + 1
        OBVIOUS
      <3>3. j \in 1..Swept /\ Seed(j) = Seed(i) /\ Kernel(j) = spec.kernels[1]
        BY <1>1, <3>1, <3>2, SweptIs
      <3>4. observations[i].metrics = observations[j].metrics
        BY <2>1, <3>2 DEF Passed, KernelsAgree
      <3>5. observations[j].metrics =
               [n \in DOMAIN FabricAfter(Length).nodes |-> outcome[<<Kernel(j), Seed(j)>>]]
        BY <2>2, <2>4, <3>3
      <3> QED BY <2>2, <2>3, <3>3, <3>4, <3>5
    <2>6. ASSUME NEW i \in DOMAIN observations, NEW j \in DOMAIN observations,
                 observations[i].seed = observations[j].seed
          PROVE  observations[i].metrics = observations[j].metrics
      BY <2>5, <2>6
    <2> QED BY <2>1, <2>4, <2>6 DEF Passed
  <1> QED BY <1>2, <1>3 DEF VerdictStands

LEMMA ValidationPart == ToolkitSpec => ValidationInit /\ [][ValidationNext]_validationVars
  <1>1. ToolkitInit => ValidationInit
    BY DEF ToolkitInit
  <1>2. [ToolkitNext]_toolkitVars => [ValidationNext]_validationVars
    BY DEF ToolkitNext, toolkitVars, validationVars
  <1> QED BY <1>1, <1>2, PTL DEF ToolkitSpec

\* run_core and run_once of validate.rs: for any specs and whatever the runs come to, each fault fires
\* once, in the order of the offsets and at its own or the end; and a validation that passes has seen
\* every assertion without a tolerance hold in every run of the sweep, and each seed come to the
\* same on all kernels.
THEOREM VerdictsStand == ToolkitSpec => []VerdictStands
  BY ValidationPart, ValidationInvInit, ValidationInvNext, ValidationInvImplies, PTL

=============================================================================
