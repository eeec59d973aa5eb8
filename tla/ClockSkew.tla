------------------------------- MODULE ClockSkew -------------------------------
(***************************************************************************)
(* A node whose wall clock is wrong: crates/ndn-sim/src/clock_skew.rs      *)
(* (ClockSkew::apply, SkewedRuntime).                                      *)
(*                                                                         *)
(* Both set and unix_nanos read the true clock before they take the lock,  *)
(* so on the wall-clock kernel a reading may carry a true time older than  *)
(* the anchor it meets, and a set may install an anchor that is no longer  *)
(* now.                                                                    *)
(***************************************************************************)
EXTENDS Integers

CONSTANTS
    Reader, Setter,   \* threads that read the clock, threads that set its skew
    Skews,            \* what they set: [offset, ppm]
    Million,          \* parts per unit of drift (1_000_000)
    UMax,             \* the largest reading (u64::MAX)
    MaxTrue,          \* bound on the true clock
    MaxSets           \* bound on skew changes

ASSUME SkewAssumption == Skews \subseteq [offset : Int, ppm : Int] /\ Skews # {}
ASSUME WidthAssumption == Million \in Nat \ {0} /\ UMax \in Nat /\ MaxTrue \in Nat /\ MaxSets \in Nat

VARIABLES
    true,      \* the kernel's wall clock
    skew, anchor,
    setting,   \* setter -> [skew, anchor] it is about to install, or Nothing
    reading,   \* reader -> the true time it has read, or -1
    latest,    \* history: reader -> its latest reading [true, value, since, sets, skew], or Nothing
    since,     \* history: the true time at which the call that set the skew began
    sets       \* skew changes so far

skewVars == <<true, skew, anchor, setting, reading, latest, since, sets>>

Nothing == [anchor |-> -1]

SkewInit ==
    /\ true \in 0..MaxTrue
    /\ skew \in Skews /\ anchor = true /\ since = true
    /\ setting = [s \in Setter |-> Nothing]
    /\ reading = [r \in Reader |-> -1]
    /\ latest = [r \in Reader |-> Nothing]
    /\ sets = 0

\* Rust's integer division rounds towards zero.
Truncated(n, d) == IF n >= 0 THEN n \div d ELSE -((-n) \div d)

Drift(s, t, a) == Truncated((t - a) * s.ppm, Million)

\* Fault: the sum is cast without a clamp, which keeps its low bits (two's complement).
Wrapped(n) == n % (UMax + 1)

Clamp(n) == IF n < 0 THEN 0 ELSE IF n > UMax THEN UMax ELSE n

\* ClockSkew::apply.
Apply(s, t, a) == Clamp(t + s.offset + Drift(s, t, a))

-----------------------------------------------------------------------------
(* SkewedRuntime::set and unix_nanos, each in two steps.                   *)

ReadAnchor(k, s) ==
    /\ setting[k] = Nothing /\ sets < MaxSets
    /\ setting' = [setting EXCEPT ![k] = [anchor |-> true, skew |-> s]]
    /\ UNCHANGED <<true, skew, anchor, reading, latest, since, sets>>

Install(k) ==
    /\ setting[k] # Nothing
    /\ skew' = setting[k].skew /\ anchor' = setting[k].anchor
    /\ since' = setting[k].anchor /\ sets' = sets + 1
    /\ setting' = [setting EXCEPT ![k] = Nothing]
    /\ UNCHANGED <<true, reading, latest>>

ReadTrue(r) ==
    /\ reading[r] = -1
    /\ reading' = [reading EXCEPT ![r] = true]
    /\ UNCHANGED <<true, skew, anchor, setting, latest, since, sets>>

UnixNanos(r) ==
    /\ reading[r] # -1
    /\ latest' = [latest EXCEPT ![r] =
          [true |-> reading[r], value |-> Apply(skew, reading[r], anchor),
           since |-> since, sets |-> sets, skew |-> skew]]
    /\ reading' = [reading EXCEPT ![r] = -1]
    /\ UNCHANGED <<true, skew, anchor, setting, since, sets>>

TrueTick ==
    /\ true < MaxTrue
    /\ true' = true + 1
    /\ UNCHANGED <<skew, anchor, setting, reading, latest, since, sets>>

SkewNext ==
    \/ \E k \in Setter : Install(k) \/ \E s \in Skews : ReadAnchor(k, s)
    \/ \E r \in Reader : ReadTrue(r) \/ UnixNanos(r)
    \/ TrueTick

SkewSpec == SkewInit /\ [][SkewNext]_skewVars

-----------------------------------------------------------------------------
(* Properties.                                                             *)

\* A reading is an unsigned machine integer: one that would be negative or too large saturates
\* and never wraps.
SkewTypeOK ==
    /\ true \in 0..MaxTrue /\ skew \in Skews
    /\ anchor \in 0..MaxTrue /\ since \in 0..MaxTrue
    /\ setting \in [Setter -> {Nothing} \cup [anchor : 0..MaxTrue, skew : Skews]]
    /\ reading \in [Reader -> -1..MaxTrue]
    /\ sets \in Nat
    /\ \A r \in Reader : latest[r] # Nothing => latest[r].value \in 0..UMax

\* Between two changes of its skew a node's clock does not run backwards, unless it is told to:
\* the rounding of the drift and the saturation never undo progress, although a reading may have
\* read the true clock before the anchor was set.
Monotone ==
    [][\A r \in Reader :
          LET old == latest[r]
              new == latest'[r]
          IN (old # Nothing /\ new # old /\ new.sets = old.sets /\ new.skew.ppm >= -Million)
                => new.value >= old.value]_skewVars

\* A change of skew steps the clock to true time plus offset: the drift of earlier skews is gone,
\* and its own has not begun at the instant the call began.
StepsToOffset ==
    \A r \in Reader : latest[r] # Nothing /\ latest[r].true = latest[r].since =>
        latest[r].value = Clamp(latest[r].true + latest[r].skew.offset)

=============================================================================
