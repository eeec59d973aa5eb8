------------------------------ MODULE Validation ------------------------------
(***************************************************************************)
(* Checking a scenario under a fault schedule:                             *)
(* crates/ndn-sim/src/validate.rs (run_core, run_once, Property, Fault,    *)
(* BaselineCheck).                                                         *)
(*                                                                         *)
(* The runs of a sweep, every seed on every kernel, follow each other; a   *)
(* run fires its faults between sleeps on the virtual clock and samples    *)
(* the fabric at the end.  What the applications and counters come to is   *)
(* the engines' doing: one number per run, drawn by kernel and seed, which *)
(* the observed apps and nodes all show.  Virtual time stands still while  *)
(* a fault is applied.  Ratios and tolerances are whole hundredths.        *)
(***************************************************************************)
EXTENDS Scenario, FiniteSetsExt

CONSTANTS
    Specs,   \* [scene, faults, duration, props, kernels, seeds, gates, recorded]:
             \* faults: [at, fault]; props: [probe, cmp, value, need]; gates: [probe, dir, tol];
             \* recorded: a baseline per gate, <<>> for one that has none
    Luck     \* what a run may come to

\* A spec that names no kernel or no seed has the default ones.
ASSUME ValidationAssumption ==
    /\ Luck \subseteq Nat
    /\ \A s \in Specs :
          /\ s.duration \in Nat /\ s.kernels # <<>> /\ s.seeds # <<>>
          /\ s.faults \in Seq(Range(s.faults)) /\ s.kernels \in Seq(Range(s.kernels))
          /\ s.seeds \in Seq(Range(s.seeds))
          /\ \A i \in DOMAIN s.faults : s.faults[i].at \in Nat

VARIABLES
    spec,
    outcome,      \* what a run comes to, by kernel and seed
    sweep,        \* the number of the run under way, or of the next
    run,          \* [at, fabric, clock, elapsed, left]: left are the faults to fire
    fired,        \* history: (clock, fault) of the run so far
    observations, \* of the runs so far: [kernel, seed, apps, metrics, all]
    report        \* "none", "error", or its verdict

validationVars == <<spec, outcome, sweep, run, fired, observations, report>>

NoRun == [at |-> "none"]

ValidationInit ==
    /\ spec \in Specs
    /\ outcome \in [Range(spec.kernels) \X Range(spec.seeds) -> Luck]
    /\ sweep = 1 /\ run = NoRun /\ fired = <<>> /\ observations = <<>>
    /\ report = [verdict |-> "none"]

\* The runs of a kernel, seed by seed, then those of the next.
Swept == Len(spec.kernels) * Len(spec.seeds)
Kernel(i) == spec.kernels[((i - 1) \div Len(spec.seeds)) + 1]
Seed(i) == spec.seeds[((i - 1) % Len(spec.seeds)) + 1]

-----------------------------------------------------------------------------
(* run_once.                                                               *)

\* Any error of a run ends the whole validation without a report.
Fails == report' = [verdict |-> "error"] /\ UNCHANGED <<sweep, run, fired, observations>>

Before(faults, i, j) == faults[i].at < faults[j].at \/ (faults[i].at = faults[j].at /\ i <= j)

\* sort_by_key keeps faults of the same instant in their order: the k-th has k, itself among
\* them, that are not after it.
InOrder(faults) ==
    [k \in 1..Len(faults) |->
        faults[CHOOSE i \in DOMAIN faults : Cardinality({j \in DOMAIN faults : Before(faults, j, i)}) = k]]

StartRun ==
    /\ run.at = "none" /\ sweep <= Swept /\ report.verdict = "none"
    /\ IF Starts(spec.scene)
       THEN /\ run' = [at |-> "faults", fabric |-> Started(spec.scene), clock |-> 0, elapsed |-> 0,
                       left |-> InOrder(spec.faults)]
            /\ fired' = <<>> /\ UNCHANGED <<sweep, observations, report>>
       ELSE Fails
    /\ UNCHANGED <<spec, outcome>>

Target == Min({Head(run.left).at, spec.duration})

\* Fault: the time slept is not carried over to the next fault.
ForgetsSleep(target) == 0

\* The offset a sleep has reached.
SleptTo(target) == target

SleepToFault ==
    /\ run.at = "faults" /\ run.left # <<>> /\ Target > run.elapsed
    /\ run' = [run EXCEPT !.clock = @ + (Target - run.elapsed), !.elapsed = SleptTo(Target),
                          !.at = "fire"]
    /\ UNCHANGED <<spec, outcome, sweep, fired, observations, report>>

Fire ==
    /\ run.at \in {"faults", "fire"} /\ run.left # <<>> /\ report.verdict = "none"
    /\ run.at = "fire" \/ Target <= run.elapsed
    /\ LET f == Head(run.left).fault
       IN IF Succeeds(run.fabric, f)
          THEN /\ run' = [run EXCEPT !.fabric = Executes(@, f), !.left = Tail(@), !.at = "faults"]
               /\ fired' = Append(fired, <<run.clock, Head(run.left)>>)
               /\ UNCHANGED <<sweep, observations, report>>
          ELSE Fails
    /\ UNCHANGED <<spec, outcome>>

SleepToEnd ==
    /\ run.at = "faults" /\ run.left = <<>>
    /\ run' = [run EXCEPT !.clock = @ + Max({0, spec.duration - run.elapsed}), !.at = "sample"]
    /\ UNCHANGED <<spec, outcome, sweep, fired, observations, report>>

\* An app that was stopped, like a node that was removed, is not observed.
Sample ==
    LET came == outcome[<<Kernel(sweep), Seed(sweep)>>]
    IN /\ run.at = "sample"
       /\ observations' = Append(observations,
             [kernel |-> Kernel(sweep), seed |-> Seed(sweep),
              apps |-> [a \in DOMAIN run.fabric.apps |-> came],
              metrics |-> [n \in DOMAIN run.fabric.nodes |-> came]])
       /\ sweep' = sweep + 1 /\ run' = NoRun
       /\ UNCHANGED <<spec, outcome, fired, report>>

-----------------------------------------------------------------------------
(* run_core: the verdict.                                                  *)

\* Probe::eval: no value, or one.
Eval(probe, obs) ==
    CASE probe.kind = "app"  -> IF probe.app \in DOMAIN obs.apps THEN <<obs.apps[probe.app]>> ELSE <<>>
      [] probe.kind = "node" -> IF probe.node \in DOMAIN obs.metrics THEN <<obs.metrics[probe.node]>> ELSE <<>>
      [] probe.kind = "sum"  -> IF obs.metrics = <<>> THEN <<>>
                                ELSE <<MapThenSumSet(LAMBDA n : obs.metrics[n], DOMAIN obs.metrics)>>

Meets(cmp, observed, value) ==
    CASE cmp = "ge" -> observed >= value [] cmp = "le" -> observed <= value
      [] cmp = "eq" -> observed = value  [] cmp = "ne" -> observed # value

Holds(p, obs) == LET v == Eval(p.probe, obs) IN v # <<>> /\ Meets(p.cmp, v[1], p.value)

\* The observations of the k-th kernel's sweep.
OfKernel(k) == {i \in DOMAIN observations : (i - 1) \div Len(spec.seeds) = k - 1}

\* Property::evaluate measures the ratio over all runs of a kernel's sweep.
PropertyPasses(p, runs) ==
    runs # {} /\ 100 * Cardinality({i \in runs : Holds(p, observations[i])}) >= p.need * Cardinality(runs)

\* The counters of each further kernel are compared with the first one's, seed by seed.
KernelsAgree ==
    \A i \in DOMAIN observations :
        observations[i].metrics = observations[((i - 1) % Len(spec.seeds)) + 1].metrics

\* mean_probe leaves out the runs in which there is nothing to see.
Seen(probe) == SelectSeq([i \in DOMAIN observations |-> Eval(probe, observations[i])], LAMBDA v : v # <<>>)

\* Direction::holds of the mean of the seen values, whose sum is `sum`.
InDirection(gate, sum, count, base) ==
    LET least == base * count * (100 - gate.tol)
        most  == base * count * (100 + gate.tol)
    IN CASE gate.dir = "at_least" -> 100 * sum >= least
         [] gate.dir = "at_most"  -> 100 * sum <= most
         [] gate.dir = "within"   -> 100 * sum >= least /\ 100 * sum <= most

GatePasses(gate, recorded) ==
    LET seen == Seen(gate.probe)
    IN /\ recorded # <<>> /\ seen # <<>>
       /\ InDirection(gate, FoldLeft(LAMBDA s, v : s + v[1], 0, seen), Len(seen), recorded[1])

Verdict ==
    /\ run.at = "none" /\ sweep > Swept /\ report.verdict = "none"
    /\ report' = [verdict |->
          IF /\ \A k \in DOMAIN spec.kernels : \A p \in Range(spec.props) : PropertyPasses(p, OfKernel(k))
             /\ KernelsAgree
             /\ spec.recorded = <<>>
                   \/ \A g \in DOMAIN spec.gates : GatePasses(spec.gates[g], spec.recorded[g])
          THEN "passed" ELSE "failed"]
    /\ UNCHANGED <<spec, outcome, sweep, run, fired, observations>>

ValidationNext == StartRun \/ SleepToFault \/ Fire \/ SleepToEnd \/ Sample \/ Verdict

ValidationSpec == ValidationInit /\ [][ValidationNext]_validationVars

-----------------------------------------------------------------------------
(* Properties.                                                             *)

\* Each fault of the schedule fires once, at its offset or at the end if that is sooner, in the
\* order of the offsets; and the fabric is sampled at the end, after all of them.
FaultsOnTime ==
    /\ \A i \in DOMAIN fired : fired[i][1] = Min({fired[i][2].at, spec.duration})
    /\ \A i \in 1..Len(fired) - 1 : fired[i][2].at <= fired[i + 1][2].at
    /\ run.at = "sample" => run.clock = spec.duration /\ Len(fired) = Len(spec.faults)

\* A validation that passes has fired every run's faults on time, has seen every assertion
\* without a tolerance hold in every run of the sweep, and each seed come to the same on all
\* kernels.
VerdictStands ==
    /\ FaultsOnTime
    /\ report.verdict = "passed" =>
        /\ Len(observations) = Swept
        /\ \A i \in DOMAIN observations : \A p \in Range(spec.props) :
              p.need = 100 => Holds(p, observations[i])
        /\ \A i, j \in DOMAIN observations : observations[i].seed = observations[j].seed
              => observations[i].metrics = observations[j].metrics

================================================================================
