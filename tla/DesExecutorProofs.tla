--------------------------- MODULE DesExecutorProofs ---------------------------
(***************************************************************************)
(* Invariants of the discrete-event executor, for any set of futures, any  *)
(* durations and any width of the clock: its slots house its futures, no   *)
(* wake-up is lost, no sleep is jumped over and a deadlock panic is true.  *)
(***************************************************************************)
EXTENDS DesExecutor, TLAPS, SequenceTheorems

-----------------------------------------------------------------------------
(* Sequences.                                                              *)

\* r is s with e put in behind the first k elements.
IsInserted(r, s, k, e) ==
    /\ Len(r) = Len(s) + 1
    /\ \A i \in 1..k : r[i] = s[i]
    /\ r[k + 1] = e
    /\ \A i \in (k + 2)..(Len(s) + 1) : r[i] = s[i - 1]

LEMMA InsertedSeq ==
  ASSUME NEW S, NEW s \in Seq(S), NEW k \in 0..Len(s), NEW e \in S,
         NEW r, r = InsertAt(s, k + 1, e)
  PROVE  r \in Seq(S) /\ IsInserted(r, s, k, e)
  <1> DEFINE a == SubSeq(s, 1, k)
             b == SubSeq(s, k + 1, Len(s))
             ae == a \o <<e>>
  <1>0. r = ae \o b
    <2>1. (k + 1) - 1 = k
      BY LenProperties
    <2> QED BY <2>1 DEF InsertAt
  <1>1. Len(s) \in Nat /\ k \in Nat /\ \A i \in 1..Len(s) : s[i] \in S
    BY LenProperties, ElementOfSeq
  <1>2. a \in Seq(S) /\ Len(a) = k /\ \A i \in 1..k : a[i] = s[i]
    <2>1. \A i \in 1..k : s[i] \in S
      BY <1>1
    <2>2. /\ a \in Seq(S) /\ Len(a) = IF 1 <= k THEN k - 1 + 1 ELSE 0
          /\ \A i \in 1..(k - 1 + 1) : a[i] = s[1 + i - 1]
      BY <1>1, <2>1, SubSeqProperties
    <2> QED BY <1>1, <2>2
  <1>3. b \in Seq(S) /\ Len(b) = Len(s) - k /\ \A i \in 1..(Len(s) - k) : b[i] = s[k + i]
    <2>1. \A i \in (k + 1)..Len(s) : s[i] \in S
      BY <1>1
    <2>2. /\ b \in Seq(S)
          /\ Len(b) = IF k + 1 <= Len(s) THEN Len(s) - (k + 1) + 1 ELSE 0
          /\ \A i \in 1..(Len(s) - (k + 1) + 1) : b[i] = s[(k + 1) + i - 1]
      BY <1>1, <2>1, SubSeqProperties
    <2> QED BY <1>1, <2>2
  <1>4. <<e>> \in Seq(S) /\ Len(<<e>>) = 1 /\ <<e>>[1] = e
    OBVIOUS
  <1> HIDE DEF a, b
  <1>5. ae \in Seq(S) /\ Len(ae) = k + 1 /\ ae[k + 1] = e /\ \A i \in 1..k : ae[i] = s[i]
    <2>1. /\ ae \in Seq(S) /\ Len(ae) = Len(a) + 1
          /\ \A i \in 1..(Len(a) + 1) :
                ae[i] = IF i <= Len(a) THEN a[i] ELSE <<e>>[i - Len(a)]
      BY <1>2, <1>4, ConcatProperties
    <2> QED BY <2>1, <1>1, <1>2, <1>4
  <1> HIDE DEF ae
  <1>6. /\ r \in Seq(S) /\ Len(r) = Len(ae) + Len(b)
        /\ \A i \in 1..(Len(ae) + Len(b)) :
              r[i] = IF i <= Len(ae) THEN ae[i] ELSE b[i - Len(ae)]
    <2>1. /\ ae \o b \in Seq(S) /\ Len(ae \o b) = Len(ae) + Len(b)
          /\ \A i \in 1..(Len(ae) + Len(b)) :
                (ae \o b)[i] = IF i <= Len(ae) THEN ae[i] ELSE b[i - Len(ae)]
      BY <1>3, <1>5, ConcatProperties
    <2> QED BY <1>0, <2>1, Zenon
  <1> HIDE DEF a, b, ae
  <1>7. Len(ae) + Len(b) = Len(s) + 1 /\ Len(s) \in Nat /\ k \in 0..Len(s)
    BY <1>1, <1>3, <1>5
  <1>8. \A i \in 1..(Len(s) + 1) : r[i] = IF i <= k + 1 THEN ae[i] ELSE b[i - (k + 1)]
    BY <1>5, <1>6, <1>7, Zenon
  <1>9. Len(r) = Len(s) + 1 /\ r \in Seq(S)
    BY <1>6, <1>7
  <1>10. \A i \in 1..k : r[i] = s[i]
    <2> TAKE i \in 1..k
    <2>1. i \in 1..(Len(s) + 1) /\ i <= k + 1
      BY <1>7
    <2>2. r[i] = ae[i]
      BY <2>1, <1>8
    <2> QED BY <2>2, <1>5
  <1>11. r[k + 1] = e
    <2>1. k + 1 \in 1..(Len(s) + 1) /\ k + 1 <= k + 1
      BY <1>7
    <2>2. r[k + 1] = ae[k + 1]
      BY <2>1, <1>8
    <2> QED BY <2>2, <1>5
  <1>12. \A i \in (k + 2)..(Len(s) + 1) : r[i] = s[i - 1]
    <2> TAKE i \in (k + 2)..(Len(s) + 1)
    <2>1. /\ i \in 1..(Len(s) + 1) /\ ~(i <= k + 1)
          /\ i - (k + 1) \in 1..(Len(s) - k) /\ k + (i - (k + 1)) = i - 1
      BY <1>7
    <2>2. r[i] = b[i - (k + 1)]
      BY <2>1, <1>8
    <2>3. b[i - (k + 1)] = s[k + (i - (k + 1))]
      BY <2>1, <1>3
    <2> QED BY <2>1, <2>2, <2>3
  <1> QED BY <1>9, <1>10, <1>11, <1>12 DEF IsInserted

\* r is s without its first k elements.
IsRest(r, s, k) ==
    /\ Len(r) = Len(s) - k
    /\ \A i \in 1..(Len(s) - k) : r[i] = s[k + i]

LEMMA SuffixSeq ==
  ASSUME NEW S, NEW s \in Seq(S), NEW k \in 0..Len(s),
         NEW r, r = SubSeq(s, k + 1, Len(s))
  PROVE  r \in Seq(S) /\ IsRest(r, s, k)
  <1>1. Len(s) \in Nat /\ k \in Nat /\ \A i \in 1..Len(s) : s[i] \in S
    BY LenProperties, ElementOfSeq
  <1>2. \A i \in (k + 1)..Len(s) : s[i] \in S
    BY <1>1
  <1>3. /\ r \in Seq(S)
        /\ Len(r) = IF k + 1 <= Len(s) THEN Len(s) - (k + 1) + 1 ELSE 0
        /\ \A i \in 1..(Len(s) - (k + 1) + 1) : r[i] = s[(k + 1) + i - 1]
    BY <1>1, <1>2, SubSeqProperties
  <1>4. Len(r) = Len(s) - k /\ \A i \in 1..(Len(s) - k) : r[i] = s[k + i]
    BY <1>1, <1>3
  <1> QED BY <1>3, <1>4 DEF IsRest

-----------------------------------------------------------------------------
(* What the helpers of the executor do.                                    *)

LEMMA DeadlineInRange ==
  ASSUME TypeOK, NEW d \in Durations PROVE SleepDeadline(d) \in 0..UMax
  <1>1. now \in 0..UMax /\ UMax \in Nat /\ d \in Nat
    BY NumAssumption DEF TypeOK
  <1>2. d % (UMax + 1) \in 0..UMax
    BY <1>1
  <1> QED BY <1>1, <1>2 DEF SleepDeadline

\* Registering a timer adds it and keeps the others.
LEMMA RegisterAdds ==
  ASSUME TypeOK, NEW e \in Timer, Register(e)
  PROVE  /\ timers' \in Seq(Timer)
         /\ \A i \in 1..Len(timers') :
                timers'[i] = e \/ \E j \in 1..Len(timers) : timers'[i] = timers[j]
         /\ \A j \in 1..Len(timers) : \E i \in 1..Len(timers') : timers'[i] = timers[j]
         /\ \E i \in 1..Len(timers') : timers'[i] = e
  <1>1. PICK k \in 0..Len(timers) : /\ DueUpTo(k, e.deadline)
          /\ timers' = InsertAt(timers, k + 1, e)
    BY DEF Register
  <1>2. timers \in Seq(Timer) /\ Len(timers) \in Nat /\ k \in Nat
    BY LenProperties DEF TypeOK
  <1>3. /\ timers' \in Seq(Timer) /\ Len(timers') = Len(timers) + 1
        /\ \A i \in 1..k : timers'[i] = timers[i]
        /\ timers'[k + 1] = e
        /\ \A i \in (k + 2)..(Len(timers) + 1) : timers'[i] = timers[i - 1]
    <2>1. timers' \in Seq(Timer) /\ IsInserted(timers', timers, k, e)
      BY <1>1, <1>2, InsertedSeq, Zenon
    <2> QED BY <2>1 DEF IsInserted
  <1>4. ASSUME NEW j \in 1..Len(timers) PROVE \E i \in 1..Len(timers') : timers'[i] = timers[j]
    <2>1. CASE j <= k
      BY <2>1, <1>2, <1>3
    <2>2. CASE j > k
      <3>1. j + 1 \in (k + 2)..(Len(timers) + 1) /\ j + 1 \in 1..Len(timers')
        BY <2>2, <1>2, <1>3
      <3>2. timers'[j + 1] = timers[(j + 1) - 1] /\ (j + 1) - 1 = j
        BY <3>1, <1>2, <1>3
      <3> QED BY <3>1, <3>2
    <2> QED BY <2>1, <2>2, <1>2
  <1>5. ASSUME NEW i \in 1..Len(timers')
        PROVE timers'[i] = e \/ \E j \in 1..Len(timers) : timers'[i] = timers[j]
    <2>0. i \in Nat /\ i \in 1..(Len(timers) + 1)
      BY <1>2, <1>3
    <2>1. CASE i <= k
      BY <2>0, <2>1, <1>2, <1>3
    <2>2. CASE i = k + 1
      BY <2>2, <1>3
    <2>3. CASE i > k + 1
      <3>1. i \in (k + 2)..(Len(timers) + 1) /\ i - 1 \in 1..Len(timers)
        BY <2>0, <2>3, <1>2
      <3>2. timers'[i] = timers[i - 1]
        BY <3>1, <1>3
      <3> QED BY <3>1, <3>2
    <2> QED BY <2>0, <2>1, <2>2, <2>3, <1>2
  <1>6. \E i \in 1..Len(timers') : timers'[i] = e
    <2>1. k + 1 \in 1..Len(timers')
      BY <1>2, <1>3
    <2> QED BY <2>1, <1>3
  <1> QED BY <1>3, <1>4, <1>5, <1>6

-----------------------------------------------------------------------------
(* Type correctness.                                                       *)

LEMMA ExceptInSeq ==
  ASSUME NEW S, NEW s \in Seq(S), NEW i, NEW e \in S
  PROVE  [s EXCEPT ![i] = e] \in Seq(S) /\ Len([s EXCEPT ![i] = e]) = Len(s)
  <1>1. CASE i \in 1..Len(s)
    BY <1>1, ExceptSeq
  <1>2. CASE i \notin 1..Len(s)
    <2>1. s \in [1..Len(s) -> S]
      BY LenProperties
    <2>2. [s EXCEPT ![i] = e] = s
      BY <2>1, <1>2
    <2> QED BY <2>2
  <1> QED BY <1>1, <1>2

LEMMA ExceptInFun ==
  ASSUME NEW A, NEW B, NEW f \in [A -> B], NEW x, NEW e \in B
  PROVE  [f EXCEPT ![x] = e] \in [A -> B]
  OBVIOUS

LEMMA SpawnTypes ==
  ASSUME TypeOK, NEW t \in Task, Spawn(t)
  PROVE  /\ tasks' \in Seq(Task \cup {NoTask}) /\ free' \in Seq(Nat) /\ ready' \in Seq(Nat)
         /\ spawned' \in SUBSET Task
  <1> DEFINE n  == Len(free)
             id == IF n > 0 THEN free[n] ELSE Len(tasks) + 1
  <1>1. tasks \in Seq(Task \cup {NoTask}) /\ free \in Seq(Nat) /\ ready \in Seq(Nat)
    BY DEF TypeOK
  <1>2. n \in Nat /\ Len(tasks) \in Nat /\ id \in Nat
    BY <1>1
  <1>3. /\ tasks' = IF n > 0 THEN [tasks EXCEPT ![id] = t] ELSE Append(tasks, t)
        /\ free' = IF n > 0 THEN SubSeq(free, 1, n - 1) ELSE free
        /\ ready' = Append(ready, id)
        /\ spawned' = spawned \cup {t}
    BY DEF Spawn
  <1> HIDE DEF id
  <1>4. tasks' \in Seq(Task \cup {NoTask})
    <2>1. [tasks EXCEPT ![id] = t] \in Seq(Task \cup {NoTask})
      <3>1. t \in Task \cup {NoTask}
        OBVIOUS
      <3> QED BY <1>1, <3>1, ExceptInSeq, Zenon
    <2>2. Append(tasks, t) \in Seq(Task \cup {NoTask})
      BY <1>1
    <2> QED BY <2>1, <2>2, <1>3
  <1>5. free' \in Seq(Nat)
    <2>1. CASE n > 0
      <3>1. \A i \in 1..(n - 1) : free[i] \in Nat
        BY <1>1, <1>2
      <3>2. SubSeq(free, 1, n - 1) \in Seq(Nat)
        BY <3>1, <1>1, <1>2, SubSeqProperties
      <3> QED BY <3>2, <2>1, <1>3
    <2> QED BY <2>1, <1>1, <1>3
  <1>6. ready' \in Seq(Nat)
    BY <1>1, <1>2, <1>3
  <1>7. spawned' \in SUBSET Task
    BY <1>3 DEF TypeOK
  <1> QED BY <1>4, <1>5, <1>6, <1>7

\* The clock and the heap after a jump, and the slots of the timers that went off.
LEMMA JumpTypes ==
  ASSUME TypeOK, Jump
  PROVE  now' \in 0..UMax /\ timers' \in Seq(Timer) /\ ready' \in Seq(Nat)
  <1>1. timers \in Seq(Timer) /\ Len(timers) \in Nat /\ ready \in Seq(Nat)
    BY LenProperties DEF TypeOK
  <1>2. \A i \in 1..Len(timers) : timers[i] \in Timer
    BY <1>1, ElementOfSeq
  <1>3. \A i \in 1..Len(timers) : timers[i].deadline \in 0..UMax /\ timers[i].slot \in Nat
    BY <1>2 DEF Timer
  <1>4. now' \in 0..UMax
    <2>1. timers # <<>> /\ now' = JumpTo /\ now \in 0..UMax
      BY DEF Jump, TypeOK
    <2>2. 1 \in 1..Len(timers)
      BY <2>1, <1>1, EmptySeq
    <2> QED BY <2>1, <2>2, <1>3 DEF JumpTo
  <1>5. PICK k \in 0..Len(timers) :
            /\ timers' = SubSeq(timers, k + 1, Len(timers))
            /\ ready' = ready \o [i \in 1..k |-> timers[i].slot]
    BY DEF Jump
  <1>6. timers' \in Seq(Timer) /\ IsRest(timers', timers, k)
    BY <1>1, <1>5, SuffixSeq, Zenon
  <1>7. ready' \in Seq(Nat)
    <2>1. ASSUME NEW i \in 1..k PROVE timers[i].slot \in Nat
      <3>1. i \in 1..Len(timers)
        BY <1>1
      <3> QED BY <3>1, <1>3
    <2>2. [i \in 1..k |-> timers[i].slot] \in Seq(Nat)
      <3>1. k \in Nat
        BY <1>1
      <3> QED BY <2>1, <3>1
    <2> QED BY <2>2, <1>1, <1>5, ConcatProperties
  <1> QED BY <1>4, <1>6, <1>7

\* What a send and a wake leave behind, seen from the types.
LEMMA WakeTypes == ASSUME TypeOK, NEW id \in Nat, Wake(id) PROVE ready' \in Seq(Nat)
  <1>1. ready \in Seq(Nat) /\ ready' = Append(ready, id)
    BY DEF TypeOK, Wake
  <1> QED BY <1>1

LEMMA SendTypes ==
  ASSUME TypeOK, NEW t \in Task, Send(t)
  PROVE  /\ ops' \in Nat /\ ready' \in Seq(Nat)
         /\ inbox' \in [Task -> Nat] /\ rxWaker' \in [Task -> Nat]
  <1>1. ops' \in Nat /\ inbox' \in [Task -> Nat]
    BY DEF Send, TypeOK
  <1>2. rxWaker' \in [Task -> Nat]
    BY DEF Send, TypeOK, NoSlot
  <1>3. ready' \in Seq(Nat)
    <2>1. CASE rxWaker[t] # NoSlot
      <3>1. rxWaker[t] \in Nat /\ Wake(rxWaker[t])
        BY <2>1 DEF Send, TypeOK
      <3> QED BY <3>1, WakeTypes
    <2>2. CASE rxWaker[t] = NoSlot
      BY <2>2 DEF Send, TypeOK
    <2> QED BY <2>1, <2>2
  <1> QED BY <1>1, <1>2, <1>3

LEMMA PutBackTypes ==
  ASSUME TypeOK, PutBack
  PROVE  /\ tasks' \in Seq(Task \cup {NoTask})
         /\ running' \in Polled
  <1>1. running.slot \in Nat /\ running.task \in Task \cup {NoTask}
    BY DEF TypeOK, Polled, Idle, NoSlot
  <1>2. tasks \in Seq(Task \cup {NoTask}) /\ tasks' = [tasks EXCEPT ![running.slot] = running.task]
    BY DEF TypeOK, PutBack
  <1>3. tasks' \in Seq(Task \cup {NoTask})
    BY <1>1, <1>2, ExceptInSeq, Zenon
  <1>4. running' \in Polled
    BY DEF PutBack, Polled
  <1> QED BY <1>3, <1>4

\* Every step keeps the executor's structures well-typed.
LEMMA TypeStep == TypeOK /\ [Next]_vars => TypeOK'
  <1> SUFFICES ASSUME TypeOK, [Next]_vars PROVE TypeOK'
    OBVIOUS
  <1> USE NumAssumption DEF core, futs
  <1>m. Busy => Me \in Task
    BY DEF TypeOK, Busy, Polled, Me
  <1>n. NoSleep \in DesSleep
    BY DEF NoSleep, DesSleep
  <1>1. ASSUME NEW t \in Task, TaskSpawn(t) PROVE TypeOK'
    <2>1. Spawn(t)
      BY <1>1 DEF TaskSpawn
    <2> QED BY <1>1, <2>1, SpawnTypes DEF TaskSpawn, TypeOK
  <1>2. ASSUME NEW t \in Task, TaskSend(t) PROVE TypeOK'
    <2>1. Send(t)
      BY <1>2 DEF TaskSend
    <2> QED BY <1>2, <2>1, SendTypes DEF TaskSend, TypeOK
  <1>3. ASSUME NEW d \in Durations, TaskNewSleep(d) PROVE TypeOK'
    <2>1. SleepDeadline(d) \in 0..UMax
      BY DeadlineInRange
    <2>2. [deadline |-> SleepDeadline(d), state |-> "new"] \in DesSleep
      BY <2>1 DEF DesSleep
    <2>3. sleep' \in [Task -> DesSleep]
      BY <1>3, <2>2 DEF TaskNewSleep, TypeOK
    <2>4. ops' \in Nat
      BY <1>3 DEF TaskNewSleep, TypeOK
    <2> QED BY <1>3, <2>3, <2>4 DEF TaskNewSleep, TypeOK
  <1>4. ASSUME NEW W \in SUBSET {"sleep", "recv"}, TaskAwait(W) PROVE TypeOK'
    BY <1>4 DEF TaskAwait, TypeOK
  <1>5. CASE SleepReady
    <2>1. sleep' \in [Task -> DesSleep]
      BY <1>5, <1>n DEF SleepReady, TypeOK
    <2>2. awaits' \in [Task -> SUBSET {"sleep", "recv"}]
      BY <1>5 DEF SleepReady, TypeOK
    <2> QED BY <1>5, <2>1, <2>2 DEF SleepReady, TypeOK
  <1>6. CASE RecvReady
    <2>1. sleep' \in [Task -> DesSleep]
      BY <1>6, <1>n DEF RecvReady, TypeOK
    <2>2. awaits' \in [Task -> SUBSET {"sleep", "recv"}]
      BY <1>6 DEF RecvReady, TypeOK
    <2>3. inbox' \in [Task -> Nat]
      <3>1. inbox[Me] - 1 \in Nat
        BY <1>6, <1>m DEF RecvReady, RecvDue, TypeOK
      <3>2. inbox' = [inbox EXCEPT ![Me] = inbox[Me] - 1] /\ inbox \in [Task -> Nat]
        BY <1>6 DEF RecvReady, TypeOK
      <3> QED BY <3>1, <3>2, ExceptInFun, Zenon
    <2> QED BY <1>6, <2>1, <2>2, <2>3 DEF RecvReady, TypeOK
  <1>7. CASE Park
    <2>1. PutBack
      BY <1>7 DEF Park
    <2>2. timers' \in Seq(Timer) /\ sleep' \in [Task -> DesSleep]
      <3>1. CASE "sleep" \in awaits[Me] /\ sleep[Me].state = "new"
        <4>1. Me \in Task
          BY <1>7, <1>m DEF Park
        <4>2. [deadline |-> sleep[Me].deadline, slot |-> running.slot] \in Timer
          BY <4>1 DEF Timer, TypeOK, DesSleep, Polled, Idle, NoSlot
        <4>3. timers' \in Seq(Timer)
          BY <1>7, <3>1, <4>2, RegisterAdds DEF Park
        <4>4. sleep' \in [Task -> DesSleep]
          <5>1. [sleep[Me] EXCEPT !.state = "registered"] \in DesSleep
            BY <4>1 DEF TypeOK, DesSleep
          <5>2. /\ sleep' = [sleep EXCEPT ![Me] = [sleep[Me] EXCEPT !.state = "registered"]]
                /\ sleep \in [Task -> DesSleep]
            BY <1>7, <3>1, <4>1 DEF Park, TypeOK
          <5> QED BY <5>1, <5>2, ExceptInFun, Zenon
        <4> QED BY <4>3, <4>4
      <3>2. CASE ~("sleep" \in awaits[Me] /\ sleep[Me].state = "new")
        BY <1>7, <3>2 DEF Park, TypeOK
      <3> QED BY <3>1, <3>2
    <2>3. rxWaker' \in [Task -> Nat]
      <3>1. running.slot \in Nat
        BY DEF TypeOK, Polled, Idle, NoSlot
      <3>2. rxWaker \in [Task -> Nat] /\ [rxWaker EXCEPT ![Me] = running.slot] \in [Task -> Nat]
        BY <3>1 DEF TypeOK
      <3> QED BY <1>7, <3>2 DEF Park
    <2> QED BY <1>7, <2>1, <2>2, <2>3, PutBackTypes DEF Park, TypeOK
  <1>8. CASE TaskYield
    <2>1. PutBack /\ Wake(running.slot) /\ running.slot \in Nat
      BY <1>8 DEF TaskYield, TypeOK, Polled, Idle, NoSlot
    <2>2. ops' \in Nat
      BY <1>8 DEF TaskYield, TypeOK
    <2> QED BY <1>8, <2>1, <2>2, PutBackTypes, WakeTypes DEF TaskYield, TypeOK
  <1>9. CASE TaskFinish
    <2>1. free' \in Seq(Nat)
      <3>1. free \in Seq(Nat) /\ running.slot \in Nat /\ free' = Append(free, running.slot)
        BY <1>9 DEF TaskFinish, TypeOK, Polled, Idle, NoSlot
      <3> QED BY <3>1
    <2>2. running' \in Polled
      BY <1>9 DEF TaskFinish, Polled
    <2>3. finished' \in SUBSET Task
      BY <1>9, <1>m DEF TaskFinish, Runs, TypeOK
    <2>4. sleep' \in [Task -> DesSleep]
      BY <1>9, <1>n DEF TaskFinish, TypeOK
    <2>5. rxWaker' \in [Task -> Nat]
      BY <1>9 DEF TaskFinish, TypeOK, NoSlot
    <2> QED BY <1>9, <2>1, <2>2, <2>3, <2>4, <2>5 DEF TaskFinish, TypeOK
  <1>10. CASE SkipStale
    <2>1. ready' \in Seq(Nat)
      <3>1. ready \in Seq(Nat) /\ ready # <<>> /\ ready' = Tail(ready)
        BY <1>10 DEF SkipStale, TypeOK
      <3> QED BY <3>1, HeadTailProperties
    <2> QED BY <1>10, <2>1 DEF SkipStale, TypeOK
  <1>11. CASE BeginPoll
    <2>1. /\ ready \in Seq(Nat) /\ ready # <<>> /\ tasks \in Seq(Task \cup {NoTask})
          /\ Head(ready) \in 1..Len(tasks)
      BY <1>11 DEF BeginPoll, TypeOK, Slots
    <2>2. ready' \in Seq(Nat) /\ Head(ready) \in Nat
      BY <1>11, <2>1, HeadTailProperties DEF BeginPoll
    <2>3. tasks[Head(ready)] \in Task \cup {NoTask}
      BY <2>1, ElementOfSeq
    <2>4. running' \in Polled
      <3>1. /\ running' = [slot |-> Head(ready), task |-> tasks[Head(ready)]]
            /\ tasks[Head(ready)] # NoTask /\ Head(ready) \in Nat \ {NoSlot}
        BY <1>11, <2>1, <2>2 DEF BeginPoll, NoSlot
      <3> QED BY <2>3, <3>1 DEF Polled
    <2>5. tasks' \in Seq(Task \cup {NoTask})
      <3>1. tasks' = [tasks EXCEPT ![Head(ready)] = NoTask] /\ NoTask \in Task \cup {NoTask}
        BY <1>11 DEF BeginPoll
      <3> QED BY <2>1, <3>1, ExceptInSeq, Zenon
    <2> QED BY <1>11, <2>2, <2>4, <2>5 DEF BeginPoll, TypeOK
  <1>12. CASE BlockOnReturns
    BY <1>12 DEF BlockOnReturns, Return, NoCall, TypeOK
  <1>13. CASE Advance
    <2>1. Jump
      BY <1>13 DEF Advance
    <2> QED BY <1>13, <2>1, JumpTypes DEF Advance, Jump, TypeOK
  <1>14. CASE Quiescent
    BY <1>14 DEF Quiescent, Return, NoCall, TypeOK
  <1>15. CASE EndStep
    BY <1>15 DEF EndStep, Return, NoCall, TypeOK
  <1>16. ASSUME NEW t \in Task, HostSpawn(t) PROVE TypeOK'
    <2>1. Spawn(t)
      BY <1>16 DEF HostSpawn
    <2> QED BY <1>16, <2>1, SpawnTypes DEF HostSpawn, TypeOK
  <1>17. ASSUME NEW t \in Task, HostSend(t) PROVE TypeOK'
    <2>1. Send(t)
      BY <1>17 DEF HostSend
    <2> QED BY <1>17, <2>1, SendTypes DEF HostSend, TypeOK
  <1>18. ASSUME NEW t \in Task, BlockOn(t) PROVE TypeOK'
    <2>1. Spawn(t)
      BY <1>18 DEF BlockOn
    <2>2. /\ call' \in [op : {"none", "block_on", "run_until", "step"},
                      target : 0..UMax, root : Task \cup {NoTask}]
          /\ pc' \in {"idle", "poll1", "poll2", "panic"}
      BY <1>18 DEF BlockOn
    <2> QED BY <1>18, <2>1, <2>2, SpawnTypes DEF BlockOn, TypeOK
  <1>19. CASE Step
    <2>1. call' = [op |-> "step", target |-> 0, root |-> NoTask]
      BY <1>19 DEF Step, NoCall
    <2>2. 0 \in 0..UMax /\ pc' = "poll1"
      BY <1>19 DEF Step
    <2>3. call' \in [op : {"none", "block_on", "run_until", "step"},
                    target : 0..UMax, root : Task \cup {NoTask}]
      BY <2>1, <2>2
    <2> QED BY <1>19, <2>2, <2>3 DEF Step, TypeOK
  <1>20. ASSUME NEW target \in 1..UMax, RunUntil(target) PROVE TypeOK'
    BY <1>20 DEF RunUntil, TypeOK
  <1>21. CASE UNCHANGED vars
    BY <1>21 DEF vars, TypeOK
  <1> QED
    BY <1>1, <1>2, <1>3, <1>4, <1>5, <1>6, <1>7, <1>8, <1>9, <1>10, <1>11, <1>12, <1>13,
       <1>14, <1>15, <1>16, <1>17, <1>18, <1>19, <1>20, <1>21
       DEF Next, TaskStep, DriverStep, HostStep, Panicked

LEMMA TypeInit == Init => TypeOK
  <1> SUFFICES ASSUME Init PROVE TypeOK
    OBVIOUS
  <1>1. /\ tasks \in Seq(Task \cup {NoTask}) /\ ready \in Seq(Nat) /\ free \in Seq(Nat)
        /\ timers \in Seq(Timer)
    BY EmptySeq DEF Init
  <1>2. sleep \in [Task -> DesSleep] /\ running \in Polled /\ now \in 0..UMax
    BY NumAssumption DEF Init, DesSleep, NoSleep, Polled
  <1>3. call \in [op : {"none", "block_on", "run_until", "step"},
                 target : 0..UMax, root : Task \cup {NoTask}]
    BY NumAssumption DEF Init, NoCall
  <1>4. awaits \in [Task -> SUBSET {"sleep", "recv"}] /\ inbox \in [Task -> Nat]
    BY DEF Init
  <1>5. rxWaker \in [Task -> Nat]
    BY DEF Init, NoSlot
  <1> QED BY <1>1, <1>2, <1>3, <1>4, <1>5 DEF Init, TypeOK

\* The executor's state is well-typed: in particular a deadline never leaves the range of
\* the clock's integer type, however long the durations passed to sleep.
THEOREM TypeCorrect == Spec => []TypeOK
  <1> QED BY TypeInit, TypeStep, PTL DEF Spec

-----------------------------------------------------------------------------
(* Slot recycling.  SlotsSound and Placed are inductive together, given    *)
(* that only tasks that were spawned can have finished.                    *)

SlotInv == TypeOK /\ SlotsSound /\ Placed /\ finished \subseteq spawned

Freed(s) == \E i \in 1..Len(free) : free[i] = s

\* What TypeOK says of the slots, in the form the steps below use it.
LEMMA SlotTypes ==
  ASSUME TypeOK
  PROVE  /\ Len(tasks) \in Nat /\ Len(free) \in Nat
         /\ \A s \in Slots : tasks[s] \in Task \cup {NoTask}
         /\ \A i \in 1..Len(free) : free[i] \in Nat
         /\ running = Idle => running.slot = 0 /\ running.task = NoTask
         /\ running # Idle => running.slot \in Nat \ {0} /\ running.task \in Task
  <1>1. tasks \in Seq(Task \cup {NoTask}) /\ free \in Seq(Nat) /\ running \in Polled
    BY DEF TypeOK
  <1>2. Len(tasks) \in Nat /\ Len(free) \in Nat
    BY <1>1, LenProperties
  <1>3. \A s \in Slots : tasks[s] \in Task \cup {NoTask}
    BY <1>1, ElementOfSeq DEF Slots
  <1>4. \A i \in 1..Len(free) : free[i] \in Nat
    BY <1>1, ElementOfSeq
  <1>5. running = Idle => running.slot = 0 /\ running.task = NoTask
    BY DEF Idle, NoSlot
  <1>6. running # Idle => running.slot \in Nat \ {0} /\ running.task \in Task
    BY <1>1 DEF Polled, NoSlot
  <1> QED BY <1>2, <1>3, <1>4, <1>5, <1>6

\* A spawn fills one slot, which was empty, not being polled, and leaves the free stack.
LEMMA SpawnFills ==
  ASSUME SlotInv, NEW t \in Task, Spawn(t)
  PROVE  \E id \in Nat :
            /\ Slots' = Slots \cup {id} /\ tasks'[id] = t /\ id # running.slot
            /\ id \in Slots => tasks[id] = NoTask
            /\ \A s \in Slots : s # id => tasks'[s] = tasks[s]
            /\ \A s \in Nat : Freed(s)' <=> (Freed(s) /\ s # id)
            /\ \A i, j \in 1..Len(free') : free'[i] = free'[j] => i = j
            /\ ready' = Append(ready, id)
  <1> DEFINE n == Len(free)
  <1>1. /\ Len(tasks) \in Nat /\ n \in Nat
        /\ \A i \in 1..n : free[i] \in Nat
        /\ tasks \in Seq(Task \cup {NoTask}) /\ free \in Seq(Nat)
        /\ t \in Task \cup {NoTask}
    BY SlotTypes DEF SlotInv, TypeOK
  <1>2. /\ \A i, j \in 1..n : free[i] = free[j] => i = j
        /\ \A i \in 1..n : free[i] \in Slots /\ tasks[free[i]] = NoTask /\ free[i] # running.slot
    BY DEF SlotInv, SlotsSound
  <1>3. CASE n > 0
    <2> DEFINE id == free[n]
    <2>1. n \in 1..n /\ id \in Slots /\ tasks[id] = NoTask /\ id # running.slot /\ id \in Nat
      BY <1>1, <1>2, <1>3
    <2>2. tasks' = [tasks EXCEPT ![id] = t] /\ free' = SubSeq(free, 1, n - 1)
      BY <1>3 DEF Spawn
    <2>3. Len(tasks') = Len(tasks) /\ \A s \in Slots : tasks'[s] = IF s = id THEN t ELSE tasks[s]
      BY <1>1, <2>1, <2>2, ExceptSeq DEF Slots
    <2>4. Len(free') = n - 1 /\ \A i \in 1..(n - 1) : free'[i] = free[i]
      <3>1. \A i \in 1..(n - 1) : free[i] \in Nat
        BY <1>1
      <3>2. /\ Len(SubSeq(free, 1, n - 1)) = IF 1 <= n - 1 THEN (n - 1) - 1 + 1 ELSE 0
            /\ \A i \in 1..((n - 1) - 1 + 1) : SubSeq(free, 1, n - 1)[i] = free[1 + i - 1]
        BY <1>1, <1>3, <3>1, SubSeqProperties
      <3>3. /\ Len(free') = IF 1 <= n - 1 THEN (n - 1) - 1 + 1 ELSE 0
            /\ \A i \in 1..((n - 1) - 1 + 1) : free'[i] = free[1 + i - 1]
        BY <2>2, <3>2, Zenon
      <3>4. \A i \in 1..(n - 1) : 1 + i - 1 = i
        BY <1>1
      <3>5. n \in Nat /\ n > 0
        BY <1>1, <1>3
      <3> HIDE DEF n
      <3>6. (n - 1) - 1 + 1 = n - 1
        BY <3>5
      <3>7. ~(1 <= n - 1) => n - 1 = 0
        BY <3>5
      <3> QED BY <3>3, <3>4, <3>6, <3>7
    <2>5. ASSUME NEW s \in Nat PROVE Freed(s)' <=> (Freed(s) /\ s # id)
      <3>1. ASSUME NEW i \in 1..(n - 1) PROVE i \in 1..n /\ free[i] # id
        BY <1>1, <1>2, <2>1
      <3>2. Freed(s)' <=> \E i \in 1..(n - 1) : free[i] = s
        BY <2>4 DEF Freed
      <3>3. Freed(s) /\ s # id => \E i \in 1..(n - 1) : free[i] = s
        <4> SUFFICES ASSUME NEW i \in 1..n, free[i] = s, s # id
                     PROVE  i \in 1..(n - 1)
          BY DEF Freed
        <4>1. i # n
          OBVIOUS
        <4> QED BY <4>1, <1>1
      <3> HIDE DEF id
      <3> QED BY <3>1, <3>2, <3>3 DEF Freed
    <2>6. \A i, j \in 1..Len(free') : free'[i] = free'[j] => i = j
      <3>1. \A i \in 1..(n - 1) : i \in 1..n
        BY <1>1
      <3> QED BY <1>2, <2>4, <3>1
    <2>7. Slots' = Slots \cup {id} /\ tasks'[id] = t /\ ready' = Append(ready, id)
      BY <1>3, <2>1, <2>3 DEF Slots, Spawn
    <2> HIDE DEF id
    <2> QED BY <2>1, <2>3, <2>5, <2>6, <2>7
  <1>4. CASE ~(n > 0)
    <2> DEFINE id == Len(tasks) + 1
    <2>1. n = 0 /\ free' = free /\ tasks' = Append(tasks, t)
      BY <1>1, <1>4 DEF Spawn
    <2>2. /\ Len(tasks') = Len(tasks) + 1 /\ tasks'[id] = t
          /\ \A s \in Slots : tasks'[s] = tasks[s]
      BY <1>1, <2>1, AppendProperties DEF Slots
    <2>3. id \in Nat /\ id \notin Slots /\ Slots' = Slots \cup {id}
      BY <1>1, <2>2 DEF Slots
    <2>4. id # running.slot
      BY <1>1, <2>3, SlotTypes DEF SlotInv, SlotsSound
    <2>5. \A s \in Nat : Freed(s)' <=> (Freed(s) /\ s # id)
      BY <2>1 DEF Freed
    <2>6. \A i, j \in 1..Len(free') : free'[i] = free'[j] => i = j
      BY <2>1
    <2>7. ready' = Append(ready, id)
      BY <1>4 DEF Spawn
    <2> HIDE DEF id
    <2> QED BY <2>2, <2>3, <2>4, <2>5, <2>6, <2>7
  <1> QED BY <1>3, <1>4

\* The two invariants, with the free stack seen through Freed.
LEMMA SlotFacts ==
  ASSUME SlotInv
  PROVE  /\ \A s \in Slots : Freed(s) <=> (tasks[s] = NoTask /\ s # running.slot)
         /\ \A i \in 1..Len(free) : free[i] \in Slots
         /\ running # Idle => running.slot \in Slots /\ tasks[running.slot] = NoTask
         /\ \A s, u \in Slots : tasks[s] = tasks[u] /\ tasks[s] # NoTask => s = u
         /\ \A t \in spawned \ finished : running.task = t \/ \E s \in Slots : tasks[s] = t
         /\ \A s \in Slots : tasks[s] # NoTask => tasks[s] \in spawned \ finished
         /\ running # Idle => running.task \in spawned \ finished
                              /\ \A s \in Slots : tasks[s] # running.task
  BY DEF SlotInv, SlotsSound, Placed, Freed

LEMMA SpawnKeeps ==
  ASSUME SlotInv, NEW t \in Task \ spawned, Spawn(t), UNCHANGED <<running, finished>>
  PROVE  SlotsSound' /\ Placed' /\ (finished \subseteq spawned)'
  <1>1. PICK id \in Nat :
            /\ Slots' = Slots \cup {id} /\ tasks'[id] = t /\ id # running.slot
            /\ id \in Slots => tasks[id] = NoTask
            /\ \A s \in Slots : s # id => tasks'[s] = tasks[s]
            /\ \A s \in Nat : Freed(s)' <=> (Freed(s) /\ s # id)
            /\ \A i, j \in 1..Len(free') : free'[i] = free'[j] => i = j
    BY SpawnFills
  <1>2. /\ \A s \in Slots : tasks[s] # t /\ s \in Nat
        /\ running.task # t /\ t # NoTask /\ t \notin finished
    BY SlotFacts, SlotTypes, NoTaskAssumption DEF SlotInv, Slots
  <1>3. spawned' = spawned \cup {t} /\ running' = running /\ finished' = finished
    BY DEF Spawn
  <1>4. ASSUME NEW s \in Slots' PROVE Freed(s)' <=> (tasks'[s] = NoTask /\ s # running'.slot)
    <2>1. CASE s = id
      BY <2>1, <1>1, <1>2
    <2>2. CASE s # id
      BY <2>2, <1>1, <1>2, <1>3, SlotFacts
    <2> QED BY <2>1, <2>2
  <1>5. ASSUME NEW i \in 1..Len(free') PROVE free'[i] \in Slots'
    <2>1. PICK s \in Nat : s = free'[i]
      <3>1. free' \in Seq(Nat)
        BY SpawnTypes DEF SlotInv
      <3> QED BY <3>1, ElementOfSeq
    <2>2. Freed(s)'
      BY <2>1 DEF Freed
    <2>3. Freed(s)
      BY <2>2, <1>1
    <2> QED BY <2>1, <2>3, <1>1, SlotFacts DEF Freed
  <1>6. SlotsSound'
    BY <1>1, <1>2, <1>3, <1>4, <1>5, SlotFacts DEF SlotsSound, Freed
  <1>7. Placed'
    <2>1. ASSUME NEW s \in Slots', NEW u \in Slots', tasks'[s] = tasks'[u], tasks'[s] # NoTask
          PROVE  s = u
      BY <2>1, <1>1, <1>2, SlotFacts
    <2>2. ASSUME NEW v \in spawned' \ finished'
          PROVE  running'.task = v \/ \E s \in Slots' : tasks'[s] = v
      <3>1. CASE v = t
        BY <3>1, <1>1
      <3>2. CASE v # t
        <4>1. v \in spawned \ finished
          BY <3>2, <1>3
        <4>2. v # NoTask
          BY <4>1, NoTaskAssumption DEF SlotInv, TypeOK
        <4>3. \A s \in Slots : tasks[s] = v => tasks'[s] = v /\ s \in Slots'
          BY <4>2, <1>1
        <4>4. running.task = v \/ \E s \in Slots : tasks[s] = v
          BY <4>1, SlotFacts
        <4> QED BY <4>3, <4>4, <1>3
      <3> QED BY <3>1, <3>2
    <2>3. ASSUME NEW s \in Slots', tasks'[s] # NoTask PROVE tasks'[s] \in spawned' \ finished'
      <3>1. CASE s = id
        BY <3>1, <1>1, <1>2, <1>3
      <3>2. CASE s # id
        <4>1. s \in Slots /\ tasks'[s] = tasks[s]
          BY <3>2, <1>1
        <4>2. tasks[s] \in spawned \ finished
          BY <2>3, <4>1, SlotFacts
        <4> QED BY <4>1, <4>2, <1>3
      <3> QED BY <3>1, <3>2
    <2>4. running' # Idle => running'.task \in spawned' \ finished'
                             /\ \A s \in Slots' : tasks'[s] # running'.task
      BY <1>1, <1>2, <1>3, SlotFacts
    <2> QED BY <2>1, <2>2, <2>3, <2>4 DEF Placed
  <1> QED BY <1>3, <1>6, <1>7 DEF SlotInv

\* Taking the future out of its slot.
LEMMA BeginPollKeeps ==
  ASSUME SlotInv, BeginPoll
  PROVE  SlotsSound' /\ Placed' /\ (finished \subseteq spawned)'
  <1> DEFINE h == Head(ready)
  <1>1. /\ h \in Slots /\ tasks[h] # NoTask /\ running = Idle
        /\ running' = [slot |-> h, task |-> tasks[h]]
        /\ tasks' = [tasks EXCEPT ![h] = NoTask]
        /\ free' = free /\ spawned' = spawned /\ finished' = finished
    BY DEF BeginPoll, futs
  <1> HIDE DEF h
  <1>2. Slots' = Slots /\ \A s \in Slots : tasks'[s] = IF s = h THEN NoTask ELSE tasks[s]
    <2>1. tasks \in Seq(Task \cup {NoTask}) /\ h \in 1..Len(tasks) /\ NoTask \in Task \cup {NoTask}
      BY <1>1 DEF SlotInv, TypeOK, Slots
    <2> QED BY <2>1, <1>1, ExceptSeq DEF Slots
  <1>3. /\ running'.slot = h /\ running'.task = tasks[h] /\ running' # Idle
        /\ running.slot = 0 /\ running.task = NoTask /\ \A s \in Slots : s # 0
    BY <1>1, SlotTypes DEF Idle, NoSlot, SlotInv, Slots
  <1>4. SlotsSound'
    <2>1. ASSUME NEW s \in Slots PROVE Freed(s) <=> (tasks'[s] = NoTask /\ s # running'.slot)
      BY <1>1, <1>2, <1>3, SlotFacts
    <2>2. \A i, j \in 1..Len(free) : free[i] = free[j] => i = j
      BY DEF SlotInv, SlotsSound
    <2> QED BY <1>1, <1>2, <1>3, <2>1, <2>2, SlotFacts DEF SlotsSound, Freed
  <1>5. Placed'
    <2>1. ASSUME NEW v \in spawned \ finished
          PROVE  running'.task = v \/ \E s \in Slots : tasks'[s] = v
      <3>1. v # running.task
        BY <1>3, NoTaskAssumption DEF SlotInv, TypeOK
      <3>2. PICK s \in Slots : tasks[s] = v
        BY <3>1, SlotFacts
      <3> QED BY <1>2, <1>3, <3>2
    <2>2. \A s, u \in Slots : tasks'[s] = tasks'[u] /\ tasks'[s] # NoTask => s = u
      BY <1>2, SlotFacts
    <2>3. \A s \in Slots : tasks'[s] # NoTask => tasks'[s] \in spawned \ finished
      BY <1>2, SlotFacts
    <2>4. running'.task \in spawned \ finished /\ \A s \in Slots : tasks'[s] # running'.task
      BY <1>1, <1>2, <1>3, SlotFacts
    <2> QED BY <1>1, <1>2, <2>1, <2>2, <2>3, <2>4 DEF Placed
  <1> QED BY <1>1, <1>4, <1>5 DEF SlotInv

\* Poll::Pending: the future goes back to the slot it came from.
LEMMA PutBackKeeps ==
  ASSUME SlotInv, running # Idle, PutBack, UNCHANGED <<free, spawned, finished>>
  PROVE  SlotsSound' /\ Placed' /\ (finished \subseteq spawned)'
  <1> DEFINE r == running.slot
  <1>1. /\ r \in Slots /\ tasks[r] = NoTask /\ running.task \in Task
        /\ running' = Idle /\ tasks' = [tasks EXCEPT ![r] = running.task]
        /\ free' = free /\ spawned' = spawned /\ finished' = finished
    BY SlotFacts, SlotTypes DEF PutBack, SlotInv
  <1> HIDE DEF r
  <1>2. Slots' = Slots /\ \A s \in Slots : tasks'[s] = IF s = r THEN running.task ELSE tasks[s]
    <2>1. tasks \in Seq(Task \cup {NoTask}) /\ r \in 1..Len(tasks)
          /\ running.task \in Task \cup {NoTask}
      BY <1>1 DEF SlotInv, TypeOK, Slots
    <2> QED BY <2>1, <1>1, ExceptSeq DEF Slots
  <1>3. running'.slot = 0 /\ running'.task = NoTask /\ \A s \in Slots : s # 0
    BY <1>1 DEF Idle, NoSlot, Slots
  <1>4. running.task # NoTask
    BY <1>1, NoTaskAssumption
  <1>5. SlotsSound'
    <2>1. ASSUME NEW s \in Slots PROVE Freed(s) <=> (tasks'[s] = NoTask /\ s # running'.slot)
      BY <1>1, <1>2, <1>3, <1>4, SlotFacts DEF r
    <2>2. \A i, j \in 1..Len(free) : free[i] = free[j] => i = j
      BY DEF SlotInv, SlotsSound
    <2> QED BY <1>1, <1>2, <2>1, <2>2, SlotFacts DEF SlotsSound, Freed
  <1>6. Placed'
    <2>1. ASSUME NEW v \in spawned \ finished
          PROVE  running'.task = v \/ \E s \in Slots : tasks'[s] = v
      <3>1. v # NoTask
        BY NoTaskAssumption DEF SlotInv, TypeOK
      <3> QED BY <1>1, <1>2, <3>1, SlotFacts
    <2>2. \A s, u \in Slots : tasks'[s] = tasks'[u] /\ tasks'[s] # NoTask => s = u
      BY <1>2, SlotFacts
    <2>3. \A s \in Slots : tasks'[s] # NoTask => tasks'[s] \in spawned \ finished
      BY <1>2, SlotFacts
    <2> QED BY <1>1, <1>2, <2>1, <2>2, <2>3 DEF Placed
  <1> QED BY <1>1, <1>5, <1>6 DEF SlotInv

\* Poll::Ready: the slot just polled is the only one that becomes free.
LEMMA FinishKeeps ==
  ASSUME SlotInv, TaskFinish
  PROVE  SlotsSound' /\ Placed' /\ (finished \subseteq spawned)'
  <1> DEFINE r == running.slot
             n == Len(free)
  <1>1. /\ running # Idle /\ running' = Idle /\ free' = Append(free, r)
        /\ tasks' = tasks /\ spawned' = spawned /\ finished' = finished \cup {running.task}
    BY DEF TaskFinish, Runs, Busy, Me
  <1>2. r \in Slots /\ tasks[r] = NoTask /\ ~Freed(r) /\ r \in Nat /\ Slots' = Slots
    BY <1>1, SlotFacts DEF Slots
  <1>3. free \in Seq(Nat) /\ n \in Nat
    BY LenProperties DEF SlotInv, TypeOK
  <1> HIDE DEF r
  <1>4. Len(free') = n + 1 /\ free'[n + 1] = r /\ \A i \in 1..n : free'[i] = free[i]
    BY <1>1, <1>2, <1>3, AppendProperties
  <1>5. running'.slot = 0 /\ running'.task = NoTask /\ \A s \in Slots : s # 0
    BY <1>1 DEF Idle, NoSlot, Slots
  <1>6. ASSUME NEW s \in Slots PROVE Freed(s)' <=> (Freed(s) \/ s = r)
    <2>1. n + 1 \in 1..(n + 1) /\ \A i \in 1..n : i \in 1..(n + 1)
      BY <1>3
    <2>2. \A i \in 1..(n + 1) : i \in 1..n \/ i = n + 1
      BY <1>3
    <2> QED BY <1>4, <2>1, <2>2 DEF Freed
  <1>7. ASSUME NEW i \in 1..(n + 1), NEW j \in 1..(n + 1), free'[i] = free'[j] PROVE i = j
    <2>1. (i \in 1..n \/ i = n + 1) /\ (j \in 1..n \/ j = n + 1)
      BY <1>3
    <2>2. \A k \in 1..n : free[k] # r
      BY <1>2 DEF Freed
    <2>3. \A k, l \in 1..n : free[k] = free[l] => k = l
      BY DEF SlotInv, SlotsSound
    <2> QED BY <1>4, <1>7, <2>1, <2>2, <2>3
  <1>8. \A i \in 1..(n + 1) : free'[i] \in Slots
    <2>1. \A i \in 1..(n + 1) : i \in 1..n \/ i = n + 1
      BY <1>3
    <2> QED BY <1>2, <1>4, <2>1, SlotFacts
  <1>9. SlotsSound'
    <2>1. \A s \in Slots : Freed(s)' <=> (tasks'[s] = NoTask /\ s # running'.slot)
      BY <1>1, <1>2, <1>5, <1>6, SlotFacts DEF r
    <2> QED BY <1>1, <1>2, <1>4, <1>7, <1>8, <2>1 DEF SlotsSound, Freed
  <1>10. Placed'
    <2>1. \A v \in spawned' \ finished' : \E s \in Slots : tasks'[s] = v
      BY <1>1, SlotFacts
    <2>2. \A s \in Slots : tasks'[s] # NoTask => tasks'[s] \in spawned' \ finished'
      BY <1>1, SlotFacts
    <2>3. \A s, u \in Slots : tasks'[s] = tasks'[u] /\ tasks'[s] # NoTask => s = u
      BY <1>1, SlotFacts
    <2> QED BY <1>1, <1>2, <2>1, <2>2, <2>3 DEF Placed
  <1>11. finished' \subseteq spawned'
    BY <1>1, SlotFacts DEF SlotInv
  <1> QED BY <1>9, <1>10, <1>11

LEMMA SlotsUntouched ==
  ASSUME SlotInv, UNCHANGED <<tasks, free, running, spawned, finished>>
  PROVE  SlotsSound' /\ Placed' /\ (finished \subseteq spawned)'
  BY DEF SlotInv, SlotsSound, Placed, Slots

LEMMA SlotStep == SlotInv /\ [Next]_vars => SlotInv'
  <1> SUFFICES ASSUME SlotInv, [Next]_vars
               PROVE  SlotsSound' /\ Placed' /\ (finished \subseteq spawned)'
    BY TypeStep DEF SlotInv
  <1> USE DEF core, futs
  <1>1. ASSUME NEW t \in Task, TaskSpawn(t) \/ HostSpawn(t) \/ BlockOn(t)
        PROVE  SlotsSound' /\ Placed' /\ (finished \subseteq spawned)'
    BY <1>1, SpawnKeeps DEF TaskSpawn, HostSpawn, BlockOn
  <1>2. CASE BeginPoll
    BY <1>2, BeginPollKeeps
  <1>3. CASE Park
    BY <1>3, PutBackKeeps DEF Park, Busy
  <1>4. CASE TaskYield
    BY <1>4, PutBackKeeps DEF TaskYield, Runs, Busy
  <1>5. CASE TaskFinish
    BY <1>5, FinishKeeps
  <1>6. ASSUME NEW t \in Task, TaskSend(t) \/ HostSend(t)
        PROVE  UNCHANGED <<tasks, free, running, spawned, finished>>
    BY <1>6 DEF TaskSend, HostSend
  <1>7. ASSUME NEW d \in Durations, TaskNewSleep(d)
        PROVE  UNCHANGED <<tasks, free, running, spawned, finished>>
    BY <1>7 DEF TaskNewSleep
  <1>8. ASSUME NEW W \in SUBSET {"sleep", "recv"}, TaskAwait(W)
        PROVE  UNCHANGED <<tasks, free, running, spawned, finished>>
    BY <1>8 DEF TaskAwait
  <1>9. ASSUME SleepReady \/ RecvReady \/ SkipStale \/ BlockOnReturns
        PROVE  UNCHANGED <<tasks, free, running, spawned, finished>>
    BY <1>9 DEF SleepReady, RecvReady, SkipStale, BlockOnReturns
  <1>10. ASSUME Advance PROVE UNCHANGED <<tasks, free, running, spawned, finished>>
    BY <1>10 DEF Advance, Jump
  <1>11. ASSUME Quiescent \/ EndStep \/ Step
         PROVE  UNCHANGED <<tasks, free, running, spawned, finished>>
    BY <1>11 DEF Quiescent, EndStep, Step
  <1>12. ASSUME NEW target \in 1..UMax, RunUntil(target)
         PROVE  UNCHANGED <<tasks, free, running, spawned, finished>>
    BY <1>12 DEF RunUntil
  <1>13. ASSUME UNCHANGED vars PROVE UNCHANGED <<tasks, free, running, spawned, finished>>
    BY <1>13 DEF vars
  <1> QED
    BY <1>1, <1>2, <1>3, <1>4, <1>5, <1>6, <1>7, <1>8, <1>9, <1>10, <1>11, <1>12, <1>13,
       SlotsUntouched DEF Next, TaskStep, DriverStep, HostStep, Panicked

LEMMA SlotInit == Init => SlotInv
  <1> SUFFICES ASSUME Init PROVE SlotInv
    OBVIOUS
  <1>1. Len(tasks) = 0 /\ Len(free) = 0 /\ running = Idle /\ spawned = {} /\ finished = {}
    BY EmptySeq DEF Init
  <1> QED BY <1>1, TypeInit DEF SlotInv, SlotsSound, Placed, Slots

LEMMA SlotInvariant == Spec => []SlotInv
  BY SlotInit, SlotStep, PTL DEF Spec

\* Recycling a slot never puts two futures in one place: the free stack lists exactly the
\* empty slots nobody is polling, whatever the futures spawn from within their polls.
THEOREM SlotRecycling == Spec => []SlotsSound
  <1>1. SlotInv => SlotsSound
    BY DEF SlotInv
  <1> QED BY <1>1, SlotInvariant, PTL

\* No future is lost or duplicated: each one that was spawned and has not finished is in
\* exactly one slot or is the one being polled.
THEOREM NothingMisplaced == Spec => []Placed
  <1>1. SlotInv => Placed
    BY DEF SlotInv
  <1> QED BY <1>1, SlotInvariant, PTL

\* Both at once: what a reader of Executor::spawn and poll_ready relies on.
THEOREM FuturesHoused == Spec => []Housed
  <1>1. SlotInv => Housed
    BY DEF SlotInv, Housed
  <1> QED BY <1>1, SlotInvariant, PTL

-----------------------------------------------------------------------------
(* The heap and the clock.                                                 *)

LEMMA AheadStep == TypeOK /\ TimersAhead /\ [Next]_vars => TimersAhead'
  <1> SUFFICES ASSUME TypeOK, TimersAhead, [Next]_vars PROVE TimersAhead'
    OBVIOUS
  <1> USE DEF core, futs
  <1>1. CASE Park
    <2>1. now' = now
      BY <1>1 DEF Park
    <2>2. CASE "sleep" \in awaits[Me] /\ sleep[Me].state = "new"
      <3> DEFINE e == [deadline |-> sleep[Me].deadline, slot |-> running.slot]
      <3>1. Me \in Task /\ running.slot \in Nat /\ Register(e)
        BY <1>1, <2>2 DEF Park, Busy, TypeOK, Polled, Me
      <3>2. e \in Timer /\ e.deadline = sleep[Me].deadline /\ sleep[Me].deadline \in 0..UMax
        BY <3>1 DEF Timer, TypeOK, DesSleep
      <3>3. e.deadline > now
        BY <1>1, <2>2, <3>2, NumAssumption DEF Park, SleepDue, TypeOK
      <3> HIDE DEF e
      <3>4. \A i \in 1..Len(timers') :
                timers'[i] = e \/ \E j \in 1..Len(timers) : timers'[i] = timers[j]
        BY <3>1, <3>2, RegisterAdds
      <3> QED BY <2>1, <3>3, <3>4 DEF TimersAhead
    <2>3. CASE ~("sleep" \in awaits[Me] /\ sleep[Me].state = "new")
      BY <1>1, <2>1, <2>3 DEF Park, TimersAhead
    <2> QED BY <2>2, <2>3
  <1>2. CASE Advance
    <2>1. PICK k \in 0..Len(timers) :
              DueUpTo(k, JumpTo) /\ timers' = SubSeq(timers, k + 1, Len(timers))
      BY <1>2 DEF Advance, Jump
    <2>2. now' = JumpTo /\ timers \in Seq(Timer) /\ Len(timers) \in Nat
      BY <1>2, LenProperties DEF Advance, Jump, TypeOK
    <2>3. timers' \in Seq(Timer) /\ IsRest(timers', timers, k)
      BY <2>1, <2>2, SuffixSeq, Zenon
    <2>4. ASSUME NEW i \in 1..Len(timers') PROVE timers'[i].deadline > JumpTo
      <3>1. Len(timers') = Len(timers) - k /\ timers'[i] = timers[k + i]
        BY <2>3 DEF IsRest
      <3>2. k + i \in (k + 1)..Len(timers)
        BY <2>2, <3>1
      <3> QED BY <2>1, <3>1, <3>2 DEF DueUpTo
    <2> QED BY <2>2, <2>4 DEF TimersAhead
  <1>3. ASSUME UNCHANGED <<now, timers>> PROVE TimersAhead'
    BY <1>3 DEF TimersAhead
  <1>4. ASSUME NEW t \in Task,
               TaskSpawn(t) \/ TaskSend(t) \/ HostSpawn(t) \/ HostSend(t) \/ BlockOn(t)
        PROVE  UNCHANGED <<now, timers>>
    BY <1>4 DEF TaskSpawn, TaskSend, HostSpawn, HostSend, BlockOn
  <1>5. ASSUME NEW d \in Durations, TaskNewSleep(d) PROVE UNCHANGED <<now, timers>>
    BY <1>5 DEF TaskNewSleep
  <1>6. ASSUME NEW W \in SUBSET {"sleep", "recv"}, TaskAwait(W) PROVE UNCHANGED <<now, timers>>
    BY <1>6 DEF TaskAwait
  <1>7. ASSUME SleepReady \/ RecvReady \/ TaskYield \/ TaskFinish PROVE UNCHANGED <<now, timers>>
    BY <1>7 DEF SleepReady, RecvReady, TaskYield, TaskFinish
  <1>8. ASSUME SkipStale \/ BeginPoll \/ BlockOnReturns \/ Quiescent \/ EndStep \/ Step
        PROVE  UNCHANGED <<now, timers>>
    BY <1>8 DEF SkipStale, BeginPoll, BlockOnReturns, Quiescent, EndStep, Step
  <1>9. ASSUME NEW target \in 1..UMax, RunUntil(target) PROVE UNCHANGED <<now, timers>>
    BY <1>9 DEF RunUntil
  <1>10. ASSUME UNCHANGED vars PROVE UNCHANGED <<now, timers>>
    BY <1>10 DEF vars
  <1> QED
    BY <1>1, <1>2, <1>3, <1>4, <1>5, <1>6, <1>7, <1>8, <1>9, <1>10
       DEF Next, TaskStep, DriverStep, HostStep, Panicked

\* No timer is left behind the clock: whatever deadlines are registered and in whatever order.
THEOREM NoOverdueTimer == Spec => []TimersAhead
  <1>1. Init => TimersAhead
    BY EmptySeq DEF Init, TimersAhead
  <1> QED BY <1>1, AheadStep, TypeCorrect, PTL DEF Spec

-----------------------------------------------------------------------------
(* The invariant, one slot and one future at a time.                       *)

TimerFor(s, d) == \E i \in 1..Len(timers) : timers[i] = [deadline |-> d, slot |-> s]

Registered(t) == sleep[t].state = "registered"

\* A registered sleep has its timer in the heap until its deadline.
Timed(s, t) == Registered(t) => (TimerFor(s, sleep[t].deadline) \/ sleep[t].deadline <= now)

WillWake(s, t) ==
    \/ InReady(s)
    \/ /\ awaits[t] # {}
       /\ "sleep" \in awaits[t] => Registered(t) /\ TimerFor(s, sleep[t].deadline)
       /\ "recv" \in awaits[t] => inbox[t] = 0 /\ rxWaker[t] = s

OnTime(s, t) ==
    Registered(t) => sleep[t].deadline >= now /\ (sleep[t].deadline = now => InReady(s))

Parked(s, t) == Timed(s, t) /\ WillWake(s, t) /\ OnTime(s, t)

\* Only an awaited sleep is registered, and one that is awaited exists.
SleepShape ==
    \A t \in Task : /\ Registered(t) => "sleep" \in awaits[t]
                    /\ "sleep" \in awaits[t] => sleep[t].state # "none"
                    /\ t \notin spawned => ~Registered(t)

\* The heap pops in the order of deadlines.
Sorted ==
    \A i, j \in 1..Len(timers) : i <= j => timers[i].deadline <= timers[j].deadline

WakeInv ==
    /\ SlotInv /\ TimersAhead /\ Sorted /\ SleepShape
    /\ \A s \in Slots : tasks[s] # NoTask => Parked(s, tasks[s])
    /\ running # Idle => Timed(running.slot, running.task)

-----------------------------------------------------------------------------
(* The heap stays sorted.                                                  *)

LEMMA RegisterSorts ==
  ASSUME TypeOK, Sorted, NEW e \in Timer, Register(e) PROVE Sorted'
  <1>1. PICK k \in 0..Len(timers) : /\ DueUpTo(k, e.deadline)
          /\ timers' = InsertAt(timers, k + 1, e)
    BY DEF Register
  <1>2. timers \in Seq(Timer) /\ Len(timers) \in Nat /\ k \in Nat /\ k <= Len(timers)
    BY LenProperties DEF TypeOK
  <1>3. IsInserted(timers', timers, k, e)
    BY <1>1, <1>2, InsertedSeq, Zenon
  <1>4. \A i \in 1..Len(timers) : timers[i].deadline \in Int
    <2>1. \A i \in 1..Len(timers) : timers[i] \in Timer
      BY <1>2, ElementOfSeq
    <2> QED BY <2>1, NumAssumption DEF Timer
  <1>5. e.deadline \in Int
    BY DEF Timer
  <1>6. ASSUME NEW i \in 1..Len(timers'), NEW j \in 1..Len(timers'), i <= j
        PROVE  timers'[i].deadline <= timers'[j].deadline
    <2>0. i \in 1..(Len(timers) + 1) /\ j \in 1..(Len(timers) + 1)
      BY <1>3 DEF IsInserted
    <2>1. CASE j <= k
      <3>1. /\ i \in 1..k /\ j \in 1..k /\ i \in 1..Len(timers) /\ j \in 1..Len(timers)
        BY <1>2, <1>6, <2>0, <2>1
      <3>2. timers'[i] = timers[i] /\ timers'[j] = timers[j]
        BY <3>1, <1>3 DEF IsInserted
      <3> QED BY <3>1, <3>2, <1>6 DEF Sorted
    <2>2. CASE j = k + 1
      <3>1. timers'[j] = e
        BY <2>2, <1>3 DEF IsInserted
      <3>2. CASE i = k + 1
        BY <3>1, <3>2, <2>2, <1>5
      <3>3. CASE i # k + 1
        <4>1. i \in 1..k
          BY <1>2, <1>6, <2>0, <2>2, <3>3
        <4>2. timers'[i] = timers[i] /\ timers[i].deadline <= e.deadline
          BY <4>1, <1>1, <1>3 DEF IsInserted, DueUpTo
        <4> QED BY <4>2, <3>1
      <3> QED BY <3>2, <3>3
    <2>3. CASE j > k + 1
      <3>1. /\ j \in (k + 2)..(Len(timers) + 1) /\ j - 1 \in (k + 1)..Len(timers)
            /\ j - 1 \in 1..Len(timers)
        BY <1>2, <2>0, <2>3
      <3>2. timers'[j] = timers[j - 1] /\ timers[j - 1].deadline > e.deadline
        BY <3>1, <1>1, <1>3 DEF IsInserted, DueUpTo
      <3>3. CASE i <= k
        <4>1. i \in 1..k /\ i \in 1..Len(timers) /\ i <= j - 1
          BY <1>2, <2>0, <2>3, <3>3
        <4>2. timers'[i] = timers[i]
          BY <4>1, <1>3 DEF IsInserted
        <4> QED BY <4>1, <4>2, <3>1, <3>2 DEF Sorted
      <3>4. CASE i = k + 1
        <4>1. timers'[i] = e
          BY <3>4, <1>3 DEF IsInserted
        <4> QED BY <4>1, <3>1, <3>2, <1>4, <1>5
      <3>5. CASE i > k + 1
        <4>1. /\ i \in (k + 2)..(Len(timers) + 1) /\ i - 1 \in 1..Len(timers) /\ i - 1 <= j - 1
          BY <1>2, <1>6, <2>0, <3>5
        <4>2. timers'[i] = timers[i - 1]
          BY <4>1, <1>3 DEF IsInserted
        <4> QED BY <4>1, <4>2, <3>1, <3>2 DEF Sorted
      <3> QED BY <3>3, <3>4, <3>5, <1>2, <2>0
    <2> QED BY <2>1, <2>2, <2>3, <1>2, <2>0
  <1> QED BY <1>6 DEF Sorted

LEMMA JumpSorts == ASSUME TypeOK, Sorted, Jump PROVE Sorted'
  <1>1. PICK k \in 0..Len(timers) : timers' = SubSeq(timers, k + 1, Len(timers))
    BY DEF Jump
  <1>2. timers \in Seq(Timer) /\ Len(timers) \in Nat /\ k \in Nat /\ k <= Len(timers)
    BY LenProperties DEF TypeOK
  <1>3. IsRest(timers', timers, k)
    BY <1>1, <1>2, SuffixSeq, Zenon
  <1>4. ASSUME NEW i \in 1..Len(timers'), NEW j \in 1..Len(timers'), i <= j
        PROVE  timers'[i].deadline <= timers'[j].deadline
    <2>1. /\ timers'[i] = timers[k + i] /\ timers'[j] = timers[k + j]
          /\ Len(timers') = Len(timers) - k
      BY <1>3 DEF IsRest
    <2>2. k + i \in 1..Len(timers) /\ k + j \in 1..Len(timers) /\ k + i <= k + j
      BY <1>2, <1>4, <2>1
    <2> QED BY <2>1, <2>2 DEF Sorted
  <1> QED BY <1>4 DEF Sorted

-----------------------------------------------------------------------------
(* The ready queue.                                                        *)

LEMMA AppendReady ==
  ASSUME TypeOK, NEW id \in Nat, ready' = Append(ready, id)
  PROVE  InReady(id)' /\ \A s \in Nat : InReady(s) => InReady(s)'
  <1>1. ready \in Seq(Nat) /\ Len(ready) \in Nat
    BY LenProperties DEF TypeOK
  <1>2. /\ Len(ready') = Len(ready) + 1 /\ ready'[Len(ready) + 1] = id
        /\ \A i \in 1..Len(ready) : ready'[i] = ready[i]
    BY <1>1, AppendProperties
  <1>3. Len(ready) + 1 \in 1..Len(ready') /\ \A i \in 1..Len(ready) : i \in 1..Len(ready')
    BY <1>1, <1>2
  <1> QED BY <1>2, <1>3 DEF InReady

LEMMA PopReady ==
  ASSUME TypeOK, ready # <<>>, ready' = Tail(ready)
  PROVE  \A s \in Nat : s # Head(ready) /\ InReady(s) => InReady(s)'
  <1>1. ready \in Seq(Nat) /\ Len(ready) \in Nat
    BY LenProperties DEF TypeOK
  <1>2. /\ Len(ready') = Len(ready) - 1 /\ Head(ready) = ready[1]
        /\ \A i \in 1..Len(ready') : ready'[i] = ready[i + 1]
    BY <1>1, HeadTailProperties
  <1>3. ASSUME NEW s \in Nat, s # ready[1], NEW i \in 1..Len(ready), ready[i] = s
        PROVE  InReady(s)'
    <2>1. i # 1
      BY <1>3
    <2>2. i - 1 \in 1..Len(ready') /\ (i - 1) + 1 = i
      BY <1>1, <1>2, <2>1
    <2>3. ready'[i - 1] = s
      BY <1>2, <1>3, <2>2
    <2> QED BY <2>2, <2>3 DEF InReady
  <1> QED BY <1>2, <1>3 DEF InReady

-----------------------------------------------------------------------------
(* A parked future whose own state is left alone stays sound: timers and   *)
(* queued wakes may only be added.                                         *)

SameFuture(t) ==
    /\ sleep'[t] = sleep[t] /\ awaits'[t] = awaits[t]
    /\ inbox'[t] = inbox[t] /\ rxWaker'[t] = rxWaker[t]

LEMMA ParkedFrame ==
  ASSUME NEW s, NEW t, Parked(s, t), SameFuture(t), now' = now,
         \A d : TimerFor(s, d) => TimerFor(s, d)', InReady(s) => InReady(s)'
  PROVE  Parked(s, t)'
  BY DEF Parked, Timed, WillWake, OnTime, Registered, SameFuture

LEMMA TimedFrame ==
  ASSUME NEW s, NEW t, Timed(s, t), sleep'[t] = sleep[t], now' = now,
         \A d : TimerFor(s, d) => TimerFor(s, d)'
  PROVE  Timed(s, t)'
  BY DEF Timed, Registered

LEMMA SameTimers == ASSUME timers' = timers PROVE \A s, d : TimerFor(s, d) => TimerFor(s, d)'
  BY DEF TimerFor

\* The part of WakeInv that the lemmas on slots and timers do not give.
Woken == /\ SleepShape
         /\ \A s \in Slots : tasks[s] # NoTask => Parked(s, tasks[s])
         /\ running # Idle => Timed(running.slot, running.task)

LEMMA Facts ==
  ASSUME WakeInv
  PROVE  /\ TypeOK /\ SlotInv /\ SleepShape
         /\ \A s \in Slots : s \in Nat \ {0} /\ tasks[s] \in Task \cup {NoTask}
         /\ \A s \in Slots : tasks[s] # NoTask => tasks[s] \in Task /\ Parked(s, tasks[s])
         /\ running # Idle => /\ running.task \in Task /\ running.slot \in Slots
                              /\ tasks[running.slot] = NoTask
                              /\ Timed(running.slot, running.task)
                              /\ \A s \in Slots : tasks[s] # running.task
  BY SlotTypes, SlotFacts, NoTaskAssumption DEF WakeInv, SlotInv, Slots
-----------------------------------------------------------------------------
(* What each step does to the parked futures.                              *)

LEMMA SpawnWakes ==
  ASSUME WakeInv, NEW t \in Task \ spawned, Spawn(t),
         UNCHANGED <<now, timers, running, sleep, awaits, inbox, rxWaker>>
  PROVE  Woken'
  <1>1. PICK id \in Nat :
            /\ Slots' = Slots \cup {id} /\ tasks'[id] = t
            /\ \A s \in Slots : s # id => tasks'[s] = tasks[s]
            /\ ready' = Append(ready, id)
    BY SpawnFills, Facts
  <1>2. InReady(id)' /\ \A s \in Nat : InReady(s) => InReady(s)'
    BY <1>1, AppendReady, Facts
  <1>3. ~Registered(t) /\ spawned' = spawned \cup {t} /\ timers' = timers
    BY Facts DEF SleepShape, Spawn
  <1>4. SleepShape'
    BY <1>3, Facts DEF SleepShape, Registered
  <1>5. ASSUME NEW s \in Slots', NEW u, u = tasks'[s], u # NoTask PROVE Parked(s, u)'
    <2>1. CASE s = id
      <3>1. u = t /\ ~Registered(u)' /\ InReady(s)'
        BY <2>1, <1>1, <1>2, <1>3, <1>5 DEF Registered
      <3> QED BY <3>1 DEF Parked, Timed, WillWake, OnTime
    <2>2. CASE s # id
      <3>1. s \in Slots /\ u = tasks[s] /\ s \in Nat
        BY <2>2, <1>1, <1>5, Facts
      <3>2. Parked(s, u) /\ u \in Task
        BY <3>1, <1>5, Facts
      <3>3. SameFuture(u)
        BY DEF SameFuture
      <3>4. \A d : TimerFor(s, d) => TimerFor(s, d)'
        BY <1>3, SameTimers
      <3> QED BY <1>2, <3>1, <3>2, <3>3, <3>4, ParkedFrame
    <2> QED BY <2>1, <2>2
  <1>6. running' # Idle => Timed(running.slot, running.task)'
    BY <1>3, Facts DEF Timed, TimerFor, Registered
  <1>7. \A s \in Slots' : tasks'[s] # NoTask => Parked(s, tasks[s])'
    BY <1>5
  <1> QED BY <1>4, <1>6, <1>7 DEF Woken

LEMMA SendWakes ==
  ASSUME WakeInv, NEW t \in Task, Send(t),
         UNCHANGED <<now, tasks, timers, running, sleep, awaits, spawned>>
  PROVE  Woken'
  <1>1. /\ inbox \in [Task -> Nat] /\ rxWaker \in [Task -> Nat]
        /\ inbox' = [inbox EXCEPT ![t] = inbox[t] + 1]
        /\ rxWaker' = [rxWaker EXCEPT ![t] = NoSlot]
    BY Facts DEF Send, TypeOK
  <1>w. PICK w \in Nat : w = rxWaker[t]
    BY <1>1
  <1>2. /\ \A s \in Nat : InReady(s) => InReady(s)'
        /\ w # NoSlot => InReady(w)'
    <2>1. CASE w # NoSlot
      <3>1. ready' = Append(ready, w)
        BY <1>w, <2>1 DEF Send, Wake
      <3> QED BY <3>1, AppendReady, Facts
    <2>2. CASE w = NoSlot
      <3>1. ready' = ready
        BY <1>w, <2>2 DEF Send
      <3> QED BY <2>2, <3>1 DEF InReady
    <2> QED BY <2>1, <2>2
  <1>3. SleepShape'
    BY Facts DEF SleepShape, Registered
  <1>4. ASSUME NEW s \in Slots, tasks[s] # NoTask PROVE Parked(s, tasks[s])'
    <2>1. Parked(s, tasks[s]) /\ tasks[s] \in Task /\ s \in Nat \ {0}
      BY <1>4, Facts
    <2>2. CASE tasks[s] = t
      <3>1. Timed(s, t)' /\ OnTime(s, t)'
        BY <2>1, <2>2, <1>2 DEF Parked, Timed, OnTime, TimerFor, Registered
      <3>2. WillWake(s, t)'
        <4>1. CASE InReady(s)
          BY <4>1, <2>1, <1>2 DEF WillWake
        <4>2. CASE ~InReady(s) /\ "recv" \in awaits[t]
          <5>1. w = s
            BY <1>w, <4>2, <2>1, <2>2 DEF Parked, WillWake
          <5> QED BY <5>1, <2>1, <1>2 DEF WillWake, NoSlot
        <4>3. CASE ~InReady(s) /\ "recv" \notin awaits[t]
          <5>1. /\ awaits[t] # {}
                /\ "sleep" \in awaits[t] => Registered(t) /\ TimerFor(s, sleep[t].deadline)
            BY <4>3, <2>1, <2>2 DEF Parked, WillWake
          <5>2. awaits' = awaits /\ sleep' = sleep /\ timers' = timers
            OBVIOUS
          <5>3. /\ awaits'[t] # {}
                /\ "sleep" \in awaits'[t] => Registered(t)' /\ TimerFor(s, sleep[t].deadline)'
            BY <5>1, <5>2 DEF Registered, TimerFor
          <5> QED BY <4>3, <5>2, <5>3 DEF WillWake
        <4> QED BY <4>1, <4>2, <4>3
      <3> QED BY <3>1, <3>2, <2>2 DEF Parked
    <2>3. CASE tasks[s] # t
      <3>1. SameFuture(tasks[s])
        BY <2>1, <2>3, <1>1 DEF SameFuture
      <3> QED BY <3>1, <2>1, <1>2, ParkedFrame, SameTimers
    <2> QED BY <2>2, <2>3
  <1>5. running # Idle => Timed(running.slot, running.task)'
    BY Facts DEF Timed, TimerFor, Registered
  <1> QED BY <1>3, <1>4, <1>5 DEF Woken, Slots

\* The future being polled changes its own sleep and awaits: no parked one sees it.
LEMMA PolledWakes ==
  ASSUME WakeInv, running # Idle,
         UNCHANGED <<now, tasks, ready, timers, running, rxWaker, spawned>>,
         \A t \in Task : t # Me => SameFuture(t),
         sleep'[Me].state = "registered" => Registered(Me) /\ sleep'[Me] = sleep[Me] /\ "sleep" \in awaits'[Me],
         ("sleep" \in awaits'[Me]) => sleep'[Me].state # "none"
  PROVE  Woken'
  <1>0. Me \in Task
    BY Facts DEF Me
  <1>1. SleepShape'
    <2>1. ASSUME NEW t \in Task PROVE /\ Registered(t)' => "sleep" \in awaits'[t]
                                      /\ "sleep" \in awaits'[t] => sleep'[t].state # "none"
                                      /\ t \notin spawned => ~Registered(t)'
      <3>1. CASE t = Me
        <4>1. Me \in spawned
          BY SlotFacts, Facts DEF Me
        <4> QED BY <3>1, <4>1 DEF Registered
      <3>2. CASE t # Me
        <4>1. SameFuture(t)
          BY <3>2
        <4> QED BY <4>1, Facts DEF SleepShape, SameFuture, Registered
      <3> QED BY <3>1, <3>2
    <2> QED BY <2>1 DEF SleepShape, Registered
  <1>2. ASSUME NEW s \in Slots, tasks[s] # NoTask PROVE Parked(s, tasks[s])'
    <2>1. Parked(s, tasks[s]) /\ tasks[s] \in Task /\ tasks[s] # Me
      BY <1>2, Facts DEF Me
    <2>2. SameFuture(tasks[s])
      BY <2>1
    <2>3. InReady(s) => InReady(s)'
      BY DEF InReady
    <2> QED BY <2>1, <2>2, <2>3, ParkedFrame, SameTimers
  <1>3. Timed(running.slot, running.task)'
    BY Facts DEF Timed, TimerFor, Registered, Me
  <1> QED BY <1>1, <1>2, <1>3 DEF Woken, Slots

LEMMA PutBackSlots ==
  ASSUME SlotInv, running # Idle, PutBack
  PROVE  /\ Slots' = Slots /\ running' = Idle
         /\ \A s \in Slots : tasks'[s] = IF s = running.slot THEN running.task ELSE tasks[s]
  <1>1. /\ tasks \in Seq(Task \cup {NoTask}) /\ running.slot \in 1..Len(tasks)
        /\ running.task \in Task \cup {NoTask}
    BY SlotFacts, SlotTypes DEF SlotInv, TypeOK, Slots
  <1> QED BY <1>1, ExceptSeq DEF PutBack, Slots

LEMMA ParkWakes == ASSUME WakeInv, Park PROVE Woken'
  <1>0. PICK r, t : r = running.slot /\ t = running.task
    OBVIOUS
  <1>1. /\ running # Idle /\ t \in Task /\ r \in Slots /\ tasks[r] = NoTask /\ Timed(r, t)
        /\ \A s \in Slots : tasks[s] # t
    BY <1>0, Facts DEF Park, Busy
  <1>2. /\ awaits[t] # {} /\ ~SleepDue(t) /\ ~RecvDue(t)
        /\ now' = now /\ ready' = ready /\ awaits' = awaits /\ inbox' = inbox
        /\ spawned' = spawned
    BY <1>0 DEF Park, Me
  <1>3. Slots' = Slots /\ running' = Idle /\ \A s \in Slots : tasks'[s] = IF s = r THEN t ELSE tasks[s]
    BY <1>0, <1>1, PutBackSlots, Facts DEF Park
  <1>4. rxWaker' = IF "recv" \in awaits[t] THEN [rxWaker EXCEPT ![t] = r] ELSE rxWaker
    BY <1>0 DEF Park, Me
  <1>5. /\ \A s, d : TimerFor(s, d) => TimerFor(s, d)'
        /\ \A u \in Task : u # t => sleep'[u] = sleep[u]
        /\ "sleep" \in awaits[t] =>
              /\ Registered(t)' /\ sleep'[t].deadline = sleep[t].deadline
              /\ sleep[t].deadline > now /\ TimerFor(r, sleep[t].deadline)'
        /\ "sleep" \notin awaits[t] => sleep'[t] = sleep[t]
    <2>1. sleep \in [Task -> DesSleep] /\ sleep[t].deadline \in 0..UMax /\ now \in 0..UMax
      BY <1>1, Facts DEF TypeOK, DesSleep
    <2>2. "sleep" \in awaits[t] => sleep[t].deadline > now
      BY <1>2, <2>1, NumAssumption DEF SleepDue
    <2>3. CASE "sleep" \in awaits[t] /\ sleep[t].state = "new"
      <3> DEFINE e == [deadline |-> sleep[t].deadline, slot |-> r]
      <3>1. Register(e) /\ sleep' = [sleep EXCEPT ![t].state = "registered"]
        BY <1>0, <2>3 DEF Park, Me
      <3>2. e \in Timer
        BY <1>1, <2>1, Facts DEF Timer
      <3>3. PICK d : d = sleep[t].deadline
        OBVIOUS
      <3>4. /\ \A j \in 1..Len(timers) : \E i \in 1..Len(timers') : timers'[i] = timers[j]
            /\ \E i \in 1..Len(timers') : timers'[i] = [deadline |-> d, slot |-> r]
        BY <3>1, <3>2, <3>3, RegisterAdds, Facts
      <3>5. (\A s, x : TimerFor(s, x) => TimerFor(s, x)') /\ TimerFor(r, d)'
        BY <3>4 DEF TimerFor
      <3>6. /\ sleep'[t].state = "registered" /\ sleep'[t].deadline = d
            /\ \A u \in Task : u # t => sleep'[u] = sleep[u]
        BY <1>1, <2>1, <3>1, <3>3 DEF DesSleep
      <3> HIDE DEF e
      <3> QED BY <2>2, <2>3, <3>3, <3>5, <3>6 DEF Registered, TimerFor
    <2>4. CASE ~("sleep" \in awaits[t] /\ sleep[t].state = "new")
      <3>1. timers' = timers /\ sleep' = sleep
        BY <1>0, <2>4 DEF Park, Me
      <3>2. "sleep" \in awaits[t] => Registered(t)
        BY <1>1, <2>1, <2>4, Facts DEF SleepShape, Registered, DesSleep
      <3>3. "sleep" \in awaits[t] => TimerFor(r, sleep[t].deadline)
        BY <1>1, <2>1, <2>2, <3>2, NumAssumption DEF Timed
      <3> QED BY <2>2, <3>1, <3>2, <3>3 DEF TimerFor, Registered
    <2> QED BY <2>3, <2>4
  <1>6. SleepShape'
    <2>1. ASSUME NEW u \in Task PROVE /\ Registered(u)' => "sleep" \in awaits[u]
                                      /\ "sleep" \in awaits[u] => sleep'[u].state # "none"
                                      /\ u \notin spawned => ~Registered(u)'
      <3>1. CASE u = t
        <4>1. u \in spawned
          BY <3>1, <1>0, <1>1, SlotFacts, Facts
        <4>2. CASE "sleep" \in awaits[t]
          BY <3>1, <4>1, <4>2, <1>5 DEF Registered
        <4>3. CASE "sleep" \notin awaits[t]
          BY <1>1, <3>1, <4>1, <4>3, <1>5, Facts DEF SleepShape, Registered
        <4> QED BY <4>2, <4>3
      <3>2. CASE u # t
        BY <3>2, <1>5, Facts DEF SleepShape, Registered
      <3> QED BY <3>1, <3>2
    <2> QED BY <2>1, <1>2 DEF SleepShape, Registered
  <1>7. ASSUME NEW s \in Slots, NEW u, u = tasks'[s], u # NoTask PROVE Parked(s, u)'
    <2>1. CASE s = r
      <3>1. u = t
        BY <2>1, <1>3, <1>7
      <3>2. "recv" \in awaits[t] => inbox[t] = 0 /\ rxWaker'[t] = r
        <4>1. inbox[t] \in Nat /\ rxWaker \in [Task -> Nat]
          BY <1>1, Facts DEF TypeOK
        <4> QED BY <4>1, <1>1, <1>2, <1>4 DEF RecvDue
      <3>3. WillWake(r, t)'
        BY <1>2, <1>5, <3>2 DEF WillWake, Registered, TimerFor
      <3>4. sleep[t].deadline \in Int /\ now \in Int
        BY <1>1, NumAssumption, Facts DEF TypeOK, DesSleep
      <3>5. Registered(t)' => "sleep" \in awaits[t]
        BY <1>1, <1>2, <1>6 DEF SleepShape
      <3>6. Timed(r, t)' /\ OnTime(r, t)'
        BY <1>2, <1>5, <3>4, <3>5 DEF Timed, OnTime, TimerFor
      <3> QED BY <2>1, <3>1, <3>3, <3>6 DEF Parked
    <2>2. CASE s # r
      <3>1. u = tasks[s] /\ Parked(s, u) /\ u \in Task /\ u # t
        BY <2>2, <1>1, <1>3, <1>7, Facts
      <3>2. SameFuture(u)
        BY <3>1, <1>2, <1>4, <1>5, Facts DEF SameFuture, TypeOK
      <3>3. InReady(s) => InReady(s)'
        BY <1>2 DEF InReady
      <3> QED BY <3>1, <3>2, <3>3, <1>2, <1>5, ParkedFrame
    <2> QED BY <2>1, <2>2
  <1>8. \A s \in Slots' : tasks'[s] # NoTask => Parked(s, tasks[s])'
    BY <1>3, <1>7
  <1> QED BY <1>3, <1>6, <1>8 DEF Woken

LEMMA YieldWakes == ASSUME WakeInv, TaskYield PROVE Woken'
  <1>0. PICK r, t : r = running.slot /\ t = running.task
    OBVIOUS
  <1>1. /\ running # Idle /\ t \in Task /\ r \in Slots /\ r \in Nat /\ awaits[t] = {}
        /\ ~Registered(t)
    BY <1>0, Facts DEF TaskYield, Runs, Busy, SleepShape
  <1>2. UNCHANGED <<now, timers, sleep, awaits, inbox, rxWaker, spawned>>
    BY DEF TaskYield, futs
  <1>3. Slots' = Slots /\ running' = Idle /\ \A s \in Slots : tasks'[s] = IF s = r THEN t ELSE tasks[s]
    BY <1>0, <1>1, PutBackSlots, Facts DEF TaskYield
  <1>4. InReady(r)' /\ \A s \in Nat : InReady(s) => InReady(s)'
    <2>1. ready' = Append(ready, r)
      BY <1>0 DEF TaskYield, Wake
    <2> QED BY <2>1, <1>1, AppendReady, Facts
  <1>5. ASSUME NEW s \in Slots, NEW u, u = tasks'[s], u # NoTask PROVE Parked(s, u)'
    <2>1. CASE s = r
      <3>1. u = t /\ ~Registered(u)'
        BY <2>1, <1>1, <1>2, <1>3, <1>5 DEF Registered
      <3> QED BY <2>1, <3>1, <1>4 DEF Parked, Timed, WillWake, OnTime
    <2>2. CASE s # r
      <3>1. u = tasks[s] /\ Parked(s, u) /\ s \in Nat
        BY <2>2, <1>3, <1>5, Facts
      <3>2. SameFuture(u) /\ timers' = timers /\ now' = now
        BY <1>2 DEF SameFuture
      <3> QED BY <3>1, <3>2, <1>4, ParkedFrame, SameTimers
    <2> QED BY <2>1, <2>2
  <1>6. \A s \in Slots' : tasks'[s] # NoTask => Parked(s, tasks[s])'
    BY <1>3, <1>5
  <1>7. SleepShape'
    BY <1>2, Facts DEF SleepShape, Registered
  <1> QED BY <1>3, <1>6, <1>7 DEF Woken

LEMMA FinishWakes == ASSUME WakeInv, TaskFinish PROVE Woken'
  <1>0. PICK t : t = running.task
    OBVIOUS
  <1>1. /\ running # Idle /\ t \in Task /\ running' = Idle
        /\ sleep' = [sleep EXCEPT ![t] = NoSleep] /\ rxWaker' = [rxWaker EXCEPT ![t] = NoSlot]
        /\ awaits[t] = {} /\ \A s \in Slots : tasks[s] # t
    BY <1>0, Facts DEF TaskFinish, Runs, Busy, Me
  <1>2. UNCHANGED <<now, tasks, ready, timers, awaits, inbox, spawned>>
    BY DEF TaskFinish
  <1>3. ASSUME NEW u \in Task, u # t PROVE SameFuture(u)
    BY <1>1, <1>2, <1>3, Facts DEF SameFuture, TypeOK
  <1>4. SleepShape'
    <2>1. ~Registered(t)'
      BY <1>1, Facts DEF TypeOK, Registered, NoSleep
    <2>2. ASSUME NEW u \in Task PROVE /\ Registered(u)' => "sleep" \in awaits[u]
                                      /\ "sleep" \in awaits[u] => sleep'[u].state # "none"
                                      /\ u \notin spawned => ~Registered(u)'
      <3>1. CASE u = t
        BY <3>1, <2>1, <1>1
      <3>2. CASE u # t
        <4>1. sleep'[u] = sleep[u]
          BY <3>2, <1>3 DEF SameFuture
        <4> QED BY <4>1, Facts DEF SleepShape, Registered
      <3> QED BY <3>1, <3>2
    <2> QED BY <2>2, <1>2 DEF SleepShape
  <1>5. ASSUME NEW s \in Slots, NEW u, u = tasks[s], u # NoTask PROVE Parked(s, u)'
    <2>1. Parked(s, u) /\ u \in Task /\ u # t
      BY <1>1, <1>5, Facts
    <2>2. InReady(s) => InReady(s)'
      BY <1>2 DEF InReady
    <2>3. SameFuture(u) /\ timers' = timers /\ now' = now
      BY <2>1, <1>2, <1>3
    <2> QED BY <2>1, <2>2, <2>3, ParkedFrame, SameTimers
  <1>6. \A s \in Slots' : tasks'[s] # NoTask => Parked(s, tasks[s])'
    BY <1>2, <1>5 DEF Slots
  <1> QED BY <1>1, <1>4, <1>6 DEF Woken

LEMMA SkipWakes == ASSUME WakeInv, SkipStale PROVE Woken'
  <1>1. /\ UNCHANGED <<now, tasks, timers, running, sleep, awaits, inbox, rxWaker, spawned>>
        /\ ready # <<>> /\ ready' = Tail(ready)
        /\ \A s \in Slots : tasks[s] # NoTask => s # Head(ready)
    BY DEF SkipStale, futs
  <1>2. ASSUME NEW s \in Slots, NEW u, u = tasks[s], u # NoTask PROVE Parked(s, u)'
    <2>1. Parked(s, u) /\ s \in Nat /\ s # Head(ready)
      BY <1>1, <1>2, Facts
    <2>2. InReady(s) => InReady(s)'
      BY <1>1, <2>1, PopReady, Facts
    <2>3. SameFuture(u)
      BY <1>1 DEF SameFuture
    <2> QED BY <1>1, <2>1, <2>2, <2>3, ParkedFrame, SameTimers
  <1>3. \A s \in Slots' : tasks'[s] # NoTask => Parked(s, tasks[s])'
    BY <1>1, <1>2 DEF Slots
  <1>4. SleepShape'
    BY <1>1, Facts DEF SleepShape, Registered
  <1>5. running' # Idle => Timed(running.slot, running.task)'
    BY <1>1, Facts DEF Timed, TimerFor, Registered
  <1> QED BY <1>3, <1>4, <1>5 DEF Woken

LEMMA BeginPollWakes == ASSUME WakeInv, BeginPoll PROVE Woken'
  <1>0. PICK h, t : h = Head(ready) /\ t = tasks[h]
    OBVIOUS
  <1>1. /\ h \in Slots /\ t # NoTask /\ ready # <<>> /\ ready' = Tail(ready)
        /\ running' = [slot |-> h, task |-> t] /\ tasks' = [tasks EXCEPT ![h] = NoTask]
        /\ UNCHANGED <<now, timers, sleep, awaits, inbox, rxWaker, spawned>>
    BY <1>0 DEF BeginPoll, futs
  <1>2. Slots' = Slots /\ \A s \in Slots : tasks'[s] = IF s = h THEN NoTask ELSE tasks[s]
    <2>1. tasks \in Seq(Task \cup {NoTask}) /\ h \in 1..Len(tasks) /\ NoTask \in Task \cup {NoTask}
      BY <1>1, Facts DEF TypeOK, Slots
    <2> QED BY <2>1, <1>1, ExceptSeq DEF Slots
  <1>3. ASSUME NEW s \in Slots, NEW u, u = tasks'[s], u # NoTask PROVE Parked(s, u)'
    <2>1. u = tasks[s] /\ Parked(s, u) /\ s \in Nat /\ s # Head(ready)
      BY <1>0, <1>2, <1>3, Facts
    <2>2. InReady(s) => InReady(s)'
      BY <1>1, <2>1, PopReady, Facts
    <2>3. SameFuture(u)
      BY <1>1 DEF SameFuture
    <2> QED BY <1>1, <2>1, <2>2, <2>3, ParkedFrame, SameTimers
  <1>4. \A s \in Slots' : tasks'[s] # NoTask => Parked(s, tasks[s])'
    BY <1>2, <1>3
  <1>5. SleepShape'
    BY <1>1, Facts DEF SleepShape, Registered
  <1>6. Timed(running.slot, running.task)'
    <2>1. Timed(h, t)
      BY <1>0, <1>1, Facts DEF Parked
    <2>2. Timed(h, t)'
      BY <1>1, <2>1 DEF Timed, TimerFor, Registered
    <2> QED BY <1>1, <2>2
  <1> QED BY <1>4, <1>5, <1>6 DEF Woken

\* The clock jumps only when nobody is queued: every parked sleep has its timer in the heap,
\* and those that are due are popped and woken.
LEMMA AdvanceWakes == ASSUME WakeInv, Advance PROVE Woken'
  <1>1. /\ UNCHANGED <<tasks, running, sleep, awaits, inbox, rxWaker, spawned>>
        /\ running = Idle /\ ready = <<>> /\ timers # <<>> /\ now' = JumpTo
    BY DEF Advance, Drained, Jump, futs
  <1>2. PICK k \in 0..Len(timers) :
          /\ DueUpTo(k, JumpTo)
          /\ timers' = SubSeq(timers, k + 1, Len(timers))
          /\ ready' = ready \o [i \in 1..k |-> timers[i].slot]
    BY DEF Advance, Jump
  <1>3. timers \in Seq(Timer) /\ Len(timers) \in Nat /\ k \in Nat /\ k <= Len(timers)
    BY LenProperties, Facts DEF TypeOK
  <1>4. \A i \in 1..Len(timers) : timers[i] \in Timer
    BY <1>3, ElementOfSeq
  <1>5. /\ now \in Int /\ JumpTo \in Int /\ now <= JumpTo
        /\ \A i \in 1..Len(timers) : timers[i].deadline \in Int /\ timers[i].deadline >= JumpTo
    <2>1. 1 \in 1..Len(timers)
      BY <1>1, <1>3, EmptySeq
    <2>2. \A i \in 1..Len(timers) : timers[i].deadline \in Int
      BY <1>4, NumAssumption DEF Timer
    <2>3. \A i \in 1..Len(timers) : timers[i].deadline >= timers[1].deadline
      BY <2>1, <2>2, <1>3 DEF WakeInv, Sorted
    <2>4. timers[1].deadline > now /\ now \in Int
      BY <2>1, Facts, NumAssumption DEF WakeInv, TimersAhead, TypeOK
    <2> QED BY <2>1, <2>2, <2>3, <2>4 DEF JumpTo
  <1>6. IsRest(timers', timers, k)
    BY <1>2, <1>3, SuffixSeq, Zenon
  <1>7. ASSUME NEW i \in 1..k, NEW x, x = timers[i].slot PROVE InReady(x)'
    <2>1. ready' = [j \in 1..k |-> timers[j].slot]
      <3>1. [j \in 1..k |-> timers[j].slot] \in Seq(Nat)
        <4>1. \A j \in 1..k : timers[j].slot \in Nat
          BY <1>3, <1>4 DEF Timer
        <4> QED BY <4>1, <1>3
      <3> QED BY <3>1, <1>1, <1>2, ConcatEmptySeq
    <2>2. Len(ready') = k /\ ready'[i] = x
      BY <2>1, <1>3, <1>7
    <2> QED BY <2>2 DEF InReady
  <1>8. ASSUME NEW s, NEW d, TimerFor(s, d)
        PROVE  \/ d = JumpTo /\ InReady(s)'
               \/ d > JumpTo /\ TimerFor(s, d)'
    <2>1. PICK i \in 1..Len(timers) : timers[i] = [deadline |-> d, slot |-> s]
      BY <1>8 DEF TimerFor
    <2>2. timers[i].deadline = d /\ timers[i].slot = s /\ d \in Int /\ d >= JumpTo
      BY <2>1, <1>5
    <2>3. CASE i <= k
      <3>1. i \in 1..k /\ d <= JumpTo
        BY <1>2, <1>3, <2>2, <2>3 DEF DueUpTo
      <3> QED BY <3>1, <2>2, <1>5, <1>7
    <2>4. CASE i > k
      <3>1. d > JumpTo
        <4>1. i \in (k + 1)..Len(timers)
          BY <1>3, <2>4
        <4> QED BY <4>1, <1>2, <2>2 DEF DueUpTo
      <3>2. /\ i - k \in 1..(Len(timers) - k) /\ k + (i - k) = i
        BY <1>3, <2>4
      <3>3. i - k \in 1..Len(timers') /\ timers'[i - k] = timers[i]
        BY <3>2, <1>6 DEF IsRest
      <3>4. TimerFor(s, d)'
        BY <3>3, <2>1 DEF TimerFor
      <3> QED BY <3>1, <3>4
    <2> QED BY <2>3, <2>4, <1>3
  <1>9. ASSUME NEW s \in Slots, NEW u, u = tasks[s], u # NoTask PROVE Parked(s, u)'
    <2>1. Parked(s, u) /\ u \in Task
      BY <1>9, Facts
    <2>2. ~InReady(s)
      BY <1>1 DEF InReady
    <2>3. /\ awaits[u] # {}
          /\ "sleep" \in awaits[u] => Registered(u) /\ TimerFor(s, sleep[u].deadline)
          /\ "recv" \in awaits[u] => inbox[u] = 0 /\ rxWaker[u] = s
      BY <2>1, <2>2 DEF Parked, WillWake
    <2>4. Registered(u) => "sleep" \in awaits[u]
      BY <2>1, Facts DEF SleepShape
    <2>5. PICK d : d = sleep[u].deadline
      OBVIOUS
    <2>6. /\ Registered(u)' <=> Registered(u)
          /\ awaits' = awaits /\ inbox' = inbox /\ rxWaker' = rxWaker /\ sleep'[u].deadline = d
      BY <1>1, <2>5 DEF Registered
    <2>7. CASE ~Registered(u)
      BY <2>3, <2>6, <2>7 DEF Parked, Timed, WillWake, OnTime
    <2>8. CASE Registered(u)
      <3>1. \/ d = JumpTo /\ InReady(s)'
            \/ d > JumpTo /\ TimerFor(s, d)'
        BY <2>3, <2>4, <2>5, <2>8, <1>8
      <3>2. CASE d = JumpTo /\ InReady(s)'
        BY <3>2, <2>6, <2>8, <1>1, <1>5 DEF Parked, Timed, WillWake, OnTime
      <3>3. CASE d > JumpTo /\ TimerFor(s, d)'
        <4>1. d \in Int /\ d # JumpTo
          <5>1. d \in Int
            BY <2>1, <2>5, Facts, NumAssumption DEF TypeOK, DesSleep
          <5> QED BY <5>1, <3>3, <1>5
        <4>2. Timed(s, u)' /\ OnTime(s, u)'
          BY <3>3, <4>1, <2>6, <1>1, <1>5 DEF Timed, OnTime, TimerFor
        <4>3. WillWake(s, u)'
          BY <3>3, <2>3, <2>6, <2>8 DEF WillWake, TimerFor
        <4> QED BY <4>2, <4>3 DEF Parked
      <3> QED BY <3>1, <3>2, <3>3
    <2> QED BY <2>7, <2>8
  <1>10. \A s \in Slots' : tasks'[s] # NoTask => Parked(s, tasks[s])'
    BY <1>1, <1>9 DEF Slots
  <1>11. SleepShape'
    BY <1>1, Facts DEF SleepShape, Registered
  <1> QED BY <1>1, <1>10, <1>11 DEF Woken

\* Steps of the driver and the host between polls touch no future.
LEMMA UntouchedWakes ==
  ASSUME WakeInv,
         UNCHANGED <<now, tasks, ready, timers, running, sleep, awaits, inbox, rxWaker, spawned>>
  PROVE  Woken'
  <1>1. ASSUME NEW s \in Slots, NEW u, u = tasks[s], u # NoTask PROVE Parked(s, u)'
    <2>1. Parked(s, u)
      BY <1>1, Facts
    <2> QED BY <2>1 DEF Parked, Timed, WillWake, OnTime, TimerFor, InReady, Registered
  <1>2. \A s \in Slots' : tasks'[s] # NoTask => Parked(s, tasks[s])'
    BY <1>1 DEF Slots
  <1>3. SleepShape'
    BY Facts DEF SleepShape, Registered
  <1>4. running' # Idle => Timed(running.slot, running.task)'
    BY Facts DEF Timed, TimerFor, Registered
  <1> QED BY <1>2, <1>3, <1>4 DEF Woken

LEMMA WakeStep == WakeInv /\ [Next]_vars => WakeInv'
  <1> SUFFICES ASSUME WakeInv, [Next]_vars PROVE WakeInv'
    OBVIOUS
  <1> USE DEF core, futs
  <1>a. SlotInv' /\ TimersAhead'
    BY Facts, SlotStep, AheadStep DEF WakeInv
  <1> SUFFICES Woken' /\ Sorted'
    BY <1>a DEF WakeInv, Woken
  <1>b. ASSUME running # Idle PROVE /\ Me \in Task /\ Me = running.task
                                    /\ sleep \in [Task -> DesSleep]
                                    /\ awaits \in [Task -> SUBSET {"sleep", "recv"}]
                                    /\ Registered(Me) => "sleep" \in awaits[Me]
                                    /\ "sleep" \in awaits[Me] => sleep[Me].state # "none"
    BY <1>b, Facts DEF Me, TypeOK, SleepShape
  <1>1. ASSUME NEW t \in Task, TaskSpawn(t) \/ HostSpawn(t) \/ BlockOn(t) PROVE Woken' /\ Sorted'
    <2>1. /\ t \in Task \ spawned /\ Spawn(t)
          /\ UNCHANGED <<now, timers, running, sleep, awaits, inbox, rxWaker>>
      BY <1>1 DEF TaskSpawn, HostSpawn, BlockOn
    <2> QED BY <2>1, SpawnWakes DEF Sorted, WakeInv
  <1>2. ASSUME NEW t \in Task, TaskSend(t) \/ HostSend(t) PROVE Woken' /\ Sorted'
    <2>1. /\ Send(t)
          /\ UNCHANGED <<now, tasks, timers, running, sleep, awaits, spawned>>
      BY <1>2 DEF TaskSend, HostSend
    <2> QED BY <2>1, SendWakes DEF Sorted, WakeInv
  <1>3. ASSUME NEW d \in Durations, TaskNewSleep(d) PROVE Woken' /\ Sorted'
    <2>1. /\ running # Idle /\ awaits[Me] = {} /\ awaits' = awaits
          /\ sleep' = [sleep EXCEPT ![Me] = [deadline |-> SleepDeadline(d), state |-> "new"]]
          /\ UNCHANGED <<now, tasks, ready, timers, running, inbox, rxWaker, spawned>>
      BY <1>3 DEF TaskNewSleep, Runs, Busy, Me
    <2>2. \A t \in Task : t # Me => SameFuture(t)
      BY <1>b, <2>1 DEF SameFuture
    <2>3. sleep'[Me].state = "new" /\ "sleep" \notin awaits'[Me]
      BY <1>b, <2>1
    <2> QED BY <2>1, <2>2, <2>3, PolledWakes DEF Sorted, WakeInv
  <1>4. ASSUME NEW W \in SUBSET {"sleep", "recv"}, TaskAwait(W) PROVE Woken' /\ Sorted'
    <2>1. /\ running # Idle /\ awaits[Me] = {} /\ awaits' = [awaits EXCEPT ![Me] = W]
          /\ "sleep" \in W => sleep[Me].state # "none"
          /\ UNCHANGED <<now, tasks, ready, timers, running, sleep, inbox, rxWaker, spawned>>
      BY <1>4 DEF TaskAwait, Runs, Busy, Me
    <2>2. \A t \in Task : t # Me => SameFuture(t)
      BY <1>b, <2>1 DEF SameFuture
    <2>3. sleep'[Me].state # "registered" /\ awaits'[Me] = W
      BY <1>b, <2>1 DEF Registered
    <2> QED BY <2>1, <2>2, <2>3, PolledWakes DEF Sorted, WakeInv
  <1>5. CASE SleepReady
    <2>1. /\ running # Idle /\ awaits' = [awaits EXCEPT ![Me] = {}]
          /\ sleep' = [sleep EXCEPT ![Me] = NoSleep]
          /\ UNCHANGED <<now, tasks, ready, timers, running, inbox, rxWaker, spawned>>
      BY <1>5 DEF SleepReady, Busy
    <2>2. \A t \in Task : t # Me => SameFuture(t)
      BY <1>b, <2>1 DEF SameFuture
    <2>3. sleep'[Me].state = "none" /\ awaits'[Me] = {}
      BY <1>b, <2>1 DEF NoSleep
    <2> QED BY <2>1, <2>2, <2>3, PolledWakes DEF Sorted, WakeInv
  <1>6. CASE RecvReady
    <2>1. /\ running # Idle /\ awaits' = [awaits EXCEPT ![Me] = {}]
          /\ inbox' = [inbox EXCEPT ![Me] = inbox[Me] - 1]
          /\ sleep' = IF "sleep" \in awaits[Me] THEN [sleep EXCEPT ![Me] = NoSleep] ELSE sleep
          /\ UNCHANGED <<now, tasks, ready, timers, running, rxWaker, spawned>>
      BY <1>6 DEF RecvReady, Busy
    <2>2. \A t \in Task : t # Me => SameFuture(t)
      BY <1>b, <2>1, Facts DEF SameFuture, TypeOK
    <2>3. sleep'[Me].state # "registered" /\ awaits'[Me] = {}
      BY <1>b, <2>1 DEF NoSleep, Registered
    <2> QED BY <2>1, <2>2, <2>3, PolledWakes DEF Sorted, WakeInv
  <1>7. CASE Park
    <2>1. Sorted'
      <3>1. CASE "sleep" \in awaits[Me] /\ sleep[Me].state = "new"
        <4>1. PICK e : e = [deadline |-> sleep[Me].deadline, slot |-> running.slot]
          OBVIOUS
        <4>2. Register(e)
          BY <1>7, <3>1, <4>1 DEF Park
        <4>3. e \in Timer
          <5>1. running # Idle
            BY <1>7 DEF Park, Busy
          <5>2. sleep[Me].deadline \in 0..UMax /\ running.slot \in Nat
            BY <5>1, <1>b, Facts DEF DesSleep
          <5> QED BY <4>1, <5>2 DEF Timer
        <4> QED BY <4>2, <4>3, RegisterSorts, Facts DEF WakeInv
      <3>2. CASE ~("sleep" \in awaits[Me] /\ sleep[Me].state = "new")
        BY <1>7, <3>2 DEF Park, Sorted, WakeInv
      <3> QED BY <3>1, <3>2
    <2> QED BY <1>7, <2>1, ParkWakes
  <1>8. CASE TaskYield
    BY <1>8, YieldWakes DEF TaskYield, Sorted, WakeInv
  <1>9. CASE TaskFinish
    BY <1>9, FinishWakes DEF TaskFinish, Sorted, WakeInv
  <1>10. CASE SkipStale
    BY <1>10, SkipWakes DEF SkipStale, Sorted, WakeInv
  <1>11. CASE BeginPoll
    BY <1>11, BeginPollWakes DEF BeginPoll, Sorted, WakeInv
  <1>12. CASE Advance
    <2>1. Jump /\ TypeOK /\ Sorted
      BY <1>12, Facts DEF Advance, WakeInv
    <2> QED BY <1>12, <2>1, AdvanceWakes, JumpSorts
  <1>13. ASSUME BlockOnReturns \/ Quiescent \/ EndStep \/ Step PROVE Woken' /\ Sorted'
    BY <1>13, UntouchedWakes DEF BlockOnReturns, Quiescent, EndStep, Step, Sorted, WakeInv
  <1>14. ASSUME NEW target \in 1..UMax, RunUntil(target) PROVE Woken' /\ Sorted'
    BY <1>14, UntouchedWakes DEF RunUntil, Sorted, WakeInv
  <1>15. ASSUME UNCHANGED vars PROVE Woken' /\ Sorted'
    BY <1>15, UntouchedWakes DEF vars, Sorted, WakeInv
  <1> QED BY <1>1, <1>2, <1>3, <1>4, <1>5, <1>6, <1>7, <1>8, <1>9, <1>10, <1>11, <1>12, <1>13,
             <1>14, <1>15 DEF Next, TaskStep, DriverStep, HostStep, Panicked

LEMMA WakeInit == Init => WakeInv
  <1> SUFFICES ASSUME Init PROVE WakeInv
    OBVIOUS
  <1>1. Len(tasks) = 0 /\ Len(timers) = 0 /\ running = Idle
    BY EmptySeq DEF Init
  <1>2. SlotInv
    BY SlotInit
  <1>3. TimersAhead /\ Sorted
    BY <1>1 DEF TimersAhead, Sorted
  <1>4. SleepShape
    BY DEF Init, SleepShape, Registered, NoSleep
  <1> QED BY <1>1, <1>2, <1>3, <1>4 DEF WakeInv, Slots

LEMMA WakeInvariant == Spec => []WakeInv
  BY WakeInit, WakeStep, PTL DEF Spec

\* poll_ready and the wakers lose no wake-up: a parked future is queued, or everything it waits
\* for will queue it, however stale timers and recycled slots mix.
THEOREM NoWakeupIsLost == Spec => []NoLostWakeup
  <1>1. WakeInv => NoLostWakeup
    BY Facts DEF WakeInv, Parked, WillWake, Registered, TimerFor, NoLostWakeup
  <1> QED BY <1>1, WakeInvariant, PTL

\* advance_to_next_event never passes a sleeping future's deadline.
THEOREM SleepsArePunctual == Spec => []Punctual
  <1>1. WakeInv => Punctual
    BY Facts DEF WakeInv, Parked, OnTime, Registered, Punctual
  <1> QED BY <1>1, WakeInvariant, PTL

-----------------------------------------------------------------------------
(* The deadlock panic.                                                     *)

DeadlockInv == DeadlockIsReal /\ (pc = "panic" => running = Idle)

\* At the panic nobody is queued and no timer is left, so who is parked waits for a message.
LEMMA PanicIsTrue ==
  ASSUME WakeInv, Quiescent, call.op = "block_on"
  PROVE  DeadlockIsReal' /\ running' = Idle
  <1>1. /\ running = Idle /\ ready = <<>> /\ timers = <<>> /\ call.root \notin finished
        /\ UNCHANGED <<running, ready, timers, awaits, inbox, spawned, finished, call>>
    BY DEF Quiescent, Drained, RootDone, core, futs, Return
  <1>2. Len(ready) = 0 /\ Len(timers) = 0
    BY <1>1, EmptySeq
  <1>3. ASSUME NEW t \in spawned \ finished PROVE awaits[t] = {"recv"} /\ inbox[t] = 0
    <2>1. running.task # t /\ t \in Task /\ t # NoTask
      BY <1>1, <1>3, Facts, NoTaskAssumption DEF Idle, TypeOK
    <2>2. PICK s \in Slots : tasks[s] = t
      BY <2>1, SlotFacts, Facts
    <2>3. Parked(s, t) /\ ~InReady(s) /\ \A d : ~TimerFor(s, d)
      BY <1>2, <2>1, <2>2, Facts DEF InReady, TimerFor
    <2>4. awaits[t] \in SUBSET {"sleep", "recv"}
      BY <2>1, Facts DEF TypeOK
    <2> QED BY <2>3, <2>4 DEF Parked, WillWake
  <1> QED BY <1>1, <1>3 DEF DeadlockIsReal

LEMMA DeadlockStep == WakeInv /\ DeadlockInv /\ [Next]_vars => DeadlockInv'
  <1> SUFFICES ASSUME WakeInv, DeadlockInv, [Next]_vars, pc' = "panic"
               PROVE  DeadlockIsReal' /\ running' = Idle
    BY DEF DeadlockInv, DeadlockIsReal
  <1> USE DEF core, futs
  <1>1. CASE Quiescent /\ call.op = "block_on"
    BY <1>1, PanicIsTrue
  <1>2. CASE UNCHANGED vars
    BY <1>2 DEF vars, DeadlockInv, DeadlockIsReal
  <1>3. ASSUME TaskStep PROVE FALSE
    <2>1. Busy /\ pc' = pc
      BY <1>3 DEF TaskStep, TaskSpawn, TaskSend, TaskNewSleep, TaskAwait, SleepReady, RecvReady,
         Park, TaskYield, TaskFinish, Runs
    <2> QED BY <2>1 DEF Busy, DeadlockInv
  <1>4. ASSUME SkipStale \/ BeginPoll \/ BlockOnReturns \/ Advance \/ EndStep PROVE FALSE
    BY <1>4 DEF SkipStale, BeginPoll, Polling, BlockOnReturns, Advance, EndStep, Return
  <1>5. ASSUME Quiescent, call.op # "block_on" PROVE FALSE
    BY <1>5 DEF Quiescent, Return
  <1>6. ASSUME HostStep, ~UNCHANGED vars PROVE FALSE
    BY <1>6 DEF HostStep, HostSpawn, HostSend, BlockOn, Step, RunUntil, Panicked
  <1> QED BY <1>1, <1>2, <1>3, <1>4, <1>5, <1>6 DEF Next, DriverStep

\* block_on's deadlock panic is true: everyone who is left waits for a message nobody can send.
THEOREM DeadlocksAreReal == Spec => []DeadlockIsReal
  <1>1. Init => DeadlockInv
    BY DEF Init, DeadlockInv, DeadlockIsReal
  <1>2. DeadlockInv => DeadlockIsReal
    BY DEF DeadlockInv
  <1> QED BY <1>1, <1>2, DeadlockStep, WakeInvariant, PTL DEF Spec
=============================================================================
