------------------------ MODULE TranslatePool_proofs ------------------------
(* Proofs about TranslatePool: its inductive invariant, for any number of   *)
(* items, any requested concurrency and any combination of failures.        *)
EXTENDS TranslatePool, FiniteSetTheorems, TLAPS

LEMMA PoolSizeType == PoolSize \in 1 .. N
BY PoolAssumption DEF PoolSize, Least

LEMMA PosFinite ==
    /\ IsFiniteSet(Pos)
    /\ \A S \in SUBSET Pos : IsFiniteSet(S) /\ Cardinality(S) \in Nat
<1>1. IsFiniteSet(Pos)
  BY FS_Interval, PoolAssumption DEF Pos
<1>2. ASSUME NEW S \in SUBSET Pos PROVE IsFiniteSet(S) /\ Cardinality(S) \in Nat
  BY <1>1, FS_Subset, FS_CardinalityType
<1> QED
  BY <1>1, <1>2

(* While the consumer is open, the cursor is at a position, whose result    *)
(* it holds.                                                                *)
LEMMA ConsumingPosition ==
    ASSUME TypeOK, ConsumedInOrder, ChainSound, consuming
    PROVE  nextEmit \in Pos /\ HasResult(nextEmit)
<1>1. Len(calls) = nextEmit + 1 /\ nextEmit \in Nat
  BY PoolAssumption DEF ConsumedInOrder, ChainSound, TypeOK
<1>2. calls[nextEmit + 1] = nextEmit /\ HasResult(nextEmit)
  <2>1. nextEmit + 1 \in 1 .. Len(calls)
    BY <1>1
  <2>2. calls[nextEmit + 1] = (nextEmit + 1) - 1 /\ HasResult((nextEmit + 1) - 1)
    BY <2>1 DEF ConsumedInOrder
  <2>3. (nextEmit + 1) - 1 = nextEmit
    BY <1>1
  <2> QED
    BY <2>2, <2>3
<1>3. calls[nextEmit + 1] \in Pos
  BY <1>1 DEF TypeOK
<1> QED
  BY <1>2, <1>3

(* What trySchedule does to the job table, whatever it picks: it moves idle *)
(* positions of the window to the gate, and keeps the counters exact.       *)
ScheduledFrom(e, S) ==
    /\ S \in SUBSET Pos
    /\ \A p \in S : job[p] = "idle" /\ p < e + PoolSize
    /\ poolFailure # "none" => S = {}
    /\ job' = [p \in Pos |-> IF p \in S THEN "gate" ELSE job[p]]
    /\ poolFailure' \in {poolFailure, "abort"}
    /\ poolFailure # "none" => poolFailure' = poolFailure
    /\ inFlightCount' = inFlightCount + Cardinality(S)
    /\ ticket' \in [Pos -> Nat]
    /\ nextTicket' \in Nat
    /\ completedJobs' = completedJobs
    /\ runs' = runs

LEMMA ScheduleEffect ==
    ASSUME TypeOK, NEW e \in Nat, TrySchedule(e)
    PROVE  \E S \in SUBSET Pos : ScheduledFrom(e, S)
<1> DEFINE S == IF poolFailure = "none" /\ ~aborted THEN Picked(e) ELSE {}
<1>1. /\ S \in SUBSET Pos
      /\ \A p \in S : job[p] = "idle" /\ p < e + PoolSize
      /\ poolFailure # "none" => S = {}
  BY DEF Picked, Schedulable
<1>2. Cardinality(S) \in Nat /\ \A p \in Pos : Cardinality({q \in S : q < p}) \in Nat
  <2>1. \A p \in Pos : {q \in S : q < p} \in SUBSET Pos
    BY <1>1
  <2> HIDE DEF S
  <2> QED
    BY <1>1, <2>1, PosFinite
<1>3. /\ poolFailure' = IF poolFailure = "none" /\ aborted THEN "abort" ELSE poolFailure
      /\ job' = [p \in Pos |-> IF p \in S THEN "gate" ELSE job[p]]
      /\ inFlightCount' = inFlightCount + Cardinality(S)
      /\ ticket' = [p \in Pos |-> IF p \in S
                                  THEN nextTicket + Cardinality({q \in S : q < p})
                                  ELSE ticket[p]]
      /\ nextTicket' = nextTicket + Cardinality(S)
      /\ completedJobs' = completedJobs
      /\ runs' = runs
  BY DEF TrySchedule
<1> HIDE DEF S
<1>4. ticket' \in [Pos -> Nat] /\ nextTicket' \in Nat
  <2> DEFINE Before(p) == Cardinality({q \in S : q < p})
  <2>1. \A p \in Pos : Before(p) \in Nat
    BY <1>2
  <2>2. ticket' = [p \in Pos |-> IF p \in S THEN nextTicket + Before(p) ELSE ticket[p]]
    BY <1>3
  <2> HIDE DEF Before
  <2>3. ticket' \in [Pos -> Nat]
    BY <2>1, <2>2 DEF TypeOK
  <2>4. nextTicket' \in Nat
    BY <1>2, <1>3 DEF TypeOK
  <2> QED
    BY <2>3, <2>4
<1>5. /\ poolFailure' \in {poolFailure, "abort"}
      /\ poolFailure # "none" => poolFailure' = poolFailure
  BY <1>3
<1>6. ScheduledFrom(e, S)
  BY <1>1, <1>3, <1>4, <1>5 DEF ScheduledFrom
<1> QED
  BY <1>1, <1>6

LEMMA InitInvariant == Init => IInv
<1> SUFFICES ASSUME Init PROVE IInv
  OBVIOUS
<1>1. InFlight = {} /\ {p \in Pos : HasResult(p)} = {}
  BY DEF Init, InFlight, HasResult
<1>2. WindowBound
  BY <1>1, FS_EmptySet DEF Init, WindowBound
<1>3. TypeOK
  <2>1. calls \in Seq(Pos) /\ nextEmit \in 0 .. N
    BY PoolAssumption DEF Init
  <2>2. /\ job \in [Pos -> {"idle", "gate", "running", "done"}]
        /\ ticket \in [Pos -> Nat] /\ runs \in [Pos -> Nat]
    BY DEF Init
  <2>3. /\ aborted \in BOOLEAN /\ consuming \in BOOLEAN
        /\ tailRejected \in BOOLEAN
    BY Zenon DEF Init
  <2>4. /\ nextTicket \in Nat /\ inFlightCount \in Nat /\ completedJobs \in Nat
        /\ enqueued \in Nat /\ drained \in Nat /\ awaited \in Nat /\ spins \in Nat
    BY DEF Init
  <2> QED
    BY <2>1, <2>2, <2>3, <2>4 DEF Init, TypeOK
<1>4. ConsumedInOrder
  BY DEF Init, ConsumedInOrder
<1>5. ~NextIsReady(nextEmit)
  <2>1. nextEmit < N => nextEmit \in Pos
    BY PoolAssumption DEF Init, Pos
  <2> QED
    BY <2>1, PoolAssumption DEF Init, NextIsReady, HasResult
<1>6. TranslatedAtMostOnce /\ FreshUntilScheduled
  BY DEF Init, TranslatedAtMostOnce, FreshUntilScheduled
<1>7. ChainSound
  BY <1>5 DEF Init, ChainSound
<1>8. ExitSound /\ SettledQuiet /\ LongestPrefixDelivered /\ ResolvedIsComplete
  BY DEF Init, ExitSound, SettledQuiet, LongestPrefixDelivered, ResolvedIsComplete
<1> QED
  BY <1>2, <1>3, <1>4, <1>6, <1>7, <1>8 DEF IInv

(* A flush callback either calls the consumer on a position that has its    *)
(* result, or ends.                                                         *)
LEMMA ConsumeOrFinishType ==
    ASSUME TypeOK, NEW e \in Nat, ConsumeOrFinish(e)
    PROVE  /\ calls' \in Seq(Pos)
           /\ consuming' \in BOOLEAN
           /\ drained' \in Nat
<1>1. CASE NextIsReady(e)
  <2>1. e \in Pos
    BY <1>1, PoolAssumption DEF NextIsReady, Pos
  <2>2. calls' = Append(calls, e) /\ consuming' = TRUE /\ drained' = drained
    BY <1>1 DEF ConsumeOrFinish
  <2>3. calls \in Seq(Pos) /\ drained \in Nat
    BY DEF TypeOK
  <2> QED
    BY <2>1, <2>2, <2>3
<1>2. CASE ~NextIsReady(e)
  <2>1. calls' = calls /\ consuming' = FALSE /\ drained' = drained + 1
    BY <1>2 DEF ConsumeOrFinish
  <2>2. calls' \in Seq(Pos) /\ drained' \in Nat
    BY <2>1 DEF TypeOK
  <2>3. consuming' \in BOOLEAN
    BY <2>1, Zenon
  <2> QED
    BY <2>2, <2>3
<1> QED
  BY <1>1, <1>2

-----------------------------------------------------------------------------
(* Every step treats one position's phase in one of five ways.              *)
PhaseMoves ==
    \/ job' = job /\ inFlightCount' = inFlightCount /\ completedJobs' = completedJobs
    \/ \E p \in Pos :
        /\ job[p] = "gate" /\ job' = [job EXCEPT ![p] = "running"]
        /\ inFlightCount' = inFlightCount /\ completedJobs' = completedJobs
    \/ \E p \in Pos :
        /\ job[p] = "running" /\ job' = [job EXCEPT ![p] = "done"]
        /\ inFlightCount' = inFlightCount - 1 /\ completedJobs' = completedJobs + 1
    \/ \E p \in Pos :
        /\ job[p] \in {"gate", "running"} /\ job' = [job EXCEPT ![p] = "idle"]
        /\ inFlightCount' = inFlightCount - 1 /\ completedJobs' = completedJobs
    \/ \E S \in SUBSET Pos : ScheduledFrom(nextEmit', S)

LEMMA PhaseStep == IInv /\ [Next]_vars => PhaseMoves
<1> SUFFICES ASSUME IInv, [Next]_vars PROVE PhaseMoves
  OBVIOUS
<1>0. TypeOK /\ nextEmit \in Nat
  BY PoolAssumption DEF IInv, TypeOK
<1>1. ASSUME NEW p \in Pos, PassGate(p) PROVE PhaseMoves
  BY <1>1 DEF PassGate, IsFirstAtGate, PhaseMoves
<1>2. ASSUME NEW p \in Pos, PassGateAborted(p) PROVE PhaseMoves
  BY <1>2 DEF PassGateAborted, IsFirstAtGate, JobFails, LeaveFlight, PhaseMoves
<1>3. ASSUME NEW p \in Pos, RunResolves(p) PROVE PhaseMoves
  BY <1>3 DEF RunResolves, LeaveFlight, PhaseMoves
<1>4. ASSUME NEW p \in Pos, RunRejects(p) PROVE PhaseMoves
  BY <1>4 DEF RunRejects, JobFails, LeaveFlight, PhaseMoves
<1>5. CASE ConsumerAccepts
  BY <1>0, <1>5, ScheduleEffect DEF ConsumerAccepts, PhaseMoves
<1>6. CASE Begin \/ TailResolves
  BY <1>0, <1>6, ScheduleEffect DEF Begin, TailResolves, PhaseMoves
<1>7. CASE FlushBegins \/ ConsumerRejects \/ Tick \/ TailRejects \/ Finish \/ Abort
           \/ UNCHANGED vars
  BY <1>7 DEF FlushBegins, FlushTurn, ConsumerRejects, Tick, TailRejects, Finish, Abort,
              vars, jobVars, PhaseMoves
<1> QED
  BY <1>1, <1>2, <1>3, <1>4, <1>5, <1>6, <1>7
  DEF Next, JobStep, FlushStep, MainStep

(* A result, once there, stays.                                             *)
LEMMA ResultsStay ==
    ASSUME IInv, [Next]_vars, NEW p \in Pos, HasResult(p)
    PROVE  HasResult(p)'
<1>1. PhaseMoves
  BY PhaseStep
<1> QED
  BY <1>1 DEF PhaseMoves, ScheduledFrom, HasResult, IInv, TypeOK

(* The consumer's cursor never moves back.                                  *)
LEMMA CursorAdvances ==
    ASSUME IInv, [Next]_vars
    PROVE  nextEmit' \in Nat /\ nextEmit <= nextEmit'
<1>0. nextEmit \in Nat
  BY PoolAssumption DEF IInv, TypeOK
<1> QED
  BY <1>0
  DEF Next, JobStep, FlushStep, MainStep, vars, PassGate, PassGateAborted,
      RunResolves, RunRejects, FlushBegins, FlushTurn, ConsumerAccepts, ConsumerRejects,
      Begin, Tick, TailResolves, TailRejects, Finish, Abort

LEMMA WindowStep == IInv /\ [Next]_vars => WindowBound'
<1> SUFFICES ASSUME IInv, [Next]_vars PROVE WindowBound'
  OBVIOUS
<1> DEFINE Done == {p \in Pos : HasResult(p)}
<1>0. /\ TypeOK /\ WindowBound /\ PoolSize \in Nat /\ nextEmit \in Nat
      /\ nextEmit' \in Nat /\ nextEmit <= nextEmit'
  BY CursorAdvances, PoolSizeType, PoolAssumption DEF IInv, TypeOK
<1>1. PhaseMoves
  BY PhaseStep
<1>2. /\ InFlight \in SUBSET Pos /\ Done \in SUBSET Pos
      /\ IsFiniteSet(InFlight) /\ IsFiniteSet(Done)
      /\ Cardinality(InFlight) \in Nat /\ Cardinality(Done) \in Nat
  BY PosFinite DEF InFlight
<1>3. \A p \in Pos : job'[p] # "idle" => p < nextEmit' + PoolSize
  <2> SUFFICES ASSUME NEW p \in Pos, job'[p] # "idle" PROVE p < nextEmit' + PoolSize
    OBVIOUS
  <2>1. CASE job[p] # "idle"
    <3>1. p < nextEmit + PoolSize
      BY <2>1, <1>0 DEF WindowBound
    <3>2. p \in Int
      BY PoolAssumption DEF Pos
    <3>3. /\ nextEmit \in Int /\ nextEmit' \in Int /\ PoolSize \in Int
          /\ nextEmit <= nextEmit'
      BY <1>0
    <3>4. \A a, b, c, d \in Int : a < b + d /\ b <= c => a < c + d
      OBVIOUS
    <3> QED
      BY <3>1, <3>2, <3>3, <3>4, Zenon
  <2>2. CASE job[p] = "idle"
    BY <2>2, <1>0, <1>1 DEF PhaseMoves, ScheduledFrom, TypeOK
  <2> QED
    BY <2>1, <2>2
<1>4. inFlightCount' = Cardinality(InFlight') /\ completedJobs' = Cardinality(Done')
  <2>1. CASE job' = job /\ inFlightCount' = inFlightCount /\ completedJobs' = completedJobs
    BY <2>1, <1>0 DEF WindowBound, InFlight, HasResult
  <2>2. ASSUME NEW p \in Pos, job[p] = "gate", job' = [job EXCEPT ![p] = "running"],
               inFlightCount' = inFlightCount, completedJobs' = completedJobs
        PROVE  inFlightCount' = Cardinality(InFlight') /\ completedJobs' = Cardinality(Done')
    <3>1. InFlight' = InFlight /\ Done' = Done
      BY <2>2, <1>0 DEF InFlight, HasResult, TypeOK
    <3> QED
      BY <3>1, <2>2, <1>0 DEF WindowBound
  <2>3. ASSUME NEW p \in Pos, job[p] = "running", job' = [job EXCEPT ![p] = "done"],
               inFlightCount' = inFlightCount - 1, completedJobs' = completedJobs + 1
        PROVE  inFlightCount' = Cardinality(InFlight') /\ completedJobs' = Cardinality(Done')
    <3>1. InFlight' = InFlight \ {p} /\ p \in InFlight
      BY <2>3, <1>0 DEF InFlight, TypeOK
    <3>2. Done' = Done \cup {p} /\ p \notin Done
      BY <2>3, <1>0 DEF HasResult, TypeOK
    <3>3. Cardinality(InFlight') = Cardinality(InFlight) - 1
      BY <3>1, <1>2, FS_RemoveElement
    <3>4. Cardinality(Done') = Cardinality(Done) + 1
      BY <3>2, <1>2, FS_AddElement
    <3> QED
      BY <3>3, <3>4, <2>3, <1>0 DEF WindowBound
  <2>4. ASSUME NEW p \in Pos, job[p] \in {"gate", "running"},
               job' = [job EXCEPT ![p] = "idle"],
               inFlightCount' = inFlightCount - 1, completedJobs' = completedJobs
        PROVE  inFlightCount' = Cardinality(InFlight') /\ completedJobs' = Cardinality(Done')
    <3>1. InFlight' = InFlight \ {p} /\ p \in InFlight
      BY <2>4, <1>0 DEF InFlight, TypeOK
    <3>2. Done' = Done
      BY <2>4, <1>0 DEF HasResult, TypeOK
    <3>3. Cardinality(InFlight') = Cardinality(InFlight) - 1
      BY <3>1, <1>2, FS_RemoveElement
    <3> QED
      BY <3>2, <3>3, <2>4, <1>0 DEF WindowBound
  <2>5. ASSUME NEW S \in SUBSET Pos, ScheduledFrom(nextEmit', S)
        PROVE  inFlightCount' = Cardinality(InFlight') /\ completedJobs' = Cardinality(Done')
    <3>1. InFlight' = InFlight \cup S /\ InFlight \cap S = {}
      BY <2>5, <1>0 DEF InFlight, TypeOK, ScheduledFrom
    <3>2. Done' = Done
      BY <2>5, <1>0 DEF HasResult, TypeOK, ScheduledFrom
    <3>3. IsFiniteSet(S) /\ Cardinality(S) \in Nat
      BY PosFinite
    <3>4. Cardinality(InFlight') = Cardinality(InFlight) + Cardinality(S)
      <4>1. Cardinality(InFlight \cup S)
              = Cardinality(InFlight) + Cardinality(S) - Cardinality(InFlight \cap S)
        BY <3>3, <1>2, FS_Union
      <4>2. Cardinality(InFlight \cap S) = 0
        BY <3>1, FS_EmptySet
      <4> HIDE DEF Done
      <4> QED
        BY <4>1, <4>2, <3>1, <3>3, <1>2
    <3> QED
      BY <3>2, <3>4, <2>5, <1>0 DEF WindowBound, ScheduledFrom
  <2> QED
    BY <1>1, <2>1, <2>2, <2>3, <2>4, <2>5 DEF PhaseMoves
<1> QED
  BY <1>3, <1>4 DEF WindowBound

LEMMA TypeStep == IInv /\ [Next]_vars => TypeOK'
<1> SUFFICES ASSUME IInv, [Next]_vars PROVE TypeOK'
  OBVIOUS
<1>0. TypeOK /\ nextEmit \in Nat
  BY PoolAssumption DEF IInv, TypeOK
<1>a. inFlightCount' \in Nat
  <2>1. InFlight' \in SUBSET Pos
    BY DEF InFlight
  <2> QED
    BY <2>1, WindowStep, PosFinite DEF WindowBound
<1>1. ASSUME NEW p \in Pos, PassGate(p) PROVE TypeOK'
  BY <1>0, <1>a, <1>1 DEF TypeOK, PassGate, flushVars, mainVars
<1>2. ASSUME NEW p \in Pos, PassGateAborted(p) PROVE TypeOK'
  BY <1>0, <1>a, <1>2 DEF TypeOK, PassGateAborted, JobFails, Blame, EnqueueFlush, LeaveFlight, mainVars
<1>3. ASSUME NEW p \in Pos, RunResolves(p) PROVE TypeOK'
  BY <1>0, <1>a, <1>3 DEF TypeOK, RunResolves, EnqueueFlush, LeaveFlight, mainVars
<1>4. ASSUME NEW p \in Pos, RunRejects(p) PROVE TypeOK'
  BY <1>0, <1>a, <1>4 DEF TypeOK, RunRejects, JobFails, Blame, EnqueueFlush, LeaveFlight, mainVars
<1>5. CASE FlushBegins
  BY <1>0, <1>a, <1>5, ConsumeOrFinishType DEF TypeOK, FlushBegins, FlushTurn, jobVars, mainVars
<1>6. CASE ConsumerAccepts
  <2>1. nextEmit \in Pos /\ nextEmit + 1 \in 0 .. N
    BY <1>0, <1>a, <1>6, ConsumingPosition, PoolAssumption DEF IInv, ConsumerAccepts, Pos
  <2>2. PICK S \in SUBSET Pos : ScheduledFrom(nextEmit + 1, S)
    BY <1>0, <1>a, <1>6, ScheduleEffect DEF ConsumerAccepts
  <2>3. Cardinality(S) \in Nat
    BY PosFinite
  <2>4. calls' \in Seq(Pos) /\ consuming' \in BOOLEAN /\ drained' \in Nat
    BY <1>0, <1>a, <1>6, ConsumeOrFinishType DEF ConsumerAccepts
  <2> QED
    BY <1>0, <1>a, <1>6, <2>1, <2>2, <2>3, <2>4
    DEF TypeOK, ConsumerAccepts, ScheduledFrom, mainVars
<1>7. CASE ConsumerRejects
  BY <1>0, <1>a, <1>7 DEF TypeOK, ConsumerRejects, jobVars, mainVars
<1>8. CASE Begin
  <2>2. PICK S \in SUBSET Pos : ScheduledFrom(nextEmit, S)
    BY <1>0, <1>a, <1>8, ScheduleEffect DEF Begin
  <2>3. Cardinality(S) \in Nat
    BY PosFinite
  <2> QED
    BY <1>0, <1>a, <1>8, <2>2, <2>3
    DEF TypeOK, Begin, ScheduledFrom, LoopHead, flushVars
<1>9. CASE Tick
  BY <1>0, <1>a, <1>9 DEF TypeOK, Tick, LoopHead, jobVars, flushVars
<1>10. CASE TailResolves
  <2>2. PICK S \in SUBSET Pos : ScheduledFrom(nextEmit, S)
    BY <1>0, <1>a, <1>10, ScheduleEffect DEF TailResolves
  <2>3. Cardinality(S) \in Nat
    BY PosFinite
  <2> QED
    BY <1>0, <1>a, <1>10, <2>2, <2>3 DEF TypeOK, TailResolves, ScheduledFrom, flushVars
<1>11. CASE TailRejects
  BY <1>0, <1>a, <1>11 DEF TypeOK, TailRejects, jobVars, flushVars
<1>12. CASE Finish
  BY <1>0, <1>a, <1>12 DEF TypeOK, Finish, Blame, Verdict, jobVars, flushVars
<1>13. CASE Abort
  BY <1>0, <1>a, <1>13 DEF TypeOK, Abort, jobVars, flushVars, mainVars
<1>14. CASE UNCHANGED vars
  BY <1>0, <1>a, <1>14 DEF TypeOK, vars, jobVars, flushVars, mainVars
<1> QED
  BY <1>1, <1>2, <1>3, <1>4, <1>5, <1>6, <1>7, <1>8, <1>9, <1>10, <1>11,
     <1>12, <1>13, <1>14
  DEF Next, JobStep, FlushStep, MainStep

-----------------------------------------------------------------------------
(* Everything handed over so far is the prefix of the positions, with       *)
(* results.                                                                 *)
LEMMA HandedOver ==
    ASSUME IInv, NEW i \in 1 .. Len(calls)
    PROVE  i - 1 \in Pos /\ calls[i] = i - 1 /\ HasResult(i - 1)
<1>1. calls[i] = i - 1 /\ HasResult(i - 1)
  BY DEF IInv, ConsumedInOrder
<1>2. calls[i] \in Pos
  BY DEF IInv, TypeOK
<1> QED
  BY <1>1, <1>2

LEMMA OrderStep == IInv /\ [Next]_vars => ConsumedInOrder'
<1> SUFFICES ASSUME IInv, [Next]_vars PROVE ConsumedInOrder'
  OBVIOUS
<1>0. /\ TypeOK /\ ConsumedInOrder /\ ChainSound /\ nextEmit \in Nat
      /\ Len(calls) \in Nat
  BY PoolAssumption DEF IInv, TypeOK
<1>1. \A i \in 1 .. Len(calls) : calls[i] = i - 1 /\ HasResult(i - 1)'
  BY HandedOver, ResultsStay
<1>2. CASE calls' = calls /\ Len(calls) = nextEmit' + (IF consuming' \/ tailRejected' THEN 1 ELSE 0)
  BY <1>1, <1>2 DEF ConsumedInOrder
<1>3. CASE UNCHANGED <<calls, nextEmit, consuming, tailRejected>>
  BY <1>0, <1>2, <1>3 DEF ConsumedInOrder
<1>4. ASSUME NEW e \in Nat, ConsumeOrFinish(e), e = nextEmit', Len(calls) = e,
             ~tailRejected'
      PROVE  ConsumedInOrder'
  <2>1. CASE NextIsReady(e)
    <3>1. calls' = Append(calls, e) /\ consuming' = TRUE
      BY <1>4, <2>1 DEF ConsumeOrFinish
    <3>2. e \in Pos /\ HasResult(e)'
      BY <2>1, ResultsStay, PoolAssumption DEF NextIsReady, Pos
    <3>3. /\ Len(calls') = e + 1
          /\ \A i \in 1 .. Len(calls) : calls'[i] = calls[i]
          /\ calls'[e + 1] = e
      <4>1. calls \in Seq(Pos)
        BY <1>0 DEF TypeOK
      <4>2. /\ Len(Append(calls, e)) = Len(calls) + 1
            /\ \A i \in 1 .. Len(calls) : Append(calls, e)[i] = calls[i]
            /\ Append(calls, e)[Len(calls) + 1] = e
        BY <4>1, <3>2
      <4> QED
        BY <3>1, <4>2, <1>4
    <3>4. ASSUME NEW i \in 1 .. Len(calls') PROVE calls'[i] = i - 1 /\ HasResult(i - 1)'
      <4>1. CASE i \in 1 .. Len(calls)
        BY <1>1, <3>3, <4>1
      <4>2. CASE i = e + 1
        <5>1. i - 1 = e
          BY <4>2
        <5> QED
          BY <3>2, <3>3, <4>2, <5>1
      <4>3. i \in 1 .. e \/ i = e + 1
        <5>1. i \in 1 .. (e + 1)
          BY <3>3, Zenon
        <5> QED
          BY <5>1
      <4> QED
        BY <1>4, <4>1, <4>2, <4>3
    <3> QED
      BY <1>4, <3>1, <3>3, <3>4 DEF ConsumedInOrder
  <2>2. CASE ~NextIsReady(e)
    <3>1. calls' = calls /\ consuming' = FALSE
      BY <1>4, <2>2 DEF ConsumeOrFinish
    <3>2. Len(calls) = nextEmit' + (IF consuming' \/ tailRejected' THEN 1 ELSE 0)
      <4>1. (IF consuming' \/ tailRejected' THEN 1 ELSE 0) = 0
        BY <1>4, <3>1, Zenon
      <4>2. e + 0 = e
        OBVIOUS
      <4> QED
        BY <1>4, <4>1, <4>2, Zenon
    <3> QED
      BY <1>2, <3>1, <3>2
  <2> QED
    BY <2>1, <2>2
<1>5. CASE FlushBegins
  <2>1. Len(calls) = nextEmit /\ nextEmit' = nextEmit /\ ~tailRejected'
        /\ ConsumeOrFinish(nextEmit)
    BY <1>0, <1>5 DEF FlushBegins, FlushTurn, ConsumedInOrder
  <2> QED
    BY <1>0, <1>4, <2>1
<1>6. CASE ConsumerAccepts
  <2>1. Len(calls) = nextEmit + 1 /\ nextEmit' = nextEmit + 1 /\ ~tailRejected'
        /\ ConsumeOrFinish(nextEmit + 1) /\ nextEmit + 1 \in Nat
    BY <1>0, <1>6 DEF ConsumerAccepts, ConsumedInOrder, ChainSound
  <2> QED
    BY <1>4, <2>1
<1>7. CASE ConsumerRejects
  <2>1. /\ calls' = calls /\ nextEmit' = nextEmit /\ tailRejected' = TRUE
        /\ Len(calls) = nextEmit + 1
    BY <1>0, <1>7 DEF ConsumerRejects, ConsumedInOrder
  <2> QED
    BY <1>2, <2>1
<1>8. CASE \/ \E p \in Pos : JobStep(p)
           \/ MainStep \/ Abort \/ UNCHANGED vars
  <2>1. UNCHANGED <<calls, nextEmit, consuming, tailRejected>>
    BY <1>8
    DEF JobStep, MainStep, PassGate, PassGateAborted, RunResolves, RunRejects,
        Begin, Tick, TailResolves, TailRejects, Finish, Abort, vars, flushVars
  <2> QED
    BY <1>3, <2>1
<1> QED
  BY <1>5, <1>6, <1>7, <1>8 DEF Next, FlushStep

LEMMA OnceStep ==
    IInv /\ [Next]_vars => TranslatedAtMostOnce' /\ FreshUntilScheduled'
<1> SUFFICES ASSUME IInv, [Next]_vars
             PROVE  TranslatedAtMostOnce' /\ FreshUntilScheduled'
  OBVIOUS
<1>0. /\ TypeOK /\ TranslatedAtMostOnce /\ FreshUntilScheduled /\ nextEmit \in Nat
  BY PoolAssumption DEF IInv, TypeOK
<1>1. ASSUME NEW p \in Pos, PassGate(p)
      PROVE  TranslatedAtMostOnce' /\ FreshUntilScheduled'
  BY <1>0, <1>1
  DEF PassGate, IsFirstAtGate, TranslatedAtMostOnce, FreshUntilScheduled, TypeOK
<1>2. ASSUME NEW p \in Pos, PassGateAborted(p) \/ RunRejects(p)
      PROVE  TranslatedAtMostOnce' /\ FreshUntilScheduled'
  <2>1. runs' = runs /\ poolFailure' # "none" /\ job' = [job EXCEPT ![p] = "idle"]
    BY <1>2 DEF PassGateAborted, RunRejects, JobFails, Blame
  <2> QED
    BY <1>0, <2>1 DEF TranslatedAtMostOnce, FreshUntilScheduled, TypeOK
<1>3. ASSUME NEW p \in Pos, RunResolves(p)
      PROVE  TranslatedAtMostOnce' /\ FreshUntilScheduled'
  BY <1>0, <1>3 DEF RunResolves, TranslatedAtMostOnce, FreshUntilScheduled, TypeOK
<1>4. ASSUME NEW e \in Nat, NEW S \in SUBSET Pos, ScheduledFrom(e, S)
      PROVE  TranslatedAtMostOnce' /\ FreshUntilScheduled'
  <2>1. poolFailure' = "none" => poolFailure = "none"
    BY <1>4 DEF ScheduledFrom
  <2>2. \A p \in S : job[p] = "idle" /\ poolFailure = "none"
    BY <1>4 DEF ScheduledFrom
  <2> QED
    BY <1>0, <1>4, <2>1, <2>2
    DEF ScheduledFrom, TranslatedAtMostOnce, FreshUntilScheduled, TypeOK
<1>5. CASE ConsumerAccepts
  BY <1>0, <1>4, <1>5, ScheduleEffect DEF ConsumerAccepts
<1>6. CASE Begin \/ TailResolves
  BY <1>0, <1>4, <1>6, ScheduleEffect DEF Begin, TailResolves
<1>7. CASE FlushBegins \/ ConsumerRejects \/ Tick \/ TailRejects \/ Finish \/ Abort
           \/ UNCHANGED vars
  <2>1. job' = job /\ runs' = runs /\ (poolFailure' = "none" => poolFailure = "none")
    BY <1>7 DEF FlushBegins, FlushTurn, ConsumerRejects, Tick, TailRejects, Finish, Abort,
                Blame, vars, jobVars
  <2> QED
    BY <1>0, <2>1 DEF TranslatedAtMostOnce, FreshUntilScheduled
<1> QED
  BY <1>1, <1>2, <1>3, <1>5, <1>6, <1>7 DEF Next, JobStep, FlushStep, MainStep

(* Only a mapper that resolves makes a new result.                          *)
LEMMA NoNewResult ==
    ASSUME IInv, [Next]_vars, NEW p \in Pos, HasResult(p)',
           \A q \in Pos : ~RunResolves(q)
    PROVE  HasResult(p)
<1>0. TypeOK /\ nextEmit \in Nat
  BY PoolAssumption DEF IInv, TypeOK
<1>1. ASSUME NEW q \in Pos, PassGate(q) \/ PassGateAborted(q) \/ RunRejects(q)
      PROVE  HasResult(p)
  BY <1>0, <1>1 DEF PassGate, PassGateAborted, RunRejects, JobFails, HasResult, TypeOK
<1>2. ASSUME NEW e \in Nat, NEW S \in SUBSET Pos, ScheduledFrom(e, S)
      PROVE  HasResult(p)
  BY <1>0, <1>2 DEF ScheduledFrom, HasResult, TypeOK
<1>3. CASE ConsumerAccepts \/ Begin \/ TailResolves
  BY <1>0, <1>2, <1>3, ScheduleEffect DEF ConsumerAccepts, Begin, TailResolves
<1>4. CASE FlushBegins \/ ConsumerRejects \/ Tick \/ TailRejects \/ Finish \/ Abort
           \/ UNCHANGED vars
  BY <1>4 DEF FlushBegins, FlushTurn, ConsumerRejects, Tick, TailRejects, Finish, Abort, vars,
              jobVars, HasResult
<1> QED
  BY <1>1, <1>3, <1>4 DEF Next, JobStep, FlushStep, MainStep

LEMMA NoNewReady ==
    ASSUME IInv, [Next]_vars, nextEmit' \in Nat, ~NextIsReady(nextEmit'),
           \A q \in Pos : ~RunResolves(q)
    PROVE  ~NextIsReady(nextEmit)'
<1> SUFFICES ASSUME nextEmit' < N PROVE ~HasResult(nextEmit)'
  BY DEF NextIsReady
<1>1. nextEmit' \in Pos
  BY PoolAssumption DEF Pos
<1> QED
  BY <1>1, NoNewResult DEF NextIsReady, HasResult

LEMMA ChainStep == IInv /\ [Next]_vars => ChainSound'
<1> SUFFICES ASSUME IInv, [Next]_vars PROVE ChainSound'
  OBVIOUS
<1>0. /\ ChainSound /\ enqueued \in Nat /\ drained \in Nat /\ nextEmit \in Nat
      /\ nextEmit' \in Nat
  BY CursorAdvances, PoolAssumption DEF IInv, TypeOK
<1>1. ASSUME enqueued' = enqueued + 1,
             UNCHANGED <<drained, consuming, tailRejected>>
      PROVE  ChainSound'
  BY <1>0, <1>1 DEF ChainSound
<1>2. ASSUME NEW p \in Pos, PassGateAborted(p) \/ RunResolves(p) \/ RunRejects(p)
      PROVE  ChainSound'
  BY <1>1, <1>2 DEF PassGateAborted, RunResolves, RunRejects, JobFails, EnqueueFlush, LeaveFlight
<1>3. ASSUME UNCHANGED <<enqueued, drained, consuming, tailRejected, nextEmit>>,
             \A q \in Pos : ~RunResolves(q)
      PROVE  ChainSound'
  BY <1>0, <1>3, NoNewReady DEF ChainSound
<1>4. ASSUME NEW e \in Nat, e = nextEmit', ConsumeOrFinish(e), ~tailRejected',
             drained < enqueued, enqueued' = enqueued, \A q \in Pos : ~RunResolves(q)
      PROVE  ChainSound'
  <2>1. CASE NextIsReady(e)
    <3>1. consuming' = TRUE /\ drained' = drained
      BY <1>4, <2>1 DEF ConsumeOrFinish
    <3> QED
      BY <1>0, <1>4, <3>1 DEF ChainSound
  <2>2. CASE ~NextIsReady(e)
    <3>1. consuming' = FALSE /\ drained' = drained + 1
      BY <1>4, <2>2 DEF ConsumeOrFinish
    <3>2. ~NextIsReady(nextEmit)'
      BY <1>0, <1>4, <2>2, NoNewReady
    <3> QED
      BY <1>0, <1>4, <3>1, <3>2 DEF ChainSound
  <2> QED
    BY <2>1, <2>2
<1>5. ASSUME NEW q \in Pos, RunResolves(q)
      PROVE  enqueued' # enqueued
  BY <1>0, <1>5 DEF RunResolves, EnqueueFlush, LeaveFlight
<1>6. CASE FlushBegins
  <2>1. enqueued' = enqueued /\ ~tailRejected' /\ drained < enqueued
        /\ nextEmit' = nextEmit /\ ConsumeOrFinish(nextEmit)
    BY <1>6 DEF FlushBegins, FlushTurn
  <2> QED
    BY <1>0, <1>4, <1>5, <2>1
<1>7. CASE ConsumerAccepts
  <2>1. enqueued' = enqueued /\ ~tailRejected' /\ drained < enqueued
        /\ nextEmit' = nextEmit + 1 /\ ConsumeOrFinish(nextEmit + 1)
    BY <1>0, <1>7 DEF ConsumerAccepts, ChainSound
  <2> QED
    BY <1>0, <1>4, <1>5, <2>1
<1>8. CASE ConsumerRejects
  <2>1. /\ enqueued' = enqueued /\ drained' = drained /\ consuming' = FALSE
        /\ drained < enqueued
    BY <1>0, <1>8 DEF ConsumerRejects, ChainSound
  <2> QED
    BY <1>0, <2>1 DEF ChainSound
<1>9. CASE \/ \E p \in Pos : PassGate(p)
           \/ MainStep \/ Abort \/ UNCHANGED vars
  <2>1. UNCHANGED <<enqueued, drained, consuming, tailRejected, nextEmit>>
    BY <1>9
    DEF MainStep, PassGate, Begin, Tick, TailResolves, TailRejects, Finish, Abort,
        vars, flushVars
  <2> QED
    BY <1>3, <1>5, <2>1
<1> QED
  BY <1>2, <1>6, <1>7, <1>8, <1>9 DEF Next, JobStep, FlushStep

-----------------------------------------------------------------------------
(* A loop head that leaves for the last await leaves nothing in flight and  *)
(* nothing to schedule.                                                     *)
LEMMA LoopHeadExit ==
    ASSUME IInv, WindowBound', TypeOK', LoopHead, main' = "finalTail",
           nextEmit' = nextEmit, enqueued' = enqueued
    PROVE  /\ InFlight' = {} /\ awaited' = enqueued'
           /\ poolFailure' # "none" \/ nextEmit' = N
<1>1. inFlightCount' = Cardinality(InFlight') /\ IsFiniteSet(InFlight')
      /\ Cardinality(InFlight') \in Nat
  <2>1. InFlight' \in SUBSET Pos
    BY DEF InFlight
  <2> QED
    BY <2>1, PosFinite DEF WindowBound
<1>2. /\ awaited' = enqueued
      /\ \/ ~(nextEmit < N \/ inFlightCount' > 0)
         \/ poolFailure' # "none" /\ inFlightCount' = 0
  BY DEF LoopHead, GivesUp
<1>3. nextEmit \in 0 .. N
  BY DEF IInv, TypeOK
<1>4. inFlightCount' = 0 /\ (poolFailure' # "none" \/ nextEmit = N)
  BY <1>1, <1>2, <1>3, PoolAssumption
<1>5. InFlight' = {}
  BY <1>1, <1>4, FS_EmptySet
<1> QED
  BY <1>2, <1>4, <1>5

(* With nothing in flight and either a failure or no item left, a step of   *)
(* the flush chain starts nothing.                                          *)
LEMMA StaysEmpty ==
    ASSUME IInv, InFlight = {}, poolFailure # "none" \/ nextEmit = N,
           FlushStep
    PROVE  /\ InFlight' = {} /\ enqueued' = enqueued
           /\ UNCHANGED <<poolFailure, mainVars>>
           /\ poolFailure # "none" \/ nextEmit' = N
<1>0. TypeOK /\ ConsumedInOrder /\ ChainSound /\ nextEmit \in Nat
  BY PoolAssumption DEF IInv, TypeOK
<1>1. CASE FlushBegins \/ ConsumerRejects
  BY <1>1 DEF FlushBegins, FlushTurn, ConsumerRejects, jobVars, InFlight
<1>2. CASE ConsumerAccepts
  <2>1. nextEmit # N
    BY <1>0, <1>2, ConsumingPosition, PoolAssumption DEF ConsumerAccepts, Pos
  <2>2. poolFailure # "none"
    BY <2>1
  <2>3. PICK S \in SUBSET Pos : ScheduledFrom(nextEmit + 1, S)
    BY <1>0, <1>2, ScheduleEffect DEF ConsumerAccepts
  <2>4. S = {} /\ poolFailure' = poolFailure
    BY <2>2, <2>3 DEF ScheduledFrom
  <2>5. job' = job
    BY <1>0, <2>3, <2>4 DEF ScheduledFrom, TypeOK
  <2> QED
    BY <1>2, <2>2, <2>4, <2>5 DEF ConsumerAccepts, InFlight
<1> QED
  BY <1>1, <1>2 DEF FlushStep

LEMMA ExitStep == IInv /\ [Next]_vars => ExitSound'
<1> SUFFICES ASSUME IInv, [Next]_vars PROVE ExitSound'
  OBVIOUS
<1>0. TypeOK /\ ExitSound /\ WindowBound' /\ TypeOK'
  BY WindowStep, TypeStep DEF IInv
<1>1. ASSUME NEW p \in Pos, JobStep(p) PROVE ExitSound'
  <2>1. job[p] \in {"gate", "running"} /\ UNCHANGED mainVars
    BY <1>1 DEF JobStep, PassGate, PassGateAborted, RunResolves, RunRejects,
                IsFirstAtGate
  <2>2. p \in InFlight
    BY <2>1 DEF InFlight
  <2>3. main # "finalTail"
    BY <1>0, <2>2 DEF ExitSound
  <2> QED
    BY <1>0, <2>1, <2>3 DEF ExitSound, mainVars
<1>2. CASE FlushStep
  <2>1. UNCHANGED mainVars
    BY <1>2 DEF FlushStep, FlushBegins, FlushTurn, ConsumerAccepts, ConsumerRejects
  <2>2. CASE main = "finalTail"
    BY <1>0, <1>2, <2>1, <2>2, StaysEmpty DEF ExitSound, mainVars
  <2>3. CASE main # "finalTail"
    BY <1>0, <2>1, <2>3 DEF ExitSound, mainVars
  <2> QED
    BY <2>2, <2>3
<1>3. CASE Begin \/ Tick
  <2>1. /\ LoopHead /\ nextEmit' = nextEmit /\ enqueued' = enqueued
        /\ outcome = "pending"
    BY <1>0, <1>3 DEF Begin, Tick, flushVars, ExitSound
  <2>2. main' = "settled" <=> outcome' # "pending"
    BY <2>1 DEF LoopHead
  <2> QED
    BY <1>0, <2>1, <2>2, LoopHeadExit DEF ExitSound
<1>4. CASE TailResolves
  <2>1. /\ outcome' = outcome /\ outcome = "pending" /\ main' \in {"finalTail", "tick"}
        /\ nextEmit' = nextEmit /\ enqueued' = enqueued
    BY <1>0, <1>4 DEF TailResolves, ExitSound, flushVars
  <2>2. CASE main' = "finalTail"
    <3>1. nextEmit >= N /\ inFlightCount' = 0 /\ awaited' = enqueued
      BY <1>4, <2>2 DEF TailResolves
    <3>2. InFlight' \in SUBSET Pos /\ IsFiniteSet(InFlight')
      BY PosFinite DEF InFlight
    <3>3. InFlight' = {}
      BY <1>0, <3>1, <3>2, FS_EmptySet DEF WindowBound
    <3>4. nextEmit' = N
      BY <1>0, <2>1, <3>1, PoolAssumption DEF TypeOK
    <3> QED
      BY <2>1, <2>2, <3>1, <3>3, <3>4 DEF ExitSound
  <2> QED
    BY <2>1, <2>2 DEF ExitSound
<1>5. CASE TailRejects \/ Finish
  BY <1>5 DEF TailRejects, Finish, Verdict, ExitSound
<1>6. CASE Abort \/ UNCHANGED vars
  <2>1. UNCHANGED <<job, main, awaited, enqueued, nextEmit, poolFailure, outcome>>
    BY <1>6 DEF Abort, vars, jobVars, flushVars, mainVars
  <2> QED
    BY <1>0, <2>1 DEF ExitSound, InFlight
<1> QED
  BY <1>1, <1>2, <1>3, <1>4, <1>5, <1>6 DEF Next, MainStep

(* Once the pool has settled without a rejection of the consumer, only the  *)
(* host can move: nothing is left that could.                               *)
LEMMA SettledIsStill ==
    ASSUME IInv, [Next]_vars, outcome \in {"resolved", "rejected"}, ~tailRejected
    PROVE  UNCHANGED <<job, poolFailure, nextEmit, tailRejected, consuming,
                       drained, enqueued, outcome>>
<1>0. /\ main = "settled" /\ InFlight = {} /\ ~consuming /\ drained = enqueued
      /\ enqueued \in Nat
  BY DEF IInv, ExitSound, SettledQuiet, TypeOK
<1>1. ASSUME NEW p \in Pos, JobStep(p) PROVE FALSE
  <2>1. job[p] \in {"gate", "running"}
    BY <1>1 DEF JobStep, PassGate, PassGateAborted, RunResolves, RunRejects,
                IsFirstAtGate
  <2> QED
    BY <1>0, <2>1 DEF InFlight
<1>2. ~FlushStep /\ ~MainStep
  BY <1>0 DEF FlushStep, FlushBegins, FlushTurn, ConsumerAccepts, ConsumerRejects, MainStep,
              Begin, Tick, TailResolves, TailRejects, Finish
<1>3. CASE Abort \/ UNCHANGED vars
  BY <1>3 DEF Abort, vars, jobVars, flushVars, mainVars
<1> QED
  BY <1>1, <1>2, <1>3 DEF Next

(* How the pool settles, other than by a rejection of the consumer.         *)
LEMMA SettlingStep ==
    ASSUME IInv, [Next]_vars, outcome' # outcome, outcome' \in {"resolved", "rejected"},
           ~tailRejected'
    PROVE  Finish
<1>1. ASSUME NEW p \in Pos, JobStep(p) PROVE outcome' = outcome
  BY <1>1 DEF JobStep, PassGate, PassGateAborted, RunResolves, RunRejects, mainVars
<1>2. CASE FlushStep
  BY <1>2 DEF FlushStep, FlushBegins, FlushTurn, ConsumerAccepts, ConsumerRejects, mainVars
<1>3. CASE Begin \/ Tick \/ TailResolves
  BY <1>3 DEF Begin, Tick, TailResolves, LoopHead
<1>4. CASE TailRejects
  BY <1>4 DEF TailRejects, flushVars
<1>5. CASE Abort \/ UNCHANGED vars
  BY <1>5 DEF Abort, vars, mainVars
<1> QED
  BY <1>1, <1>2, <1>3, <1>4, <1>5 DEF Next, MainStep

LEMMA SettledStep == IInv /\ [Next]_vars => SettledQuiet' /\ ResolvedIsComplete'
<1> SUFFICES ASSUME IInv, [Next]_vars PROVE SettledQuiet' /\ ResolvedIsComplete'
  OBVIOUS
<1>0. /\ TypeOK /\ ConsumedInOrder /\ ChainSound /\ ExitSound /\ SettledQuiet
      /\ ResolvedIsComplete
      /\ enqueued \in Nat /\ drained \in Nat
  BY DEF IInv, TypeOK
<1>1. CASE outcome' \notin {"resolved", "rejected"}
  BY <1>1 DEF SettledQuiet, ResolvedIsComplete
<1>2. CASE outcome \in {"resolved", "rejected"} /\ ~tailRejected
  BY <1>0, <1>2, SettledIsStill
  DEF SettledQuiet, ResolvedIsComplete, InFlight, HasResult
<1>3. CASE outcome \in {"resolved", "rejected"} /\ tailRejected
  <2>1. outcome = "rejected" /\ main = "settled"
    BY <1>0, <1>3 DEF ResolvedIsComplete, ExitSound
  <2>2. tailRejected' = TRUE /\ outcome' = outcome
    BY <1>0, <1>3, <2>1
    DEF Next, JobStep, FlushStep, MainStep, vars, jobVars, flushVars, mainVars,
        PassGate, PassGateAborted, RunResolves, RunRejects, FlushBegins,
        ConsumerAccepts, ConsumerRejects, Begin, Tick, TailResolves, TailRejects,
        Finish, Verdict, Abort, ChainSound
  <2> QED
    BY <2>1, <2>2 DEF SettledQuiet, ResolvedIsComplete
<1>4. CASE Finish
  <2>1. /\ main = "finalTail" /\ UNCHANGED <<job, drained, consuming, enqueued>>
        /\ tailRejected' = tailRejected /\ nextEmit' = nextEmit
        /\ drained >= awaited \/ tailRejected
    BY <1>4 DEF Finish, TailSettled, Verdict, jobVars, flushVars
  <2>2. InFlight = {} /\ awaited = enqueued
    BY <1>0, <2>1 DEF ExitSound
  <2>3. ASSUME ~tailRejected PROVE drained = enqueued /\ ~consuming
    BY <1>0, <2>1, <2>2, <2>3 DEF ChainSound
  <2>4. SettledQuiet'
    BY <2>1, <2>2, <2>3 DEF SettledQuiet, InFlight
  <2>5. ASSUME outcome' = "resolved"
        PROVE  /\ nextEmit = N /\ poolFailure' = "none" /\ ~tailRejected
               /\ \A p \in Pos : HasResult(p)
    <3>1. poolFailure' = "none" /\ nextEmit = N
      BY <1>4, <2>5 DEF Finish, Verdict
    <3>2. ~(drained < awaited)
      BY <1>4, <3>1 DEF Finish, Verdict, Blame
    <3>3. ~tailRejected
      BY <1>0, <2>2, <3>2 DEF ChainSound
    <3>4. Len(calls) = N
      <4>1. Len(calls) = nextEmit + 0
        BY <1>0, <2>3, <3>3, Zenon DEF ConsumedInOrder
      <4> QED
        BY <3>1, <4>1, PoolAssumption
    <3>5. ASSUME NEW p \in Pos PROVE HasResult(p)
      <4>1. p + 1 \in 1 .. Len(calls) /\ (p + 1) - 1 = p
        BY <3>4, PoolAssumption DEF Pos
      <4> QED
        BY <4>1, HandedOver
    <3> QED
      BY <3>1, <3>3, <3>5
  <2>6. ResolvedIsComplete'
    BY <2>1, <2>5 DEF ResolvedIsComplete, HasResult
  <2> QED
    BY <2>4, <2>6
<1>5. CASE outcome' # outcome /\ outcome' \in {"resolved", "rejected"} /\ tailRejected' /\ ~Finish
  <2>1. outcome' = "rejected"
    BY <1>5
    DEF Next, JobStep, FlushStep, MainStep, vars, mainVars, PassGate,
        PassGateAborted, RunResolves, RunRejects, FlushBegins, FlushTurn, ConsumerAccepts,
        ConsumerRejects, Begin, Tick, TailResolves, TailRejects, LoopHead, Abort
  <2> QED
    BY <1>5, <2>1 DEF SettledQuiet, ResolvedIsComplete
<1> QED
  BY <1>1, <1>2, <1>3, <1>4, <1>5, SettlingStep

(* The longest prefix was delivered: a consequence of the rest.             *)
LEMMA PrefixFollows ==
    ASSUME TypeOK, ConsumedInOrder, ChainSound, SettledQuiet
    PROVE  LongestPrefixDelivered
<1> SUFFICES ASSUME outcome = "rejected", ~tailRejected
             PROVE  Len(calls) = nextEmit /\ ~NextIsReady(nextEmit)
  BY DEF LongestPrefixDelivered
<1>1. ~consuming /\ drained = enqueued
  BY DEF SettledQuiet
<1>2. Len(calls) = nextEmit + 0
  BY <1>1, Zenon DEF ConsumedInOrder
<1> QED
  BY <1>1, <1>2, PoolAssumption DEF ChainSound, TypeOK

LEMMA InvariantStep == IInv /\ [Next]_vars => IInv'
<1> SUFFICES ASSUME IInv, [Next]_vars PROVE IInv'
  OBVIOUS
<1>1. TypeOK' /\ ConsumedInOrder' /\ WindowBound' /\ ChainSound' /\ ExitSound'
  BY TypeStep, OrderStep, WindowStep, ChainStep, ExitStep
<1>2. TranslatedAtMostOnce' /\ FreshUntilScheduled' /\ SettledQuiet' /\ ResolvedIsComplete'
  BY OnceStep, SettledStep
<1>3. LongestPrefixDelivered'
  BY <1>1, <1>2, PrefixFollows, PTL
<1> QED
  BY <1>1, <1>2, <1>3 DEF IInv

LEMMA Invariance == Spec => []IInv
<1>1. Init => IInv
  BY InitInvariant
<1>2. IInv /\ [Next]_vars => IInv'
  BY InvariantStep
<1> QED
  BY <1>1, <1>2, PTL DEF Spec

(* Every variable of the pool keeps its type: in particular the cursor      *)
(* stays within the items and every position handed over is one of them.    *)
THEOREM TypeCorrect == Spec => []TypeOK
<1>1. IInv => TypeOK
  BY DEF IInv
<1> QED
  BY <1>1, Invariance, PTL

(* onSequential receives the items in order, one at a time, whatever the    *)
(* interleaving of jobs, flush callbacks and main loop.                     *)
THEOREM OrderedConsumption == Spec => []ConsumedInOrder
<1>1. IInv => ConsumedInOrder
  BY DEF IInv
<1> QED
  BY <1>1, Invariance, PTL

(* No job runs ahead of the sliding window, and the pool's counters are the *)
(* numbers of jobs they stand for.                                          *)
THEOREM SlidingWindow == Spec => []WindowBound
<1>1. IInv => WindowBound
  BY DEF IInv
<1> QED
  BY <1>1, Invariance, PTL

(* No item is sent to the provider twice by one pool.                       *)
THEOREM AtMostOnce == Spec => []TranslatedAtMostOnce
<1>1. IInv => TranslatedAtMostOnce
  BY DEF IInv
<1> QED
  BY <1>1, Invariance, PTL

(* The jobs in flight lie in the window of PoolSize positions that starts   *)
(* at the consumer's cursor: the window alone bounds the overlap.           *)
LEMMA OverlapFollows == IInv => OverlapBound
<1> SUFFICES ASSUME IInv PROVE OverlapBound
  OBVIOUS
<1>0. /\ nextEmit \in 0 .. N /\ nextEmit \in Nat /\ PoolSize \in Nat
      /\ PoolSize >= 1 /\ Len(calls) >= nextEmit /\ Len(calls) \in Nat
  BY PoolSizeType, PoolAssumption DEF IInv, TypeOK, ConsumedInOrder
<1>1. ASSUME NEW p \in InFlight PROVE p \in nextEmit .. nextEmit + PoolSize - 1
  <2>1. p \in Pos /\ ~HasResult(p) /\ p \in Int /\ p >= 0
    BY PoolAssumption DEF InFlight, HasResult, Pos
  <2>2. p < nextEmit + PoolSize
    BY DEF InFlight, IInv, WindowBound
  <2>3. ASSUME p < nextEmit PROVE FALSE
    <3>1. p + 1 \in 1 .. Len(calls) /\ (p + 1) - 1 = p
      BY <1>0, <2>1, <2>3
    <3> QED
      BY <2>1, <3>1, HandedOver
  <2> QED
    BY <1>0, <2>1, <2>2, <2>3
<1>2. InFlight \in SUBSET (nextEmit .. nextEmit + PoolSize - 1)
  BY <1>1
<1>3. /\ IsFiniteSet(nextEmit .. nextEmit + PoolSize - 1)
      /\ Cardinality(nextEmit .. nextEmit + PoolSize - 1) = PoolSize
  <2>1. nextEmit \in Int /\ nextEmit + PoolSize - 1 \in Int
        /\ ~(nextEmit > nextEmit + PoolSize - 1)
        /\ (nextEmit + PoolSize - 1) - nextEmit + 1 = PoolSize
    BY <1>0
  <2> QED
    BY <2>1, FS_Interval
<1>4. Cardinality(InFlight) <= Cardinality(nextEmit .. nextEmit + PoolSize - 1)
  BY <1>2, <1>3, FS_Subset
<1> QED
  BY <1>3, <1>4 DEF OverlapBound

(* No more provider requests overlap than the clamped concurrency allows.   *)
THEOREM BoundedOverlap == Spec => []OverlapBound
BY OverlapFollows, Invariance, PTL

(* A pool that settles without a rejection of its consumer leaves nothing   *)
(* running, queued or open.                                                 *)
THEOREM QuietOnceSettled == Spec => []SettledQuiet
<1>1. IInv => SettledQuiet
  BY DEF IInv
<1> QED
  BY <1>1, Invariance, PTL

(* A failed pool has delivered the longest translated prefix.               *)
THEOREM PartialProgressKept == Spec => []LongestPrefixDelivered
<1>1. IInv => LongestPrefixDelivered
  BY DEF IInv
<1> QED
  BY <1>1, Invariance, PTL

(* A pool that resolves has translated and delivered everything.            *)
THEOREM SuccessIsComplete == Spec => []ResolvedIsComplete
<1>1. IInv => ResolvedIsComplete
  BY DEF IInv
<1> QED
  BY <1>1, Invariance, PTL

(* After the host's abort no mapper call starts.                            *)
THEOREM AbortStopsRequests == Spec => NoRunAfterAbort
<1>1. [Next]_vars => [aborted => runs' = runs]_vars
  <2> SUFFICES ASSUME [Next]_vars, aborted PROVE runs' = runs \/ UNCHANGED vars
    BY DEF vars
  <2>1. CASE \E p \in Pos : JobStep(p)
    BY <2>1 DEF JobStep, PassGate, MayCall, PassGateAborted, RunResolves, RunRejects
  <2>2. CASE FlushStep
    BY <2>2 DEF FlushStep, FlushBegins, FlushTurn, ConsumerAccepts, ConsumerRejects,
                TrySchedule, jobVars
  <2>3. CASE MainStep \/ Abort
    BY <2>3 DEF MainStep, Begin, Tick, TailResolves, TailRejects, Finish, Abort,
                TrySchedule, jobVars
  <2> QED
    BY <2>1, <2>2, <2>3 DEF Next
<1> QED
  BY <1>1, PTL DEF Spec, NoRunAfterAbort

-----------------------------------------------------------------------------
(* The pool neither stalls nor ends short, when it tolerates an idle        *)
(* iteration per item: the code tolerates 250,000.                          *)

(* While nothing failed, the position the consumer is owed next is being    *)
(* worked on, or has its result.                                            *)
CursorScheduled ==
    main # "start" /\ poolFailure = "none" /\ nextEmit < N => job[nextEmit] # "idle"

(* Between two idle iterations of the main loop the consumer has accepted   *)
(* an item: the one the first of them found ready.                          *)
SpinInv ==
    /\ main = "start" => spins = 0
    /\ main = "tick" => spins <= nextEmit
    /\ main = "awaitTail" =>
           \/ spins <= nextEmit
           \/ spins = nextEmit + 1 /\ NextIsReady(nextEmit) /\ drained < awaited

(* Everything in flight lies behind the positions that have their results.  *)
LEMMA FlightFrom ==
    ASSUME IInv, NEW e \in Pos, \A p \in Pos : p < e => HasResult(p),
           nextEmit <= e, job[e] = "idle"
    PROVE  inFlightCount < PoolSize
<1>0. /\ nextEmit \in Nat /\ e \in Nat /\ PoolSize \in Nat /\ PoolSize >= 1
      /\ inFlightCount = Cardinality(InFlight) /\ inFlightCount \in Nat
  BY PoolSizeType, PoolAssumption DEF IInv, TypeOK, WindowBound, Pos
<1>1. ASSUME NEW p \in InFlight PROVE p \in e + 1 .. e + PoolSize - 1
  <2>1. p \in Pos /\ ~HasResult(p) /\ job[p] # "idle" /\ p \in Int
    BY PoolAssumption DEF InFlight, HasResult, Pos
  <2>2. p < nextEmit + PoolSize
    BY <2>1 DEF IInv, WindowBound
  <2>3. ~(p < e) /\ p # e
    BY <2>1
  <2> QED
    BY <1>0, <2>1, <2>2, <2>3
<1>2. IsFiniteSet(e + 1 .. e + PoolSize - 1)
      /\ Cardinality(e + 1 .. e + PoolSize - 1) = PoolSize - 1
  <2>1. e + 1 \in Int /\ e + PoolSize - 1 \in Int
        /\ (e + PoolSize - 1) - (e + 1) + 1 = PoolSize - 1
        /\ (e + 1 > e + PoolSize - 1 => PoolSize - 1 = 0)
    BY <1>0
  <2> QED
    BY <2>1, FS_Interval
<1>3. Cardinality(InFlight) <= PoolSize - 1
  <2>1. InFlight \subseteq e + 1 .. e + PoolSize - 1
    BY <1>1
  <2> QED
    BY <1>2, <2>1, FS_Subset
<1> QED
  BY <1>0, <1>3

(* trySchedule never leaves the cursor's position idle unless it fails.     *)
LEMMA ScheduleReaches ==
    ASSUME IInv, NEW e \in Nat, TrySchedule(e), e < N, poolFailure' = "none",
           \A p \in Pos : p < e => HasResult(p), nextEmit <= e
    PROVE  job'[e] # "idle"
<1>1. e \in Pos /\ PoolSize \in Nat /\ PoolSize >= 1
  BY PoolSizeType, PoolAssumption DEF Pos
<1>2. poolFailure = "none" /\ ~aborted
      /\ job' = [p \in Pos |-> IF p \in Picked(e) THEN "gate" ELSE job[p]]
  BY DEF TrySchedule
<1>3. CASE job[e] # "idle"
  BY <1>1, <1>2, <1>3
<1>4. CASE job[e] = "idle"
  <2>1. e \in Schedulable(e)
    BY <1>1, <1>4 DEF Schedulable
  <2>2. {q \in Schedulable(e) : q < e} = {}
    BY DEF Schedulable, HasResult
  <2>3. inFlightCount < PoolSize /\ inFlightCount \in Nat
    BY <1>1, <1>4, FlightFrom DEF IInv, TypeOK
  <2>4. inFlightCount + Cardinality({q \in Schedulable(e) : q < e}) < PoolSize
    BY <2>2, <2>3, FS_EmptySet
  <2>5. e \in Picked(e)
    BY <2>1, <2>4 DEF Picked
  <2> QED
    BY <1>1, <1>2, <2>5
<1> QED
  BY <1>3, <1>4

LEMMA CursorStep ==
    ASSUME IInv, CursorScheduled, [Next]_vars PROVE CursorScheduled'
<1>0. /\ TypeOK /\ nextEmit \in Nat /\ Len(calls) \in Nat /\ Len(calls) >= nextEmit
  BY PoolAssumption DEF IInv, TypeOK, ConsumedInOrder
<1>1. ASSUME NEW p \in Pos, p < nextEmit PROVE HasResult(p)
  <2>1. p + 1 \in 1 .. Len(calls) /\ (p + 1) - 1 = p
    BY <1>0, <1>1, PoolAssumption DEF Pos
  <2> QED
    BY <2>1, HandedOver
<1>2. ASSUME TrySchedule(nextEmit), nextEmit' = nextEmit PROVE CursorScheduled'
  BY <1>0, <1>1, <1>2, ScheduleReaches DEF CursorScheduled
<1>3. CASE ConsumerAccepts
  <2>1. nextEmit \in Pos /\ HasResult(nextEmit)
    BY <1>3, ConsumingPosition DEF ConsumerAccepts, IInv
  <2>2. ASSUME NEW p \in Pos, p < nextEmit + 1 PROVE HasResult(p)
    <3>1. p < nextEmit \/ p = nextEmit
      BY <1>0, <2>2, PoolAssumption DEF Pos
    <3> QED
      BY <1>1, <2>1, <3>1
  <2>3. nextEmit + 1 \in Nat /\ nextEmit <= nextEmit + 1
    BY <1>0
  <2>4. TrySchedule(nextEmit + 1) /\ nextEmit' = nextEmit + 1
    BY <1>3 DEF ConsumerAccepts
  <2>5. nextEmit + 1 < N /\ poolFailure' = "none" => job'[nextEmit + 1] # "idle"
    BY <2>2, <2>3, <2>4, ScheduleReaches
  <2> QED
    BY <2>4, <2>5 DEF CursorScheduled
<1>4. CASE Begin \/ TailResolves
  BY <1>2, <1>4 DEF Begin, TailResolves
<1>5. ASSUME NEW p \in Pos, PassGate(p) \/ RunResolves(p) PROVE CursorScheduled'
  <2>1. /\ UNCHANGED <<nextEmit, main, poolFailure>>
        /\ \A q \in Pos : job'[q] = job[q] \/ job'[q] \in {"running", "done"}
    BY <1>0, <1>5 DEF PassGate, RunResolves, TypeOK, mainVars
  <2>2. nextEmit < N => nextEmit \in Pos
    BY <1>0, PoolAssumption DEF Pos
  <2> QED
    BY <2>1, <2>2 DEF CursorScheduled
<1>6. ASSUME NEW p \in Pos, PassGateAborted(p) \/ RunRejects(p) PROVE CursorScheduled'
  <2>1. poolFailure' # "none"
    BY <1>6 DEF PassGateAborted, RunRejects, JobFails, Blame
  <2> QED
    BY <2>1 DEF CursorScheduled
<1>7. CASE FlushBegins \/ ConsumerRejects \/ Abort \/ UNCHANGED vars
  BY <1>7 DEF FlushBegins, ConsumerRejects, Abort, vars, jobVars, mainVars, CursorScheduled
<1>8. CASE Tick \/ TailRejects \/ Finish
  <2>1. main # "start" /\ job' = job /\ nextEmit' = nextEmit
        /\ (poolFailure' = "none" => poolFailure = "none")
    BY <1>8 DEF Tick, TailRejects, Finish, Blame, jobVars
  <2> QED
    BY <2>1 DEF CursorScheduled
<1> QED
  BY <1>3, <1>4, <1>5, <1>6, <1>7, <1>8 DEF Next, JobStep, FlushStep, MainStep

(* An idle iteration finds the next result ready, and waits for it to be    *)
(* delivered.                                                               *)
LEMMA LoopHeadSpins ==
    ASSUME IInv, IInv', CursorScheduled', LoopHead, nextEmit' = nextEmit,
           enqueued' = enqueued, drained' = drained, spins <= nextEmit
    PROVE  SpinInv'
<1>0. /\ nextEmit \in Nat /\ nextEmit <= N /\ spins \in Nat /\ inFlightCount' \in Nat
      /\ N \in Nat
  BY PoolAssumption DEF IInv, TypeOK
<1>1. CASE main' = "awaitTail"
  <2>1. /\ awaited' = enqueued /\ (nextEmit < N \/ inFlightCount' > 0) /\ ~GivesUp
        /\ spins' = IF inFlightCount' = 0 /\ nextEmit < N THEN spins + 1 ELSE 0
    BY <1>1 DEF LoopHead
  <2>2. CASE inFlightCount' = 0 /\ nextEmit < N
    <3>1. poolFailure' = "none"
      BY <2>1, <2>2 DEF GivesUp
    <3>2. job'[nextEmit] # "idle" /\ nextEmit \in Pos
      BY <1>0, <1>1, <2>2, <3>1 DEF CursorScheduled, Pos
    <3>3. InFlight' = {}
      <4>1. IsFiniteSet(InFlight') /\ inFlightCount' = Cardinality(InFlight')
        <5>1. InFlight' \in SUBSET Pos
          BY DEF InFlight
        <5> QED
          BY <5>1, PosFinite DEF IInv, WindowBound
      <4> QED
        BY <2>2, <4>1, FS_EmptySet
    <3>4. job'[nextEmit] = "done"
      BY <3>2, <3>3 DEF InFlight, IInv, TypeOK
    <3>5. NextIsReady(nextEmit)'
      BY <2>2, <3>4 DEF NextIsReady, HasResult
    <3>6. drained' < enqueued'
      BY <3>5 DEF IInv, ChainSound, TypeOK
    <3> QED
      BY <1>0, <1>1, <2>1, <2>2, <3>5, <3>6 DEF SpinInv
  <2>3. CASE ~(inFlightCount' = 0 /\ nextEmit < N)
    BY <1>0, <1>1, <2>1, <2>3 DEF SpinInv
  <2> QED
    BY <2>2, <2>3
<1>2. CASE main' # "awaitTail"
  BY <1>2 DEF LoopHead, SpinInv
<1> QED
  BY <1>1, <1>2

LEMMA SpinStep ==
    ASSUME IInv, IInv', CursorScheduled', SpinInv, [Next]_vars PROVE SpinInv'
<1>0. /\ nextEmit \in Nat /\ spins \in Nat /\ drained \in Nat /\ enqueued \in Nat
      /\ awaited \in Nat
  BY PoolAssumption DEF IInv, TypeOK
<1>1. CASE Begin \/ Tick
  <2>1. LoopHead /\ nextEmit' = nextEmit /\ enqueued' = enqueued /\ drained' = drained
        /\ spins <= nextEmit
    BY <1>0, <1>1 DEF Begin, Tick, flushVars, SpinInv
  <2> QED
    BY <2>1, LoopHeadSpins
<1>2. CASE TailResolves
  <2>1. drained >= awaited /\ main = "awaitTail" /\ UNCHANGED <<nextEmit, spins>>
        /\ main' \in {"finalTail", "tick"}
    BY <1>2 DEF TailResolves
  <2>2. spins <= nextEmit
    BY <1>0, <2>1 DEF SpinInv
  <2> QED
    BY <2>1, <2>2 DEF SpinInv
<1>3. CASE TailRejects \/ Finish
  BY <1>3 DEF TailRejects, Finish, SpinInv
<1>4. CASE ConsumerAccepts
  <2>1. nextEmit' = nextEmit + 1 /\ UNCHANGED <<main, spins>>
    BY <1>4 DEF ConsumerAccepts, mainVars
  <2> QED
    BY <1>0, <2>1 DEF SpinInv
<1>5. CASE FlushBegins
  <2>1. UNCHANGED <<nextEmit, main, spins, awaited>> /\ NextIsReady(nextEmit)' = NextIsReady(nextEmit)
    BY <1>5 DEF FlushBegins, mainVars, jobVars, NextIsReady, HasResult
  <2>2. NextIsReady(nextEmit) => drained' = drained
    BY <1>5 DEF FlushBegins, ConsumeOrFinish
  <2> QED
    BY <2>1, <2>2 DEF SpinInv
<1>6. ASSUME NEW p \in Pos, JobStep(p) PROVE SpinInv'
  <2>1. UNCHANGED <<nextEmit, main, spins, awaited, drained>>
    BY <1>6 DEF JobStep, PassGate, PassGateAborted, RunResolves, RunRejects, mainVars, flushVars
  <2>2. NextIsReady(nextEmit) => NextIsReady(nextEmit)'
    <3>1. ASSUME nextEmit < N, HasResult(nextEmit) PROVE HasResult(nextEmit)'
      <4>1. PICK q \in Pos : q = nextEmit
        BY <1>0, <3>1, PoolAssumption DEF Pos
      <4>2. HasResult(q)'
        BY <1>6, <3>1, <4>1, ResultsStay DEF Next
      <4> QED
        BY <2>1, <4>1, <4>2 DEF HasResult
    <3> QED
      BY <2>1, <3>1 DEF NextIsReady, HasResult
  <2> QED
    BY <2>1, <2>2 DEF SpinInv
<1>7. CASE ConsumerRejects \/ Abort \/ UNCHANGED vars
  BY <1>7 DEF ConsumerRejects, Abort, vars, jobVars, flushVars, mainVars, SpinInv, NextIsReady,
              HasResult
<1> QED
  BY <1>1, <1>2, <1>3, <1>4, <1>5, <1>6, <1>7 DEF Next, FlushStep, MainStep

LEMMA StallStep ==
    ASSUME SpinCap >= N, IInv, SpinInv, NeverStalls, [Next]_vars PROVE NeverStalls'
<1>0. nextEmit \in Nat /\ nextEmit <= N /\ N \in Nat \ {0} /\ SpinCap \in Nat /\ spins \in Nat
  BY PoolAssumption DEF IInv, TypeOK
<1>1. CASE Begin \/ Tick
  <2>1. spins <= nextEmit /\ LoopHead
    BY <1>0, <1>1 DEF Begin, Tick, SpinInv
  <2>2. ~(nextEmit < N /\ spins + 1 > SpinCap)
    BY <1>0, <2>1
  <2>3. outcome' = outcome
    BY <2>1, <2>2 DEF LoopHead
  <2> QED
    BY <2>3 DEF NeverStalls
<1>2. CASE Finish
  <2>1. poolFailure # "none" \/ nextEmit = N
    BY <1>2 DEF Finish, IInv, ExitSound
  <2>2. poolFailure # "none" => poolFailure' # "none"
    BY <1>2 DEF Finish, Blame
  <2>3. outcome' \in {"rejected", "resolved"}
    BY <1>2, <2>1, <2>2 DEF Finish, Verdict
  <2> QED
    BY <2>3 DEF NeverStalls
<1>3. CASE TailRejects
  BY <1>3 DEF TailRejects, NeverStalls
<1>4. ASSUME NEW p \in Pos, JobStep(p) PROVE outcome' = outcome
  BY <1>4 DEF JobStep, PassGate, PassGateAborted, RunResolves, RunRejects, mainVars
<1>5. FlushStep \/ TailResolves \/ Abort \/ UNCHANGED vars => outcome' = outcome
  BY DEF FlushStep, FlushBegins, ConsumerAccepts, ConsumerRejects, TailResolves, Abort, vars,
         mainVars
<1> QED
  BY <1>1, <1>2, <1>3, <1>4, <1>5 DEF Next, MainStep, NeverStalls

Steady == IInv /\ CursorScheduled /\ SpinInv /\ NeverStalls

LEMMA SteadyInvariance == ASSUME SpinCap >= N PROVE Spec => []Steady
<1>1. Init => Steady
  BY InitInvariant DEF Init, Steady, CursorScheduled, SpinInv, NeverStalls
<1>2. Steady /\ [Next]_vars => Steady'
  BY InvariantStep, CursorStep, SpinStep, StallStep DEF Steady
<1> QED
  BY <1>1, <1>2, PTL DEF Spec

(* Neither internal error of the pool is reachable, with any interleaving   *)
(* and any failures, as long as the idle iterations it tolerates are as     *)
(* many as its items (orchestration.ts, idleSchedulerSpins).                *)
THEOREM NoStall == ASSUME SpinCap >= N PROVE Spec => []NeverStalls
<1>1. Steady => NeverStalls
  BY DEF Steady
<1> QED
  BY <1>1, SteadyInvariance, PTL

-----------------------------------------------------------------------------
(* The pool implements ordered delivery.                                    *)

LEMMA DeliveryInit == Init => Delivery!Init
BY DEF Init, Delivery!Init

(* The steps that are none of the delivery.                                 *)
Unseen == UNCHANGED <<calls, consuming, tailRejected, outcome>>

LEMMA UnseenStutters == Unseen => UNCHANGED Delivery!vars
BY DEF Unseen, Delivery!vars

(* A flush callback moves on to the next position, if it is ready.          *)
LEMMA HandsOver ==
    ASSUME IInv, NEW e \in Nat, NextIsReady(e), ConsumeOrFinish(e), Len(calls) = e
    PROVE  Delivery!HandOver
<1>1. e < N /\ calls' = Append(calls, e) /\ consuming' = TRUE
  BY DEF NextIsReady, ConsumeOrFinish
<1> QED
  BY <1>1 DEF Delivery!HandOver

LEMMA FlushDelivers ==
    ASSUME Steady, FlushBegins PROVE Delivery!Next \/ UNCHANGED Delivery!vars
<1>0. /\ IInv /\ TypeOK /\ ConsumedInOrder /\ ChainSound /\ nextEmit \in Nat
      /\ ~consuming /\ ~tailRejected /\ drained < enqueued
      /\ UNCHANGED <<outcome, tailRejected>>
  BY PoolAssumption DEF Steady, IInv, TypeOK, FlushBegins, FlushTurn, mainVars
<1>1. CASE ~NextIsReady(nextEmit)
  <2>1. consuming = FALSE
    BY <1>0, Zenon DEF TypeOK
  <2>2. consuming' = FALSE /\ calls' = calls
    BY <1>1 DEF FlushBegins, ConsumeOrFinish
  <2> QED
    BY <1>0, <2>1, <2>2, UnseenStutters DEF Unseen
<1>2. CASE NextIsReady(nextEmit)
  <2>1. Len(calls) = nextEmit
    BY <1>0 DEF ConsumedInOrder
  <2>2. Delivery!HandOver
    BY <1>0, <1>2, <2>1, HandsOver DEF FlushBegins
  <2>3. outcome = "pending"
    <3>1. outcome \in {"pending", "resolved", "rejected"}
      BY DEF Steady, IInv, TypeOK, NeverStalls
    <3>2. ~(outcome \in {"resolved", "rejected"})
      BY <1>0 DEF IInv, SettledQuiet, TypeOK
    <3> QED
      BY <3>1, <3>2
  <2> QED
    BY <1>0, <2>2, <2>3 DEF Delivery!Deliver, Delivery!Next
<1> QED
  BY <1>1, <1>2

LEMMA AcceptDelivers ==
    ASSUME IInv, ConsumerAccepts PROVE Delivery!Next
<1>0. /\ consuming /\ nextEmit \in Nat /\ Len(calls) \in Nat /\ UNCHANGED <<outcome, tailRejected>>
      /\ Len(calls) = nextEmit + 1
  BY PoolAssumption DEF IInv, TypeOK, ConsumedInOrder, ConsumerAccepts, mainVars
<1>1. ConsumeOrFinish(nextEmit + 1)
  BY DEF ConsumerAccepts
<1>2. CASE NextIsReady(nextEmit + 1)
  <2>1. Delivery!HandOver
    BY <1>0, <1>1, <1>2, HandsOver
  <2> QED
    BY <1>0, <2>1 DEF Delivery!Accept, Delivery!Next
<1>3. CASE ~NextIsReady(nextEmit + 1)
  <2>1. consuming' = FALSE /\ calls' = calls
    BY <1>1, <1>3 DEF ConsumeOrFinish
  <2> QED
    BY <1>0, <2>1 DEF Delivery!Accept, Delivery!Next
<1> QED
  BY <1>2, <1>3

LEMMA FinishDelivers ==
    ASSUME Steady, NeverStalls', Finish PROVE Delivery!Next
<1>0. /\ main = "finalTail" /\ UNCHANGED <<calls, consuming, tailRejected, nextEmit>>
      /\ outcome' = Verdict /\ (drained >= awaited \/ tailRejected)
  BY DEF Finish, flushVars, TailSettled
<1>1. /\ awaited = enqueued /\ outcome = "pending"
      /\ drained \in Nat /\ enqueued \in Nat /\ nextEmit \in Nat
  BY <1>0, PoolAssumption DEF Steady, IInv, ExitSound, TypeOK
<1>2. ~consuming
  BY <1>0, <1>1 DEF Steady, IInv, ChainSound
<1>3. CASE outcome' = "resolved"
  <2>1. poolFailure' = "none" /\ nextEmit = N
    BY <1>0, <1>3 DEF Verdict
  <2>2. drained >= awaited
    BY <1>1, <2>1 DEF Finish, Blame
  <2>3. ~tailRejected
    BY <1>1, <2>2 DEF Steady, IInv, ChainSound
  <2>4. Len(calls) = N
    BY <1>2, <2>1, <2>3, PoolAssumption DEF Steady, IInv, ConsumedInOrder
  <2> QED
    BY <1>0, <1>1, <1>2, <1>3, <2>3, <2>4 DEF Delivery!Resolve, Delivery!Next
<1>4. CASE outcome' = "rejected"
  BY <1>0, <1>1, <1>2, <1>4 DEF Delivery!Reject, Delivery!Next
<1>5. outcome' \in {"resolved", "rejected"}
  BY <1>0 DEF Verdict, NeverStalls
<1> QED
  BY <1>3, <1>4, <1>5

LEMMA DeliveryStep ==
    ASSUME Steady, NeverStalls', [Next]_vars PROVE Delivery!Next \/ UNCHANGED Delivery!vars
<1>1. CASE FlushBegins
  BY <1>1, FlushDelivers
<1>2. CASE ConsumerAccepts
  BY <1>2, AcceptDelivers DEF Steady
<1>3. CASE ConsumerRejects
  <2>1. consuming /\ consuming' = FALSE /\ tailRejected' = TRUE /\ UNCHANGED <<calls, outcome>>
    BY <1>3 DEF ConsumerRejects, mainVars
  <2> QED
    BY <2>1 DEF Delivery!Refuse, Delivery!Next
<1>4. CASE Finish
  BY <1>4, FinishDelivers
<1>5. CASE TailRejects
  <2>1. /\ main = "awaitTail" /\ tailRejected /\ outcome' = "rejected"
        /\ UNCHANGED <<calls, consuming, tailRejected>>
    BY <1>5 DEF TailRejects, flushVars
  <2>2. outcome = "pending" /\ ~consuming
    BY <2>1 DEF Steady, IInv, ExitSound, ChainSound, TypeOK
  <2> QED
    BY <2>1, <2>2 DEF Delivery!Reject, Delivery!Next
<1>6. CASE Begin \/ Tick \/ TailResolves
  <2>1. UNCHANGED <<calls, consuming, tailRejected>> /\ outcome' \in {outcome, "stalled"}
    BY <1>6 DEF Begin, Tick, TailResolves, LoopHead, flushVars
  <2> QED
    BY <2>1, UnseenStutters DEF NeverStalls, Unseen
<1>7. ASSUME NEW p \in Pos, JobStep(p) PROVE Unseen
  BY <1>7 DEF JobStep, PassGate, PassGateAborted, RunResolves, RunRejects, flushVars, mainVars,
              Unseen
<1>8. CASE Abort \/ UNCHANGED vars
  BY <1>8, UnseenStutters DEF Abort, vars, flushVars, mainVars, Unseen
<1> QED
  BY <1>1, <1>2, <1>3, <1>4, <1>5, <1>6, <1>7, <1>8, UnseenStutters DEF Next, FlushStep, MainStep

(* Every behaviour of the pool is one of the ordered delivery it promises   *)
(* its callers; that it goes on delivering is left to the model checker.    *)
THEOREM ImplementsOrderedDelivery == ASSUME SpinCap >= N PROVE Spec => Delivery!Spec
<1>1. Steady /\ Steady' /\ [Next]_vars => [Delivery!Next]_(Delivery!vars)
  BY DeliveryStep DEF Steady
<1>2. Init => Delivery!Init
  BY DeliveryInit
<1> QED
  BY <1>1, <1>2, SteadyInvariance, PTL DEF Spec, Delivery!Spec
=============================================================================
