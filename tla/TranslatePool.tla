--------------------------- MODULE TranslatePool ---------------------------
(***************************************************************************)
(* mapWithConcurrencyWithProgressOrderedSequential, the parallel pool of   *)
(* packages/core/src/shared/translator/utils/orchestration.ts.  Jobs run   *)
(* out of order behind a start gate; one consumer, onSequential, receives  *)
(* their results in item order through a chain of flush promises; a main   *)
(* loop polls until everything is consumed or something failed.            *)
(*                                                                         *)
(* One action is one synchronous segment of the event loop: the code       *)
(* between two awaits.  Progress callbacks are left out: they only draw.   *)
(***************************************************************************)
EXTENDS Integers, FiniteSets, Sequences

CONSTANTS
    N,                    \* number of items
    Concurrency,          \* the requested parallelism, before clamping
    WorkersCap,           \* TRANSLATE_WORKERS_CAP
    SpinCap,              \* idle iterations tolerated by the main loop
    RunMayReject,         \* may the mapper reject?
    ConsumerMayReject,    \* may onSequential reject?
    SignalMayAbort        \* may the host abort its signal?

ASSUME PoolAssumption ==
    /\ N \in Nat \ {0}
    /\ Concurrency \in Int
    /\ WorkersCap \in Nat \ {0}
    /\ SpinCap \in Nat
    /\ RunMayReject \in BOOLEAN
    /\ ConsumerMayReject \in BOOLEAN
    /\ SignalMayAbort \in BOOLEAN

VARIABLES
    job,             \* inFlightByPos and results, as one phase per position
    ticket,          \* the place of each position in the start gate's queue
    nextTicket,      \* the gate's tail
    nextEmit,        \* the position the consumer is owed next
    inFlightCount,
    completedJobs,
    poolFailure,     \* the first failure, "none" while there is none
    aborted,         \* the host's signal
    enqueued,        \* flush callbacks chained on flushTail so far
    drained,         \* how many of them have finished
    consuming,       \* is a flush callback awaiting onSequential?
    tailRejected,    \* flushTail is rejected: callbacks behind it are skipped
    main,            \* where the pool's own async function is suspended
    awaited,         \* the flush callback whose promise it awaits
    spins,           \* idleSchedulerSpins
    outcome,         \* how the promise returned to the caller settled
    runs,            \* history: calls of the mapper, by position
    calls            \* history: positions handed to onSequential, in order

jobVars  == <<job, ticket, nextTicket, inFlightCount, completedJobs, runs>>
flushVars == <<enqueued, drained, consuming, tailRejected, calls>>
mainVars == <<main, awaited, spins, outcome>>
vars == <<jobVars, flushVars, mainVars, nextEmit, poolFailure, aborted>>

Pos == 0 .. N - 1

(* clampInt(concurrency, 1, TRANSLATE_WORKERS_CAP), then capped by n *)
Least(a, b) == IF a < b THEN a ELSE b
PoolSize ==
    LET cap == IF Concurrency < 1 THEN 1 ELSE Least(Concurrency, WorkersCap)
    IN  Least(cap, N)

InFlight == {p \in Pos : job[p] \in {"gate", "running"}}
HasResult(p) == job[p] = "done"

TypeOK ==
    /\ job \in [Pos -> {"idle", "gate", "running", "done"}]
    /\ ticket \in [Pos -> Nat]
    /\ nextTicket \in Nat
    /\ nextEmit \in 0 .. N
    /\ inFlightCount \in Nat
    /\ completedJobs \in Nat
    /\ poolFailure \in {"none", "run", "abort", "consumer"}
    /\ aborted \in BOOLEAN
    /\ enqueued \in Nat
    /\ drained \in Nat
    /\ consuming \in BOOLEAN
    /\ tailRejected \in BOOLEAN
    /\ main \in {"start", "awaitTail", "tick", "finalTail", "settled"}
    /\ awaited \in Nat
    /\ spins \in Nat
    /\ outcome \in {"pending", "resolved", "rejected", "stalled", "short"}
    /\ runs \in [Pos -> Nat]
    /\ calls \in Seq(Pos)

Init ==
    /\ job = [p \in Pos |-> "idle"]
    /\ ticket = [p \in Pos |-> 0]
    /\ nextTicket = 0
    /\ nextEmit = 0
    /\ inFlightCount = 0
    /\ completedJobs = 0
    /\ poolFailure = "none"
    /\ aborted = FALSE
    /\ enqueued = 0
    /\ drained = 0
    /\ consuming = FALSE
    /\ tailRejected = FALSE
    /\ main = "start"
    /\ awaited = 0
    /\ spins = 0
    /\ outcome = "pending"
    /\ runs = [p \in Pos |-> 0]
    /\ calls = <<>>

-----------------------------------------------------------------------------
(* trySchedule(), called with the sequential cursor at emit.  It starts,   *)
(* in ascending order, the positions with neither a result nor a job in    *)
(* flight that lie in the window emit .. emit + PoolSize - 1, as long as   *)
(* fewer than PoolSize jobs are in flight; it does nothing after a failure *)
(* and turns an aborted signal into the failure.                           *)

SchedulableOneBeyond(emit) == {p \in Pos : job[p] = "idle" /\ p <= emit + PoolSize}   \* mutant

Schedulable(emit) == {p \in Pos : job[p] = "idle" /\ p < emit + PoolSize}

Picked(emit) ==
    {p \in Schedulable(emit) :
        inFlightCount + Cardinality({q \in Schedulable(emit) : q < p}) < PoolSize}

TrySchedule(emit) ==
    LET starting == IF poolFailure = "none" /\ ~aborted THEN Picked(emit) ELSE {}
    IN  /\ poolFailure' = IF poolFailure = "none" /\ aborted THEN "abort" ELSE poolFailure
        /\ job' = [p \in Pos |-> IF p \in starting THEN "gate" ELSE job[p]]
        /\ inFlightCount' = inFlightCount + Cardinality(starting)
        /\ ticket' = [p \in Pos |->
               IF p \in starting
               THEN nextTicket + Cardinality({q \in starting : q < p})
               ELSE ticket[p]]
        /\ nextTicket' = nextTicket + Cardinality(starting)
        /\ UNCHANGED <<completedJobs, runs>>

(* enqueueFlush(): chain one more flush callback on flushTail.  Chained on *)
(* a rejected promise, the new one is rejected too, and nobody awaits it.  *)
EnqueueNothing == UNCHANGED enqueued                          \* mutant
EnqueueWhileHealthy ==                                          \* mutant
    enqueued' = enqueued + (IF poolFailure = "none" THEN 1 ELSE 0)

EnqueueFlush == enqueued' = enqueued + 1

(* poolFailure ??= cause *)
Blame(cause) == poolFailure' = IF poolFailure = "none" THEN cause ELSE poolFailure

(* inFlightByPos[pos] = false; inFlightCount -= 1 *)
LeaveFlightTwice == inFlightCount' = inFlightCount - 2          \* mutant
LeaveFlight == inFlightCount' = inFlightCount - 1

-----------------------------------------------------------------------------
(* One job: the async function started by trySchedule.                     *)

(* the finally block of a job that ended without a result *)
JobFails(p, cause) ==
    /\ Blame(cause)
    /\ job' = [job EXCEPT ![p] = "idle"]
    /\ LeaveFlight
    /\ EnqueueFlush
    /\ UNCHANGED completedJobs

(* waitForStartTurn(): the gate releases its waiters in arrival order; the *)
(* released job looks at the signal, and at nothing else, before it calls  *)
(* the mapper.                                                             *)
IsFirstAtGate(p) ==
    /\ job[p] = "gate"
    /\ \A q \in Pos : job[q] = "gate" => ticket[p] <= ticket[q]

(* throwIfAborted(signal) lets the released job through *)
AlwaysMayCall == TRUE                                           \* mutant
MayCall == ~aborted

PassGate(p) ==
    /\ IsFirstAtGate(p)
    /\ MayCall
    /\ job' = [job EXCEPT ![p] = "running"]
    /\ runs' = [runs EXCEPT ![p] = @ + 1]
    /\ UNCHANGED <<ticket, nextTicket, inFlightCount, completedJobs, flushVars,
                   mainVars, nextEmit, poolFailure, aborted>>

PassGateAborted(p) ==
    /\ IsFirstAtGate(p)
    /\ aborted
    /\ JobFails(p, "abort")
    /\ UNCHANGED <<ticket, nextTicket, runs, drained, consuming, tailRejected,
                   calls, mainVars, nextEmit, aborted>>

RunResolves(p) ==
    /\ job[p] = "running"
    /\ job' = [job EXCEPT ![p] = "done"]
    /\ completedJobs' = completedJobs + 1
    /\ LeaveFlight
    /\ EnqueueFlush
    /\ UNCHANGED <<ticket, nextTicket, runs, drained, consuming, tailRejected,
                   calls, mainVars, nextEmit, poolFailure, aborted>>

(* the mapper rejects, or resolves to undefined *)
RunRejects(p) ==
    /\ RunMayReject
    /\ job[p] = "running"
    /\ JobFails(p, "run")
    /\ UNCHANGED <<ticket, nextTicket, runs, drained, consuming, tailRejected,
                   calls, mainVars, nextEmit, aborted>>

-----------------------------------------------------------------------------
(* The flush chain.  A callback runs once the one before it has finished   *)
(* and none was rejected; it feeds the consumer while the next result is   *)
(* there.                                                                  *)

(* the test of the drain loop, with the cursor at emit *)
NextIsReady(emit) == emit < N /\ HasResult(emit)

(* call onSequential on position emit, or finish the flush callback *)
ConsumeOrFinish(emit) ==
    IF NextIsReady(emit)
    THEN /\ consuming' = TRUE
         /\ calls' = Append(calls, emit)
         /\ UNCHANGED drained
    ELSE /\ consuming' = FALSE
         /\ drained' = drained + 1
         /\ UNCHANGED calls

FlushTurn == ~consuming /\ ~tailRejected /\ drained < enqueued

FlushBegins ==
    /\ FlushTurn
    /\ ConsumeOrFinish(nextEmit)
    /\ UNCHANGED <<jobVars, mainVars, enqueued, tailRejected, nextEmit,
                   poolFailure, aborted>>

ConsumerAccepts ==
    /\ consuming
    /\ nextEmit' = nextEmit + 1
    /\ TrySchedule(nextEmit + 1)
    /\ ConsumeOrFinish(nextEmit + 1)
    /\ UNCHANGED <<mainVars, enqueued, tailRejected, aborted>>

(* The rejection reaches the main loop only if it awaits the newest tail.  *)
ConsumerRejects ==
    /\ ConsumerMayReject
    /\ consuming
    /\ consuming' = FALSE
    /\ tailRejected' = TRUE
    /\ UNCHANGED <<jobVars, mainVars, enqueued, drained, calls, nextEmit,
                   poolFailure, aborted>>

-----------------------------------------------------------------------------
(* The main loop.                                                          *)

(* if (poolFailure !== undefined && inFlightCount === 0) break *)
GivesUp == poolFailure' # "none" /\ inFlightCount' = 0

(* while (...) { break on failure; count idle spins; await flushTail } *)
LoopHead ==
    LET owed == nextEmit < N \/ inFlightCount' > 0
        idle == inFlightCount' = 0 /\ nextEmit < N
    IN  /\ awaited' = enqueued
        /\ IF ~owed \/ GivesUp
           THEN main' = "finalTail" /\ UNCHANGED <<spins, outcome>>
           ELSE /\ spins' = IF idle THEN spins + 1 ELSE 0
                /\ IF idle /\ spins + 1 > SpinCap
                   THEN main' = "settled" /\ outcome' = "stalled"
                   ELSE main' = "awaitTail" /\ UNCHANGED outcome

Begin ==
    /\ main = "start"
    /\ TrySchedule(nextEmit)
    /\ LoopHead
    /\ UNCHANGED <<flushVars, nextEmit, aborted>>

Tick ==
    /\ main = "tick"
    /\ UNCHANGED <<jobVars, flushVars, nextEmit, poolFailure, aborted>>
    /\ LoopHead

TailResolves ==
    /\ main = "awaitTail"
    /\ drained >= awaited
    /\ TrySchedule(nextEmit)
    /\ IF nextEmit >= N /\ inFlightCount' = 0
       THEN main' = "finalTail" /\ awaited' = enqueued
       ELSE main' = "tick" /\ UNCHANGED awaited
    /\ UNCHANGED <<flushVars, spins, outcome, nextEmit, aborted>>

(* the await inside the loop is not guarded: the pool rejects at once *)
TailRejects ==
    /\ main = "awaitTail"
    /\ tailRejected /\ drained < awaited
    /\ main' = "settled"
    /\ outcome' = "rejected"
    /\ UNCHANGED <<jobVars, flushVars, awaited, spins, nextEmit, poolFailure,
                   aborted>>

(* the last await, whose rejection becomes the failure *)
TailIgnored == TRUE                                             \* mutant
TailSettled == drained >= awaited \/ tailRejected

Verdict ==
    IF poolFailure' # "none" THEN "rejected"
    ELSE IF nextEmit # N THEN "short" ELSE "resolved"

Finish ==
    /\ main = "finalTail"
    /\ TailSettled
    /\ IF drained < awaited THEN Blame("consumer") ELSE UNCHANGED poolFailure
    /\ main' = "settled"
    /\ outcome' = Verdict
    /\ UNCHANGED <<jobVars, flushVars, awaited, spins, nextEmit, aborted>>

Abort ==
    /\ SignalMayAbort
    /\ ~aborted
    /\ main # "settled"
    /\ aborted' = TRUE
    /\ UNCHANGED <<jobVars, flushVars, mainVars, nextEmit, poolFailure>>

JobStep(p) == PassGate(p) \/ PassGateAborted(p) \/ RunResolves(p) \/ RunRejects(p)
FlushStep == FlushBegins \/ ConsumerAccepts \/ ConsumerRejects
MainStep == Begin \/ Tick \/ TailResolves \/ TailRejects \/ Finish

Next == (\E p \in Pos : JobStep(p)) \/ FlushStep \/ MainStep \/ Abort

Spec == Init /\ [][Next]_vars

(* Promise reactions and setImmediate callbacks run (weak fairness of the  *)
(* flush chain and of the main loop), the gate's timers fire, every mapper *)
(* call settles, and every onSequential call settles.                      *)
Fairness ==
    /\ \A p \in Pos : WF_vars(JobStep(p))
    /\ WF_vars(FlushStep)
    /\ WF_vars(MainStep)

FairSpec == Spec /\ Fairness

-----------------------------------------------------------------------------
(* Properties.                                                             *)

(* The consumer receives positions 0, 1, 2, ... without a gap, a repetition *)
(* or an overlap, each with its result, whatever the order in which the     *)
(* jobs finish: "onSequential runs in strict item order (0...n-1) and is    *)
(* awaited before the sliding window advances".                             *)
ConsumedInOrder ==
    /\ Len(calls) = nextEmit + (IF consuming \/ tailRejected THEN 1 ELSE 0)
    /\ \A i \in 1 .. Len(calls) : calls[i] = i - 1 /\ HasResult(i - 1)

(* No position starts ahead of the window that begins at the consumer's    *)
(* cursor, so at most PoolSize results and jobs together wait for it; the  *)
(* counter the scheduler trusts is the true number of jobs in flight.      *)
WindowBound ==
    /\ \A p \in Pos : job[p] # "idle" => p < nextEmit + PoolSize
    /\ inFlightCount = Cardinality(InFlight)
    /\ completedJobs = Cardinality({p \in Pos : HasResult(p)})

(* At most PoolSize jobs overlap: the number of provider requests that the *)
(* configured workers (after clamping) allow at a time.                    *)
OverlapBound == Cardinality(InFlight) <= PoolSize

(* Each item is translated at most once: a position that failed is not     *)
(* picked again although neither of the scheduler's two arrays remembers   *)
(* it, and no two trySchedule calls pick the same position.                *)
TranslatedAtMostOnce == \A p \in Pos : runs[p] <= 1

(* When the pool settles, except by a rejection of the consumer, nothing   *)
(* it started is left behind: no job waits or runs, no consumer call is    *)
(* open and no flush is queued.                                            *)
SettledQuiet ==
    outcome \in {"resolved", "rejected"} /\ ~tailRejected
        => InFlight = {} /\ ~consuming /\ drained = enqueued

(* A pool that failed has still delivered every result up to the first     *)
(* hole: what a caller keeps as partial progress is the longest prefix     *)
(* that was translated.                                                    *)
LongestPrefixDelivered ==
    outcome = "rejected" /\ ~tailRejected
        => Len(calls) = nextEmit /\ ~NextIsReady(nextEmit)

(* The pool resolves only when every item was translated and accepted, and *)
(* whatever failed is reported: success never hides a failure.             *)
ResolvedIsComplete ==
    outcome = "resolved"
        => /\ nextEmit = N /\ \A p \in Pos : HasResult(p)
           /\ poolFailure = "none" /\ ~tailRejected

(* Neither internal error is reachable: with jobs, flushes and the main    *)
(* loop interleaved in any order, an idle loop that still owes items sees  *)
(* progress within SpinCap iterations, and the final drain is complete.    *)
NeverStalls == outcome \notin {"stalled", "short"}

(* Once the host has aborted, no provider request starts any more, also    *)
(* not from jobs that were already waiting at the start gate.              *)
NoRunAfterAbort == [][aborted => runs' = runs]_vars

(* The inductive invariant behind the safety properties: what the job      *)
(* phases, the flush chain and the main loop know of each other.           *)

(* a position runs again only after a failure, when none is scheduled *)
FreshUntilScheduled ==
    \A p \in Pos :
        /\ job[p] = "gate" => runs[p] = 0
        /\ job[p] = "idle" /\ poolFailure = "none" => runs[p] = 0

(* the chain: its cursor stays behind its tail while a callback is open or *)
(* broken, and a deliverable result always has a callback to deliver it    *)
ChainSound ==
    /\ drained <= enqueued
    /\ consuming \/ tailRejected => drained < enqueued
    /\ ~(consuming /\ tailRejected)
    /\ drained = enqueued => ~NextIsReady(nextEmit)

(* the main loop leaves for its last await only when nothing is in flight  *)
(* and nothing can be scheduled any more                                   *)
ExitSound ==
    /\ main = "finalTail"
        => /\ InFlight = {} /\ awaited = enqueued
           /\ poolFailure # "none" \/ nextEmit = N
    /\ main = "settled" <=> outcome # "pending"

IInv ==
    /\ TypeOK
    /\ ConsumedInOrder
    /\ WindowBound
    /\ TranslatedAtMostOnce
    /\ FreshUntilScheduled
    /\ ChainSound
    /\ ExitSound
    /\ SettledQuiet
    /\ LongestPrefixDelivered
    /\ ResolvedIsComplete

Delivery == INSTANCE OrderedDelivery WITH
    delivered <- calls,
    busy <- consuming,
    refused <- tailRejected,
    status <- IF outcome \in {"pending", "resolved"} THEN outcome ELSE "rejected"

(* The pool implements in-order delivery, with its liveness.               *)
ImplementsDelivery == Delivery!FairSpec
=============================================================================
