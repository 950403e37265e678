---------------------------- MODULE ServeSession ----------------------------
(***************************************************************************)
(* `i18nprune serve` (packages/cli/src/serve): one JSON-RPC session over   *)
(* stdio.  Lines arrive from the client at any moment.  Notifications act  *)
(* at once, in the callback that read them; requests go through a promise  *)
(* chain that serves one at a time, so what a notification (or the end of  *)
(* stdin, or the idle timer) does interleaves with the request in service  *)
(* and with those that wait.  Operations run on a context of their project *)
(* root, taken from a bounded cache that a write to the root invalidates.  *)
(*                                                                         *)
(* Abstractions.  A context is the version of the project it was resolved  *)
(* from.  "unknown" stands for every request refused before an operation   *)
(* starts (method not found, confined root, invalid params), "read" and    *)
(* "write" for the operations of a kind.  Lines that are no valid message  *)
(* are answered on the spot and change nothing but the idle timer.  The    *)
(* links of the chain that still wait when the session finishes do nothing *)
(* and answer nothing: they are left in the queue.                         *)
(***************************************************************************)
EXTENDS Naturals, Sequences

CONSTANTS
  Ids,           \* request ids, as the strings the server keeps them under
  Roots,         \* project roots of a hub session
  NoRoot,        \* a request that names none
  MaxRoots,      \* warm contexts kept
  MaxRequests,   \* bound: requests of one session
  MaxVersion     \* bound: changes of one project

ASSUME RootsAssumption == NoRoot \notin Roots
ASSUME MaxRootsAssumption == MaxRoots \in Nat \ {0}
ASSUME BoundsAssumption == MaxRequests \in Nat /\ MaxVersion \in Nat

VARIABLES
  writes,        \* started with --allow-writes
  initialized, shuttingDown, finished,
  exited,        \* the process is gone
  idleTimer,     \* is it armed?
  requests,      \* how many were read from stdin: a request is its number
  queue,         \* those the chain has not settled, the one in service first
  stage,         \* of the first: "queued", "context" (being resolved) or "op"
  wrote,         \* has its operation written to the project?
  inFlight,      \* the request whose abort handle an id leads to
  aborted,       \* unsettled requests whose signal is aborted
  replies,       \* the requests answered on stdout, in order
  answer,        \* the kind of the last of these answers
  warm,          \* cached contexts, least recently used first; Pending while
                 \* the resolution runs
  since,         \* the version at which that resolution started
  disk,          \* the version of each project
  reported       \* history: version at the last write reported to the cache

life     == <<finished, exited>>
protocol == <<writes, initialized, shuttingDown>>
chain    == <<queue, stage, wrote, inFlight, aborted, replies, answer>>
cache    == <<warm, since>>
effects  == <<disk, reported>>
vars == <<protocol, life, idleTimer, requests, chain, cache, effects>>

Methods == {"initialize", "shutdown", "ping", "unknown", "read", "write"}
Ops == {"read", "write"}
Kinds == {"result", "refused", "cancelled", "failed"}
Versions == 0..MaxVersion
Pending == MaxVersion + 1
None == 0

Now       == queue[1].number
Method    == queue[1].method
Root      == queue[1].root
Cancelled == Now \in aborted

Init ==
  /\ writes \in BOOLEAN
  /\ initialized = FALSE /\ shuttingDown = FALSE /\ finished = FALSE /\ exited = FALSE
  /\ idleTimer = TRUE
  /\ requests = 0 /\ queue = <<>> /\ stage = "queued" /\ wrote = FALSE
  /\ inFlight = [i \in Ids |-> None] /\ aborted = {}
  /\ replies = <<>> /\ answer = "none"
  /\ warm = <<>> /\ since = 0
  /\ disk = [r \in Roots |-> 0] /\ reported = [r \in Roots |-> 0]

-----------------------------------------------------------------------------
(* The client.  A line is not read once the session finished; each one     *)
(* rearms the idle timer.                                                  *)

RegisterWhenIdle(i) ==                           \* mutant: only a request served at once
  inFlight' = IF queue = <<>> THEN [inFlight EXCEPT ![i] = requests'] ELSE inFlight
Register(i) == inFlight' = [inFlight EXCEPT ![i] = requests']

(* The client does not reuse the id of a request it waits for.             *)
Request(i, m, r) ==
  /\ ~finished /\ requests < MaxRequests
  /\ \A k \in DOMAIN queue : queue[k].id # i
  /\ (m \in Ops) = (r \in Roots)
  /\ requests' = requests + 1
  /\ queue' = Append(queue, [number |-> requests', id |-> i, method |-> m, root |-> r])
  /\ Register(i)
  /\ idleTimer' = TRUE
  /\ UNCHANGED <<protocol, life, stage, wrote, aborted, replies, answer, cache, effects>>

Cancel(i) ==
  /\ ~finished
  /\ aborted' = IF inFlight[i] = None THEN aborted ELSE aborted \cup {inFlight[i]}
  /\ idleTimer' = TRUE
  /\ UNCHANGED <<protocol, life, requests, queue, stage, wrote, inFlight, replies, answer,
                 cache, effects>>

(* The exit notification, the end of stdin and the idle timer.             *)
Finish ==
  /\ ~finished /\ finished' = TRUE
  /\ idleTimer' = FALSE
  /\ UNCHANGED <<protocol, exited, requests, chain, cache, effects>>

StdinEndsOrExit == Finish
IdleTimeout == idleTimer /\ Finish

(* Once stdout is flushed the process exits, whatever still runs.          *)
ProcessExits ==
  /\ finished /\ ~exited /\ exited' = TRUE
  /\ UNCHANGED <<protocol, finished, idleTimer, requests, chain, cache, effects>>

-----------------------------------------------------------------------------
(* The context cache, a map: a root has one entry, which `delete` removes. *)
(* Expiry drops the least recently used entries: the stale ones are the    *)
(* oldest.                                                                 *)

Unexpired(k) == SubSeq(warm, k + 1, Len(warm))
IsWarm(s, r) == \E k \in DOMAIN s : s[k].root = r
Place(s, r) == CHOOSE k \in DOMAIN s : s[k].root = r
Deleted(s, k) == SubSeq(s, 1, k - 1) \o SubSeq(s, k + 1, Len(s))
Only(s, r) == IF IsWarm(s, r) THEN <<s[Place(s, r)]>> ELSE <<>>
Without(s, r) == IF IsWarm(s, r) THEN Deleted(s, Place(s, r)) ELSE s
Touch(s, r) == Without(s, r) \o Only(s, r)
Store(s, r, v) == Append(Without(s, r), [root |-> r, seen |-> v])

TrimLate(s) == IF Len(s) > MaxRoots + 1 THEN SubSeq(s, Len(s) - MaxRoots, Len(s)) ELSE s   \* mutant
Trim(s) == IF Len(s) > MaxRoots THEN SubSeq(s, Len(s) - MaxRoots + 1, Len(s)) ELSE s

InvalidateOthers(r) == warm' = Only(warm, r)                                \* mutant
Invalidate(r) == warm' = Without(warm, r)

-----------------------------------------------------------------------------
(* Serving one request.                                                    *)

SettleUnlessCancelled(kind) ==              \* mutant: a cancelled request keeps its turn
  /\ replies' = Append(replies, Now) /\ answer' = kind
  /\ queue' = IF kind = "cancelled" THEN queue ELSE Tail(queue)
  /\ stage' = "queued" /\ wrote' = FALSE
  /\ inFlight' = [inFlight EXCEPT ![queue[1].id] = None]
  /\ aborted' = aborted \ {Now}

Settle(kind) ==
  /\ replies' = Append(replies, Now) /\ answer' = kind
  /\ queue' = Tail(queue) /\ stage' = "queued" /\ wrote' = FALSE
  /\ inFlight' = [inFlight EXCEPT ![queue[1].id] = None]
  /\ aborted' = aborted \ {Now}

GoOn(next) == stage' = next /\ UNCHANGED <<queue, wrote, inFlight, aborted, replies, answer>>

(* With its context at hand an operation goes on unless the client has     *)
(* cancelled.  A reading operation finishes in the same turn.              *)
BeginRegardless ==                                                          \* mutant
  \/ Method = "read" /\ \E kind \in {"result", "failed"} : Settle(kind)
  \/ Method = "write" /\ GoOn("op")

Begin ==
  \/ Cancelled /\ Settle("cancelled")
  \/ ~Cancelled /\ Method = "read" /\ \E kind \in {"result", "failed"} : Settle(kind)
  \/ ~Cancelled /\ Method = "write" /\ GoOn("op")

GetContext ==
  \E k \in 0..Len(warm) :
    \/ /\ IsWarm(Unexpired(k), Root)
       /\ warm' = Touch(Unexpired(k), Root) /\ UNCHANGED since
       /\ Begin
    \/ /\ ~IsWarm(Unexpired(k), Root)
       /\ warm' = Trim(Store(Unexpired(k), Root, Pending)) /\ since' = disk[Root]
       /\ GoOn("context")

Refused ==
  \/ Method = "initialize" /\ initialized
  \/ Method # "initialize" /\ (~initialized \/ shuttingDown)
  \/ Method = "unknown"
  \/ Method = "write" /\ ~writes

Refuse ==
  /\ Refused /\ Settle("refused")
  /\ UNCHANGED <<protocol, idleTimer, cache>>

(* The handshake fails on a protocol version the server does not speak.    *)
Initialize ==
  /\ ~Refused /\ Method = "initialize"
  /\ \/ initialized' = TRUE /\ idleTimer' = TRUE /\ Settle("result")
     \/ UNCHANGED <<initialized, idleTimer>> /\ Settle("refused")
  /\ UNCHANGED <<writes, shuttingDown, cache>>

Shutdown ==
  /\ ~Refused /\ Method = "shutdown"
  /\ shuttingDown' = TRUE /\ idleTimer' = FALSE /\ Settle("result")
  /\ UNCHANGED <<writes, initialized, cache>>

Ping ==
  /\ ~Refused /\ Method = "ping" /\ Settle("result")
  /\ UNCHANGED <<protocol, idleTimer, cache>>

StartOp ==
  /\ ~Refused /\ Method \in Ops
  /\ \/ Cancelled /\ Settle("cancelled") /\ UNCHANGED cache
     \/ ~Cancelled /\ GetContext
  /\ UNCHANGED <<protocol, idleTimer>>

(* The next link of the chain.                                             *)
Dispatch ==
  /\ queue # <<>> /\ stage = "queued" /\ ~finished
  /\ Refuse \/ Initialize \/ Shutdown \/ Ping \/ StartOp
  /\ UNCHANGED <<life, requests, effects>>

(* The resolution ends: the context holds what it read along the way, and  *)
(* a rejected one is not retained.                                         *)
ContextResolves ==
  /\ stage = "context" /\ ~exited
  /\ \E v \in since..disk[Root] : warm' = Store(warm, Root, v)
  /\ since' = 0
  /\ Begin
  /\ UNCHANGED <<protocol, life, idleTimer, requests, effects>>

ChainRejected == GoOn("rejected")       \* mutant: uncaught, and the chain stays rejected
RejectionAnswered == Settle("failed")

ContextRejected ==
  /\ stage = "context" /\ ~exited
  /\ Invalidate(Root) /\ since' = 0
  /\ RejectionAnswered
  /\ UNCHANGED <<protocol, life, idleTimer, requests, effects>>

-----------------------------------------------------------------------------
(* A writing operation: it writes, file by file, and then ends.            *)

OpWrites ==
  /\ stage = "op" /\ ~exited /\ disk[Root] < MaxVersion
  /\ disk' = [disk EXCEPT ![Root] = @ + 1] /\ wrote' = TRUE
  /\ UNCHANGED <<protocol, life, idleTimer, requests, queue, stage, inFlight, aborted, replies,
                 answer, cache, reported>>

(* What it did is reported to the cache, then cancellation is checked a    *)
(* last time.                                                              *)
OutcomeAsIs == "result"                                                     \* mutant
Outcome == IF Cancelled THEN "cancelled" ELSE "result"

OpCompletes ==
  /\ stage = "op" /\ ~exited
  /\ IF wrote
     THEN Invalidate(Root) /\ reported' = [reported EXCEPT ![Root] = disk[Root]]
     ELSE UNCHANGED <<warm, reported>>
  /\ Settle(Outcome)
  /\ UNCHANGED <<protocol, life, idleTimer, requests, since, disk>>

(* It ends with an error, or sees the abort signal at one of its awaits:   *)
(* nothing is reported, even when some files are already written.          *)
OpEndsEarly ==
  /\ stage = "op" /\ ~exited
  /\ Settle("failed") \/ (Cancelled /\ Settle("cancelled"))
  /\ UNCHANGED <<protocol, life, idleTimer, requests, cache, effects>>

(* Somebody else changes the project: the configuration, or a command run  *)
(* beside the server.  Nothing tells the cache.                            *)
ProjectChanges(r) ==
  /\ ~exited /\ disk[r] < MaxVersion
  /\ disk' = [disk EXCEPT ![r] = @ + 1]
  /\ UNCHANGED <<protocol, life, idleTimer, requests, chain, cache, reported>>

Serve == Dispatch \/ ContextResolves \/ ContextRejected \/ OpCompletes \/ OpEndsEarly

Next ==
  \/ \E i \in Ids, m \in Methods, r \in Roots \cup {NoRoot} : Request(i, m, r)
  \/ \E i \in Ids : Cancel(i)
  \/ StdinEndsOrExit \/ IdleTimeout \/ ProcessExits
  \/ Serve \/ OpWrites
  \/ \E r \in Roots : ProjectChanges(r)

Spec == Init /\ [][Next]_vars

(* The event loop runs what is ready; a resolution and an operation end.   *)
FairSpec == Spec /\ WF_vars(Serve)

-----------------------------------------------------------------------------
Numbers == 1..MaxRequests
Unsettled == {queue[k].number : k \in DOMAIN queue}

(* The state is well formed: the stage belongs to a request, signals to    *)
(* requests that are unsettled, and a finished session has no timer.       *)
TypeOK ==
  /\ writes \in BOOLEAN /\ initialized \in BOOLEAN /\ shuttingDown \in BOOLEAN
  /\ finished \in BOOLEAN /\ exited \in BOOLEAN /\ idleTimer \in BOOLEAN
  /\ (exited => finished) /\ (finished => ~idleTimer)
  /\ requests \in 0..MaxRequests
  /\ queue \in Seq([number : Numbers, id : Ids, method : Methods, root : Roots \cup {NoRoot}])
  /\ stage \in {"queued", "context", "op"} /\ (stage # "queued" => queue # <<>> /\ Root \in Roots)
  /\ wrote \in BOOLEAN /\ (wrote => stage = "op")
  /\ inFlight \in [Ids -> 0..MaxRequests]
  /\ aborted \subseteq Unsettled
  /\ replies \in Seq(Numbers) /\ answer \in Kinds \cup {"none"}
  /\ warm \in Seq([root : Roots, seen : Versions \cup {Pending}]) /\ since \in Versions
  /\ disk \in [Roots -> Versions] /\ reported \in [Roots -> Versions]

(* Every request is answered at most once, in the order of arrival, and    *)
(* none is passed over, whatever mix of immediate refusals, cancellations, *)
(* failed contexts and slow operations they are (session.ts: "Serializes   *)
(* op dispatch in arrival order so replies stay ordered").                 *)
RepliesInOrder == replies = [k \in 1..(requests - Len(queue)) |-> k]

(* Until its answer is written, a request can be cancelled: its id leads   *)
(* to its own abort handle, queued or running (session.ts, inFlight).      *)
CancelFindsItsRequest == \A k \in DOMAIN queue : inFlight[queue[k].id] = queue[k].number

(* A request cancelled before its operation began never begins it, not     *)
(* even when the cancel came while its context was resolved (ops.ts, the   *)
(* checks before and after getContext).                                    *)
CancelledNeverBegins ==
  [][stage # "op" /\ stage' = "op" => ~Cancelled]_vars

(* "A cancelled request therefore always answers with an error, never a    *)
(* result the client walked away from" (docs/cli/serve.md), for the        *)
(* operations, wherever the cancel finds them.                             *)
NoResultAfterCancel ==
  [][replies' # replies /\ Method \in Ops /\ Cancelled => answer' # "result"]_vars

(* The cache holds at most MaxRoots contexts, one per root, and only the   *)
(* request in service may have one that is not resolved: a rejected one is *)
(* never handed to a later request, and making room never drops the one    *)
(* that is being resolved (rootContextCache.ts, get and trim).             *)
CacheSound ==
  /\ Len(warm) <= MaxRoots
  /\ \A j, k \in DOMAIN warm : warm[j].root = warm[k].root => j = k
  /\ \A k \in DOMAIN warm : warm[k].seen = Pending => stage = "context" /\ warm[k].root = Root
  /\ stage = "context" => IsWarm(warm, Root)

(* No operation runs on a context older than a write of this session that  *)
(* completed: after the write, the next context is resolved anew.          *)
ContextsSeeOwnWrites ==
  \A k \in DOMAIN warm :
    reported[warm[k].root] <= IF warm[k].seen = Pending THEN since ELSE warm[k].seen

(* A project is only ever written by a session that allows writes, between *)
(* the handshake and the answer to `shutdown`.                             *)
WritesOnlyWhileOpen == wrote => writes /\ initialized /\ ~shuttingDown

(* Every request is eventually answered unless the session finishes: no    *)
(* refusal, cancellation or rejected context ever blocks the chain.        *)
EveryRequestAnswered ==
  \A n \in Numbers : (n <= requests) ~> (n <= Len(replies) \/ finished)
=============================================================================
