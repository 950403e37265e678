# i18nprune in TLA+

i18nprune is a TypeScript monorepo: a core library that scans a project for
translation keys, keeps its locale files in step with the code, and translates
missing texts through remote providers; a CLI with a long-running `serve` mode;
an editor extension; a web app; and Cloudflare workers behind a share feature.
Most of it is sequential data processing. The parts that are hard to test are
those where promises, processes, requests or runs interleave, and those that
write over what a person or an earlier run has left. These specifications model
the translate path (pool, build of a locale with its caches, generate run), the
commands that edit locale files (sync, missing, cleanup), the caches several
commands share on disk, the serve session, the share worker with the share
commands, and the workspace of the web app.

Paths below are relative to the repository root; `core` is
`packages/core/src` and `cli` is `packages/cli/src`.

## 1. Inventory

| component | state | operations | interacts with | hard behaviour | what makes it correct |
|---|---|---|---|---|---|
| ordered translate pool, `core/shared/translator/utils/orchestration.ts` | results and in-flight flags by position, emit cursor, flush promise chain, first failure | schedule, start gate, job settles, flush, main loop | called by the locale build; calls a mapper (provider) and a consumer (identity guard, progress) | jobs finish in any order; failures, consumer rejections and aborts at any await | in-order, gap-free, at-most-once delivery; bounded overlap; settles; success is complete; failure keeps the longest prefix |
| locale build, `core/generate/localeTranslate.ts`, `core/shared/translator` | rows, working document, cursor, identity streak | serial or parallel build of one document, interrupt, resume with the next provider | pool, providers, translation cache, user | rows applied while later ones are in flight; retries, refusals, partial documents | what is handed on is a prefix without holes; no translated leaf lost; ends |
| translation cache, `core/translator/cache` | L1 map, L2 file | lookup, remember, open by epoch, flush | locale build, project cache (epoch) | answers after a failure; runs that stop; keys made from masked texts | paid answers are kept; a hit is the translation of this text |
| generate run, `core/generate/run.ts`, `resume/run.ts`, `core/translator/policy` | target index, provider chain and cursor, attempts left, failure counts, working document, files on disk | open or skip a target, attempt, fail over, hand off, write partial, resume | locale build, locale files, prompts, configuration | chains of failures over several targets; abort against failure; kill between segment writes; run after run | no text lost; progress kept on fallback; an abort stops; the run ends |
| sync, missing, cleanup, `core/sync`, `core/missing`, `core/cleanup`, `core/shared/json` | locale documents, a command at its prompt | merge and prune, fill, delete | analysis, locale files, developer's edits | plans made before a prompt and applied after it; dynamic prefixes; commands in any order | no words in use are lost; sync leaves a file complete |
| project cache, `core/cache`, `core/analysis/rebuild.ts` | `files.json`, `analysis.json`, and a per-command baseline | fingerprint, decide, scan or patch, save twice, invalidate | every command, serve contexts, locale writers | two files, several processes, kills, stale baselines | what is served equals a full scan |
| serve session, `cli/serve` | request chain, abort handles, flags, idle timer, warm contexts | request, cancel, exit, timers, dispatch, context get and invalidate | editor extension over stdio; core operations | notifications overtake queued requests; cancel against completion; eviction against resolution | ordered single replies; cancels reach their request; no stale context after a write |
| share worker, `apps/workers/i18nprune` | rows, hash keys, upload counters, failure ring, alarm | upload, read, delete, sweep, evict | share commands, web app | a route makes several calls to the object; storage pressure; requests cut half-way | a link stands for one content for ever; quota; expiry; every answer is true |
| share commands, `core/share`, `cli/commands/share` | `share.json` | upload, delete, view | share worker, project cache (epoch) | skip decisions on stale data; lost answers and retries | an entry says what its link holds; commands end |
| web workspace, `apps/web/src/pages/workspace`, `lib/snapHold.ts` and neighbours | address, session, snapshot hold, memo of answers | open, navigate, share, override, delete, run an operation | share worker, other pages | answers that land after the session they were asked for | the page shows the project of its address; what it holds is of that project |
| meta worker, `apps/workers/meta` | TTL records | get, refresh | npm, GitHub, the extension gallery | failed refreshes | a good record is kept |
| extractor and analysis, `core/extractor`, `core/analysis` | none | scan | project cache | parsing | observations match the source |
| locales read and write, `core/shared/locales` | files | read, split, write segments | generate, sync | several files per locale | a document round-trips |
| editor extension, `packages/vscode` | one serve client, two webviews | watch, request, cancel | serve session | request ids of two panels; a project switched during a preview | an answer reaches the view that asked |
| providers, config, patching and init, reports, CLI output, web storage, sites | little or none | | | | |

`PROJECT.json` lists each part with its files and status, and each hazard at its
line.

## 2. What is modelled

### TranslatePool, OrderedDelivery, TranslatePool_proofs

`TranslatePool` is `mapWithConcurrencyWithProgressOrderedSequential`. An action
is one synchronous segment of the event loop, the code between two awaits.

| code | model |
|---|---|
| `inFlightByPos`, `results` | `job[p]`: idle, gate, running, done |
| `createStartRateGate` | `ticket`, `nextTicket`: waiters are released in arrival order, at any time |
| `trySchedule` | operator `TrySchedule`, part of every action after which the code calls it |
| a job's async body | `PassGate`, `PassGateAborted`, `RunResolves`, `RunRejects` |
| `enqueueFlush`, `flushTail` | `enqueued`, `drained`, `consuming`, `tailRejected`; `FlushBegins`, `ConsumerAccepts`, `ConsumerRejects` |
| the `while` loop and the last await | `main`, `awaited`, `spins`; `Begin`, `Tick`, `TailResolves`, `TailRejects`, `Finish` |
| the host's AbortSignal | `Abort` (external) |

`OrderedDelivery` is the abstract promise to the caller: hand over items in
order, one at a time, settle once, resolve only when all were accepted.
`TranslatePool!ImplementsDelivery` is that specification, liveness included,
under a refinement mapping from the flush chain; the run `pool_failures` checks
it. Progress callbacks, milliseconds and the other two pools of the file are
left out.

### LocaleBuild (with MCLocaleBuild, LocaleBuild_proofs)

One target, built by one run with one provider after another. `rows` is what
the build decides of each leaf (`Begin`, `FirstAttempt`, `NextAttempt`: keep,
copy, empty, translate, and what a resume skips); `job[l]` is a translation on
its way, with its try, text, and whether it came from a provider; `work` and
`cursor` are the working document and the row the cursor waits for; `guard` is
the identity guard (count of trailing source-identical texts, question asked,
declined). `Start`, `Reply`, `ReplyFails` are a job with its cache lookup,
request, retry and bookkeeping; `Hand`, `Confirm`, `Decline` hand its text to
the guard, in the order of `OrderedDelivery`; after a failure the texts before
it are still handed over, then `Interrupt` ends the attempt. `Abort` is the
host, `LateReply` an answer to a request that a rejected pool left running,
`End` the end of the run, which flushes the cache. A serial build is a pool of
one whose text is handed over before the next job starts. `l1`, `l2` and `file` are the caches: `l2` is what was opened from `file`
when its epoch is the one of the tracked files. `paid` is a history variable.
A text is who wrote it (source, an earlier hand, a provider, a leaked sentinel)
and the placeholder it holds; a leaf's `shape` is its masked text, which is what
the cache is keyed by.

### GenerateRun (with MCGenerate, LocaleCommands_proofs)

Successive CLI runs over the same files. A leaf is reduced to what the program
tests of it (absent, equal to the source, leaked sentinel, translated before or
now); a build to its result, a prefix of rows plus a failure, which is what
`PrefixBuilt` establishes of the build and `LongestPrefixDelivered` of its
pool. `StartRun`, `SkipTarget`,
`OpenTarget` and `TargetAborted` are the head of the target loop with preflight
and prompts; `MissingCredentials`, `AttemptAborted`, `AttemptSucceeds` and
`AttemptFails(outcome)` one pass of the attempt loop with the whole catch block
(classification, verb, escalation, handoff offer); `HandoffPicked` and
`HandoffFails` the picker; `KeepPartial`, `Discard`, `WriteSegment`, `WriteFails` and
`FinishTarget` the end of a target; `ReadFails` the read that throws; `ResumeFallsBack` and `ResumeGivesUp` the
simpler chain of `--resume`; `Abort` and `Crash` the host. A file is written in
place (`core/runtime/node/fs.ts:31`): a write that fails or is killed may leave it
cut off, in `broken`. The next run reads such a target by its layout (`CanRead`,
`IsKnown`, `Seen`): a flat file that does not parse ends the run, in a directory
one such file makes the read of all of them null, and what the run sees of the
target is nothing. Not modelled:
`--dry-run`, `--no-repair-sentinel-leaks`, copied leaves (LocaleBuild has
them), metadata files, `--resume` on a target without a file.

`env` is chosen once from `Environments`: targets, layout (segments, and which one
each leaf is in), number of runs, policies, hosts, commands, first documents, and
whether the host aborts or kills and whether writes fail. `before`
is a history variable; `abortedAt` is the signal with the target at which it
fired.

### LocaleEdits (with MCLocaleEdits, LocaleCommands_proofs)

`sync`, `missing` and `cleanup` on one source file and its targets, in any
order and any number. The code between two awaits is one step: `Sync` has none
and is one action with template, merge, prune, fill and leak repair;
`missing` and `cleanup` plan for all files first (`MissingPlan`,
`CleanupPlan`), then ask file by file (`MissingWrite`, `CleanupWrite`,
`Decline`, `Interrupt`), while `EditCode`, `EditLeaf` and `DropLeaf` go on in
between. `missing` sets the planned paths in the file as it is then (`Marked`, and
`Writable` is its write plan), or, when the write plan is empty, in the document it
read before the prompt; `cleanup`
writes the document it prepared before the prompt, or, when only some keys are
approved, a new one. A document is a tree: no leaf lies under another. A key of the
code may still be a node over leaves, or lie under a leaf. `merge` and `prune` are written as what they compute over leaf paths,
including the node at which the walk leaves the template. Policies are the
copied prefixes, the uncertain ones, and whether these protect. Objects left empty
by a removal are not modelled. The module's
`EditsInit`, `EditsNext` and `EditsSpec` are named apart from those of
`GenerateRun` because one module proves theorems about both.

### ProjectCache (with MCProjectCache, ProjectCache_proofs)

`files.json` is `filesIndex`, `analysis.json` is `analysis`. A command is a
process whose context snapshots `files.json` once (`Start`, `base`); each
dispatch reads the tree and the analysis (`Fingerprint`), scans or patches
(`Produce`), saves two files (`SaveFiles`, `SaveAnalysis`) and serves (`Use`).
`Plan` and `FullRescan` are the decision code. `WriteLocale` and `Invalidate`
are a generate or sync between two dispatches; `Exit`, `Crash`, `Lose` and
`Edit` are the environment. A scan counts each file's observations, so
a patch that appends twice, forgets, or mixes shows as a different value, and keeps
the source texts its missing keys come from. `IsScan` says what is promised: every
observation once, and missing keys of the source locale as it is; with
`rebuild = partial` they are held to its primary segment, since the code does no
more (section 5).

`env` selects what a behaviour may do: the rebuild profile, dispatches per
command, whether commands overlap, and faults (`crash`, `write` failure, `lost`
file, and `race`, an edit between fingerprint and scan). No run enables `race`:
`ServedIsFresh` then fails by construction, since nothing fingerprints again
after the scan. The source locale is chosen at the start and stays. A locale is one
segment or several (`SegmentsOf`): the missing keys are computed against all
segments of the source locale (`SourceTexts`), but only the one that the context
names, `source`, is classified as the source; an edit of another one looks like a
target's. Only the primary segment of a locale is always there. The locale reads
that a process remembers (`ctx.localeRead`) are not modelled.

### ServeSession (with ServeSession_proofs)

One JSON-RPC session over stdio. `Request` appends to the promise chain;
`Dispatch` starts its next link (`Refuse`, `Initialize`, `Shutdown`, `Ping`,
`StartOp`); an operation passes through "context" (`ContextResolves`,
`ContextRejected`) and "op" (`OpWrites`, `OpCompletes`, `OpEndsEarly`); `Settle`
writes the reply and releases the abort handle. `Cancel`, `StdinEndsOrExit`,
`IdleTimeout` and `ProcessExits` interleave with all of it. `warm` is
`RootContextCache`, least recently used first; a context is the version of the
project it was resolved from, and one whose resolution is running is `Pending`.
Ids are compared as the strings the server keeps; the client does not reuse the
id of a request it waits for, so the ids 1 and "1" are one id here. A read is a
single step; the operations' bodies, framing and the MCP bridge are left out.

### ShareService, ShareWorker (with MCShareWorker, ShareWorker_proofs)

`ShareService` is what the worker promises: rows that each stand for the content
their id was drawn for, requests answered in one step, answers that are true at
that moment (`Fits`), and rows that may go at any time. `ShareWorker` is the
routes and the Durable Object behind them. A request occupies a slot of `call`;
one call of a route to the object is one step (the object awaits only its
storage while it serves an event, and the platform delivers no other event
meanwhile): the quota check (`CheckQuota`, `RejectBody`), the content index and
the row it leads to (`LookUp`, `LoadFound`, or `PurgeForForce`), `PutRow` with
the failure ring and eviction, `Read`, `DeleteRow`. `Sweep` is the
alarm; `Cut` is the platform ending a request between two awaits; `Age`,
`NewSlot`, `FillUp` and `Relieve` are time and the storage limit. `store` is
what is persisted, `granted` a history variable. `ImplementsService` is the
refinement. Bodies, the read-only reports of a stored project, and all but one
client address are left out.

### ShareClient (with MCShareClient, ShareClient_proofs)

The share commands of one project composed with `ShareService` as their worker.
`share` is `share.json`, the least recently used entry first; a command of a
process has its copy of it (`mem`), the epoch it started from (`base`), the
payload it built and the request it waits for. An upload goes through
`Prepare`, `Load` (skip by epoch), `Build`, `Choose` (skip by hash), `Verify`
with `Skip` or `Unverified`, `Rebuild`, `Decline`, `Upload` and its retries
(`Uploaded`, `UploadFails`); `StartDelete`/`Delete`/`Deleted` and
`StartView`/`View`/`Viewed` are the other commands. An answer may be lost while
the worker goes on. `Edit`, `OtherAnalysis` and `OtherUser` are the
surroundings.

### WebWorkspace (with WebWorkspace_proofs)

One browser tab of the web app. `tab` holds what React and the page's modules
keep in memory: address, session, metadata request, snapshot hold with its
request in flight, memo of answers, jobs on their way. React runs the effects of
a commit before the next one, so a commit and its effects (`Commit`, with
`OpenEffect` and `SessionEffect`) are one step; an answer that lands between them is one that lands before both. The
epoch counter of `snapHold.ts` is the flag `fresh` of each request. User actions
are `OpenLocal`, `OpenRemote`, `GoHome` (any page but the workspace),
`ClearSession`, `Navigate`, `RunOperation`, `Override` (Reprocess, Clear
override and Re-upload as well), `Share`, `Delete`, `EditConfig`, `Dismiss`; `OpenSettles`,
`HydrateSettles`, `OperationSettles` and `JobSettles` are the answers; `Evict`
is the worker. A project is its id. The preparation of a zip is part of the step
that opens it.

Definitions marked `\* mutant` are the deliberate errors with which each
property is tested; no specification uses them.

## 3. What is checked

| run | question | result |
|---|---|---|
| `pool_failures` | every interleaving of 5 items in a pool of 3 with failing mappers, failing consumer, abort: `TypeOK`, `WindowBound`, `LongestPrefixDelivered`, `NeverStalls`, `NoRunAfterAbort`, `ImplementsDelivery` | holds, 22 thousand states |
| `locale_build` | seven leaves of every policy, serial and parallel, plain, forced and resumed, two providers, hits, retries, refusals and an abort: `PrefixBuilt`, `StreakTrue`, `PaidKept`, `BuildEnds`, `TranslatedStays` | holds, 151 thousand states |
| `build_placeholders` | two leaves that differ by the name of a placeholder: `PlaceholdersKept` | violated |
| `generate` | one run over two new targets under four policies with an abort and failing writes; two runs in a row over ten first documents with kills; two runs over a flat file with failing writes: `ThrowKeepsFiles`, `ChainSound`, `AbortStopsTargets`, `KeepsText`, `WrittenIsComplete`, `ProgressKept`, `RunEnds` | holds, 432 thousand states |
| `locale_edits` | sync, missing and cleanup in any order with edits at any time: `UsedWordsKept`, `SyncIsComplete` | holds, 371 thousand states |
| `sync_deep_prefix` | a dynamic prefix of two segments whose parent the source lacks: `ProtectedWordsKept` | violated |
| `project_cache` | two profiles, see below: `ServedIsFresh`, `BoundAnalysisIsAScan`, `NoNeedlessRescan` | holds, 2.3 million states |
| `project_cache_repeat` | `ServedIsFresh`, partial rebuild with two dispatches in a command | violated |
| `serve_session` | four requests, two ids, two roots, one warm context, all cancels, exits, expiries and failures: `RepliesInOrder`, `CancelFindsItsRequest`, `CacheSound`, `ContextsSeeOwnWrites`, `CancelledNeverBegins`, `NoResultAfterCancel`, `EveryRequestAnswered` | holds, 340 thousand states |
| `share_worker` | two overlapping requests of any kind, storage that fills up, the sweep, quotas, cut requests: `WorkerTypeOK`, `IndexSound`, `QuotaKept`, `AlarmArmed`, `ImplementsService` | holds, 1.0 million states |
| `share_client` | two commands of two processes, and one command with both payloads, against the abstract worker: `EntriesTruthful`, `CommandsEnd` | holds, 273 thousand states |
| `web_workspace` | one tab, three hosted and two local projects, six acts, answers in every order: `HeldIsTrue`, `UrlIsShown`, `LoadingEnds` | holds, 570 thousand states |

The violated runs state what a comment or a document of the repository says;
each is a finding in `PROJECT.json` with the line and the counterexample's
story. In short: a cached text carries the placeholder of another leaf; `sync`
deletes translations under a protected prefix of two segments; and a second
dispatch of one command patches a change twice. `KeepsText` speaks of targets
whose files leaked no sentinel and parse: re-queuing a leaked leaf can drop the file's
other texts, and a file that does not parse makes the run see nothing of its target
(section 5). First documents of `generate` have a leak and broken files all the same,
for the other properties. What a write that is cut off costs is stated: the texts of
one file. `ThrowKeepsFiles` says the same of a write that fails in the middle of a
target: the segments before it are new, those after it are untouched.

### Bounds, and why they are enough

* Pool: a window of 3 over 5 items leaves a position outside the first window
  and one outside the second, so the window slides twice; a hole can be first,
  middle or last. `Concurrency = 9` is clamped by `WorkersCap = 3`. `SpinCap` is
  5 where the code has 250,000: the property with the smaller cap is the
  stronger one.
* Locale build: seven leaves are one of each policy and three texts, two of them
  the same, so that a parallel build asks for one text twice and a serial one
  finds it in L1; `Threshold = 2` makes two identical texts a question, which
  can come within an attempt and across a declined leaf; two tries and two
  attempts are a retry that succeeds or fails and a provider that goes on from a
  partial document. Two files make the disk cache a hit, or stale.
* Generate: two targets are enough for whatever one leaves to the next (chain,
  failure counts, abort); two leaves in two segments give every prefix, a
  kill between segments, and a broken one beside a good one; the flat layout has both
  leaves in one file; two rows and a third catalogue provider give a
  fallback, a pick from within and from outside the chain; a provider without
  credentials ends the run. The four policies have escalation thresholds of one
  to three. Two runs are a failure and its repair.
* Locale edits: four keys are a literal, which one policy copies, one under a dynamic prefix, its
  sibling, and the node over both, which one of the scans resolves: alone, in a file
  that has leaves under it, it is the fallback of `missing`, and next to a literal it
  is skipped or replaced. The scans resolve some, none, or have
  no dynamic key. Two edits are one of the code and one of a file, or two of a
  file; the commands themselves are not bounded.
* Project cache: two source files (one absent at first), a locale of two segments
  and one of one, either of them the source, and two contents give added, changed, deleted, and both sides of the 70 percent
  threshold. The profile `Safe` has two overlapping commands, kills, failed
  writes and losses under `rebuild = full`; `Careful` has four commands in a row
  with three edits or losses under `rebuild = partial`, one dispatch each, so all
  patches are taken. Under `rebuild = partial` overlapping commands and repeated
  dispatches break freshness (`project_cache_repeat`), and the sound run does
  not allow them.
* Serve: four requests are a handshake and three more (an operation, a second
  that hits or evicts its context, one behind); `MaxRoots = 1` with two roots
  makes every use of the other root an eviction. `MaxVersion = 1` is a project before and
  after a write.
* Share worker: one content under two kinds gives two index keys and, with two
  ids, two rows of one content; a quota of one is exceeded by any second upload;
  a ring of two is filled by two failed writes; two events are a full
  storage and its relief, or an idle row and the end of an hour.
* Share commands: two commands that run at the same time need two ids; a command
  with both payloads needs a third one for the second try of its report, and runs
  in an environment of its own. One event is an edit, a lost answer, or somebody
  else's upload of the same content. Two tries are a retry and its end.
* Web: three hosted projects are one that is open, one that replaces it and one
  that is shared; two local ones are a zip and its successor. Six acts are
  enough to leave a project and return to it with an answer of the first visit
  still on its way; three snapshot requests overlap.

Contents and processes of the project cache and the slots of the share worker
are symmetric and TLC uses it; none of these runs checks liveness. The other
runs use no symmetry. `CHECK_DEADLOCK FALSE` is set where the system stops:
pools, runs and sessions end, and the counted environments are used up.
`locale_edits` checks deadlock.

### Fairness

* Pool: weak fairness of each job's step, of the flush chain and of the main
  loop. The event loop runs promise reactions and `setImmediate` callbacks;
  start-gate timers fire. That mapper and consumer calls settle is an assumption
  about the network: the core sets no timeout on a provider request, and one that
  is never answered would hold a run until the host's connection fails. Nothing forces an abort or a failure.
* Locale build: `WF(Build)`, on the same assumption; prompts are answered. An
  abort and the next attempt are never forced.
* Generate: `WF(Step)`; an attempt settles, a prompt is answered. A kill and an
  abort are never forced.
* Serve: `WF(Serve)`: the chain's next link is run, a context resolution and an
  operation end. An operation's writes are not forced, nor is the end of stdin.
* Share commands: each process goes on with its command, the worker answers each
  request and drops one nobody waits for. Every request of `worker/fetch.ts` has
  a timeout. `ShareWorker` itself states safety only.
* Web: `WF(OpenSettles)` and `WF(HydrateSettles)`: a fetch settles, with an
  answer or an error. The user is never forced to act, operations and uploads
  may take for ever.

## 4. What is proved

Each module `X_proofs` proves theorems about `X` for every value of the
constants that satisfies the named assumptions of `X`, which TLC evaluates in
each run of `X`; `LocaleCommands_proofs` is about the commands that write locale
files, `GenerateRun` and `LocaleEdits`, which share no state. All are `Spec => []P` or `Spec => A` with an action property `A`;
a theorem and the property it states have a similar name.

`TranslatePool_proofs` proves, for any number of items, any requested
concurrency, worker cap and spin cap, with or without failures:
`TypeCorrect`, `OrderedConsumption`, `SlidingWindow`, `BoundedOverlap`,
`AtMostOnce`, `QuietOnceSettled`, `PartialProgressKept`, `SuccessIsComplete` and
the action property `AbortStopsRequests`. Two theorems take `SpinCap >= N` as
well, which the code's cap of 250,000 justifies for every list it is called
with: `NoStall` (`NeverStalls`) and `ImplementsOrderedDelivery`, the refinement
of `OrderedDelivery` without its liveness. Between two idle iterations of the main
loop the consumer has accepted an item, so the loop is never more iterations idle
than items are accepted (`SpinInv`).

The argument is one inductive invariant, `TranslatePool!IInv`. The checked
properties are not inductive alone. That a position is translated once needs to
know that an idle position with a call behind it implies a recorded failure
(`FreshUntilScheduled`), because the two arrays of the scheduler forget it. That
a settled pool is quiet needs that the main loop reaches its last await only
with nothing in flight and nothing schedulable, waiting for the newest flush
(`ExitSound`). That the delivered prefix is the longest needs that a result ready
to be delivered has a flush callback still to run (`ChainSound`). Of the counter
`inFlightCount` it must be known that it is the cardinality of the jobs in
flight (`WindowBound`); the lemmas on cardinalities carry that over
`TrySchedule`. Then `Init => IInv`, one step per action for
`IInv /\ [Next]_vars => IInv'`, and each property follows. The overlap bound is
a consequence of the window alone.

`ProjectCache_proofs` proves, for any project, any number of overlapping
commands and any threshold: `TypeCorrect`; and, in behaviours that are
`Undisturbed` (`rebuild = full`, no edit between a fingerprint and its scan),
`FreshUnderFullRebuild` and `BoundUnderFullRebuild`, with kills, failed writes
and lost files at any point. The assumptions are the three named ones of
`ProjectCache`. What makes it inductive (`ProjectCache_proofs!IInv`): the index
on disk is of the configured source, so the fingerprint is the whole tree
(`DiskSound`); without patches a dispatch either scans or reuses a payload bound
to what it has just fingerprinted (`FullPlan`); and each command carries the
tree it fingerprinted and the scan of it from production to the end (`Fresh`),
so that it may save its pair of files at any time, over anybody else's. With a
source locale of several segments the missing keys are those of all of them. The
condition is the point: under `rebuild = partial` the same statement is refuted
by the run `project_cache_repeat`.

With patches there is a second condition, `OneByOne`: commands run one after the
other and dispatch once each, no save fails, no command is killed, no file is
edited between a fingerprint and its scan. All other edits, locale writes and
lost cache files remain. Then `FreshOneByOne` and `BoundOneByOne` hold for any project and
threshold. The invariant (`OnceInv`) is that index and analysis are of one tree
whenever no command is between its two saves (`Agree`, `Saving`), and that
a command which has not dispatched holds the index on disk as its base
(`Steady`): so what it patches is the scan of the tree it compares with, and
`PatchOfScan` makes the patch a scan of the tree as it is: a scan up to the missing
keys of secondary source segments, as `IsScan` says. Each exclusion is
needed, and TLC finds a counterexample of both statements when any one is lifted:
a second dispatch patches against the base of the first (the run
`project_cache_repeat`), so does a command that another one overtook; a kill or a
failed write between the two saves leaves an index newer than its analysis; an edit
after the fingerprint is indexed under the wrong state.

`ServeSession_proofs` proves, for any number of ids, roots, requests and warm
contexts: `AnsweredInOrder`, `Cancellable`, `GuardedWrites`, and the action
properties `CancelIsHeeded` and `CancelIsAnError`, which need no invariant. The
invariant of the others (`ServeSession_proofs!IInv`) says that the queue holds
the newest requests in the order of their numbers under distinct ids
(`ChainInv`), and which requests can be past the first stage (`StageInv`):
a shutdown cannot overtake a running write because it is a link of the same
chain. Each step does one of three things to the chain: it appends a request,
answers the first one, or leaves it alone.

`ShareWorker_proofs` proves, for any contents, slots, ids, quotas, ring length
and number of events: `WorkerTyped`, `IndexIsSound`, `AlarmStaysArmed`,
`QuotaIsKept`, and `WorkerImplementsService`, the refinement of the abstract
service. The assumption is `ShareWorkerAssumption`. The invariant
(`ShareWorker_proofs!WorkerInv`) ties everything to the content an id was drawn
for: a row holds it (`RowsBorn`), an index key leads to an id of its content
(`IndexBorn`), and so does a request between its lookup and its load
(`CallsBacked`), which is why two separate calls of a route act on one content
although rows and keys come and go in between. `AlarmArmed` is inductive by
itself, `QuotaKept` with the counters that bound what was granted
(`QuotaCounted`). For the refinement, `Moved` says what any step of the object
does to its rows; each step of `ShareWorker` is then one of `Vanish`, `Work`,
`Cut`, `Submit` and `Reply` of the service, or a stutter.

`ProjectCache_proofs!QuietNeverRescans` (`NoNeedlessRescan`) needs no condition on
the rebuild policy. Its invariant (`AloneInv`) says when the project is settled:
only after commands that ran alone, with the index and the analysis of the tree as
it is. Each command that is not quiet must be able to say why it cannot break
that (`Orderly`): a calm dispatch is about the tree as it is and has saved the
index before it saves the analysis, a command that wrote locale files has yet to
invalidate them. The last clause does not hold of a command that dispatches
between its write and its invalidation. The code never does
(`core/generate/run.ts:120-133`, `core/sync/run.ts:70-141`), and the guard of
`Fingerprint` says so; an earlier form of the model, without the guard, let it,
and the proof attempt is what showed it. Of a missing file it must be known that
it is no value of the tree's (`NoFileAssumption`).

`ServeSession_proofs!CacheIsSound` and `OwnWritesAreSeen` see the context cache as
a set of entries, one per root; lemmas about `Without`, `Touch`, `Store` and `Trim`
say what each does to that set and to its order. The entry being resolved is the
most recently used one, which is why trimming spares it whatever the limit. A
context is then at least as new as the last write reported for its root.

Of `GenerateRun`, `LocaleCommands_proofs` proves, for any targets, leaves, segments, providers, policies
and number of runs: `TypeCorrect`, `ChainIsSound`, `ThrowsKeepFiles`, `AbortsStop`,
`TextIsKept`, `WrittenTruly`, and the action property `ProgressIsKept`. The
invariant relates, for the target at work, the file as the run found it, the
working document (`WorkInv`) and the files on disk, segment by segment while they are
written and after a write has failed (`WriteInv`); of the other targets it says that what was not reported is
untouched (`FilesInv`). `ChainInv` keeps the cursor inside a chain that
`Prioritize` reorders; its lemmas are about removing an element of a sequence and
putting it back after the failing one.

Of `LocaleEdits`, for any set of paths, targets, templates and policies:
`EditsAreTyped`, and the action properties `UsedWordsAreKept` and
`SyncsAreComplete`. The assumption (`EditsAssumption`) is that paths are nonempty and
first documents are trees; that every document stays one is proved with
`EditsAreTyped`. Keys of the code may be anything. `sync` writes in one step, and what it does is a fact about merge and prune: a kept
path is kept at each of its nodes, because the walk that leaves the template does
so at a first node (`AnchoredIsKept`, which takes the least one), and what it keeps is
neither over nor under a leaf of the template (`KeptIsApart`). `missing` and
`cleanup` act on a plan that code and files may have outrun; the invariant
`PlanSound` says what a waiting plan can still be trusted for: it names only what
its own scan and the files it read allow, and the copy of the source document
shown at the prompt holds no translation.

`LocaleBuild_proofs` proves, for any number of leaves with any policies, texts and
shapes, any concurrency, tries and attempts: `TypeCorrect`, `BuildIsAPrefix`,
`PaidTextsAreKept`, `StreakIsTrue`, and the action property `TranslationsStay`. The
invariant has layers, each proved on top of the first. That one says how jobs and rows belong
together and in which order texts are accepted (`JobsInv`). For the document, the
row at the cursor is one that a job will fill (`CursorWaits`): so the cursor
passes no hole. For the translations, a text is only sent where neither file nor
document has one (`TextRows`, `ResumeRows`). For the caches, what was paid for is
in L2, or is an answer that a serial run has yet to show to the guard
(`PaidCached`). The guard's count is a statement about cardinalities of trailing
sets, extended by one leaf at a time. The induction in tryAdvance is replaced by
`CursorStops`: its result is a least element.

`ShareClient_proofs!EntriesStayTruthful` holds for any contents, processes,
requests, ids and tries. Entries are truthful in `share.json` and in the copy of
each running command (`Reads`), though the copies differ and overwrite each other;
truth is about ids that were drawn, and what was drawn stays (`Grown`). Of a request
it must be known that it names a link of its own content from its beginning to
its answer (`Matches`), that the one an upload waits for is of the payload that the
command built (`Waits`), and that no two commands wait for the same (`Apart`), so
that the worker may drop, delay or answer any other. The proof is over
`ShareService`, and `WorkerImplementsService` says that the worker is one.

`WebWorkspace_proofs` proves, for any number of projects, operations and acts,
`Inductive`, `HeldStaysTrue` and `UrlStaysShown`. The invariant is about the tab
alone. `Sound`: whatever is held, remembered, or may still be applied is of the
session that the second effect last ran for. `Follows`: on the workspace page that
is the session shown. `Shows`: a shown address is open, being opened, or failed. A
step is an operation on the tab that keeps `Sound`, followed by a commit that
restores the other two.

Only model-checked:

* the liveness properties (`EveryRequestAnswered`, `RunEnds`, `BuildEnds`,
  `CommandsEnd`, `LoadingEnds`, and the liveness that `ImplementsDelivery` adds to
  the refinement proved above): fairness and ENABLED are out of the prover's reach.

Not claimed: the freshness of patched payloads outside of `Undisturbed` and
`OneByOne`, which `project_cache_repeat` refutes; and what a recursive function of the
program computes for every input, since the induction theorems are out of reach:
the walks of the code are modelled by what they compute.

## 5. Statements that do not hold, and have no run

Met while modelling; the runs' bounds and guards keep clear of them. Where a
line of the repository says otherwise, it is quoted.

Translate path.

* A pool whose consumer rejects (the identity guard) settles by its main loop
  (`orchestration.ts:343`), while jobs that hold a ticket still pass the gate and
  call the provider (298-300); `docs/issues/translate.md:29`. The answers of
  these late requests reach L1 and, if they come after the flush, no file.
  `LocaleBuild.Start` stops at the first failure, and its `Abort` is enabled only while
  a job waits: narrower than the host's signal, which may also fire at a prompt.
* `core/generate/run.ts:847`, "never write a partial locale on abort": an abort
  that races a failing request leaves one.
* `resume/run.ts:67` walks the leaves the target has, so `--resume` does not add
  missing ones (`docs/commands/generate.md:27`), and `:79-94` treats a missing
  file in a way of its own, which is not modelled.
* Re-queuing a leaked leaf (`missingTargetLeaves.ts:52`) can drop the file's
  other texts (`docs/config/translate.md:145`); a leaked leaf under `preserve`
  is sent to the provider (`localeTranslate.ts:263`).
* A serial build counts a refused text as a failed try
  (`core/shared/translator/index.ts:62-73`). A parallel one caches a text before
  the guard sees it, a serial one after (`invokeWithL1.ts:79`).
  `validateRestored` detects no dropped placeholder (`placeholders/index.ts:56-64`).
* One file of a directory target that cannot be read makes the merged read of all of
  them null (`core/generate/run.ts:126-127`, `core/shared/locales/read/fromContext.ts:147`).
  Preflight then says `proceed` (`assessTargetPreflight.ts:30,64`), the working
  document starts empty, and the target is translated again over the texts of its
  other files, without `--force` and without a question. The flat layout throws
  instead, at that target of every later run, until the file is repaired by hand.
* A write that fails (`core/shared/locales/write/bundle.ts:78-81`) ends the run inside
  the loop over the segments (`core/generate/run.ts:946-948`): the target is then
  neither as it was nor as it should be, and reported as nothing. Files are written in
  place, so the one at work may be cut off.
* The flush of the disk cache writes the whole file (`l2Store.ts:144`): of two
  processes the last one wins.
* Every rejection in the flush chain has a handler; a picked provider is the next
  one tried; the fallback verb has a provider to fall back to under single
  routing; credentials made up for a handoff outlive the attempt; the failure
  count is of consecutive failures (no success is ever recorded).

Locale files. Of `skipFillPaths`, `merge.ts:15` says they "should keep target
values", and line 58 omits them, value and all; `copyPrefixes` compares raw
strings (`preserve.ts:102`), so `nav` also covers `navigation`; `cleanup` writes
the plan it made before the prompt over later edits (`cli`
`cleanup/run.ts:255-259`), which is why `UsedWordsKept` excepts a file that was
edited in between. A key that the code resolves and that is a node over leaves of a
file, or lies under a leaf, counts as missing there (`missingLiterals.ts:19-25`); the
write plan skips the former (`missing/writePlan.ts:38-40`), and when it skips all, the
fallback (`missing/run.ts:417`) sets each path in the document all the same, so that
`nav` replaces `nav.home` and all its words by one placeholder; `UsedWordsKept` says
so. A key under a leaf is reported as added and not set. `sync
--no-repair-sentinel-leaks` (`sync/run.ts:553`), with which leaks stay, is not modelled.

Caches and serve. A switch of `locales.source` between commands is served from
the cache (`core/cache/dispatch.ts:217-236`, `docs/cli/cache.md:53`). In a directory
layout an edit of a source file that is not the primary one
(`core/cache/dispatch.ts:57-59`) is classified as a target's
(`deltaClassify.ts:46-49`); when nothing else changed, the analysis is reused and bound
to the new index (`rebuildPolicy.ts:54-59`, `dispatch.ts:250-279`), with the missing
keys of before, under the default profile and until the next scan or source patch
(`docs/cli/cache.md:168`: "Re-read source locale segment(s) and recompute
**`missingKeys`**").
`ServedIsFresh` and `BoundAnalysisIsAScan` hold them to the primary file there; demanding
all segments is refuted by the same run. With `rebuild = full` they are of all
segments. `finish()`
exits without draining (`cli/serve/session.ts:356`, ADR 012:135,138). A change
of configuration while a context is warm is not seen by a busy session. An operation
that fails midway answers with an `ok: false` result and does not report what it wrote
(`cli/serve/ops.ts:312-327`, against `docs/cli/serve.md:114`); `OpEndsEarly` is an error
reply in its place, and `ContextsSeeOwnWrites` speaks of reported writes.

Share. The worker stores any project id with any hash a client sends
(`do.ts:204-207`, `projects/ingest.ts:64,92`): that an id stands for one content is
true of the shipped clients, which draw it for the content, and `Submit` assumes it. A
platform error between a row's put and its alarm (`do.ts:63-65`), other than a full
storage, is not modelled. Concurrent uploads of one content make two rows; deleting the older one
removes the index key of the newer (`do.ts:212-213`); a forced upload that
purges and then cannot write has lost the old row; counter keys are never
deleted. A full storage makes a read answer 404 (`routes/shared/store.ts:8-12`),
and the client drops a good entry. The epoch of a skip is that of `files.json`
when the command started (`resolveInputFilesEpoch.ts:25-27`), so an upload can be
skipped after an edit. Two commands at the same time lose each other's entries of
`share.json`; `share delete` writes it under a read-only cache
(`ops/delete.ts:33-36`).

Web workspace.

* Re-upload or override of a hosted project leaves the old id in the address;
  the first effect then opens that again, and "Shared project unavailable" or the
  old project takes the place of the new (`index.tsx:487`, "Use Share → Copy link
  for the new project id").
* A snapshot request of the previous session that ends late clears the promise
  of the new one ("One GET /snapshot per remote session key; deduped in-flight"),
  ends its loading screen, and can raise "Project missing on the worker"; a 404
  of an old operation clears the new hold and shows its banner there.
* A share that ends after Clear session brings the cleared session back.
* A link that is only copied is not checked against eviction; a hosted copy that
  was evicted cannot be deleted, so its binding stays; `applyConfigOverride`
  deletes before it uploads.
* "Clear override + rebuild" stays enabled while an operation runs
  (`config.tsx:60-69`, `index.tsx:498-502`); `Override` requires an idle page. The
  epoch guards on which the properties rest do not depend on it.
* The memo key ignores the tag of an operation (`opMemo.ts:19`,
  `operations.tsx:184,204`): the second tag shows the first one's answer.

Extension (not modelled). Request ids of panel and editor views collide
(`api.ts:306-318`, `dashboardWebview.ts:339-371`); Stop before the configuration
is loaded sends no `generateFinished`; a preview confirmed after the project was
switched writes to the other project; overlapping refreshes apply out of order.

## 6. Plan

Order: the translate path first, because it spends money and writes files; then
the state several commands share; then the long-running session; then the
remote store and its clients. All modules of that order are written, and every
safety property of the passing runs is a theorem. What could be added:

1. The step from one pass of `GenerateRun` to a build of `LocaleBuild` as a
   refinement; it is by the checked result today.
2. The preparation and validation of a project, the hosted records of the meta
   worker, and the extension's panels, which are listed below as not modelled.

Composition: `TranslatePool` implements `OrderedDelivery`, whose order
`LocaleBuild` takes for granted; `GenerateRun` uses a build through its
checked result. `ShareWorker` implements `ShareService`, which `ShareClient`
extends as its worker; `WebWorkspace` uses its reads and uploads. The
`Fingerprint` baseline of `ProjectCache` is what a warm context of
`ServeSession` holds.

## 7. Not modelled, and why

* Parsing and printing (extractor, patching, configuration, reports, help, human
  output, payload archives) are data: a model would restate them.
* HTTP adapters: their results are enumerated by the modules that use them.
* Prompts beyond their answers, flags, and sites are presentation.
* The unordered pools and `runTranslate` deliver nothing in order; the start gate
  is modelled by its order, not its milliseconds.
* The meta worker replaces a record of public metadata whole when it expires; its
  one hazard is listed.
* The editor extension is the client of `ServeSession`, whose requests are
  enumerated freely there; the webview messages behind it (section 5) are in no
  module.
* Two commands that flush the translation cache or write a locale file at the
  same time: the code has no protocol there, the last writer wins.
