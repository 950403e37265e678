---------------------------- MODULE LocaleBuild ----------------------------
(***************************************************************************)
(* The building of one target locale (generate/localeTranslate.ts) with    *)
(* the translator's caches, identity guard and retries: rows are           *)
(* classified, jobs run one by one or in the ordered pool, the cursor      *)
(* places finished rows, an interrupted attempt hands its partial document *)
(* to the next provider, and the disk cache is flushed when the run ends.  *)
(*                                                                         *)
(* The pool is taken for what OrderedDelivery promises of it: results are  *)
(* handed over in order, and after a failure those before it still are.    *)
(* A text is what the properties tell apart: who wrote it and the          *)
(* placeholder it holds. Left out: dry runs, leaf metadata, the rate gate, *)
(* statistics, and which provider follows which (GenerateRun has it).      *)
(***************************************************************************)
EXTENDS Integers, FiniteSets

CONSTANTS
  Source,         \* the source leaves: [kind, shape, ph] by index
  Docs,           \* documents the target may have: values by leaf
  Files,          \* translation caches there may be on disk: [epoch, texts]
  Commands,       \* subset of {"plain", "force", "resume"}
  Parallel,       \* worker counts after clamping
  Threshold,      \* IDENTITY_STREAK_THRESHOLD
  MaxTries,       \* attempts of translateLeaf at one text
  MaxAttempts,    \* providers tried in a run
  MaxRuns,        \* bound: runs
  MayDrop,        \* may a provider drop a placeholder?
  None

Leaves == DOMAIN Source
Phs == {Source[l].ph : l \in Leaves} \cup {None}
Shapes == {Source[l].shape : l \in Leaves}
Providers == 1 .. MaxAttempts
Keys == Providers \X Shapes

\* by: the source string itself, another text from before, one a provider wrote, or one
\* with a leaked sentinel. ph: the placeholder it holds.
Text == [by : {"source", "old", "machine", "leak"}, ph : Phs]
SourceText(l) == [by |-> "source", ph |-> Source[l].ph]

\* localePathLooksTranslatedFromSource
Translated(l, v) == v # None /\ v.by # "leak" /\ v # SourceText(l)

ASSUME LocaleBuildAssumption ==
  /\ IsFiniteSet(Leaves) /\ Leaves = 1 .. Cardinality(Leaves) /\ None \notin Text
  /\ \A l \in Leaves : Source[l].kind \in {"text", "preserve", "parity", "placeholder", "empty"}
  /\ Docs \subseteq [Leaves -> Text \cup {None}]
  /\ Files \subseteq [epoch : {0, 1}, texts : [Providers \X Shapes -> Text \cup {None}]]
  /\ Commands \subseteq {"plain", "force", "resume"}
  /\ Parallel \subseteq Nat \ {0} /\ Threshold \in Nat \ {0} /\ MaxTries \in Nat \ {0}
  /\ MaxAttempts \in Nat \ {0} /\ MaxRuns \in Nat /\ MayDrop \in BOOLEAN

VARIABLES
  doc,       \* the target on disk
  run,       \* the command: cmd, workers, whether it can ask; runs so far
  status,    \* "idle", "opened", "building", "failing", "interrupted", "built"
  provider,  \* the attempt, which is the provider's place in the chain
  work,      \* the working document
  cursor,    \* wal: the first row not yet placed
  rows,      \* what is to be done with each leaf
  job,       \* per leaf, its translation: at, tries, text and whether it is fresh
  guard,     \* the identity streak, whether the user is asked, whether they declined
  late,      \* requests a rejected pool left running
  l1, l2,    \* the caches: texts by provider and shape
  file,      \* the locale's translation cache on disk: its epoch and texts
  epoch,     \* the epoch of the tracked files
  paid       \* history: what providers answered in this run

cacheVars == <<l1, l2, file, epoch, paid>>
buildVars == <<work, cursor, rows, job, guard>>
vars == <<doc, run, status, provider, buildVars, late, cacheVars>>

Key(l) == <<provider, Source[l].shape>>
NoTexts == [k \in Keys |-> None]
Serial == run.workers = 1
Resume == run.cmd = "resume"

-----------------------------------------------------------------------------
(***************************************************************************)
(* Rows                                                                    *)
(***************************************************************************)
Leaked(l) == doc[l] # None /\ doc[l].by = "leak"

FullRow(l, w) ==
  LET kind == Source[l].kind
  IN  CASE Leaked(l) -> IF kind = "placeholder" THEN "copy" ELSE "translate"
        [] ~Leaked(l) /\ kind \in {"preserve", "placeholder"} -> "copy"
        [] ~Leaked(l) /\ kind = "parity" -> "existing"
        [] ~Leaked(l) /\ kind \in {"text", "empty"} ->
             IF run.cmd # "force" /\ Translated(l, doc[l]) THEN "existing"
             ELSE IF kind = "empty" THEN "copy"
             ELSE IF Translated(l, w[l]) THEN "keep" ELSE "translate"

\* isResumeCandidateLeaf, then what listResumeTranslationJobs makes of a candidate.
ResumeRow(l, w) ==
  LET candidate == doc[l] # None /\ (Leaked(l) \/ (Source[l].kind \notin {"preserve", "parity"}
                                                   /\ doc[l] = SourceText(l)))
  IN  IF ~candidate \/ Translated(l, w[l]) THEN "keep"
      ELSE IF Source[l].kind = "placeholder" THEN "copy" ELSE "translate"

Rows(w) == [l \in Leaves |-> IF Resume THEN ResumeRow(l, w) ELSE FullRow(l, w)]

\* The value a row is placed with. A parity leaf keeps what the target has.
Placed(l, r, w, done) ==
  CASE r = "copy" -> SourceText(l)
    [] r = "existing" -> IF doc[l] = None THEN SourceText(l) ELSE doc[l]
    [] r = "keep" -> w[l]
    [] r = "translate" -> done[l].text

WaitsForAnswer(l, rs, done) ==                                                   \* mutant
  rs[l] = "translate" /\ done[l].at \notin {"answered", "accepted"}

\* tryAdvance: places rows from the cursor up to the first one still to be translated.
Waits(l, rs, done) == rs[l] = "translate" /\ done[l].at # "accepted"
CursorAfter(c, rs, done) ==
  CHOOSE n \in c .. Cardinality(Leaves) + 1 :
    /\ \A l \in c .. n - 1 : ~Waits(l, rs, done)
    /\ n \in Leaves => Waits(n, rs, done)

Advance(c, rs, w, done) ==
  LET n == CursorAfter(c, rs, done)
  IN  /\ cursor' = n
      /\ work' = [l \in Leaves |-> IF l \in c .. n - 1 THEN Placed(l, rs[l], w, done) ELSE w[l]]

NoJob == [at |-> "none", tries |-> 0, text |-> None, fresh |-> FALSE]
JobsOf(rs) == [l \in Leaves |-> [NoJob EXCEPT !.at = IF rs[l] = "translate" THEN "waiting"
                                                    ELSE "none"]]

-----------------------------------------------------------------------------
(***************************************************************************)
(* One attempt of one provider                                             *)
(***************************************************************************)
\* A new guard, rows anew, and what can be placed before any translation. A resume
\* touches the document only when its jobs are over, but for the placeholder copies.
Attempt(w) ==
  LET rs == Rows(w)
  IN  /\ rows' = rs /\ job' = JobsOf(rs)
      /\ guard' = [guard EXCEPT !.count = 0]
      /\ status' = "building"
      /\ IF Resume
         THEN /\ cursor' = 1
              /\ work' = [l \in Leaves |-> IF rs[l] = "copy" THEN SourceText(l) ELSE w[l]]
         ELSE Advance(1, rs, w, JobsOf(rs))

Ordered(l) == \A m \in Leaves : m < l => job[m].at \in {"none", "accepted"}
Running == {l \in Leaves : job[l].at = "asking"}

SetJob(l, changes) == job' = [job EXCEPT ![l] = changes]

Remember(l, text) ==
  /\ l1' = [l1 EXCEPT ![Key(l)] = text]
  /\ l2' = [l2 EXCEPT ![Key(l)] = IF run.cmd = "force" THEN @ ELSE text]

\* A worker takes the next job: L1, then L2, then the provider.
Start(l) ==
  /\ status = "building" /\ job[l].at = "waiting"
  /\ \A m \in Leaves : m < l => job[m].at # "waiting"
  /\ IF Serial THEN Ordered(l) ELSE Cardinality(Running) < run.workers
  /\ LET hit == IF l1[Key(l)] # None THEN l1[Key(l)] ELSE l2[Key(l)]
     IN  IF hit = None
         THEN SetJob(l, [job[l] EXCEPT !.at = "asking"]) /\ UNCHANGED l1
         ELSE /\ SetJob(l, [job[l] EXCEPT !.at = "answered", !.text = hit])
              /\ l1' = [l1 EXCEPT ![Key(l)] = hit]
  /\ UNCHANGED <<doc, run, status, provider, work, cursor, rows, guard, late, l2, file, epoch,
                 paid>>

\* restore puts the leaf's own placeholder back; validateRestored compares the source with
\* itself, so it misses one that the provider dropped.
Replies(l) == [by : {"machine", "source"}, ph : {Source[l].ph} \cup IF MayDrop THEN {None} ELSE {}]

\* A text of the provider is cached at once in the pool; a serial run shows it to the
\* guard first.
Reply(l) ==
  /\ job[l].at = "asking"
  /\ \E text \in Replies(l) :
       /\ SetJob(l, [job[l] EXCEPT !.at = "answered", !.text = text, !.fresh = Serial])
       /\ paid' = paid \cup {Key(l)}
       /\ IF Serial THEN UNCHANGED <<l1, l2>> ELSE Remember(l, text)
  /\ UNCHANGED <<doc, run, status, provider, work, cursor, rows, guard, late, file, epoch>>

TryAgainUnreported(l) ==                          \* mutant: the failure stops nothing
  LET tries == job[l].tries + 1
  IN  /\ SetJob(l, [NoJob EXCEPT !.tries = tries, !.at = IF tries < MaxTries THEN "asking"
                                                         ELSE "failed"])
      /\ UNCHANGED status

\* One more try, or the job fails: nothing new is started.
TryAgain(l) ==
  LET tries == job[l].tries + 1
  IN  /\ SetJob(l, [NoJob EXCEPT !.tries = tries, !.at = IF tries < MaxTries THEN "asking"
                                                         ELSE "failed"])
      /\ status' = IF tries < MaxTries THEN status ELSE "failing"

ReplyFails(l) ==
  /\ job[l].at = "asking"
  /\ TryAgain(l)
  /\ UNCHANGED <<doc, run, provider, work, cursor, rows, guard, late, cacheVars>>

\* The consumer accepted the text of leaf l. A full build places rows as it goes.
Accept(l) ==
  LET done == [job EXCEPT ![l].at = "accepted"]
  IN  /\ job' = done
      /\ IF Resume THEN UNCHANGED <<work, cursor>> ELSE Advance(cursor, rows, work, done)
      /\ IF job[l].fresh THEN Remember(l, job[l].text) ELSE UNCHANGED <<l1, l2>>

StreakWithoutReset(l) ==                                                         \* mutant
  IF job[l].text = SourceText(l) THEN guard.count + 1 ELSE guard.count

\* onTranslated of the guard: every Threshold-th identical text in a row asks the user,
\* if there is one.
Streak(l) == IF job[l].text = SourceText(l) THEN guard.count + 1 ELSE 0
Warns(n) == n >= Threshold /\ n % Threshold = 0

Hand(l) ==
  /\ status \in {"building", "failing"} /\ ~guard.asks
  /\ job[l].at = "answered" /\ Ordered(l)
  /\ LET ask == Warns(Streak(l)) /\ run.tty
     IN  /\ guard' = [guard EXCEPT !.count = Streak(l), !.asks = ask]
         /\ IF ask THEN UNCHANGED <<work, cursor, job, l1, l2>> ELSE Accept(l)
  /\ UNCHANGED <<doc, run, status, provider, rows, late, file, epoch, paid>>

Asked == {l \in Leaves : guard.asks /\ job[l].at = "answered" /\ Ordered(l)}

Confirm(l) ==
  /\ l \in Asked
  /\ guard' = [guard EXCEPT !.asks = FALSE]
  /\ Accept(l)
  /\ UNCHANGED <<doc, run, status, provider, rows, late, file, epoch, paid>>

\* The text of a delivered leaf is in the map before the guard sees it (pool), so a resume
\* that stops keeps it; a full build has not placed it.
ResumeResult(jobs) ==
  [l \in Leaves |-> IF jobs[l].at = "accepted" THEN jobs[l].text ELSE work[l]]

\* The guard's error ends the pool at once and leaves its requests running. In a serial
\* run it is thrown inside translateLeaf, which takes it for a failed try, unless the
\* text came from a cache.
Decline(l) ==
  /\ l \in Asked
  /\ guard' = [guard EXCEPT !.asks = FALSE, !.declined = TRUE]
  /\ IF Serial /\ job[l].fresh
     THEN TryAgain(l) /\ UNCHANGED <<work, cursor, late>>
     ELSE /\ status' = "interrupted"
          /\ late' = late \cup {Key(m) : m \in Running}
          /\ job' = [m \in Leaves |-> IF job[m].at = "accepted" THEN job[m] ELSE NoJob]
          /\ work' = IF ~Resume THEN work
                     ELSE ResumeResult(IF Serial THEN job ELSE [job EXCEPT ![l].at = "accepted"])
          /\ UNCHANGED cursor
  /\ UNCHANGED <<doc, run, provider, rows, cacheVars>>

\* An answer to a request that the rejected pool left running is still cached.
LateReply(k) ==
  /\ k \in late /\ late' = late \ {k}
  /\ \/ UNCHANGED <<l1, l2>>
     \/ \E l \in Leaves, by \in {"machine", "source"} :
          LET text == [by |-> by, ph |-> Source[l].ph]
          IN  /\ Source[l].shape = k[2]
              /\ l1' = [l1 EXCEPT ![k] = text]
              /\ l2' = [l2 EXCEPT ![k] = IF run.cmd = "force" THEN @ ELSE text]
  /\ UNCHANGED <<doc, run, status, provider, buildVars, file, epoch, paid>>

\* The host's signal: like a failure, it stops what has not started.
Abort ==
  /\ status = "building" /\ \E l \in Leaves : job[l].at = "waiting"
  /\ status' = "failing"
  /\ UNCHANGED <<doc, run, provider, buildVars, late, cacheVars>>

Drained == ~guard.asks /\ \A l \in Leaves :
             job[l].at # "asking" /\ ~(job[l].at = "answered" /\ Ordered(l))

Interrupt ==
  /\ status = "failing" /\ Drained
  /\ status' = "interrupted"
  /\ work' = IF Resume THEN ResumeResult(job) ELSE work
  /\ UNCHANGED <<doc, run, provider, cursor, rows, job, guard, late, cacheVars>>

Complete ==
  /\ status = "building" /\ \A l \in Leaves : job[l].at \in {"none", "accepted"}
  /\ Resume \/ cursor = Cardinality(Leaves) + 1
  /\ status' = "built"
  /\ work' = IF Resume THEN ResumeResult(job) ELSE work
  /\ UNCHANGED <<doc, run, provider, cursor, rows, job, guard, late, cacheVars>>

-----------------------------------------------------------------------------
(***************************************************************************)
(* Runs                                                                    *)
(***************************************************************************)
NextAttemptAnew ==                                \* mutant: the document starts over
  /\ status = "interrupted" /\ provider < MaxAttempts
  /\ provider' = provider + 1
  /\ Attempt([l \in Leaves |-> None])
  /\ UNCHANGED <<doc, run, late, cacheVars>>

\* The next provider goes on with the partial document.
NextAttempt ==
  /\ status = "interrupted" /\ provider < MaxAttempts
  /\ provider' = provider + 1
  /\ Attempt(work)
  /\ UNCHANGED <<doc, run, late, cacheVars>>

\* A target is opened: an L2 of its epoch, unless forced; a new L1.
Begin(cmd, workers, tty) ==
  /\ status = "idle" /\ run.n < MaxRuns
  /\ cmd = "resume" => \E l \in Leaves : doc[l] # None
  /\ run' = [cmd |-> cmd, workers |-> workers, tty |-> tty, n |-> run.n + 1]
  /\ l1' = NoTexts
  /\ l2' = IF cmd # "force" /\ file.epoch = epoch THEN file.texts ELSE NoTexts
  /\ paid' = {} /\ provider' = 1 /\ late' = {}
  /\ status' = "opened"
  /\ guard' = [count |-> 0, asks |-> FALSE, declined |-> FALSE]
  /\ work' = IF cmd = "resume" THEN doc ELSE [l \in Leaves |-> None]
  /\ UNCHANGED <<doc, cursor, rows, job, file, epoch>>

FirstAttempt ==
  /\ status = "opened"
  /\ Attempt(work)
  /\ UNCHANGED <<doc, run, provider, late, cacheVars>>

FlushedWhenBuilt ==                                                              \* mutant
  IF run.cmd = "force" \/ status # "built" THEN file ELSE [epoch |-> epoch, texts |-> l2]

\* flush, whatever became of the run: the whole file, if anything was added.
Flushed ==
  LET old == IF file.epoch = epoch THEN file.texts ELSE NoTexts
  IN  IF run.cmd = "force" \/ l2 = old THEN file ELSE [epoch |-> epoch, texts |-> l2]

\* What is written of a full build is GenerateRun's subject; an interrupted resume writes
\* nothing. A written target changes the tracked files.
End ==
  /\ status \in {"interrupted", "built"}
  /\ file' = Flushed
  /\ \/ /\ Resume => status = "built"
        /\ doc' = work /\ epoch' = epoch + 1
     \/ status = "interrupted" /\ UNCHANGED <<doc, epoch>>
  /\ status' = "idle"
  /\ UNCHANGED <<run, provider, buildVars, late, l1, l2, paid>>

Init ==
  /\ doc \in Docs
  /\ run = [cmd |-> "plain", workers |-> 1, tty |-> FALSE, n |-> 0]
  /\ status = "idle" /\ provider = 1
  /\ work = [l \in Leaves |-> None] /\ cursor = 1
  /\ rows = [l \in Leaves |-> "keep"] /\ job = [l \in Leaves |-> NoJob]
  /\ guard = [count |-> 0, asks |-> FALSE, declined |-> FALSE]
  /\ late = {}
  /\ l1 = NoTexts /\ l2 = NoTexts /\ file \in Files
  /\ epoch = 1 /\ paid = {}

Build ==
  \/ \E l \in Leaves : Start(l) \/ Reply(l) \/ ReplyFails(l) \/ Hand(l) \/ Confirm(l) \/ Decline(l)
  \/ FirstAttempt \/ Interrupt \/ Complete

Next ==
  \/ \E cmd \in Commands, w \in Parallel, tty \in BOOLEAN : Begin(cmd, w, tty)
  \/ Build \/ Abort \/ NextAttempt \/ End
  \/ \E k \in Keys : LateReply(k)

\* A provider answers or times out, the user answers, timers fire.
Spec == Init /\ [][Next]_vars /\ WF_vars(Build)

-----------------------------------------------------------------------------
(***************************************************************************)
(* Properties                                                              *)
(***************************************************************************)

\* The shape of the state, and that no more requests run than there are workers.
TypeOK ==
  /\ doc \in [Leaves -> Text \cup {None}] /\ work \in [Leaves -> Text \cup {None}]
  /\ run \in [cmd : Commands \cup {"plain"}, workers : Nat, tty : BOOLEAN, n : 0 .. MaxRuns]
  /\ status \in {"idle", "opened", "building", "failing", "interrupted", "built"}
  /\ provider \in Providers /\ cursor \in 1 .. Cardinality(Leaves) + 1
  /\ rows \in [Leaves -> {"copy", "existing", "keep", "translate"}]
  /\ job \in [Leaves -> [at : {"none", "waiting", "asking", "answered", "accepted", "failed"},
                         tries : 0 .. MaxTries, text : Text \cup {None}, fresh : BOOLEAN]]
  /\ guard \in [count : Nat, asks : BOOLEAN, declined : BOOLEAN]
  /\ late \subseteq Keys /\ paid \subseteq Keys
  /\ {l1, l2, file.texts} \subseteq [Keys -> Text \cup {None}]
  /\ Cardinality(Running) <= run.workers

\* A full build is a prefix at every moment an attempt may be cut: rows before the cursor
\* have their value, an accepted translation is placed at once and unchanged, and
\* nothing behind the cursor is; with answers in any order, hits, retries and copies in
\* between, the partial document handed on has no hole and no text that was not accepted.
PrefixBuilt ==
  status \in {"building", "failing", "built"} /\ ~Resume =>
    /\ \A l \in 1 .. cursor - 1 :
         work[l] # None /\ (rows[l] = "translate" => job[l].at = "accepted")
    /\ \A l \in Leaves : job[l].at = "accepted" => l < cursor /\ work[l] = job[l].text

\* The guard's count is that of the trailing source-identical texts in leaf order, however
\* the pool's answers were ordered and whether they came from a provider or a cache (until
\* the user declines: a serial run then counts the retried text again).
StreakTrue ==
  status \in {"building", "failing"} /\ ~guard.declined =>
    LET seen == {l \in Leaves : job[l].at = "accepted"} \cup Asked
    IN  guard.count = Cardinality({l \in seen : \A m \in seen :
                                     m >= l => job[m].text = SourceText(m)})

\* What a provider was paid for is not lost with a run that stops: once it has ended, for
\* whatever reason, the disk cache holds every text that was answered (unless the run was
\* forced, which bypasses it, or the user declined texts).
PaidKept ==
  status = "idle" /\ run.n > 0 /\ run.cmd # "force" /\ ~guard.declined =>
    \A k \in paid : file.texts[k] # None

\* Within a run a translated leaf stays translated, from attempt to attempt and to the end:
\* only a leaf whose text on disk leaked a sentinel is sent again.
TranslatedStays ==
  [][\A l \in Leaves :
       status # "idle" /\ Translated(l, work[l]) /\ ~Leaked(l) => Translated(l, work'[l])]_vars

\* Every attempt is completed or interrupted: the cursor never waits for a row that no job
\* will fill, a failure or an abort never waits for a consumer that is not coming.
BuildEnds == status \in {"opened", "building", "failing"} ~> status \in {"interrupted", "built"}

\* A translation has the placeholder of the source string it stands for.
PlaceholdersKept ==
  \A l \in Leaves : job[l].at = "accepted" => job[l].text.ph = Source[l].ph

=============================================================================
