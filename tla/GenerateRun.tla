---------------------------- MODULE GenerateRun ----------------------------
(***************************************************************************)
(* runGenerate, packages/core/src/generate/run.ts, with --resume           *)
(* (resume/run.ts), the translate policy (translator/policy/*.ts) and the  *)
(* provider health monitor: successive CLI runs over the same locale files.*)
(*                                                                         *)
(* One run walks its targets; a target is skipped or translated by a chain *)
(* of providers, whose failures the policy turns into retry, fallback, a   *)
(* handoff to another provider, or the end of the target.  A leaf of a     *)
(* locale document is abstracted to what the program tests of it, and one  *)
(* translate pool to its result: every leaf, or a prefix and a failure.    *)
(*                                                                         *)
(* The file of a segment is written in place, so a write that fails or is  *)
(* cut off by a kill may leave a file that does not parse.                 *)
(*                                                                         *)
(* Not modelled here: --dry-run, --no-repair-sentinel-leaks, leaves that   *)
(* are copied by the preserve, parity and empty-source rules, metadata.    *)
(***************************************************************************)
EXTENDS Integers, Sequences, FiniteSets

CONSTANTS
    NTargets, NLeaves,
    Rows,             \* the enabled provider rows, in chain order
    Catalog,          \* the providers a handoff may offer
    Ready,            \* the providers whose credentials resolve
    Environments      \* what is assumed of a behaviour, one record each: see env

Target == 1 .. NTargets
Leaf == 1 .. NLeaves
Provider == Catalog \cup {Rows[i] : i \in 1 .. Len(Rows)}

(* A leaf is not there; equals the source text; holds a leaked placeholder *)
(* sentinel; or is a translation, by an earlier hand or by these runs. One *)
(* that is there is in a file that is there and that parses; those that do *)
(* not are broken.                                                         *)
Value == {"absent", "same", "leak", "old", "new"}
Translated == {"old", "new"}
Document(e) ==
    {d \in [files : SUBSET (1 .. e.segments), broken : SUBSET (1 .. e.segments),
             leaf : [Leaf -> Value]] :
        /\ d.broken \subseteq d.files
        /\ \A l \in Leaf : d.leaf[l] # "absent" => e.segmentOf[l] \in d.files \ d.broken}

(* TranslateFailureOutcome, and the policy's verbs for it                  *)
Outcome == {"rate_limited", "transient_network", "quota_exceeded", "auth_failure",
            "provider_unavailable", "malformed_response", "unknown_hard_stop"}
Verb == {"retry", "backoff", "fallback", "prompt", "abort"}
Key == {"onRateLimit", "onTransientFailure", "onQuotaExceeded", "onAuthFailure",
        "onProviderUnavailable"}
Policy == [routing : {"single", "auto"}, handoff : {"auto", "on", "off"},
           onIncompleteRun : {"confirm", "write", "discard"},
           maxAttempts : Nat, verb : [Key -> Verb]]

ASSUME GenerateAssumption ==
    /\ NTargets \in Nat \ {0} /\ NLeaves \in Nat \ {0}
    /\ Len(Rows) > 0 /\ Rows \in Seq(Provider) /\ Rows[1] \in Ready
    /\ \A i, j \in 1 .. Len(Rows) : i # j => Rows[i] # Rows[j]
    /\ \A e \in Environments :
           /\ e.targets \in Target /\ e.runs \in Nat
           /\ e.policies \subseteq Policy /\ e.hosts \subseteq {"tty", "pipe", "yes"}
           /\ e.commands \subseteq {"plain", "force", "resume"}
           /\ e.segments \in Nat \ {0} /\ e.segmentOf \in [Leaf -> 1 .. e.segments]
           /\ e.flat \in BOOLEAN /\ (e.flat => e.segments = 1)
           /\ e.documents \subseteq [Target -> Document(e)]
           /\ e.aborts \in BOOLEAN /\ e.crashes \in BOOLEAN /\ e.fails \in BOOLEAN

VARIABLES
    env,           \* the targets asked for, the number of runs, the locale files and
                   \* leaves of each target and whether the layout is flat_file; the
                   \* policies, hosts, commands and first documents, and the aborts,
                   \* kills and failing writes there may be
    disk,          \* the locale files of every target
    policy, host, command,
    runsLeft,
    pc,            \* where the run is
    t,             \* the target it works on
    mode,          \* how each target was opened: fresh, fill, force, resume
    chain, pi,     \* the provider chain and the position in it
    attemptsRemaining,
    synth,         \* synthHandoffOptions: credentials made up for a handoff
    streak,        \* the health monitor's failure count of each provider
    working,       \* the document being built
    unwritten,     \* the segments still to write
    partial,       \* targetHadPartialWrite
    results,       \* what the run reports of each target
    ended,         \* how the last run ended
    abortedAt,     \* the target at which the host aborted, 0 if it did not
    before         \* history: disk at the start of the run

config == <<env, policy, host>>
place == <<t, mode, chain, pi, attemptsRemaining, synth>>
vars == <<disk, config, command, runsLeft, pc, place, streak, working, unwritten,
          partial, results, ended, abortedAt, before>>

Segment == 1 .. env.segments
SegmentOf(l) == env.segmentOf[l]

aborted == abortedAt > 0
CanPrompt == host = "tty"

(* maxAttemptsTotal and escalationThreshold; the latter uses the chain the *)
(* run starts with                                                         *)
StartChain(p) == IF p.routing = "auto" THEN Rows ELSE <<Rows[1]>>
MaxAttempts == IF policy.maxAttempts < 1 THEN 1 ELSE policy.maxAttempts
Threshold ==
    LET n == Len(StartChain(policy))
    IN  (MaxAttempts + n - 1) \div n

TypeOK ==
    /\ env \in Environments
    /\ disk \in [Target -> Document(env)] /\ before \in [Target -> Document(env)]
    /\ policy \in env.policies /\ host \in env.hosts /\ command \in env.commands
    /\ runsLeft \in 0 .. env.runs
    /\ pc \in {"idle", "target", "attempt", "pick", "incomplete", "write"}
    /\ t \in 1 .. env.targets
    /\ mode \in [Target -> {"none", "fresh", "fill", "force", "resume"}]
    /\ chain \in Seq(Provider) /\ pi \in Nat /\ attemptsRemaining \in Nat
    /\ synth \in BOOLEAN
    /\ streak \in [Provider -> Nat]
    /\ working \in [Leaf -> Value]
    /\ unwritten \in SUBSET Segment
    /\ partial \in BOOLEAN
    /\ results \in [Target -> {"none", "skipped", "partial", "written"}]
    /\ ended \in {"none", "ok", "threw", "crashed"}
    /\ abortedAt \in 0 .. NTargets

Nothing == [l \in Leaf |-> "absent"]
Zero == [p \in Provider |-> 0]

Init ==
    /\ env \in Environments
    /\ disk \in env.documents
    /\ policy \in env.policies /\ host \in env.hosts /\ command \in env.commands
    /\ runsLeft = env.runs
    /\ pc = "idle"
    /\ t = 1
    /\ mode = [u \in Target |-> "none"]
    /\ chain = StartChain(policy) /\ pi = 1 /\ attemptsRemaining = 0 /\ synth = FALSE
    /\ streak = Zero
    /\ working = Nothing
    /\ unwritten = {}
    /\ partial = FALSE
    /\ results = [u \in Target |-> "none"]
    /\ ended = "none"
    /\ abortedAt = 0
    /\ before = disk

-----------------------------------------------------------------------------
(* Ends of a run and of a target.                                          *)

EndRun(how) == pc' = "idle" /\ ended' = how

ThrowSaving ==                                                 \* mutant
    /\ EndRun("threw")
    /\ disk' = [disk EXCEPT ![t] = [files |-> Segment, broken |-> {}, leaf |-> working]]
    /\ UNCHANGED <<config, command, runsLeft, place, streak, working, unwritten,
                   partial, results, abortedAt, before>>

Throw ==
    /\ EndRun("threw")
    /\ UNCHANGED <<disk, config, command, runsLeft, place, streak, working, unwritten,
                   partial, results, abortedAt, before>>

ReportInPlace(row) ==                                          \* mutant
    results' = [results EXCEPT ![t] = row] /\ pc' = "target" /\ UNCHANGED <<t, ended>>

Report(row) ==
    /\ results' = [results EXCEPT ![t] = row]
    /\ IF t = env.targets
       THEN EndRun("ok") /\ UNCHANGED t
       ELSE pc' = "target" /\ t' = t + 1 /\ UNCHANGED ended

StartRun ==
    /\ pc = "idle"
    /\ runsLeft > 0
    /\ runsLeft' = runsLeft - 1
    /\ pc' = "target"
    /\ t' = 1
    /\ command' \in env.commands
    /\ chain' = StartChain(policy)
    /\ streak' = Zero
    /\ mode' = [u \in Target |-> "none"]
    /\ results' = [u \in Target |-> "none"]
    /\ ended' = "none"
    /\ abortedAt' = 0
    /\ before' = disk
    /\ pi' = 1 /\ attemptsRemaining' = 0 /\ synth' = FALSE
    /\ working' = Nothing /\ unwritten' = {} /\ partial' = FALSE
    /\ UNCHANGED <<disk, config>>

-----------------------------------------------------------------------------
(* Opening a target: assessGenerateTargetPreflight and the prompts.        *)

(* readMergedTargetLocaleRawForGenerate: the one file of the flat layout   *)
(* has to parse; in a directory, one file that does not, or no leaf in any *)
(* of them, is read as nothing.                                            *)
CanRead == ~env.flat \/ disk[t].broken = {}
IsKnown(doc) == env.flat \/ (doc.broken = {} /\ \E l \in Leaf : doc.leaf[l] # "absent")
Seen(doc) == IF doc.broken = {} THEN doc.leaf ELSE Nothing

Preflight ==
    LET doc == disk[t] IN
    IF doc.files = {} THEN "proceed"
    ELSE IF doc.files # Segment \/ (IsKnown(doc) /\ \E l \in Leaf : doc.leaf[l] = "absent")
         THEN "partial"
    ELSE IF ~IsKnown(doc) \/ \E l \in Leaf : doc.leaf[l] = "leak" THEN "proceed"
    ELSE "fully_complete"

OpensInteractively == {
    <<"proceed", "fresh">>, <<"fully_complete", "skip">>, <<"fully_complete", "force">>,
    <<"partial", "skip">>, <<"partial", "fill">>, <<"partial", "force">>}

OpensSilently == {
    <<"proceed", "fresh">>, <<"fully_complete", "skip">>,
    <<"partial", IF host = "yes" THEN "skip" ELSE "fill">>}

(* the mode a target is opened with, or "skip" *)
Opens ==
    IF command = "resume" THEN {"resume"}
    ELSE IF command = "force" THEN {"force"}
    ELSE {m \in {"fresh", "fill", "force", "skip"} :
             <<Preflight, m>> \in IF CanPrompt THEN OpensInteractively ELSE OpensSilently}

(* activeSourceLeavesForGenerate: fill mode looks at missing and leaked leaves *)
ActiveIn(m) ==
    IF m = "fill" THEN {l \in Leaf : Seen(disk[t])[l] \in {"absent", "leak"}} ELSE Leaf

(* workingLocaleForGenerate, and targetRaw of --resume *)
WorkingFromScratch(m) == Nothing                               \* mutant
WorkingFor(m) == IF m \in {"fill", "resume"} THEN Seen(disk[t]) ELSE Nothing

NeverThrows == FALSE                                           \* mutant
ThrowIfAborted == aborted

SkipTarget ==
    /\ pc = "target"
    /\ ~ThrowIfAborted
    /\ CanRead
    /\ \E m \in Opens : m = "skip" \/ ActiveIn(m) = {}
    /\ Report("skipped")
    /\ UNCHANGED <<disk, config, command, runsLeft, mode, chain, pi, attemptsRemaining,
                   synth, streak, working, unwritten, partial, abortedAt, before>>

OpenTarget ==
    /\ pc = "target"
    /\ ~ThrowIfAborted
    /\ CanRead
    /\ \E m \in Opens \ {"skip"} :
        /\ ActiveIn(m) # {}
        /\ mode' = [mode EXCEPT ![t] = m]
        /\ working' = WorkingFor(m)
        (* --resume walks a chain of its own *)
        /\ chain' = IF m = "resume" THEN StartChain(policy) ELSE chain
    /\ pi' = 1
    /\ attemptsRemaining' = MaxAttempts
    /\ synth' = FALSE
    /\ pc' = "attempt"
    /\ UNCHANGED <<disk, config, command, runsLeft, t, streak, unwritten, partial,
                   results, ended, abortedAt, before>>

TargetAborted ==
    /\ pc = "target"
    /\ ThrowIfAborted
    /\ Throw

ReadFails ==
    /\ pc = "target"
    /\ ~ThrowIfAborted
    /\ ~CanRead
    /\ Throw

-----------------------------------------------------------------------------
(* One attempt: the leaves of the target, sent to provider chain[pi].      *)

(* The rows of buildTranslatedLocaleFromSourceLeaves that go to the        *)
(* provider, and listResumeTranslationJobs.  A leaf whose text on disk is  *)
(* kept (existing_manual) is not among them.                               *)
KeepsDisk(l) == mode[t] # "force" /\ Seen(disk[t])[l] \in Translated

Todo ==
    IF mode[t] = "resume"
    THEN {l \in Leaf : /\ disk[t].files = {} \/ Seen(disk[t])[l] \in {"same", "leak"}
                       /\ working[l] \notin Translated}
    ELSE {l \in ActiveIn(mode[t]) :
             \/ Seen(disk[t])[l] = "leak"
             \/ ~KeepsDisk(l) /\ working[l] \notin Translated}

Answers == [Todo -> {"new", "same"}]

(* tryAdvance: rows are applied in order, up to the first missing answer *)
BuiltFromScratch(answer, upto) ==                              \* mutant
    [l \in Leaf |-> IF l < upto /\ l \in Todo THEN answer[l] ELSE WorkingFor(mode[t])[l]]

Built(answer, upto) ==
    [l \in Leaf |->
        IF l >= upto \/ l \notin ActiveIn(mode[t]) THEN working[l]
        ELSE IF l \in Todo THEN answer[l]
        ELSE IF KeepsDisk(l) THEN Seen(disk[t])[l] ELSE working[l]]

Usable == chain[pi] \in Ready \/ synth

MissingCredentials ==
    /\ pc = "attempt"
    /\ ~Usable
    /\ Throw

AttemptAborted ==
    /\ pc = "attempt"
    /\ Usable
    /\ aborted /\ Todo # {}
    /\ Throw

AttemptSucceeds ==
    /\ pc = "attempt"
    /\ Usable
    /\ Todo = {} \/ ~aborted
    /\ \E answer \in Answers : working' = Built(answer, NLeaves + 1)
    /\ unwritten' = IF mode[t] = "resume" /\ working' = Seen(disk[t]) THEN {} ELSE Segment
    /\ partial' = FALSE
    /\ pc' = "write"
    /\ UNCHANGED <<disk, config, command, runsLeft, place, streak, results, ended,
                   abortedAt, before>>

(* resolveProviderActionFor: the verb for a failure, and the failure count *)
(* it leaves behind                                                        *)
KeyOf(o) ==
    CASE o = "rate_limited" -> "onRateLimit"
      [] o = "transient_network" -> "onTransientFailure"
      [] o = "quota_exceeded" -> "onQuotaExceeded"
      [] o = "auth_failure" -> "onAuthFailure"
      [] o \in {"provider_unavailable", "malformed_response"} -> "onProviderUnavailable"

PolicyVerb(o) == IF o = "unknown_hard_stop" THEN "abort" ELSE policy.verb[KeyOf(o)]

Escalates(p) == streak'[p] >= Threshold

HealthAfter(p, o) ==
    streak' = IF PolicyVerb(o) = "backoff" THEN [streak EXCEPT ![p] = @ + 1] ELSE streak

(* The catch block: what the attempt on provider p leads to.               *)
HasNext == pi < Len(chain)

WarnsAndAborts == policy.routing = "single" /\ policy.handoff = "on" /\ ~CanPrompt
OffersHandoff ==
    CanPrompt /\ (policy.handoff = "on" \/ (policy.handoff = "auto" /\ policy.routing = "single"))

Reaction(p, o) ==
    CASE PolicyVerb(o) = "prompt" ->
            IF WarnsAndAborts THEN "abort"
            ELSE IF OffersHandoff THEN "handoff"
            ELSE IF HasNext THEN "fallback" ELSE "abort"
      [] PolicyVerb(o) = "backoff" -> IF Escalates(p) THEN "fallback" ELSE "backoff"
      [] OTHER -> PolicyVerb(o)

(* the head of the attempt loop, reached again with an aborted signal, *)
(* makes a translate call that rejects before it sends anything        *)
LoopHead ==
    IF pi' > Len(chain') \/ attemptsRemaining' = 0
    THEN pc' = "incomplete" /\ UNCHANGED ended
    ELSE IF aborted THEN EndRun("threw")
    ELSE pc' = "attempt" /\ UNCHANGED ended

SpendAttempt == attemptsRemaining' = attemptsRemaining - 1

AttemptFails(o) ==
    LET p == chain[pi] IN
    /\ pc = "attempt"
    /\ mode[t] # "resume"
    /\ Usable
    /\ \E upto \in Todo, answer \in Answers : working' = Built(answer, upto)
    /\ SpendAttempt
    /\ HealthAfter(p, o)
    /\ synth' = FALSE
    /\ UNCHANGED chain
    /\ \/ /\ Reaction(p, o) = "handoff"
          /\ IF Catalog \ {p} = {} THEN EndRun("threw") ELSE pc' = "pick" /\ UNCHANGED ended
          /\ UNCHANGED pi
       \/ /\ \/ Reaction(p, o) = "abort"
             \/ Reaction(p, o) = "fallback" /\ ~HasNext
             \/ Reaction(p, o) \in {"fallback", "retry", "backoff"} /\ attemptsRemaining' = 0
          /\ pc' = "incomplete"
          /\ UNCHANGED <<pi, ended>>
       \/ /\ Reaction(p, o) = "fallback" /\ HasNext /\ attemptsRemaining' > 0
          /\ pi' = pi + 1
          /\ LoopHead
       \/ /\ Reaction(p, o) \in {"retry", "backoff"} /\ attemptsRemaining' > 0
          /\ UNCHANGED pi
          /\ LoopHead
    /\ UNCHANGED <<disk, config, command, runsLeft, t, mode, unwritten, partial,
                   results, abortedAt, before>>

(* --resume only knows retryable failures and the next provider *)
Retryable == {"rate_limited", "quota_exceeded", "transient_network", "provider_unavailable"}

ResumeFallsBack(o) ==
    /\ pc = "attempt"
    /\ mode[t] = "resume"
    /\ Usable
    /\ HasNext /\ o \in Retryable
    /\ \E upto \in Todo, answer \in Answers : working' = Built(answer, upto)
    /\ pi' = pi + 1
    /\ IF aborted THEN EndRun("threw") ELSE UNCHANGED <<pc, ended>>
    /\ UNCHANGED <<disk, config, command, runsLeft, t, mode, chain, attemptsRemaining, synth,
                   streak, unwritten, partial, results, abortedAt, before>>

ResumeGivesUp(o) ==
    /\ pc = "attempt"
    /\ mode[t] = "resume"
    /\ Usable
    /\ Todo # {}
    /\ ~HasNext \/ o \notin Retryable
    /\ Throw

-----------------------------------------------------------------------------
(* The handoff picker; the host may also fail instead of answering.        *)

PrioritizeDuplicating(c, i, p) ==                              \* mutant
    SubSeq(c, 1, i) \o <<p>> \o SubSeq(c, i + 1, Len(c))

Position(c, p) == CHOOSE k \in 1 .. Len(c) : c[k] = p
Removed(c, k) == SubSeq(c, 1, k - 1) \o SubSeq(c, k + 1, Len(c))
Inserted(c, k, p) == SubSeq(c, 1, k) \o <<p>> \o SubSeq(c, k + 1, Len(c))

(* prioritizeProviderAfter: the pick leaves its place, which is one since  *)
(* no provider is in the chain twice, for that after the one that failed   *)
Prioritize(c, i, p) ==
    LET rest == IF \E k \in 1 .. Len(c) : c[k] = p THEN Removed(c, Position(c, p)) ELSE c
    IN  Inserted(rest, Position(rest, c[i]), p)

HandoffPicked(p) ==
    /\ pc = "pick"
    /\ p \in Catalog \ {chain[pi]}
    /\ chain' = Prioritize(chain, pi, p)
    /\ pi' = pi + 1
    /\ synth' = TRUE
    /\ UNCHANGED attemptsRemaining
    /\ LoopHead
    /\ UNCHANGED <<disk, config, command, runsLeft, t, mode, streak, working, unwritten,
                   partial, results, abortedAt, before>>

HandoffFails == pc = "pick" /\ Throw

-----------------------------------------------------------------------------
(* A target no provider finished: onIncompleteRun, then the writes.        *)

MayWritePartial == policy.onIncompleteRun \in {"write", "confirm"}
MayDiscard ==
    policy.onIncompleteRun = "discard" \/ (policy.onIncompleteRun = "confirm" /\ CanPrompt)

FlagsNothing == UNCHANGED partial                              \* mutant
FlagPartial == partial' = TRUE

KeepPartial ==
    /\ pc = "incomplete"
    /\ MayWritePartial
    /\ FlagPartial
    /\ unwritten' = Segment
    /\ pc' = "write"
    /\ UNCHANGED <<disk, config, command, runsLeft, place, streak, working, results,
                   ended, abortedAt, before>>

Discard ==
    /\ pc = "incomplete"
    /\ MayDiscard
    /\ Throw

(* writeLocaleJsonFromContextSync on the file of one segment: it holds the *)
(* working document, or is cut off                                         *)
Saved(doc, s) ==
    [files |-> doc.files \cup {s}, broken |-> doc.broken \ {s},
     leaf |-> [l \in Leaf |-> IF SegmentOf(l) = s THEN working[l] ELSE doc.leaf[l]]]
Torn(doc, s) ==
    [files |-> doc.files \cup {s}, broken |-> doc.broken \cup {s},
     leaf |-> [l \in Leaf |-> IF SegmentOf(l) = s THEN "absent" ELSE doc.leaf[l]]]

Writes(s) == pc = "write" /\ s \in unwritten /\ \A other \in unwritten : s <= other

WriteSegment(s) ==
    /\ Writes(s)
    /\ disk' = [disk EXCEPT ![t] = Saved(@, s)]
    /\ unwritten' = unwritten \ {s}
    /\ UNCHANGED <<config, command, runsLeft, pc, place, streak, working, partial,
                   results, ended, abortedAt, before>>

WriteFails(s) ==
    /\ env.fails
    /\ Writes(s)
    /\ EndRun("threw")
    /\ UNCHANGED disk \/ disk' = [disk EXCEPT ![t] = Torn(@, s)]
    /\ UNCHANGED <<config, command, runsLeft, place, streak, working, unwritten, partial,
                   results, abortedAt, before>>

FinishTarget ==
    /\ pc = "write"
    /\ unwritten = {}
    /\ Report(IF partial THEN "partial" ELSE "written")
    /\ UNCHANGED <<disk, config, command, runsLeft, mode, chain, pi, attemptsRemaining,
                   synth, streak, working, unwritten, partial, abortedAt, before>>

-----------------------------------------------------------------------------
(* The host aborts its signal: before the run, or while the run awaits.    *)
Abort ==
    /\ env.aborts
    /\ ~aborted
    /\ \/ pc \in {"target", "attempt", "pick"}
       \/ pc = "incomplete" /\ policy.onIncompleteRun = "confirm" /\ CanPrompt
    /\ abortedAt' = t
    /\ UNCHANGED <<disk, config, command, runsLeft, pc, place, streak, working, unwritten,
                   partial, results, ended, before>>

(* the process is killed, perhaps in the middle of a write *)
Crash ==
    /\ env.crashes
    /\ pc # "idle"
    /\ EndRun("crashed")
    /\ \/ UNCHANGED disk
       \/ \E s \in Segment : Writes(s) /\ disk' = [disk EXCEPT ![t] = Torn(@, s)]
    /\ UNCHANGED <<config, command, runsLeft, place, streak, working, unwritten,
                   partial, results, abortedAt, before>>

AttemptEnds ==
    \/ MissingCredentials \/ AttemptAborted \/ AttemptSucceeds
    \/ \E o \in Outcome : AttemptFails(o) \/ ResumeFallsBack(o) \/ ResumeGivesUp(o)

Step ==
    \/ SkipTarget \/ OpenTarget \/ TargetAborted \/ ReadFails
    \/ AttemptEnds
    \/ (\E p \in Catalog : HandoffPicked(p)) \/ HandoffFails
    \/ KeepPartial \/ Discard
    \/ (\E s \in Segment : WriteSegment(s) \/ WriteFails(s)) \/ FinishTarget

Next == StartRun \/ Step \/ Abort \/ Crash

Spec == Init /\ [][Next]_vars

(* A run that is not killed goes on: provider calls settle and prompts are *)
(* answered.                                                               *)
FairSpec == Spec /\ WF_vars(Step)

-----------------------------------------------------------------------------
(* Properties.                                                             *)

(* Without --force and without a confirmed re-translation, a run never     *)
(* loses or replaces a translated text, however it ends: skipped, written, *)
(* partial, thrown, aborted or killed; but for those of the one file whose *)
(* write failed or was cut off. Two targets are another case: one with a   *)
(* leaked sentinel, which is opened to be repaired, and one that had a     *)
(* file that does not parse, which is opened as if it were empty.          *)
KeepsText ==
    \A u \in Target :
        /\ mode[u] # "force"
        /\ before[u].broken = {} /\ \A l \in Leaf : before[u].leaf[l] # "leak"
        => /\ \A l \in Leaf :
                  before[u].leaf[l] \in Translated /\ SegmentOf(l) \notin disk[u].broken
                  => disk[u].leaf[l] = before[u].leaf[l]
           /\ \A r, s \in disk[u].broken : r = s

(* A target reported as written (and not as partial) by a run that is not  *)
(* a resume has all its files, each of which parses, and every source leaf.*)
WrittenIsComplete ==
    \A u \in Target : results[u] = "written" /\ mode[u] # "resume"
        => /\ disk[u].files = Segment /\ disk[u].broken = {}
           /\ \A l \in Leaf : disk[u].leaf[l] # "absent"

(* A run that throws leaves the target it was working on, and those after  *)
(* it, as they were; the targets it has reported stay written. Only when a *)
(* write failed the target at work is neither: then the files before that  *)
(* one hold the new document, those after it are as they were, and none of *)
(* these is damaged.                                                       *)
WriteFailed == unwritten # {}
Untouched(s) ==
    /\ s \in disk[t].files <=> s \in before[t].files
    /\ s \in disk[t].broken <=> s \in before[t].broken
    /\ \A l \in Leaf : SegmentOf(l) = s => disk[t].leaf[l] = before[t].leaf[l]
Rewritten(s) ==
    /\ s \in disk[t].files \ disk[t].broken
    /\ \A l \in Leaf : SegmentOf(l) = s => disk[t].leaf[l] = working[l]
ThrowKeepsFiles ==
    ended = "threw" =>
        /\ \A u \in Target :
               results[u] = "none" /\ ~(WriteFailed /\ u = t) => disk[u] = before[u]
        /\ WriteFailed => \A s \in Segment :
               IF s \notin unwritten THEN Rewritten(s)
               ELSE (\E r \in unwritten : r < s) => Untouched(s)

(* Whatever handoffs did to the chain, it has no provider twice and still  *)
(* has every provider it started with.                                     *)
ChainSound ==
    /\ \A i, j \in 1 .. Len(chain) : i # j => chain[i] # chain[j]
    /\ \A i \in 1 .. Len(StartChain(policy)) :
           \E j \in 1 .. Len(chain) : chain[j] = StartChain(policy)[i]

(* After the host aborts no further target is opened or touched.           *)
AbortStopsTargets ==
    aborted => \A u \in abortedAt + 1 .. NTargets :
        mode[u] = "none" /\ results[u] = "none" /\ disk[u] = before[u]

(* "Retryable failure => advance one step in the chain and continue        *)
(* without discarding successful leaf translations": while a target is     *)
(* worked on, a leaf that was translated stays translated; only one whose  *)
(* text on disk leaked a sentinel is sent again.                           *)
ProgressKept ==
    [][(t' = t /\ pc \in {"attempt", "pick", "incomplete"})
       => \A l \in Leaf : working[l] = "new" /\ disk[t].leaf[l] # "leak"
              => working'[l] = "new"]_vars

(* Every run ends: the attempts are finite whatever policy and failures.   *)
RunEnds == pc # "idle" ~> pc = "idle"
=============================================================================
