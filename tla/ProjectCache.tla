---------------------------- MODULE ProjectCache ----------------------------
(***************************************************************************)
(* The project cache of packages/core/src/cache: `files.json` (the         *)
(* fingerprint of the project tree) and `analysis.json` (the scan of that  *)
(* tree), and getOrBuildCachedProjectData, the check-or-produce dispatch   *)
(* every command goes through.                                             *)
(*                                                                         *)
(* A command is a process.  It reads files.json ONCE, when its context is  *)
(* resolved, and diffs the tree against that snapshot in every dispatch it *)
(* performs, while the analysis it patches is read from disk each time.    *)
(* Commands run beside each other and beside a developer who edits files.  *)
(*                                                                         *)
(* Abstractions.  A file is its content (Absent when it does not exist); a *)
(* digest of a set of records is the set itself; a scan is the number of   *)
(* times each file's observations occur in it, its file count, and the     *)
(* texts of the source locale its missing keys were computed against.  A   *)
(* malformed or oversize cache file is one that is not there: preparation  *)
(* deletes it.  The locale reads a process remembers are not modelled:     *)
(* a patch reads every segment of the source locale as it is.              *)
(***************************************************************************)
EXTENDS Naturals, FiniteSets

CONSTANTS
  SrcFiles,      \* the files under src/
  LocaleFiles,   \* the locale segments
  SegmentsOf,    \* the segments of the locale a segment belongs to: one file,
                 \* or a directory of them
  Primary,       \* the segments that are the first one of their locale
  Contents,      \* what a file may contain
  Absent,        \* a file that does not exist
  NoFile,        \* a cache file that does not exist or does not parse
  Processes,     \* commands that may run at the same time
  InitialTrees,  \* the projects a behaviour may start from
  Environments,  \* what is assumed of a behaviour, one record each: see env
  Threshold      \* cache.fullRescanThresholdPercent

Files == SrcFiles \cup LocaleFiles
Trees == [Files -> Contents \cup {Absent}]

ASSUME FilesAssumption ==
  /\ IsFiniteSet(Files) /\ SrcFiles \cap LocaleFiles = {} /\ LocaleFiles # {}
  /\ Absent \notin Contents /\ Contents # {}
  /\ Primary \subseteq LocaleFiles /\ Primary # {}
  /\ SegmentsOf \in [LocaleFiles -> SUBSET LocaleFiles]
  /\ \A f \in LocaleFiles : f \in SegmentsOf[f]
ASSUME EnvironmentsAssumption ==
  Environments \subseteq [rebuild : {"full", "partial"}, dispatches : Nat, alone : BOOLEAN,
                          faults : SUBSET {"crash", "write", "lost", "race"},
                          maxEdits : Nat, maxStarts : Nat]
ASSUME ProjectAssumption ==
  /\ Threshold \in 0..100
  /\ \A t \in InitialTrees : t \in Trees /\ \A f \in Primary : t[f] # Absent

VARIABLES
  env,         \* cache.rebuild, the dispatches of a command, whether commands
               \* run one after the other, what else may happen, and the bounds
               \* on edits of the project and on commands started
  tree,        \* the project on disk
  source,      \* locales.source of the configuration, as the one file the
               \* context names for it: part of the layout fingerprint
  filesIndex,  \* files.json: the records and the layout they were taken under
  analysis,    \* analysis.json: the payload and its inputFilesEpoch
  procs,       \* the commands
  settled,     \* history: nothing happened since a dispatch last completed
  edits, starts

vars == <<env, tree, source, filesIndex, analysis, procs, settled, edits, starts>>
disk == <<filesIndex, analysis>>

-----------------------------------------------------------------------------
(* Scans and patches of the tree.                                          *)

Present(t) == {f \in SrcFiles : t[f] # Absent}

(* Missing keys are computed against every segment of the source locale.   *)
SourceTexts(t, s) == [f \in LocaleFiles |-> IF f \in SegmentsOf[s] THEN t[f] ELSE Absent]

Scan(t, s) ==
  [obs     |-> [f \in SrcFiles |-> [c \in Contents |-> IF t[f] = c THEN 1 ELSE 0]],
   scanned |-> Cardinality(Present(t)),
   against |-> SourceTexts(t, s)]

PatchSrcKeepingOld(data, delta, t, s) ==   \* mutant: a changed file keeps its old observations
  [obs |-> [f \in SrcFiles |-> [c \in Contents |->
              (IF f \in delta.deleted THEN 0 ELSE data.obs[f][c])
              + (IF f \in delta.added \cup delta.changed /\ t[f] = c THEN 1 ELSE 0)]],
   scanned |-> data.scanned + Cardinality(delta.added) - Cardinality(delta.deleted),
   against |-> SourceTexts(t, s)]

PatchSrc(data, delta, t, s) ==
  [obs |-> [f \in SrcFiles |-> [c \in Contents |->
              (IF f \in delta.deleted \cup delta.changed THEN 0 ELSE data.obs[f][c])
              + (IF f \in delta.added \cup delta.changed /\ t[f] = c THEN 1 ELSE 0)]],
   scanned |-> LET n == data.scanned + Cardinality(delta.added)
                   d == Cardinality(delta.deleted)
               IN IF d > n THEN 0 ELSE n - d,
   against |-> SourceTexts(t, s)]

PatchSource(data, t, s) == [data EXCEPT !.against = SourceTexts(t, s)]

-----------------------------------------------------------------------------
(* The dispatch: what changed, and what to do about it.                    *)

EmptyTree == [f \in Files |-> Absent]
RecordsOf(index) == IF index = NoFile THEN EmptyTree ELSE index.files

(* The records the fingerprint is taken from: src is not walked again when *)
(* the layout fingerprint differs from the indexed one.                    *)
Tracked(t, s) ==
  IF filesIndex = NoFile THEN t
  ELSE [f \in Files |-> IF f \in SrcFiles /\ filesIndex.source # s
                        THEN filesIndex.files[f] ELSE t[f]]

(* The paths of the delta that the index or the tree knows, by kind.       *)
SrcDelta(base, now) ==
  LET known == {f \in SrcFiles : now[f] # Absent \/ RecordsOf(filesIndex)[f] # Absent}
  IN [added   |-> {f \in known : base[f] = Absent /\ now[f] # Absent},
      changed |-> {f \in known : base[f] # now[f] /\ base[f] # Absent /\ now[f] # Absent},
      deleted |-> {f \in known : base[f] # Absent /\ now[f] = Absent}]
Affected(delta) == delta.added \cup delta.changed \cup delta.deleted

(* Of the source locale only the file `source` is classified as such; its  *)
(* other segments are paths like a target's.                               *)
LocaleDelta(base, now) ==
  {f \in LocaleFiles : /\ base[f] # now[f]
                       /\ now[f] # Absent \/ RecordsOf(filesIndex)[f] # Absent}

Bound(now) == analysis # NoFile /\ analysis.epoch = now

AboveThreshold(affected, now) ==
  LET n == Cardinality(Present(now))
  IN n = 0 \/ 100 * Cardinality(affected) >= Threshold * n

FullRescanUnlessMixed(base, now, s) ==   \* mutant: a source-locale edit never forces a rescan
  LET src == Affected(SrcDelta(base, now))
      loc == LocaleDelta(base, now)
  IN \/ env.rebuild = "full"
     \/ analysis = NoFile \/ filesIndex = NoFile
     \/ filesIndex.source # s
     \/ loc = {} /\ src = {}
     \/ s \notin loc /\ src # {} /\ AboveThreshold(src, now)

FullRescan(base, now, s) ==
  LET src == Affected(SrcDelta(base, now))
      loc == LocaleDelta(base, now)
  IN \/ env.rebuild = "full"
     \/ analysis = NoFile \/ filesIndex = NoFile
     \/ filesIndex.source # s
     \/ s \in loc /\ (loc # {s} \/ src # {})
     \/ loc = {} /\ src = {}
     \/ s \notin loc /\ src # {} /\ AboveThreshold(src, now)

Plan(base, now, s) ==
  IF filesIndex = NoFile /\ base # now /\ Bound(now) THEN "reuse"
  ELSE IF base = now /\ Bound(now) THEN "hit"
  ELSE IF FullRescan(base, now, s) THEN "full"
  ELSE IF s \in LocaleDelta(base, now) THEN "source"
  ELSE IF Affected(SrcDelta(base, now)) = {} THEN "reuse"
  ELSE "patch"

-----------------------------------------------------------------------------
(* Commands.                                                               *)

Payloads == [obs : [SrcFiles -> [Contents -> Nat]], scanned : Nat,
             against : [LocaleFiles -> Contents \cup {Absent}]]
(* A cache file that is there is not mistaken for one that is not.         *)
ASSUME NoFileAssumption ==
  NoFile \notin [files : Trees, source : LocaleFiles] \cup [data : Payloads, epoch : Trees]
NoData  == [obs |-> [f \in SrcFiles |-> [c \in Contents |-> 0]], scanned |-> 0,
            against |-> [f \in LocaleFiles |-> Absent]]
NoDelta == [added |-> {}, changed |-> {}, deleted |-> {}]
Rest(me) == [me EXCEPT !.calm = FALSE, !.seen = EmptyTree, !.now = EmptyTree, !.plan = "none",
                       !.delta = NoDelta, !.data = NoData]
Idle == [pc |-> "idle", left |-> 0, readOnly |-> FALSE, quiet |-> FALSE, calm |-> FALSE,
         wrote |-> FALSE, base |-> EmptyTree, source |-> CHOOSE f \in Primary : TRUE,
         seen |-> EmptyTree, now |-> EmptyTree, plan |-> "none",
         delta |-> NoDelta, data |-> NoData]

Init ==
  /\ env \in Environments
  /\ tree \in InitialTrees /\ source \in Primary
  /\ filesIndex = NoFile /\ analysis = NoFile
  /\ procs = [p \in Processes |-> Idle]
  /\ settled = FALSE
  /\ edits = 0 /\ starts = 0

Become(p, me) == procs' = [procs EXCEPT ![p] = me]

(* Resolving a context snapshots files.json as the command's baseline.     *)
Start(p) ==
  /\ procs[p].pc = "idle" /\ starts < env.maxStarts
  /\ env.alone => \A q \in Processes : procs[q].pc = "idle"
  /\ \E ro \in BOOLEAN :
       Become(p, [Idle EXCEPT !.pc = "ready", !.left = env.dispatches, !.readOnly = ro,
                              !.quiet = settled, !.base = RecordsOf(filesIndex),
                              !.source = source])
  /\ starts' = starts + 1
  /\ UNCHANGED <<env, tree, source, disk, settled, edits>>

(* Load the index, take the fingerprint, load the analysis, decide.  A hit *)
(* serves the cached payload at once and writes nothing.  A command that   *)
(* wrote locale files invalidates before it dispatches again.              *)
Fingerprint(p) ==
  LET me   == procs[p]
      now  == Tracked(tree, me.source)
      plan == Plan(me.base, now, me.source)
  IN /\ me.pc = "ready" /\ me.left > 0 /\ ~me.wrote
     /\ Become(p, [me EXCEPT !.pc = IF plan = "hit" THEN "served" ELSE "scan",
                             !.left = me.left - 1, !.calm = env.alone, !.seen = tree, !.now = now, !.plan = plan,
                             !.delta = SrcDelta(me.base, now),
                             !.data = IF analysis = NoFile THEN NoData ELSE analysis.data])
     /\ UNCHANGED <<env, tree, source, disk, settled, edits, starts>>

Produce(p) ==
  LET me == procs[p]
  IN /\ me.pc = "scan"
     /\ Become(p, [me EXCEPT !.pc = "saveFiles",
                             !.data = CASE me.plan = "full"   -> Scan(tree, me.source)
                                        [] me.plan = "source" -> PatchSource(me.data, tree, me.source)
                                        [] me.plan = "patch"  -> PatchSrc(me.data, me.delta, tree, me.source)
                                        [] me.plan = "reuse"  -> me.data])
     /\ UNCHANGED <<env, tree, source, disk, settled, edits, starts>>

(* Each save replaces its file atomically; one that fails is a warning, a  *)
(* read-only cache is skipped, and the dispatch goes on either way.        *)
Skipped(p) == procs[p].readOnly
MayFail    == "write" \in env.faults

SaveFilesWhenScanned(p) ==   \* mutant: a reused payload does not restore the index
  /\ procs[p].pc = "saveFiles"
  /\ \/ ~Skipped(p) /\ procs[p].plan # "reuse"
        /\ filesIndex' = [files |-> procs[p].now, source |-> procs[p].source]
     \/ (Skipped(p) \/ procs[p].plan = "reuse" \/ MayFail) /\ UNCHANGED filesIndex
  /\ Become(p, [procs[p] EXCEPT !.pc = "saveAnalysis"])
  /\ UNCHANGED <<env, tree, source, analysis, settled, edits, starts>>

SaveFiles(p) ==
  /\ procs[p].pc = "saveFiles"
  /\ \/ ~Skipped(p) /\ filesIndex' = [files |-> procs[p].now, source |-> procs[p].source]
     \/ (Skipped(p) \/ MayFail) /\ UNCHANGED filesIndex
  /\ Become(p, [procs[p] EXCEPT !.pc = "saveAnalysis"])
  /\ UNCHANGED <<env, tree, source, analysis, settled, edits, starts>>

SaveAnalysis(p) ==
  /\ procs[p].pc = "saveAnalysis"
  /\ \/ ~Skipped(p) /\ analysis' = [data |-> procs[p].data, epoch |-> procs[p].now]
     \/ (Skipped(p) \/ MayFail) /\ UNCHANGED analysis
  /\ Become(p, [procs[p] EXCEPT !.pc = "served"])
  /\ settled' = (settled \/ (env.alone /\ procs[p].calm /\ ~Skipped(p) /\ ~MayFail))
  /\ UNCHANGED <<env, tree, source, filesIndex, edits, starts>>

(* The command goes on with the payload it was served.                     *)
Use(p) ==
  /\ procs[p].pc = "served"
  /\ Become(p, [Rest(procs[p]) EXCEPT !.pc = "ready"])
  /\ UNCHANGED <<env, tree, source, disk, settled, edits, starts>>

-----------------------------------------------------------------------------
(* What happens to the project and to the cache in the meantime.           *)

MayEdit ==
  /\ edits < env.maxEdits
  /\ "race" \in env.faults \/ \A p \in Processes : procs[p].pc # "scan"

Disturb ==
  /\ settled' = FALSE
  /\ procs' = [p \in Processes |-> [procs[p] EXCEPT !.quiet = FALSE, !.calm = FALSE]]

(* The developer writes, changes or deletes a file.                        *)
Edit(f, c) ==
  /\ MayEdit /\ c # tree[f] /\ (f \in Primary => c # Absent)
  /\ tree' = [tree EXCEPT ![f] = c] /\ edits' = edits + 1
  /\ Disturb
  /\ UNCHANGED <<env, source, disk, starts>>

(* generate and sync write locale files between two dispatches ...         *)
WriteLocale(p, f, c) ==
  LET me == procs[p]
  IN /\ me.pc = "ready" /\ ~me.readOnly /\ me.left < env.dispatches
     /\ MayEdit /\ c # tree[f]
     /\ tree' = [tree EXCEPT ![f] = c] /\ edits' = edits + 1
     /\ settled' = FALSE
     /\ procs' = [q \in Processes |-> [procs[q] EXCEPT !.quiet = FALSE, !.calm = FALSE,
                                                       !.wrote = @ \/ q = p]]
     /\ UNCHANGED <<env, source, disk, starts>>

(* ... and then apply the invalidation policy: with rebuild = full the     *)
(* analysis is deleted, with partial it is left to the next dispatch.      *)
Invalidate(p) ==
  /\ procs[p].pc = "ready" /\ procs[p].wrote
  /\ analysis' = IF env.rebuild = "full" THEN NoFile ELSE analysis
  /\ Become(p, [procs[p] EXCEPT !.wrote = FALSE])
  /\ UNCHANGED <<env, tree, source, filesIndex, settled, edits, starts>>

Exit(p) ==
  /\ procs[p].pc = "ready" /\ ~procs[p].wrote
  /\ Become(p, Idle)
  /\ UNCHANGED <<env, tree, source, disk, settled, edits, starts>>

Crash(p) ==
  /\ "crash" \in env.faults /\ procs[p].pc # "idle"
  /\ Become(p, Idle) /\ settled' = FALSE
  /\ UNCHANGED <<env, tree, source, disk, edits, starts>>

(* A cache file is cleared by the user, or found malformed and deleted.    *)
Lose ==
  /\ "lost" \in env.faults /\ edits < env.maxEdits /\ edits' = edits + 1
  /\ \/ filesIndex' = NoFile /\ UNCHANGED analysis
     \/ analysis' = NoFile /\ UNCHANGED filesIndex
  /\ Disturb
  /\ UNCHANGED <<env, tree, source, starts>>

Command(p) ==
  \/ Start(p) \/ Fingerprint(p) \/ Produce(p) \/ SaveFiles(p) \/ SaveAnalysis(p) \/ Use(p)
  \/ \E f \in LocaleFiles, c \in Contents : WriteLocale(p, f, c)
  \/ Invalidate(p) \/ Exit(p) \/ Crash(p)

Next ==
  \/ \E p \in Processes : Command(p)
  \/ \E f \in Files, c \in Contents \cup {Absent} : Edit(f, c)
  \/ Lose

Spec == Init /\ [][Next]_vars

-----------------------------------------------------------------------------
Deltas == [added : SUBSET SrcFiles, changed : SUBSET SrcFiles, deleted : SUBSET SrcFiles]
Commands ==
  [pc : {"idle", "ready", "scan", "saveFiles", "saveAnalysis", "served"}, left : Nat,
   readOnly : BOOLEAN, quiet : BOOLEAN, calm : BOOLEAN, wrote : BOOLEAN,
   base : Trees, source : LocaleFiles, seen : Trees, now : Trees,
   plan : {"none", "hit", "reuse", "source", "patch", "full"},
   delta : Deltas, data : Payloads]

(* The state is well formed: in particular a file that is on disk holds a  *)
(* complete index or a complete payload, and counts stay natural numbers.  *)
TypeOK ==
  /\ env \in Environments /\ tree \in Trees /\ source \in LocaleFiles
  /\ filesIndex \in [files : Trees, source : LocaleFiles] \cup {NoFile}
  /\ analysis \in [data : Payloads, epoch : Trees] \cup {NoFile}
  /\ procs \in [Processes -> Commands]
  /\ settled \in BOOLEAN /\ edits \in 0..env.maxEdits /\ starts \in 0..env.maxStarts

(* A payload is a scan of a tree: every file's observations once, no file  *)
(* forgotten, and the missing keys computed against the source locale.     *)
(* With rebuild = partial only its primary file is sure to be up to date:  *)
(* an edit of another segment alone counts as a target's, and the payload  *)
(* is reused as it is.                                                     *)
UpToDate(s) == IF env.rebuild = "full" THEN SegmentsOf[s] ELSE {s}
IsScan(data, t, s) ==
  /\ data.obs = Scan(t, s).obs /\ data.scanned = Scan(t, s).scanned
  /\ \A f \in UpToDate(s) : data.against[f] = t[f]

(* What a dispatch serves, whether read from disk, patched or scanned, is  *)
(* a scan of the project it fingerprinted (dispatch.ts, rebuild.ts:        *)
(* "patch(src delta) matches full scan").                                  *)
ServedIsFresh ==
  \A p \in Processes : procs[p].pc = "served" =>
    IsScan(procs[p].data, procs[p].seen, procs[p].source)

(* The payload on disk is a scan of the tree its inputFilesEpoch names,    *)
(* whichever commands wrote the two files, in whatever order, and wherever *)
(* one of them was killed: what makes a later hit sound.                   *)
BoundAnalysisIsAScan ==
  analysis # NoFile => IsScan(analysis.data, analysis.epoch, source)

(* A command that starts after another one completed, with nothing changed *)
(* since, never scans again: its first dispatch is a hit.                  *)
NoNeedlessRescan ==
  \A p \in Processes : procs[p].quiet => procs[p].plan \in {"none", "hit"}
=============================================================================
