------------------------- MODULE ProjectCache_proofs -------------------------
(* Proofs about ProjectCache: for any project, any number of commands and   *)
(* any threshold, and whatever commands overlap, crash or fail to write.    *)
EXTENDS ProjectCache, FiniteSetTheorems, TLAPS

LEMMA EnvType ==
    ASSUME env \in Environments
    PROVE  /\ env.rebuild \in {"full", "partial"} /\ env.dispatches \in Nat
           /\ env.maxEdits \in Nat /\ env.maxStarts \in Nat
BY EnvironmentsAssumption

LEMMA Counts ==
    ASSUME NEW S \in SUBSET SrcFiles
    PROVE  Cardinality(S) \in Nat
BY FilesAssumption, FS_Subset, FS_CardinalityType DEF Files

LEMMA SourceTextsType ==
    ASSUME NEW u \in Trees, NEW s \in LocaleFiles
    PROVE  SourceTexts(u, s) \in [LocaleFiles -> Contents \cup {Absent}]
<1>1. \A f \in LocaleFiles : u[f] \in Contents \cup {Absent}
  BY DEF Trees, Files
<1> QED
  BY <1>1 DEF SourceTexts

(* The keys of a scan are compared with every segment of the source locale. *)
LEMMA SourceTextsAre ==
    ASSUME NEW u, NEW s \in LocaleFiles, NEW f \in SegmentsOf[s]
    PROVE  SourceTexts(u, s)[f] = u[f] /\ s \in SegmentsOf[s]
BY FilesAssumption DEF SourceTexts

LEMMA ScanType ==
    ASSUME NEW u \in Trees, NEW s \in LocaleFiles
    PROVE  Scan(u, s) \in Payloads
<1>1. SourceTexts(u, s) \in [LocaleFiles -> Contents \cup {Absent}]
  BY SourceTextsType
<1>2. Cardinality(Present(u)) \in Nat
  BY Counts DEF Present
<1>3. [f \in SrcFiles |-> [c \in Contents |-> IF u[f] = c THEN 1 ELSE 0]]
        \in [SrcFiles -> [Contents -> Nat]]
  OBVIOUS
<1> QED
  BY <1>1, <1>2, <1>3 DEF Scan, Payloads

LEMMA PatchSrcType ==
    ASSUME NEW data \in Payloads, NEW delta \in Deltas, NEW u \in Trees, NEW s \in LocaleFiles
    PROVE  PatchSrc(data, delta, u, s) \in Payloads
<1> DEFINE new == PatchSrc(data, delta, u, s)
<1>1. SourceTexts(u, s) \in [LocaleFiles -> Contents \cup {Absent}]
  BY SourceTextsType
<1>2. Cardinality(delta.added) \in Nat /\ Cardinality(delta.deleted) \in Nat
  BY Counts DEF Deltas
<1>3. data.scanned \in Nat /\ data.obs \in [SrcFiles -> [Contents -> Nat]]
  BY DEF Payloads
<1>4. new.scanned \in Nat
  BY <1>2, <1>3 DEF PatchSrc
<1>5. \A f \in SrcFiles, c \in Contents :
        (IF f \in delta.deleted \cup delta.changed THEN 0 ELSE data.obs[f][c])
        + (IF f \in delta.added \cup delta.changed /\ u[f] = c THEN 1 ELSE 0) \in Nat
  BY <1>3
<1>6. new.obs \in [SrcFiles -> [Contents -> Nat]]
  BY <1>5 DEF PatchSrc
<1>7. new = [obs |-> new.obs, scanned |-> new.scanned, against |-> SourceTexts(u, s)]
  BY DEF PatchSrc
<1> HIDE DEF new
<1>8. [obs |-> new.obs, scanned |-> new.scanned, against |-> SourceTexts(u, s)] \in Payloads
  BY <1>1, <1>4, <1>6 DEF Payloads
<1> QED
  BY <1>7, <1>8 DEF new

LEMMA PatchSourceType ==
    ASSUME NEW data \in Payloads, NEW u \in Trees, NEW s \in LocaleFiles
    PROVE  PatchSource(data, u, s) \in Payloads
<1>1. SourceTexts(u, s) \in [LocaleFiles -> Contents \cup {Absent}]
  BY SourceTextsType
<1> QED
  BY <1>1 DEF PatchSource, Payloads

LEMMA EmptyTypes == /\ EmptyTree \in Trees /\ NoData \in Payloads /\ NoDelta \in Deltas
                    /\ Idle \in Commands
<1>1. EmptyTree \in Trees /\ NoData \in Payloads /\ NoDelta \in Deltas
  BY DEF EmptyTree, Trees, NoData, Payloads, NoDelta, Deltas
<1>2. (CHOOSE f \in Primary : TRUE) \in LocaleFiles
  BY FilesAssumption
<1>3. Idle \in Commands
  BY <1>1, <1>2 DEF Idle, Commands
<1> QED
  BY <1>1, <1>3

LEMMA TrackedType ==
    ASSUME TypeOK, NEW s \in LocaleFiles
    PROVE  Tracked(tree, s) \in Trees
BY DEF TypeOK, Tracked, Trees, Files

LEMMA RecordsType ==
    ASSUME TypeOK
    PROVE  RecordsOf(filesIndex) \in Trees
BY EmptyTypes DEF TypeOK, RecordsOf

LEMMA DeltaType == \A base, now : SrcDelta(base, now) \in Deltas
BY DEF SrcDelta, Deltas

LEMMA PlanType == \A base, now, s : Plan(base, now, s) \in {"hit", "reuse", "source", "patch", "full"}
BY DEF Plan

LEMMA BecomeType ==
    ASSUME procs \in [Processes -> Commands], NEW p \in Processes, NEW me \in Commands,
           Become(p, me)
    PROVE  procs' \in [Processes -> Commands]
BY DEF Become

-----------------------------------------------------------------------------
(* The inductive invariant.                                                 *)

Indexes == [files : Trees, source : LocaleFiles] \cup {NoFile}
Analyses == [data : Payloads, epoch : Trees] \cup {NoFile}

(* Every miss is a full scan, and nobody writes between a fingerprint and   *)
(* the scan it stands for.                                                  *)
Undisturbed == env.rebuild = "full" /\ "race" \notin env.faults

(* A scan is only entered with a plan that says how to produce the payload. *)
Planned(me) == me.pc = "scan" => me.plan \in {"reuse", "source", "patch", "full"}

(* What is on disk is of the configured source, and the payload is a scan   *)
(* of the tree it is bound to.                                              *)
DiskSound ==
  /\ filesIndex # NoFile => filesIndex.source = source
  /\ analysis # NoFile => analysis.data = Scan(analysis.epoch, source)

(* A command holds the tree it fingerprinted and, from its production on,   *)
(* the scan of that tree; while it scans the tree is still the same.        *)
Scanned(me) == me.pc \in {"saveFiles", "saveAnalysis", "served"}
Fresh(me) ==
  /\ me.pc # "idle" => me.source = source
  /\ me.pc = "scan" \/ Scanned(me) => me.now = me.seen
  /\ me.pc = "scan" => me.seen = tree /\ me.plan \in {"full", "reuse"}
  /\ Scanned(me) \/ (me.pc = "scan" /\ me.plan = "reuse") => me.data = Scan(me.seen, source)

IInv ==
  /\ TypeOK
  /\ \A p \in Processes : Planned(procs[p])
  /\ Undisturbed => DiskSound /\ \A p \in Processes : Fresh(procs[p])

(* A step of a command: the others and the project stay as they are.        *)
LEMMA Advance ==
    ASSUME IInv, NEW p \in Processes, NEW me \in Commands, Become(p, me), Planned(me),
           UNCHANGED <<env, tree, source, edits>>, starts' \in 0 .. env.maxStarts,
           filesIndex' \in Indexes, analysis' \in Analyses, settled' \in BOOLEAN,
           Undisturbed => DiskSound' /\ Fresh(me)
    PROVE  IInv'
<1>1. /\ procs' \in [Processes -> Commands] /\ procs'[p] = me
      /\ \A q \in Processes : q # p => procs'[q] = procs[q]
  BY DEF Become, IInv, TypeOK
<1>2. TypeOK'
  BY <1>1 DEF IInv, TypeOK, Indexes, Analyses
<1>3. \A q \in Processes : Planned(procs'[q])
  BY <1>1 DEF IInv
<1>4. ASSUME Undisturbed, NEW q \in Processes PROVE Fresh(procs[q])'
  <2>1. Fresh(procs'[q])
    BY <1>1, <1>4 DEF IInv
  <2> QED
    BY <2>1 DEF Fresh, Scanned
<1> QED
  BY <1>2, <1>3, <1>4 DEF IInv, Planned, Undisturbed

(* An event of the environment: no command moves, and none is scanning when *)
(* the tree changes.                                                        *)
Stays(q) == /\ procs'[q].pc = procs[q].pc /\ procs'[q].plan = procs[q].plan
            /\ procs'[q].source = procs[q].source /\ procs'[q].data = procs[q].data
            /\ procs'[q].seen = procs[q].seen /\ procs'[q].now = procs[q].now

LEMMA Stir ==
    ASSUME IInv, procs' \in [Processes -> Commands], \A q \in Processes : Stays(q),
           UNCHANGED <<env, source, starts>>, edits' \in 0 .. env.maxEdits, tree' \in Trees,
           filesIndex' \in Indexes, analysis' \in Analyses, settled' \in BOOLEAN,
           Undisturbed => DiskSound'
                          /\ (tree' = tree \/ \A q \in Processes : procs[q].pc # "scan")
    PROVE  IInv'
<1>1. TypeOK'
  BY DEF IInv, TypeOK, Indexes, Analyses
<1>2. \A q \in Processes : Planned(procs'[q])
  BY DEF IInv, Planned, Stays
<1>3. ASSUME Undisturbed, NEW q \in Processes PROVE Fresh(procs[q])'
  <2>1. Fresh(procs[q]) /\ Stays(q) /\ (tree' = tree \/ procs[q].pc # "scan")
    BY <1>3 DEF IInv
  <2> QED
    BY <2>1 DEF Fresh, Scanned, Stays
<1> QED
  BY <1>1, <1>2, <1>3 DEF IInv, Planned, Undisturbed

-----------------------------------------------------------------------------
(* The steps of a command.                                                  *)

LEMMA StartStep == ASSUME IInv, NEW p \in Processes, Start(p) PROVE IInv'
<1>1. PICK ro \in BOOLEAN :
        Become(p, [Idle EXCEPT !.pc = "ready", !.left = env.dispatches, !.readOnly = ro,
                               !.quiet = settled, !.base = RecordsOf(filesIndex),
                               !.source = source])
  BY DEF Start
<1> DEFINE me == [Idle EXCEPT !.pc = "ready", !.left = env.dispatches, !.readOnly = ro,
                              !.quiet = settled, !.base = RecordsOf(filesIndex),
                              !.source = source]
<1>2. me \in Commands
  BY EnvType, EmptyTypes, RecordsType DEF IInv, TypeOK, Commands
<1>3. me.pc = "ready" /\ me.source = source
  BY DEF Idle
<1>4. starts' \in 0 .. env.maxStarts
  BY EnvType DEF IInv, TypeOK, Start
<1>5. UNCHANGED <<env, tree, source, edits, filesIndex, analysis, settled>> /\ Become(p, me)
  BY <1>1 DEF Start, disk
<1> HIDE DEF me
<1>6. Planned(me) /\ Fresh(me)
  BY <1>3 DEF Planned, Fresh, Scanned
<1>7. Undisturbed => DiskSound'
  BY <1>5 DEF IInv, DiskSound
<1> QED
  BY <1>2, <1>4, <1>5, <1>6, <1>7, Advance DEF IInv, TypeOK, Indexes, Analyses

(* What a dispatch decides when it may not patch: a payload that is bound   *)
(* to the fingerprinted tree, or a scan.                                    *)
LEMMA FullPlan ==
    ASSUME env.rebuild = "full", NEW base, NEW now, NEW s
    PROVE  /\ Plan(base, now, s) \in {"hit", "reuse", "full"}
           /\ Plan(base, now, s) \in {"hit", "reuse"} => Bound(now)
BY DEF Plan, FullRescan

LEMMA TreeTracked ==
    ASSUME tree \in Trees, DiskSound
    PROVE  Tracked(tree, source) = tree
BY DEF Trees, Tracked, DiskSound

LEMMA FingerprintStep == ASSUME IInv, NEW p \in Processes, Fingerprint(p) PROVE IInv'
<1> DEFINE me == procs[p]
           now == Tracked(tree, me.source)
           plan == Plan(me.base, now, me.source)
           delta == SrcDelta(me.base, now)
           data == IF analysis = NoFile THEN NoData ELSE analysis.data
           step == [me EXCEPT !.pc = IF plan = "hit" THEN "served" ELSE "scan",
                              !.left = me.left - 1, !.calm = env.alone, !.seen = tree,
                              !.now = now, !.plan = plan, !.delta = delta, !.data = data]
<1>1. /\ me \in Commands /\ me.left > 0 /\ me.pc = "ready" /\ Become(p, step)
      /\ UNCHANGED <<env, tree, source, filesIndex, analysis, settled, edits, starts>>
  BY DEF IInv, TypeOK, Fingerprint, disk
<1>2. /\ now \in Trees /\ plan \in {"hit", "reuse", "source", "patch", "full"}
      /\ delta \in Deltas /\ data \in Payloads /\ tree \in Trees
  <2>1. now \in Trees
    BY <1>1, TrackedType DEF Commands, IInv
  <2>2. data \in Payloads
    BY EmptyTypes DEF TypeOK, IInv
  <2> QED
    BY <2>1, <2>2, DeltaType, PlanType DEF TypeOK, IInv
<1>3. me.left - 1 \in Nat
  BY <1>1 DEF Commands
<1>4. env.alone \in BOOLEAN
  BY EnvironmentsAssumption DEF TypeOK, IInv
<1>5. ASSUME Undisturbed
      PROVE  /\ me.source = source /\ now = tree
             /\ plan \in {"hit", "reuse", "full"}
             /\ plan \in {"hit", "reuse"} => data = Scan(tree, source)
  <2>1. DiskSound /\ me.source = source
    BY <1>1, <1>5 DEF IInv, Fresh
  <2>2. now = tree
    BY <1>2, <2>1, TreeTracked
  <2>3. /\ plan \in {"hit", "reuse", "full"}
        /\ plan \in {"hit", "reuse"} => Bound(now)
    BY <1>5, FullPlan DEF Undisturbed
  <2>4. Bound(now) => data = Scan(tree, source)
    BY <2>1, <2>2 DEF Bound, DiskSound
  <2> QED
    BY <2>1, <2>2, <2>3, <2>4
<1> HIDE DEF now, plan, delta, data
<1>6. step \in Commands
  BY <1>1, <1>2, <1>3, <1>4 DEF Commands
<1>7. /\ step.pc = IF plan = "hit" THEN "served" ELSE "scan"
      /\ step.plan = plan /\ step.seen = tree /\ step.now = now /\ step.data = data
      /\ step.source = me.source
  BY <1>1 DEF Commands
<1> HIDE DEF step
<1>8. Planned(step)
  BY <1>2, <1>7 DEF Planned
<1>9. Undisturbed => Fresh(step)
  BY <1>5, <1>7 DEF Fresh, Scanned
<1>10. Undisturbed => DiskSound'
  BY <1>1 DEF IInv, DiskSound
<1> QED
  BY <1>1, <1>6, <1>8, <1>9, <1>10, Advance DEF IInv, TypeOK, Indexes, Analyses

LEMMA ProduceStep == ASSUME IInv, NEW p \in Processes, Produce(p) PROVE IInv'
<1> DEFINE me == procs[p]
           data == CASE me.plan = "full"   -> Scan(tree, me.source)
                     [] me.plan = "source" -> PatchSource(me.data, tree, me.source)
                     [] me.plan = "patch"  -> PatchSrc(me.data, me.delta, tree, me.source)
                     [] me.plan = "reuse"  -> me.data
           step == [me EXCEPT !.pc = "saveFiles", !.data = data]
<1>1. /\ me \in Commands /\ Become(p, step) /\ tree \in Trees /\ me.pc = "scan"
      /\ UNCHANGED <<env, tree, source, filesIndex, analysis, settled, edits, starts>>
  BY DEF IInv, TypeOK, Produce, disk
<1>2. me.data \in Payloads /\ me.delta \in Deltas /\ me.source \in LocaleFiles
  BY <1>1 DEF Commands
<1>3. data \in Payloads
  <2>1. me.plan \in {"reuse", "source", "patch", "full"}
    BY <1>1 DEF IInv, Planned
  <2> QED
    BY <1>1, <1>2, <2>1, ScanType, PatchSourceType, PatchSrcType
<1>4. Undisturbed => Fresh(me) /\ data = Scan(tree, source)
  BY <1>1 DEF IInv, Fresh
<1> HIDE DEF data
<1>5. step \in Commands
  BY <1>1, <1>3 DEF Commands
<1>6. /\ step.pc = "saveFiles" /\ step.data = data /\ step.seen = me.seen /\ step.now = me.now
      /\ step.source = me.source
  BY <1>1 DEF Commands
<1> HIDE DEF step
<1>7. Planned(step) /\ (Undisturbed => Fresh(step))
  BY <1>1, <1>4, <1>6 DEF Planned, Fresh, Scanned
<1>8. Undisturbed => DiskSound'
  BY <1>1 DEF IInv, DiskSound
<1> QED
  BY <1>1, <1>5, <1>7, <1>8, Advance DEF IInv, TypeOK, Indexes, Analyses

LEMMA SaveFilesStep == ASSUME IInv, NEW p \in Processes, SaveFiles(p) PROVE IInv'
<1> DEFINE me == procs[p]
           step == [me EXCEPT !.pc = "saveAnalysis"]
<1>1. /\ me \in Commands /\ Become(p, step) /\ me.pc = "saveFiles"
      /\ UNCHANGED <<env, tree, source, analysis, settled, edits, starts>>
      /\ filesIndex' \in {filesIndex, [files |-> me.now, source |-> me.source]}
  BY DEF IInv, TypeOK, SaveFiles
<1>2. step \in Commands /\ me.now \in Trees /\ me.source \in LocaleFiles
  BY <1>1 DEF Commands
<1>3. /\ step.pc = "saveAnalysis" /\ step.data = me.data /\ step.seen = me.seen
      /\ step.now = me.now /\ step.source = me.source
  BY <1>1 DEF Commands
<1> HIDE DEF step
<1>4. Planned(step)
  BY <1>3 DEF Planned
<1>5. ASSUME Undisturbed PROVE DiskSound' /\ Fresh(step)
  <2>1. DiskSound /\ Fresh(me)
    BY <1>5 DEF IInv
  <2>2. Fresh(step) /\ me.source = source
    BY <1>1, <1>3, <2>1 DEF Fresh, Scanned
  <2> QED
    BY <1>1, <2>1, <2>2 DEF DiskSound
<1>6. filesIndex' \in Indexes
  BY <1>1, <1>2 DEF IInv, TypeOK, Indexes
<1> QED
  BY <1>1, <1>2, <1>4, <1>5, <1>6, Advance DEF IInv, TypeOK, Analyses

LEMMA SaveAnalysisStep == ASSUME IInv, NEW p \in Processes, SaveAnalysis(p) PROVE IInv'
<1> DEFINE me == procs[p]
           step == [me EXCEPT !.pc = "served"]
<1>1. /\ me \in Commands /\ Become(p, step) /\ me.pc = "saveAnalysis"
      /\ UNCHANGED <<env, tree, source, filesIndex, edits, starts>>
      /\ analysis' \in {analysis, [data |-> me.data, epoch |-> me.now]}
  BY DEF IInv, TypeOK, SaveAnalysis
<1>2. step \in Commands /\ me.now \in Trees /\ me.data \in Payloads
  BY <1>1 DEF Commands
<1>3. /\ step.pc = "served" /\ step.data = me.data /\ step.seen = me.seen
      /\ step.now = me.now /\ step.source = me.source
  BY <1>1 DEF Commands
<1> HIDE DEF step
<1>4. Planned(step)
  BY <1>3 DEF Planned
<1>5. ASSUME Undisturbed PROVE DiskSound' /\ Fresh(step)
  <2>1. DiskSound /\ Fresh(me)
    BY <1>5 DEF IInv
  <2>2. Fresh(step) /\ me.data = Scan(me.now, source)
    BY <1>1, <1>3, <2>1 DEF Fresh, Scanned
  <2> QED
    BY <1>1, <2>1, <2>2 DEF DiskSound
<1>6. analysis' \in Analyses
  BY <1>1, <1>2 DEF IInv, TypeOK, Analyses
<1>7. settled' \in BOOLEAN
  BY DEF SaveAnalysis
<1> QED
  BY <1>1, <1>2, <1>4, <1>5, <1>6, <1>7, Advance DEF IInv, TypeOK, Indexes

(* The steps that put a command back to rest.                               *)
LEMMA RestStep ==
    ASSUME IInv, NEW p \in Processes, NEW me \in Commands, Become(p, me),
           me.pc \in {"idle", "ready"}, me.pc = "ready" => me.source = procs[p].source,
           me.pc = "ready" => procs[p].pc # "idle",
           UNCHANGED <<env, tree, source, filesIndex, edits, starts>>, settled' \in BOOLEAN,
           analysis' \in {analysis, NoFile}
    PROVE  IInv'
<1>1. Planned(me) /\ (Undisturbed => DiskSound' /\ Fresh(me))
  BY DEF IInv, Planned, Fresh, Scanned, DiskSound
<1> QED
  BY <1>1, Advance DEF IInv, TypeOK, Indexes, Analyses

LEMMA UseStep == ASSUME IInv, NEW p \in Processes, Use(p) PROVE IInv'
<1> DEFINE me == [Rest(procs[p]) EXCEPT !.pc = "ready"]
<1>1. procs[p] \in Commands /\ procs[p].pc = "served" /\ Become(p, me)
      /\ UNCHANGED <<env, tree, source, filesIndex, analysis, edits, starts, settled>>
  BY DEF IInv, TypeOK, Use, disk
<1>2. me \in Commands /\ me.pc = "ready" /\ me.source = procs[p].source
  BY <1>1, EmptyTypes DEF Rest, Commands
<1> HIDE DEF me
<1> QED
  BY <1>1, <1>2, RestStep DEF IInv, TypeOK

LEMMA InvalidateStep == ASSUME IInv, NEW p \in Processes, Invalidate(p) PROVE IInv'
<1> DEFINE me == [procs[p] EXCEPT !.wrote = FALSE]
<1>1. procs[p] \in Commands /\ procs[p].pc = "ready" /\ Become(p, me)
      /\ UNCHANGED <<env, tree, source, filesIndex, edits, starts, settled>>
      /\ analysis' \in {analysis, NoFile}
  BY DEF IInv, TypeOK, Invalidate
<1>2. me \in Commands /\ me.pc = "ready" /\ me.source = procs[p].source
  BY <1>1 DEF Commands
<1> HIDE DEF me
<1> QED
  BY <1>1, <1>2, RestStep DEF IInv, TypeOK

LEMMA EndStep == ASSUME IInv, NEW p \in Processes, Exit(p) \/ Crash(p) PROVE IInv'
<1>1. Become(p, Idle) /\ UNCHANGED <<env, tree, source, filesIndex, analysis, edits, starts>>
  BY DEF Exit, Crash, disk
<1>2. settled' \in BOOLEAN
  BY DEF Exit, Crash, IInv, TypeOK
<1>3. Idle.pc = "idle"
  BY DEF Idle
<1> QED
  BY <1>1, <1>2, <1>3, RestStep, EmptyTypes

-----------------------------------------------------------------------------
(* The environment.                                                         *)

LEMMA Bounded == ASSUME IInv, edits < env.maxEdits PROVE edits + 1 \in 0 .. env.maxEdits
BY EnvType DEF IInv, TypeOK

LEMMA MayEditBound ==
    ASSUME MayEdit
    PROVE  /\ edits < env.maxEdits
           /\ Undisturbed => \A q \in Processes : procs[q].pc # "scan"
BY DEF MayEdit, Undisturbed

LEMMA DisturbType ==
    ASSUME IInv, Disturb
    PROVE  procs' \in [Processes -> Commands] /\ \A q \in Processes : Stays(q)
<1>1. ASSUME NEW q \in Processes
      PROVE  /\ [procs[q] EXCEPT !.quiet = FALSE, !.calm = FALSE] \in Commands
             /\ procs'[q] = [procs[q] EXCEPT !.quiet = FALSE, !.calm = FALSE]
  BY DEF IInv, TypeOK, Disturb, Commands
<1>2. procs' \in [Processes -> Commands]
  BY <1>1 DEF Disturb
<1>3. ASSUME NEW q \in Processes PROVE Stays(q)
  <2>1. procs[q] \in Commands
    BY DEF IInv, TypeOK
  <2> QED
    BY <1>1, <2>1 DEF Stays, Commands
<1> QED
  BY <1>2, <1>3

LEMMA EditStep ==
    ASSUME IInv, NEW f \in Files, NEW c \in Contents \cup {Absent}, Edit(f, c)
    PROVE  IInv'
<1>1. tree' \in Trees
  BY DEF Edit, IInv, TypeOK, Trees
<1>2. edits' \in 0 .. env.maxEdits
  BY MayEditBound, Bounded DEF Edit
<1>3. Undisturbed => DiskSound' /\ \A q \in Processes : procs[q].pc # "scan"
  BY MayEditBound DEF Edit, disk, IInv, DiskSound
<1>4. UNCHANGED <<env, source, filesIndex, analysis, starts>> /\ settled' = FALSE
  BY DEF Edit, disk, Disturb
<1>5. procs' \in [Processes -> Commands] /\ \A q \in Processes : Stays(q)
  BY DisturbType DEF Edit
<1> QED
  BY <1>1, <1>2, <1>3, <1>4, <1>5, Stir DEF IInv, TypeOK, Indexes, Analyses

LEMMA LoseStep == ASSUME IInv, Lose PROVE IInv'
<1>1. edits' \in 0 .. env.maxEdits
  BY Bounded DEF Lose
<1>2. /\ UNCHANGED <<env, tree, source, starts>> /\ settled' = FALSE
      /\ filesIndex' \in {filesIndex, NoFile} /\ analysis' \in {analysis, NoFile}
  BY DEF Lose, Disturb
<1>3. Undisturbed => DiskSound'
  BY <1>2 DEF IInv, DiskSound
<1>4. procs' \in [Processes -> Commands] /\ \A q \in Processes : Stays(q)
  BY DisturbType DEF Lose
<1> QED
  BY <1>1, <1>2, <1>3, <1>4, Stir DEF IInv, TypeOK, Indexes, Analyses

LEMMA WriteLocaleStep ==
    ASSUME IInv, NEW p \in Processes, NEW f \in LocaleFiles, NEW c \in Contents,
           WriteLocale(p, f, c)
    PROVE  IInv'
<1>1. tree' \in Trees
  BY DEF WriteLocale, IInv, TypeOK, Trees, Files
<1>2. edits' \in 0 .. env.maxEdits
  BY MayEditBound, Bounded DEF WriteLocale
<1>3. Undisturbed => DiskSound' /\ \A q \in Processes : procs[q].pc # "scan"
  BY MayEditBound DEF WriteLocale, disk, IInv, DiskSound
<1>4. UNCHANGED <<env, source, filesIndex, analysis, starts>> /\ settled' = FALSE
  BY DEF WriteLocale, disk
<1>5. ASSUME NEW q \in Processes
      PROVE  procs'[q] \in Commands /\ Stays(q)
  <2>1. procs[q] \in Commands /\ (procs[q].wrote \/ q = p) \in BOOLEAN
    BY DEF IInv, TypeOK
  <2>2. procs'[q] = [procs[q] EXCEPT !.quiet = FALSE, !.calm = FALSE,
                                     !.wrote = procs[q].wrote \/ q = p]
    BY <2>1 DEF WriteLocale, Commands
  <2> QED
    BY <2>1, <2>2 DEF Stays, Commands
<1>6. procs' \in [Processes -> Commands]
  BY <1>5 DEF WriteLocale
<1> QED
  BY <1>1, <1>2, <1>3, <1>4, <1>5, <1>6, Stir DEF IInv, TypeOK, Indexes, Analyses

-----------------------------------------------------------------------------
(* The theorems.                                                            *)

LEMMA Beginning == Init => IInv
<1> SUFFICES ASSUME Init PROVE IInv
  OBVIOUS
<1>1. TypeOK
  <2>1. tree \in Trees /\ env \in Environments
    BY ProjectAssumption DEF Init
  <2>2. edits \in 0 .. env.maxEdits /\ starts \in 0 .. env.maxStarts
    BY <2>1, EnvType DEF Init
  <2>3. procs \in [Processes -> Commands]
    BY EmptyTypes DEF Init
  <2> QED
    BY <2>1, <2>2, <2>3, FilesAssumption DEF Init, TypeOK
<1>2. \A p \in Processes : procs[p].pc = "idle"
  BY DEF Init, Idle
<1>3. filesIndex = NoFile /\ analysis = NoFile
  BY DEF Init
<1> QED
  BY <1>1, <1>2, <1>3 DEF IInv, Planned, DiskSound, Fresh, Scanned

LEMMA NextStep == IInv /\ [Next]_vars => IInv'
<1> SUFFICES ASSUME IInv, [Next]_vars PROVE IInv'
  OBVIOUS
<1>1. ASSUME NEW p \in Processes, Command(p) PROVE IInv'
  BY <1>1, StartStep, FingerprintStep, ProduceStep, SaveFilesStep, SaveAnalysisStep,
     UseStep, WriteLocaleStep, InvalidateStep, EndStep DEF Command
<1>2. CASE UNCHANGED vars
  BY <1>2 DEF vars, disk, IInv, TypeOK, Planned, Undisturbed, DiskSound, Fresh, Scanned
<1> QED
  BY <1>1, <1>2, EditStep, LoseStep DEF Next

LEMMA Invariance == Spec => []IInv
BY Beginning, NextStep, PTL DEF Spec

(* The cache keeps its shape: whatever is patched, counts stay natural      *)
(* numbers and files on disk are complete (rebuild.ts, io/state.ts).        *)
THEOREM TypeCorrect == Spec => []TypeOK
<1>1. IInv => TypeOK
  BY DEF IInv
<1> QED
  BY Invariance, <1>1, PTL

LEMMA ScanIsScan ==
    ASSUME NEW t, NEW s \in LocaleFiles
    PROVE  IsScan(Scan(t, s), t, s)
<1>1. \A f \in SegmentsOf[s] : Scan(t, s).against[f] = t[f]
  BY SourceTextsAre DEF Scan
<1>2. UpToDate(s) \subseteq SegmentsOf[s]
  BY FilesAssumption DEF UpToDate
<1> QED
  BY <1>1, <1>2 DEF IsScan

(* With rebuild = full, what any command is served is what a scan of the    *)
(* project it fingerprinted would have produced, whatever else overlaps,    *)
(* crashes, fails to write or is lost (dispatch.ts).                        *)
THEOREM FreshUnderFullRebuild == Spec => [](Undisturbed => ServedIsFresh)
<1>1. IInv => (Undisturbed => ServedIsFresh)
  <2> SUFFICES ASSUME IInv, Undisturbed, NEW p \in Processes, procs[p].pc = "served"
               PROVE  IsScan(procs[p].data, procs[p].seen, procs[p].source)
    BY DEF ServedIsFresh
  <2>1. /\ procs[p].source = source /\ source \in LocaleFiles
        /\ procs[p].data = Scan(procs[p].seen, source)
    BY DEF IInv, TypeOK, Fresh, Scanned
  <2> QED
    BY <2>1, ScanIsScan
<1> QED
  BY Invariance, <1>1, PTL

(* And the payload on disk is a scan of the tree its epoch names, whichever *)
(* commands wrote the two files and in whatever order (io/state.ts).        *)
THEOREM BoundUnderFullRebuild == Spec => [](Undisturbed => BoundAnalysisIsAScan)
<1>1. IInv => (Undisturbed => BoundAnalysisIsAScan)
  BY ScanIsScan DEF IInv, TypeOK, DiskSound, BoundAnalysisIsAScan
<1> QED
  BY Invariance, <1>1, PTL

-----------------------------------------------------------------------------
(***************************************************************************)
(* Commands that run one after the other.                                   *)
(***************************************************************************)
(* What a completed dispatch leaves on disk, for as long as nothing happens:*)
(* the index and the analysis are of the tree as it is.                     *)
Indexed == filesIndex # NoFile /\ filesIndex.files = tree
Recorded == analysis # NoFile /\ analysis.epoch = tree

Dispatching(me) == me.pc \in {"scan", "saveFiles", "saveAnalysis"}

(* A calm dispatch is about the tree as it is, and has saved it before it   *)
(* saves the analysis; one that was disturbed, or a command that still owes *)
(* an invalidation, is not settled; a quiet command only ever hits.         *)
Orderly(me, calmly, indexed) ==
  /\ me.pc # "idle" => me.source = source
  /\ me.pc = "idle" => me.quiet = FALSE /\ me.wrote = FALSE
  /\ me.calm = TRUE => env.alone = TRUE
  /\ Dispatching(me) => IF me.calm = TRUE THEN me.now = tree ELSE calmly = FALSE
  /\ me.pc = "saveAnalysis" /\ me.calm = TRUE /\ me.readOnly = FALSE /\ ~MayFail => indexed
  /\ me.wrote = TRUE => me.pc = "ready" /\ calmly = FALSE
  /\ me.quiet = TRUE => /\ calmly = TRUE /\ me.base = tree /\ me.plan \in {"none", "hit"}
                        /\ me.pc \in {"ready", "served"}

AloneInv ==
  /\ filesIndex # NoFile => filesIndex.source = source
  /\ settled = TRUE => env.alone = TRUE /\ Indexed /\ Recorded
  /\ env.alone = TRUE => \A p, q \in Processes : procs[p].pc # "idle" /\ procs[q].pc # "idle" => p = q
  /\ \A p \in Processes : Orderly(procs[p], settled, Indexed)

(* What a step does to the commands that do not take it.                    *)
LEMMA Others ==
    ASSUME AloneInv, NEW q \in Processes, NEW calmly \in BOOLEAN, NEW indexed,
           calmly = TRUE => env.alone = TRUE, settled \in BOOLEAN,
           env.alone = TRUE => procs[q].pc = "idle"
    PROVE  Orderly(procs[q], calmly, indexed)
<1>1. Orderly(procs[q], settled, Indexed)
  BY DEF AloneInv
<1>2. CASE env.alone = TRUE
  BY <1>1, <1>2 DEF Orderly, Dispatching
<1>3. CASE env.alone # TRUE
  <2>1. calmly = FALSE /\ settled = FALSE
    BY <1>3 DEF AloneInv
  <2>2. procs[q].calm # TRUE /\ procs[q].quiet # TRUE
    BY <1>1, <1>3, <2>1 DEF Orderly
  <2> QED
    BY <1>1, <2>1, <2>2 DEF Orderly, Dispatching
<1> QED
  BY <1>2, <1>3

(* A step of a command that leaves the project as it is.                    *)
LEMMA Forward ==
    ASSUME AloneInv, TypeOK, NEW p \in Processes, NEW me \in Commands, Become(p, me),
           UNCHANGED <<env, tree, source>>,
           NEW calmly \in BOOLEAN, calmly = settled', NEW indexed, indexed = Indexed',
           filesIndex' # NoFile => filesIndex'.source = source,
           calmly = TRUE => env.alone = TRUE /\ Indexed' /\ Recorded',
           env.alone = TRUE => \A q \in Processes : q # p => procs[q].pc = "idle",
           Orderly(me, calmly, indexed)
    PROVE  AloneInv'
<1>1. /\ procs' \in [Processes -> Commands] /\ procs'[p] = me
      /\ \A q \in Processes : q # p => procs'[q] = procs[q]
  BY DEF Become, TypeOK
<1>2. settled \in BOOLEAN
  BY DEF TypeOK
<1>3. \A q \in Processes : Orderly(procs'[q], calmly, indexed)
  BY <1>1, <1>2, Others
<1>4. \A q \in Processes : Orderly(procs[q], settled, Indexed)'
  <2> SUFFICES ASSUME NEW q \in Processes PROVE Orderly(procs[q], settled, Indexed)'
    OBVIOUS
  <2>1. Orderly(procs'[q], calmly, indexed)
    BY <1>3
  <2>2. Orderly(procs'[q], settled', Indexed')
    BY <2>1
  <2> QED
    BY <2>2 DEF Orderly, Dispatching, MayFail
<1>5. env'.alone = TRUE =>
        \A q, r \in Processes : procs'[q].pc # "idle" /\ procs'[r].pc # "idle" => q = r
  BY <1>1
<1> QED
  BY <1>4, <1>5 DEF AloneInv

(* An event of the environment, or a locale write: nothing is settled.      *)
LEMMA Stirred ==
    ASSUME AloneInv, TypeOK, UNCHANGED <<env, source>>, settled' = FALSE,
           filesIndex' \in {filesIndex, NoFile},
           \A q \in Processes : /\ procs'[q].pc = procs[q].pc /\ procs'[q].source = procs[q].source
                                /\ procs'[q].calm = FALSE /\ procs'[q].quiet = FALSE
                                /\ (procs'[q].wrote = procs[q].wrote \/ procs[q].pc = "ready")
    PROVE  AloneInv'
<1>1. ASSUME NEW q \in Processes PROVE Orderly(procs[q], settled, Indexed)'
  <2>1. Orderly(procs[q], settled, Indexed)
    BY DEF AloneInv
  <2>2. /\ procs'[q].pc # "idle" => procs'[q].source = source'
        /\ procs'[q].pc = "idle" => procs'[q].wrote = FALSE
        /\ procs'[q].wrote = TRUE => procs'[q].pc = "ready"
    BY <2>1 DEF Orderly
  <2> QED
    BY <2>2 DEF Orderly
<1> QED
  BY <1>1 DEF AloneInv

LEMMA OnlyOne ==
    ASSUME AloneInv, NEW p \in Processes, procs[p].pc # "idle"
    PROVE  env.alone = TRUE => \A q \in Processes : q # p => procs[q].pc = "idle"
BY DEF AloneInv

LEMMA AloneType == TypeOK => env.alone \in BOOLEAN /\ settled \in BOOLEAN
BY EnvironmentsAssumption DEF TypeOK

LEMMA StartAlone ==
    ASSUME IInv, AloneInv, NEW p \in Processes, Start(p)
    PROVE  AloneInv'
<1>1. PICK ro \in BOOLEAN :
        Become(p, [Idle EXCEPT !.pc = "ready", !.left = env.dispatches, !.readOnly = ro,
                               !.quiet = settled, !.base = RecordsOf(filesIndex),
                               !.source = source])
  BY DEF Start
<1>2. PICK me : me = [Idle EXCEPT !.pc = "ready", !.left = env.dispatches, !.readOnly = ro,
                                  !.quiet = settled, !.base = RecordsOf(filesIndex),
                                  !.source = source]
  OBVIOUS
<1>3. TypeOK /\ settled \in BOOLEAN
  BY DEF IInv, TypeOK
<1>4. me \in Commands
  BY <1>2, <1>3, EnvType, EmptyTypes, RecordsType DEF TypeOK, Commands
<1>5. /\ me.pc = "ready" /\ me.source = source /\ me.wrote = FALSE /\ me.calm = FALSE
      /\ me.quiet = settled /\ me.base = RecordsOf(filesIndex) /\ me.plan = "none"
  BY <1>2, EmptyTypes DEF Idle
<1>6. settled = TRUE => RecordsOf(filesIndex) = tree
  BY DEF AloneInv, Indexed, RecordsOf
<1>7. Orderly(me, settled, Indexed)
  BY <1>5, <1>6 DEF Orderly, Dispatching
<1>8. UNCHANGED <<env, tree, source, filesIndex, analysis, settled>> /\ Become(p, me)
  BY <1>1, <1>2 DEF Start, disk
<1>9. env.alone = TRUE => \A q \in Processes : q # p => procs[q].pc = "idle"
  BY DEF Start
<1>10. Indexed' = Indexed /\ Recorded' = Recorded
  BY <1>8 DEF Indexed, Recorded
<1>11. Orderly(me, settled, Indexed')
  BY <1>7, <1>10
<1> QED
  BY <1>3, <1>4, <1>8, <1>9, <1>10, <1>11, Forward DEF AloneInv

LEMMA FingerprintAlone ==
    ASSUME IInv, AloneInv, NEW p \in Processes, Fingerprint(p)
    PROVE  AloneInv'
<1>1. /\ TypeOK /\ procs[p] \in Commands /\ procs[p].pc = "ready" /\ procs[p].wrote = FALSE
      /\ env.alone \in BOOLEAN /\ settled \in BOOLEAN /\ tree \in Trees
  BY AloneType DEF IInv, TypeOK, Fingerprint, Commands
<1>2. Orderly(procs[p], settled, Indexed) /\ procs[p].source = source
  BY <1>1 DEF AloneInv, Orderly
<1>3. PICK now : now = Tracked(tree, procs[p].source)
  OBVIOUS
<1>4. now = tree
  BY <1>1, <1>2, <1>3 DEF AloneInv, Tracked, Trees
<1>5. PICK plan : plan = Plan(procs[p].base, now, procs[p].source)
  OBVIOUS
<1>6. procs[p].quiet = TRUE => plan = "hit"
  <2>1. procs[p].quiet = TRUE => procs[p].base = now /\ Indexed /\ Recorded
    BY <1>2, <1>4 DEF AloneInv, Orderly
  <2> QED
    BY <1>4, <1>5, <2>1 DEF Plan, Bound, Indexed, Recorded
<1>7. PICK me : /\ Become(p, me)
                /\ me = [procs[p] EXCEPT !.pc = IF plan = "hit" THEN "served" ELSE "scan",
                           !.left = procs[p].left - 1, !.calm = env.alone, !.seen = tree,
                           !.now = now, !.plan = plan, !.delta = SrcDelta(procs[p].base, now),
                           !.data = IF analysis = NoFile THEN NoData ELSE analysis.data]
  BY <1>3, <1>5, Zenon DEF Fingerprint
<1>8. me \in Commands
  <2>1. IInv'
    BY FingerprintStep
  <2>2. procs' \in [Processes -> Commands] /\ procs' = [procs EXCEPT ![p] = me]
        /\ procs \in [Processes -> Commands]
    BY <1>7, <2>1 DEF IInv, TypeOK, Become
  <2> QED
    BY <2>2
<1>9. /\ me.pc = (IF plan = "hit" THEN "served" ELSE "scan") /\ me.source = source
      /\ me.calm = env.alone /\ me.now = tree /\ me.plan = plan /\ me.wrote = FALSE
      /\ me.quiet = procs[p].quiet /\ me.base = procs[p].base
  BY <1>1, <1>2, <1>4, <1>7 DEF Commands
<1>10. settled = TRUE => env.alone = TRUE
  BY DEF AloneInv
<1>11. Orderly(me, settled, Indexed)
  <2>1. /\ me.pc \in {"served", "scan"} /\ (me.calm # TRUE => settled = FALSE)
        /\ (me.quiet = TRUE => me.plan = "hit" /\ me.pc = "served" /\ settled = TRUE /\ me.base = tree)
    BY <1>1, <1>2, <1>6, <1>9, <1>10 DEF Orderly
  <2> QED
    BY <1>9, <2>1 DEF Orderly, Dispatching
<1>12. UNCHANGED <<env, tree, source, filesIndex, analysis, settled>>
  BY DEF Fingerprint, disk
<1>13. Indexed' = Indexed /\ Recorded' = Recorded
  BY <1>12 DEF Indexed, Recorded
<1>14. Orderly(me, settled, Indexed')
  BY <1>11, <1>13
<1>15. env.alone = TRUE => \A q \in Processes : q # p => procs[q].pc = "idle"
  BY <1>1, OnlyOne
<1>16. Become(p, me)
  BY <1>7
<1> QED
  BY <1>1, <1>8, <1>12, <1>13, <1>14, <1>15, <1>16, Forward DEF AloneInv

LEMMA ProduceAlone ==
    ASSUME IInv, AloneInv, NEW p \in Processes, Produce(p)
    PROVE  AloneInv'
<1>1. TypeOK /\ procs[p] \in Commands /\ procs[p].pc = "scan" /\ settled \in BOOLEAN
  BY AloneType DEF IInv, TypeOK, Produce
<1>2. Orderly(procs[p], settled, Indexed)
  BY DEF AloneInv
<1>3. PICK data : Become(p, [procs[p] EXCEPT !.pc = "saveFiles", !.data = data])
  BY DEF Produce
<1>4. PICK me : me = [procs[p] EXCEPT !.pc = "saveFiles", !.data = data]
  OBVIOUS
<1>5. me \in Commands
  <2>1. IInv'
    BY ProduceStep
  <2>2. procs' \in [Processes -> Commands] /\ procs' = [procs EXCEPT ![p] = me]
        /\ procs \in [Processes -> Commands]
    BY <1>3, <1>4, <2>1 DEF IInv, TypeOK, Become
  <2> QED
    BY <2>2
<1>6. /\ me.pc = "saveFiles" /\ me.source = procs[p].source /\ me.calm = procs[p].calm
      /\ me.now = procs[p].now /\ me.wrote = procs[p].wrote /\ me.quiet = procs[p].quiet
  BY <1>1, <1>4 DEF Commands
<1>7. Orderly(me, settled, Indexed)
  BY <1>1, <1>2, <1>6 DEF Orderly, Dispatching
<1>8. UNCHANGED <<env, tree, source, filesIndex, analysis, settled>>
  BY DEF Produce, disk
<1>9. Indexed' = Indexed /\ Recorded' = Recorded
  BY <1>8 DEF Indexed, Recorded
<1>10. Orderly(me, settled, Indexed')
  BY <1>7, <1>9
<1>11. env.alone = TRUE => \A q \in Processes : q # p => procs[q].pc = "idle"
  BY <1>1, OnlyOne
<1> QED
  BY <1>1, <1>3, <1>4, <1>5, <1>8, <1>9, <1>10, <1>11, Forward DEF AloneInv

LEMMA SaveFilesAlone ==
    ASSUME IInv, AloneInv, NEW p \in Processes, SaveFiles(p)
    PROVE  AloneInv'
<1>1. TypeOK /\ procs[p] \in Commands /\ procs[p].pc = "saveFiles" /\ settled \in BOOLEAN
  BY AloneType DEF IInv, TypeOK, SaveFiles
<1>2. Orderly(procs[p], settled, Indexed) /\ procs[p].source = source
  BY <1>1 DEF AloneInv, Orderly
<1>3. PICK me : me = [procs[p] EXCEPT !.pc = "saveAnalysis"]
  OBVIOUS
<1>4. /\ me \in Commands /\ me.pc = "saveAnalysis" /\ me.source = source /\ me.calm = procs[p].calm
      /\ me.now = procs[p].now /\ me.wrote = procs[p].wrote /\ me.quiet = procs[p].quiet
      /\ me.readOnly = procs[p].readOnly
  BY <1>1, <1>2, <1>3 DEF Commands
<1>5. UNCHANGED <<env, tree, source, analysis, settled>> /\ Become(p, me)
  BY <1>3 DEF SaveFiles
<1>6. \/ filesIndex' = [files |-> procs[p].now, source |-> source]
      \/ filesIndex' = filesIndex /\ (procs[p].readOnly = TRUE \/ MayFail)
  BY <1>1, <1>2 DEF SaveFiles, Skipped, Commands
<1>7. settled = TRUE => procs[p].calm = TRUE
  BY <1>1, <1>2 DEF Orderly, Dispatching
<1>8. procs[p].calm = TRUE => procs[p].now = tree
  BY <1>1, <1>2 DEF Orderly, Dispatching
<1>9. filesIndex' # NoFile => filesIndex'.source = source
  BY <1>6 DEF AloneInv
<1>10. procs[p].calm = TRUE /\ (Indexed \/ (procs[p].readOnly = FALSE /\ ~MayFail)) => Indexed'
  <2>1. [files |-> tree, source |-> source] # NoFile
    BY <1>1, NoFileAssumption DEF TypeOK
  <2> QED
    BY <1>5, <1>6, <1>8, <2>1 DEF Indexed
<1>11. settled = TRUE => env.alone = TRUE /\ Indexed' /\ Recorded'
  <2>1. settled = TRUE => env.alone = TRUE /\ Indexed /\ Recorded
    BY DEF AloneInv
  <2>2. Recorded => Recorded'
    BY <1>5 DEF Recorded
  <2>3. settled = TRUE => Indexed'
    BY <1>7, <1>10, <2>1
  <2> QED
    BY <1>5, <2>1, <2>2, <2>3
<1>12. Orderly(me, settled, Indexed')
  BY <1>1, <1>2, <1>4, <1>10 DEF Orderly, Dispatching
<1>13. env.alone = TRUE => \A q \in Processes : q # p => procs[q].pc = "idle"
  BY <1>1, OnlyOne
<1> QED
  BY <1>1, <1>4, <1>5, <1>9, <1>11, <1>12, <1>13, Forward

LEMMA SaveAnalysisAlone ==
    ASSUME IInv, AloneInv, NEW p \in Processes, SaveAnalysis(p)
    PROVE  AloneInv'
<1>1. /\ TypeOK /\ procs[p] \in Commands /\ procs[p].pc = "saveAnalysis" /\ settled \in BOOLEAN
      /\ env.alone \in BOOLEAN
  BY AloneType DEF IInv, TypeOK, SaveAnalysis
<1>2. Orderly(procs[p], settled, Indexed) /\ procs[p].source = source
  BY <1>1 DEF AloneInv, Orderly
<1>3. PICK me : me = [procs[p] EXCEPT !.pc = "served"]
  OBVIOUS
<1>4. /\ me \in Commands /\ me.pc = "served" /\ me.source = source /\ me.calm = procs[p].calm
      /\ me.wrote = procs[p].wrote /\ me.quiet = procs[p].quiet
  BY <1>1, <1>2, <1>3 DEF Commands
<1>5. UNCHANGED <<env, tree, source, filesIndex>> /\ Become(p, me)
  BY <1>3 DEF SaveAnalysis
<1>6. \/ analysis' = [data |-> procs[p].data, epoch |-> procs[p].now]
      \/ analysis' = analysis /\ (procs[p].readOnly = TRUE \/ MayFail)
  BY <1>1, <1>2 DEF SaveAnalysis, Skipped, Commands
<1>7. PICK calmly \in BOOLEAN :
        /\ calmly = settled'
        /\ calmly = TRUE => \/ settled = TRUE
                            \/ /\ env.alone = TRUE /\ procs[p].calm = TRUE
                               /\ procs[p].readOnly = FALSE /\ ~MayFail
  <2>1. settled' \in BOOLEAN
    BY DEF SaveAnalysis
  <2>2. settled' = TRUE => \/ settled = TRUE
                           \/ /\ env.alone = TRUE /\ procs[p].calm = TRUE
                              /\ procs[p].readOnly = FALSE /\ ~MayFail
    BY <1>1 DEF SaveAnalysis, Skipped, Commands
  <2> QED
    BY <2>1, <2>2
<1>8. settled = TRUE => procs[p].calm = TRUE
  BY <1>1, <1>2 DEF Orderly, Dispatching
<1>9. procs[p].calm = TRUE => procs[p].now = tree
  BY <1>1, <1>2 DEF Orderly, Dispatching
<1>10. procs[p].quiet # TRUE /\ procs[p].wrote # TRUE
  BY <1>1, <1>2 DEF Orderly
<1>11. Indexed' = Indexed
  BY <1>5 DEF Indexed
<1>12. calmly = TRUE => Indexed
  BY <1>1, <1>2, <1>7 DEF Orderly, AloneInv
<1>13. calmly = TRUE => Recorded'
  <2>1. ASSUME calmly = TRUE PROVE Recorded'
    <3>1. procs[p].now = tree
      BY <1>7, <1>8, <1>9, <2>1
    <3>2. CASE analysis' = [data |-> procs[p].data, epoch |-> procs[p].now]
      <4>1. [data |-> procs[p].data, epoch |-> tree] # NoFile
        BY <1>1, NoFileAssumption DEF TypeOK, Commands
      <4> QED
        BY <1>5, <3>1, <3>2, <4>1 DEF Recorded
    <3>3. CASE analysis' = analysis /\ (procs[p].readOnly = TRUE \/ MayFail)
      <4>1. settled = TRUE
        BY <1>7, <2>1, <3>3
      <4> QED
        BY <1>5, <3>3, <4>1 DEF AloneInv, Recorded
    <3> QED
      BY <1>6, <3>2, <3>3
  <2> QED
    BY <2>1
<1>14. calmly = TRUE => env.alone = TRUE
  BY <1>7 DEF AloneInv
<1>15. Orderly(me, calmly, Indexed')
  BY <1>2, <1>4, <1>10 DEF Orderly, Dispatching
<1>16. env.alone = TRUE => \A q \in Processes : q # p => procs[q].pc = "idle"
  BY <1>1, OnlyOne
<1> QED
  BY <1>1, <1>4, <1>5, <1>7, <1>11, <1>12, <1>13, <1>14, <1>15, <1>16, Forward DEF AloneInv

(* The steps that put a command back to rest.                               *)
LEMMA RestAlone ==
    ASSUME IInv, AloneInv, NEW p \in Processes, Use(p) \/ Invalidate(p) \/ Exit(p) \/ Crash(p)
    PROVE  AloneInv'
<1>1. TypeOK /\ procs[p] \in Commands /\ settled \in BOOLEAN /\ procs[p].pc # "idle"
  BY AloneType DEF IInv, TypeOK, Use, Invalidate, Exit, Crash
<1>2. Orderly(procs[p], settled, Indexed)
  BY DEF AloneInv
<1>3. UNCHANGED <<env, tree, source, filesIndex>> /\ settled' \in {settled, FALSE}
      /\ (analysis' = analysis \/ settled = FALSE)
  <2>1. procs[p].wrote = TRUE => settled = FALSE
    BY <1>2 DEF Orderly
  <2>2. Invalidate(p) => procs[p].wrote = TRUE
    BY <1>1 DEF Invalidate, Commands
  <2> QED
    BY <2>1, <2>2 DEF Use, Invalidate, Exit, Crash, disk
<1>4. PICK me \in Commands :
        /\ Become(p, me)
        /\ \/ me = Idle
           \/ /\ settled' = settled /\ me.pc = "ready" /\ me.source = procs[p].source
              /\ me.wrote = FALSE /\ me.quiet = procs[p].quiet /\ me.base = procs[p].base
              /\ me.plan \in {"none", procs[p].plan} /\ (me.calm = TRUE => procs[p].calm = TRUE)
  <2>1. CASE Use(p)
    <3>1. PICK me : me = [Rest(procs[p]) EXCEPT !.pc = "ready"]
      OBVIOUS
    <3>2. /\ me \in Commands /\ me.pc = "ready" /\ me.source = procs[p].source
          /\ me.wrote = procs[p].wrote /\ me.quiet = procs[p].quiet /\ me.base = procs[p].base
          /\ me.plan = "none" /\ me.calm = FALSE
      BY <1>1, <3>1, EmptyTypes DEF Rest, Commands
    <3>3. procs[p].wrote = FALSE
      BY <1>1, <1>2, <2>1 DEF Orderly, Use, Commands
    <3> QED
      BY <2>1, <3>1, <3>2, <3>3 DEF Use
  <2>2. CASE Invalidate(p)
    <3>1. PICK me : me = [procs[p] EXCEPT !.wrote = FALSE]
      OBVIOUS
    <3>2. /\ me \in Commands /\ me.pc = procs[p].pc /\ me.source = procs[p].source
          /\ me.wrote = FALSE /\ me.quiet = procs[p].quiet /\ me.base = procs[p].base
          /\ me.plan = procs[p].plan /\ me.calm = procs[p].calm
      BY <1>1, <3>1 DEF Commands
    <3> QED
      BY <2>2, <3>1, <3>2 DEF Invalidate
  <2>3. CASE Exit(p) \/ Crash(p)
    BY <2>3, EmptyTypes DEF Exit, Crash
  <2> QED
    BY <2>1, <2>2, <2>3
<1>5. PICK calmly \in BOOLEAN : calmly = settled'
  BY <1>1, <1>3
<1>6. Indexed' = Indexed /\ (Recorded => Recorded' \/ calmly = FALSE)
  BY <1>1, <1>3, <1>5 DEF Indexed, Recorded
<1>7. calmly = TRUE => env.alone = TRUE /\ Indexed' /\ Recorded'
  BY <1>3, <1>5, <1>6 DEF AloneInv
<1>8. Orderly(me, calmly, Indexed')
  <2>1. CASE me = Idle
    <3>1. Idle.pc = "idle" /\ Idle.quiet = FALSE /\ Idle.wrote = FALSE /\ Idle.calm = FALSE
      BY DEF Idle
    <3> QED
      BY <2>1, <3>1 DEF Orderly, Dispatching
  <2>2. CASE me # Idle
    BY <1>1, <1>2, <1>4, <1>5, <2>2 DEF Orderly, Dispatching
  <2> QED
    BY <2>1, <2>2
<1>9. env.alone = TRUE => \A q \in Processes : q # p => procs[q].pc = "idle"
  BY <1>1, OnlyOne
<1>10. filesIndex' # NoFile => filesIndex'.source = source
  BY <1>3 DEF AloneInv
<1> QED
  BY <1>1, <1>3, <1>4, <1>5, <1>7, <1>8, <1>9, <1>10, Forward

LEMMA WriteLocaleAlone ==
    ASSUME IInv, AloneInv, NEW p \in Processes, NEW f \in LocaleFiles, NEW c \in Contents,
           WriteLocale(p, f, c)
    PROVE  AloneInv'
<1>1. ASSUME NEW q \in Processes
      PROVE  /\ procs'[q].pc = procs[q].pc /\ procs'[q].source = procs[q].source
             /\ procs'[q].calm = FALSE /\ procs'[q].quiet = FALSE
             /\ (procs'[q].wrote = procs[q].wrote \/ procs[q].pc = "ready")
  <2>1. procs[q] \in Commands /\ procs[p].pc = "ready"
    BY DEF IInv, TypeOK, WriteLocale
  <2>2. PICK wrote : wrote = (procs[q].wrote \/ q = p)
    OBVIOUS
  <2>3. wrote = procs[q].wrote \/ procs[q].pc = "ready"
    <3>1. procs[q].wrote \in BOOLEAN
      BY <2>1 DEF Commands
    <3> QED
      BY <2>1, <2>2, <3>1
  <2>4. procs'[q] = [procs[q] EXCEPT !.quiet = FALSE, !.calm = FALSE, !.wrote = wrote]
    BY <2>1, <2>2 DEF WriteLocale, Commands
  <2> QED
    BY <2>1, <2>3, <2>4 DEF Commands
<1>2. UNCHANGED <<env, source, filesIndex>> /\ settled' = FALSE
  BY DEF WriteLocale, disk
<1> QED
  BY <1>1, <1>2, Stirred DEF IInv

LEMMA DisturbedAlone ==
    ASSUME IInv, AloneInv, Disturb, UNCHANGED <<env, source>>, filesIndex' \in {filesIndex, NoFile}
    PROVE  AloneInv'
<1>1. ASSUME NEW q \in Processes
      PROVE  /\ procs'[q].pc = procs[q].pc /\ procs'[q].source = procs[q].source
             /\ procs'[q].calm = FALSE /\ procs'[q].quiet = FALSE
             /\ procs'[q].wrote = procs[q].wrote
  <2>1. procs[q] \in Commands
    BY DEF IInv, TypeOK
  <2>2. procs'[q] = [procs[q] EXCEPT !.quiet = FALSE, !.calm = FALSE]
    BY DEF Disturb
  <2> QED
    BY <2>1, <2>2 DEF Commands
<1>2. settled' = FALSE
  BY DEF Disturb
<1> QED
  BY <1>1, <1>2, Stirred DEF IInv

LEMMA NextAlone == IInv /\ AloneInv /\ [Next]_vars => AloneInv'
<1> SUFFICES ASSUME IInv, AloneInv, [Next]_vars PROVE AloneInv'
  OBVIOUS
<1>1. ASSUME NEW p \in Processes, Command(p) PROVE AloneInv'
  BY <1>1, StartAlone, FingerprintAlone, ProduceAlone, SaveFilesAlone, SaveAnalysisAlone,
     RestAlone, WriteLocaleAlone DEF Command
<1>2. ASSUME NEW f \in Files, NEW c \in Contents \cup {Absent}, Edit(f, c) PROVE AloneInv'
  BY <1>2, DisturbedAlone DEF Edit, disk
<1>3. CASE Lose
  BY <1>3, DisturbedAlone DEF Lose
<1>4. CASE UNCHANGED vars
  BY <1>4 DEF vars, disk, AloneInv, Orderly, Dispatching, Indexed, Recorded, MayFail
<1> QED
  BY <1>1, <1>2, <1>3, <1>4 DEF Next

LEMMA BeginningAlone == Init => AloneInv
<1> SUFFICES ASSUME Init PROVE AloneInv
  OBVIOUS
<1>1. \A p \in Processes : /\ procs[p].pc = "idle" /\ procs[p].quiet = FALSE
                           /\ procs[p].wrote = FALSE /\ procs[p].calm = FALSE
  BY DEF Init, Idle
<1> QED
  BY <1>1 DEF Init, AloneInv, Orderly, Dispatching

(* A command that starts after another one completed, with nothing changed  *)
(* since, never scans again, whatever happened before (dispatch.ts).        *)
THEOREM QuietNeverRescans == Spec => []NoNeedlessRescan
<1>1. AloneInv => NoNeedlessRescan
  <2> SUFFICES ASSUME AloneInv, NEW p \in Processes, procs[p].quiet = TRUE
               PROVE  procs[p].plan \in {"none", "hit"}
    BY DEF NoNeedlessRescan
  <2> QED
    BY DEF AloneInv, Orderly
<1> QED
  BY <1>1, Invariance, BeginningAlone, NextAlone, PTL DEF Spec

-----------------------------------------------------------------------------
(***************************************************************************)
(* Commands that dispatch once, one after the other, and patch.             *)
(***************************************************************************)
(* The `balanced` profile in its intended use: any rebuild policy, but no   *)
(* command dispatches twice, overlaps another, is killed or fails to write. *)
OneByOne ==
  /\ env.alone = TRUE /\ env.dispatches <= 1
  /\ "crash" \notin env.faults /\ "write" \notin env.faults /\ "race" \notin env.faults

(* The paths of a delta against the indexed records are those of a plain    *)
(* comparison of the two trees.                                             *)
LEMMA DeltaIsDifference ==
    ASSUME NEW base, NEW now, base = RecordsOf(filesIndex)
    PROVE  /\ SrcDelta(base, now).added = Present(now) \ Present(base)
           /\ SrcDelta(base, now).deleted = Present(base) \ Present(now)
           /\ SrcDelta(base, now).changed =
                {f \in SrcFiles : base[f] # now[f] /\ base[f] # Absent /\ now[f] # Absent}
           /\ LocaleDelta(base, now) = {f \in LocaleFiles : base[f] # now[f]}
BY DEF SrcDelta, LocaleDelta, Present

(* Counting what came and what went gives the count of what is there.       *)
LEMMA PatchedCount ==
    ASSUME NEW base, NEW now
    PROVE  LET n == Cardinality(Present(base)) + Cardinality(Present(now) \ Present(base))
               d == Cardinality(Present(base) \ Present(now))
           IN (IF d > n THEN 0 ELSE n - d) = Cardinality(Present(now))
<1> DEFINE B == Present(base)
           N == Present(now)
<1>1. IsFiniteSet(B) /\ IsFiniteSet(N)
  BY FilesAssumption, FS_Subset DEF Present, Files
<1> HIDE DEF B, N
<1>2. /\ Cardinality(N \ B) = Cardinality(N) - Cardinality(N \cap B)
      /\ Cardinality(B \ N) = Cardinality(B) - Cardinality(B \cap N)
  BY <1>1, FS_Difference
<1>3. N \cap B = B \cap N
  OBVIOUS
<1>4. /\ Cardinality(B) \in Nat /\ Cardinality(N) \in Nat /\ Cardinality(B \cap N) \in Nat
      /\ Cardinality(N \ B) \in Nat /\ Cardinality(B \ N) \in Nat
  BY <1>1, FS_CardinalityType, FS_Difference, FS_Intersection
<1>5. LET n == Cardinality(B) + Cardinality(N \ B)
          d == Cardinality(B \ N)
      IN (IF d > n THEN 0 ELSE n - d) = Cardinality(N)
  BY <1>2, <1>3, <1>4
<1> QED
  BY <1>5 DEF B, N

(* What a payload that was patched is sure of, whatever it was patched from:*)
(* all of a scan but the texts of the source locale's other segments.       *)
AsScanned(data, t, s) ==
  /\ data.obs = Scan(t, s).obs /\ data.scanned = Scan(t, s).scanned
  /\ data.against[s] = t[s]

LEMMA ScanAsScanned ==
    ASSUME NEW t, NEW s \in LocaleFiles
    PROVE  AsScanned(Scan(t, s), t, s)
BY FilesAssumption, SourceTextsAre DEF AsScanned, Scan

(* A patch of a scan is the scan of the patched tree: every observation of  *)
(* a deleted or changed file goes, those of an added or changed one come.   *)
LEMMA PatchOfScan ==
    ASSUME NEW base \in Trees, NEW now \in Trees, NEW s \in LocaleFiles,
           base = RecordsOf(filesIndex), NEW data, AsScanned(data, base, s)
    PROVE  AsScanned(PatchSrc(data, SrcDelta(base, now), now, s), now, s)
<1> DEFINE delta == SrcDelta(base, now)
<1>1. /\ delta.added = Present(now) \ Present(base)
      /\ delta.deleted = Present(base) \ Present(now)
      /\ delta.changed =
           {f \in SrcFiles : base[f] # now[f] /\ base[f] # Absent /\ now[f] # Absent}
  BY DeltaIsDifference
<1>2. data.scanned = Cardinality(Present(base))
  BY DEF AsScanned, Scan
<1>3. \A f \in SrcFiles, c \in Contents : data.obs[f][c] = IF base[f] = c THEN 1 ELSE 0
  BY DEF AsScanned, Scan
<1> HIDE DEF delta
<1>4. ASSUME NEW f \in SrcFiles, NEW c \in Contents
      PROVE  (IF f \in delta.deleted \cup delta.changed THEN 0 ELSE data.obs[f][c])
             + (IF f \in delta.added \cup delta.changed /\ now[f] = c THEN 1 ELSE 0)
               = IF now[f] = c THEN 1 ELSE 0
  <2>1. data.obs[f][c] = IF base[f] = c THEN 1 ELSE 0
    BY <1>3
  <2>2. c # Absent
    BY FilesAssumption
  <2>3. /\ f \in delta.added <=> base[f] = Absent /\ now[f] # Absent
        /\ f \in delta.deleted <=> base[f] # Absent /\ now[f] = Absent
        /\ f \in delta.changed <=> base[f] # now[f] /\ base[f] # Absent /\ now[f] # Absent
    BY <1>1 DEF Present
  <2> QED
    BY <2>1, <2>2, <2>3
<1>5. [f \in SrcFiles |-> [c \in Contents |->
         (IF f \in delta.deleted \cup delta.changed THEN 0 ELSE data.obs[f][c])
         + (IF f \in delta.added \cup delta.changed /\ now[f] = c THEN 1 ELSE 0)]]
        = [f \in SrcFiles |-> [c \in Contents |-> IF now[f] = c THEN 1 ELSE 0]]
  BY <1>4
<1>6. (LET n == data.scanned + Cardinality(delta.added)
           d == Cardinality(delta.deleted)
       IN IF d > n THEN 0 ELSE n - d) = Cardinality(Present(now))
  BY <1>1, <1>2, PatchedCount
<1>7. PatchSrc(data, delta, now, s) = Scan(now, s)
  BY <1>5, <1>6 DEF PatchSrc, Scan
<1> QED
  BY <1>7, ScanAsScanned DEF delta

(* When no source file differs, only what the keys are compared with can.   *)
LEMMA SameSources ==
    ASSUME NEW base \in Trees, NEW now \in Trees, NEW s \in LocaleFiles,
           \A f \in SrcFiles : base[f] = now[f],
           NEW data \in Payloads, AsScanned(data, base, s)
    PROVE  /\ AsScanned(PatchSource(data, now, s), now, s)
           /\ base[s] = now[s] => AsScanned(data, now, s)
<1>1. Present(base) = Present(now)
  BY DEF Present
<1>2. [f \in SrcFiles |-> [c \in Contents |-> IF base[f] = c THEN 1 ELSE 0]]
        = [f \in SrcFiles |-> [c \in Contents |-> IF now[f] = c THEN 1 ELSE 0]]
  OBVIOUS
<1>3. Scan(base, s).obs = Scan(now, s).obs /\ Scan(base, s).scanned = Scan(now, s).scanned
  BY <1>1, <1>2 DEF Scan
<1>4. PICK new : new = PatchSource(data, now, s)
  OBVIOUS
<1>5. new.obs = data.obs /\ new.scanned = data.scanned /\ new.against = SourceTexts(now, s)
  BY <1>4 DEF PatchSource, Payloads
<1>6. new.against[s] = now[s]
  BY <1>5, SourceTextsAre, FilesAssumption
<1> QED
  BY <1>3, <1>4, <1>5, <1>6 DEF AsScanned

(* What a dispatch will produce from the tree as it is.                     *)
Product(me) ==
  CASE me.plan = "full"   -> Scan(tree, me.source)
    [] me.plan = "source" -> PatchSource(me.data, tree, me.source)
    [] me.plan = "patch"  -> PatchSrc(me.data, me.delta, tree, me.source)
    [] me.plan = "reuse"  -> me.data

(* The decision is right: from an analysis of the indexed tree, whichever   *)
(* strategy is chosen produces the scan of the tree at hand.                *)
LEMMA PlanIsRight ==
    ASSUME NEW base \in Trees, tree \in Trees, NEW s \in LocaleFiles,
           filesIndex # NoFile => base = filesIndex.files,
           analysis # NoFile => AsScanned(analysis.data, analysis.epoch, s),
           filesIndex # NoFile /\ analysis # NoFile => analysis.epoch = filesIndex.files,
           NEW plan, plan = Plan(base, tree, s),
           NEW data, data = IF analysis = NoFile THEN NoData ELSE analysis.data,
           data \in Payloads
    PROVE  /\ plan = "hit" => AsScanned(data, tree, s)
           /\ plan = "source" => AsScanned(PatchSource(data, tree, s), tree, s)
           /\ plan = "patch" => AsScanned(PatchSrc(data, SrcDelta(base, tree), tree, s), tree, s)
           /\ plan = "reuse" => AsScanned(data, tree, s)
<1>1. CASE Bound(tree)
  <2>1. AsScanned(data, tree, s)
    BY <1>1 DEF Bound
  <2>2. CASE filesIndex = NoFile
    <3>1. plan \in {"hit", "reuse", "full"}
      BY <2>2 DEF Plan, FullRescan
    <3> QED
      BY <2>1, <3>1
  <2>3. CASE filesIndex # NoFile
    <3>1. base = tree
      BY <1>1, <2>3 DEF Bound
    <3>2. plan = "hit"
      BY <1>1, <3>1, <2>3 DEF Plan
    <3> QED
      BY <2>1, <3>2
  <2> QED
    BY <2>2, <2>3
<1>2. CASE ~Bound(tree) /\ FullRescan(base, tree, s)
  <2>1. plan = "full"
    BY <1>2 DEF Plan
  <2> QED
    BY <2>1
<1>3. CASE ~Bound(tree) /\ ~FullRescan(base, tree, s)
  <2>1. analysis # NoFile /\ filesIndex # NoFile
    BY <1>3 DEF FullRescan
  <2>2. base = RecordsOf(filesIndex) /\ AsScanned(data, base, s)
    BY <2>1 DEF RecordsOf
  <2>3. /\ SrcDelta(base, tree).added = Present(tree) \ Present(base)
        /\ SrcDelta(base, tree).deleted = Present(base) \ Present(tree)
        /\ SrcDelta(base, tree).changed =
             {f \in SrcFiles : base[f] # tree[f] /\ base[f] # Absent /\ tree[f] # Absent}
        /\ LocaleDelta(base, tree) = {f \in LocaleFiles : base[f] # tree[f]}
    BY <2>2, DeltaIsDifference
  <2>4. Affected(SrcDelta(base, tree)) = {} => \A f \in SrcFiles : base[f] = tree[f]
    BY <2>3 DEF Affected, Present
  <2>5. CASE s \in LocaleDelta(base, tree)
    <3>1. plan = "source"
      BY <1>3, <2>5 DEF Plan
    <3>2. Affected(SrcDelta(base, tree)) = {}
      BY <1>3, <2>5 DEF FullRescan
    <3> QED
      BY <2>2, <2>4, <3>1, <3>2, SameSources
  <2>6. CASE s \notin LocaleDelta(base, tree) /\ Affected(SrcDelta(base, tree)) = {}
    <3>1. plan = "reuse"
      BY <1>3, <2>6 DEF Plan
    <3>2. base[s] = tree[s]
      BY <2>3, <2>6
    <3> QED
      BY <2>2, <2>4, <2>6, <3>1, <3>2, SameSources
  <2>7. CASE s \notin LocaleDelta(base, tree) /\ Affected(SrcDelta(base, tree)) # {}
    <3>1. plan = "patch"
      BY <1>3, <2>7 DEF Plan
    <3> QED
      BY <2>2, <3>1, PatchOfScan
  <2> QED
    BY <2>5, <2>6, <2>7
<1> QED
  BY <1>1, <1>2, <1>3

(* A command that dispatches once is diffed against the index that is still *)
(* on disk, produces the scan of the tree it fingerprinted, and saves both  *)
(* files of that tree.                                                      *)
Steady(me, index) ==
  /\ me.pc = "ready" =>
       me.left <= 1 /\ (me.left = 1 /\ index # NoFile => me.base = index.files)
  /\ me.pc = "scan" => me.now = tree /\ me.seen = tree /\ AsScanned(Product(me), tree, source)
  /\ me.pc = "scan" \/ Scanned(me) => me.left = 0
  /\ Scanned(me) => me.now = me.seen /\ AsScanned(me.data, me.seen, source)
  /\ me.pc = "saveAnalysis" /\ me.readOnly = FALSE /\ index # NoFile => index.files = me.now

(* Between the two saves of a command the index is ahead of the analysis;   *)
(* at any other time the two files are of the same tree.                    *)
Agree(index, record) == index # NoFile /\ record # NoFile => record.epoch = index.files
Saving(me) == me.pc = "saveAnalysis" /\ me.readOnly = FALSE

OnceInv ==
  /\ analysis # NoFile => AsScanned(analysis.data, analysis.epoch, source)
  /\ (\A p \in Processes : ~Saving(procs[p])) => Agree(filesIndex, analysis)
  /\ \A p \in Processes : Steady(procs[p], filesIndex)

(* A step of the one command that runs.                                     *)
LEMMA OnceForward ==
    ASSUME TypeOK, NEW p \in Processes, NEW me \in Commands, Become(p, me),
           UNCHANGED <<tree, source>>,
           \A q \in Processes : q # p => procs[q].pc = "idle",
           NEW index, index = filesIndex', NEW record, record = analysis',
           record # NoFile => AsScanned(record.data, record.epoch, source),
           Saving(me) \/ Agree(index, record), Steady(me, index)
    PROVE  OnceInv'
<1>1. /\ procs' \in [Processes -> Commands] /\ procs'[p] = me
      /\ \A q \in Processes : q # p => procs'[q] = procs[q]
  BY DEF Become, TypeOK
<1>2. \A q \in Processes : Steady(procs[q], filesIndex)'
  <2> SUFFICES ASSUME NEW q \in Processes PROVE Steady(procs[q], filesIndex)'
    OBVIOUS
  <2>1. CASE q = p
    <3>1. Steady(procs'[q], filesIndex')
      BY <1>1, <2>1
    <3> QED
      BY <3>1 DEF Steady, Scanned, Product
  <2>2. CASE q # p
    <3>1. procs'[q].pc = "idle"
      BY <1>1, <2>2
    <3> QED
      BY <3>1 DEF Steady, Scanned
  <2> QED
    BY <2>1, <2>2
<1>3. (\A q \in Processes : ~Saving(procs'[q])) => Agree(filesIndex', analysis')
  BY <1>1
<1> QED
  BY <1>2, <1>3 DEF OnceInv, Saving, Agree

(* An edit of the project or the loss of a cache file.                      *)
Keeps(q) == /\ Stays(q) /\ procs'[q].left = procs[q].left /\ procs'[q].base = procs[q].base
            /\ procs'[q].delta = procs[q].delta /\ procs'[q].readOnly = procs[q].readOnly

LEMMA OnceStirred ==
    ASSUME OnceInv, UNCHANGED source, \A q \in Processes : Keeps(q),
           filesIndex' \in {filesIndex, NoFile}, analysis' \in {analysis, NoFile},
           tree' = tree \/ \A q \in Processes : procs[q].pc # "scan"
    PROVE  OnceInv'
<1>1. ASSUME NEW q \in Processes PROVE Steady(procs[q], filesIndex)'
  <2>1. Steady(procs[q], filesIndex) /\ Keeps(q) /\ (tree' = tree \/ procs[q].pc # "scan")
    BY DEF OnceInv
  <2>2. procs[q].pc = "scan" => Product(procs[q])' = Product(procs[q])
    BY <2>1 DEF Product, Keeps, Stays
  <2> QED
    BY <2>1, <2>2 DEF Steady, Scanned, Keeps, Stays
<1>2. (\A q \in Processes : ~Saving(procs[q])') => \A q \in Processes : ~Saving(procs[q])
  BY DEF Saving, Keeps, Stays
<1>3. Agree(filesIndex, analysis) => Agree(filesIndex', analysis')
  BY DEF Agree
<1> QED
  BY <1>1, <1>2, <1>3 DEF OnceInv, Agree

LEMMA StartOnce ==
    ASSUME IInv, AloneInv, OneByOne, OnceInv, NEW p \in Processes, Start(p)
    PROVE  OnceInv'
<1>1. PICK ro \in BOOLEAN :
        Become(p, [Idle EXCEPT !.pc = "ready", !.left = env.dispatches, !.readOnly = ro,
                               !.quiet = settled, !.base = RecordsOf(filesIndex),
                               !.source = source])
  BY DEF Start
<1>2. PICK me : me = [Idle EXCEPT !.pc = "ready", !.left = env.dispatches, !.readOnly = ro,
                                  !.quiet = settled, !.base = RecordsOf(filesIndex),
                                  !.source = source]
  OBVIOUS
<1>3. TypeOK
  BY DEF IInv
<1>4. me \in Commands
  BY <1>2, <1>3, EnvType, EmptyTypes, RecordsType DEF TypeOK, Commands
<1>5. me.pc = "ready" /\ me.left = env.dispatches /\ me.base = RecordsOf(filesIndex)
  BY <1>2, EmptyTypes DEF Idle
<1>6. Steady(me, filesIndex)
  BY <1>5 DEF Steady, Scanned, RecordsOf, OneByOne
<1>7. UNCHANGED <<tree, source, filesIndex, analysis>> /\ Become(p, me)
  BY <1>1, <1>2 DEF Start, disk
<1>8. \A q \in Processes : procs[q].pc = "idle"
  BY DEF Start, OneByOne
<1>9. Agree(filesIndex, analysis)
  BY <1>8 DEF OnceInv, Saving
<1> QED
  BY <1>3, <1>4, <1>6, <1>7, <1>8, <1>9, OnceForward DEF OnceInv

LEMMA FingerprintOnce ==
    ASSUME IInv, AloneInv, OneByOne, OnceInv, NEW p \in Processes, Fingerprint(p)
    PROVE  OnceInv'
<1>1. /\ TypeOK /\ procs[p] \in Commands /\ procs[p].pc = "ready" /\ tree \in Trees
      /\ procs[p].left > 0
  BY DEF IInv, TypeOK, Fingerprint
<1>2. procs[p].source = source /\ source \in LocaleFiles
  BY <1>1 DEF AloneInv, Orderly, TypeOK
<1>3. \A q \in Processes : q # p => procs[q].pc = "idle"
  BY <1>1, OnlyOne DEF OneByOne
<1>4. PICK now : now = Tracked(tree, procs[p].source)
  OBVIOUS
<1>5. now = tree
  BY <1>1, <1>2, <1>4 DEF AloneInv, Tracked, Trees
<1>6. PICK plan : plan = Plan(procs[p].base, now, procs[p].source)
  OBVIOUS
<1>7. PICK data : data = IF analysis = NoFile THEN NoData ELSE analysis.data
  OBVIOUS
<1>8. PICK me : /\ Become(p, me)
                /\ me = [procs[p] EXCEPT !.pc = IF plan = "hit" THEN "served" ELSE "scan",
                           !.left = procs[p].left - 1, !.calm = env.alone, !.seen = tree,
                           !.now = now, !.plan = plan, !.delta = SrcDelta(procs[p].base, now),
                           !.data = data]
  BY <1>4, <1>6, <1>7, Zenon DEF Fingerprint
<1>9. me \in Commands
  <2>1. IInv'
    BY FingerprintStep
  <2>2. procs' \in [Processes -> Commands] /\ procs' = [procs EXCEPT ![p] = me]
        /\ procs \in [Processes -> Commands]
    BY <1>8, <2>1 DEF IInv, TypeOK, Become
  <2> QED
    BY <2>2
<1>10. /\ me.pc = (IF plan = "hit" THEN "served" ELSE "scan") /\ me.source = source
       /\ me.left = procs[p].left - 1 /\ me.now = tree /\ me.seen = tree /\ me.plan = plan
       /\ me.data = data /\ me.delta = SrcDelta(procs[p].base, tree)
  BY <1>1, <1>2, <1>5, <1>8 DEF Commands
<1>11. procs[p].left = 1 /\ (filesIndex # NoFile => procs[p].base = filesIndex.files)
  <2>1. procs[p].left \in Nat /\ Steady(procs[p], filesIndex)
    BY <1>1 DEF Commands, OnceInv
  <2>2. procs[p].left = 1
    BY <1>1, <2>1 DEF Steady
  <2> QED
    BY <1>1, <2>1, <2>2 DEF Steady
<1>12. Agree(filesIndex, analysis)
  BY <1>1, <1>3 DEF OnceInv, Saving
<1>16. data \in Payloads
  BY <1>1, <1>7, EmptyTypes DEF TypeOK
<1>13. /\ plan \in {"hit", "reuse", "source", "patch", "full"}
       /\ plan = "hit" => AsScanned(data, tree, source)
       /\ plan = "source" => AsScanned(PatchSource(data, tree, source), tree, source)
       /\ plan = "patch" =>
            AsScanned(PatchSrc(data, SrcDelta(procs[p].base, tree), tree, source), tree, source)
       /\ plan = "reuse" => AsScanned(data, tree, source)
  <2>1. PICK base : base = procs[p].base
    OBVIOUS
  <2>2. plan = Plan(base, tree, source)
    BY <1>2, <1>5, <1>6, <2>1
  <2>3. filesIndex # NoFile /\ analysis # NoFile => analysis.epoch = filesIndex.files
    BY <1>12 DEF Agree
  <2>4. analysis # NoFile => AsScanned(analysis.data, analysis.epoch, source)
    BY DEF OnceInv
  <2>5. filesIndex # NoFile => base = filesIndex.files
    BY <1>11, <2>1
  <2>6. plan \in {"hit", "reuse", "source", "patch", "full"}
    BY <2>2, PlanType
  <2>7. /\ plan = "hit" => AsScanned(data, tree, source)
        /\ plan = "source" => AsScanned(PatchSource(data, tree, source), tree, source)
        /\ plan = "patch" => AsScanned(PatchSrc(data, SrcDelta(base, tree), tree, source),
                                        tree, source)
        /\ plan = "reuse" => AsScanned(data, tree, source)
    <3>1. base \in Trees /\ tree \in Trees /\ source \in LocaleFiles
      BY <1>1, <1>2, <2>1 DEF Commands
    <3> QED
      BY <1>16, <3>1, <1>7, <2>2, <2>3, <2>4, <2>5, PlanIsRight
  <2> QED
    BY <2>1, <2>6, <2>7
<1>14. Steady(me, filesIndex)
  <2>1. me.left = 0
    BY <1>10, <1>11
  <2>2. CASE plan = "hit"
    BY <1>10, <1>13, <2>1, <2>2 DEF Steady, Scanned
  <2>3. CASE plan # "hit"
    <3>1. AsScanned(Scan(tree, source), tree, source)
      BY <1>2, ScanAsScanned
    <3>2. PICK product : product = Product(me)
      OBVIOUS
    <3>3. AsScanned(product, tree, source)
      BY <1>10, <1>13, <2>3, <3>1, <3>2 DEF Product
    <3>4. AsScanned(Product(me), tree, source)
      BY <3>2, <3>3
    <3> QED
      BY <1>10, <2>1, <2>3, <3>4 DEF Steady, Scanned
  <2> QED
    BY <2>2, <2>3
<1>15. UNCHANGED <<tree, source, filesIndex, analysis>>
  BY DEF Fingerprint, disk
<1> QED
  BY <1>1, <1>3, <1>8, <1>9, <1>12, <1>14, <1>15, OnceForward DEF OnceInv

LEMMA ProduceOnce ==
    ASSUME IInv, AloneInv, OneByOne, OnceInv, NEW p \in Processes, Produce(p)
    PROVE  OnceInv'
<1>1. /\ TypeOK /\ procs[p] \in Commands /\ procs[p].pc = "scan"
      /\ Steady(procs[p], filesIndex)
  BY DEF IInv, TypeOK, Produce, OnceInv
<1>2. PICK data : data = Product(procs[p])
  OBVIOUS
<1>3. PICK me : me = [procs[p] EXCEPT !.pc = "saveFiles", !.data = data]
  OBVIOUS
<1>4. Become(p, me)
  BY <1>2, <1>3 DEF Produce, Product
<1>5. me \in Commands
  <2>1. IInv'
    BY ProduceStep
  <2>2. procs' \in [Processes -> Commands] /\ procs' = [procs EXCEPT ![p] = me]
        /\ procs \in [Processes -> Commands]
    BY <1>4, <2>1 DEF IInv, TypeOK, Become
  <2> QED
    BY <2>2
<1>6. /\ me.pc = "saveFiles" /\ me.left = procs[p].left /\ me.now = procs[p].now
      /\ me.seen = procs[p].seen /\ me.data = data
  BY <1>1, <1>3 DEF Commands
<1>7. Steady(me, filesIndex)
  BY <1>1, <1>2, <1>6 DEF Steady, Scanned
<1>8. UNCHANGED <<tree, source, filesIndex, analysis>>
  BY DEF Produce, disk
<1>9. \A q \in Processes : q # p => procs[q].pc = "idle"
  BY <1>1, OnlyOne DEF OneByOne
<1>10. Agree(filesIndex, analysis)
  BY <1>1, <1>9 DEF OnceInv, Saving
<1> QED
  BY <1>1, <1>4, <1>5, <1>7, <1>8, <1>9, <1>10, OnceForward DEF OnceInv

LEMMA SaveFilesOnce ==
    ASSUME IInv, AloneInv, OneByOne, OnceInv, NEW p \in Processes, SaveFiles(p)
    PROVE  OnceInv'
<1>1. /\ TypeOK /\ procs[p] \in Commands /\ procs[p].pc = "saveFiles"
      /\ Steady(procs[p], filesIndex)
  BY DEF IInv, TypeOK, SaveFiles, OnceInv
<1>2. PICK me : me = [procs[p] EXCEPT !.pc = "saveAnalysis"]
  OBVIOUS
<1>3. /\ me \in Commands /\ me.pc = "saveAnalysis" /\ me.left = procs[p].left
      /\ me.now = procs[p].now /\ me.seen = procs[p].seen /\ me.data = procs[p].data
      /\ me.readOnly = procs[p].readOnly
  BY <1>1, <1>2 DEF Commands
<1>4. PICK index : index = filesIndex'
  OBVIOUS
<1>5. \/ index = [files |-> procs[p].now, source |-> procs[p].source]
      \/ index = filesIndex /\ procs[p].readOnly = TRUE
  BY <1>1, <1>4 DEF SaveFiles, Skipped, Commands, MayFail, OneByOne
<1>6. Steady(me, index)
  BY <1>1, <1>3, <1>5 DEF Steady, Scanned
<1>7. UNCHANGED <<tree, source, analysis>> /\ Become(p, me)
  BY <1>2 DEF SaveFiles
<1>8. \A q \in Processes : q # p => procs[q].pc = "idle"
  BY <1>1, OnlyOne DEF OneByOne
<1>9. Agree(filesIndex, analysis)
  BY <1>1, <1>8 DEF OnceInv, Saving
<1>10. Saving(me) \/ Agree(index, analysis)
  <2>1. me.readOnly \in BOOLEAN
    BY <1>3 DEF Commands
  <2>2. CASE me.readOnly = FALSE
    BY <1>3, <2>2 DEF Saving
  <2>3. CASE me.readOnly = TRUE
    <3>1. index = filesIndex
      BY <1>1, <1>3, <1>4, <2>3 DEF SaveFiles, Skipped
    <3> QED
      BY <1>9, <3>1
  <2> QED
    BY <2>1, <2>2, <2>3
<1> QED
  BY <1>1, <1>3, <1>4, <1>6, <1>7, <1>8, <1>10, OnceForward DEF OnceInv

LEMMA SaveAnalysisOnce ==
    ASSUME IInv, AloneInv, OneByOne, OnceInv, NEW p \in Processes, SaveAnalysis(p)
    PROVE  OnceInv'
<1>1. /\ TypeOK /\ procs[p] \in Commands /\ procs[p].pc = "saveAnalysis"
      /\ Steady(procs[p], filesIndex)
  BY DEF IInv, TypeOK, SaveAnalysis, OnceInv
<1>2. PICK me : me = [procs[p] EXCEPT !.pc = "served"]
  OBVIOUS
<1>3. /\ me \in Commands /\ me.pc = "served" /\ me.left = procs[p].left
      /\ me.now = procs[p].now /\ me.seen = procs[p].seen /\ me.data = procs[p].data
  BY <1>1, <1>2 DEF Commands
<1>4. PICK record : record = analysis'
  OBVIOUS
<1>5. \/ record = [data |-> procs[p].data, epoch |-> procs[p].now] /\ procs[p].readOnly = FALSE
      \/ record = analysis /\ procs[p].readOnly = TRUE
  BY <1>1, <1>4 DEF SaveAnalysis, Skipped, Commands, MayFail, OneByOne
<1>6. Steady(me, filesIndex)
  BY <1>1, <1>3 DEF Steady, Scanned
<1>7. UNCHANGED <<tree, source, filesIndex>> /\ Become(p, me)
  BY <1>2 DEF SaveAnalysis
<1>8. \A q \in Processes : q # p => procs[q].pc = "idle"
  BY <1>1, OnlyOne DEF OneByOne
<1>9. record # NoFile => AsScanned(record.data, record.epoch, source)
  BY <1>1, <1>5 DEF Steady, Scanned, OnceInv
<1>10. Agree(filesIndex, record)
  <2>1. CASE procs[p].readOnly = TRUE
    <3>1. Agree(filesIndex, analysis)
      BY <1>1, <1>8, <2>1 DEF OnceInv, Saving
    <3> QED
      BY <1>5, <2>1, <3>1
  <2>2. CASE procs[p].readOnly = FALSE
    BY <1>1, <1>5, <2>2 DEF Steady, Agree
  <2> QED
    BY <1>5, <2>1, <2>2
<1> QED
  BY <1>1, <1>3, <1>4, <1>6, <1>7, <1>8, <1>9, <1>10, OnceForward

(* The steps that put the command back to rest.                             *)
LEMMA RestOnce ==
    ASSUME IInv, AloneInv, OneByOne, OnceInv, NEW p \in Processes,
           Use(p) \/ Invalidate(p) \/ Exit(p) \/ Crash(p)
    PROVE  OnceInv'
<1>1. /\ TypeOK /\ procs[p] \in Commands /\ procs[p].pc # "idle" /\ ~Crash(p)
      /\ Steady(procs[p], filesIndex)
  BY DEF IInv, TypeOK, Use, Invalidate, Exit, Crash, OneByOne, OnceInv
<1>2. procs[p].pc \in {"ready", "served"}
  BY <1>1 DEF Use, Invalidate, Exit
<1>3. UNCHANGED <<tree, source, filesIndex>>
  BY <1>1 DEF Use, Invalidate, Exit, disk
<1>4. PICK record : record = analysis'
  OBVIOUS
<1>5. record \in {analysis, NoFile}
  BY <1>1, <1>4 DEF Use, Invalidate, Exit, disk
<1>6. PICK me \in Commands :
        /\ Become(p, me)
        /\ \/ me.pc = "idle"
           \/ me.pc = "ready" /\ me.left = 0
           \/ /\ me.pc = "ready" /\ procs[p].pc = "ready"
              /\ me.left = procs[p].left /\ me.base = procs[p].base
  <2>1. CASE Use(p)
    <3>1. PICK me : me = [Rest(procs[p]) EXCEPT !.pc = "ready"]
      OBVIOUS
    <3>2. me \in Commands /\ me.pc = "ready" /\ me.left = procs[p].left
      BY <1>1, <3>1, EmptyTypes DEF Rest, Commands
    <3>3. procs[p].left = 0
      BY <1>1, <2>1 DEF Steady, Scanned, Use
    <3> QED
      BY <2>1, <3>1, <3>2, <3>3 DEF Use
  <2>2. CASE Invalidate(p)
    <3>1. PICK me : me = [procs[p] EXCEPT !.wrote = FALSE]
      OBVIOUS
    <3>2. /\ me \in Commands /\ me.pc = procs[p].pc /\ me.left = procs[p].left
          /\ me.base = procs[p].base
      BY <1>1, <3>1 DEF Commands
    <3> QED
      BY <2>2, <3>1, <3>2 DEF Invalidate
  <2>3. CASE Exit(p)
    <3>1. Idle.pc = "idle"
      BY DEF Idle
    <3> QED
      BY <2>3, <3>1, EmptyTypes DEF Exit
  <2> QED
    BY <1>1, <2>1, <2>2, <2>3
<1>7. Steady(me, filesIndex)
  BY <1>1, <1>6 DEF Steady, Scanned
<1>8. \A q \in Processes : q # p => procs[q].pc = "idle"
  BY <1>1, OnlyOne DEF OneByOne
<1>9. Agree(filesIndex, analysis)
  BY <1>2, <1>8 DEF OnceInv, Saving
<1>10. record # NoFile => AsScanned(record.data, record.epoch, source)
  BY <1>5 DEF OnceInv
<1>11. Agree(filesIndex, record)
  BY <1>5, <1>9 DEF Agree
<1> QED
  BY <1>1, <1>3, <1>4, <1>6, <1>7, <1>8, <1>10, <1>11, OnceForward

LEMMA WriteLocaleOnce ==
    ASSUME IInv, OneByOne, OnceInv, NEW p \in Processes, NEW f \in LocaleFiles,
           NEW c \in Contents, WriteLocale(p, f, c)
    PROVE  OnceInv'
<1>1. ASSUME NEW q \in Processes PROVE Keeps(q)
  <2>1. procs[q] \in Commands
    BY DEF IInv, TypeOK
  <2>2. PICK wrote : wrote = (procs[q].wrote \/ q = p)
    OBVIOUS
  <2>3. procs'[q] = [procs[q] EXCEPT !.quiet = FALSE, !.calm = FALSE, !.wrote = wrote]
    BY <2>1, <2>2 DEF WriteLocale, Commands
  <2> QED
    BY <2>1, <2>3 DEF Keeps, Stays, Commands
<1>2. \A q \in Processes : procs[q].pc # "scan"
  BY DEF WriteLocale, MayEdit, OneByOne
<1> QED
  BY <1>1, <1>2, OnceStirred DEF WriteLocale, disk

LEMMA DisturbedOnce ==
    ASSUME IInv, OnceInv, Disturb, UNCHANGED source, filesIndex' \in {filesIndex, NoFile},
           analysis' \in {analysis, NoFile},
           tree' = tree \/ \A q \in Processes : procs[q].pc # "scan"
    PROVE  OnceInv'
<1>1. ASSUME NEW q \in Processes PROVE Keeps(q)
  <2>1. procs[q] \in Commands
    BY DEF IInv, TypeOK
  <2>2. procs'[q] = [procs[q] EXCEPT !.quiet = FALSE, !.calm = FALSE]
    BY DEF Disturb
  <2> QED
    BY <2>1, <2>2 DEF Keeps, Stays, Commands
<1> QED
  BY <1>1, OnceStirred

LEMMA NextOnce == IInv /\ AloneInv /\ OneByOne /\ OnceInv /\ [Next]_vars => OnceInv'
<1> SUFFICES ASSUME IInv, AloneInv, OneByOne, OnceInv, [Next]_vars PROVE OnceInv'
  OBVIOUS
<1>1. ASSUME NEW p \in Processes, Command(p) PROVE OnceInv'
  BY <1>1, StartOnce, FingerprintOnce, ProduceOnce, SaveFilesOnce, SaveAnalysisOnce,
     RestOnce, WriteLocaleOnce DEF Command
<1>2. ASSUME NEW f \in Files, NEW c \in Contents \cup {Absent}, Edit(f, c) PROVE OnceInv'
  BY <1>2, DisturbedOnce DEF Edit, MayEdit, OneByOne, disk
<1>3. CASE Lose
  BY <1>3, DisturbedOnce DEF Lose
<1>4. CASE UNCHANGED vars
  BY <1>4 DEF vars, disk, OnceInv, Steady, Scanned, Product, Saving, Agree
<1> QED
  BY <1>1, <1>2, <1>3, <1>4 DEF Next

LEMMA NextSame == IInv /\ [Next]_vars => (OneByOne' <=> OneByOne)
<1> SUFFICES ASSUME IInv, [Next]_vars PROVE env' = env
  BY DEF OneByOne
<1> QED
  BY DEF Next, Command, Start, Fingerprint, Produce, SaveFiles, SaveAnalysis, Use, WriteLocale,
         Invalidate, Exit, Crash, Edit, Lose, vars

LEMMA BeginningOnce == Init => OnceInv
<1> SUFFICES ASSUME Init PROVE OnceInv
  OBVIOUS
<1>1. \A p \in Processes : procs[p].pc = "idle"
  BY DEF Init, Idle
<1> QED
  BY <1>1 DEF Init, OnceInv, Steady, Scanned, Agree

LEMMA OnceInvariance == Spec => [](OneByOne => OnceInv)
<1>1. IInv /\ AloneInv /\ (OneByOne => OnceInv) /\ [Next]_vars => (OneByOne => OnceInv)'
  BY NextOnce, NextSame
<1>2. Init => (OneByOne => OnceInv)
  BY BeginningOnce
<1> QED
  BY <1>1, <1>2, Invariance, BeginningAlone, NextAlone, PTL DEF Spec

(* Commands that dispatch once, one after the other, are served what a full *)
(* scan would have produced, although they patch what is on disk, whatever  *)
(* is edited or lost between their steps (rebuild.ts).                      *)
THEOREM FreshOneByOne == Spec => [](OneByOne => ServedIsFresh)
<1>1. IInv /\ AloneInv /\ (OneByOne => OnceInv) => (OneByOne => ServedIsFresh)
  <2> SUFFICES ASSUME IInv, AloneInv, OneByOne, OnceInv,
                      NEW p \in Processes, procs[p].pc = "served"
               PROVE  IsScan(procs[p].data, procs[p].seen, procs[p].source)
    BY DEF ServedIsFresh
  <2>1. procs[p].source = source /\ source \in LocaleFiles
    BY DEF AloneInv, Orderly, IInv, TypeOK
  <2>2. CASE env.rebuild = "full"
    <3>1. procs[p].data = Scan(procs[p].seen, source)
      BY <2>2 DEF IInv, Undisturbed, OneByOne, Fresh, Scanned
    <3> QED
      BY <2>1, <3>1, ScanIsScan
  <2>3. CASE env.rebuild # "full"
    <3>1. AsScanned(procs[p].data, procs[p].seen, source)
      BY DEF OnceInv, Steady, Scanned
    <3> QED
      BY <2>1, <2>3, <3>1 DEF IsScan, UpToDate, AsScanned
  <2> QED
    BY <2>2, <2>3
<1> QED
  BY <1>1, OnceInvariance, Invariance, BeginningAlone, NextAlone, PTL DEF Spec

(* And the payload on disk is a scan of the tree its epoch names, although  *)
(* most of it may come from earlier commands (io/state.ts).                 *)
THEOREM BoundOneByOne == Spec => [](OneByOne => BoundAnalysisIsAScan)
<1>1. IInv /\ (OneByOne => OnceInv) => (OneByOne => BoundAnalysisIsAScan)
  <2> SUFFICES ASSUME IInv, OneByOne, OnceInv, analysis # NoFile
               PROVE  IsScan(analysis.data, analysis.epoch, source)
    BY DEF BoundAnalysisIsAScan
  <2>1. CASE env.rebuild = "full"
    <3>1. analysis.data = Scan(analysis.epoch, source) /\ source \in LocaleFiles
      BY <2>1 DEF IInv, TypeOK, Undisturbed, OneByOne, DiskSound
    <3> QED
      BY <3>1, ScanIsScan
  <2>2. CASE env.rebuild # "full"
    <3>1. AsScanned(analysis.data, analysis.epoch, source)
      BY DEF OnceInv
    <3> QED
      BY <2>2, <3>1 DEF IsScan, UpToDate, AsScanned
  <2> QED
    BY <2>1, <2>2
<1> QED
  BY <1>1, OnceInvariance, Invariance, PTL
=============================================================================
