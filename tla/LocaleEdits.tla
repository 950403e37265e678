----------------------------- MODULE LocaleEdits -----------------------------
(* The commands that edit locale files without a translator: `missing` adds   *)
(* a placeholder for every key the code resolves and a file lacks, `sync`     *)
(* brings the target files to the shape of the source file, `cleanup` removes *)
(* the keys the code does not use. Each starts from a scan of the code and    *)
(* from the files as they are; `missing` and `cleanup` then wait at a prompt  *)
(* for every file they are about to write, while the developer edits on.      *)
(*                                                                            *)
(* A document maps leaf paths (sequences of segments) to texts:               *)
(*   "copy"  the words of the source locale    "own"   a translation          *)
(*   "todo"  the placeholder `missing` writes  "leak"  a masking sentinel     *)
(* A prompt is where other edits come in between: the code up to it and from  *)
(* it on runs synchronously and is one step. Not here: layouts with several   *)
(* segments per locale, structured leaves (--metadata), --dry-run, and the    *)
(* empty objects that stay where all leaves of a node were removed.           *)
EXTENDS Naturals, Sequences, FiniteSets, Functions, SequencesExt

CONSTANTS
    Keys,       \* the paths of leaves and of keys in the code
    Source,     \* the source locale
    Targets,    \* the target locales
    Scans,      \* what the code can be: the keys and the dynamic prefixes a scan finds
    Policies,   \* policies.preserve and reference.uncertainKeyPolicy
    FirstDocs,  \* the documents the project may start with
    MaxEdits    \* bound: edits of the code and of the documents by hand

VARIABLES
    code,       \* the scan the code gives now
    keyPolicy,  \* the configured policies
    doc,        \* the locale files
    cmd,        \* the command at a prompt
    edits

editsVars == <<code, keyPolicy, doc, cmd, edits>>

Locales == {Source} \cup Targets
Texts == {"copy", "own", "todo", "leak"}

(* A document is a tree: no leaf lies under another one. The code may use a   *)
(* key that is a node over leaves all the same, or one under a leaf.          *)
IsTree(ks) == \A k, m \in ks : IsPrefix(k, m) => k = m
Documents == {d \in UNION {[ks -> Texts] : ks \in SUBSET Keys} : IsTree(DOMAIN d)}
NoCommand == [kind |-> "none"]

IsPath(k) == k \in Seq(Range(k))

(* The source locale is not a target, and holds words of its own.             *)
ASSUME EditsAssumption ==
    /\ \A k \in Keys : IsPath(k) /\ k # << >>
    /\ Source \notin Targets /\ MaxEdits \in Nat
    /\ \A scan \in Scans : scan.resolved \subseteq Keys /\ \A r \in scan.uncertain : IsPath(r)
    /\ \A pol \in Policies :
          pol.protect \in BOOLEAN /\ \A r \in pol.copy \cup pol.uncertain : IsPath(r)
    /\ \A d \in FirstDocs : d \in [Locales -> Documents] /\ "own" \notin Range(d[Source])

------------------------------------------------------------------------------
(* Which keys a policy protects.                                              *)

Under(k, roots) == \E r \in roots : IsPrefix(r, k)

Preserved(pol, k) == Under(k, pol.copy)

(* the prefixes of dynamic call sites and those declared in the configuration *)
UncertainRoots(scan, pol) == scan.uncertain \cup pol.uncertain

Protected(scan, pol, k) ==
    Preserved(pol, k) \/ (pol.protect /\ Under(k, UncertainRoots(scan, pol)))

Without(d, ks) == Restrict(d, DOMAIN d \ ks)

------------------------------------------------------------------------------
(* sync                                                                       *)

(* the keys the scan resolves (all of the source file when it resolves none)  *)
(* and the declared trees the source file has                                 *)
Schema(scan, pol, src) ==
    (IF scan.resolved # {} THEN scan.resolved ELSE DOMAIN src)
        \cup {k \in DOMAIN src : Preserved(pol, k) \/ Under(k, pol.uncertain)}

(* the source leaves a target must have: a placeholder is never copied        *)
Template(scan, pol, src) ==
    Restrict(src, {k \in DOMAIN src \cap Schema(scan, pol, src) : src[k] # "todo"})

KeepRoots(scan, pol) ==
    pol.copy \cup pol.uncertain
        \cup (IF pol.protect THEN UncertainRoots(scan, pol) ELSE {})

(* every node on the way to a leaf of the template, the leaf included        *)
Nodes(template) == UNION {{SubSeq(k, 1, n) : n \in 1 .. Len(k)} : k \in DOMAIN template}

(* The walk compares a target subtree with the kept prefixes once, where it   *)
(* leaves the template: at the first node on the way to k the template lacks. *)
Kept(template, roots, k) ==
    \E n \in 1 .. Len(k) :
        /\ SubSeq(k, 1, n) \notin Nodes(template)
        /\ n = 1 \/ SubSeq(k, 1, n - 1) \in Nodes(template) \ DOMAIN template
        /\ Under(SubSeq(k, 1, n), roots)

Filled(template, cur, k) ==
    IF k \in DOMAIN cur /\ cur[k] # "todo" THEN cur[k] ELSE template[k]

Merged(template, roots, cur) ==
    [k \in DOMAIN template \cup {x \in DOMAIN cur : Kept(template, roots, x)} |->
        IF k \in DOMAIN template THEN Filled(template, cur, k) ELSE cur[k]]

RepairedNothing(template, d) == d                                          \* mutant

(* a leaked sentinel is replaced by the source text, unless that leaks too    *)
Repaired(template, d) ==
    [k \in DOMAIN d |->
        IF d[k] = "leak" /\ k \in DOMAIN template /\ template[k] # "leak"
        THEN template[k] ELSE d[k]]

Synced(scan, pol, src, cur) ==
    LET template == Template(scan, pol, src)
    IN Repaired(template, Merged(template, KeepRoots(scan, pol), cur))

(* runSync: every selected target, from one scan, without a prompt            *)
Sync(selected) ==
    /\ cmd = NoCommand
    /\ doc' = [l \in Locales |->
                  IF l \in selected THEN Synced(code, keyPolicy, doc[Source], doc[l]) ELSE doc[l]]
    /\ UNCHANGED <<code, keyPolicy, cmd, edits>>

------------------------------------------------------------------------------
(* missing                                                                    *)

(* No --target: the source locale. The paths each file lacks are fixed before *)
(* the first prompt; a file that lacks none is not asked about.               *)
MissingPlan(selected) ==
    LET lacks == [l \in selected |-> code.resolved \ DOMAIN doc[l]]
    IN /\ cmd = NoCommand
       /\ \E l \in selected : lacks[l] # {}
       /\ cmd' = [kind |-> "missing", scan |-> code, seen |-> doc,
                  plan |-> Restrict(lacks, {l \in selected : lacks[l] # {}})]
       /\ UNCHANGED <<code, keyPolicy, doc, edits>>

(* The next file of the command is done (in some order of the targets).       *)
Done(l) ==
    LET rest == DOMAIN cmd.plan \ {l}
    IN cmd' = IF rest = {} THEN NoCommand ELSE [cmd EXCEPT !.plan = Restrict(@, rest)]

(* setAtPath for one path after the other, those above before those below: a  *)
(* path under a leaf is not set, one that is set replaces what lies under it  *)
Marked(d, ks) ==
    LET set == {k \in ks : \A m \in DOMAIN d \cup ks : IsPrefix(m, k) => m = k}
        stay == {x \in DOMAIN d : \A k \in set : ~ IsPrefix(k, x)}
    IN [x \in stay \cup set |-> IF x \in set THEN "todo" ELSE d[x]]

(* the write plan: of the paths a file lacks those at which it has nothing    *)
Writable(d, ks) == {k \in ks : \A x \in DOMAIN d : ~ IsPrefix(k, x)}

(* approved: the file is read again and every path of the write plan is set,  *)
(* without another look at whether it is still missing. When that plan is     *)
(* empty every path is set all the same, in the document read before.         *)
MissingWrite(l) ==
    /\ cmd.kind = "missing"
    /\ l \in DOMAIN cmd.plan
    /\ LET ks == Writable(cmd.seen[l], cmd.plan[l])
       IN doc' = [doc EXCEPT ![l] = IF ks # {} THEN Marked(@, ks)
                                    ELSE Marked(cmd.seen[l], cmd.plan[l])]
    /\ Done(l)
    /\ UNCHANGED <<code, keyPolicy, edits>>

------------------------------------------------------------------------------
(* cleanup                                                                    *)

CandidatesUnprotected(scan, pol, d) == {k \in DOMAIN d : k \notin scan.resolved} \* mutant

Candidates(scan, pol, d) ==
    {k \in DOMAIN d : k \notin scan.resolved /\ ~ Protected(scan, pol, k)}

(* Of the candidates the string search (--rg) may hold some back. The plan of *)
(* a file holds its document as it will be written.                           *)
CleanupPlan(selected) ==
    /\ cmd = NoCommand
    /\ \E held \in SUBSET Keys :
          LET safe == [l \in selected |-> Candidates(code, keyPolicy, doc[l]) \ held]
          IN /\ \A k \in held : \E l \in selected : k \in Candidates(code, keyPolicy, doc[l])
             /\ \E l \in selected : safe[l] # {}
             /\ cmd' = [kind |-> "cleanup", scan |-> code, seen |-> doc,
                        plan |-> Restrict(safe, {l \in selected : safe[l] # {}})]
    /\ UNCHANGED <<code, keyPolicy, doc, edits>>

(* All keys approved: the document prepared before the prompt is written.     *)
(* Only some (--ask): a new one is made from the file as it is now.           *)
CleanupWrite(l, approved) ==
    /\ cmd.kind = "cleanup"
    /\ l \in DOMAIN cmd.plan
    /\ approved # {} /\ approved \subseteq cmd.plan[l]
    /\ doc' = [doc EXCEPT ![l] =
                  Without(IF approved = cmd.plan[l] THEN cmd.seen[l] ELSE @, approved)]
    /\ Done(l)
    /\ UNCHANGED <<code, keyPolicy, edits>>

(* The prompt is declined for this file.                                      *)
Decline(l) ==
    /\ cmd # NoCommand
    /\ l \in DOMAIN cmd.plan
    /\ Done(l)
    /\ UNCHANGED <<code, keyPolicy, doc, edits>>

(* The process is interrupted at a prompt.                                    *)
Interrupt ==
    /\ cmd # NoCommand
    /\ cmd' = NoCommand
    /\ UNCHANGED <<code, keyPolicy, doc, edits>>

------------------------------------------------------------------------------
(* The developer (or another command) changes the code or a leaf.             *)

EditCode(scan) ==
    /\ edits < MaxEdits
    /\ scan # code
    /\ code' = scan
    /\ edits' = edits + 1
    /\ UNCHANGED <<keyPolicy, doc, cmd>>

(* the developer writes words: a translation, or the source text              *)
EditLeaf(l, k) ==
    /\ edits < MaxEdits
    /\ LET others == {x \in DOMAIN doc[l] : ~ IsPrefix(x, k) /\ ~ IsPrefix(k, x)}
       IN doc' = [doc EXCEPT ![l] = [x \in others \cup {k} |->
                  IF x # k THEN @[x] ELSE IF l = Source THEN "copy" ELSE "own"]]
    /\ edits' = edits + 1
    /\ UNCHANGED <<code, keyPolicy, cmd>>

DropLeaf(l, k) ==
    /\ edits < MaxEdits
    /\ k \in DOMAIN doc[l]
    /\ doc' = [doc EXCEPT ![l] = Without(@, {k})]
    /\ edits' = edits + 1
    /\ UNCHANGED <<code, keyPolicy, cmd>>

------------------------------------------------------------------------------

Selections == {{Source}} \cup ((SUBSET Targets) \ {{}})

EditsInit ==
    /\ code \in Scans
    /\ keyPolicy \in Policies
    /\ doc \in FirstDocs
    /\ cmd = NoCommand
    /\ edits = 0

Command ==
    \/ \E s \in (SUBSET Targets) \ {{}} : Sync(s)
    \/ \E s \in Selections : MissingPlan(s) \/ CleanupPlan(s)
    \/ Interrupt
    \/ \E l \in Locales :
          \/ MissingWrite(l)
          \/ Decline(l)
          \/ \E approved \in SUBSET Keys : CleanupWrite(l, approved)

EditsNext ==
    \/ Command
    \/ \E scan \in Scans : EditCode(scan)
    \/ \E l \in Locales, k \in Keys : EditLeaf(l, k) \/ DropLeaf(l, k)

EditsSpec == EditsInit /\ [][EditsNext]_editsVars

------------------------------------------------------------------------------

(* Documents are trees of texts at known paths; a plan is about files that exist, and *)
(* the source locale holds no translations.                                   *)
Plans == UNION {[ls -> (SUBSET Keys) \ {{}}] : ls \in (SUBSET Locales) \ {{}}}
Prompts == [kind : {"missing", "cleanup"}, scan : Scans, seen : [Locales -> Documents],
            plan : Plans]

EditsTypeOK ==
    /\ code \in Scans /\ keyPolicy \in Policies /\ edits \in 0 .. MaxEdits
    /\ doc \in [Locales -> Documents]
    /\ "own" \notin Range(doc[Source])
    /\ cmd \in {NoCommand} \cup Prompts

(* The words a document holds for a key, as opposed to marks to be replaced.  *)
Words(d, k) == k \in DOMAIN d /\ d[k] \in {"copy", "own"}

KeepsWords(l, k) == Words(doc[l], k) => k \in DOMAIN doc'[l] /\ doc'[l][k] = doc[l][k]

(* A kept prefix is anchored when the template has every node above it, and   *)
(* no leaf of the template is in the way of what lies under it.               *)
Anchored(template, k, roots) ==
    /\ \A m \in DOMAIN template : ~ IsPrefix(m, k) /\ ~ IsPrefix(k, m)
    /\ \E r \in roots : /\ IsPrefix(r, k)
                        /\ \A n \in 1 .. Len(r) - 1 : SubSeq(r, 1, n) \in Nodes(template)

(* A step of a command and the words of the keys that are in use.             *)
UsedWordsStay ==
    /\ \A s \in (SUBSET Targets) \ {{}} : Sync(s) =>
          LET template == Template(code, keyPolicy, doc[Source])
              roots == KeepRoots(code, keyPolicy)
          IN \A l \in Locales, k \in Keys :
                 (k \in DOMAIN template \/ Anchored(template, k, roots)) => KeepsWords(l, k)
    /\ \A l \in Locales : MissingWrite(l) /\ doc[l] = cmd.seen[l] =>
          \A m \in Locales, k \in Keys :
              Writable(doc[l], cmd.plan[l]) # {} \/ ~ Under(k, cmd.plan[l]) => KeepsWords(m, k)
    /\ \A l \in Locales, a \in SUBSET Keys :
          CleanupWrite(l, a) /\ (doc[l] = cmd.seen[l] \/ a # cmd.plan[l]) =>
             \A m \in Locales, k \in Keys :
                 k \in cmd.scan.resolved \/ Protected(cmd.scan, keyPolicy, k) => KeepsWords(m, k)

(* No command loses words that are in use. sync keeps those of every key that *)
(* the code resolves and the source has words for, and of the protected trees *)
(* whose parents the template has; missing keeps all there are, unless every  *)
(* key it has to add is a node over leaves; and cleanup keeps those of every  *)
(* key its scan resolves or protects: each in a file nobody edited while it   *)
(* waited at the prompt.                                                      *)
UsedWordsKept == [][UsedWordsStay]_editsVars

(* A sync and what it leaves in the targets.                                  *)
SyncCompletes ==
    \A s \in (SUBSET Targets) \ {{}} : Sync(s) =>
       \A l \in s :
           /\ \A k \in code.resolved : Words(doc[Source], k) => Words(doc'[l], k)
           /\ keyPolicy.protect /\ code.resolved # {} =>
                  Candidates(code, keyPolicy, doc'[l]) = {}

(* After sync a target has words for every key the code resolves and the      *)
(* source has words for: no placeholder and no leaked sentinel is left there, *)
(* whatever commands and edits came before. And sync and cleanup --target     *)
(* agree on what is unused: under a protecting policy and a scan that         *)
(* resolves something, sync leaves nothing for cleanup.                       *)
SyncIsComplete == [][SyncCompletes]_editsVars

(* docs/commands/sync.md:34-37: prune retains the branches under declared and *)
(* automatically found uncertain prefixes.                                    *)
ProtectedWordsKept ==
    [][\A s \in (SUBSET Targets) \ {{}} : Sync(s) =>
          \A l \in s, k \in Keys :
              Protected(code, keyPolicy, k) => KeepsWords(l, k)]_editsVars
==============================================================================
