---------------------------- MODULE ShareClient ----------------------------
(***************************************************************************)
(* The share commands of one project (packages/core/src/share and the CLI  *)
(* host behind it) composed with what the worker promises: upload with its skip   *)
(* policy, verification, retries and share.json; delete; view; all of them *)
(* possibly run by several processes at once, next to other users of the   *)
(* worker.                                                                 *)
(*                                                                         *)
(* What is shared is the project's content on disk, a member of Hashes;    *)
(* files.json is the content it describes. The configuration and the       *)
(* worker address do not change, the local cache is on and writable, and   *)
(* share.json is never damaged (its repair is not modelled).               *)
(***************************************************************************)
EXTENDS ShareService, FiniteSetsExt

CONSTANTS
  Procs,         \* command processes
  MaxTries,      \* SHARE_WORKER_FETCH_MAX_ATTEMPTS
  Environments   \* bounds of a behaviour: the processes that run commands, the ids drawn,
                 \* the commands started, and the edits, uploads of others and lost answers

ASSUME ShareClientAssumption ==
  /\ MaxTries \in Nat \ {0} /\ MaxIds \in Nat
  /\ Hashes # {} /\ None \notin Row
  /\ Environments \subseteq [procs : SUBSET Procs, ids : Ids, commands : Nat, events : Nat]

VARIABLES
  disk,    \* the project's content
  files,   \* the content files.json describes, or None
  share,   \* share.json: its entries, the least recently used first
  cmd,     \* per process, the command it runs
  left     \* the environment, and what is left of its commands and events

clientVars == <<disk, files, share, cmd, left>>
vars == <<serviceVars, clientVars>>

Entry == [kind : Kinds, id : Ids, hash : Hashes, epoch : Hashes \cup {None}]

\* mergeDuplicateShareEntries keys rows by kind and id, which id alone decides here: an id
\* has one entry at most.
Place(entries, id) == CHOOSE n \in 1 .. Len(entries) : entries[n].id = id
WithoutId(entries, id) ==
  IF \A n \in 1 .. Len(entries) : entries[n].id # id THEN entries
  ELSE [n \in 1 .. Len(entries) - 1 |-> entries[IF n < Place(entries, id) THEN n ELSE n + 1]]
WithEntry(entries, e) == Append(WithoutId(entries, e.id), e)

\* The most recently used entry of those at some places, or None.
Newest(entries, places) == IF places = {} THEN None ELSE entries[Max(places)]

ByEpoch(entries, epoch) ==
  Newest(entries, {n \in 1 .. Len(entries) : /\ epoch # None /\ entries[n].kind = "project"
                                             /\ entries[n].epoch = epoch})
ByHash(entries, kind, hash) ==
  Newest(entries, {n \in 1 .. Len(entries) : entries[n].kind = kind /\ entries[n].hash = hash})

-----------------------------------------------------------------------------
NoCommand == [at |-> "idle"]

\* at: what the command does next. todo: the payload kinds still to upload. base:
\* files.json when the command started. mem: its copy of share.json. built: the content
\* of the payload. cand: the entry that may save the upload. own: the id drawn with the
\* payload. slot: the request it waits for.
Command(at, todo, force, own) ==
  [at |-> at, todo |-> todo, force |-> force, base |-> files, loaded |-> FALSE,
   mem |-> <<>>, built |-> None, cand |-> None, own |-> own, slot |-> None, tries |-> 0]

Become(p, me) == cmd' = [cmd EXCEPT ![p] = me]
Kind(p) == Head(cmd[p].todo)

Busy(p) == cmd[p] # NoCommand
Start(p, command) ==
  /\ ~Busy(p) /\ left.commands > 0
  /\ Become(p, command)
  /\ left' = [left EXCEPT !.commands = @ - 1]
  /\ UNCHANGED <<serviceVars, disk, files, share>>

\* The next payload kind of an upload, with the command's copy of share.json, or the end.
Finish(p, mem) ==
  Become(p, IF Len(cmd[p].todo) > 1
            THEN [cmd[p] EXCEPT !.at = "load", !.todo = Tail(@), !.mem = mem, !.cand = None,
                                !.own = None, !.slot = None, !.tries = 0]
            ELSE NoCommand)

-----------------------------------------------------------------------------
(***************************************************************************)
(* share upload                                                            *)
(***************************************************************************)
\* Bound: no more ids are drawn than there are. A report draws one for each try.
Draws(todo) == Len(SelectSeq(todo, LAMBDA k : k = "project"))
               + MaxTries * Len(SelectSeq(todo, LAMBDA k : k = "report"))
IdsLeft(n) ==
  Len(born) + n + MapThenSumSet(LAMBDA p : IF Busy(p) THEN Draws(cmd[p].todo) ELSE 0, Procs)
  <= left.ids

\* A project payload alone is prepared by runShare; a report, and the two together, are
\* prepared before it.
StartUpload(p, todo, force) ==
  /\ IdsLeft(Draws(todo))
  /\ Start(p, Command(IF todo = <<"project">> THEN "load" ELSE "prepare", todo, force, None))

\* One analysis: it reads the disk and leaves files.json up to date (or, when that save
\* fails, as it was). The manifest, its content hash included, is that of what was built.
Analyse(p, next) ==
  /\ \E f \in {disk, files} : files' = f
  /\ Become(p, [cmd[p] EXCEPT !.at = next, !.built = disk])
  /\ UNCHANGED <<serviceVars, disk, share, left>>

AnalysisFails(p) ==
  /\ cmd[p].at \in {"prepare", "build", "rebuild"}
  /\ Become(p, NoCommand)
  /\ UNCHANGED <<serviceVars, disk, files, share, left>>

Prepare(p) == cmd[p].at = "prepare" /\ Analyse(p, "load")

\* Whether the entry found saves the upload is for the worker to say.
WithCandidate(me, cand) ==
  [me EXCEPT !.cand = cand, !.at = IF cand # None /\ ~me.force THEN "verify" ELSE "confirm"]

\* share.json is read once; a project first asks whether the tracked files, as
\* files.json had them when the command started, are those of an entry.
Load(p) ==
  /\ cmd[p].at = "load"
  /\ LET mem   == IF cmd[p].loaded THEN cmd[p].mem ELSE share
         read  == [cmd[p] EXCEPT !.mem = mem, !.loaded = TRUE]
         early == IF Kind(p) = "project" /\ ~cmd[p].force
                  THEN ByEpoch(mem, cmd[p].base) ELSE None
     IN  Become(p, IF early # None THEN WithCandidate(read, early)
                   ELSE IF cmd[p].built = None THEN [read EXCEPT !.at = "build"]
                   ELSE WithCandidate(read, ByHash(mem, Kind(p), cmd[p].built)))
  /\ UNCHANGED <<serviceVars, disk, files, share, left>>

Build(p) == cmd[p].at = "build" /\ Analyse(p, "choose")

Choose(p) ==
  /\ cmd[p].at = "choose"
  /\ Become(p, WithCandidate(cmd[p], ByHash(cmd[p].mem, "project", cmd[p].built)))
  /\ UNCHANGED <<serviceVars, disk, files, share, left>>

\* A request of process p: the slots of requests it no longer waits for stay taken until
\* the worker is done with them.
Ask(p, at, op, row, id) ==
  \E c \in Slots :
    /\ Submit(c, op, row, id)
    /\ Become(p, [cmd[p] EXCEPT !.at = at, !.slot = c, !.tries = @ + 1,
                     !.own = IF op = "upload" /\ row.kind = "project" THEN id ELSE @])
    /\ UNCHANGED <<disk, files, share, left>>

\* The answer to the request p waits for, or no answer at all (a network error, or the
\* attempt's timeout while the worker goes on with it).
Answered(p, ans) ==
  /\ cmd[p].slot # None
  /\ LET c == cmd[p].slot
     IN  \/ /\ req[c].at = "done" /\ ans = req[c].ans
            /\ req' = [req EXCEPT ![c] = Idle]
            /\ UNCHANGED <<rows, born, left>>
         \/ /\ ans = "lost" /\ left.events > 0
            /\ left' = [left EXCEPT !.events = @ - 1]
            /\ UNCHANGED serviceVars

RetryableUnlimited == {"lost", "full", "error"}          \* mutant: 429 is not expected
Retryable == {"lost", "full", "limited", "error"}

Verify(p) ==
  /\ cmd[p].at = "verify"
  /\ Ask(p, "verifying", "get", [kind |-> cmd[p].cand.kind, hash |-> born[cmd[p].cand.id].hash],
         cmd[p].cand.id)

\* The link is still good: the entry counts as used, in this command's copy of the file.
Skip(p) ==
  /\ cmd[p].at = "verifying" /\ Answered(p, "ok")
  /\ share' = WithEntry(cmd[p].mem, cmd[p].cand)
  /\ Finish(p, share')
  /\ UNCHANGED <<disk, files>>

\* The worker says the row is gone: its entries go and the payload is uploaded. Any other
\* answer just leads to the upload.
Unverified(p) ==
  /\ cmd[p].at = "verifying"
  /\ \E ans \in {"gone", "lost", "error"} :
       /\ Answered(p, ans)
       /\ LET mem == IF ans = "gone" THEN WithoutId(cmd[p].mem, cmd[p].cand.id) ELSE cmd[p].mem
          IN  /\ share' = IF ans = "gone" THEN mem ELSE share
              /\ Become(p, [cmd[p] EXCEPT !.mem = mem, !.slot = None, !.tries = 0,
                               !.at = IF cmd[p].built = None THEN "rebuild" ELSE "confirm"])
  /\ UNCHANGED <<disk, files>>

Rebuild(p) == cmd[p].at = "rebuild" /\ Analyse(p, "confirm")

\* A dry run, or the user says no.
Decline(p) ==
  /\ cmd[p].at = "confirm"
  /\ Finish(p, cmd[p].mem)
  /\ UNCHANGED <<serviceVars, disk, files, share, left>>

\* A project keeps the id drawn with its payload over the tries, a report gets a new one
\* from the worker each time.
Upload(p) ==
  /\ cmd[p].at \in {"confirm", "retry"}
  /\ LET row == [kind |-> Kind(p), hash |-> cmd[p].built]
         id  == IF cmd[p].own = None THEN Len(born) + 1 ELSE cmd[p].own
     IN  Ask(p, "uploading", "upload", row, id)

UploadEntryAsOnDisk(p, id) ==            \* mutant: hashes the project after the upload
  [kind |-> Kind(p), id |-> id, hash |-> disk,
   epoch |-> IF Kind(p) = "project" THEN cmd[p].base ELSE None]

\* The entry of an upload names the payload that was built and the epoch the command
\* started from; it replaces the entries of the same id in the command's copy.
UploadEntry(p, id) ==
  [kind |-> Kind(p), id |-> id, hash |-> cmd[p].built,
   epoch |-> IF Kind(p) = "project" THEN cmd[p].base ELSE None]

Uploaded(p) ==
  /\ cmd[p].at = "uploading" /\ Answered(p, "ok")
  /\ share' = WithEntry(cmd[p].mem, UploadEntry(p, req[cmd[p].slot].id))
  /\ Finish(p, share')
  /\ UNCHANGED <<disk, files>>

Tried(p) == cmd[p].tries >= MaxTries

UploadFails(p) ==
  /\ cmd[p].at = "uploading"
  /\ \E ans \in Retryable \cup {"bad"} :
       /\ Answered(p, ans)
       /\ IF ans \in Retryable /\ ~Tried(p)
          THEN Become(p, [cmd[p] EXCEPT !.at = "retry", !.slot = None])
          ELSE Finish(p, cmd[p].mem)
  /\ UNCHANGED <<disk, files, share>>

UploadStep(p) ==
  \/ Prepare(p) \/ AnalysisFails(p) \/ Load(p) \/ Build(p) \/ Choose(p) \/ Verify(p)
  \/ Skip(p) \/ Unverified(p) \/ Rebuild(p) \/ Decline(p) \/ Upload(p) \/ Uploaded(p)
  \/ UploadFails(p)

-----------------------------------------------------------------------------
(***************************************************************************)
(* share delete and share view                                             *)
(***************************************************************************)
\* The entry goes first, then the row, unless the command is for the local file only.
StartDelete(p, id, localOnly) ==
  /\ ~Busy(p) /\ left.commands > 0 /\ id \in 1 .. Len(born)
  /\ share' = WithoutId(share, id)
  /\ cmd' = IF localOnly THEN cmd
            ELSE [cmd EXCEPT ![p] = Command("delete", <<born[id].kind>>, FALSE, id)]
  /\ left' = [left EXCEPT !.commands = @ - 1]
  /\ UNCHANGED <<serviceVars, disk, files>>

StartView(p, id) ==
  /\ id \in 1 .. Len(born)
  /\ Start(p, Command("view", <<born[id].kind>>, FALSE, id))

AskAbout(p, at, op) == LET id == cmd[p].own IN Ask(p, at, op, born[id], id)

Delete(p) == cmd[p].at = "delete" /\ AskAbout(p, "deleting", "delete")
View(p)   == cmd[p].at = "view" /\ AskAbout(p, "viewing", "get")

\* A row that was not there counts as deleted.
Deleted(p) ==
  /\ cmd[p].at = "deleting"
  /\ \E ans \in Retryable \cup {"ok", "absent"} :
       /\ Answered(p, ans)
       /\ Become(p, IF ans \in Retryable /\ ~Tried(p)
                    THEN [cmd[p] EXCEPT !.at = "delete", !.slot = None] ELSE NoCommand)
  /\ UNCHANGED <<disk, files, share>>

\* purgeShareCacheEntry: a row the worker does not find loses its entry.
Viewed(p) ==
  /\ cmd[p].at = "viewing"
  /\ \E ans \in {"ok", "gone", "lost", "error"} :
       /\ Answered(p, ans)
       /\ share' = IF ans = "gone" THEN WithoutId(share, cmd[p].own) ELSE share
  /\ Become(p, NoCommand)
  /\ UNCHANGED <<disk, files>>

CommandStep(p) == UploadStep(p) \/ Delete(p) \/ Deleted(p) \/ View(p) \/ Viewed(p)

-----------------------------------------------------------------------------
Edit ==
  /\ left.events > 0
  /\ \E h \in Hashes \ {disk} : disk' = h
  /\ left' = [left EXCEPT !.events = @ - 1]
  /\ UNCHANGED <<serviceVars, files, share, cmd>>

\* Any other command of the project analyses it and saves files.json.
OtherAnalysis ==
  /\ files # disk /\ files' = disk
  /\ UNCHANGED <<serviceVars, disk, share, cmd, left>>

\* Somebody else shares the same or another content.
OtherUser ==
  /\ left.events > 0 /\ IdsLeft(1) /\ Len(born) < MaxIds
  /\ \E row \in Row : /\ born' = Append(born, row)
                     /\ rows' = [rows EXCEPT ![Len(born) + 1] = row]
  /\ left' = [left EXCEPT !.events = @ - 1]
  /\ UNCHANGED <<req, disk, files, share, cmd>>

\* The worker's part. An answer nobody waits for is dropped.
Orphan(c) == \A p \in Procs : Busy(p) => cmd[p].slot # c

\* The id of an answer other than "ok" says nothing, and is not read: it stays as it was.
Answer(c) == \E ans \in Answers, link \in DOMAIN born :
               Reply(c, ans, link) /\ (ans # "ok" => link = req[c].id)

WorkerStep ==
  /\ \/ \E c \in Slots : Answer(c) \/ Work(c) \/ (Orphan(c) /\ Cut(c))
     \/ Vanish
  /\ UNCHANGED clientVars

Todos == {<<"project">>, <<"report">>, <<"project", "report">>}

Begin(p) ==
  \/ \E todo \in Todos, force \in BOOLEAN : StartUpload(p, todo, force)
  \/ \E id \in Ids, localOnly \in BOOLEAN : StartDelete(p, id, localOnly)
  \/ \E id \in Ids : StartView(p, id)

Init ==
  /\ ServiceInit
  /\ disk = (CHOOSE h \in Hashes : TRUE) /\ files = None /\ share = <<>>
  /\ cmd = [p \in Procs |-> NoCommand]
  /\ left \in Environments

Next ==
  \/ \E p \in left.procs : Begin(p) \/ CommandStep(p)
  \/ Edit \/ OtherAnalysis \/ OtherUser \/ WorkerStep

\* The worker answers every request; a started command goes on.
Fairness ==
  /\ \A p \in Procs : WF_vars(CommandStep(p))
  /\ \A c \in Slots :
       /\ WF_vars(Answer(c) /\ UNCHANGED clientVars)
       /\ WF_vars(Orphan(c) /\ Cut(c) /\ UNCHANGED clientVars)

Spec == Init /\ [][Next]_vars /\ Fairness

-----------------------------------------------------------------------------
(***************************************************************************)
(* Properties                                                              *)
(***************************************************************************)

ClientTypeOK ==
  /\ disk \in Hashes /\ files \in Hashes \cup {None}
  /\ share \in Seq(Entry)
  /\ \A p \in Procs : Busy(p) => cmd[p].mem \in Seq(Entry) /\ cmd[p].tries \in 0 .. MaxTries
  /\ \A p, q \in Procs : p # q /\ Busy(p) /\ Busy(q) /\ cmd[p].slot # None
                         => cmd[p].slot # cmd[q].slot

\* Every entry of share.json names a link of its own kind, once, with the content it
\* says: an upload that was skipped for want of an epoch, verified, rebuilt, retried or
\* deduplicated to somebody else's row still records the payload it stands for.
EntriesTruthful ==
  /\ \A n \in 1 .. Len(share) :
       share[n].id \in 1 .. Len(born)
       /\ born[share[n].id] = [kind |-> share[n].kind, hash |-> share[n].hash]
  /\ \A m, n \in 1 .. Len(share) : share[m].id = share[n].id => m = n

\* Every command ends, whatever the worker answers and however often.
CommandsEnd == \A p \in Procs : Busy(p) ~> ~Busy(p)

=============================================================================
