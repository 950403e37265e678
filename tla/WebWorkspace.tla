---------------------------- MODULE WebWorkspace ----------------------------
(***************************************************************************)
(* One browser tab of the web app (apps/web): the workspace page with its  *)
(* address, its session and the two effects that follow them, what the tab *)
(* holds of a hosted project (the snapshot and the memo of answers), and   *)
(* every request that may still be on its way while the user goes on.      *)
(*                                                                         *)
(* One worker address, one configuration text. A project is its id: a row  *)
(* of the worker never changes, it comes and goes. React runs the effects  *)
(* of a commit before the next one, so a commit and its effects are one    *)
(* step; an answer that lands between them is one that lands before both.  *)
(***************************************************************************)
EXTENDS Naturals, Sequences, FiniteSets

CONSTANTS
  Hosted,     \* ids of worker rows, drawn in the order 1, 2, ...
  Locals,     \* ids of projects built in the tab, likewise
  Operations, \* the read-only operations, "Snapshot" among them
  Seeded,     \* those that a snapshot answers in advance
  MaxGets,    \* bound: snapshot requests on their way
  MaxActs     \* bound: acts of the user and evictions

ASSUME WebWorkspaceAssumption ==
  /\ IsFiniteSet(Hosted) /\ Hosted = 1..Cardinality(Hosted)
  /\ IsFiniteSet(Locals) /\ Locals = 1..Cardinality(Locals)
  /\ Seeded \subseteq Operations /\ "Snapshot" \in Operations \ Seeded
  /\ MaxGets \in Nat \ {0} /\ MaxActs \in Nat

VARIABLES
  tab,      \* the tab: what React and the modules of the page keep in memory
  stored,   \* the rows of the worker
  drawn,    \* how many ids were drawn, hosted and local
  acts      \* what is left of MaxActs

vars == <<tab, stored, drawn, acts>>

None == 0

\* zip: a zip is attached. share: the row that a local session was uploaded to.
Session(mode, id, zip) == [mode |-> mode, id |-> id, zip |-> zip, share |-> None]
NoSession == Session("none", None, FALSE)
Key(s) == [mode |-> s.mode, id |-> s.id]
Hosting(id) == [mode |-> "remote", id |-> id]

\* Of the page: asked is the shared project whose metadata were asked for and not
\* cancelled, seen the key of the last session the second effect ran for. Of the modules:
\* hold (the project whose snapshot is held), memo, and the requests on their way: gets of a
\* snapshot, one of them hydrateP (joinable), each begun in the current epoch or not (fresh),
\* awaited by the loading screen or not and by operations (waiters); ops of operations;
\* jobs, which rebuild, upload or delete. Of these, mounted says whether the page that
\* began it is still there.
Init ==
  /\ tab = [page |-> "home", url |-> None, session |-> NoSession,
            asked |-> None, opening |-> FALSE, issue |-> FALSE,
            seen |-> Key(NoSession), hydrating |-> FALSE, banner |-> FALSE,
            hold |-> Key(NoSession), memo |-> {}, gets |-> <<>>, ops |-> {}, jobs |-> {}]
  /\ stored \in {{}, Hosted \cap {1}}
  /\ drawn = [hosted |-> Cardinality(stored), locals |-> 0]
  /\ acts = MaxActs

-----------------------------------------------------------------------------
(***************************************************************************)
(* snapHold.ts and opMemo.ts                                               *)
(***************************************************************************)
ClearMemo(t) == [t EXCEPT !.memo = {}]

\* clearSnapHold: requests begun before are of an older epoch, and nobody joins them.
ClearHold(t) ==
  [t EXCEPT !.hold = Key(NoSession),
            !.gets = [i \in DOMAIN t.gets |->
                        [t.gets[i] EXCEPT !.fresh = FALSE, !.joinable = FALSE]],
            !.ops = {[o EXCEPT !.fresh = FALSE] : o \in @}]

Remember(t, s, ops, of) ==
  [t EXCEPT !.memo = {m \in @ : m.key # Key(s) \/ m.op \notin ops}
                       \cup {[key |-> Key(s), op |-> op, of |-> of] : op \in ops}]
Remembers(t, s, op) == \E m \in t.memo : m.key = Key(s) /\ m.op = op

\* applyEnv, with the memo entries that seedOpMemoFromSnap derives from the snapshot.
ApplyEnv(t, id) ==
  Remember([t EXCEPT !.hold = Hosting(id)], Hosting(id), Seeded, Hosting(id))

\* snapBackedLocal: whether the held snapshot may answer for a session.
Backs(t, s) == t.hold = Key(s)

\* snapHydrateRemote, when the project is not held: join the request or begin one.
Requested(gets, id, loading, waiters) ==
  LET Joins(g) == g.joinable /\ g.id = id
  IN  IF \E i \in DOMAIN gets : Joins(gets[i])
      THEN [i \in DOMAIN gets |->
              IF Joins(gets[i])
              THEN [gets[i] EXCEPT !.loading = @ \/ loading, !.waiters = @ \cup waiters]
              ELSE gets[i]]
      ELSE Append([i \in DOMAIN gets |-> [gets[i] EXCEPT !.joinable = FALSE]],
                  [id |-> id, fresh |-> TRUE, joinable |-> TRUE,
                   loading |-> loading, waiters |-> waiters])
Hydrate(t, id, loading, waiters) ==
  [t EXCEPT !.gets = Requested(@, id, loading, waiters)]

-----------------------------------------------------------------------------
(***************************************************************************)
(* A commit of the page: new props, then the effects whose inputs changed. *)
(***************************************************************************)
\* The first effect: open what the address names unless the session already is that.
OpenEffect(t) ==
  IF t.url = None \/ Key(t.session) = Hosting(t.url)
  THEN [t EXCEPT !.asked = None, !.opening = FALSE, !.issue = FALSE]
  ELSE [t EXCEPT !.asked = t.url, !.opening = TRUE, !.issue = FALSE]

\* The second effect: another session empties memo and hold, a remote one is loaded.
SessionEffect(t) ==
  LET seen == [t EXCEPT !.seen = Key(t.session)]
      new  == ClearHold(ClearMemo([seen EXCEPT !.banner = FALSE, !.hydrating = FALSE]))
  IN  IF t.session = NoSession \/ Key(t.session) = t.seen THEN seen
      ELSE IF t.session.mode = "local" THEN new
      ELSE Hydrate([new EXCEPT !.hydrating = TRUE], t.session.id, TRUE, {})

\* The page goes: its state is lost, its metadata request cancelled, and nothing that
\* is on its way can change its state any more.
Unmount(t) ==
  [t EXCEPT !.asked = None, !.opening = FALSE, !.issue = FALSE,
            !.seen = Key(NoSession), !.hydrating = FALSE, !.banner = FALSE,
            !.gets = [i \in DOMAIN t.gets |->
                        [t.gets[i] EXCEPT
                           !.loading = FALSE,
                           !.waiters = {[w EXCEPT !.mounted = FALSE] : w \in @}]],
            !.ops = {[o EXCEPT !.mounted = FALSE] : o \in @},
            !.jobs = {[j EXCEPT !.mounted = FALSE] : j \in @}]

\* Mutant: the first effect ignores that the session changed.
ReopensForUrl(t, url, touched) == url # t.url

\* What the first effect depends on, besides the page being there.
Reopens(t, url, touched) == url # t.url \/ touched

\* App: when the route leaves the workspace, or drops its id, the session is dropped, in
\* a commit of its own. touched: the session is another object than before.
Commit(t, page, url, session, touched) ==
  LET next    == [t EXCEPT !.page = page, !.url = url, !.session = session]
      mounts  == t.page = "home" /\ page = "workspace"
      opened  == IF mounts \/ Reopens(t, url, touched) THEN OpenEffect(next) ELSE next
      shown   == IF page = "home" THEN IF t.page = "workspace" THEN Unmount(next) ELSE next
                 ELSE IF mounts \/ touched THEN SessionEffect(opened) ELSE opened
      dropped == \/ page = "home" /\ t.page = "workspace"
                 \/ page = "workspace" /\ url = None /\ t.url # None
  IN  IF dropped THEN [shown EXCEPT !.session = NoSession, !.seen = Key(NoSession)]
      ELSE shown

\* onSessionChange, wherever the tab is.
Become(t, session) == Commit(t, t.page, t.url, session, TRUE)

-----------------------------------------------------------------------------
(***************************************************************************)
(* What the page shows and which of its controls can be used.              *)
(***************************************************************************)
Loading ==
  /\ tab.page = "workspace"
  /\ \/ tab.opening
     \/ tab.url # None /\ tab.session = NoSession /\ ~tab.issue
     \/ ~tab.issue /\ tab.session.mode = "remote" /\ tab.hydrating /\ ~tab.banner

Usable == tab.page = "workspace" /\ ~Loading /\ ~tab.issue /\ tab.session # NoSession

Overrides == {"rebuild", "replace", "reupload"}
Busy ==
  \/ \E o \in tab.ops : o.mounted
  \/ \E j \in tab.jobs : j.mounted /\ j.kind \in Overrides
  \/ \E i \in DOMAIN tab.gets : \E w \in tab.gets[i].waiters : w.mounted

Act == acts > 0 /\ acts' = acts - 1
Room == Len(tab.gets) < MaxGets

\* An upload is a new row, or the row that already has the payload's hash.
Uploads(id, forced) ==
  \/ /\ id = drawn.hosted + 1 /\ id \in Hosted
     /\ drawn' = [drawn EXCEPT !.hosted = id]
     /\ stored' = stored \cup {id}
  \/ ~forced /\ id \in stored /\ UNCHANGED <<drawn, stored>>
Builds(id) ==
  /\ id = drawn.locals + 1 /\ id \in Locals
  /\ drawn' = [drawn EXCEPT !.locals = id]

-----------------------------------------------------------------------------
(***************************************************************************)
(* The user                                                                *)
(***************************************************************************)
OpenLocal ==
  /\ Act /\ tab.page = "home"
  /\ \E id \in Locals :
       /\ Builds(id)
       /\ tab' = Commit(tab, "workspace", None, Session("local", id, TRUE), TRUE)
  /\ UNCHANGED stored

OpenRemote ==
  /\ Act /\ Room /\ tab.page = "home"
  /\ \E id \in Hosted :
       /\ Uploads(id, FALSE)
       /\ tab' = Commit(tab, "workspace", id, Session("remote", id, TRUE), TRUE)

\* A link, or the address bar: to a project or to the bare workspace.
Navigate(url) ==
  /\ Act /\ Room
  /\ tab.page = "home" \/ tab.url # url
  /\ tab' = Commit(tab, "workspace", url, tab.session, FALSE)
  /\ UNCHANGED <<stored, drawn>>

GoHome ==
  /\ Act /\ tab.page = "workspace"
  /\ tab' = Commit(tab, "home", None, tab.session, FALSE)
  /\ UNCHANGED <<stored, drawn>>

ClearSession ==
  /\ Act /\ Usable
  /\ tab' = Commit(tab, "workspace", None, NoSession, TRUE)
  /\ UNCHANGED <<stored, drawn>>

\* runAction: the memo first; in the tab at once; the held snapshot; or a request.
RunOperation(op) ==
  /\ Act /\ Room /\ Usable /\ ~Busy /\ ~Remembers(tab, tab.session, op)
  /\ LET s    == tab.session
         call == [op |-> op, session |-> s, mounted |-> TRUE, fresh |-> op = "Snapshot"]
     IN  tab' = IF s.mode = "local" THEN Remember(tab, s, {op}, Key(s))
                ELSE IF op = "Snapshot" THEN [tab EXCEPT !.ops = @ \cup {call}]
                ELSE IF Backs(tab, s)
                THEN [Remember(tab, s, {op}, tab.hold) EXCEPT !.banner = FALSE]
                ELSE Hydrate(tab, s.id, FALSE, {call})
  /\ UNCHANGED <<stored, drawn>>

Job(kind, s) == [kind |-> kind, session |-> s, mounted |-> TRUE]

\* applyConfigOverride, for Reprocess, Clear override and Re-upload active zip: a local
\* session is rebuilt, a hosted project is deleted, then uploaded anew.
Override ==
  /\ Act /\ Usable /\ ~Busy /\ tab.session.zip
  /\ LET kind == IF tab.session.mode = "local" THEN "rebuild" ELSE "replace"
     IN  tab' = [ClearHold(ClearMemo(tab)) EXCEPT !.jobs = @ \cup {Job(kind, tab.session)}]
  /\ UNCHANGED <<stored, drawn>>

\* Share of a local session, unless it only copies the link.
Share ==
  /\ Act /\ Usable /\ ~Busy /\ tab.session.mode = "local"
  /\ tab' = [tab EXCEPT !.jobs = @ \cup {Job("share", tab.session)}]
  /\ UNCHANGED <<stored, drawn>>

Delete ==
  /\ Act /\ Usable /\ ~Busy
  /\ tab.session.mode = "remote" \/ tab.session.share # None
  /\ tab' = [tab EXCEPT !.jobs = @ \cup {Job("delete", tab.session)}]
  /\ UNCHANGED <<stored, drawn>>

\* The configuration text is edited: some time later the memo is emptied.
EditConfig ==
  /\ Act /\ Usable /\ tab.memo # {}
  /\ tab' = ClearMemo(tab)
  /\ UNCHANGED <<stored, drawn>>

Dismiss ==
  /\ Act /\ Usable /\ tab.banner /\ ~Busy
  /\ tab' = [tab EXCEPT !.banner = FALSE]
  /\ UNCHANGED <<stored, drawn>>

-----------------------------------------------------------------------------
(***************************************************************************)
(* The worker                                                              *)
(***************************************************************************)
Evict ==
  /\ Act /\ \E id \in stored : stored' = stored \ {id}
  /\ UNCHANGED <<tab, drawn>>

\* GET metadata of the shared project.
Opens ==
  /\ Room /\ tab.asked \in stored
  /\ tab' = Become([tab EXCEPT !.asked = None, !.opening = FALSE],
                   Session("remote", tab.asked, FALSE))
  /\ UNCHANGED <<stored, drawn, acts>>

\* Not found, or no answer.
OpenFails ==
  /\ tab.asked # None
  /\ tab' = [ClearHold(tab) EXCEPT !.asked = None, !.opening = FALSE, !.issue = TRUE]
  /\ UNCHANGED <<stored, drawn, acts>>

\* Mutant: a snapshot is applied whatever happened since it was asked for.
AppliesAnyway(g) == TRUE

\* A snapshot is applied only in the epoch it was asked for.
Applies(g) == g.fresh

\* runAction, for every operation that awaited the request: the held snapshot answers.
Answer(t, ws) ==
  [t EXCEPT !.memo = {m \in @ : \A w \in ws : m.key # Key(w.session) \/ m.op # w.op}
                       \cup {[key |-> Key(w.session), op |-> w.op, of |-> t.hold] : w \in ws},
            !.banner = @ /\ \A w \in ws : ~w.mounted]

\* Mutant: an answer of an older epoch does not end the loading screen either.
AwakeInEpoch(t, g, ok) ==
  LET screen == IF g.loading /\ g.fresh
                THEN [t EXCEPT !.hydrating = FALSE, !.banner = @ \/ ~ok] ELSE t
  IN  IF Backs(screen, Hosting(g.id))
      THEN Answer(screen, g.waiters)
      ELSE [screen EXCEPT !.ops = @ \cup g.waiters]

\* What awaited the request goes on: the loading screen ends, or tells that the project is
\* missing; an operation is answered from the hold or sends its own request.
Awake(t, g, ok) ==
  LET screen == IF g.loading THEN [t EXCEPT !.hydrating = FALSE, !.banner = @ \/ ~ok] ELSE t
  IN  IF Backs(screen, Hosting(g.id))
      THEN Answer(screen, g.waiters)
      ELSE [screen EXCEPT !.ops = @ \cup g.waiters]

\* GET snapshot settles. The last thing it does, in any epoch, is to drop hydrateP.
GetSettles(i, found) ==
  LET g    == tab.gets[i]
      done == [tab EXCEPT !.gets =
                 [k \in 1 .. Len(tab.gets) - 1 |->
                    [tab.gets[IF k < i THEN k ELSE k + 1] EXCEPT !.joinable = FALSE]]]
  IN  /\ found => g.id \in stored
      /\ tab' = Awake(IF ~Applies(g) THEN done
                      ELSE IF found THEN ApplyEnv(done, g.id)
                      ELSE [done EXCEPT !.hold = Key(NoSession)], g, found /\ Applies(g))
      /\ UNCHANGED <<stored, drawn, acts>>

\* The answer to an operation: it is remembered for the session that asked, and that of
\* Snapshot replaces what is held.
OperationAnswered(o) ==
  LET done == [tab EXCEPT !.ops = @ \ {o}, !.banner = @ /\ ~o.mounted]
  IN  /\ o.session.id \in stored
      /\ tab' = Remember(IF o.fresh THEN ApplyEnv(done, o.session.id) ELSE done,
                         o.session, {o.op}, Hosting(o.session.id))
      /\ UNCHANGED <<stored, drawn, acts>>

\* The project is not found, or the request fails otherwise.
OperationFails(o, missing) ==
  LET done == [tab EXCEPT !.ops = @ \ {o}]
      told == [done EXCEPT !.banner = @ \/ o.mounted]
  IN  /\ missing => o.session.id \notin stored
      /\ tab' = IF ~missing THEN done ELSE IF o.session.zip THEN told ELSE ClearHold(told)
      /\ UNCHANGED <<stored, drawn, acts>>

WithoutJob(j) == [tab EXCEPT !.jobs = @ \ {j}]

Rebuilt(j) ==
  /\ j.kind = "rebuild" /\ Room
  /\ \E id \in Locals :
       /\ Builds(id)
       /\ tab' = Become(WithoutJob(j), Session("local", id, TRUE))
  /\ UNCHANGED <<stored, acts>>

\* Whether or not the old row was deleted, the upload follows.
Replaced(j) ==
  /\ j.kind = "replace"
  /\ tab' = [WithoutJob(j) EXCEPT !.jobs = @ \cup {[j EXCEPT !.kind = "reupload"]}]
  /\ \E gone \in SUBSET {j.session.id} : stored' = stored \ gone
  /\ UNCHANGED <<drawn, acts>>

Reuploaded(j) ==
  /\ j.kind = "reupload" /\ Room
  /\ \E id \in Hosted :
       /\ Uploads(id, TRUE)
       /\ tab' = Become(WithoutJob(j), Session("remote", id, TRUE))
  /\ UNCHANGED acts

\* The session that Share was clicked in comes back, bound to its row.
Shared(j) ==
  /\ j.kind = "share" /\ Room
  /\ \E id \in Hosted :
       /\ Uploads(id, FALSE)
       /\ tab' = Become(WithoutJob(j), [j.session EXCEPT !.share = id])
  /\ UNCHANGED acts

Deleted(j) ==
  LET row == IF j.session.mode = "remote" THEN j.session.id ELSE j.session.share
  IN  /\ j.kind = "delete" /\ Room /\ row \in stored
      /\ stored' = stored \ {row}
      /\ tab' = IF j.session.mode = "remote"
                THEN Commit(WithoutJob(j), "home", None, NoSession, TRUE)
                ELSE Commit(WithoutJob(j), "workspace", None,
                            [j.session EXCEPT !.share = None], TRUE)
      /\ UNCHANGED <<drawn, acts>>

\* A message tells the user, nothing else changes.
JobFails(j) ==
  /\ j.kind # "replace"
  /\ tab' = WithoutJob(j)
  /\ UNCHANGED <<stored, drawn, acts>>

-----------------------------------------------------------------------------
User ==
  \/ OpenLocal \/ OpenRemote \/ GoHome \/ ClearSession
  \/ \E url \in Hosted \cup {None} : Navigate(url)
  \/ \E op \in Operations : RunOperation(op)
  \/ Override \/ Share \/ Delete \/ EditConfig \/ Dismiss

OpenSettles == Opens \/ OpenFails
HydrateSettles == \E i \in DOMAIN tab.gets : \E found \in BOOLEAN : GetSettles(i, found)
OperationSettles ==
  \E o \in tab.ops : OperationAnswered(o) \/ \E missing \in BOOLEAN : OperationFails(o, missing)
JobSettles ==
  \E j \in tab.jobs :
    Rebuilt(j) \/ Replaced(j) \/ Reuploaded(j) \/ Shared(j) \/ Deleted(j) \/ JobFails(j)

Next == User \/ Evict \/ OpenSettles \/ HydrateSettles \/ OperationSettles \/ JobSettles

Spec == Init /\ [][Next]_vars

\* Every fetch settles (the browser answers or gives up), and its callback then runs.
Fairness == WF_vars(OpenSettles) /\ WF_vars(HydrateSettles)
FairSpec == Spec /\ Fairness

-----------------------------------------------------------------------------
\* Whatever requests of earlier sessions come back, in whatever order, what the tab holds
\* is the snapshot of the session it shows (snapHold.ts, epoch: "Bumped in clearSnapHold so
\* stale GET /snapshot cannot apply after session switch"), and an answer that is remembered
\* for a project was computed from that project.
HeldIsTrue ==
  /\ tab.seen # Key(NoSession) => tab.hold \in {tab.seen, Key(NoSession)}
  /\ \A m \in tab.memo : m.of = m.key

\* While the address names a shared project, the controls act on that project and on no
\* other: what a reload, or the copied address, would open is what is on the screen.
UrlIsShown == Usable /\ tab.url # None => Key(tab.session) = Hosting(tab.url)

\* The loading screens end: whatever was opened, replaced or left while a request was on
\* its way, the user is not left waiting for an answer that nobody will deliver.
LoadingEnds == []<>~Loading
=============================================================================
