------------------------ MODULE WebWorkspace_proofs ------------------------
(* Proofs about WebWorkspace: what the tab holds is of the session it shows *)
(* and the controls act on the project that the address names, for any      *)
(* number of projects, operations, acts and requests on their way. The      *)
(* invariant is about the tab alone: what the operations on the tab do to   *)
(* it is proved of each, then of the commit and of the steps.               *)
EXTENDS WebWorkspace, FiniteSetTheorems, TLAPS

Modes == {"none", "local", "remote"}
Nothing == Key(NoSession)
TabKeys == [mode : Modes, id : Nat]
Real == [mode : {"local", "remote"}, id : Nat, zip : BOOLEAN, share : Nat]
Sessions == Real \cup {NoSession}
Calls == [op : Operations, session : Real, mounted : BOOLEAN, fresh : BOOLEAN]
Gets == [id : Nat, fresh : BOOLEAN, joinable : BOOLEAN, loading : BOOLEAN, waiters : SUBSET Calls]
Kinds == {"rebuild", "replace", "reupload", "share", "delete"}
Jobs == [kind : Kinds, session : Real, mounted : BOOLEAN]
Answers == [key : TabKeys, op : Operations, of : TabKeys]
Tab ==
  [page : {"home", "workspace"}, url : Nat, session : Sessions, asked : Nat, opening : BOOLEAN,
   issue : BOOLEAN, seen : TabKeys, hydrating : BOOLEAN, banner : BOOLEAN, hold : TabKeys,
   memo : SUBSET Answers, gets : Seq(Gets), ops : SUBSET Calls, jobs : SUBSET Jobs]

\* What waits for a request asks about its project, and requests are of hosted projects.
WaitersSound(g) == \A w \in g.waiters : Key(w.session) = Hosting(g.id) /\ w.fresh = FALSE
Loose(t) ==
  /\ t \in Tab
  /\ \A m \in t.memo : m.of = m.key
  /\ \A i \in DOMAIN t.gets : WaitersSound(t.gets[i])
  /\ \A o \in t.ops : o.session.mode = "remote"

\* What is held, and every request that may still be applied, is of the session that the
\* second effect last ran for.
Current(t) ==
  t.seen # Nothing =>
    /\ t.hold \in {t.seen, Nothing}
    /\ \A i \in DOMAIN t.gets : t.gets[i].fresh = TRUE => Hosting(t.gets[i].id) = t.seen
    /\ \A o \in t.ops : o.fresh = TRUE => Key(o.session) = t.seen
Sound(t) == Loose(t) /\ Current(t)

\* The page follows the session it shows, and a shown address is opened, or about to be.
Follows(t) == t.page = "workspace" /\ t.session # NoSession => t.seen = Key(t.session)
Shows(t) ==
  t.page = "workspace" /\ t.url # None =>
    \/ t.opening = TRUE \/ t.issue = TRUE \/ t.session = NoSession
    \/ Key(t.session) = Hosting(t.url)
Good(t) == Sound(t) /\ Follows(t) /\ Shows(t)
TabIsGood == Good(tab)

\* The fields that only a commit and the opening of a project change.
Frame(t, u) ==
  /\ u.page = t.page /\ u.url = t.url /\ u.session = t.session /\ u.seen = t.seen
  /\ u.opening = t.opening /\ u.issue = t.issue

LEMMA HostedAreIds == Hosted \subseteq Nat /\ Locals \subseteq Nat
<1>1. Cardinality(Hosted) \in Nat /\ Cardinality(Locals) \in Nat
  BY WebWorkspaceAssumption, FS_CardinalityType
<1>2. Hosted = 1 .. Cardinality(Hosted) /\ Locals = 1 .. Cardinality(Locals)
  BY WebWorkspaceAssumption
<1> QED
  BY <1>1, <1>2

LEMMA KeysAre ==
    /\ Nothing \in TabKeys /\ NoSession.mode = "none"
    /\ \A id \in Nat : /\ Hosting(id) \in TabKeys /\ Hosting(id) # Nothing
                       /\ Key(Hosting(id)) = Hosting(id)
    /\ \A s \in Sessions : Key(s) \in TabKeys /\ (Key(s) = Nothing <=> s = NoSession)
    /\ \A s \in Real : s # NoSession /\ (s.mode = "remote" => Key(s) = Hosting(s.id))
                       /\ (\A id \in Nat : Key(s) = Hosting(id) => s.mode = "remote" /\ s.id = id)
<1>1. NoSession.mode = "none" /\ NoSession.id = 0
  BY DEF NoSession, Session, None
<1>2. Nothing = [mode |-> "none", id |-> 0]
  BY <1>1 DEF Nothing, Key
<1>3. Nothing \in TabKeys
  BY <1>2 DEF TabKeys, Modes
<1>4. ASSUME NEW id \in Nat
      PROVE  Hosting(id) \in TabKeys /\ Hosting(id) # Nothing /\ Key(Hosting(id)) = Hosting(id)
  BY <1>2 DEF Hosting, TabKeys, Modes, Key
<1>5. ASSUME NEW s \in Real
      PROVE  /\ s # NoSession /\ Key(s) \in TabKeys /\ Key(s) # Nothing
             /\ (s.mode = "remote" => Key(s) = Hosting(s.id))
             /\ (\A id \in Nat : Key(s) = Hosting(id) => s.mode = "remote" /\ s.id = id)
  BY <1>1, <1>2 DEF Real, Key, TabKeys, Modes, Hosting
<1> QED
  BY <1>1, <1>3, <1>4, <1>5 DEF Sessions, Nothing

LEMMA TabFields ==
    ASSUME NEW t \in Tab
    PROVE  /\ t.page \in {"home", "workspace"} /\ t.url \in Nat /\ t.session \in Sessions
           /\ t.asked \in Nat /\ t.opening \in BOOLEAN /\ t.issue \in BOOLEAN /\ t.seen \in TabKeys
           /\ t.hydrating \in BOOLEAN /\ t.banner \in BOOLEAN /\ t.hold \in TabKeys
           /\ t.memo \in SUBSET Answers /\ t.gets \in Seq(Gets) /\ t.ops \in SUBSET Calls
           /\ t.jobs \in SUBSET Jobs
BY DEF Tab

(* The requests of a tab, mapped or extended.                               *)
LEMMA GetsAre ==
    ASSUME NEW s \in Seq(Gets)
    PROVE  /\ Len(s) \in Nat /\ DOMAIN s = 1 .. Len(s) /\ \A i \in DOMAIN s : s[i] \in Gets
           /\ \A f \in [DOMAIN s -> Gets] : f \in Seq(Gets) /\ DOMAIN f = DOMAIN s
           /\ \A g \in Gets : /\ Append(s, g) \in Seq(Gets)
                              /\ \A i \in DOMAIN Append(s, g) :
                                   (i \in DOMAIN s /\ Append(s, g)[i] = s[i]) \/ Append(s, g)[i] = g
<1>1. Len(s) \in Nat /\ DOMAIN s = 1 .. Len(s) /\ \A i \in DOMAIN s : s[i] \in Gets
  OBVIOUS
<1>2. ASSUME NEW f \in [DOMAIN s -> Gets] PROVE f \in Seq(Gets) /\ DOMAIN f = DOMAIN s
  BY <1>1
<1>3. ASSUME NEW g \in Gets
      PROVE  /\ Append(s, g) \in Seq(Gets)
             /\ \A i \in DOMAIN Append(s, g) :
                  (i \in DOMAIN s /\ Append(s, g)[i] = s[i]) \/ Append(s, g)[i] = g
  BY <1>1
<1> QED
  BY <1>1, <1>2, <1>3

LEMMA ClearMemoIs ==
    ASSUME NEW t, Loose(t)
    PROVE  Loose(ClearMemo(t)) /\ (Current(t) => Current(ClearMemo(t))) /\ Frame(t, ClearMemo(t))
<1>1. PICK u : u = ClearMemo(t)
  OBVIOUS
<1>2. t \in Tab
  BY DEF Loose
<1>3. u \in Tab /\ u.memo = {} /\ u.gets = t.gets /\ u.ops = t.ops /\ u.hold = t.hold /\ Frame(t, u)
  BY <1>1, <1>2 DEF ClearMemo, Tab, Frame
<1> QED
  BY <1>1, <1>3 DEF Loose, Current, Frame

LEMMA ClearHoldIs ==
    ASSUME NEW t, Loose(t)
    PROVE  Sound(ClearHold(t)) /\ Frame(t, ClearHold(t))
<1>1. PICK u : u = ClearHold(t)
  OBVIOUS
<1>2. t \in Tab
  BY DEF Loose
<1>3. PICK gets : gets = [i \in DOMAIN t.gets |-> [t.gets[i] EXCEPT !.fresh = FALSE, !.joinable = FALSE]]
  OBVIOUS
<1>4. PICK ops : ops = {[o EXCEPT !.fresh = FALSE] : o \in t.ops}
  OBVIOUS
<1>5. gets \in Seq(Gets) /\ DOMAIN gets = DOMAIN t.gets
      /\ \A i \in DOMAIN gets : gets[i].fresh = FALSE /\ gets[i].id = t.gets[i].id
                                /\ gets[i].waiters = t.gets[i].waiters
  <2>1. \A i \in DOMAIN t.gets : t.gets[i] \in Gets
    BY <1>2, TabFields, GetsAre
  <2>2. \A i \in DOMAIN t.gets :
          LET g == [t.gets[i] EXCEPT !.fresh = FALSE, !.joinable = FALSE]
          IN  g \in Gets /\ g.fresh = FALSE /\ g.id = t.gets[i].id /\ g.waiters = t.gets[i].waiters
    BY <2>1 DEF Gets
  <2>3. gets \in [DOMAIN t.gets -> Gets]
    BY <1>3, <2>2
  <2> QED
    BY <1>2, <1>3, <2>2, <2>3, TabFields, GetsAre
<1>6. ops \in SUBSET Calls /\ \A o \in ops : o.fresh = FALSE /\ o.session.mode = "remote"
  <2>1. \A o \in t.ops : o \in Calls /\ o.session.mode = "remote"
    BY <1>2, TabFields DEF Loose
  <2>2. \A o \in t.ops : LET c == [o EXCEPT !.fresh = FALSE]
                         IN  c \in Calls /\ c.fresh = FALSE /\ c.session.mode = "remote"
    BY <2>1 DEF Calls
  <2> QED
    BY <1>4, <2>2
<1>7. u = [t EXCEPT !.hold = Nothing, !.gets = gets, !.ops = ops]
  BY <1>1, <1>3, <1>4 DEF ClearHold, Nothing
<1>8. u \in Tab /\ u.memo = t.memo /\ u.gets = gets /\ u.ops = ops /\ u.hold = Nothing /\ Frame(t, u)
  BY <1>2, <1>5, <1>6, <1>7, KeysAre DEF Tab, Frame
<1> QED
  BY <1>1, <1>5, <1>6, <1>8 DEF Sound, Loose, Current, WaitersSound

LEMMA RememberIs ==
    ASSUME NEW t, Loose(t), NEW s, Key(s) \in TabKeys, NEW ops \in SUBSET Operations, NEW of, of = Key(s)
    PROVE  /\ Loose(Remember(t, s, ops, of)) /\ (Current(t) => Current(Remember(t, s, ops, of)))
           /\ Frame(t, Remember(t, s, ops, of))
<1>1. PICK u : u = Remember(t, s, ops, of)
  OBVIOUS
<1>2. t \in Tab
  BY DEF Loose
<1>3. PICK memo : memo = {m \in t.memo : m.key # Key(s) \/ m.op \notin ops}
                            \cup {[key |-> Key(s), op |-> op, of |-> of] : op \in ops}
  OBVIOUS
<1>4. memo \in SUBSET Answers /\ \A m \in memo : m.of = m.key
  BY <1>2, <1>3, TabFields DEF Answers, Loose
<1>5. u = [t EXCEPT !.memo = memo]
  BY <1>1, <1>3 DEF Remember
<1>6. u \in Tab /\ u.memo = memo /\ u.gets = t.gets /\ u.ops = t.ops /\ u.hold = t.hold /\ Frame(t, u)
  BY <1>2, <1>4, <1>5 DEF Tab, Frame
<1> QED
  BY <1>1, <1>4, <1>6 DEF Loose, Current, Frame

LEMMA ApplyEnvIs ==
    ASSUME NEW t, Sound(t), NEW id \in Nat, t.seen \in {Hosting(id), Nothing}
    PROVE  Sound(ApplyEnv(t, id)) /\ Frame(t, ApplyEnv(t, id))
<1>1. t \in Tab /\ Key(Hosting(id)) = Hosting(id) /\ Hosting(id) \in TabKeys
  BY KeysAre DEF Sound, Loose
<1>2. PICK v : v = [t EXCEPT !.hold = Hosting(id)]
  OBVIOUS
<1>3. v \in Tab /\ v.memo = t.memo /\ v.gets = t.gets /\ v.ops = t.ops /\ v.hold = Hosting(id) /\ Frame(t, v)
  BY <1>1, <1>2 DEF Tab, Frame
<1>4. Loose(v) /\ Current(v)
  BY <1>3 DEF Sound, Loose, Current, Frame
<1>5. Seeded \in SUBSET Operations
  BY WebWorkspaceAssumption
<1>6. ApplyEnv(t, id) = Remember(v, Hosting(id), Seeded, Hosting(id))
  BY <1>2 DEF ApplyEnv
<1>7. PICK u : u = Remember(v, Hosting(id), Seeded, Hosting(id))
  OBVIOUS
<1>8. Loose(u) /\ Current(u) /\ Frame(v, u)
  BY <1>1, <1>4, <1>5, <1>7, RememberIs
<1> QED
  BY <1>3, <1>6, <1>7, <1>8 DEF Sound, Frame

LEMMA HydrateIs ==
    ASSUME NEW t, Loose(t), NEW id \in Nat, NEW loading \in BOOLEAN, NEW waiters \in SUBSET Calls,
           \A w \in waiters : Key(w.session) = Hosting(id) /\ w.fresh = FALSE
    PROVE  LET u == Hydrate(t, id, loading, waiters)
           IN  /\ Loose(u) /\ Frame(t, u)
               /\ Current(t) /\ t.seen \in {Hosting(id), Nothing} => Current(u)
<1> DEFINE Joins(g) == g.joinable /\ g.id = id
<1>1. PICK u : u = Hydrate(t, id, loading, waiters)
  OBVIOUS
<1>2. t \in Tab /\ t.gets \in Seq(Gets)
  BY TabFields DEF Loose
<1>3. \A i \in DOMAIN t.gets : t.gets[i] \in Gets
  BY <1>2, GetsAre
<1>4. PICK gets :
        gets = IF \E i \in DOMAIN t.gets : Joins(t.gets[i])
               THEN [i \in DOMAIN t.gets |->
                       IF Joins(t.gets[i])
                       THEN [t.gets[i] EXCEPT !.loading = @ \/ loading, !.waiters = @ \cup waiters]
                       ELSE t.gets[i]]
               ELSE Append([i \in DOMAIN t.gets |-> [t.gets[i] EXCEPT !.joinable = FALSE]],
                           [id |-> id, fresh |-> TRUE, joinable |-> TRUE,
                            loading |-> loading, waiters |-> waiters])
  OBVIOUS
<1>5. u = [t EXCEPT !.gets = gets]
  BY <1>1, <1>4, Zenon DEF Hydrate, Requested
<1>6. /\ gets \in Seq(Gets) /\ \A i \in DOMAIN gets : WaitersSound(gets[i])
      /\ \A i \in DOMAIN gets :
           \/ gets[i].id = id
           \/ i \in DOMAIN t.gets /\ gets[i].fresh = t.gets[i].fresh /\ gets[i].id = t.gets[i].id
  <2>1. CASE \E i \in DOMAIN t.gets : Joins(t.gets[i])
    <3>1. gets = [i \in DOMAIN t.gets |->
                    IF Joins(t.gets[i])
                    THEN [t.gets[i] EXCEPT !.loading = @ \/ loading, !.waiters = @ \cup waiters]
                    ELSE t.gets[i]]
      BY <1>4, <2>1
    <3>2. ASSUME NEW i \in DOMAIN t.gets
          PROVE  /\ gets[i] \in Gets /\ WaitersSound(gets[i])
                 /\ gets[i].fresh = t.gets[i].fresh /\ gets[i].id = t.gets[i].id
      <4>1. WaitersSound(t.gets[i]) /\ t.gets[i] \in Gets
        BY <1>3 DEF Loose
      <4>2. CASE Joins(t.gets[i])
        <5>1. PICK more : more = (t.gets[i].loading \/ loading)
          OBVIOUS
        <5>2. more \in BOOLEAN
          BY <5>1
        <5>3. gets[i] = [t.gets[i] EXCEPT !.loading = more, !.waiters = t.gets[i].waiters \cup waiters]
          BY <3>1, <4>2, <5>1
        <5>4. t.gets[i].id = id /\ t.gets[i].waiters \cup waiters \in SUBSET Calls
          BY <4>1, <4>2 DEF Gets
        <5>5. gets[i] \in Gets /\ gets[i].id = id /\ gets[i].fresh = t.gets[i].fresh
              /\ gets[i].waiters = t.gets[i].waiters \cup waiters
          BY <4>1, <5>2, <5>3, <5>4 DEF Gets
        <5> QED
          BY <4>1, <5>4, <5>5 DEF WaitersSound
      <4>3. CASE ~Joins(t.gets[i])
        BY <3>1, <4>1, <4>3
      <4> QED
        BY <4>2, <4>3
    <3>3. gets \in [DOMAIN t.gets -> Gets]
      BY <3>1, <3>2
    <3>4. gets \in Seq(Gets) /\ DOMAIN gets = DOMAIN t.gets
      BY <1>2, <3>3, GetsAre
    <3> QED
      BY <3>2, <3>4
  <2>2. CASE ~\E i \in DOMAIN t.gets : Joins(t.gets[i])
    <3>1. PICK old : old = [i \in DOMAIN t.gets |-> [t.gets[i] EXCEPT !.joinable = FALSE]]
      OBVIOUS
    <3>2. PICK g : g = [id |-> id, fresh |-> TRUE, joinable |-> TRUE, loading |-> loading,
                        waiters |-> waiters]
      OBVIOUS
    <3>3. gets = Append(old, g)
      BY <1>4, <2>2, <3>1, <3>2
    <3>4. g \in Gets /\ WaitersSound(g) /\ g.id = id
      BY <3>2 DEF Gets, WaitersSound
    <3>5. ASSUME NEW i \in DOMAIN t.gets
          PROVE  /\ old[i] \in Gets /\ WaitersSound(old[i])
                 /\ old[i].fresh = t.gets[i].fresh /\ old[i].id = t.gets[i].id
      BY <1>3, <3>1 DEF Gets, WaitersSound, Loose
    <3>6. old \in [DOMAIN t.gets -> Gets]
      BY <3>1, <3>5
    <3>7. old \in Seq(Gets) /\ DOMAIN old = DOMAIN t.gets
      BY <1>2, <3>6, GetsAre
    <3>8. gets \in Seq(Gets) /\ \A i \in DOMAIN gets : (i \in DOMAIN old /\ gets[i] = old[i]) \/ gets[i] = g
      BY <3>3, <3>4, <3>7, GetsAre
    <3> QED
      BY <3>4, <3>5, <3>7, <3>8
  <2> QED
    BY <2>1, <2>2
<1>7. u \in Tab /\ u.memo = t.memo /\ u.gets = gets /\ u.ops = t.ops /\ u.hold = t.hold /\ Frame(t, u)
  BY <1>2, <1>5, <1>6 DEF Tab, Frame
<1>8. Loose(u)
  BY <1>6, <1>7 DEF Loose
<1>9. Current(t) /\ t.seen \in {Hosting(id), Nothing} => Current(u)
  BY <1>6, <1>7 DEF Current, Frame
<1> QED
  BY <1>1, <1>7, <1>8, <1>9

-----------------------------------------------------------------------------
(***************************************************************************)
(* The commit and its effects.                                             *)
(***************************************************************************)
LEMMA OpenEffectIs ==
    ASSUME NEW t, Sound(t)
    PROVE  LET u == OpenEffect(t)
           IN  /\ Sound(u) /\ Shows(u)
               /\ u.page = t.page /\ u.url = t.url /\ u.session = t.session /\ u.seen = t.seen
<1>1. PICK u : u = OpenEffect(t)
  OBVIOUS
<1>2. t \in Tab
  BY DEF Sound, Loose
<1>3. PICK asked, opening : asked \in {None, t.url} /\ opening \in BOOLEAN
        /\ u = [t EXCEPT !.asked = asked, !.opening = opening, !.issue = FALSE]
        /\ (opening = TRUE \/ t.url = None \/ Key(t.session) = Hosting(t.url))
  BY <1>1 DEF OpenEffect
<1>4. /\ u \in Tab /\ u.page = t.page /\ u.url = t.url /\ u.session = t.session /\ u.seen = t.seen
      /\ u.opening = opening /\ u.memo = t.memo /\ u.gets = t.gets /\ u.ops = t.ops /\ u.hold = t.hold
  <2>1. asked \in Nat
    BY <1>2, <1>3, TabFields DEF None
  <2>2. PICK v : v = [t EXCEPT !.asked = asked, !.opening = opening, !.issue = FALSE]
    OBVIOUS
  <2>3. /\ v \in Tab /\ v.page = t.page /\ v.url = t.url /\ v.session = t.session /\ v.seen = t.seen
        /\ v.opening = opening /\ v.memo = t.memo /\ v.gets = t.gets /\ v.ops = t.ops /\ v.hold = t.hold
    BY <2>1, <2>2, <1>2, <1>3 DEF Tab
  <2> QED
    BY <2>2, <2>3, <1>3
<1>5. Sound(u)
  BY <1>4 DEF Sound, Loose, Current
<1>6. Shows(u)
  BY <1>3, <1>4 DEF Shows
<1> QED
  BY <1>1, <1>4, <1>5, <1>6

LEMMA SessionEffectIs ==
    ASSUME NEW t, Sound(t)
    PROVE  LET u == SessionEffect(t)
           IN  /\ Sound(u) /\ u.seen = Key(t.session)
               /\ u.page = t.page /\ u.url = t.url /\ u.session = t.session
               /\ u.opening = t.opening /\ u.issue = t.issue
<1>1. PICK u : u = SessionEffect(t)
  OBVIOUS
<1>2. t \in Tab /\ Loose(t) /\ Current(t) /\ t.session \in Sessions
  BY TabFields DEF Sound, Loose
<1>3. PICK seen : seen = [t EXCEPT !.seen = Key(t.session)]
  OBVIOUS
<1>4. /\ seen \in Tab /\ seen.seen = Key(t.session) /\ seen.page = t.page /\ seen.url = t.url
      /\ seen.session = t.session /\ seen.opening = t.opening /\ seen.issue = t.issue
      /\ seen.memo = t.memo /\ seen.gets = t.gets /\ seen.ops = t.ops /\ seen.hold = t.hold
  BY <1>2, <1>3, KeysAre DEF Tab
<1>5. Loose(seen)
  BY <1>2, <1>4 DEF Loose
<1>6. CASE t.session = NoSession \/ Key(t.session) = t.seen
  <2>1. u = seen
    BY <1>1, <1>3, <1>6 DEF SessionEffect
  <2>2. Current(seen)
    BY <1>2, <1>4, <1>6 DEF Current, Nothing
  <2> QED
    BY <1>1, <1>4, <1>5, <2>1, <2>2 DEF Sound
<1>7. CASE ~(t.session = NoSession \/ Key(t.session) = t.seen)
  <2>1. PICK v : v = [seen EXCEPT !.banner = FALSE, !.hydrating = FALSE]
    OBVIOUS
  <2>2. /\ v \in Tab /\ Frame(seen, v)
        /\ v.memo = seen.memo /\ v.gets = seen.gets /\ v.ops = seen.ops /\ v.hold = seen.hold
    BY <1>4, <2>1 DEF Tab, Frame
  <2>3. Loose(v)
    BY <1>5, <2>2 DEF Loose
  <2>4. PICK m : m = ClearMemo(v)
    OBVIOUS
  <2>5. Loose(m) /\ Frame(v, m)
    BY <2>3, <2>4, ClearMemoIs
  <2>6. PICK new : new = ClearHold(m)
    OBVIOUS
  <2>7. Sound(new) /\ Frame(m, new)
    BY <2>5, <2>6, ClearHoldIs
  <2>8. u = IF t.session.mode = "local" THEN new
            ELSE Hydrate([new EXCEPT !.hydrating = TRUE], t.session.id, TRUE, {})
    BY <1>1, <1>3, <1>7, <2>1, <2>4, <2>6 DEF SessionEffect
  <2>9. CASE t.session.mode = "local"
    BY <1>1, <1>4, <2>2, <2>5, <2>7, <2>8, <2>9 DEF Frame
  <2>10. CASE t.session.mode # "local"
    <3>1. t.session \in Real
      BY <1>2, <1>7 DEF Sessions
    <3>2. t.session.id \in Nat /\ Key(t.session) = Hosting(t.session.id)
      BY <2>10, <3>1, KeysAre DEF Real
    <3>3. PICK w : w = [new EXCEPT !.hydrating = TRUE]
      OBVIOUS
    <3>4. /\ w \in Tab /\ Frame(new, w)
          /\ w.memo = new.memo /\ w.gets = new.gets /\ w.ops = new.ops /\ w.hold = new.hold
      BY <2>7, <3>3 DEF Sound, Loose, Tab, Frame
    <3>5. Loose(w) /\ Current(w)
      BY <2>7, <3>4 DEF Sound, Loose, Current, Frame
    <3>6. w.seen = Hosting(t.session.id)
      BY <1>4, <2>2, <2>5, <2>7, <3>2, <3>4 DEF Frame
    <3>7. u = Hydrate(w, t.session.id, TRUE, {})
      BY <2>8, <2>10, <3>3
    <3>8. Loose(u) /\ Current(u) /\ Frame(w, u)
      BY <3>2, <3>5, <3>6, <3>7, HydrateIs
    <3> QED
      BY <1>1, <1>4, <2>2, <2>5, <2>7, <3>4, <3>8 DEF Frame, Sound
  <2> QED
    BY <2>9, <2>10
<1> QED
  BY <1>6, <1>7

LEMMA UnmountIs ==
    ASSUME NEW t, Sound(t)
    PROVE  Sound(Unmount(t)) /\ Unmount(t).page = t.page /\ Unmount(t).seen = Nothing
<1>1. PICK u : u = Unmount(t)
  OBVIOUS
<1>2. t \in Tab /\ Loose(t)
  BY DEF Sound, Loose
<1>3. PICK gets : gets = [i \in DOMAIN t.gets |->
                            [t.gets[i] EXCEPT !.loading = FALSE,
                                              !.waiters = {[w EXCEPT !.mounted = FALSE] : w \in @}]]
  OBVIOUS
<1>4. gets \in Seq(Gets) /\ \A i \in DOMAIN gets : WaitersSound(gets[i])
  <2>1. ASSUME NEW i \in DOMAIN t.gets
        PROVE  gets[i] \in Gets /\ WaitersSound(gets[i])
    <3>1. t.gets[i] \in Gets /\ WaitersSound(t.gets[i])
      BY <1>2, TabFields, GetsAre DEF Loose
    <3>2. PICK ws : ws = {[w EXCEPT !.mounted = FALSE] : w \in t.gets[i].waiters}
      OBVIOUS
    <3>3. \A w \in t.gets[i].waiters :
            LET c == [w EXCEPT !.mounted = FALSE]
            IN  c \in Calls /\ c.session = w.session /\ c.fresh = w.fresh
      BY <3>1 DEF Gets, Calls
    <3>4. ws \in SUBSET Calls /\ \A c \in ws : Key(c.session) = Hosting(t.gets[i].id) /\ c.fresh = FALSE
      <4> SUFFICES ASSUME NEW w \in t.gets[i].waiters,
                          NEW c, c = [w EXCEPT !.mounted = FALSE]
                   PROVE  c \in Calls /\ Key(c.session) = Hosting(t.gets[i].id) /\ c.fresh = FALSE
        BY <3>2
      <4>1. c \in Calls /\ c.session = w.session /\ c.fresh = w.fresh
        BY <3>3
      <4> QED
        BY <4>1, <3>1 DEF WaitersSound
    <3>5. gets[i] = [t.gets[i] EXCEPT !.loading = FALSE, !.waiters = ws]
      BY <1>3, <3>2
    <3>6. gets[i] \in Gets /\ gets[i].id = t.gets[i].id /\ gets[i].waiters = ws
      BY <3>1, <3>4, <3>5 DEF Gets
    <3> QED
      BY <3>4, <3>6 DEF WaitersSound
  <2>2. gets \in [DOMAIN t.gets -> Gets]
    BY <1>3, <2>1
  <2>3. gets \in Seq(Gets) /\ DOMAIN gets = DOMAIN t.gets
    BY <1>2, <2>2, TabFields, GetsAre
  <2> QED
    BY <2>1, <2>3
<1>5. PICK ops : ops = {[o EXCEPT !.mounted = FALSE] : o \in t.ops}
  OBVIOUS
<1>6. ops \in SUBSET Calls /\ \A o \in ops : o.session.mode = "remote"
  <2>1. \A o \in t.ops : o \in Calls /\ o.session.mode = "remote"
    BY <1>2, TabFields DEF Loose
  <2>2. \A o \in t.ops : LET c == [o EXCEPT !.mounted = FALSE]
                         IN  c \in Calls /\ c.session.mode = "remote"
    BY <2>1 DEF Calls
  <2> QED
    BY <1>5, <2>2
<1>7. PICK jobs : jobs = {[j EXCEPT !.mounted = FALSE] : j \in t.jobs}
  OBVIOUS
<1>8. jobs \in SUBSET Jobs
  <2>1. \A j \in t.jobs : j \in Jobs
    BY <1>2, TabFields
  <2>2. \A j \in t.jobs : [j EXCEPT !.mounted = FALSE] \in Jobs
    BY <2>1 DEF Jobs
  <2> QED
    BY <1>7, <2>2
<1>9. u = [t EXCEPT !.asked = None, !.opening = FALSE, !.issue = FALSE,
                    !.seen = Nothing, !.hydrating = FALSE, !.banner = FALSE,
                    !.gets = gets, !.ops = ops, !.jobs = jobs]
  BY <1>1, <1>3, <1>5, <1>7, Zenon DEF Unmount, Nothing
<1>10. /\ u \in Tab /\ u.page = t.page /\ u.seen = Nothing
       /\ u.memo = t.memo /\ u.gets = gets /\ u.ops = ops
  BY <1>2, <1>4, <1>6, <1>8, <1>9, KeysAre DEF Tab, None
<1> QED
  BY <1>1, <1>2, <1>4, <1>6, <1>10 DEF Sound, Loose, Current

(* A commit leaves a good tab: when the session is a new one, from any sound*)
(* tab, otherwise from a good one.                                          *)
LEMMA CommitIs ==
    ASSUME NEW t, Sound(t), NEW page \in {"home", "workspace"}, NEW url \in Nat,
           NEW session \in Sessions, NEW touched \in BOOLEAN,
           touched = FALSE => session = t.session /\ Follows(t) /\ Shows(t)
    PROVE  Good(Commit(t, page, url, session, touched))
<1> DEFINE mounts  == t.page = "home" /\ page = "workspace"
           dropped == \/ page = "home" /\ t.page = "workspace"
                      \/ page = "workspace" /\ url = None /\ t.url # None
<1>1. t \in Tab
  BY DEF Sound, Loose
<1>2. PICK next : next = [t EXCEPT !.page = page, !.url = url, !.session = session]
  OBVIOUS
<1>3. PICK opened : opened = IF mounts \/ Reopens(t, url, touched) THEN OpenEffect(next) ELSE next
  OBVIOUS
<1>4. PICK shown : shown = IF page = "home" THEN IF t.page = "workspace" THEN Unmount(next) ELSE next
                           ELSE IF mounts \/ touched THEN SessionEffect(opened) ELSE opened
  OBVIOUS
<1>5. PICK last : last = IF dropped THEN [shown EXCEPT !.session = NoSession, !.seen = Key(NoSession)]
                         ELSE shown
  OBVIOUS
<1>6. Commit(t, page, url, session, touched) = last
  BY <1>2, <1>3, <1>4, <1>5, Zenon DEF Commit
<1>7. /\ next \in Tab /\ next.page = page /\ next.url = url /\ next.session = session
      /\ next.seen = t.seen /\ next.opening = t.opening /\ next.issue = t.issue
      /\ next.memo = t.memo /\ next.gets = t.gets /\ next.ops = t.ops /\ next.hold = t.hold
  BY <1>1, <1>2 DEF Tab
<1>8. Sound(next)
  BY <1>7 DEF Sound, Loose, Current
<1>9. /\ Sound(opened) /\ opened.page = page /\ opened.url = url
      /\ opened.session = session /\ opened.seen = t.seen
      /\ (mounts \/ Reopens(t, url, touched) => Shows(opened))
      /\ (~(mounts \/ Reopens(t, url, touched)) => opened = next)
  BY <1>3, <1>7, <1>8, OpenEffectIs
<1>10. CASE page = "home"
  <2>1. Sound(shown) /\ shown.page = "home"
    BY <1>4, <1>7, <1>8, <1>10, UnmountIs
  <2>2. Sound(last) /\ last.page = "home"
    <3>1. CASE dropped
      <4>1. last = [shown EXCEPT !.session = NoSession, !.seen = Nothing]
        BY <1>5, <3>1 DEF Nothing
      <4>2. shown \in Tab
        BY <2>1 DEF Sound, Loose
      <4>3. /\ last \in Tab /\ last.page = "home" /\ last.seen = Nothing
            /\ last.memo = shown.memo /\ last.gets = shown.gets /\ last.ops = shown.ops
        BY <2>1, <4>1, <4>2, KeysAre DEF Tab, Sessions
      <4> QED
        BY <2>1, <4>3 DEF Sound, Loose, Current
    <3>2. CASE ~dropped
      BY <1>5, <2>1, <3>2
    <3> QED
      BY <3>1, <3>2
  <2> QED
    BY <1>6, <2>2 DEF Good, Follows, Shows
<1>11. CASE page = "workspace"
  <2>1. /\ Sound(shown) /\ shown.page = page /\ shown.url = url /\ shown.session = session
        /\ shown.opening = opened.opening /\ shown.issue = opened.issue
        /\ (mounts \/ touched => shown.seen = Key(session))
        /\ (~(mounts \/ touched) => shown = opened)
    BY <1>4, <1>9, <1>11, SessionEffectIs
  <2>2. CASE dropped
    <3>1. last = [shown EXCEPT !.session = NoSession, !.seen = Nothing]
      BY <1>5, <2>2 DEF Nothing
    <3>2. shown \in Tab
      BY <2>1 DEF Sound, Loose
    <3>3. /\ last \in Tab /\ last.session = NoSession /\ last.seen = Nothing
          /\ last.memo = shown.memo /\ last.gets = shown.gets /\ last.ops = shown.ops
      BY <3>1, <3>2, KeysAre DEF Tab, Sessions
    <3>4. Sound(last)
      BY <2>1, <3>3 DEF Sound, Loose, Current
    <3> QED
      BY <1>6, <3>3, <3>4 DEF Good, Follows, Shows
  <2>3. CASE ~dropped
    <3>1. last = shown
      BY <1>5, <2>3
    <3>2. Follows(shown)
      <4>1. CASE mounts \/ touched
        BY <2>1, <4>1 DEF Follows
      <4>2. CASE ~(mounts \/ touched)
        <5>1. touched = FALSE /\ t.page = "workspace"
          BY <4>2, <1>1, <1>11, TabFields
        <5>2. session = t.session /\ Follows(t)
          BY <5>1
        <5>3. shown.seen = t.seen
          BY <2>1, <1>9, <4>2
        <5> QED
          BY <2>1, <5>1, <5>2, <5>3 DEF Follows
      <4> QED
        BY <4>1, <4>2
    <3>3. Shows(shown)
      <4>1. CASE mounts \/ Reopens(t, url, touched)
        BY <2>1, <1>9, <4>1 DEF Shows
      <4>2. CASE ~(mounts \/ Reopens(t, url, touched))
        <5>1. touched = FALSE /\ t.page = "workspace" /\ url = t.url
          BY <4>2, <1>1, <1>11, TabFields DEF Reopens
        <5>2. session = t.session /\ Shows(t)
          BY <5>1
        <5>3. shown.opening = t.opening /\ shown.issue = t.issue
          BY <2>1, <1>7, <1>9, <4>2
        <5> QED
          BY <2>1, <5>1, <5>2, <5>3, <1>11 DEF Shows
      <4> QED
        BY <4>1, <4>2
    <3> QED
      BY <1>6, <2>1, <3>1, <3>2, <3>3 DEF Good
  <2> QED
    BY <2>2, <2>3
<1> QED
  BY <1>10, <1>11

(* Whatever keeps the fields of the frame keeps what is said of them.       *)
LEMMA FrameIs ==
    ASSUME NEW t, NEW u, Frame(t, u)
    PROVE  (Follows(t) => Follows(u)) /\ (Shows(t) => Shows(u))
BY DEF Frame, Follows, Shows

\* Changes of the fields that soundness and the frame do not speak of.
LEMMA TouchIs ==
    ASSUME NEW t, Good(t), NEW u \in Tab, Frame(t, u),
           u.memo = t.memo, u.gets = t.gets, u.ops = t.ops, u.hold = t.hold
    PROVE  Good(u)
<1>1. Sound(u)
  BY DEF Good, Sound, Loose, Current, Frame
<1> QED
  BY <1>1, FrameIs DEF Good

LEMMA UsableIs ==
    ASSUME Good(tab), Usable
    PROVE  /\ tab \in Tab /\ tab.session \in Real /\ tab.page = "workspace"
           /\ tab.seen = Key(tab.session)
           /\ (tab.session.mode = "remote" => Key(tab.session) = Hosting(tab.session.id))
           /\ tab.session.id \in Nat
<1>1. tab \in Tab /\ tab.session # NoSession /\ tab.page = "workspace"
  BY DEF Good, Sound, Loose, Usable
<1>2. tab.session \in Real
  BY <1>1, TabFields DEF Sessions
<1> QED
  BY <1>1, <1>2, KeysAre DEF Good, Follows, Real

(* What awaited a request goes on: a sound tab stays sound.                 *)
LEMMA AwakeIs ==
    ASSUME NEW t, Sound(t), NEW g \in Gets, WaitersSound(g), NEW ok \in BOOLEAN
    PROVE  Sound(Awake(t, g, ok)) /\ Frame(t, Awake(t, g, ok))
<1>1. t \in Tab
  BY DEF Sound, Loose
<1>2. PICK screen : screen = IF g.loading
                             THEN [t EXCEPT !.hydrating = FALSE, !.banner = @ \/ ~ok] ELSE t
  OBVIOUS
<1>3. /\ screen \in Tab /\ Frame(t, screen)
      /\ screen.memo = t.memo /\ screen.gets = t.gets /\ screen.ops = t.ops /\ screen.hold = t.hold
  <2>1. PICK banner : banner = (t.banner \/ ~ok)
    OBVIOUS
  <2>2. banner \in BOOLEAN
    BY <2>1
  <2>3. screen = IF g.loading THEN [t EXCEPT !.hydrating = FALSE, !.banner = banner] ELSE t
    BY <1>2, <2>1
  <2> QED
    BY <1>1, <2>2, <2>3 DEF Tab, Frame
<1>4. Sound(screen)
  BY <1>3 DEF Sound, Loose, Current, Frame
<1>5. g.waiters \in SUBSET Calls /\ g.id \in Nat
  BY DEF Gets
<1>6. \A w \in g.waiters : /\ w.session \in Real /\ w.op \in Operations /\ w.fresh = FALSE
                           /\ Key(w.session) = Hosting(g.id) /\ w.session.mode = "remote"
  BY <1>5, KeysAre DEF Calls, WaitersSound
<1>7. CASE Backs(screen, Hosting(g.id))
  <2>1. PICK u : u = Answer(screen, g.waiters)
    OBVIOUS
  <2>2. screen.hold = Hosting(g.id) /\ Hosting(g.id) \in TabKeys
    BY <1>5, <1>7, KeysAre DEF Backs
  <2>3. PICK memo :
          memo = {m \in screen.memo : \A w \in g.waiters : m.key # Key(w.session) \/ m.op # w.op}
                   \cup {[key |-> Key(w.session), op |-> w.op, of |-> screen.hold] : w \in g.waiters}
    OBVIOUS
  <2>4. memo \in SUBSET Answers /\ \A m \in memo : m.of = m.key
    BY <1>3, <1>4, <1>6, <2>2, <2>3, TabFields DEF Answers, Sound, Loose
  <2>5. PICK banner : banner = (screen.banner /\ \A w \in g.waiters : ~w.mounted)
    OBVIOUS
  <2>6. banner \in BOOLEAN
    BY <2>5
  <2>7. u = [screen EXCEPT !.memo = memo, !.banner = banner]
    BY <2>1, <2>3, <2>5 DEF Answer
  <2>8. /\ u \in Tab /\ u.memo = memo /\ u.gets = screen.gets /\ u.ops = screen.ops
        /\ u.hold = screen.hold /\ Frame(screen, u)
    BY <1>3, <2>4, <2>6, <2>7 DEF Tab, Frame
  <2>9. Awake(t, g, ok) = u
    BY <1>2, <1>7, <2>1 DEF Awake
  <2> QED
    BY <1>3, <1>4, <2>4, <2>8, <2>9 DEF Sound, Loose, Current, Frame
<1>8. CASE ~Backs(screen, Hosting(g.id))
  <2>1. PICK u : u = [screen EXCEPT !.ops = screen.ops \cup g.waiters]
    OBVIOUS
  <2>2. screen.ops \cup g.waiters \in SUBSET Calls
    BY <1>3, <1>5, TabFields
  <2>3. /\ u \in Tab /\ u.memo = screen.memo /\ u.gets = screen.gets
        /\ u.ops = screen.ops \cup g.waiters /\ u.hold = screen.hold /\ Frame(screen, u)
    BY <1>3, <2>1, <2>2 DEF Tab, Frame
  <2>4. Awake(t, g, ok) = u
    BY <1>2, <1>8, <2>1 DEF Awake
  <2> QED
    BY <1>3, <1>4, <1>6, <2>3, <2>4 DEF Sound, Loose, Current, Frame
<1> QED
  BY <1>7, <1>8

-----------------------------------------------------------------------------
(***************************************************************************)
(* The acts of the user.                                                   *)
(***************************************************************************)
LEMMA SessionsAre ==
    ASSUME NEW mode \in {"local", "remote"}, NEW id \in Nat, NEW zip \in BOOLEAN
    PROVE  Session(mode, id, zip) \in Real /\ Session(mode, id, zip) \in Sessions
BY DEF Session, Real, None, Sessions

LEMMA OpenSteps ==
    ASSUME Good(tab), OpenLocal \/ OpenRemote \/ GoHome \/ ClearSession
                      \/ \E url \in Hosted \cup {None} : Navigate(url)
    PROVE  Good(tab')
<1>1. Sound(tab) /\ Follows(tab) /\ Shows(tab) /\ tab \in Tab /\ tab.session \in Sessions
  BY TabFields DEF Good, Sound, Loose
<1>2. None \in Nat /\ NoSession \in Sessions
  BY DEF None, Sessions
<1>3. CASE OpenLocal
  <2>1. PICK id \in Locals : tab' = Commit(tab, "workspace", None, Session("local", id, TRUE), TRUE)
    BY <1>3 DEF OpenLocal
  <2>2. Session("local", id, TRUE) \in Sessions
    BY HostedAreIds, SessionsAre
  <2> QED
    BY <1>1, <1>2, <2>1, <2>2, CommitIs
<1>4. CASE OpenRemote
  <2>1. PICK id \in Hosted : tab' = Commit(tab, "workspace", id, Session("remote", id, TRUE), TRUE)
    BY <1>4 DEF OpenRemote
  <2>2. Session("remote", id, TRUE) \in Sessions /\ id \in Nat
    BY HostedAreIds, SessionsAre
  <2> QED
    BY <1>1, <2>1, <2>2, CommitIs
<1>5. CASE GoHome
  BY <1>1, <1>2, <1>5, CommitIs DEF GoHome
<1>6. CASE ClearSession
  BY <1>1, <1>2, <1>6, CommitIs DEF ClearSession
<1>7. ASSUME NEW url \in Hosted \cup {None}, Navigate(url)
      PROVE  Good(tab')
  BY <1>1, <1>2, <1>7, HostedAreIds, CommitIs DEF Navigate
<1> QED
  BY <1>3, <1>4, <1>5, <1>6, <1>7

LEMMA OperationSteps ==
    ASSUME Good(tab), NEW op \in Operations, RunOperation(op)
    PROVE  Good(tab')
<1> DEFINE s == tab.session
<1>1. /\ Sound(tab) /\ Loose(tab) /\ Current(tab) /\ tab \in Tab /\ s \in Real /\ s.id \in Nat
      /\ tab.seen = Key(s) /\ (s.mode = "remote" => Key(s) = Hosting(s.id)) /\ Key(s) \in TabKeys
  BY UsableIs, KeysAre DEF RunOperation, Good, Sound, Sessions
<1>2. PICK call : call = [op |-> op, session |-> s, mounted |-> TRUE, fresh |-> op = "Snapshot"]
  OBVIOUS
<1>3. call \in Calls /\ call.session = s /\ call.fresh = (op = "Snapshot")
  BY <1>1, <1>2 DEF Calls
<1>4. tab' = IF s.mode = "local" THEN Remember(tab, s, {op}, Key(s))
             ELSE IF op = "Snapshot" THEN [tab EXCEPT !.ops = @ \cup {call}]
             ELSE IF Backs(tab, s)
             THEN [Remember(tab, s, {op}, tab.hold) EXCEPT !.banner = FALSE]
             ELSE Hydrate(tab, s.id, FALSE, {call})
  BY <1>2 DEF RunOperation
<1>5. {op} \in SUBSET Operations
  OBVIOUS
<1>6. CASE s.mode = "local"
  <2>1. PICK u : u = Remember(tab, s, {op}, Key(s))
    OBVIOUS
  <2>2. Loose(u) /\ Current(u) /\ Frame(tab, u)
    BY <1>1, <1>5, <2>1, RememberIs
  <2> QED
    BY <1>4, <1>6, <2>1, <2>2, FrameIs DEF Good, Sound
<1>7. CASE s.mode # "local" /\ op = "Snapshot"
  <2>1. s.mode = "remote"
    BY <1>1, <1>7 DEF Real
  <2>2. PICK u : u = [tab EXCEPT !.ops = tab.ops \cup {call}]
    OBVIOUS
  <2>3. tab.ops \cup {call} \in SUBSET Calls
    BY <1>1, <1>3, TabFields
  <2>4. /\ u \in Tab /\ u.memo = tab.memo /\ u.gets = tab.gets /\ u.hold = tab.hold
        /\ u.ops = tab.ops \cup {call} /\ Frame(tab, u)
    BY <1>1, <2>2, <2>3 DEF Tab, Frame
  <2>5. Loose(u) /\ Current(u)
    BY <1>1, <1>3, <2>1, <2>4 DEF Loose, Current, Frame
  <2> QED
    BY <1>4, <1>7, <2>2, <2>4, <2>5, FrameIs DEF Good, Sound
<1>8. CASE s.mode # "local" /\ op # "Snapshot" /\ Backs(tab, s)
  <2>1. PICK u : u = Remember(tab, s, {op}, tab.hold)
    OBVIOUS
  <2>2. Loose(u) /\ Current(u) /\ Frame(tab, u)
    BY <1>1, <1>5, <1>8, <2>1, RememberIs DEF Backs
  <2>3. Good(u) /\ u \in Tab
    BY <2>2, FrameIs DEF Good, Sound, Loose
  <2>4. PICK v : v = [u EXCEPT !.banner = FALSE]
    OBVIOUS
  <2>5. v \in Tab /\ v.memo = u.memo /\ v.gets = u.gets /\ v.ops = u.ops /\ v.hold = u.hold /\ Frame(u, v)
    BY <2>3, <2>4 DEF Tab, Frame
  <2> QED
    BY <1>4, <1>8, <2>1, <2>3, <2>4, <2>5, TouchIs
<1>9. CASE s.mode # "local" /\ op # "Snapshot" /\ ~Backs(tab, s)
  <2>1. s.mode = "remote"
    BY <1>1, <1>9 DEF Real
  <2>2. PICK u : u = Hydrate(tab, s.id, FALSE, {call})
    OBVIOUS
  <2>3. \A w \in {call} : Key(w.session) = Hosting(s.id) /\ w.fresh = FALSE
    BY <1>1, <1>3, <1>9, <2>1
  <2>4. Loose(u) /\ Current(u) /\ Frame(tab, u)
    BY <1>1, <1>3, <2>1, <2>2, <2>3, HydrateIs
  <2> QED
    BY <1>4, <1>9, <2>2, <2>4, FrameIs DEF Good, Sound
<1> QED
  BY <1>6, <1>7, <1>8, <1>9

LEMMA ClearedStays ==
    ASSUME NEW t, Good(t)
    PROVE  Good(ClearMemo(t)) /\ Good(ClearHold(t)) /\ Good(ClearHold(ClearMemo(t)))
<1>1. PICK u : u = ClearMemo(t)
  OBVIOUS
<1>2. Loose(u) /\ Current(u) /\ Frame(t, u)
  BY <1>1, ClearMemoIs DEF Good, Sound
<1>3. Sound(ClearHold(t)) /\ Frame(t, ClearHold(t))
  BY ClearHoldIs DEF Good, Sound
<1>4. Sound(ClearHold(u)) /\ Frame(u, ClearHold(u))
  BY <1>2, ClearHoldIs
<1>5. Good(u)
  BY <1>2, FrameIs DEF Good, Sound
<1>6. Good(ClearHold(t))
  BY <1>3, FrameIs DEF Good
<1>7. Good(ClearHold(u))
  BY <1>4, <1>5, FrameIs DEF Good
<1> QED
  BY <1>1, <1>5, <1>6, <1>7

LEMMA JobsTouch ==
    ASSUME NEW t, Good(t), NEW jobs \in SUBSET Jobs
    PROVE  Good([t EXCEPT !.jobs = jobs])
<1>1. PICK u : u = [t EXCEPT !.jobs = jobs]
  OBVIOUS
<1>2. t \in Tab
  BY DEF Good, Sound, Loose
<1>3. u \in Tab /\ u.memo = t.memo /\ u.gets = t.gets /\ u.ops = t.ops /\ u.hold = t.hold /\ Frame(t, u)
  BY <1>1, <1>2 DEF Tab, Frame
<1> QED
  BY <1>1, <1>3, TouchIs

LEMMA JobStarts ==
    ASSUME Good(tab), Override \/ Share \/ Delete
    PROVE  Good(tab')
<1>1. tab \in Tab /\ tab.session \in Real
  BY UsableIs DEF Override, Share, Delete
<1>2. \A kind \in Kinds : Job(kind, tab.session) \in Jobs
  BY <1>1 DEF Job, Jobs
<1>3. CASE Override
  <2>1. PICK t : t = ClearHold(ClearMemo(tab))
    OBVIOUS
  <2>2. Good(t) /\ t.jobs \in SUBSET Jobs
    <3>1. Good(t)
      BY <2>1, ClearedStays
    <3> QED
      BY <3>1, TabFields DEF Good, Sound, Loose
  <2>3. PICK kind \in Kinds : tab' = [t EXCEPT !.jobs = t.jobs \cup {Job(kind, tab.session)}]
    BY <1>3, <2>1 DEF Override, Kinds
  <2>4. t.jobs \cup {Job(kind, tab.session)} \in SUBSET Jobs
    BY <1>2, <2>2
  <2> QED
    BY <2>2, <2>3, <2>4, JobsTouch
<1>4. CASE Share \/ Delete
  <2>1. PICK kind \in Kinds : tab' = [tab EXCEPT !.jobs = tab.jobs \cup {Job(kind, tab.session)}]
    BY <1>4 DEF Share, Delete, Kinds
  <2>2. tab.jobs \cup {Job(kind, tab.session)} \in SUBSET Jobs
    BY <1>1, <1>2, TabFields
  <2> QED
    BY <2>1, <2>2, JobsTouch
<1> QED
  BY <1>3, <1>4

LEMMA OtherActs ==
    ASSUME Good(tab), EditConfig \/ Dismiss \/ Evict
    PROVE  Good(tab')
<1>1. CASE EditConfig
  BY <1>1, ClearedStays DEF EditConfig
<1>2. CASE Dismiss
  <2>1. PICK u : u = [tab EXCEPT !.banner = FALSE]
    OBVIOUS
  <2>2. tab \in Tab
    BY DEF Good, Sound, Loose
  <2>3. /\ u \in Tab /\ u.memo = tab.memo /\ u.gets = tab.gets /\ u.ops = tab.ops
        /\ u.hold = tab.hold /\ Frame(tab, u)
    BY <2>1, <2>2 DEF Tab, Frame
  <2> QED
    BY <1>2, <2>1, <2>3, TouchIs DEF Dismiss
<1>3. CASE Evict
  BY <1>3 DEF Evict
<1> QED
  BY <1>1, <1>2, <1>3

-----------------------------------------------------------------------------
(***************************************************************************)
(* What comes back to the tab.                                             *)
(***************************************************************************)
(* A session handed to the page, wherever the tab is.                       *)
LEMMA BecomeIs ==
    ASSUME NEW t, Sound(t), NEW session \in Sessions
    PROVE  Good(Become(t, session))
<1>1. t.page \in {"home", "workspace"} /\ t.url \in Nat
  BY TabFields DEF Sound, Loose
<1> QED
  BY <1>1, CommitIs DEF Become

LEMMA OpenSettled ==
    ASSUME Good(tab), OpenSettles
    PROVE  Good(tab')
<1>1. Sound(tab) /\ tab \in Tab /\ tab.asked \in Nat
  BY TabFields DEF Good, Sound, Loose
<1>2. CASE Opens
  <2>1. PICK t : t = [tab EXCEPT !.asked = None, !.opening = FALSE]
    OBVIOUS
  <2>2. /\ t \in Tab /\ t.memo = tab.memo /\ t.gets = tab.gets /\ t.ops = tab.ops
        /\ t.hold = tab.hold /\ t.seen = tab.seen
    BY <1>1, <2>1 DEF Tab, None
  <2>3. Sound(t)
    BY <1>1, <2>2 DEF Sound, Loose, Current
  <2>4. Session("remote", tab.asked, FALSE) \in Sessions
    BY <1>1, SessionsAre
  <2>5. tab' = Become(t, Session("remote", tab.asked, FALSE))
    BY <1>2, <2>1 DEF Opens
  <2> QED
    BY <2>3, <2>4, <2>5, BecomeIs
<1>3. CASE OpenFails
  <2>1. PICK t : t = ClearHold(tab)
    OBVIOUS
  <2>2. Good(t)
    BY <2>1, ClearedStays
  <2>3. PICK u : u = [t EXCEPT !.asked = None, !.opening = FALSE, !.issue = TRUE]
    OBVIOUS
  <2>4. t \in Tab
    BY <2>2 DEF Good, Sound, Loose
  <2>5. /\ u \in Tab /\ u.memo = t.memo /\ u.gets = t.gets /\ u.ops = t.ops /\ u.hold = t.hold
        /\ u.seen = t.seen /\ u.page = t.page /\ u.session = t.session /\ u.issue = TRUE
    BY <2>3, <2>4 DEF Tab, None
  <2>6. Sound(u) /\ Follows(u) /\ Shows(u)
    BY <2>2, <2>5 DEF Good, Sound, Loose, Current, Follows, Shows
  <2> QED
    BY <1>3, <2>1, <2>3, <2>6 DEF OpenFails, Good
<1> QED
  BY <1>2, <1>3 DEF OpenSettles

LEMMA HydrateSettled ==
    ASSUME Good(tab), NEW i \in DOMAIN tab.gets, NEW found \in BOOLEAN, GetSettles(i, found)
    PROVE  Good(tab')
<1> DEFINE g == tab.gets[i]
           n == Len(tab.gets)
<1>1. Sound(tab) /\ tab \in Tab /\ tab.gets \in Seq(Gets)
  BY TabFields DEF Good, Sound, Loose
<1>2. /\ n \in Nat /\ DOMAIN tab.gets = 1 .. n
      /\ \A k \in 1 .. n : tab.gets[k] \in Gets /\ WaitersSound(tab.gets[k])
  BY <1>1, GetsAre DEF Sound, Loose
<1>3. n - 1 \in Nat /\ i \in 1 .. n
  BY <1>2
<1>4. PICK gets : gets = [k \in 1 .. n - 1 |->
                            [tab.gets[IF k < i THEN k ELSE k + 1] EXCEPT !.joinable = FALSE]]
  OBVIOUS
<1>5. PICK done : done = [tab EXCEPT !.gets = gets]
  OBVIOUS
<1>6. tab' = Awake(IF ~Applies(g) THEN done
                   ELSE IF found THEN ApplyEnv(done, g.id)
                   ELSE [done EXCEPT !.hold = Key(NoSession)], g, found /\ Applies(g))
  BY <1>4, <1>5 DEF GetSettles
<1>7. /\ gets \in Seq(Gets) /\ \A k \in DOMAIN gets : WaitersSound(gets[k])
      /\ \A k \in DOMAIN gets : \E l \in DOMAIN tab.gets :
           gets[k].fresh = tab.gets[l].fresh /\ gets[k].id = tab.gets[l].id
  <2>1. ASSUME NEW k \in 1 .. n - 1
        PROVE  /\ gets[k] \in Gets /\ WaitersSound(gets[k])
               /\ \E l \in DOMAIN tab.gets :
                    gets[k].fresh = tab.gets[l].fresh /\ gets[k].id = tab.gets[l].id
    <3>1. PICK l : l = (IF k < i THEN k ELSE k + 1)
      OBVIOUS
    <3>2. l \in 1 .. n /\ gets[k] = [tab.gets[l] EXCEPT !.joinable = FALSE]
      BY <1>2, <1>3, <1>4, <3>1
    <3>3. tab.gets[l] \in Gets /\ WaitersSound(tab.gets[l])
      BY <1>2, <3>2
    <3>4. /\ gets[k] \in Gets /\ gets[k].id = tab.gets[l].id
          /\ gets[k].fresh = tab.gets[l].fresh /\ gets[k].waiters = tab.gets[l].waiters
      BY <3>2, <3>3 DEF Gets
    <3> QED
      BY <1>2, <3>2, <3>3, <3>4 DEF WaitersSound
  <2>2. DOMAIN gets = 1 .. n - 1 /\ gets \in [1 .. n - 1 -> Gets]
    BY <1>4, <2>1
  <2>3. gets \in Seq(Gets)
    BY <1>3, <2>2
  <2> QED
    BY <2>1, <2>2, <2>3
<1>8. /\ done \in Tab /\ Frame(tab, done) /\ done.memo = tab.memo /\ done.gets = gets
      /\ done.ops = tab.ops /\ done.hold = tab.hold
  BY <1>1, <1>5, <1>7 DEF Tab, Frame
<1>9. Sound(done)
  BY <1>1, <1>7, <1>8 DEF Sound, Loose, Current, Frame
<1>10. PICK t : t = IF ~Applies(g) THEN done
                    ELSE IF found THEN ApplyEnv(done, g.id)
                    ELSE [done EXCEPT !.hold = Nothing]
  OBVIOUS
<1>11. g \in Gets /\ WaitersSound(g) /\ g.id \in Nat
  BY <1>2 DEF Gets
<1>12. Sound(t) /\ Frame(tab, t)
  <2>1. CASE ~Applies(g)
    BY <1>8, <1>9, <1>10, <2>1
  <2>2. CASE Applies(g) /\ found
    <3>1. g.fresh = TRUE
      BY <1>11, <2>2 DEF Applies, Gets
    <3>2. done.seen \in {Hosting(g.id), Nothing}
      BY <1>1, <1>2, <1>8, <3>1 DEF Sound, Current, Frame
    <3>3. Sound(ApplyEnv(done, g.id)) /\ Frame(done, ApplyEnv(done, g.id))
      BY <1>9, <1>11, <3>2, ApplyEnvIs
    <3>4. t = ApplyEnv(done, g.id)
      BY <1>10, <2>2
    <3>5. Frame(done, t) /\ Sound(t)
      BY <3>3, <3>4
    <3> QED
      BY <1>8, <3>5 DEF Frame
  <2>3. CASE Applies(g) /\ ~found
    <3>1. t = [done EXCEPT !.hold = Nothing]
      BY <1>10, <2>3
    <3>2. /\ t \in Tab /\ t.memo = done.memo /\ t.gets = done.gets /\ t.ops = done.ops
          /\ t.hold = Nothing /\ Frame(done, t)
      BY <1>8, <3>1, KeysAre DEF Tab, Frame
    <3> QED
      BY <1>8, <1>9, <3>2 DEF Sound, Loose, Current, Frame
  <2> QED
    BY <2>1, <2>2, <2>3
<1>13. PICK ok \in BOOLEAN : tab' = Awake(t, g, ok)
  BY <1>6, <1>10 DEF Nothing, Applies
<1>14. Sound(Awake(t, g, ok)) /\ Frame(t, Awake(t, g, ok))
  BY <1>11, <1>12, AwakeIs
<1>15. PICK u : u = Awake(t, g, ok)
  OBVIOUS
<1>16. Sound(u) /\ Frame(tab, u)
  BY <1>12, <1>14, <1>15 DEF Frame
<1>17. Good(u)
  BY <1>16, FrameIs DEF Good
<1> QED
  BY <1>13, <1>15, <1>17

LEMMA OperationSettled ==
    ASSUME Good(tab), NEW o \in tab.ops,
           OperationAnswered(o) \/ \E missing \in BOOLEAN : OperationFails(o, missing)
    PROVE  Good(tab')
<1>1. /\ Sound(tab) /\ tab \in Tab /\ o \in Calls /\ o.session \in Real /\ o.session.mode = "remote"
      /\ o.op \in Operations /\ o.session.id \in Nat
  BY TabFields DEF Good, Sound, Loose, Calls, Real
<1>2. Key(o.session) = Hosting(o.session.id) /\ Key(o.session) \in TabKeys
  BY <1>1, KeysAre DEF Sessions
<1>3. ASSUME NEW banner \in BOOLEAN, NEW done,
             done = [tab EXCEPT !.ops = tab.ops \ {o}, !.banner = banner]
      PROVE  Good(done) /\ done \in Tab /\ Frame(tab, done)
  <2>1. tab.ops \ {o} \in SUBSET Calls
    BY <1>1, TabFields
  <2>2. /\ done \in Tab /\ Frame(tab, done) /\ done.memo = tab.memo /\ done.gets = tab.gets
        /\ done.ops = tab.ops \ {o} /\ done.hold = tab.hold
    BY <1>1, <1>3, <2>1 DEF Tab, Frame
  <2>3. Sound(done)
    BY <1>1, <2>2 DEF Sound, Loose, Current, Frame
  <2> QED
    BY <2>2, <2>3, FrameIs DEF Good
<1>4. CASE OperationAnswered(o)
  <2>1. PICK banner : banner = (tab.banner /\ ~o.mounted)
    OBVIOUS
  <2>2. banner \in BOOLEAN
    BY <2>1
  <2>3. PICK done : done = [tab EXCEPT !.ops = tab.ops \ {o}, !.banner = banner]
    OBVIOUS
  <2>4. Good(done) /\ Frame(tab, done)
    BY <1>3, <2>2, <2>3
  <2>5. PICK t : t = IF o.fresh THEN ApplyEnv(done, o.session.id) ELSE done
    OBVIOUS
  <2>6. tab' = Remember(t, o.session, {o.op}, Hosting(o.session.id))
    BY <1>4, <2>1, <2>3, <2>5 DEF OperationAnswered
  <2>7. Sound(t) /\ Frame(tab, t)
    <3>1. CASE o.fresh
      <4>1. o.fresh = TRUE
        BY <1>1, <3>1 DEF Calls
      <4>2. done.seen \in {Hosting(o.session.id), Nothing}
        BY <1>1, <1>2, <2>4, <4>1 DEF Sound, Current, Frame
      <4>3. PICK u : u = ApplyEnv(done, o.session.id)
        OBVIOUS
      <4>4. Sound(u) /\ Frame(done, u)
        BY <1>1, <2>4, <4>2, <4>3, ApplyEnvIs DEF Good
      <4> QED
        BY <2>4, <2>5, <3>1, <4>3, <4>4 DEF Frame
    <3>2. CASE ~o.fresh
      BY <2>4, <2>5, <3>2 DEF Good
    <3> QED
      BY <3>1, <3>2
  <2>8. PICK u : u = Remember(t, o.session, {o.op}, Hosting(o.session.id))
    OBVIOUS
  <2>9. {o.op} \in SUBSET Operations
    BY <1>1
  <2>10. Sound(u) /\ Frame(t, u)
    BY <1>2, <2>7, <2>8, <2>9, RememberIs DEF Sound
  <2>11. Frame(tab, u)
    BY <2>7, <2>10 DEF Frame
  <2> QED
    BY <2>6, <2>8, <2>10, <2>11, FrameIs DEF Good
<1>5. ASSUME NEW missing \in BOOLEAN, OperationFails(o, missing)
      PROVE  Good(tab')
  <2>1. PICK done : done = [tab EXCEPT !.ops = tab.ops \ {o}]
    OBVIOUS
  <2>2. done = [tab EXCEPT !.ops = tab.ops \ {o}, !.banner = tab.banner] /\ tab.banner \in BOOLEAN
    BY <1>1, <2>1 DEF Tab
  <2>3. Good(done)
    BY <1>3, <2>2
  <2>4. PICK banner : banner = (tab.banner \/ o.mounted)
    OBVIOUS
  <2>5. banner \in BOOLEAN
    BY <2>4
  <2>6. PICK told : told = [done EXCEPT !.banner = @ \/ o.mounted]
    OBVIOUS
  <2>7. told = [tab EXCEPT !.ops = tab.ops \ {o}, !.banner = banner]
    BY <1>1, <2>1, <2>4, <2>6 DEF Tab
  <2>8. Good(told)
    BY <1>3, <2>5, <2>7
  <2>9. Good(ClearHold(told))
    BY <2>8, ClearedStays
  <2>10. tab' = IF ~missing THEN done ELSE IF o.session.zip THEN told ELSE ClearHold(told)
    BY <1>5, <2>1, <2>6 DEF OperationFails
  <2> QED
    BY <2>3, <2>8, <2>9, <2>10
<1> QED
  BY <1>4, <1>5

LEMMA JobSettled ==
    ASSUME Good(tab), NEW j \in tab.jobs,
           Rebuilt(j) \/ Replaced(j) \/ Reuploaded(j) \/ Shared(j) \/ Deleted(j) \/ JobFails(j)
    PROVE  Good(tab')
<1>1. tab \in Tab /\ j \in Jobs /\ j.session \in Real /\ tab.jobs \in SUBSET Jobs
  BY TabFields DEF Good, Sound, Loose, Jobs
<1>2. Good(WithoutJob(j)) /\ Sound(WithoutJob(j)) /\ WithoutJob(j).jobs \in SUBSET Jobs
  <2>1. tab.jobs \ {j} \in SUBSET Jobs
    BY <1>1
  <2>2. WithoutJob(j) = [tab EXCEPT !.jobs = tab.jobs \ {j}]
    BY DEF WithoutJob
  <2>3. Good(WithoutJob(j))
    BY <2>1, <2>2, JobsTouch
  <2> QED
    BY <2>3, TabFields DEF Good, Sound, Loose
<1>3. CASE Rebuilt(j)
  <2>1. PICK id \in Locals : tab' = Become(WithoutJob(j), Session("local", id, TRUE))
    BY <1>3 DEF Rebuilt
  <2>2. Session("local", id, TRUE) \in Sessions
    BY HostedAreIds, SessionsAre
  <2> QED
    BY <1>2, <2>1, <2>2, BecomeIs
<1>4. CASE Replaced(j)
  <2>1. [j EXCEPT !.kind = "reupload"] \in Jobs
    BY <1>1 DEF Jobs, Kinds
  <2>2. PICK more : more = WithoutJob(j).jobs \cup {[j EXCEPT !.kind = "reupload"]}
    OBVIOUS
  <2>3. more \in SUBSET Jobs
    BY <1>2, <2>1, <2>2
  <2>4. PICK t : t = WithoutJob(j)
    OBVIOUS
  <2>5. tab' = [t EXCEPT !.jobs = more]
    BY <1>4, <2>2, <2>4 DEF Replaced
  <2> QED
    BY <1>2, <2>3, <2>4, <2>5, JobsTouch
<1>5. CASE Reuploaded(j)
  <2>1. PICK id \in Hosted : tab' = Become(WithoutJob(j), Session("remote", id, TRUE))
    BY <1>5 DEF Reuploaded
  <2>2. Session("remote", id, TRUE) \in Sessions
    BY HostedAreIds, SessionsAre
  <2> QED
    BY <1>2, <2>1, <2>2, BecomeIs
<1>6. CASE Shared(j)
  <2>1. PICK id \in Hosted : tab' = Become(WithoutJob(j), [j.session EXCEPT !.share = id])
    BY <1>6 DEF Shared
  <2>2. [j.session EXCEPT !.share = id] \in Sessions
    BY <1>1, HostedAreIds DEF Real, Sessions
  <2> QED
    BY <1>2, <2>1, <2>2, BecomeIs
<1>7. CASE Deleted(j)
  <2>1. NoSession \in Sessions /\ None \in Nat
    BY DEF Sessions, None
  <2>2. [j.session EXCEPT !.share = None] \in Sessions
    BY <1>1, <2>1 DEF Real, Sessions
  <2>3. PICK page \in {"home", "workspace"}, session \in Sessions :
          tab' = Commit(WithoutJob(j), page, None, session, TRUE)
    BY <1>7, <2>1, <2>2 DEF Deleted
  <2> QED
    BY <1>2, <2>1, <2>3, CommitIs
<1>8. CASE JobFails(j)
  BY <1>2, <1>8 DEF JobFails
<1> QED
  BY <1>3, <1>4, <1>5, <1>6, <1>7, <1>8

-----------------------------------------------------------------------------
LEMMA InitIsGood == Init => Good(tab)
<1> SUFFICES ASSUME Init PROVE Good(tab)
  OBVIOUS
<1>1. /\ tab.page = "home" /\ tab.seen = Nothing /\ tab.memo = {} /\ tab.gets = <<>> /\ tab.ops = {}
  BY DEF Init, Nothing
<1>2. tab \in Tab
  BY KeysAre DEF Init, Tab, None, Nothing, Sessions
<1> QED
  BY <1>1, <1>2 DEF Good, Sound, Loose, Current, Follows, Shows

LEMMA NextIsGood == Good(tab) /\ [Next]_vars => Good(tab')
<1> SUFFICES ASSUME Good(tab), [Next]_vars PROVE Good(tab')
  OBVIOUS
<1>1. CASE User
  BY <1>1, OpenSteps, OperationSteps, JobStarts, OtherActs DEF User
<1>2. CASE Evict
  BY <1>2, OtherActs
<1>3. CASE OpenSettles
  BY <1>3, OpenSettled
<1>4. CASE HydrateSettles
  BY <1>4, HydrateSettled DEF HydrateSettles
<1>5. CASE OperationSettles
  BY <1>5, OperationSettled DEF OperationSettles
<1>6. CASE JobSettles
  BY <1>6, JobSettled DEF JobSettles
<1>7. CASE UNCHANGED vars
  BY <1>7 DEF vars
<1> QED
  BY <1>1, <1>2, <1>3, <1>4, <1>5, <1>6, <1>7 DEF Next

(* Every tab reached is good: its fields have their types, what waits for a *)
(* request asks about the request's project, the page follows its session,  *)
(* and what an answer may still put into the hold is of that session.       *)
THEOREM Inductive == Spec => []TabIsGood
<1>1. Init => TabIsGood
  BY InitIsGood DEF TabIsGood
<1>2. TabIsGood /\ [Next]_vars => TabIsGood'
  BY NextIsGood DEF TabIsGood
<1> QED
  BY <1>1, <1>2, PTL DEF Spec

(* What the tab holds is the snapshot of the session that is shown, and what*)
(* it remembers for a project was computed from that project, whatever      *)
(* answers of earlier sessions come back (snapHold.ts, opMemo.ts).          *)
THEOREM HeldStaysTrue == Spec => []HeldIsTrue
<1>1. TabIsGood => HeldIsTrue
  BY DEF TabIsGood, Good, Sound, Loose, Current, HeldIsTrue, Nothing
<1> QED
  BY <1>1, Inductive, PTL

(* While the address names a shared project, the controls that can be used  *)
(* act on that project (WorkspacePage.tsx).                                 *)
THEOREM UrlStaysShown == Spec => []UrlIsShown
<1>1. TabIsGood => UrlIsShown
  <2> SUFFICES ASSUME Good(tab), Usable, tab.url # None
               PROVE  Key(tab.session) = Hosting(tab.url)
    BY DEF TabIsGood, UrlIsShown
  <2>1. tab \in Tab
    BY DEF Good, Sound, Loose
  <2>2. tab.opening \in BOOLEAN /\ tab.issue \in BOOLEAN
    BY <2>1, TabFields
  <2>3. tab.opening # TRUE /\ tab.issue # TRUE /\ tab.session # NoSession /\ tab.page = "workspace"
    BY <2>2 DEF Usable, Loading
  <2> QED
    BY <2>3 DEF Good, Shows
<1> QED
  BY <1>1, Inductive, PTL
=============================================================================
