------------------------- MODULE LocaleBuild_proofs -------------------------
(* Proofs about LocaleBuild: its type correctness, what a full build is at  *)
(* any moment, the identity guard's count, the texts that were paid for,    *)
(* and the translated leaves that stay so, for any source, documents, chain *)
(* length, retry limit, worker counts and number of runs.                   *)
EXTENDS LocaleBuild, FiniteSetTheorems, WellFoundedInduction, TLAPS

N == Cardinality(Leaves)
Content == Text \cup {None}
JobRecord ==
  [at : {"none", "waiting", "asking", "answered", "accepted", "failed"},
   tries : 0 .. MaxTries, text : Content, fresh : BOOLEAN]
RowNames == {"copy", "existing", "keep", "translate"}

LEMMA LeavesAre == N \in Nat /\ Leaves = 1 .. N /\ IsFiniteSet(Leaves)
BY LocaleBuildAssumption, FS_CardinalityType DEF N

LEMMA FiniteParts ==
    ASSUME NEW S \in SUBSET Leaves
    PROVE  IsFiniteSet(S) /\ Cardinality(S) \in Nat
BY LeavesAre, FS_Subset, FS_CardinalityType

LEMMA ATextIsReal ==
    /\ \A l \in Leaves : SourceText(l) \in Text /\ SourceText(l) # None
    /\ None \notin Text
BY LocaleBuildAssumption DEF SourceText, Text, Phs

(* The least position of a non-empty set of natural numbers.                *)
LEMMA LeastIn ==
    ASSUME NEW T \in SUBSET Nat, T # {}
    PROVE  \E x \in T : \A y \in T : x <= y
<1>1. PICK x \in T : \A y \in T : ~ (<<y, x>> \in OpToRel(<, Nat))
  BY WFMin, NatLessThanWellFounded, Zenon
<1>2. \A y \in T : ~ (y < x)
  BY <1>1 DEF OpToRel
<1> QED
  BY <1>2

(* The cursor stops at the first row that waits, or behind the last.        *)
LEMMA CursorStops ==
    ASSUME NEW c \in 1 .. N + 1, NEW rs, NEW done
    PROVE  LET n == CursorAfter(c, rs, done)
           IN  /\ n \in c .. N + 1
               /\ \A l \in c .. n - 1 : ~Waits(l, rs, done)
               /\ n \in Leaves => Waits(n, rs, done)
<1> DEFINE Good(n) == /\ \A l \in c .. n - 1 : ~Waits(l, rs, done)
                      /\ n \in Leaves => Waits(n, rs, done)
           T == {l \in Leaves : l >= c /\ Waits(l, rs, done)}
<1>1. \E n \in c .. N + 1 : Good(n)
  <2>1. CASE T = {}
    <3>1. N + 1 \in c .. N + 1 /\ N + 1 \notin Leaves
      BY LeavesAre
    <3>2. \A l \in c .. N : l \in Leaves /\ l >= c
      BY LeavesAre
    <3>3. \A l \in c .. N : ~Waits(l, rs, done)
      BY <2>1, <3>2
    <3>4. (N + 1) - 1 = N
      BY LeavesAre
    <3>5. Good(N + 1)
      BY <3>1, <3>3, <3>4
    <3> QED
      BY <3>1, <3>5
  <2>2. CASE T # {}
    <3>1. T \in SUBSET Nat
      BY LeavesAre
    <3>2. PICK x \in T : \A y \in T : x <= y
      BY <2>2, <3>1, LeastIn
    <3>3. x \in c .. N + 1 /\ Waits(x, rs, done)
      BY <3>2, LeavesAre
    <3>4. ASSUME NEW l \in c .. x - 1 PROVE ~Waits(l, rs, done)
      <4>1. l \in Leaves /\ l >= c /\ ~(x <= l)
        BY <3>3, LeavesAre
      <4> QED
        BY <4>1, <3>2
    <3> QED
      BY <3>3, <3>4
  <2> QED
    BY <2>1, <2>2
<1>2. CursorAfter(c, rs, done) = CHOOSE n \in c .. N + 1 : Good(n)
  BY DEF CursorAfter, N
<1> HIDE DEF Good
<1>3. LET n == CursorAfter(c, rs, done) IN n \in c .. N + 1 /\ Good(n)
  BY <1>1, <1>2
<1> QED
  BY <1>3 DEF Good

(* What tryAdvance does.                                                    *)
LEMMA AdvanceEffect ==
    ASSUME NEW c \in 1 .. N + 1, NEW rs, NEW w, NEW done, Advance(c, rs, w, done)
    PROVE  /\ cursor' \in c .. N + 1 /\ cursor' \in 1 .. N + 1
           /\ \A l \in c .. cursor' - 1 : ~Waits(l, rs, done)
           /\ cursor' \in Leaves => Waits(cursor', rs, done)
           /\ work' = [l \in Leaves |-> IF l >= c /\ l < cursor' THEN Placed(l, rs[l], w, done)
                                        ELSE w[l]]
<1>1. PICK n : n = CursorAfter(c, rs, done)
  OBVIOUS
<1>2. /\ n \in c .. N + 1
      /\ \A l \in c .. n - 1 : ~Waits(l, rs, done)
      /\ n \in Leaves => Waits(n, rs, done)
  BY <1>1, CursorStops
<1>3. cursor' = n /\ work' = [l \in Leaves |-> IF l \in c .. n - 1 THEN Placed(l, rs[l], w, done)
                                               ELSE w[l]]
  BY <1>1 DEF Advance
<1>4. \A l \in Leaves : l \in c .. n - 1 <=> (l >= c /\ l < n)
  BY <1>2, LeavesAre
<1>5. n \in 1 .. N + 1
  BY <1>2, LeavesAre
<1> QED
  BY <1>2, <1>3, <1>4, <1>5

-----------------------------------------------------------------------------
(***************************************************************************)
(* Jobs: the first layer of the invariant.                                 *)
(***************************************************************************)
Live == status \in {"building", "failing"}
Formed == Live \/ status = "built"

\* A row is translated by a job, and only such a row has one.
JobsMatchRows == Formed => \A l \in Leaves : job[l].at = "none" <=> rows[l] # "translate"

\* A job that has its text has one, one that may yet fail has a try left.
JobSane(e) ==
  /\ e.at \in {"answered", "accepted"} => e.text # None
  /\ e.at \in {"waiting", "asking", "answered"} => e.tries < MaxTries
  /\ e.fresh = TRUE => e.at \in {"answered", "accepted"}
JobsSane == \A l \in Leaves : JobSane(job[l])

\* Texts that the guard has to see before they are cached exist in serial runs only.
FreshIsSerial == Live => \A l \in Leaves : job[l].fresh = TRUE => Serial

\* Texts are accepted in the order of the leaves; a serial run has one job at a time.
Settling(e) == e.at = "accepted" \/ (Serial /\ e.at \in {"asking", "answered"})
OrderKept == Formed => \A l \in Leaves : Settling(job[l]) => Ordered(l)

RunsOnlyLive == ~Live => Running = {}
AskedIsThere == guard.asks = TRUE => Live /\ Asked # {}

JobsInv ==
  /\ JobsMatchRows /\ JobsSane /\ FreshIsSerial
  /\ OrderKept /\ RunsOnlyLive /\ AskedIsThere

LEMMA JobFacts ==
    ASSUME TypeOK, NEW l \in Leaves
    PROVE  /\ job[l] \in JobRecord
           /\ job[l].at \in {"none", "waiting", "asking", "answered", "accepted", "failed"}
           /\ job[l].tries \in 0 .. MaxTries /\ job[l].text \in Content
           /\ job[l].fresh \in BOOLEAN
<1>1. job[l] \in JobRecord
  BY DEF TypeOK, JobRecord, Content
<1> QED
  BY <1>1 DEF JobRecord

LEMMA NoJobIs ==
    /\ NoJob \in JobRecord /\ JobSane(NoJob)
    /\ [NoJob EXCEPT !.at = "waiting"] \in JobRecord
    /\ JobSane([NoJob EXCEPT !.at = "waiting"])
<1>1. 0 \in 0 .. MaxTries /\ 0 < MaxTries /\ None \in Content
  BY LocaleBuildAssumption DEF Content
<1>2. NoJob \in JobRecord /\ [NoJob EXCEPT !.at = "waiting"] \in JobRecord
  BY <1>1 DEF NoJob, JobRecord
<1>3. JobSane(NoJob) /\ JobSane([NoJob EXCEPT !.at = "waiting"])
  BY <1>1 DEF NoJob, JobSane
<1> QED
  BY <1>2, <1>3

(* What changing the job of one leaf does to the table and to the requests  *)
(* that are running.                                                        *)
LEMMA OneJob ==
    ASSUME TypeOK, NEW l \in Leaves, NEW e \in JobRecord, SetJob(l, e), run' = run,
           e.at = "asking" => job[l].at = "asking" \/ Cardinality(Running) < run.workers
    PROVE  /\ job' \in [Leaves -> JobRecord]
           /\ job'[l] = e /\ \A m \in Leaves : m # l => job'[m] = job[m]
           /\ Cardinality(Running') <= run.workers
<1>1. job \in [Leaves -> JobRecord]
  BY DEF TypeOK, JobRecord, Content
<1>2. /\ job' \in [Leaves -> JobRecord]
      /\ job'[l] = e /\ \A m \in Leaves : m # l => job'[m] = job[m]
  BY <1>1 DEF SetJob
<1>3. Running' \in SUBSET Leaves /\ Running \in SUBSET Leaves /\ Running' \subseteq Running \cup {l}
  BY <1>2 DEF Running
<1>4. Cardinality(Running) \in Nat /\ Cardinality(Running') \in Nat /\ IsFiniteSet(Running)
  BY <1>3, FiniteParts
<1>5. Cardinality(Running) <= run.workers /\ run.workers \in Nat
  BY DEF TypeOK
<1>6. CASE e.at = "asking" /\ job[l].at # "asking"
  <2>1. l \notin Running /\ Cardinality(Running \cup {l}) = Cardinality(Running) + 1
        /\ IsFiniteSet(Running \cup {l})
    BY <1>4, <1>6, FS_AddElement DEF Running
  <2>2. Cardinality(Running') <= Cardinality(Running) + 1
    BY <2>1, <1>3, FS_Subset
  <2>3. Cardinality(Running) < run.workers
    BY <1>6
  <2> QED
    BY <1>2, <1>4, <1>5, <2>2, <2>3
<1>7. CASE ~(e.at = "asking" /\ job[l].at # "asking")
  <2>1. Running' \subseteq Running
    BY <1>2, <1>7 DEF Running
  <2>2. Cardinality(Running') <= Cardinality(Running)
    BY <2>1, <1>4, FS_Subset
  <2> QED
    BY <1>2, <1>4, <1>5, <2>2
<1> QED
  BY <1>6, <1>7

(* A live job that is not accepted yet moves on, or fails.                  *)
LEMMA JobMoves ==
    ASSUME TypeOK, JobsInv, Live, NEW l \in Leaves, NEW e \in JobRecord,
           job'[l] = e, \A m \in Leaves : m # l => job'[m] = job[m],
           run' = run, rows' = rows, Live',
           job[l].at \notin {"none", "accepted"}, e.at # "none",
           JobSane(e), e.fresh = TRUE => Serial, Settling(e) => Ordered(l)
    PROVE  /\ JobsMatchRows' /\ JobsSane' /\ FreshIsSerial' /\ OrderKept' /\ RunsOnlyLive'
           /\ \A m \in Leaves : m <= l => Ordered(m)' = Ordered(m)
<1>1. JobsMatchRows'
  BY DEF JobsInv, JobsMatchRows, Formed
<1>2. JobsSane'
  BY DEF JobsInv, JobsSane, JobSane
<1>3. Serial' = Serial
  BY DEF Serial
<1>4. FreshIsSerial'
  BY <1>3 DEF JobsInv, FreshIsSerial
<1>5. \A m \in Leaves : m <= l => Ordered(m)' = Ordered(m)
  <2> SUFFICES ASSUME NEW m \in Leaves, m <= l PROVE Ordered(m)' = Ordered(m)
    OBVIOUS
  <2>1. \A k \in Leaves : k < m => k # l
    BY LeavesAre
  <2>2. \A k \in Leaves : k < m => job'[k] = job[k]
    BY <2>1
  <2> QED
    BY <2>2 DEF Ordered
<1>6. OrderKept'
  <2> SUFFICES ASSUME NEW m \in Leaves, Settling(job[m])' PROVE Ordered(m)'
    BY DEF OrderKept
  <2>1. CASE m = l
    BY <2>1, <1>3, <1>5, LeavesAre DEF Settling
  <2>2. CASE m # l
    <3>1. Ordered(m)
      BY <2>2, <1>3 DEF Settling, JobsInv, OrderKept, Formed
    <3>2. ~(l < m)
      BY <3>1 DEF Ordered
    <3> QED
      BY <3>1, <3>2, <1>5, LeavesAre
  <2> QED
    BY <2>1, <2>2
<1> QED
  BY <1>1, <1>2, <1>4, <1>5, <1>6 DEF RunsOnlyLive

(* Whom the guard asks about does not change while another job moves.       *)
LEMMA StillAsked ==
    ASSUME TypeOK, JobsInv, Live, NEW l \in Leaves,
           \A m \in Leaves : m # l => job'[m] = job[m],
           guard' = guard, Live',
           l \notin Asked, job[l].at \notin {"none", "accepted"}, job'[l].at \notin {"none", "accepted"}
    PROVE  Asked' = Asked /\ AskedIsThere'
<1>1. CASE guard.asks = TRUE
  <2>1. PICK a \in Leaves : job[a].at = "answered" /\ Ordered(a)
    BY <1>1 DEF JobsInv, AskedIsThere, Asked
  <2>2. a # l
    BY <2>1, <1>1 DEF Asked
  <2>3. ~(l < a) /\ a < l
    BY <2>1, <2>2, LeavesAre DEF Ordered
  <2>4. job'[a] = job[a] /\ \A m \in Leaves : m < a => job'[m] = job[m]
    BY <2>2, <2>3, LeavesAre
  <2>5. Ordered(a)'
    BY <2>1, <2>4 DEF Ordered
  <2>6. \A m \in Leaves : m # a => ~(job[m].at = "answered" /\ Ordered(m))
    BY <2>1, LeavesAre DEF Ordered
  <2>7. \A m \in Leaves : m # a => ~(job'[m].at = "answered" /\ Ordered(m)')
    <3> SUFFICES ASSUME NEW m \in Leaves, m # a, job'[m].at = "answered", Ordered(m)'
                 PROVE  FALSE
      OBVIOUS
    <3>1. ~(a < m)
      BY <2>1, <2>4 DEF Ordered
    <3>2. m < a
      BY <3>1, LeavesAre
    <3>3. job'[m] = job[m] /\ job[m].at \in {"none", "accepted"}
      BY <3>2, <2>1, <2>4 DEF Ordered
    <3> QED
      BY <3>3
  <2>8. Asked = {a}
    BY <1>1, <2>1, <2>6 DEF Asked
  <2>9. Asked' = {a}
    BY <1>1, <2>1, <2>4, <2>5, <2>7 DEF Asked
  <2> QED
    BY <2>8, <2>9 DEF AskedIsThere
<1>2. CASE guard.asks # TRUE
  <2>1. guard.asks = FALSE
    BY <1>2 DEF TypeOK
  <2> QED
    BY <1>2, <2>1 DEF Asked, AskedIsThere
<1> QED
  BY <1>1, <1>2

Inv1 == TypeOK /\ JobsInv

LEMMA KeyIs ==
    ASSUME TypeOK, NEW l \in Leaves
    PROVE  /\ Key(l) \in Keys
           /\ l1 \in [Keys -> Content] /\ l2 \in [Keys -> Content]
           /\ l1[Key(l)] \in Content /\ l2[Key(l)] \in Content
<1>1. Key(l) \in Keys
  BY DEF TypeOK, Key, Keys, Shapes
<1>2. l1 \in [Keys -> Content] /\ l2 \in [Keys -> Content]
  BY DEF TypeOK, Content
<1> QED
  BY <1>1, <1>2

LEMMA RememberType ==
    ASSUME TypeOK, NEW l \in Leaves, NEW text \in Content, Remember(l, text)
    PROVE  l1' \in [Keys -> Content] /\ l2' \in [Keys -> Content]
BY KeyIs DEF Remember

(* The parts of the type that the steps of an attempt leave alone.          *)
LEMMA TypeStays ==
    ASSUME TypeOK, UNCHANGED <<doc, run, provider, file>>,
           status' \in {"idle", "opened", "building", "failing", "interrupted", "built"},
           work' \in [Leaves -> Content], cursor' \in 1 .. N + 1, rows' \in [Leaves -> RowNames],
           job' \in [Leaves -> JobRecord], guard' \in [count : Nat, asks : BOOLEAN, declined : BOOLEAN],
           late' \subseteq Keys, paid' \subseteq Keys,
           l1' \in [Keys -> Content], l2' \in [Keys -> Content],
           Cardinality(Running') <= run.workers
    PROVE  TypeOK'
<1>1. file.texts \in [Keys -> Content]
  BY DEF TypeOK, Content
<1>2. {l1, l2, file.texts}' \subseteq [Keys -> Content]
  BY <1>1
<1>3. doc' \in [Leaves -> Content] /\ provider' \in Providers
      /\ run' \in [cmd : Commands \cup {"plain"}, workers : Nat, tty : BOOLEAN, n : 0 .. MaxRuns]
  BY DEF TypeOK, Content
<1>4. Cardinality(Running') <= run'.workers
  OBVIOUS
<1> QED
  BY <1>2, <1>3, <1>4 DEF TypeOK, Content, RowNames, JobRecord, N

LEMMA TypeParts ==
    ASSUME TypeOK
    PROVE  /\ work \in [Leaves -> Content] /\ cursor \in 1 .. N + 1 /\ rows \in [Leaves -> RowNames]
           /\ job \in [Leaves -> JobRecord] /\ guard \in [count : Nat, asks : BOOLEAN, declined : BOOLEAN]
           /\ l1 \in [Keys -> Content] /\ l2 \in [Keys -> Content] /\ doc \in [Leaves -> Content]
           /\ late \subseteq Keys /\ paid \subseteq Keys
           /\ status \in {"idle", "opened", "building", "failing", "interrupted", "built"}
           /\ Cardinality(Running) <= run.workers
BY DEF TypeOK, Content, RowNames, JobRecord, N

LEMMA StartJobs ==
    ASSUME Inv1, NEW l \in Leaves, Start(l)
    PROVE  Inv1'
<1> DEFINE hit == IF l1[Key(l)] # None THEN l1[Key(l)] ELSE l2[Key(l)]
<1>1. TypeOK /\ JobsInv /\ Live /\ Live' /\ job[l].at = "waiting"
  BY DEF Inv1, Start, Live
<1>2. JobSane(job[l]) /\ job[l] \in JobRecord /\ job[l].tries < MaxTries
      /\ job[l].fresh = FALSE
  BY <1>1, JobFacts DEF JobsInv, JobsSane, JobSane
<1>3. hit \in Content
  BY <1>1, KeyIs
<1> HIDE DEF hit
<1>4. PICK e : e = IF hit = None THEN [job[l] EXCEPT !.at = "asking"]
                   ELSE [job[l] EXCEPT !.at = "answered", !.text = hit]
  OBVIOUS
<1>5. SetJob(l, e) /\ e.at \in {"asking", "answered"} /\ e.fresh = FALSE /\ e \in JobRecord
      /\ JobSane(e)
  <2>1. SetJob(l, e)
    BY <1>4 DEF Start, hit
  <2>2. CASE hit = None
    <3>1. e = [job[l] EXCEPT !.at = "asking"]
      BY <1>4, <2>2
    <3> QED
      BY <2>1, <3>1, <1>2 DEF JobRecord, JobSane
  <2>3. CASE hit # None
    <3>1. e = [job[l] EXCEPT !.at = "answered", !.text = hit]
      BY <1>4, <2>3
    <3> QED
      BY <2>1, <2>3, <3>1, <1>2, <1>3 DEF JobRecord, JobSane
  <2> QED
    BY <2>2, <2>3
<1>6. run' = run /\ rows' = rows /\ guard' = guard
  BY DEF Start
<1>7. Serial => Ordered(l)
  BY DEF Start
<1>8. Cardinality(Running) < run.workers
  <2>1. CASE Serial
    <3>1. ASSUME NEW m \in Leaves, job[m].at = "asking" PROVE FALSE
      <4>1. Ordered(m) /\ Ordered(l)
        BY <2>1, <3>1, <1>1, <1>7 DEF JobsInv, OrderKept, Settling, Formed
      <4>2. ~(l < m) /\ ~(m < l)
        BY <4>1, <1>1, <3>1 DEF Ordered
      <4>3. m = l
        BY <4>2, LeavesAre
      <4> QED
        BY <4>3, <3>1, <1>1
    <3>2. Running = {}
      BY <3>1 DEF Running
    <3> QED
      BY <3>2, <2>1, FS_EmptySet DEF Serial
  <2>2. CASE ~Serial
    BY <2>2 DEF Start
  <2> QED
    BY <2>1, <2>2
<1>9. /\ job' \in [Leaves -> JobRecord]
      /\ job'[l] = e /\ \A m \in Leaves : m # l => job'[m] = job[m]
      /\ Cardinality(Running') <= run.workers
  BY <1>1, <1>5, <1>6, <1>8, OneJob
<1>10. /\ JobsMatchRows' /\ JobsSane' /\ FreshIsSerial' /\ OrderKept' /\ RunsOnlyLive'
  <2>1. job[l].at \notin {"none", "accepted"} /\ e.at # "none" /\ (e.fresh = TRUE => Serial)
        /\ (Settling(e) => Ordered(l))
    BY <1>1, <1>5, <1>7 DEF Settling
  <2> QED
    BY <2>1, <1>1, <1>5, <1>6, <1>9, JobMoves
<1>11. AskedIsThere'
  <2>1. l \notin Asked /\ job[l].at \notin {"none", "accepted"} /\ job'[l].at \notin {"none", "accepted"}
    BY <1>1, <1>5, <1>9 DEF Asked
  <2> QED
    BY <2>1, <1>1, <1>6, <1>9, StillAsked
<1>12. TypeOK'
  <2>1. l1' \in [Keys -> Content]
    BY <1>1, <1>3, KeyIs DEF Start, hit
  <2>2. UNCHANGED <<doc, run, status, provider, work, cursor, rows, guard, late, l2, file, paid>>
    BY DEF Start
  <2> QED
    BY <1>1, <1>9, <2>1, <2>2, TypeParts, TypeStays
<1> QED
  BY <1>10, <1>11, <1>12 DEF Inv1, JobsInv

LEMMA ReplyJobs ==
    ASSUME Inv1, NEW l \in Leaves, Reply(l)
    PROVE  Inv1'
<1>1. TypeOK /\ JobsInv /\ job[l].at = "asking"
  BY DEF Inv1, Reply
<1>2. Live /\ Live'
  BY <1>1 DEF JobsInv, RunsOnlyLive, Running, Live, Reply
<1>3. JobSane(job[l]) /\ job[l] \in JobRecord /\ job[l].tries < MaxTries
  BY <1>1, JobFacts DEF JobsInv, JobsSane, JobSane
<1>4. PICK text \in Replies(l) :
        /\ SetJob(l, [job[l] EXCEPT !.at = "answered", !.text = text, !.fresh = Serial])
        /\ paid' = paid \cup {Key(l)}
        /\ IF Serial THEN UNCHANGED <<l1, l2>> ELSE Remember(l, text)
  BY DEF Reply
<1>5. text \in Content /\ text # None
  BY ATextIsReal DEF Replies, Text, Phs, Content
<1>6. PICK e : e = [job[l] EXCEPT !.at = "answered", !.text = text, !.fresh = Serial]
  OBVIOUS
<1>7. Serial \in BOOLEAN
  BY DEF Serial
<1>8. SetJob(l, e) /\ e.at = "answered" /\ e.fresh = Serial /\ e \in JobRecord /\ JobSane(e)
  <2>1. SetJob(l, e)
    BY <1>4, <1>6
  <2>2. e \in JobRecord
    BY <1>3, <1>5, <1>6, <1>7 DEF JobRecord
  <2>3. e.at = "answered" /\ e.text = text /\ e.tries = job[l].tries /\ e.fresh = Serial
    BY <1>3, <1>6 DEF JobRecord
  <2> QED
    BY <2>1, <2>2, <2>3, <1>3, <1>5 DEF JobSane
<1>9. run' = run /\ rows' = rows /\ guard' = guard
  BY DEF Reply
<1>10. /\ job' \in [Leaves -> JobRecord]
       /\ job'[l] = e /\ \A m \in Leaves : m # l => job'[m] = job[m]
       /\ Cardinality(Running') <= run.workers
  BY <1>1, <1>8, <1>9, OneJob
<1>11. Settling(e) => Ordered(l)
  BY <1>1, <1>2, <1>8 DEF Settling, JobsInv, OrderKept, Formed
<1>12. /\ JobsMatchRows' /\ JobsSane' /\ FreshIsSerial' /\ OrderKept' /\ RunsOnlyLive'
  <2>1. job[l].at \notin {"none", "accepted"} /\ e.at # "none" /\ (e.fresh = TRUE => Serial)
    BY <1>1, <1>8
  <2> QED
    BY <2>1, <1>1, <1>2, <1>8, <1>9, <1>10, <1>11, JobMoves
<1>13. AskedIsThere'
  <2>1. l \notin Asked /\ job[l].at \notin {"none", "accepted"} /\ job'[l].at \notin {"none", "accepted"}
    BY <1>1, <1>8, <1>10 DEF Asked
  <2> QED
    BY <2>1, <1>1, <1>2, <1>9, <1>10, StillAsked
<1>14. TypeOK'
  <2>1. l1' \in [Keys -> Content] /\ l2' \in [Keys -> Content]
    BY <1>1, <1>4, <1>5, TypeParts, RememberType
  <2>2. paid' \subseteq Keys
    BY <1>1, <1>4, TypeParts, KeyIs
  <2>3. UNCHANGED <<doc, run, status, provider, work, cursor, rows, guard, late, file>>
    BY DEF Reply
  <2> QED
    BY <1>1, <1>10, <2>1, <2>2, <2>3, TypeParts, TypeStays
<1> QED
  BY <1>12, <1>13, <1>14 DEF Inv1, JobsInv

(* A try that failed: another one, or the job fails.                        *)
LEMMA TryAgainJobs ==
    ASSUME Inv1, NEW l \in Leaves, Live, job[l].at \in {"asking", "answered"}, TryAgain(l),
           run' = run, rows' = rows, job[l].at = "answered" => Serial /\ Ordered(l)
    PROVE  /\ JobsMatchRows' /\ JobsSane' /\ FreshIsSerial' /\ OrderKept' /\ RunsOnlyLive'
           /\ job' \in [Leaves -> JobRecord] /\ Cardinality(Running') <= run.workers
           /\ Live' /\ job'[l].at \in {"asking", "failed"} /\ job'[l].fresh = FALSE
           /\ \A m \in Leaves : m # l => job'[m] = job[m]
<1>1. TypeOK /\ JobsInv
  BY DEF Inv1
<1>2. JobSane(job[l]) /\ job[l] \in JobRecord /\ job[l].tries < MaxTries /\ job[l].tries \in 0 .. MaxTries
  BY <1>1, JobFacts DEF JobsInv, JobsSane, JobSane
<1>3. PICK e : e = [NoJob EXCEPT !.tries = job[l].tries + 1,
                                 !.at = IF job[l].tries + 1 < MaxTries THEN "asking" ELSE "failed"]
  OBVIOUS
<1>4. SetJob(l, e) /\ status' \in {status, "failing"}
  BY <1>3 DEF TryAgain
<1>5. e.at \in {"asking", "failed"} /\ e.fresh = FALSE /\ e.tries = job[l].tries + 1
      /\ (e.at = "asking" => job[l].tries + 1 < MaxTries) /\ e \in JobRecord
  <2>1. job[l].tries + 1 \in 0 .. MaxTries
    BY <1>2, LocaleBuildAssumption
  <2> QED
    BY <1>3, <2>1, NoJobIs DEF NoJob, JobRecord
<1>6. JobSane(e)
  BY <1>5 DEF JobSane
<1>7. Live'
  BY <1>4 DEF Live
<1>8. e.at = "asking" => job[l].at = "asking" \/ Cardinality(Running) < run.workers
  <2>1. CASE job[l].at = "answered"
    <3>1. ASSUME NEW m \in Leaves, job[m].at = "asking" PROVE FALSE
      <4>1. Ordered(m) /\ Ordered(l)
        BY <2>1, <3>1, <1>1 DEF JobsInv, OrderKept, Settling, Formed
      <4>2. ~(l < m) /\ ~(m < l) /\ m # l
        BY <4>1, <2>1, <3>1 DEF Ordered
      <4> QED
        BY <4>2, LeavesAre
    <3>2. Running = {}
      BY <3>1 DEF Running
    <3> QED
      BY <3>2, <2>1, FS_EmptySet DEF Serial
  <2> QED
    BY <2>1
<1>9. /\ job' \in [Leaves -> JobRecord]
      /\ job'[l] = e /\ \A m \in Leaves : m # l => job'[m] = job[m]
      /\ Cardinality(Running') <= run.workers
  BY <1>1, <1>4, <1>5, <1>8, OneJob
<1>10. Settling(e) => Ordered(l)
  BY <1>1, <1>5 DEF Settling, JobsInv, OrderKept, Formed
<1>11. job[l].at \notin {"none", "accepted"} /\ e.at # "none" /\ (e.fresh = TRUE => Serial)
  BY <1>5
<1>12. /\ JobsMatchRows' /\ JobsSane' /\ FreshIsSerial' /\ OrderKept' /\ RunsOnlyLive'
  BY <1>1, <1>5, <1>6, <1>7, <1>9, <1>10, <1>11, JobMoves
<1> QED
  BY <1>12, <1>9, <1>5, <1>7

LEMMA ReplyFailsJobs ==
    ASSUME Inv1, NEW l \in Leaves, ReplyFails(l)
    PROVE  Inv1'
<1>1. TypeOK /\ JobsInv /\ job[l].at = "asking" /\ TryAgain(l)
  BY DEF Inv1, ReplyFails
<1>2. Live
  BY <1>1 DEF JobsInv, RunsOnlyLive, Running
<1>3. UNCHANGED <<doc, run, provider, work, cursor, rows, guard, late, cacheVars>>
  BY DEF ReplyFails
<1>4. /\ JobsMatchRows' /\ JobsSane' /\ FreshIsSerial' /\ OrderKept' /\ RunsOnlyLive'
      /\ job' \in [Leaves -> JobRecord] /\ Cardinality(Running') <= run.workers
      /\ Live' /\ job'[l].at \in {"asking", "failed"}
      /\ \A m \in Leaves : m # l => job'[m] = job[m]
  BY <1>1, <1>2, <1>3, TryAgainJobs
<1>5. AskedIsThere'
  <2>1. l \notin Asked /\ job[l].at \notin {"none", "accepted"} /\ job'[l].at \notin {"none", "accepted"}
    BY <1>1, <1>4 DEF Asked
  <2> QED
    BY <2>1, <1>1, <1>2, <1>3, <1>4, StillAsked
<1>6. TypeOK'
  <2>1. UNCHANGED <<doc, run, provider, work, cursor, rows, guard, late, l1, l2, file, paid>>
    BY <1>3 DEF cacheVars
  <2>2. status' \in {"building", "failing"}
    BY <1>4 DEF Live
  <2> QED
    BY <1>1, <1>4, <2>1, <2>2, TypeParts, TypeStays
<1> QED
  BY <1>4, <1>5, <1>6 DEF Inv1, JobsInv

LEMMA RowsType == ASSUME NEW w PROVE Rows(w) \in [Leaves -> RowNames]
<1>1. ASSUME NEW l \in Leaves PROVE FullRow(l, w) \in RowNames /\ ResumeRow(l, w) \in RowNames
  <2>1. Source[l].kind \in {"text", "preserve", "parity", "placeholder", "empty"}
    BY LocaleBuildAssumption
  <2>2. FullRow(l, w) \in RowNames
    BY <2>1 DEF FullRow, RowNames
  <2>3. ResumeRow(l, w) \in RowNames
    BY DEF ResumeRow, RowNames
  <2> QED
    BY <2>2, <2>3
<1> QED
  BY <1>1 DEF Rows

LEMMA PlacedType ==
    ASSUME TypeOK, NEW l \in Leaves, NEW r \in RowNames, NEW w \in [Leaves -> Content],
           NEW done \in [Leaves -> JobRecord]
    PROVE  Placed(l, r, w, done) \in Content
<1>1. SourceText(l) \in Content /\ doc[l] \in Content /\ w[l] \in Content
  BY ATextIsReal, TypeParts DEF Content
<1>2. done[l].text \in Content
  BY DEF JobRecord
<1> QED
  BY <1>1, <1>2 DEF Placed, RowNames

LEMMA AdvanceType ==
    ASSUME TypeOK, NEW c \in 1 .. N + 1, NEW rs \in [Leaves -> RowNames],
           NEW w \in [Leaves -> Content], NEW done \in [Leaves -> JobRecord],
           Advance(c, rs, w, done)
    PROVE  cursor' \in 1 .. N + 1 /\ work' \in [Leaves -> Content]
<1>1. \A l \in Leaves : Placed(l, rs[l], w, done) \in Content /\ w[l] \in Content
  BY PlacedType
<1>2. /\ cursor' \in 1 .. N + 1
      /\ work' = [l \in Leaves |-> IF l >= c /\ l < cursor' THEN Placed(l, rs[l], w, done)
                                   ELSE w[l]]
  BY AdvanceEffect
<1> QED
  BY <1>1, <1>2

LEMMA AcceptJobs ==
    ASSUME Inv1, NEW l \in Leaves, Live, job[l].at = "answered", Ordered(l), Accept(l),
           UNCHANGED <<run, rows, status>>
    PROVE  /\ JobsMatchRows' /\ JobsSane' /\ FreshIsSerial' /\ OrderKept' /\ RunsOnlyLive'
           /\ job' \in [Leaves -> JobRecord] /\ Cardinality(Running') <= run.workers
           /\ job'[l] = [job[l] EXCEPT !.at = "accepted"]
           /\ \A m \in Leaves : m # l => job'[m] = job[m]
           /\ work' \in [Leaves -> Content] /\ cursor' \in 1 .. N + 1
           /\ l1' \in [Keys -> Content] /\ l2' \in [Keys -> Content]
<1>1. TypeOK /\ JobsInv
  BY DEF Inv1
<1>2. JobSane(job[l]) /\ job[l] \in JobRecord
  BY <1>1, JobFacts DEF JobsInv, JobsSane
<1>3. PICK e : e = [job[l] EXCEPT !.at = "accepted"]
  OBVIOUS
<1>4. SetJob(l, e)
  <2>1. job' = [job EXCEPT ![l].at = "accepted"]
    BY DEF Accept
  <2> QED
    BY <2>1, <1>3 DEF SetJob
<1>5. e \in JobRecord /\ e.at = "accepted" /\ e.fresh = job[l].fresh /\ JobSane(e)
  BY <1>2, <1>3 DEF JobRecord, JobSane
<1>6. /\ job' \in [Leaves -> JobRecord]
      /\ job'[l] = e /\ \A m \in Leaves : m # l => job'[m] = job[m]
      /\ Cardinality(Running') <= run.workers
  BY <1>1, <1>4, <1>5, OneJob
<1>7. job[l].at \notin {"none", "accepted"} /\ e.at # "none" /\ (e.fresh = TRUE => Serial)
      /\ (Settling(e) => Ordered(l)) /\ Live'
  BY <1>1, <1>5 DEF JobsInv, FreshIsSerial, Live
<1>8. /\ JobsMatchRows' /\ JobsSane' /\ FreshIsSerial' /\ OrderKept' /\ RunsOnlyLive'
  BY <1>1, <1>5, <1>6, <1>7, JobMoves
<1>9. work' \in [Leaves -> Content] /\ cursor' \in 1 .. N + 1
  <2>1. CASE Resume
    BY <2>1, <1>1, TypeParts DEF Accept
  <2>2. CASE ~Resume
    <3>1. Advance(cursor, rows, work, job')
      BY <2>2 DEF Accept
    <3>2. cursor \in 1 .. N + 1 /\ rows \in [Leaves -> RowNames] /\ work \in [Leaves -> Content]
      BY <1>1, TypeParts
    <3>3. PICK done \in [Leaves -> JobRecord] : done = job'
      BY <1>6
    <3>4. Advance(cursor, rows, work, done)
      BY <3>1, <3>3
    <3> QED
      BY <1>1, <3>2, <3>4, AdvanceType
  <2> QED
    BY <2>1, <2>2
<1>10. l1' \in [Keys -> Content] /\ l2' \in [Keys -> Content]
  <2>1. Remember(l, job[l].text) \/ UNCHANGED <<l1, l2>>
    BY DEF Accept
  <2>2. job[l].text \in Content
    BY <1>1, JobFacts
  <2> QED
    BY <1>1, <2>1, <2>2, TypeParts, RememberType
<1> QED
  BY <1>3, <1>6, <1>8, <1>9, <1>10

LEMMA StreakType ==
    ASSUME TypeOK, NEW l \in Leaves
    PROVE  Streak(l) \in Nat
BY DEF TypeOK, Streak

LEMMA HandJobs ==
    ASSUME Inv1, NEW l \in Leaves, Hand(l)
    PROVE  Inv1'
<1> DEFINE ask == Warns(Streak(l)) /\ run.tty
<1>1. TypeOK /\ JobsInv /\ Live /\ Live' /\ job[l].at = "answered" /\ Ordered(l)
      /\ guard' = [guard EXCEPT !.count = Streak(l), !.asks = ask]
  BY DEF Inv1, Hand, Live
<1>2. UNCHANGED <<doc, run, status, provider, rows, late, file, epoch, paid>>
  BY DEF Hand
<1>3. run.tty \in BOOLEAN
  BY <1>1 DEF TypeOK
<1>4. ask \in BOOLEAN
  BY <1>3, Zenon DEF Warns
<1>5. CASE ask
  <2>1. UNCHANGED <<work, cursor, job, l1, l2>>
    BY <1>5 DEF Hand
  <2>2. guard' \in [count : Nat, asks : BOOLEAN, declined : BOOLEAN]
    <3>1. Streak(l) \in Nat /\ guard \in [count : Nat, asks : BOOLEAN, declined : BOOLEAN]
      BY <1>1, StreakType, TypeParts
    <3> HIDE DEF ask
    <3> QED
      BY <3>1, <1>1, <1>4
  <2>3. guard'.asks = TRUE
    <3>1. guard \in [count : Nat, asks : BOOLEAN, declined : BOOLEAN]
      BY <1>1, TypeParts
    <3>2. ask = TRUE
      BY <1>5, <1>4
    <3> HIDE DEF ask
    <3> QED
      BY <3>1, <3>2, <1>1
  <2>4. AskedIsThere'
    <3>1. l \in Asked'
      BY <2>1, <2>3, <1>1 DEF Asked, Ordered
    <3> QED
      BY <3>1, <1>1 DEF AskedIsThere
  <2>5. TypeOK'
    <3>1. Cardinality(Running') <= run.workers
      BY <2>1, <1>1, TypeParts DEF Running
    <3> QED
      BY <3>1, <2>1, <2>2, <1>1, <1>2, TypeParts, TypeStays
  <2>6. /\ JobsMatchRows' /\ JobsSane' /\ FreshIsSerial' /\ OrderKept' /\ RunsOnlyLive'
    BY <2>1, <1>1, <1>2 DEF JobsInv, JobsMatchRows, JobsSane, FreshIsSerial, OrderKept, RunsOnlyLive,
      Live, Formed, Running, Serial, Settling, Ordered, JobSane
  <2> QED
    BY <2>4, <2>5, <2>6 DEF Inv1, JobsInv
<1>6. CASE ~ask
  <2>1. Accept(l)
    BY <1>6 DEF Hand
  <2>2. /\ JobsMatchRows' /\ JobsSane' /\ FreshIsSerial' /\ OrderKept' /\ RunsOnlyLive'
        /\ job' \in [Leaves -> JobRecord] /\ Cardinality(Running') <= run.workers
        /\ work' \in [Leaves -> Content] /\ cursor' \in 1 .. N + 1
        /\ l1' \in [Keys -> Content] /\ l2' \in [Keys -> Content]
    BY <2>1, <1>1, <1>2, AcceptJobs
  <2>3. guard' \in [count : Nat, asks : BOOLEAN, declined : BOOLEAN] /\ guard'.asks = FALSE
    <3>1. Streak(l) \in Nat /\ guard \in [count : Nat, asks : BOOLEAN, declined : BOOLEAN]
      BY <1>1, StreakType, TypeParts
    <3>2. ask = FALSE
      BY <1>6, <1>4
    <3> HIDE DEF ask
    <3> QED
      BY <3>1, <3>2, <1>1
  <2>4. AskedIsThere'
    BY <2>3 DEF AskedIsThere
  <2>5. TypeOK'
    BY <2>2, <2>3, <1>1, <1>2, TypeParts, TypeStays
  <2> QED
    BY <2>2, <2>4, <2>5 DEF Inv1, JobsInv
<1> QED
  BY <1>5, <1>6

LEMMA AskedIs ==
    ASSUME Inv1, NEW l \in Asked
    PROVE  l \in Leaves /\ Live /\ guard.asks = TRUE /\ job[l].at = "answered" /\ Ordered(l)
BY DEF Inv1, Asked, JobsInv, AskedIsThere, TypeOK

LEMMA ConfirmJobs ==
    ASSUME Inv1, NEW l \in Leaves, Confirm(l)
    PROVE  Inv1'
<1>1. TypeOK /\ JobsInv /\ Live /\ job[l].at = "answered" /\ Ordered(l) /\ Accept(l)
      /\ guard' = [guard EXCEPT !.asks = FALSE]
  BY AskedIs DEF Inv1, Confirm
<1>2. UNCHANGED <<doc, run, status, provider, rows, late, file, epoch, paid>>
  BY DEF Confirm
<1>3. /\ JobsMatchRows' /\ JobsSane' /\ FreshIsSerial' /\ OrderKept' /\ RunsOnlyLive'
      /\ job' \in [Leaves -> JobRecord] /\ Cardinality(Running') <= run.workers
      /\ work' \in [Leaves -> Content] /\ cursor' \in 1 .. N + 1
      /\ l1' \in [Keys -> Content] /\ l2' \in [Keys -> Content]
  BY <1>1, <1>2, AcceptJobs
<1>4. guard' \in [count : Nat, asks : BOOLEAN, declined : BOOLEAN] /\ guard'.asks = FALSE
  BY <1>1, TypeParts
<1>5. AskedIsThere'
  BY <1>4 DEF AskedIsThere
<1>6. TypeOK'
  BY <1>1, <1>2, <1>3, <1>4, TypeParts, TypeStays
<1> QED
  BY <1>3, <1>5, <1>6 DEF Inv1, JobsInv

LEMMA ResumeResultType ==
    ASSUME TypeOK, NEW jobs \in [Leaves -> JobRecord]
    PROVE  ResumeResult(jobs) \in [Leaves -> Content]
<1>1. \A l \in Leaves : jobs[l].text \in Content /\ work[l] \in Content
  BY TypeParts DEF JobRecord
<1> QED
  BY <1>1 DEF ResumeResult

\* What the first layer asks of a state in which no job is alive.
LEMMA QuietJobs ==
    ASSUME status' \notin {"building", "failing", "built"}, guard'.asks = FALSE,
           \A l \in Leaves : JobSane(job'[l]) /\ job'[l].at # "asking"
    PROVE  JobsInv'
BY DEF JobsInv, JobsMatchRows, JobsSane, FreshIsSerial, OrderKept, RunsOnlyLive, AskedIsThere,
   Live, Formed, Running, JobSane

LEMMA DeclineJobs ==
    ASSUME Inv1, NEW l \in Leaves, Decline(l)
    PROVE  Inv1'
<1>1. TypeOK /\ JobsInv /\ Live /\ job[l].at = "answered" /\ Ordered(l)
      /\ guard' = [guard EXCEPT !.asks = FALSE, !.declined = TRUE]
  BY AskedIs DEF Inv1, Decline
<1>2. UNCHANGED <<doc, run, provider, rows, cacheVars>>
  BY DEF Decline
<1>3. guard' \in [count : Nat, asks : BOOLEAN, declined : BOOLEAN] /\ guard'.asks = FALSE
  BY <1>1, TypeParts
<1>4. UNCHANGED <<l1, l2, file, paid>>
  BY <1>2 DEF cacheVars
<1>5. CASE Serial /\ job[l].fresh
  <2>1. TryAgain(l) /\ UNCHANGED <<work, cursor, late>>
    BY <1>5 DEF Decline
  <2>2. /\ JobsMatchRows' /\ JobsSane' /\ FreshIsSerial' /\ OrderKept' /\ RunsOnlyLive'
        /\ job' \in [Leaves -> JobRecord] /\ Cardinality(Running') <= run.workers
        /\ Live'
    BY <1>1, <1>2, <1>5, <2>1, TryAgainJobs
  <2>3. AskedIsThere'
    BY <1>3 DEF AskedIsThere
  <2>4. status' \in {"building", "failing"}
    BY <2>2 DEF Live
  <2>5. TypeOK'
    BY <1>1, <1>2, <1>3, <1>4, <2>1, <2>2, <2>4, TypeParts, TypeStays
  <2> QED
    BY <2>2, <2>3, <2>5 DEF Inv1, JobsInv
<1>6. CASE ~(Serial /\ job[l].fresh)
  <2>1. /\ status' = "interrupted"
        /\ late' = late \cup {Key(m) : m \in Running}
        /\ job' = [m \in Leaves |-> IF job[m].at = "accepted" THEN job[m] ELSE NoJob]
        /\ work' = IF ~Resume THEN work
                   ELSE ResumeResult(IF Serial THEN job ELSE [job EXCEPT ![l].at = "accepted"])
        /\ UNCHANGED cursor
    BY <1>6 DEF Decline
  <2>2. job \in [Leaves -> JobRecord]
    BY <1>1, TypeParts
  <2>3. job' \in [Leaves -> JobRecord]
    BY <2>1, <2>2, NoJobIs
  <2>4. \A m \in Leaves : JobSane(job'[m]) /\ job'[m].at # "asking"
    <3>1. NoJob.at = "none"
      BY DEF NoJob
    <3> QED
      BY <2>1, <3>1, <1>1, NoJobIs DEF JobsInv, JobsSane
  <2>5. JobsInv'
    BY <2>1, <2>4, <1>3, QuietJobs
  <2>6. late' \subseteq Keys
    BY <2>1, <1>1, TypeParts, KeyIs DEF Running
  <2>7. work' \in [Leaves -> Content]
    <3>1. [job EXCEPT ![l].at = "accepted"] \in [Leaves -> JobRecord]
      <4>1. [job[l] EXCEPT !.at = "accepted"] \in JobRecord
        BY <2>2 DEF JobRecord
      <4> QED
        BY <4>1, <2>2
    <3>2. PICK jobs \in [Leaves -> JobRecord] :
            jobs = IF Serial THEN job ELSE [job EXCEPT ![l].at = "accepted"]
      BY <2>2, <3>1
    <3>3. ResumeResult(jobs) \in [Leaves -> Content]
      BY <1>1, ResumeResultType
    <3> QED
      BY <2>1, <3>2, <3>3, <1>1, TypeParts
  <2>8. Cardinality(Running') <= run.workers
    <3>1. Running' = {}
      BY <2>4 DEF Running
    <3> QED
      BY <3>1, <1>1, FS_EmptySet DEF TypeOK
  <2>9. TypeOK'
    BY <1>1, <1>2, <1>3, <1>4, <2>1, <2>3, <2>6, <2>7, <2>8, TypeParts, TypeStays
  <2> QED
    BY <2>5, <2>9 DEF Inv1
<1> QED
  BY <1>5, <1>6

(* A new attempt: rows anew, a job for each to be translated.               *)
LEMMA AttemptEffect ==
    ASSUME Inv1, ~Live, NEW w \in [Leaves -> Content], Attempt(w), run' = run
    PROVE  /\ rows' = Rows(w) /\ rows' \in [Leaves -> RowNames]
           /\ job' = JobsOf(rows') /\ job' \in [Leaves -> JobRecord]
           /\ \A l \in Leaves : /\ job'[l].at = IF rows'[l] = "translate" THEN "waiting" ELSE "none"
                                /\ job'[l].fresh = FALSE
           /\ Running' = {} /\ Live' /\ JobsInv'
           /\ guard' = [guard EXCEPT !.count = 0] /\ guard'.asks = FALSE
           /\ guard' \in [count : Nat, asks : BOOLEAN, declined : BOOLEAN]
           /\ work' \in [Leaves -> Content] /\ cursor' \in 1 .. N + 1
           /\ ~Resume => Advance(1, rows', w, job')
           /\ Resume => work' = [l \in Leaves |-> IF rows'[l] = "copy" THEN SourceText(l) ELSE w[l]]
<1>1. TypeOK /\ JobsInv
  BY DEF Inv1
<1>2. rows' = Rows(w) /\ job' = JobsOf(rows') /\ status' = "building"
      /\ guard' = [guard EXCEPT !.count = 0]
  BY DEF Attempt
<1>3. rows' \in [Leaves -> RowNames]
  BY <1>2, RowsType
<1>4. /\ job' \in [Leaves -> JobRecord]
      /\ \A l \in Leaves : /\ job'[l].at = IF rows'[l] = "translate" THEN "waiting" ELSE "none"
                           /\ job'[l].fresh = FALSE /\ JobSane(job'[l])
  <2>1. PICK rest : rest = [NoJob EXCEPT !.at = "none"]
    OBVIOUS
  <2>2. PICK wait : wait = [NoJob EXCEPT !.at = "waiting"]
    OBVIOUS
  <2>5. rest.at = "none" /\ rest.fresh = FALSE /\ rest \in JobRecord /\ JobSane(rest)
    <3>1. None \in Content /\ 0 \in 0 .. MaxTries
      BY LocaleBuildAssumption DEF Content
    <3> QED
      BY <2>1, <3>1 DEF NoJob, JobRecord, JobSane
  <2>3. wait.at = "waiting" /\ wait.fresh = FALSE /\ wait \in JobRecord /\ JobSane(wait)
    BY <2>2, NoJobIs DEF NoJob
  <2>4. job' = [l \in Leaves |-> IF rows'[l] = "translate" THEN wait ELSE rest]
    <3>1. \A l \in Leaves : JobsOf(rows')[l] = IF rows'[l] = "translate" THEN wait ELSE rest
      <4> SUFFICES ASSUME NEW l \in Leaves
                   PROVE JobsOf(rows')[l] = IF rows'[l] = "translate" THEN wait ELSE rest
        OBVIOUS
      <4>1. CASE rows'[l] = "translate"
        BY <4>1, <2>2 DEF JobsOf
      <4>2. CASE rows'[l] # "translate"
        BY <4>2, <2>1 DEF JobsOf
      <4> QED
        BY <4>1, <4>2
    <3> QED
      BY <3>1, <1>2 DEF JobsOf
  <2> QED
    BY <2>3, <2>4, <2>5
<1>5. guard.asks = FALSE
  BY <1>1 DEF JobsInv, AskedIsThere, TypeOK
<1>6. guard' \in [count : Nat, asks : BOOLEAN, declined : BOOLEAN] /\ guard'.asks = FALSE
  BY <1>1, <1>2, <1>5, TypeParts
<1>7. ~Resume => Advance(1, rows', w, job')
  BY <1>2 DEF Attempt
<1>8. Resume => cursor' = 1 /\ work' = [l \in Leaves |-> IF rows'[l] = "copy" THEN SourceText(l)
                                                        ELSE w[l]]
  BY <1>2 DEF Attempt
<1>9. work' \in [Leaves -> Content] /\ cursor' \in 1 .. N + 1
  <2>1. CASE Resume
    BY <2>1, <1>8, ATextIsReal, LeavesAre DEF Content
  <2>2. CASE ~Resume
    <3>1. PICK rs \in [Leaves -> RowNames], done \in [Leaves -> JobRecord] : rs = rows' /\ done = job'
      BY <1>3, <1>4
    <3>2. Advance(1, rs, w, done) /\ 1 \in 1 .. N + 1
      BY <2>2, <3>1, <1>7, LeavesAre
    <3> QED
      BY <3>2, <1>1, AdvanceType
  <2> QED
    BY <2>1, <2>2
<1>10. Running' = {} /\ Live'
  BY <1>2, <1>4 DEF Running, Live
<1>11. JobsInv'
  BY <1>4, <1>6, <1>10 DEF JobsInv, JobsMatchRows, JobsSane, FreshIsSerial, OrderKept, RunsOnlyLive,
    AskedIsThere, Settling
<1> QED
  BY <1>2, <1>3, <1>4, <1>6, <1>7, <1>8, <1>9, <1>10, <1>11

LEMMA AttemptsJobs ==
    ASSUME Inv1, FirstAttempt \/ NextAttempt
    PROVE  Inv1'
<1>1. TypeOK /\ Attempt(work) /\ ~Live /\ work \in [Leaves -> Content]
  BY TypeParts DEF Inv1, FirstAttempt, NextAttempt, Live
<1>2. UNCHANGED <<doc, run, late, l1, l2, file, paid>>
  BY DEF FirstAttempt, NextAttempt, cacheVars
<1>3. /\ rows' \in [Leaves -> RowNames] /\ job' \in [Leaves -> JobRecord]
      /\ Running' = {} /\ Live' /\ JobsInv'
      /\ guard' \in [count : Nat, asks : BOOLEAN, declined : BOOLEAN]
      /\ work' \in [Leaves -> Content] /\ cursor' \in 1 .. N + 1
  BY <1>1, <1>2, AttemptEffect
<1>4. provider' \in Providers
  <2>1. provider \in 1 .. MaxAttempts /\ provider' \in {provider, provider + 1}
        /\ (provider' = provider + 1 => provider < MaxAttempts)
    BY <1>1 DEF FirstAttempt, NextAttempt, TypeOK, Providers
  <2> QED
    BY <2>1, LocaleBuildAssumption DEF Providers
<1>5. /\ Cardinality(Running') = 0 /\ run.workers \in Nat
      /\ status' \in {"building", "failing"}
  BY <1>1, <1>3, FS_EmptySet DEF TypeOK, Live
<1>6. {l1, l2, file.texts} \subseteq [Keys -> Content] /\ late \subseteq Keys /\ paid \subseteq Keys
      /\ doc \in [Leaves -> Content]
      /\ run \in [cmd : Commands \cup {"plain"}, workers : Nat, tty : BOOLEAN, n : 0 .. MaxRuns]
  BY <1>1 DEF TypeOK, Content
<1>7. TypeOK'
  BY <1>2, <1>3, <1>4, <1>5, <1>6 DEF TypeOK, Content, RowNames, JobRecord, N
<1> QED
  BY <1>3, <1>7 DEF Inv1

LEMMA StopJobs ==
    ASSUME Inv1, Interrupt \/ Complete \/ Abort
    PROVE  Inv1'
<1>1. TypeOK /\ JobsInv /\ Live
  BY DEF Inv1, Interrupt, Complete, Abort, Live
<1>2. UNCHANGED <<doc, run, provider, cursor, rows, job, guard, late, l1, l2, file, paid>>
  BY DEF Interrupt, Complete, Abort, buildVars, cacheVars
<1>3. work' \in [Leaves -> Content]
  <2>1. work' \in {work, ResumeResult(job)}
    BY DEF Interrupt, Complete, Abort, buildVars
  <2> QED
    BY <2>1, <1>1, TypeParts, ResumeResultType
<1>4. status' \in {"interrupted", "built", "failing"}
  BY DEF Interrupt, Complete, Abort
<1>5. Running' = Running
  BY <1>2 DEF Running
<1>6. TypeOK'
  BY <1>1, <1>2, <1>3, <1>4, <1>5, TypeParts, TypeStays
<1>7. JobsInv'
  <2>1. CASE Abort
    <3>1. Live' /\ Formed /\ Formed' /\ Asked' = Asked
      BY <2>1, <1>1, <1>2 DEF Abort, Live, Formed, Asked, Ordered
    <3> QED
      BY <3>1, <1>1, <1>2 DEF JobsInv, JobsMatchRows, JobsSane, FreshIsSerial, OrderKept, RunsOnlyLive,
        AskedIsThere, Settling, Serial, Ordered, JobSane
  <2>2. CASE Interrupt
    <3>1. guard.asks = FALSE /\ \A l \in Leaves : job[l].at # "asking"
      BY <2>2, <1>1 DEF Interrupt, Drained, TypeOK
    <3>2. guard'.asks = FALSE /\ \A l \in Leaves : JobSane(job'[l]) /\ job'[l].at # "asking"
      BY <3>1, <1>1, <1>2 DEF JobsInv, JobsSane
    <3>3. status' = "interrupted"
      BY <2>2 DEF Interrupt
    <3> QED
      BY <3>2, <3>3, QuietJobs
  <2>3. CASE Complete
    <3>1. \A l \in Leaves : job[l].at \in {"none", "accepted"}
      BY <2>3 DEF Complete
    <3>2. Asked = {} /\ Running = {}
      BY <3>1 DEF Asked, Running
    <3>3. guard.asks # TRUE
      BY <3>2, <1>1 DEF JobsInv, AskedIsThere
    <3>4. ~Live' /\ Formed /\ Formed' /\ Running' = {}
      BY <2>3, <1>5, <3>2 DEF Complete, Live, Formed
    <3> QED
      BY <3>3, <3>4, <1>1, <1>2 DEF JobsInv, JobsMatchRows, JobsSane, FreshIsSerial, OrderKept,
        RunsOnlyLive, AskedIsThere, Settling, Serial, Ordered, JobSane
  <2> QED
    BY <2>1, <2>2, <2>3 DEF Interrupt, Complete, Abort
<1> QED
  BY <1>6, <1>7 DEF Inv1

LEMMA EndJobs ==
    ASSUME Inv1, End
    PROVE  Inv1'
<1>1. TypeOK /\ JobsInv /\ status' = "idle" /\ ~Live
      /\ UNCHANGED <<run, provider, work, cursor, rows, job, guard, late, l1, l2, paid>>
  BY DEF Inv1, End, Live, buildVars
<1>2. guard'.asks = FALSE
  BY <1>1 DEF JobsInv, AskedIsThere, TypeOK
<1>3. \A l \in Leaves : JobSane(job'[l]) /\ job'[l].at # "asking"
  BY <1>1 DEF JobsInv, JobsSane, RunsOnlyLive, Running
<1>4. JobsInv'
  BY <1>1, <1>2, <1>3, QuietJobs
<1>5. file'.texts \in [Keys -> Content]
  <2>1. file' \in {file, [epoch |-> epoch, texts |-> l2]}
    BY DEF End, Flushed
  <2>2. file.texts \in [Keys -> Content] /\ l2 \in [Keys -> Content]
    BY <1>1 DEF TypeOK, Content
  <2> QED
    BY <2>1, <2>2
<1>6. doc' \in [Leaves -> Content]
  BY <1>1, TypeParts DEF End
<1>7. Running' = Running
  BY <1>1 DEF Running
<1>8. {l1, l2, file.texts}' \subseteq [Keys -> Content]
  BY <1>1, <1>5 DEF TypeOK, Content
<1>9. TypeOK'
  BY <1>1, <1>6, <1>7, <1>8 DEF TypeOK, Content
<1> QED
  BY <1>4, <1>9 DEF Inv1

LEMMA BeginJobs ==
    ASSUME Inv1, NEW cmd \in Commands, NEW workers \in Parallel, NEW tty \in BOOLEAN,
           Begin(cmd, workers, tty)
    PROVE  Inv1'
<1>1. TypeOK /\ JobsInv /\ ~Live /\ status' = "opened"
      /\ UNCHANGED <<doc, cursor, rows, job, file>>
  BY DEF Inv1, Begin, Live
<1>2. guard' = [count |-> 0, asks |-> FALSE, declined |-> FALSE]
  BY DEF Begin
<1>3. \A l \in Leaves : JobSane(job'[l]) /\ job'[l].at # "asking"
  BY <1>1 DEF JobsInv, JobsSane, RunsOnlyLive, Running
<1>4. JobsInv'
  BY <1>1, <1>2, <1>3, QuietJobs
<1>5. run' \in [cmd : Commands \cup {"plain"}, workers : Nat, tty : BOOLEAN, n : 0 .. MaxRuns]
  <2>1. run.n \in 0 .. MaxRuns /\ run.n < MaxRuns
    BY <1>1 DEF TypeOK, Begin
  <2>2. run.n + 1 \in 0 .. MaxRuns /\ workers \in Nat
    BY <2>1, LocaleBuildAssumption
  <2> QED
    BY <2>2 DEF Begin
<1>6. NoTexts \in [Keys -> Content]
  BY DEF NoTexts, Content
<1>7. {l1, l2, file.texts}' \subseteq [Keys -> Content]
  BY <1>1, <1>6 DEF TypeOK, Content, Begin
<1>8. work' \in [Leaves -> Content]
  BY <1>1, TypeParts DEF Begin, Content
<1>9. paid' \subseteq Keys /\ late' \subseteq Keys /\ provider' \in Providers
  BY LocaleBuildAssumption DEF Begin, Providers
<1>10. Cardinality(Running') <= run'.workers
  <2>1. Running' = {}
    BY <1>3 DEF Running
  <2> QED
    BY <2>1, <1>5, FS_EmptySet
<1>11. guard' \in [count : Nat, asks : BOOLEAN, declined : BOOLEAN]
  BY <1>2
<1>12. /\ doc' \in [Leaves -> Content] /\ cursor' \in 1 .. N + 1 /\ rows' \in [Leaves -> RowNames]
       /\ job' \in [Leaves -> JobRecord]
  BY <1>1, TypeParts
<1>13. TypeOK'
  BY <1>1, <1>5, <1>7, <1>8, <1>9, <1>10, <1>11, <1>12 DEF TypeOK, Content, RowNames, JobRecord, N
<1> QED
  BY <1>4, <1>13 DEF Inv1

LEMMA LateReplyJobs ==
    ASSUME Inv1, NEW k \in Keys, LateReply(k)
    PROVE  Inv1'
<1>1. TypeOK /\ JobsInv /\ late' \subseteq Keys
      /\ UNCHANGED <<doc, run, status, provider, work, cursor, rows, job, guard, file, paid>>
  BY TypeParts DEF Inv1, LateReply, buildVars
<1>2. l1' \in [Keys -> Content] /\ l2' \in [Keys -> Content]
  <2>1. l1 \in [Keys -> Content] /\ l2 \in [Keys -> Content]
    BY <1>1, TypeParts
  <2>2. CASE UNCHANGED <<l1, l2>>
    BY <2>1, <2>2
  <2>3. ASSUME NEW l \in Leaves, NEW by \in {"machine", "source"},
               LET text == [by |-> by, ph |-> Source[l].ph]
               IN  /\ l1' = [l1 EXCEPT ![k] = text]
                   /\ l2' = [l2 EXCEPT ![k] = IF run.cmd = "force" THEN @ ELSE text]
        PROVE  l1' \in [Keys -> Content] /\ l2' \in [Keys -> Content]
    <3>1. [by |-> by, ph |-> Source[l].ph] \in Content
      BY DEF Content, Text, Phs
    <3> QED
      BY <3>1, <2>1, <2>3
  <2> QED
    BY <2>2, <2>3 DEF LateReply
<1>3. Running' = Running /\ Asked' = Asked /\ Live' = Live /\ Formed' = Formed
  BY <1>1 DEF Running, Asked, Ordered, Live, Formed
<1>4. TypeOK'
  BY <1>1, <1>2, <1>3, TypeParts, TypeStays
<1>5. JobsInv'
  BY <1>1, <1>3 DEF Inv1, JobsInv, JobsMatchRows, JobsSane, FreshIsSerial, OrderKept, RunsOnlyLive,
    AskedIsThere, Settling, Serial, Ordered, JobSane
<1> QED
  BY <1>4, <1>5 DEF Inv1

LEMMA InitJobs == Init => Inv1
<1> SUFFICES ASSUME Init PROVE Inv1
  OBVIOUS
<1>1. job = [l \in Leaves |-> NoJob] /\ NoJob.at = "none"
  BY DEF Init, NoJob
<1>2. Running = {} /\ guard.asks = FALSE /\ status = "idle"
  BY <1>1 DEF Init, Running
<1>3. JobsInv
  BY <1>1, <1>2, NoJobIs DEF JobsInv, JobsMatchRows, JobsSane, FreshIsSerial, OrderKept, RunsOnlyLive,
    AskedIsThere, Live, Formed
<1>4. NoTexts \in [Keys -> Content] /\ file.texts \in [Keys -> Content]
  BY LocaleBuildAssumption DEF Init, NoTexts, Content, Keys
<1>5. {l1, l2, file.texts} \subseteq [Keys -> Content]
  BY <1>4 DEF Init
<1>6. run \in [cmd : Commands \cup {"plain"}, workers : Nat, tty : BOOLEAN, n : 0 .. MaxRuns]
  BY LocaleBuildAssumption DEF Init
<1>7. doc \in [Leaves -> Content] /\ work \in [Leaves -> Content] /\ job \in [Leaves -> JobRecord]
      /\ rows \in [Leaves -> RowNames]
  BY <1>1, NoJobIs, LocaleBuildAssumption DEF Init, Content, RowNames
<1>8. cursor \in 1 .. N + 1 /\ provider \in Providers /\ Cardinality(Running) <= run.workers
  BY <1>2, <1>6, LeavesAre, LocaleBuildAssumption, FS_EmptySet DEF Init, Providers
<1>9. guard \in [count : Nat, asks : BOOLEAN, declined : BOOLEAN] /\ late \subseteq Keys /\ paid \subseteq Keys
  BY DEF Init
<1>10. TypeOK
  BY <1>2, <1>5, <1>6, <1>7, <1>8, <1>9 DEF TypeOK, Content, RowNames, JobRecord, N
<1> QED
  BY <1>3, <1>10 DEF Inv1

LEMMA StutterJobs == ASSUME Inv1, UNCHANGED vars PROVE Inv1'
<1>1. UNCHANGED <<doc, run, status, provider, work, cursor, rows, job, guard, late, l1, l2, file, paid>>
  BY DEF vars, buildVars, cacheVars
<1>2. Running' = Running /\ Asked' = Asked /\ Live' = Live /\ Formed' = Formed
  BY <1>1 DEF Running, Asked, Ordered, Live, Formed
<1>3. TypeOK'
  BY <1>1, <1>2 DEF Inv1, TypeOK
<1>4. JobsInv'
  BY <1>1, <1>2 DEF Inv1, JobsInv, JobsMatchRows, JobsSane, FreshIsSerial, OrderKept, RunsOnlyLive,
    AskedIsThere, Settling, Serial, Ordered, JobSane
<1> QED
  BY <1>3, <1>4 DEF Inv1

LEMMA NextJobs == Inv1 /\ [Next]_vars => Inv1'
<1> SUFFICES ASSUME Inv1, [Next]_vars PROVE Inv1'
  OBVIOUS
<1>1. ASSUME NEW cmd \in Commands, NEW w \in Parallel, NEW tty \in BOOLEAN, Begin(cmd, w, tty)
      PROVE  Inv1'
  BY <1>1, BeginJobs
<1>2. ASSUME NEW l \in Leaves,
             Start(l) \/ Reply(l) \/ ReplyFails(l) \/ Hand(l) \/ Confirm(l) \/ Decline(l)
      PROVE  Inv1'
  BY <1>2, StartJobs, ReplyJobs, ReplyFailsJobs, HandJobs, ConfirmJobs, DeclineJobs
<1>3. CASE FirstAttempt \/ NextAttempt
  BY <1>3, AttemptsJobs
<1>4. CASE Interrupt \/ Complete \/ Abort
  BY <1>4, StopJobs
<1>5. CASE End
  BY <1>5, EndJobs
<1>6. ASSUME NEW k \in Keys, LateReply(k) PROVE Inv1'
  BY <1>6, LateReplyJobs
<1>7. CASE UNCHANGED vars
  BY <1>7, StutterJobs
<1> QED
  BY <1>1, <1>2, <1>3, <1>4, <1>5, <1>6, <1>7 DEF Next, Build

(* The shape of the state, with no more requests than workers, holds always.*)
(* It needs the order of the jobs: a serial run starts one only when those  *)
(* before it are accepted, and a stopped attempt leaves none running.       *)
THEOREM TypeCorrect == Spec => []TypeOK
<1>1. Inv1 => TypeOK
  BY DEF Inv1
<1> QED
  BY <1>1, InitJobs, NextJobs, PTL DEF Spec

-----------------------------------------------------------------------------
(***************************************************************************)
(* The document: the second layer.                                         *)
(***************************************************************************)
CursorWaits == Formed /\ ~Resume /\ cursor \in Leaves => Waits(cursor, rows, job)
KeptIsReal == Formed /\ ~Resume => \A l \in Leaves : rows[l] = "keep" => work[l] # None
BuiltInv == PrefixBuilt /\ CursorWaits /\ KeptIsReal

LEMMA NotBuilding == ASSUME ~Formed' \/ Resume' PROVE BuiltInv'
BY DEF BuiltInv, PrefixBuilt, CursorWaits, KeptIsReal, Formed, Live

\* What counts for the cursor stays: the document, the rows and the accepted jobs.
CursorStays ==
  /\ UNCHANGED <<work, cursor, rows, run>>
  /\ Formed' => Formed
  /\ \A l \in Leaves : /\ job'[l].at = "accepted" <=> job[l].at = "accepted"
                       /\ job[l].at = "accepted" => job'[l] = job[l]

LEMMA BuiltStays ==
    ASSUME TypeOK, BuiltInv, CursorStays
    PROVE  BuiltInv'
<1> SUFFICES ASSUME Formed', ~Resume' PROVE BuiltInv'
  BY NotBuilding
<1>1. Formed /\ ~Resume
  BY DEF CursorStays, Resume
<1>2. PrefixBuilt'
  <2>1. \A l \in 1 .. cursor - 1 : l \in Leaves
    BY TypeParts, LeavesAre
  <2>2. /\ \A l \in 1 .. cursor - 1 :
             work[l] # None /\ (rows[l] = "translate" => job[l].at = "accepted")
        /\ \A l \in Leaves : job[l].at = "accepted" => l < cursor /\ work[l] = job[l].text
    BY <1>1 DEF BuiltInv, PrefixBuilt, Formed, Live
  <2> QED
    BY <2>1, <2>2 DEF CursorStays, PrefixBuilt
<1>3. CursorWaits'
  BY <1>1 DEF CursorStays, BuiltInv, CursorWaits, Waits
<1>4. KeptIsReal'
  BY <1>1 DEF CursorStays, BuiltInv, KeptIsReal
<1> QED
  BY <1>2, <1>3, <1>4 DEF BuiltInv

(* Placing rows from a cursor before which all is well.                     *)
LEMMA AdvanceBuilds ==
    ASSUME TypeOK, NEW c \in 1 .. N + 1, NEW w \in [Leaves -> Content], doc' = doc,
           rows' \in [Leaves -> RowNames], Advance(c, rows', w, job'), JobsSane',
           \A m \in Leaves : job'[m].at = "accepted" => m <= c /\ rows'[m] = "translate",
           \A m \in Leaves : rows'[m] = "keep" => w[m] # None,
           \A m \in Leaves : m < c => /\ w[m] # None
                                      /\ rows'[m] = "translate" => job'[m].at = "accepted"
                                      /\ job'[m].at = "accepted" => w[m] = job'[m].text
    PROVE  BuiltInv'
<1>1. PICK rs, done : rs = rows' /\ done = job'
  OBVIOUS
<1>2. /\ cursor' \in c .. N + 1 /\ cursor' \in 1 .. N + 1
      /\ \A l \in c .. cursor' - 1 : ~Waits(l, rs, done)
      /\ cursor' \in Leaves => Waits(cursor', rs, done)
      /\ work' = [l \in Leaves |-> IF l >= c /\ l < cursor' THEN Placed(l, rs[l], w, done)
                                   ELSE w[l]]
  BY <1>1, AdvanceEffect
<1>3. PICK n \in 1 .. N + 1 : n = cursor'
  BY <1>2
<1>4. \A m \in Leaves : m < c => work'[m] = w[m]
  BY <1>2, LeavesAre
<1>5. ASSUME NEW m \in Leaves, m >= c, m < n
      PROVE  /\ work'[m] = Placed(m, rs[m], w, done) /\ work'[m] # None
             /\ rs[m] = "translate" => done[m].at = "accepted" /\ work'[m] = done[m].text
             /\ rs[m] = "keep" => work'[m] = w[m]
  <2>1. work'[m] = Placed(m, rs[m], w, done)
    BY <1>2, <1>3, <1>5
  <2>2. m \in c .. n - 1
    BY <1>5, LeavesAre
  <2>3. ~Waits(m, rs, done)
    BY <2>2, <1>2, <1>3
  <2>4. rs[m] = "translate" => done[m].at = "accepted" /\ done[m].text # None
    BY <2>3, <1>1 DEF Waits, JobsSane, JobSane
  <2>5. rs[m] \in RowNames /\ SourceText(m) # None
    BY <1>1, ATextIsReal
  <2> QED
    BY <2>1, <2>4, <2>5, <1>1 DEF Placed, RowNames
<1>6. PrefixBuilt'
  <2>1. ASSUME NEW l \in 1 .. cursor' - 1
        PROVE  work'[l] # None /\ (rows'[l] = "translate" => job'[l].at = "accepted")
    <3>4. l \in 1 .. n - 1
      BY <1>3
    <3>1. l \in Leaves /\ l < n
      BY <3>4, LeavesAre
    <3>2. CASE l < c
      BY <3>1, <3>2, <1>4
    <3>3. CASE ~(l < c)
      <4>1. l >= c
        BY <3>1, <3>3, LeavesAre
      <4> QED
        BY <3>1, <4>1, <1>1, <1>5
    <3> QED
      BY <3>2, <3>3
  <2>2. ASSUME NEW l \in Leaves, job'[l].at = "accepted"
        PROVE  l < cursor' /\ work'[l] = job'[l].text
    <3>1. CASE l < c
      <4>1. l < cursor'
        BY <3>1, <1>2, LeavesAre
      <4> QED
        BY <2>2, <3>1, <4>1, <1>4
    <3>2. CASE l = c
      <4>1. ~Waits(c, rs, done)
        BY <2>2, <3>2, <1>1 DEF Waits
      <4>2. n # c /\ n >= c
        BY <4>1, <1>1, <1>2, <1>3, <2>2, <3>2, LeavesAre
      <4>3. l >= c /\ l < n
        BY <4>2, <3>2, LeavesAre
      <4> QED
        BY <4>3, <1>1, <1>3, <1>5, <2>2
    <3> QED
      BY <2>2, <3>1, <3>2, LeavesAre
  <2> QED
    BY <2>1, <2>2 DEF PrefixBuilt
<1>7. CursorWaits'
  BY <1>1, <1>2 DEF CursorWaits
<1>8. KeptIsReal'
  <2>1. ASSUME NEW l \in Leaves, rows'[l] = "keep" PROVE work'[l] # None
    <3>1. CASE l >= c /\ l < n
      BY <2>1, <3>1, <1>1, <1>5
    <3>2. CASE ~(l >= c /\ l < n)
      BY <2>1, <3>2, <1>2, <1>3
    <3> QED
      BY <3>1, <3>2
  <2> QED
    BY <2>1 DEF KeptIsReal
<1> QED
  BY <1>6, <1>7, <1>8 DEF BuiltInv

(* The text that is accepted is that of the row the cursor waits for.       *)
LEMMA CursorIsAtNext ==
    ASSUME Inv1, BuiltInv, ~Resume, Formed, NEW l \in Leaves, job[l].at = "answered", Ordered(l)
    PROVE  cursor = l
<1>1. cursor \in 1 .. N + 1 /\ rows[l] = "translate"
  BY TypeParts DEF Inv1, JobsInv, JobsMatchRows
<1>2. ~(l < cursor)
  <2>1. ASSUME l < cursor PROVE FALSE
    <3>1. l \in 1 .. cursor - 1
      BY <1>1, <2>1, LeavesAre
    <3> QED
      BY <3>1, <1>1 DEF BuiltInv, PrefixBuilt, Formed, Live
  <2> QED
    BY <2>1
<1>3. ~(cursor < l)
  <2>1. ASSUME cursor < l PROVE FALSE
    <3>1. cursor \in Leaves
      BY <1>1, <2>1, LeavesAre
    <3>2. rows[cursor] = "translate" /\ job[cursor].at # "accepted"
      BY <3>1 DEF BuiltInv, CursorWaits, Waits
    <3>3. job[cursor].at \in {"none", "accepted"}
      BY <3>1, <2>1 DEF Ordered
    <3> QED
      BY <3>1, <3>2, <3>3 DEF Inv1, JobsInv, JobsMatchRows
  <2> QED
    BY <2>1
<1> QED
  BY <1>1, <1>2, <1>3, LeavesAre

LEMMA AcceptBuilds ==
    ASSUME Inv1, BuiltInv, NEW l \in Leaves, Live, job[l].at = "answered", Ordered(l), Accept(l),
           UNCHANGED <<doc, run, rows, status>>
    PROVE  BuiltInv'
<1> SUFFICES ASSUME ~Resume' PROVE BuiltInv'
  BY NotBuilding
<1>1. ~Resume /\ Formed /\ TypeOK /\ JobsInv
  BY DEF Resume, Formed, Inv1
<1>2. /\ JobsSane' /\ job'[l] = [job[l] EXCEPT !.at = "accepted"]
      /\ \A m \in Leaves : m # l => job'[m] = job[m]
  BY AcceptJobs
<1>3. cursor = l
  BY <1>1, CursorIsAtNext
<1>4. Advance(cursor, rows', work, job')
  BY <1>1 DEF Accept
<1>5. \A m \in Leaves : job'[m].at = "accepted" => m <= cursor /\ rows'[m] = "translate"
  <2> SUFFICES ASSUME NEW m \in Leaves, job'[m].at = "accepted"
               PROVE  m <= cursor /\ rows'[m] = "translate"
    OBVIOUS
  <2>1. CASE m = l
    BY <2>1, <1>1, <1>3, LeavesAre DEF JobsInv, JobsMatchRows
  <2>2. CASE m # l
    <3>1. job[m].at = "accepted"
      BY <2>2, <1>2
    <3>2. m < cursor /\ rows[m] = "translate"
      BY <3>1, <1>1 DEF JobsInv, JobsMatchRows, BuiltInv, PrefixBuilt, Live
    <3> QED
      BY <3>2, <1>3, LeavesAre
  <2> QED
    BY <2>1, <2>2
<1>6. \A m \in Leaves : rows'[m] = "keep" => work[m] # None
  BY <1>1 DEF BuiltInv, KeptIsReal
<1>7. \A m \in Leaves : m < cursor => /\ work[m] # None
                                      /\ rows'[m] = "translate" => job'[m].at = "accepted"
                                      /\ job'[m].at = "accepted" => work[m] = job'[m].text
  <2> SUFFICES ASSUME NEW m \in Leaves, m < cursor
               PROVE  /\ work[m] # None
                      /\ rows'[m] = "translate" => job'[m].at = "accepted"
                      /\ job'[m].at = "accepted" => work[m] = job'[m].text
    OBVIOUS
  <2>1. m # l /\ m \in 1 .. cursor - 1
    BY <1>3, LeavesAre
  <2> QED
    BY <2>1, <1>1, <1>2 DEF BuiltInv, PrefixBuilt, Live
<1>8. cursor \in 1 .. N + 1 /\ work \in [Leaves -> Content] /\ rows' \in [Leaves -> RowNames]
  BY <1>1, TypeParts
<1> QED
  BY <1>1, <1>2, <1>4, <1>5, <1>6, <1>7, <1>8, AdvanceBuilds

LEMMA AttemptBuilds ==
    ASSUME Inv1, FirstAttempt \/ NextAttempt
    PROVE  BuiltInv'
<1>1. TypeOK /\ Attempt(work) /\ ~Live /\ work \in [Leaves -> Content] /\ UNCHANGED <<doc, run>>
  BY TypeParts DEF Inv1, FirstAttempt, NextAttempt, Live
<1> SUFFICES ASSUME ~Resume' PROVE BuiltInv'
  BY NotBuilding
<1>2. ~Resume
  BY <1>1 DEF Resume
<1>3. /\ rows' = Rows(work) /\ rows' \in [Leaves -> RowNames] /\ JobsSane'
      /\ \A l \in Leaves : job'[l].at \in {"waiting", "none"}
      /\ Advance(1, rows', work, job')
  BY <1>1, <1>2, AttemptEffect DEF JobsInv
<1>4. \A m \in Leaves : rows'[m] = "keep" => work[m] # None
  <2> SUFFICES ASSUME NEW m \in Leaves, rows'[m] = "keep" PROVE work[m] # None
    OBVIOUS
  <2>1. FullRow(m, work) = "keep"
    BY <1>2, <1>3 DEF Rows
  <2>2. Source[m].kind \in {"text", "preserve", "parity", "placeholder", "empty"}
    BY LocaleBuildAssumption
  <2>3. Translated(m, work[m])
    BY <2>1, <2>2 DEF FullRow
  <2> QED
    BY <2>3 DEF Translated
<1>5. 1 \in 1 .. N + 1 /\ \A m \in Leaves : ~(m < 1)
  BY LeavesAre
<1> QED
  BY <1>1, <1>3, <1>4, <1>5, AdvanceBuilds

LEMMA NextBuilds ==
    ASSUME Inv1, BuiltInv, [Next]_vars
    PROVE  BuiltInv'
<1> USE DEF Inv1
<1>1. ASSUME NEW cmd \in Commands, NEW w \in Parallel, NEW tty \in BOOLEAN, Begin(cmd, w, tty)
      PROVE  BuiltInv'
  BY <1>1, NotBuilding DEF Begin, Formed, Live
<1>2. ASSUME NEW l \in Leaves, Start(l) PROVE BuiltInv'
  <2>1. job \in [Leaves -> JobRecord] /\ job[l].at = "waiting"
    BY <1>2, TypeParts DEF Start
  <2>2. UNCHANGED <<status, work, cursor, rows, run>>
    BY <1>2 DEF Start
  <2>3. PICK e : SetJob(l, e) /\ e.at \in {"asking", "answered"}
    <3> DEFINE hit == IF l1[Key(l)] # None THEN l1[Key(l)] ELSE l2[Key(l)]
    <3>1. SetJob(l, [job[l] EXCEPT !.at = "asking"])
          \/ SetJob(l, [job[l] EXCEPT !.at = "answered", !.text = hit])
      BY <1>2 DEF Start
    <3>2. job[l] \in JobRecord
      BY <2>1
    <3>3. [job[l] EXCEPT !.at = "asking"].at = "asking"
      BY <3>2 DEF JobRecord
    <3>4. [job[l] EXCEPT !.at = "answered", !.text = hit].at = "answered"
      BY <3>2 DEF JobRecord
    <3> QED
      BY <3>1, <3>3, <3>4
  <2>4. job'[l].at \in {"asking", "answered"} /\ \A m \in Leaves : m # l => job'[m] = job[m]
    BY <2>1, <2>3 DEF SetJob
  <2>5. CursorStays
    BY <2>1, <2>2, <2>4 DEF CursorStays, Formed, Live
  <2> QED
    BY <2>5, BuiltStays
<1>3. ASSUME NEW l \in Leaves, Reply(l) PROVE BuiltInv'
  <2>1. job \in [Leaves -> JobRecord] /\ job[l].at = "asking"
    BY <1>3, TypeParts DEF Reply
  <2>2. UNCHANGED <<status, work, cursor, rows, run>>
    BY <1>3 DEF Reply
  <2>3. PICK text : SetJob(l, [job[l] EXCEPT !.at = "answered", !.text = text, !.fresh = Serial])
    BY <1>3 DEF Reply
  <2>4. job'[l].at = "answered" /\ \A m \in Leaves : m # l => job'[m] = job[m]
    BY <2>1, <2>3 DEF SetJob, JobRecord
  <2>5. CursorStays
    BY <2>1, <2>2, <2>4 DEF CursorStays, Formed, Live
  <2> QED
    BY <2>5, BuiltStays
<1>4. ASSUME NEW l \in Leaves, ReplyFails(l) PROVE BuiltInv'
  <2>1. job[l].at = "asking" /\ TryAgain(l) /\ UNCHANGED <<work, cursor, rows, run>>
    BY <1>4 DEF ReplyFails
  <2>2. Live
    BY <2>1 DEF JobsInv, RunsOnlyLive, Running
  <2>3. job'[l].at \in {"asking", "failed"} /\ \A m \in Leaves : m # l => job'[m] = job[m]
    BY <2>1, <2>2, TryAgainJobs
  <2>4. CursorStays
    BY <2>1, <2>2, <2>3 DEF CursorStays, Formed
  <2> QED
    BY <2>4, BuiltStays
<1>5. ASSUME NEW l \in Leaves, Hand(l) PROVE BuiltInv'
  <2>1. Live /\ job[l].at = "answered" /\ Ordered(l) /\ UNCHANGED <<doc, run, rows, status>>
    BY <1>5 DEF Hand, Live
  <2>2. CASE Accept(l)
    BY <2>1, <2>2, AcceptBuilds
  <2>3. CASE UNCHANGED <<work, cursor, job, l1, l2>>
    <3>1. CursorStays
      BY <2>1, <2>3 DEF CursorStays, Formed
    <3> QED
      BY <3>1, BuiltStays
  <2> QED
    BY <1>5, <2>2, <2>3 DEF Hand
<1>6. ASSUME NEW l \in Leaves, Confirm(l) PROVE BuiltInv'
  <2>1. Live /\ job[l].at = "answered" /\ Ordered(l) /\ Accept(l)
        /\ UNCHANGED <<doc, run, rows, status>>
    BY <1>6, AskedIs DEF Confirm
  <2> QED
    BY <2>1, AcceptBuilds
<1>7. ASSUME NEW l \in Leaves, Decline(l) PROVE BuiltInv'
  <2>1. Live /\ job[l].at = "answered" /\ Ordered(l) /\ UNCHANGED <<run, rows>>
    BY <1>7, AskedIs DEF Decline
  <2>2. CASE Serial /\ job[l].fresh
    <3>1. TryAgain(l) /\ UNCHANGED <<work, cursor>>
      BY <1>7, <2>2 DEF Decline
    <3>2. job'[l].at \in {"asking", "failed"} /\ \A m \in Leaves : m # l => job'[m] = job[m]
      BY <2>1, <2>2, <3>1, TryAgainJobs
    <3>3. CursorStays
      BY <2>1, <3>1, <3>2 DEF CursorStays, Formed
    <3> QED
      BY <3>3, BuiltStays
  <2>3. CASE ~(Serial /\ job[l].fresh)
    BY <1>7, <2>3, NotBuilding DEF Decline, Formed, Live
  <2> QED
    BY <2>2, <2>3
<1>8. CASE FirstAttempt \/ NextAttempt
  BY <1>8, AttemptBuilds
<1>9. CASE Interrupt \/ End
  BY <1>9, NotBuilding DEF Interrupt, End, Formed, Live
<1>10. CASE Complete
  <2>1. CASE Resume
    <3>1. Resume'
      BY <1>10, <2>1 DEF Complete, Resume
    <3> QED
      BY <3>1, NotBuilding
  <2>2. CASE ~Resume
    <3>1. CursorStays
      BY <1>10, <2>2 DEF Complete, CursorStays, Formed, Live
    <3> QED
      BY <3>1, BuiltStays
  <2> QED
    BY <2>1, <2>2
<1>11. CASE Abort
  <2>1. CursorStays
    BY <1>11 DEF Abort, buildVars, CursorStays, Formed, Live
  <2> QED
    BY <2>1, BuiltStays
<1>12. ASSUME NEW k \in Keys, LateReply(k) PROVE BuiltInv'
  <2>1. CursorStays
    BY <1>12 DEF LateReply, buildVars, CursorStays, Formed, Live
  <2> QED
    BY <2>1, BuiltStays
<1>13. CASE UNCHANGED vars
  <2>1. CursorStays
    BY <1>13 DEF vars, buildVars, CursorStays, Formed, Live
  <2> QED
    BY <2>1, BuiltStays
<1> QED
  BY <1>1, <1>2, <1>3, <1>4, <1>5, <1>6, <1>7, <1>8, <1>9, <1>10, <1>11, <1>12, <1>13 DEF Next, Build

(* A full build is a prefix at every moment: behind the cursor nothing is   *)
(* accepted, before it every row has its value, in localeTranslate.ts a     *)
(* document that any interruption may hand to the next provider.            *)
THEOREM BuildIsAPrefix == Spec => []PrefixBuilt
<1>1. Init => BuiltInv
  BY DEF Init, BuiltInv, PrefixBuilt, CursorWaits, KeptIsReal, Formed, Live
<1>2. BuiltInv => PrefixBuilt
  BY DEF BuiltInv
<1>3. Inv1 /\ BuiltInv /\ [Next]_vars => BuiltInv'
  BY NextBuilds
<1> QED
  BY <1>1, <1>2, <1>3, InitJobs, NextJobs, PTL DEF Spec

-----------------------------------------------------------------------------
(***************************************************************************)
(* Translated leaves: the third layer.                                     *)
(***************************************************************************)
\* In a full build a leaf that is not a text has one row and one value, whoever builds.
KeepsTarget(l) ==
  \/ Source[l].kind = "parity"
  \/ Source[l].kind = "empty" /\ run.cmd # "force" /\ Translated(l, doc[l])
FixedRow(l) == IF KeepsTarget(l) THEN "existing" ELSE "copy"
FixedOf(l) == IF KeepsTarget(l) /\ doc[l] # None THEN doc[l] ELSE SourceText(l)
FixedText ==
  status # "idle" /\ ~Resume =>
    \A l \in Leaves : ~Leaked(l) /\ Source[l].kind # "text" =>
      /\ work[l] \in {None, FixedOf(l)}
      /\ Formed => rows[l] = FixedRow(l)

\* A text is sent only where neither the target nor the document has a translation.
TextRows ==
  Formed /\ ~Resume =>
    \A l \in Leaves : ~Leaked(l) /\ Source[l].kind = "text" =>
      /\ rows[l] # "copy"
      /\ rows[l] = "existing" => Translated(l, doc[l])
      /\ rows[l] = "translate" /\ l >= cursor => ~Translated(l, work[l])
ResumeRows ==
  Live /\ Resume =>
    \A l \in Leaves : ~Leaked(l) /\ rows[l] = "translate" => ~Translated(l, work[l])

StayInv == FixedText /\ TextRows /\ ResumeRows

Held(w) == \A l \in Leaves : Translated(l, w[l]) /\ ~Leaked(l) => Translated(l, work'[l])

LEMMA StayUnmoved ==
    ASSUME StayInv, UNCHANGED <<doc, run, work, cursor, rows>>,
           Live' => Live, Formed' => Formed, status' # "idle" => status # "idle"
    PROVE  StayInv' /\ Held(work)
BY DEF StayInv, FixedText, TextRows, ResumeRows, Held, Resume, FixedOf, FixedRow, KeepsTarget, Leaked

(* Placing rows keeps what is translated, given rows made for this document.*)
LEMMA AdvanceHolds ==
    ASSUME TypeOK, NEW c \in 1 .. N + 1, NEW w \in [Leaves -> Content],
           UNCHANGED <<doc, run>>, ~Resume,
           rows' \in [Leaves -> RowNames], Advance(c, rows', w, job'),
           \A l \in Leaves : ~Leaked(l) /\ Source[l].kind # "text" =>
             w[l] \in {None, FixedOf(l)} /\ rows'[l] = FixedRow(l),
           \A l \in Leaves : ~Leaked(l) /\ Source[l].kind = "text" =>
             /\ rows'[l] # "copy" /\ (rows'[l] = "existing" => Translated(l, doc[l]))
             /\ rows'[l] = "translate" /\ l >= c => ~Translated(l, w[l])
    PROVE  StayInv' /\ Held(w)
<1>1. PICK rs, done : rs = rows' /\ done = job'
  OBVIOUS
<1>2. /\ cursor' \in c .. N + 1
      /\ work' = [l \in Leaves |-> IF l >= c /\ l < cursor' THEN Placed(l, rs[l], w, done)
                                   ELSE w[l]]
  BY <1>1, AdvanceEffect
<1>3. ~Resume' /\ \A l \in Leaves : /\ Leaked(l)' = Leaked(l) /\ FixedRow(l)' = FixedRow(l)
                                    /\ FixedOf(l)' = FixedOf(l)
  BY DEF Resume, Leaked, FixedRow, FixedOf, KeepsTarget
<1>4. ASSUME NEW l \in Leaves, ~Leaked(l), Source[l].kind # "text"
      PROVE  work'[l] \in {w[l], FixedOf(l)}
  <2>1. Placed(l, FixedRow(l), w, done) = FixedOf(l)
    BY DEF Placed, FixedRow, FixedOf
  <2> QED
    BY <2>1, <1>1, <1>2, <1>4
<1>5. ASSUME NEW l \in Leaves, ~Leaked(l), Source[l].kind = "text", Translated(l, w[l])
      PROVE  Translated(l, work'[l])
  <2>1. CASE l >= c /\ l < cursor'
    <3>1. work'[l] = Placed(l, rs[l], w, done) /\ rs[l] \in {"existing", "keep"}
      BY <2>1, <1>1, <1>2, <1>5 DEF RowNames
    <3>2. rs[l] = "existing" => Translated(l, doc[l]) /\ doc[l] # None
      BY <1>1, <1>5 DEF Translated
    <3> QED
      BY <3>1, <3>2, <1>5 DEF Placed
  <2>2. CASE ~(l >= c /\ l < cursor')
    BY <2>2, <1>2, <1>5
  <2> QED
    BY <2>1, <2>2
<1>6. Held(w)
  <2> SUFFICES ASSUME NEW l \in Leaves, Translated(l, w[l]), ~Leaked(l)
               PROVE  Translated(l, work'[l])
    BY DEF Held
  <2>1. CASE Source[l].kind # "text"
    <3>1. w[l] = FixedOf(l)
      BY <2>1 DEF Translated
    <3> QED
      BY <3>1, <2>1, <1>4
  <2> QED
    BY <2>1, <1>5
<1>7. FixedText'
  BY <1>1, <1>3, <1>4 DEF FixedText
<1>8. TextRows'
  <2> SUFFICES ASSUME NEW l \in Leaves, ~Leaked(l), Source[l].kind = "text"
               PROVE  /\ rows'[l] # "copy"
                      /\ rows'[l] = "existing" => Translated(l, doc[l])
                      /\ rows'[l] = "translate" /\ l >= cursor' => ~Translated(l, work'[l])
    BY <1>3 DEF TextRows
  <2>1. l >= cursor' => l >= c /\ work'[l] = w[l]
    BY <1>2, LeavesAre
  <2> QED
    BY <2>1
<1>9. ResumeRows'
  BY <1>3 DEF ResumeRows
<1> QED
  BY <1>6, <1>7, <1>8, <1>9 DEF StayInv

LEMMA AcceptHolds ==
    ASSUME Inv1, StayInv, NEW l \in Leaves, Live, Accept(l), UNCHANGED <<doc, run, rows, status>>
    PROVE  StayInv' /\ Held(work)
<1>1. TypeOK /\ Formed /\ status # "idle"
  BY DEF Inv1, Formed, Live
<1>2. CASE Resume
  <2>1. UNCHANGED <<work, cursor>>
    BY <1>2 DEF Accept
  <2> QED
    BY <2>1, <1>1, StayUnmoved DEF Live, Formed
<1>3. CASE ~Resume
  <2>1. Advance(cursor, rows', work, job')
    BY <1>3 DEF Accept
  <2>2. cursor \in 1 .. N + 1 /\ work \in [Leaves -> Content] /\ rows' \in [Leaves -> RowNames]
    BY <1>1, TypeParts
  <2>3. \A m \in Leaves : ~Leaked(m) /\ Source[m].kind # "text" =>
          work[m] \in {None, FixedOf(m)} /\ rows'[m] = FixedRow(m)
    BY <1>1, <1>3 DEF StayInv, FixedText
  <2>4. \A m \in Leaves : ~Leaked(m) /\ Source[m].kind = "text" =>
          /\ rows'[m] # "copy" /\ (rows'[m] = "existing" => Translated(m, doc[m]))
          /\ rows'[m] = "translate" /\ m >= cursor => ~Translated(m, work[m])
    BY <1>1, <1>3 DEF StayInv, TextRows
  <2> QED
    BY <2>1, <2>2, <2>3, <2>4, <1>1, <1>3, AdvanceHolds
<1> QED
  BY <1>2, <1>3

LEMMA AttemptHolds ==
    ASSUME Inv1, StayInv, FirstAttempt \/ NextAttempt
    PROVE  StayInv' /\ Held(work)
<1>1. TypeOK /\ Attempt(work) /\ ~Live /\ work \in [Leaves -> Content] /\ UNCHANGED <<doc, run>>
      /\ status # "idle"
  BY TypeParts DEF Inv1, FirstAttempt, NextAttempt, Live
<1>2. rows' = Rows(work) /\ rows' \in [Leaves -> RowNames]
  BY <1>1, AttemptEffect
<1>3. \A l \in Leaves : Source[l].kind \in {"text", "preserve", "parity", "placeholder", "empty"}
  BY LocaleBuildAssumption
<1>4. CASE Resume
  <2>1. work' = [l \in Leaves |-> IF rows'[l] = "copy" THEN SourceText(l) ELSE work[l]]
    BY <1>1, <1>4, AttemptEffect
  <2>2. ASSUME NEW l \in Leaves, rows'[l] \in {"copy", "translate"}, ~Leaked(l)
        PROVE  ~Translated(l, work[l])
    <3>1. rows'[l] = ResumeRow(l, work)
      BY <1>2, <1>4 DEF Rows
    <3> QED
      BY <2>2, <3>1 DEF ResumeRow
  <2>3. Held(work)
    <3> SUFFICES ASSUME NEW l \in Leaves, Translated(l, work[l]), ~Leaked(l)
                 PROVE  Translated(l, work'[l])
      BY DEF Held
    <3>1. rows'[l] # "copy"
      BY <2>2
    <3> QED
      BY <3>1, <2>1
  <2>4. Resume' /\ \A l \in Leaves : Leaked(l)' = Leaked(l)
    BY <1>1, <1>4 DEF Resume, Leaked
  <2>5. ResumeRows'
    <3> SUFFICES ASSUME NEW l \in Leaves, ~Leaked(l), rows'[l] = "translate"
                 PROVE  ~Translated(l, work'[l])
      BY <2>4 DEF ResumeRows
    <3>1. work'[l] = work[l]
      BY <2>1
    <3> QED
      BY <3>1, <2>2
  <2> QED
    BY <2>3, <2>4, <2>5 DEF StayInv, FixedText, TextRows
<1>5. CASE ~Resume
  <2>1. Advance(1, rows', work, job')
    BY <1>1, <1>5, AttemptEffect
  <2>2. \A l \in Leaves : rows'[l] = FullRow(l, work)
    BY <1>2, <1>5 DEF Rows
  <2>3. \A m \in Leaves : ~Leaked(m) /\ Source[m].kind # "text" =>
          work[m] \in {None, FixedOf(m)} /\ rows'[m] = FixedRow(m)
    <3> SUFFICES ASSUME NEW m \in Leaves, ~Leaked(m), Source[m].kind # "text"
                 PROVE  work[m] \in {None, FixedOf(m)} /\ rows'[m] = FixedRow(m)
      OBVIOUS
    <3>1. work[m] \in {None, FixedOf(m)}
      BY <1>1, <1>5 DEF StayInv, FixedText
    <3>2. FullRow(m, work) = FixedRow(m)
      BY <1>3 DEF FullRow, FixedRow, KeepsTarget
    <3> QED
      BY <3>1, <3>2, <2>2
  <2>4. \A m \in Leaves : ~Leaked(m) /\ Source[m].kind = "text" =>
          /\ rows'[m] # "copy" /\ (rows'[m] = "existing" => Translated(m, doc[m]))
          /\ rows'[m] = "translate" /\ m >= 1 => ~Translated(m, work[m])
    BY <2>2 DEF FullRow
  <2>5. 1 \in 1 .. N + 1
    BY LeavesAre
  <2> QED
    BY <2>1, <2>3, <2>4, <2>5, <1>1, <1>2, <1>5, AdvanceHolds
<1> QED
  BY <1>4, <1>5

(* A resume that is over puts its accepted texts where none was translated. *)
LEMMA ResumeHolds ==
    ASSUME Inv1, StayInv, Live, Resume, UNCHANGED <<doc, run>>, status' \in {"interrupted", "built"},
           NEW jobs, \A l \in Leaves : jobs[l].at = "accepted" => job[l].at # "none",
           work' = ResumeResult(jobs)
    PROVE  StayInv' /\ Held(work)
<1>1. Resume' /\ ~Live'
  BY DEF Resume, Live
<1>2. StayInv'
  BY <1>1 DEF StayInv, FixedText, TextRows, ResumeRows
<1>3. Held(work)
  <2> SUFFICES ASSUME NEW l \in Leaves, Translated(l, work[l]), ~Leaked(l)
               PROVE  Translated(l, work'[l])
    BY DEF Held
  <2>1. rows[l] # "translate"
    BY DEF StayInv, ResumeRows
  <2>2. job[l].at = "none"
    BY <2>1 DEF Inv1, JobsInv, JobsMatchRows, Formed
  <2>3. work'[l] = work[l]
    BY <2>2 DEF ResumeResult
  <2> QED
    BY <2>3
<1> QED
  BY <1>2, <1>3

LEMMA NextHolds ==
    ASSUME Inv1, StayInv, [Next]_vars
    PROVE  StayInv' /\ (status # "idle" => Held(work))
<1> USE DEF Inv1
<1>1. ASSUME NEW cmd \in Commands, NEW w \in Parallel, NEW tty \in BOOLEAN, Begin(cmd, w, tty)
      PROVE  StayInv' /\ (status # "idle" => Held(work))
  <2>1. status = "idle" /\ status' = "opened" /\ run'.cmd = cmd
        /\ work' = IF cmd = "resume" THEN doc ELSE [l \in Leaves |-> None]
    BY <1>1 DEF Begin
  <2>2. ~Resume' => \A l \in Leaves : work'[l] = None
    BY <2>1 DEF Resume
  <2> QED
    BY <2>1, <2>2 DEF StayInv, FixedText, TextRows, ResumeRows, Formed, Live
<1>2. ASSUME NEW l \in Leaves, Start(l) \/ Reply(l) PROVE StayInv' /\ Held(work)
  BY <1>2, StayUnmoved DEF Start, Reply, Live, Formed
<1>3. ASSUME NEW l \in Leaves, ReplyFails(l) PROVE StayInv' /\ Held(work)
  <2>1. job[l].at = "asking" /\ UNCHANGED <<doc, run, work, cursor, rows>>
    BY <1>3 DEF ReplyFails
  <2>2. Live
    BY <2>1 DEF JobsInv, RunsOnlyLive, Running
  <2> QED
    BY <2>1, <2>2, StayUnmoved DEF Live, Formed
<1>4. ASSUME NEW l \in Leaves, Hand(l) PROVE StayInv' /\ Held(work)
  <2>1. Live /\ UNCHANGED <<doc, run, rows, status>>
    BY <1>4 DEF Hand, Live
  <2>2. CASE Accept(l)
    BY <2>1, <2>2, AcceptHolds
  <2>3. CASE UNCHANGED <<work, cursor, job, l1, l2>>
    BY <2>1, <2>3, StayUnmoved DEF Live, Formed
  <2> QED
    BY <1>4, <2>2, <2>3 DEF Hand
<1>5. ASSUME NEW l \in Leaves, Confirm(l) PROVE StayInv' /\ Held(work)
  <2>1. Live /\ Accept(l) /\ UNCHANGED <<doc, run, rows, status>>
    BY <1>5, AskedIs DEF Confirm
  <2> QED
    BY <2>1, AcceptHolds
<1>6. ASSUME NEW l \in Leaves, Decline(l) PROVE StayInv' /\ Held(work)
  <2>1. Live /\ job[l].at = "answered" /\ UNCHANGED <<doc, run, rows>>
    BY <1>6, AskedIs DEF Decline
  <2>2. CASE Serial /\ job[l].fresh
    BY <1>6, <2>1, <2>2, StayUnmoved DEF Decline, Live, Formed
  <2>3. CASE ~(Serial /\ job[l].fresh)
    <3>1. status' = "interrupted" /\ UNCHANGED cursor
          /\ work' = IF ~Resume THEN work
                     ELSE ResumeResult(IF Serial THEN job ELSE [job EXCEPT ![l].at = "accepted"])
      BY <1>6, <2>3 DEF Decline
    <3>2. CASE ~Resume
      BY <2>1, <3>1, <3>2, StayUnmoved DEF Live, Formed
    <3>3. CASE Resume
      <4>1. PICK jobs : jobs = IF Serial THEN job ELSE [job EXCEPT ![l].at = "accepted"]
        OBVIOUS
      <4>2. \A m \in Leaves : m # l => jobs[m] = job[m]
        BY <4>1, TypeParts
      <4>3. \A m \in Leaves : jobs[m].at = "accepted" => job[m].at # "none"
        BY <4>2, <2>1
      <4> QED
        BY <2>1, <3>1, <3>3, <4>1, <4>3, ResumeHolds
    <3> QED
      BY <3>2, <3>3
  <2> QED
    BY <2>2, <2>3
<1>7. CASE FirstAttempt \/ NextAttempt
  BY <1>7, AttemptHolds
<1>8. CASE Interrupt \/ Complete
  <2>1. Live /\ status' \in {"interrupted", "built"} /\ UNCHANGED <<doc, run, cursor, rows>>
        /\ work' = IF Resume THEN ResumeResult(job) ELSE work
    BY <1>8 DEF Interrupt, Complete, Live
  <2>2. CASE Resume
    BY <2>1, <2>2, ResumeHolds
  <2>3. CASE ~Resume
    BY <2>1, <2>3, StayUnmoved DEF Live, Formed
  <2> QED
    BY <2>2, <2>3
<1>9. CASE End
  <2>1. status' = "idle" /\ work' = work
    BY <1>9 DEF End, buildVars
  <2> QED
    BY <2>1 DEF StayInv, FixedText, TextRows, ResumeRows, Formed, Live, Held
<1>10. CASE Abort
  BY <1>10, StayUnmoved DEF Abort, buildVars, Live, Formed
<1>11. ASSUME NEW k \in Keys, LateReply(k) PROVE StayInv' /\ Held(work)
  BY <1>11, StayUnmoved DEF LateReply, buildVars, Live, Formed
<1>12. CASE UNCHANGED vars
  BY <1>12, StayUnmoved DEF vars, buildVars, Live, Formed
<1> QED
  BY <1>1, <1>2, <1>3, <1>4, <1>5, <1>6, <1>7, <1>8, <1>9, <1>10, <1>11, <1>12 DEF Next, Build

(* From the opening of a target to its end, through attempts of any number  *)
(* of providers, a translated leaf of the document stays translated unless  *)
(* the target leaked a sentinel there (generate/localeTranslate.ts).        *)
THEOREM TranslationsStay == Spec => TranslatedStays
<1>1. Init => StayInv
  BY DEF Init, StayInv, FixedText, TextRows, ResumeRows, Formed, Live
<1>2. Inv1 /\ StayInv /\ [Next]_vars =>
        StayInv' /\ [\A l \in Leaves : status # "idle" /\ Translated(l, work[l]) /\ ~Leaked(l)
                                         => Translated(l, work'[l])]_vars
  BY NextHolds DEF Held
<1> QED
  BY <1>1, <1>2, InitJobs, NextJobs, PTL DEF Spec, TranslatedStays

-----------------------------------------------------------------------------
(***************************************************************************)
(* What was paid for: the fourth layer.                                    *)
(***************************************************************************)
\* A text of this run that is not cached yet: a serial run shows it to the guard first.
Pending(l) == Live /\ job[l].at = "answered" /\ job[l].fresh = TRUE

PaidCached ==
  status # "idle" /\ run.cmd # "force" /\ ~guard.declined =>
    \A k \in paid : l2[k] # None \/ \E l \in Leaves : Key(l) = k /\ Pending(l)
PaidInv == PaidCached /\ PaidKept

LEMMA PaidStays ==
    ASSUME PaidInv, status # "idle", status' # "idle", UNCHANGED <<run, provider, paid>>,
           guard'.declined = guard.declined, paid \subseteq Keys,
           run.cmd # "force" =>
             /\ \A k \in Keys : l2[k] # None => l2'[k] # None
             /\ \A l \in Leaves : Pending(l) => Pending(l)' \/ l2'[Key(l)] # None
    PROVE  PaidInv'
<1>1. \A l \in Leaves : Key(l)' = Key(l)
  BY DEF Key
<1>2. PaidCached'
  BY <1>1 DEF PaidInv, PaidCached
<1> QED
  BY <1>2 DEF PaidInv, PaidKept

LEMMA NoPending ==
    ASSUME Inv1, ~Live \/ Interrupt \/ Complete, NEW l \in Leaves
    PROVE  ~Pending(l)
<1>1. CASE ~Live
  BY <1>1 DEF Pending
<1>2. CASE Interrupt
  <2>1. Pending(l) => Ordered(l)
    BY DEF Pending, Inv1, JobsInv, FreshIsSerial, OrderKept, Settling, Formed
  <2>2. ~(job[l].at = "answered" /\ Ordered(l))
    BY <1>2 DEF Interrupt, Drained
  <2> QED
    BY <2>1, <2>2 DEF Pending
<1>3. CASE Complete
  BY <1>3 DEF Complete, Pending
<1> QED
  BY <1>1, <1>2, <1>3

LEMMA AcceptPaid ==
    ASSUME Inv1, PaidInv, NEW l \in Leaves, Live, job[l].at = "answered", Ordered(l), Accept(l),
           UNCHANGED <<run, rows, status, provider, paid>>, guard'.declined = guard.declined
    PROVE  PaidInv'
<1>1. TypeOK /\ status # "idle" /\ status' # "idle" /\ Live'
  BY DEF Inv1, Live
<1>2. \A m \in Leaves : m # l => job'[m] = job[m]
  BY AcceptJobs
<1>3. ASSUME run.cmd # "force"
      PROVE  /\ \A k \in Keys : l2[k] # None => l2'[k] # None
             /\ \A m \in Leaves : Pending(m) => Pending(m)' \/ l2'[Key(m)] # None
  <2>1. job[l].text # None /\ l2 \in [Keys -> Content] /\ Key(l) \in Keys
    BY <1>1, KeyIs DEF Inv1, JobsInv, JobsSane, JobSane
  <2>2. CASE job[l].fresh
    <3>1. l2' = [l2 EXCEPT ![Key(l)] = job[l].text]
      BY <1>3, <2>2 DEF Accept, Remember
    <3> QED
      BY <3>1, <2>1, <1>1, <1>2 DEF Pending
  <2>3. CASE ~job[l].fresh
    <3>1. l2' = l2
      BY <2>3 DEF Accept
    <3>2. job[l].fresh # TRUE
      BY <2>3
    <3> QED
      BY <3>1, <3>2, <1>1, <1>2 DEF Pending
  <2> QED
    BY <2>2, <2>3
<1>4. paid \subseteq Keys
  BY <1>1, TypeParts
<1> QED
  BY <1>1, <1>3, <1>4, PaidStays

LEMMA ReplyPaid ==
    ASSUME Inv1, PaidInv, NEW l \in Leaves, Reply(l)
    PROVE  PaidInv'
<1>1. TypeOK /\ JobsInv /\ job[l].at = "asking" /\ job \in [Leaves -> JobRecord]
  BY TypeParts DEF Inv1, Reply
<1>2. Live /\ Live' /\ UNCHANGED <<run, status, provider, guard, file>>
  BY <1>1 DEF JobsInv, RunsOnlyLive, Running, Live, Reply
<1>3. PICK text \in Replies(l) :
        /\ SetJob(l, [job[l] EXCEPT !.at = "answered", !.text = text, !.fresh = Serial])
        /\ paid' = paid \cup {Key(l)}
        /\ IF Serial THEN UNCHANGED <<l1, l2>> ELSE Remember(l, text)
  BY DEF Reply
<1>4. text # None /\ l2 \in [Keys -> Content] /\ Key(l) \in Keys
  BY <1>1, KeyIs, ATextIsReal DEF Replies, Text, Phs
<1>5. job'[l].at = "answered" /\ job'[l].fresh = Serial /\ \A m \in Leaves : m # l => job'[m] = job[m]
  BY <1>1, <1>3 DEF SetJob, JobRecord
<1>6. \A m \in Leaves : Key(m)' = Key(m) /\ (Pending(m) => Pending(m)')
  BY <1>1, <1>2, <1>5 DEF Key, Pending
<1>7. PaidCached'
  <2> SUFFICES ASSUME run.cmd # "force", ~guard.declined, NEW k \in paid'
               PROVE  l2'[k] # None \/ \E m \in Leaves : Key(m) = k /\ Pending(m)'
    BY <1>2, <1>6 DEF PaidCached
  <2>1. CASE k \in paid
    <3>1. l2[k] # None \/ \E m \in Leaves : Key(m) = k /\ Pending(m)
      BY <2>1, <1>2 DEF PaidInv, PaidCached, Live
    <3>2. l2[k] # None => l2'[k] # None
      <4>1. k \in Keys
        BY <2>1, <1>1, TypeParts
      <4>2. l2' = l2 \/ l2' = [l2 EXCEPT ![Key(l)] = text]
        BY <1>3 DEF Remember
      <4> QED
        BY <4>1, <4>2, <1>4
    <3> QED
      BY <3>1, <3>2, <1>6
  <2>2. CASE k = Key(l)
    <3>1. CASE Serial
      <4>1. Serial = TRUE
        BY <3>1 DEF Serial
      <4>2. Pending(l)'
        BY <4>1, <1>2, <1>5 DEF Pending
      <4> QED
        BY <4>2, <2>2
    <3>2. CASE ~Serial
      <4>1. l2' = [l2 EXCEPT ![Key(l)] = text]
        BY <1>3, <3>2 DEF Remember
      <4> QED
        BY <4>1, <2>2, <1>4
    <3> QED
      BY <3>1, <3>2
  <2> QED
    BY <2>1, <2>2, <1>3
<1> QED
  BY <1>2, <1>7 DEF PaidInv, PaidKept, Live

LEMMA EndPaid ==
    ASSUME Inv1, PaidInv, End
    PROVE  PaidInv'
<1>1. TypeOK /\ ~Live /\ status # "idle" /\ status' = "idle" /\ UNCHANGED <<run, guard, l2, paid>>
      /\ file' = Flushed
  BY DEF Inv1, End, Live, buildVars
<1>2. PaidKept'
  <2> SUFFICES ASSUME run.cmd # "force", ~guard.declined, NEW k \in paid PROVE file'.texts[k] # None
    BY <1>1 DEF PaidKept
  <2>1. l2[k] # None /\ k \in Keys
    BY <1>1, TypeParts DEF PaidInv, PaidCached, Pending
  <2>2. CASE l2 = NoTexts
    BY <2>1, <2>2 DEF NoTexts
  <2>3. CASE l2 # NoTexts
    <3>1. CASE file' = file
      BY <3>1, <2>1, <2>3, <1>1 DEF Flushed
    <3>2. CASE file' # file
      BY <3>2, <2>1, <1>1 DEF Flushed
    <3> QED
      BY <3>1, <3>2
  <2> QED
    BY <2>2, <2>3
<1> QED
  BY <1>1, <1>2 DEF PaidInv, PaidCached

LEMMA NextPaid ==
    ASSUME Inv1, PaidInv, [Next]_vars
    PROVE  PaidInv'
<1>1. TypeOK /\ paid \subseteq Keys /\ l2 \in [Keys -> Content]
  BY TypeParts DEF Inv1
<1>2. ASSUME NEW cmd \in Commands, NEW w \in Parallel, NEW tty \in BOOLEAN, Begin(cmd, w, tty)
      PROVE  PaidInv'
  BY <1>2 DEF Begin, PaidInv, PaidCached, PaidKept
<1>3. ASSUME NEW l \in Leaves, Start(l) PROVE PaidInv'
  <2>1. Live /\ Live' /\ job[l].at = "waiting" /\ UNCHANGED <<run, status, provider, guard, l2, paid>>
    BY <1>3 DEF Start, Live
  <2>2. PICK e : SetJob(l, e)
    BY <1>3 DEF Start
  <2>3. \A m \in Leaves : m # l => job'[m] = job[m]
    BY <2>2, <1>1, TypeParts DEF SetJob
  <2>4. \A m \in Leaves : Pending(m) => Pending(m)'
    BY <2>1, <2>3 DEF Pending
  <2> QED
    BY <2>1, <2>4, <1>1, PaidStays DEF Live
<1>4. ASSUME NEW l \in Leaves, Reply(l) PROVE PaidInv'
  BY <1>4, ReplyPaid
<1>5. ASSUME NEW l \in Leaves, ReplyFails(l) PROVE PaidInv'
  <2>1. job[l].at = "asking" /\ TryAgain(l) /\ UNCHANGED <<run, rows, provider, guard, l2, paid>>
    BY <1>5 DEF ReplyFails, cacheVars
  <2>2. Live
    BY <2>1 DEF Inv1, JobsInv, RunsOnlyLive, Running
  <2>3. Live' /\ \A m \in Leaves : m # l => job'[m] = job[m]
    BY <2>1, <2>2, TryAgainJobs
  <2>4. \A m \in Leaves : Pending(m) => Pending(m)'
    BY <2>1, <2>3 DEF Pending
  <2> QED
    BY <2>1, <2>2, <2>3, <2>4, <1>1, PaidStays DEF Live
<1>6. ASSUME NEW l \in Leaves, Hand(l) PROVE PaidInv'
  <2>1. Live /\ Live' /\ job[l].at = "answered" /\ Ordered(l)
        /\ UNCHANGED <<doc, run, rows, status, provider, paid>>
    BY <1>6 DEF Hand, Live
  <2>2. guard'.declined = guard.declined
    BY <1>6, <1>1, TypeParts DEF Hand
  <2>3. CASE Accept(l)
    BY <2>1, <2>2, <2>3, AcceptPaid
  <2>4. CASE UNCHANGED <<work, cursor, job, l1, l2>>
    <3>1. \A m \in Leaves : Pending(m) => Pending(m)'
      BY <2>1, <2>4 DEF Pending
    <3> QED
      BY <3>1, <2>1, <2>2, <2>4, <1>1, PaidStays DEF Live
  <2> QED
    BY <1>6, <2>3, <2>4 DEF Hand
<1>7. ASSUME NEW l \in Leaves, Confirm(l) PROVE PaidInv'
  <2>1. Live /\ job[l].at = "answered" /\ Ordered(l) /\ Accept(l)
        /\ UNCHANGED <<doc, run, rows, status, provider, paid>>
    BY <1>7, AskedIs DEF Confirm
  <2>2. guard'.declined = guard.declined
    BY <1>7, <1>1, TypeParts DEF Confirm
  <2> QED
    BY <2>1, <2>2, AcceptPaid
<1>8. ASSUME NEW l \in Leaves, Decline(l) PROVE PaidInv'
  <2>1. guard'.declined = TRUE
    BY <1>8, <1>1, TypeParts DEF Decline
  <2> QED
    BY <2>1 DEF PaidInv, PaidCached, PaidKept
<1>9. CASE FirstAttempt \/ NextAttempt
  <2>1. status # "idle" /\ ~Live /\ UNCHANGED <<run, l2, paid>> /\ Attempt(work)
        /\ status' = "building"
    BY <1>9 DEF FirstAttempt, NextAttempt, cacheVars, Live, Attempt
  <2>2. guard'.declined = guard.declined
    BY <2>1, <1>1, TypeParts DEF Attempt
  <2>3. \A l \in Leaves : ~Pending(l)
    BY <2>1, NoPending
  <2>4. PaidCached'
    BY <2>1, <2>2, <2>3 DEF PaidInv, PaidCached
  <2> QED
    BY <2>1, <2>4 DEF PaidInv, PaidKept
<1>10. CASE Interrupt \/ Complete
  <2>1. Live /\ UNCHANGED <<run, provider, guard, l2, paid>> /\ status' # "idle" /\ status # "idle"
    BY <1>10 DEF Interrupt, Complete, cacheVars, Live
  <2>2. \A l \in Leaves : ~Pending(l)
    BY <1>10, NoPending
  <2> QED
    BY <2>1, <2>2, <1>1, PaidStays
<1>11. CASE End
  BY <1>11, EndPaid
<1>12. CASE Abort
  <2>1. status # "idle" /\ status' # "idle" /\ UNCHANGED <<run, provider, guard, job, l2, paid>> /\ Live'
    BY <1>12 DEF Abort, buildVars, cacheVars, Live
  <2> QED
    BY <2>1, <1>1, PaidStays DEF Pending
<1>13. ASSUME NEW k \in Keys, LateReply(k) PROVE PaidInv'
  <2>1. UNCHANGED <<run, status, provider, job, guard, file, paid>>
    BY <1>13 DEF LateReply, buildVars
  <2>2. ASSUME run.cmd # "force", NEW key \in Keys, l2[key] # None PROVE l2'[key] # None
    <3>1. CASE UNCHANGED <<l1, l2>>
      BY <3>1, <2>2
    <3>2. ASSUME NEW l \in Leaves, NEW by \in {"machine", "source"},
                 l2' = [l2 EXCEPT ![k] = IF run.cmd = "force" THEN @
                                         ELSE [by |-> by, ph |-> Source[l].ph]]
          PROVE  l2'[key] # None
      <4>1. [by |-> by, ph |-> Source[l].ph] # None
        BY ATextIsReal DEF Text, Phs
      <4> QED
        BY <4>1, <3>2, <2>2, <1>1
    <3> QED
      BY <1>13, <3>1, <3>2 DEF LateReply
  <2>3. \A l \in Leaves : Pending(l)' = Pending(l)
    BY <2>1 DEF Pending, Live
  <2>4. CASE status = "idle"
    BY <2>1, <2>4 DEF PaidInv, PaidCached, PaidKept
  <2> QED
    BY <2>1, <2>2, <2>3, <2>4, <1>1, PaidStays
<1>14. CASE UNCHANGED vars
  <2>1. UNCHANGED <<run, status, provider, job, guard, file, paid, l2>>
    BY <1>14 DEF vars, buildVars, cacheVars
  <2> QED
    BY <2>1 DEF PaidInv, PaidCached, PaidKept, Pending, Live, Key
<1> QED
  BY <1>2, <1>3, <1>4, <1>5, <1>6, <1>7, <1>8, <1>9, <1>10, <1>11, <1>12, <1>13, <1>14 DEF Next, Build

(* Whatever ends a run, the disk cache then holds what the providers were   *)
(* paid for in it (l2Store.ts, flush), unless forced or declined.           *)
THEOREM PaidTextsAreKept == Spec => []PaidKept
<1>1. Init => PaidInv
  BY DEF Init, PaidInv, PaidCached, PaidKept
<1>2. PaidInv => PaidKept
  BY DEF PaidInv
<1>3. Inv1 /\ PaidInv /\ [Next]_vars => PaidInv'
  BY NextPaid
<1> QED
  BY <1>1, <1>2, <1>3, InitJobs, NextJobs, PTL DEF Spec

-----------------------------------------------------------------------------
(***************************************************************************)
(* The identity guard: the last layer.                                     *)
(***************************************************************************)
Done == {l \in Leaves : job[l].at = "accepted"}
Trailing(seen) == {l \in seen : \A m \in seen : m >= l => job[m].text = SourceText(m)}

LEMMA StreakIs ==
    StreakTrue <=> (Live /\ ~guard.declined => guard.count = Cardinality(Trailing(Done \cup Asked)))
BY DEF StreakTrue, Live, Done, Trailing

LEMMA StreakStays ==
    ASSUME StreakTrue, Live, Done' = Done, Asked' = Asked,
           guard'.count = guard.count, guard'.declined = guard.declined,
           \A l \in Done \cup Asked : job'[l].text = job[l].text
    PROVE  StreakTrue'
<1>1. Trailing(Done \cup Asked)' = Trailing(Done \cup Asked)
  BY DEF Trailing
<1> QED
  BY <1>1, StreakIs DEF StreakTrue, Live, Done, Trailing

LEMMA AskedAlone == ASSUME NEW l \in Asked PROVE Asked = {l}
<1>1. \A m \in Asked : ~(m < l) /\ ~(l < m)
  BY DEF Asked, Ordered
<1> QED
  BY <1>1, LeavesAre DEF Asked

(* A text that follows the accepted ones: the streak goes on, or is over.   *)
LEMMA StreakGrows ==
    ASSUME Inv1, StreakTrue, Live, Live', NEW l \in Leaves, Asked = {},
           job[l].at = "answered", Ordered(l),
           (Done \cup Asked)' = Done \cup {l},
           \A m \in Leaves : job'[m].text = job[m].text,
           guard'.count = Streak(l), guard'.declined = guard.declined
    PROVE  StreakTrue'
<1>1. l \notin Done /\ \A m \in Done : m < l
  <2>1. ASSUME NEW m \in Done PROVE m < l
    <3>1. Ordered(m) /\ m # l /\ m \in Leaves
      BY DEF Done, Inv1, JobsInv, OrderKept, Settling, Formed
    <3>2. ~(l < m)
      BY <3>1 DEF Ordered
    <3> QED
      BY <3>1, <3>2, LeavesAre
  <2> QED
    BY <2>1, LeavesAre
<1>2. PICK old : old = Trailing(Done)
  OBVIOUS
<1>3. PICK new : new = Trailing(Done \cup Asked)'
  OBVIOUS
<1>4. Done \in SUBSET Leaves /\ old \in SUBSET Leaves /\ l \notin old
  BY <1>1, <1>2 DEF Done, Trailing
<1>5. IsFiniteSet(old) /\ Cardinality(old) \in Nat
  BY <1>4, FiniteParts
<1>6. new = {k \in Done \cup {l} : \A m \in Done \cup {l} : m >= k => job[m].text = SourceText(m)}
  BY <1>3, <1>4 DEF Trailing
<1>7. \A k \in Done : l >= k /\ ~(k >= l)
  BY <1>1, <1>4, LeavesAre
<1>8. l >= l
  BY LeavesAre
<1>9. CASE job[l].text = SourceText(l)
  <2>1. new = old \cup {l}
    BY <1>2, <1>6, <1>7, <1>8, <1>9 DEF Trailing
  <2>2. Cardinality(new) = Cardinality(old) + 1
    BY <2>1, <1>4, <1>5, FS_AddElement
  <2>3. Streak(l) = guard.count + 1
    BY <1>9 DEF Streak
  <2>4. ~guard.declined => guard.count = Cardinality(old)
    BY <1>2, StreakIs
  <2> QED
    BY <2>2, <2>3, <2>4, <1>3 DEF StreakTrue, Live, Done, Trailing
<1>10. CASE job[l].text # SourceText(l)
  <2>1. new = {}
    BY <1>6, <1>7, <1>8, <1>10
  <2>2. Streak(l) = 0 /\ Cardinality(new) = 0
    BY <2>1, <1>10, FS_EmptySet DEF Streak
  <2> QED
    BY <2>2, <1>3 DEF StreakTrue, Live, Done, Trailing
<1> QED
  BY <1>9, <1>10

LEMMA NextStreak ==
    ASSUME Inv1, StreakTrue, [Next]_vars
    PROVE  StreakTrue'
<1> SUFFICES ASSUME Live' PROVE StreakTrue'
  BY DEF StreakTrue, Live
<1>1. TypeOK /\ JobsInv /\ job \in [Leaves -> JobRecord]
      /\ guard \in [count : Nat, asks : BOOLEAN, declined : BOOLEAN]
  BY TypeParts DEF Inv1
\* A job that moves without being accepted, before it or after it is asked about.
<1>2. ASSUME NEW l \in Leaves, Live, guard' = guard,
             job[l].at \in {"waiting", "asking"}, job'[l].at \notin {"none", "accepted"},
             \A m \in Leaves : m # l => job'[m] = job[m]
      PROVE  StreakTrue'
  <2>1. l \notin Asked /\ l \notin Done
    BY <1>2 DEF Asked, Done
  <2>2. Asked' = Asked
    BY <1>1, <1>2, <2>1, StillAsked
  <2>3. Done' = Done
    BY <1>2 DEF Done
  <2>4. \A m \in Done \cup Asked : job'[m].text = job[m].text
    BY <1>2, <2>1 DEF Done, Asked
  <2> QED
    BY <1>2, <2>2, <2>3, <2>4, StreakStays
<1>3. ASSUME NEW l \in Leaves, Start(l) PROVE StreakTrue'
  <2>1. Live /\ job[l].at = "waiting" /\ guard' = guard
    BY <1>3 DEF Start, Live
  <2>2. PICK e : SetJob(l, e)
    BY <1>3 DEF Start
  <2>3. \A m \in Leaves : m # l => job'[m] = job[m]
    BY <2>2, <1>1 DEF SetJob
  <2>4. job'[l].at \in {"asking", "answered"}
    <3> DEFINE hit == IF l1[Key(l)] # None THEN l1[Key(l)] ELSE l2[Key(l)]
    <3>1. SetJob(l, [job[l] EXCEPT !.at = "asking"])
          \/ SetJob(l, [job[l] EXCEPT !.at = "answered", !.text = hit])
      BY <1>3 DEF Start
    <3> HIDE DEF hit
    <3>2. [job[l] EXCEPT !.at = "asking"].at = "asking"
      BY <1>1 DEF JobRecord
    <3>3. [job[l] EXCEPT !.at = "answered", !.text = hit].at = "answered"
      BY <1>1 DEF JobRecord
    <3> QED
      BY <3>1, <3>2, <3>3, <1>1 DEF SetJob
  <2> QED
    BY <2>1, <2>3, <2>4, <1>2
<1>4. ASSUME NEW l \in Leaves, Reply(l) PROVE StreakTrue'
  <2>1. job[l].at = "asking" /\ guard' = guard
    BY <1>4 DEF Reply
  <2>2. Live
    BY <2>1, <1>1 DEF JobsInv, RunsOnlyLive, Running
  <2>3. PICK text : SetJob(l, [job[l] EXCEPT !.at = "answered", !.text = text, !.fresh = Serial])
    BY <1>4 DEF Reply
  <2>4. job'[l].at = "answered" /\ \A m \in Leaves : m # l => job'[m] = job[m]
    BY <2>3, <1>1 DEF SetJob, JobRecord
  <2> QED
    BY <2>1, <2>2, <2>4, <1>2
<1>5. ASSUME NEW l \in Leaves, ReplyFails(l) PROVE StreakTrue'
  <2>1. job[l].at = "asking" /\ TryAgain(l) /\ UNCHANGED <<run, rows, guard>>
    BY <1>5 DEF ReplyFails
  <2>2. Live
    BY <2>1, <1>1 DEF JobsInv, RunsOnlyLive, Running
  <2>3. job'[l].at \in {"asking", "failed"} /\ \A m \in Leaves : m # l => job'[m] = job[m]
    BY <2>1, <2>2, TryAgainJobs
  <2> QED
    BY <2>1, <2>2, <2>3, <1>2
<1>6. ASSUME NEW l \in Leaves, Hand(l) PROVE StreakTrue'
  <2> DEFINE ask == Warns(Streak(l)) /\ run.tty
  <2>1. Live /\ job[l].at = "answered" /\ Ordered(l) /\ ~guard.asks
        /\ UNCHANGED <<run, rows, status>>
        /\ guard' = [guard EXCEPT !.count = Streak(l), !.asks = ask]
    BY <1>6 DEF Hand, Live
  <2>2. ask \in BOOLEAN
    <3>1. run.tty \in BOOLEAN
      BY <1>1 DEF TypeOK
    <3> QED
      BY <3>1, Zenon DEF Warns
  <2>3. Asked = {}
    BY <2>1 DEF Asked
  <2> HIDE DEF ask
  <2>4. guard'.count = Streak(l) /\ guard'.declined = guard.declined /\ guard'.asks = ask
    BY <2>1, <1>1
  <2>5. CASE ask
    <3>1. job' = job
      BY <1>6, <2>5 DEF Hand, ask
    <3>2. Asked' = {m \in Leaves : job[m].at = "answered" /\ Ordered(m)}
      BY <3>1, <2>4, <2>5, <2>2 DEF Asked, Ordered
    <3>3. l \in Asked'
      BY <3>2, <2>1
    <3>4. \A m \in Asked' : m = l
      <4> SUFFICES ASSUME NEW m \in Leaves, job[m].at = "answered", Ordered(m) PROVE m = l
        BY <3>2
      <4>1. ~(m < l) /\ ~(l < m)
        BY <2>1 DEF Ordered
      <4> QED
        BY <4>1, LeavesAre
    <3>5. Done' = Done
      BY <3>1 DEF Done
    <3>6. (Done \cup Asked)' = Done \cup {l}
      BY <3>3, <3>4, <3>5
    <3> QED
      BY <2>1, <2>3, <2>4, <3>1, <3>6, StreakGrows
  <2>6. CASE ~ask
    <3>1. Accept(l)
      BY <1>6, <2>6 DEF Hand, ask
    <3>2. job'[l] = [job[l] EXCEPT !.at = "accepted"] /\ \A m \in Leaves : m # l => job'[m] = job[m]
      BY <2>1, <3>1, AcceptJobs
    <3>3. job'[l].at = "accepted" /\ \A m \in Leaves : job'[m].text = job[m].text
      BY <3>2, <1>1 DEF JobRecord
    <3>4. Asked' = {}
      BY <2>4, <2>6, <2>2 DEF Asked
    <3>5. Done' = Done \cup {l}
      BY <3>2, <3>3 DEF Done
    <3> QED
      BY <2>1, <2>3, <2>4, <3>3, <3>4, <3>5, StreakGrows
  <2> QED
    BY <2>5, <2>6
<1>7. ASSUME NEW l \in Leaves, Confirm(l) PROVE StreakTrue'
  <2>1. Live /\ job[l].at = "answered" /\ Ordered(l) /\ Accept(l) /\ l \in Asked
        /\ UNCHANGED <<run, rows, status>> /\ guard' = [guard EXCEPT !.asks = FALSE]
    BY <1>7, AskedIs DEF Confirm
  <2>2. job'[l] = [job[l] EXCEPT !.at = "accepted"] /\ \A m \in Leaves : m # l => job'[m] = job[m]
    BY <2>1, AcceptJobs
  <2>3. job'[l].at = "accepted" /\ \A m \in Leaves : job'[m].text = job[m].text
    BY <2>2, <1>1 DEF JobRecord
  <2>4. guard'.count = guard.count /\ guard'.declined = guard.declined /\ guard'.asks = FALSE
    BY <2>1, <1>1
  <2>5. Asked' = {} /\ Asked = {l} /\ Done' = Done \cup {l}
    BY <2>1, <2>2, <2>3, <2>4, AskedAlone DEF Asked, Done
  <2>6. (Done \cup Asked)' = Done \cup Asked
    BY <2>5
  <2>7. Trailing(Done \cup Asked)' = Trailing(Done \cup Asked)
    BY <2>3, <2>6 DEF Trailing, Done, Asked
  <2> QED
    BY <2>1, <2>4, <2>7, StreakIs DEF StreakTrue, Live, Done, Trailing
<1>8. ASSUME NEW l \in Leaves, Decline(l) PROVE StreakTrue'
  <2>1. guard'.declined = TRUE
    BY <1>8, <1>1 DEF Decline
  <2> QED
    BY <2>1 DEF StreakTrue
<1>9. CASE FirstAttempt \/ NextAttempt
  <2>1. ~Live /\ Attempt(work) /\ run' = run /\ work \in [Leaves -> Content]
    BY <1>9, <1>1, TypeParts DEF FirstAttempt, NextAttempt, Live
  <2>2. \A l \in Leaves : job'[l].at \in {"waiting", "none"}
    BY <2>1, AttemptEffect
  <2>3. guard'.count = 0
    BY <2>1, <1>1 DEF Attempt
  <2>4. Trailing(Done \cup Asked)' = {}
    BY <2>2 DEF Trailing, Done, Asked
  <2>5. guard'.count = Cardinality(Trailing(Done \cup Asked))'
    BY <2>3, <2>4, FS_EmptySet
  <2> QED
    BY <2>5 DEF StreakTrue, Live, Done, Trailing
<1>10. CASE \/ Interrupt \/ Complete \/ End
            \/ \E cmd \in Commands, w \in Parallel, tty \in BOOLEAN : Begin(cmd, w, tty)
  BY <1>10 DEF Interrupt, Complete, End, Begin, Live
<1>11. CASE Abort \/ (\E k \in Keys : LateReply(k)) \/ UNCHANGED vars
  <2>1. Live /\ job' = job /\ guard' = guard
    BY <1>11 DEF Abort, LateReply, buildVars, vars, Live
  <2>2. Done' = Done /\ Asked' = Asked
    BY <2>1 DEF Done, Asked, Ordered
  <2> QED
    BY <2>1, <2>2, StreakStays
<1> QED
  BY <1>3, <1>4, <1>5, <1>6, <1>7, <1>8, <1>9, <1>10, <1>11 DEF Next, Build

(* The guard counts the trailing texts that equal their source in the order *)
(* of the leaves, however the answers came (identity/guard.ts and state.ts).*)
THEOREM StreakIsTrue == Spec => []StreakTrue
<1>1. Init => StreakTrue
  BY DEF Init, StreakTrue
<1>2. Inv1 /\ StreakTrue /\ [Next]_vars => StreakTrue'
  BY NextStreak
<1> QED
  BY <1>1, <1>2, InitJobs, NextJobs, PTL DEF Spec
=============================================================================
