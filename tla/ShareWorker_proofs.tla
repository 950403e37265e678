------------------------- MODULE ShareWorker_proofs -------------------------
(* Proofs about ShareWorker, for any number of requests, contents and ids,  *)
(* any quota and any threshold.                                             *)
EXTENDS ShareWorker, TLAPS

Answered(res) == res \in {"ok", "pressure", "error", "refused"}

(* What putting, counting and dropping may do to the rows and to the index: *)
(* nothing new appears, and the counters stay.                              *)
Fewer(s, t) ==
  /\ \A i \in Ids : t.rows[i] \in {None, s.rows[i]}
  /\ \A r \in Row : t.index[r] \in {None, s.index[r]}
  /\ t.alarm = s.alarm

Sound(s) == s \in Store /\ AccessSound(s)

LEMMA FewerReflexive ==
    ASSUME NEW s
    PROVE  Fewer(s, s)
BY DEF Fewer

LEMMA FewerTransitive ==
    ASSUME NEW s, NEW t, NEW u, Fewer(s, t), Fewer(t, u)
    PROVE  Fewer(s, u)
BY DEF Fewer

LEMMA DropSound ==
    ASSUME NEW s, Sound(s), NEW gone \in SUBSET Ids
    PROVE  /\ Sound(DropRows(s, gone)) /\ Fewer(s, DropRows(s, gone))
           /\ DropRows(s, gone).hour = s.hour /\ DropRows(s, gone).day = s.day
<1> DEFINE t == DropRows(s, gone)
<1>1. s \in Store
  BY DEF Sound
<1>2. /\ t.rows = [i \in Ids |-> IF i \in gone THEN None ELSE s.rows[i]]
      /\ t.index = [r \in Row |-> IF \E i \in gone : s.rows[i] = r THEN None ELSE s.index[r]]
      /\ t.older = s.older \cap ((Ids \ gone) \X (Ids \ gone))
      /\ t.idle = s.idle \ gone
      /\ t.ring = s.ring /\ t.hour = s.hour /\ t.day = s.day
      /\ t.full = s.full /\ t.alarm = s.alarm
  BY <1>1 DEF DropRows, Store, Among
<1>3. t \in Store
  BY <1>1 DEF DropRows, Store, Among
<1> HIDE DEF t
<1>4. Stored(t) = Stored(s) \ gone
  BY <1>1, <1>2 DEF Stored, Store
<1>5. AccessSound(t)
  <2>1. t.older \subseteq Stored(t) \X Stored(t) /\ t.idle \subseteq Stored(t)
    BY <1>2, <1>4 DEF Sound, AccessSound
  <2>2. \A i, j \in Stored(t) : <<i, j>> \in t.older <=> <<i, j>> \in s.older
    BY <1>2, <1>4 DEF Stored
  <2>3. \A i, j \in Stored(t) : i # j => (<<i, j>> \in t.older <=> <<j, i>> \notin t.older)
    BY <2>2, <1>4 DEF Sound, AccessSound
  <2>4. \A i \in Stored(t) : <<i, i>> \notin t.older
    BY <2>2, <1>4 DEF Sound, AccessSound
  <2>5. \A i, j, k \in Stored(t) :
           <<i, j>> \in t.older /\ <<j, k>> \in t.older => <<i, k>> \in t.older
    BY <2>2, <1>4 DEF Sound, AccessSound
  <2>6. \A i \in t.idle : Before(t, i) \subseteq t.idle
    BY <1>2, <1>4, <2>2 DEF Sound, AccessSound, Before, Stored
  <2> QED
    BY <2>1, <2>3, <2>4, <2>5, <2>6 DEF AccessSound
<1>6. Fewer(s, t)
  BY <1>2 DEF Fewer
<1> QED
  BY <1>2, <1>3, <1>5, <1>6 DEF t, Sound

LEMMA SameRecords ==
    ASSUME NEW s, Sound(s), NEW t \in Store,
           t.rows = s.rows, t.older = s.older, t.idle = s.idle
    PROVE  Sound(t)
BY DEF Sound, AccessSound, Stored, Before

LEMMA EvictSound ==
    ASSUME NEW s, Sound(s)
    PROVE  /\ Sound(Evict(s)) /\ Fewer(s, Evict(s))
           /\ Evict(s).hour = s.hour /\ Evict(s).day = s.day
<1> DEFINE gone == {i \in Stored(s) :
                      Cardinality(Before(s, i)) < EvictionCount(Cardinality(Stored(s)))}
<1>1. gone \in SUBSET Ids
  BY DEF Stored
<1>2. Evict(s) = DropRows(s, gone)
  BY DEF Evict
<1> HIDE DEF gone
<1> QED
  BY <1>1, <1>2, DropSound

(* A put, whatever becomes of it, adds no row and leaves the counters.      *)
LEMMA PutSound ==
    ASSUME NEW s, Sound(s), NEW short \in BOOLEAN, NEW out \in PutOutcomes(s, short)
    PROVE  /\ Sound(out.st) /\ Fewer(s, out.st)
           /\ out.st.hour = s.hour /\ out.st.day = s.day
           /\ out.res \in {"ok", "pressure", "error"}
<1> DEFINE hit  == [s EXCEPT !.ring = IF s.ring < Threshold THEN s.ring + 1 ELSE Threshold]
           less == Evict(hit)
<1>1. \/ out = Attempt(s, "ok") \/ out = Attempt(s, "error")
      \/ out = Attempt(hit, "pressure") \/ out = Attempt(less, "error")
      \/ out = Attempt([less EXCEPT !.ring = 0], "pressure")
      \/ out = Attempt([less EXCEPT !.ring = 0, !.full = FALSE], "ok")
  BY DEF PutOutcomes
<1>2. /\ Sound(hit) /\ Fewer(s, hit) /\ hit.hour = s.hour /\ hit.day = s.day
  <2>1. s \in Store
    BY DEF Sound
  <2>2. /\ hit \in Store /\ hit.rows = s.rows /\ hit.older = s.older /\ hit.idle = s.idle
        /\ hit.index = s.index /\ hit.alarm = s.alarm /\ hit.hour = s.hour /\ hit.day = s.day
    BY <2>1, ShareWorkerAssumption DEF Store
  <2> HIDE DEF hit
  <2> QED
    BY <2>2, SameRecords DEF Fewer
<1>3. /\ Sound(less) /\ Fewer(s, less) /\ less.hour = s.hour /\ less.day = s.day
  <2> HIDE DEF hit
  <2> QED
    BY <1>2, EvictSound, FewerTransitive
<1> HIDE DEF hit, less
<1>4. ASSUME NEW full \in BOOLEAN
      PROVE  LET t == [less EXCEPT !.ring = 0, !.full = full]
             IN  Sound(t) /\ Fewer(s, t) /\ t.hour = s.hour /\ t.day = s.day
  <2> DEFINE t == [less EXCEPT !.ring = 0, !.full = full]
  <2>1. less \in Store /\ 0 \in 0 .. Threshold
    BY <1>3, ShareWorkerAssumption DEF Sound
  <2>2. /\ t.rows = less.rows /\ t.older = less.older /\ t.idle = less.idle
        /\ t.index = less.index /\ t.alarm = less.alarm
        /\ t.hour = less.hour /\ t.day = less.day
    BY <2>1 DEF Store
  <2>6. t \in Store
    BY <2>1 DEF Store
  <2> HIDE DEF t
  <2>3. Sound(t)
    BY <1>3, <2>2, <2>6, SameRecords
  <2>4. Fewer(s, t)
    BY <1>3, <2>2 DEF Fewer
  <2>5. t.hour = s.hour /\ t.day = s.day
    BY <1>3, <2>2
  <2> QED
    BY <2>3, <2>4, <2>5 DEF t
<1>5. [less EXCEPT !.ring = 0] = [less EXCEPT !.ring = 0, !.full = less.full]
  BY <1>3 DEF Sound, Store
<1>6. less.full \in BOOLEAN
  BY <1>3 DEF Sound, Store
<1>7. \A st, res : Attempt(st, res).st = st /\ Attempt(st, res).res = res
  BY DEF Attempt
<1>8. CASE out \in {Attempt(s, "ok"), Attempt(s, "error")}
  BY <1>7, <1>8, FewerReflexive
<1>9. CASE out = Attempt(hit, "pressure")
  BY <1>2, <1>7, <1>9
<1>10. CASE out = Attempt(less, "error")
  BY <1>3, <1>7, <1>10
<1>11. CASE out = Attempt([less EXCEPT !.ring = 0], "pressure")
  <2>1. out.st = [less EXCEPT !.ring = 0, !.full = less.full] /\ out.res = "pressure"
    BY <1>5, <1>7, <1>11
  <2> QED
    BY <2>1, <1>4, <1>6
<1>12. CASE out = Attempt([less EXCEPT !.ring = 0, !.full = FALSE], "ok")
  BY <1>4, <1>7, <1>12
<1> QED
  BY <1>1, <1>8, <1>9, <1>10, <1>11, <1>12

(* A written row is the one accessed last.                                  *)
LEMMA WriteRowSound ==
    ASSUME NEW s, Sound(s), NEW i \in Ids, NEW r \in Row
    PROVE  LET t == WriteRow(s, i, r)
           IN  /\ Sound(t) /\ t.rows = [s.rows EXCEPT ![i] = r]
               /\ t.index = s.index /\ t.alarm = s.alarm
               /\ t.hour = s.hour /\ t.day = s.day
<1> DEFINE t == WriteRow(s, i, r)
<1>1. s \in Store
  BY DEF Sound
<1>2. Stored(s) \subseteq Ids /\ s.older \subseteq Ids \X Ids
  BY <1>1 DEF Stored, Store
<1>3. /\ t.rows = [s.rows EXCEPT ![i] = r]
      /\ t.older = (s.older \cap ((Ids \ {i}) \X (Ids \ {i}))) \cup ((Stored(s) \ {i}) \X {i})
      /\ t.idle = s.idle \ {i}
      /\ t.index = s.index /\ t.ring = s.ring /\ t.full = s.full /\ t.alarm = s.alarm
      /\ t.hour = s.hour /\ t.day = s.day
  BY <1>1 DEF WriteRow, Store, Among
<1>4. t \in Store
  <2>1. /\ t.rows \in [Ids -> Row \cup {None}]
        /\ t.older \in SUBSET (Ids \X Ids) /\ t.idle \in SUBSET Ids
    BY <1>1, <1>2, <1>3 DEF Store
  <2>2. ASSUME NEW a \in [Ids -> Row \cup {None}], NEW b \in SUBSET (Ids \X Ids),
               NEW d \in SUBSET Ids
        PROVE  [s EXCEPT !.rows = a, !.older = b, !.idle = d] \in Store
    BY <1>1 DEF Store
  <2>3. t = [s EXCEPT !.rows = t.rows, !.older = t.older, !.idle = t.idle]
    BY <1>1 DEF WriteRow, Store
  <2> HIDE DEF t
  <2>4. [s EXCEPT !.rows = t.rows, !.older = t.older, !.idle = t.idle] \in Store
    BY <2>1, <2>2
  <2> QED
    BY <2>3, <2>4
<1> HIDE DEF t
<1>5. Stored(t) = Stored(s) \cup {i}
  BY <1>1, <1>3, ShareWorkerAssumption DEF Stored, Store
<1>6. AccessSound(t)
  <2>1. \A j, k \in Stored(t) :
           <<j, k>> \in t.older <=> j # i /\ (k = i \/ <<j, k>> \in s.older)
    BY <1>2, <1>3, <1>5
  <2>2. t.older \subseteq Stored(t) \X Stored(t) /\ t.idle \subseteq Stored(t)
    BY <1>3, <1>5 DEF Sound, AccessSound
  <2>3. \A j, k \in Stored(t) : j # k => (<<j, k>> \in t.older <=> <<k, j>> \notin t.older)
    BY <2>1, <1>5 DEF Sound, AccessSound
  <2>4. \A j \in Stored(t) : <<j, j>> \notin t.older
    BY <2>1, <1>5 DEF Sound, AccessSound
  <2>5. \A j, k, l \in Stored(t) :
           <<j, k>> \in t.older /\ <<k, l>> \in t.older => <<j, l>> \in t.older
    BY <2>1, <1>5 DEF Sound, AccessSound
  <2>6. \A j \in t.idle : Before(t, j) \subseteq t.idle
    BY <2>1, <1>3, <1>5 DEF Sound, AccessSound, Before
  <2> QED
    BY <2>2, <2>3, <2>4, <2>5, <2>6 DEF AccessSound
<1> QED
  BY <1>3, <1>4, <1>6 DEF t, Sound

(* Touching writes the row last: only when it is answered "ok" is there a   *)
(* new row, the one that was touched, and then the alarm is armed.          *)
Touched(s, t, i, r, res) ==
  /\ \A j \in Ids : t.rows[j] \in {None, s.rows[j]} \/ (res = "ok" /\ j = i)
  /\ \A x \in Row : t.index[x] \in {None, s.index[x]} \/ (x = r /\ t.index[x] = i)
  /\ IF res = "ok" THEN t.rows[i] = r /\ t.alarm ELSE t.alarm = s.alarm

LEMMA TouchSound ==
    ASSUME NEW s, Sound(s), NEW i \in Ids, NEW r \in Row, NEW out \in TouchOutcomes(s, i, r)
    PROVE  /\ Sound(out.st) /\ Touched(s, out.st, i, r, out.res)
           /\ out.st.hour = s.hour /\ out.st.day = s.day
           /\ out.res \in {"ok", "pressure", "error"}
<1> DEFINE w(a) == WriteIndex(a.st, i, r)
           e(b) == WriteRow(b.st, i, r)
<1>1. PICK a \in PutOutcomes(s, TRUE) :
        \/ a.res # "ok" /\ out = a
        \/ /\ a.res = "ok"
           /\ \E b \in PutOutcomes(w(a), FALSE) :
                out = IF b.res # "ok" THEN b ELSE Attempt([e(b) EXCEPT !.alarm = TRUE], "ok")
  <2>1. PICK a \in PutOutcomes(s, TRUE) :
          out \in IF a.res # "ok" THEN {a}
                  ELSE { IF b.res # "ok" THEN b
                         ELSE Attempt([e(b) EXCEPT !.alarm = TRUE], "ok")
                         : b \in PutOutcomes(w(a), FALSE) }
    BY DEF TouchOutcomes
  <2> QED
    BY <2>1
<1>2. /\ Sound(a.st) /\ Fewer(s, a.st) /\ a.st.hour = s.hour /\ a.st.day = s.day
      /\ a.res \in {"ok", "pressure", "error"}
  BY PutSound
<1>3. CASE a.res # "ok"
  BY <1>1, <1>2, <1>3 DEF Fewer, Touched
<1>4. CASE a.res = "ok"
  <2>1. PICK b \in PutOutcomes(w(a), FALSE) :
          out = IF b.res # "ok" THEN b ELSE Attempt([e(b) EXCEPT !.alarm = TRUE], "ok")
    BY <1>1, <1>4
  <2>2. /\ Sound(w(a)) /\ w(a).rows = a.st.rows /\ w(a).alarm = a.st.alarm
        /\ w(a).index = [a.st.index EXCEPT ![r] = i]
        /\ w(a).hour = s.hour /\ w(a).day = s.day
    <3>1. a.st \in Store
      BY <1>2 DEF Sound
    <3>2. /\ w(a) \in Store /\ w(a).rows = a.st.rows /\ w(a).alarm = a.st.alarm
          /\ w(a).older = a.st.older /\ w(a).idle = a.st.idle
          /\ w(a).index = [a.st.index EXCEPT ![r] = i]
          /\ w(a).hour = a.st.hour /\ w(a).day = a.st.day
      BY <3>1 DEF WriteIndex, Store
    <3> HIDE DEF w
    <3> QED
      BY <3>2, <1>2, SameRecords
  <2> HIDE DEF w
  <2>3. /\ Sound(b.st) /\ Fewer(w(a), b.st) /\ b.st.hour = s.hour /\ b.st.day = s.day
        /\ b.res \in {"ok", "pressure", "error"}
    BY <2>2, PutSound
  <2>4. /\ \A j \in Ids : b.st.rows[j] \in {None, s.rows[j]}
        /\ \A x \in Row : b.st.index[x] \in {None, s.index[x]} \/ (x = r /\ b.st.index[x] = i)
        /\ b.st.alarm = s.alarm
    <3>1. a.st.index \in [Row -> Ids \cup {None}]
      BY <1>2 DEF Sound, Store
    <3> QED
      BY <1>2, <2>2, <2>3, <3>1 DEF Fewer
  <2>5. CASE b.res # "ok"
    BY <2>1, <2>3, <2>4, <2>5 DEF Touched
  <2>6. CASE b.res = "ok"
    <3> DEFINE t == [e(b) EXCEPT !.alarm = TRUE]
    <3>1. out.st = t /\ out.res = "ok"
      BY <2>1, <2>6 DEF Attempt
    <3>2. /\ Sound(e(b)) /\ e(b).rows = [b.st.rows EXCEPT ![i] = r]
          /\ e(b).index = b.st.index /\ e(b).hour = s.hour /\ e(b).day = s.day
      BY <2>3, WriteRowSound
    <3> HIDE DEF e
    <3>3. e(b) \in Store
      BY <3>2 DEF Sound
    <3>4. /\ t \in Store /\ t.rows = e(b).rows /\ t.older = e(b).older /\ t.idle = e(b).idle
          /\ t.index = e(b).index /\ t.hour = e(b).hour /\ t.day = e(b).day /\ t.alarm = TRUE
      BY <3>3 DEF Store
    <3> HIDE DEF t
    <3>5. Sound(t)
      BY <3>2, <3>4, SameRecords
    <3>6. b.st.rows \in [Ids -> Row \cup {None}]
      BY <2>3 DEF Sound, Store
    <3>7. Touched(s, t, i, r, "ok")
      BY <2>4, <3>2, <3>4, <3>6 DEF Touched
    <3> QED
      BY <3>1, <3>2, <3>4, <3>5, <3>7
  <2> QED
    BY <2>5, <2>6
<1> QED
  BY <1>3, <1>4

(* Counting raises both counters by one before it lets an upload through,   *)
(* and never lowers one.                                                    *)
LEMMA CountSound ==
    ASSUME NEW s, Sound(s), NEW out \in CountOutcomes(s)
    PROVE  /\ Sound(out.st) /\ Fewer(s, out.st)
           /\ out.st.hour >= s.hour /\ out.st.day >= s.day
           /\ out.res = "ok" => /\ out.st.hour = s.hour + 1 /\ out.st.hour <= PerHour
                                /\ out.st.day = s.day + 1 /\ out.st.day <= PerDay
           /\ out.res \in {"ok", "pressure", "error", "refused"}
<1> DEFINE h(a) == [a.st EXCEPT !.hour = Raise(s.hour, PerHour)]
           d(b) == [b.st EXCEPT !.day = Raise(s.day, PerDay)]
           end(b) == Attempt(d(b), IF WithinQuota(d(b)) THEN "ok" ELSE "refused")
<1>1. PICK a \in PutOutcomes(s, TRUE) :
        \/ a.res # "ok" /\ out = a
        \/ a.res = "ok" /\ \E b \in PutOutcomes(h(a), TRUE) :
                               out = IF b.res # "ok" THEN b ELSE end(b)
  <2>1. PICK a \in PutOutcomes(s, TRUE) :
          out \in IF a.res # "ok" THEN {a}
                  ELSE { IF b.res # "ok" THEN b ELSE end(b) : b \in PutOutcomes(h(a), TRUE) }
    BY DEF CountOutcomes
  <2> QED
    BY <2>1
<1>2. /\ Sound(a.st) /\ Fewer(s, a.st) /\ a.st.hour = s.hour /\ a.st.day = s.day
      /\ a.res \in {"ok", "pressure", "error"}
  BY PutSound
<1>3. s.hour \in 0 .. PerHour + 1 /\ s.day \in 0 .. PerDay + 1
  BY DEF Sound, Store
<1>4. /\ Raise(s.hour, PerHour) \in 0 .. PerHour + 1 /\ Raise(s.hour, PerHour) >= s.hour
      /\ Raise(s.hour, PerHour) <= PerHour => Raise(s.hour, PerHour) = s.hour + 1
      /\ Raise(s.day, PerDay) \in 0 .. PerDay + 1 /\ Raise(s.day, PerDay) >= s.day
      /\ Raise(s.day, PerDay) <= PerDay => Raise(s.day, PerDay) = s.day + 1
  BY <1>3, ShareWorkerAssumption DEF Raise
<1>5. CASE a.res # "ok"
  <2>1. s.hour >= s.hour /\ s.day >= s.day
    BY <1>3, ShareWorkerAssumption
  <2> QED
    BY <1>1, <1>2, <1>5, <2>1
<1>6. CASE a.res = "ok"
  <2>1. PICK b \in PutOutcomes(h(a), TRUE) : out = IF b.res # "ok" THEN b ELSE end(b)
    BY <1>1, <1>6
  <2>2. /\ Sound(h(a)) /\ Fewer(s, h(a))
        /\ h(a).hour = Raise(s.hour, PerHour) /\ h(a).day = s.day
    <3>1. a.st \in Store
      BY <1>2 DEF Sound
    <3>2. /\ h(a) \in Store /\ h(a).rows = a.st.rows /\ h(a).alarm = a.st.alarm
          /\ h(a).older = a.st.older /\ h(a).idle = a.st.idle
          /\ h(a).index = a.st.index
          /\ h(a).hour = Raise(s.hour, PerHour) /\ h(a).day = a.st.day
      BY <3>1, <1>4 DEF Store
    <3> HIDE DEF h
    <3> QED
      BY <3>2, <1>2, SameRecords DEF Fewer
  <2> HIDE DEF h
  <2>3. /\ Sound(b.st) /\ Fewer(h(a), b.st) /\ b.st.hour = Raise(s.hour, PerHour)
        /\ b.st.day = s.day /\ b.res \in {"ok", "pressure", "error"}
    BY <2>2, PutSound
  <2>4. Fewer(s, b.st)
    BY <2>2, <2>3, FewerTransitive
  <2>5. CASE b.res # "ok"
    BY <2>1, <2>3, <2>4, <2>5, <1>3, <1>4
  <2>6. CASE b.res = "ok"
    <3>1. out.st = d(b) /\ out.res = IF WithinQuota(d(b)) THEN "ok" ELSE "refused"
      BY <2>1, <2>6 DEF Attempt
    <3>2. b.st \in Store
      BY <2>3 DEF Sound
    <3>3. /\ d(b) \in Store /\ d(b).rows = b.st.rows /\ d(b).alarm = b.st.alarm
          /\ d(b).older = b.st.older /\ d(b).idle = b.st.idle
          /\ d(b).index = b.st.index
          /\ d(b).hour = Raise(s.hour, PerHour) /\ d(b).day = Raise(s.day, PerDay)
      BY <3>2, <2>3, <1>4 DEF Store
    <3> HIDE DEF d
    <3>4. Sound(d(b))
      BY <2>3, <3>3, SameRecords
    <3>5. Fewer(s, d(b))
      BY <2>4, <3>3 DEF Fewer
    <3>6. WithinQuota(d(b)) => /\ d(b).hour = s.hour + 1 /\ d(b).hour <= PerHour
                               /\ d(b).day = s.day + 1 /\ d(b).day <= PerDay
      BY <3>3, <1>4 DEF WithinQuota
    <3> QED
      BY <3>1, <3>3, <3>4, <3>5, <3>6, <1>4
  <2> QED
    BY <2>5, <2>6
<1> QED
  BY <1>5, <1>6

-----------------------------------------------------------------------------
(* The inductive invariant. A row and an index key agree with the content   *)
(* their id was drawn for, and so does every request that is under way:     *)
(* that is what makes two separate steps of a route act on one content.     *)

RowsBorn(s, b) ==
  \A i \in Ids : s.rows[i] # None => i \in 1 .. Len(b) /\ b[i] = s.rows[i]

IndexBorn(s, b) ==
  \A r \in Row : s.index[r] # None => s.index[r] \in 1 .. Len(b) /\ b[s.index[r]] = r

Backed(q, b) ==
  /\ q.id \in 1 .. Len(b) /\ b[q.id] = q.row
  /\ q.found # None => /\ q.at = "load" /\ q.found \in 1 .. Len(b) /\ b[q.found] = q.row
  /\ q.at = "load" => q.found # None
  /\ q.at \in {"checked", "load", "put", "finalize"} => q.op = "upload"
  /\ q.op # "upload" => q.found = None

CallsBacked == \A c \in Slots : call[c] # Idle => Backed(call[c], born)

QuotaCounted ==
  /\ granted.hour <= store.hour /\ granted.day <= store.day
  /\ QuotaKept

WorkerInv ==
  /\ WorkerTypeOK
  /\ RowsBorn(store, born) /\ IndexBorn(store, born) /\ CallsBacked
  /\ AlarmArmed
  /\ QuotaCounted

(* What every step of the object does to its store, seen from the contents  *)
(* the ids were drawn for.                                                  *)
Moved(s, t, b) ==
  /\ \A i \in Ids : t.rows[i] \in {None, s.rows[i]} \/ (i \in 1 .. Len(b) /\ b[i] = t.rows[i])
  /\ \A r \in Row : \/ t.index[r] \in {None, s.index[r]}
                    \/ t.index[r] \in 1 .. Len(b) /\ b[t.index[r]] = r
  /\ (Stored(s) # {} => s.alarm) => (Stored(t) # {} => t.alarm)

LEMMA FewerMoves ==
    ASSUME NEW s, NEW t, NEW b, Fewer(s, t)
    PROVE  Moved(s, t, b)
BY DEF Fewer, Moved, Stored

LEMMA TouchedMoves ==
    ASSUME NEW s, NEW t, NEW b, NEW i \in Ids, NEW r \in Row, NEW res,
           Touched(s, t, i, r, res), i \in 1 .. Len(b), b[i] = r
    PROVE  Moved(s, t, b)
<1>1. \A j \in Ids : t.rows[j] \in {None, s.rows[j]} \/ (j \in 1 .. Len(b) /\ b[j] = t.rows[j])
  BY DEF Touched
<1>2. \A x \in Row : \/ t.index[x] \in {None, s.index[x]}
                     \/ t.index[x] \in 1 .. Len(b) /\ b[t.index[x]] = x
  BY DEF Touched
<1>3. (Stored(s) # {} => s.alarm) => (Stored(t) # {} => t.alarm)
  <2>1. CASE res = "ok"
    BY <2>1 DEF Touched
  <2>2. CASE res # "ok"
    <3>1. Stored(t) \subseteq Stored(s) /\ t.alarm = s.alarm
      BY <2>2 DEF Touched, Stored
    <3> QED
      BY <3>1
  <2> QED
    BY <2>1, <2>2
<1> QED
  BY <1>1, <1>2, <1>3 DEF Moved

(* A step of a request: the store moves, the request moves, the quota may   *)
(* be used.                                                                 *)
LEMMA RouteStep ==
    ASSUME WorkerInv, NEW c \in Slots, NEW q \in Call, Backed(q, born),
           call' = [call EXCEPT ![c] = q],
           Sound(store'), Moved(store, store', born),
           UNCHANGED <<born, bound>>,
           granted' \in [hour : Nat, day : Nat], QuotaCounted'
    PROVE  WorkerInv'
<1>1. WorkerTypeOK'
  BY DEF WorkerInv, WorkerTypeOK, Sound
<1>2. RowsBorn(store, born)'
  BY DEF WorkerInv, Moved, RowsBorn
<1>3. IndexBorn(store, born)'
  BY DEF WorkerInv, Moved, IndexBorn
<1>4. CallsBacked'
  BY DEF WorkerInv, WorkerTypeOK, CallsBacked
<1>5. AlarmArmed'
  BY DEF WorkerInv, Moved, AlarmArmed
<1> QED
  BY <1>1, <1>2, <1>3, <1>4, <1>5 DEF WorkerInv

(* A step that grants nothing and leaves the counters alone.                *)
LEMMA SameQuota ==
    ASSUME WorkerInv, store'.hour = store.hour, store'.day = store.day,
           UNCHANGED granted
    PROVE  granted' \in [hour : Nat, day : Nat] /\ QuotaCounted'
BY DEF WorkerInv, WorkerTypeOK, QuotaCounted, QuotaKept

LEMMA Replying ==
    ASSUME NEW q \in Call, NEW b, Backed(q, b), NEW a \in Answers
    PROVE  /\ Replied(q, a) \in Call /\ Backed(Replied(q, a), b)
           /\ Replied(q, a) = [q EXCEPT !.at = "done", !.ans = a, !.id = LinkOf(q),
                                        !.found = None, !.force = FALSE]
<1>1. LinkOf(q) \in Ids
  BY DEF LinkOf, Call
<1>2. Replied(q, a) \in Call
  BY <1>1 DEF Replied, Call, Steps
<1>3. /\ Replied(q, a).at = "done" /\ Replied(q, a).id = LinkOf(q)
      /\ Replied(q, a).row = q.row /\ Replied(q, a).found = None
  BY DEF Replied, Call
<1>4. LinkOf(q) \in 1 .. Len(b) /\ b[LinkOf(q)] = q.row
  BY DEF LinkOf, Backed
<1> QED
  BY <1>2, <1>3, <1>4 DEF Backed, Replied

LEMMA Going ==
    ASSUME NEW q \in Call, NEW b, Backed(q, b), q.at \in {"new", "checked", "put"},
           q.op = "upload", NEW at \in {"checked", "put", "finalize"}
    PROVE  [q EXCEPT !.at = at] \in Call /\ Backed([q EXCEPT !.at = at], b)
<1>1. [q EXCEPT !.at = at] \in Call
  BY DEF Call, Steps
<1>2. /\ [q EXCEPT !.at = at].at = at /\ [q EXCEPT !.at = at].id = q.id
      /\ [q EXCEPT !.at = at].row = q.row /\ [q EXCEPT !.at = at].found = q.found
      /\ [q EXCEPT !.at = at].op = q.op
  BY DEF Call
<1>3. q.found = None
  BY DEF Backed
<1> QED
  BY <1>1, <1>2, <1>3 DEF Backed

LEMMA UnderWay ==
    ASSUME WorkerInv, NEW c \in Slots, call[c].at # "idle"
    PROVE  /\ call[c] \in Call /\ Backed(call[c], born)
           /\ call \in [Slots -> Call \cup {Idle}]
           /\ Sound(store)
BY DEF WorkerInv, WorkerTypeOK, CallsBacked, Idle, Sound

(* A request answers.                                                       *)
LEMMA Answering ==
    ASSUME WorkerInv, NEW c \in Slots, call[c].at # "idle", NEW a \in Answers, Answer(c, a),
           Sound(store'), Moved(store, store', born), UNCHANGED <<born, bound>>,
           granted' \in [hour : Nat, day : Nat], QuotaCounted'
    PROVE  WorkerInv'
<1>1. call[c] \in Call /\ Backed(call[c], born)
  BY UnderWay
<1>2. Replied(call[c], a) \in Call /\ Backed(Replied(call[c], a), born)
  BY <1>1, Replying
<1> QED
  BY <1>2, RouteStep DEF Answer

(* A request goes on to its next call.                                      *)
LEMMA Continuing ==
    ASSUME WorkerInv, NEW c \in Slots, call[c].at \in {"new", "checked", "put"},
           call[c].op = "upload", NEW at \in {"checked", "put", "finalize"}, Goto(c, at),
           Sound(store'), Moved(store, store', born), UNCHANGED <<born, bound>>,
           granted' \in [hour : Nat, day : Nat], QuotaCounted'
    PROVE  WorkerInv'
<1>1. call[c] \in Call /\ Backed(call[c], born) /\ call \in [Slots -> Call \cup {Idle}]
  BY UnderWay
<1>2. [call[c] EXCEPT !.at = at] \in Call /\ Backed([call[c] EXCEPT !.at = at], born)
  BY <1>1, Going
<1>3. call' = [call EXCEPT ![c] = [call[c] EXCEPT !.at = at]]
  BY <1>1 DEF Goto
<1> QED
  BY <1>2, <1>3, RouteStep

-----------------------------------------------------------------------------
(* One lemma per action.                                                    *)

LEMMA SubmitKeeps ==
    ASSUME WorkerInv, NEW c \in Slots, NEW op \in Ops, NEW row \in Row,
           NEW force \in BOOLEAN, NEW id \in Ids, Submit(c, op, row, force, id)
    PROVE  WorkerInv'
<1> DEFINE q == Request(op, row, force, id)
<1>1. /\ store' = store /\ granted' = granted /\ bound' = bound
      /\ call' = [call EXCEPT ![c] = q]
      /\ \/ op = "upload" /\ id = Len(born) + 1 /\ born' = Append(born, row)
         \/ id \in 1 .. Len(born) /\ born[id] = row /\ born' = born
  BY DEF Submit
<1>2. q \in Call
  BY DEF Request, Call, Steps
<1>3. born \in Seq(Row) /\ Len(born) \in Nat /\ Len(born) <= MaxIds
  BY DEF WorkerInv, WorkerTypeOK
<1>4. /\ born' \in Seq(Row) /\ Len(born') <= MaxIds
      /\ \A k \in 1 .. Len(born) : k \in 1 .. Len(born') /\ born'[k] = born[k]
      /\ id \in 1 .. Len(born') /\ born'[id] = row
  <2>1. CASE id = Len(born) + 1 /\ born' = Append(born, row)
    BY <2>1, <1>3, ShareWorkerAssumption DEF Ids
  <2>2. CASE id \in 1 .. Len(born) /\ born[id] = row /\ born' = born
    BY <2>2, <1>3
  <2> QED
    BY <1>1, <2>1, <2>2
<1>5. WorkerTypeOK'
  BY <1>1, <1>2, <1>4 DEF WorkerInv, WorkerTypeOK
<1>6. RowsBorn(store, born)'
  BY <1>1, <1>4 DEF WorkerInv, RowsBorn
<1>7. IndexBorn(store, born)'
  BY <1>1, <1>4 DEF WorkerInv, IndexBorn
<1>8. CallsBacked'
  <2>1. Backed(q, born')
    BY <1>4 DEF Backed, Request
  <2>2. ASSUME NEW d \in Slots, call[d] # Idle PROVE Backed(call[d], born')
    BY <2>2, <1>4 DEF WorkerInv, CallsBacked, Backed
  <2> HIDE DEF q
  <2> QED
    BY <1>1, <2>1, <2>2 DEF WorkerInv, WorkerTypeOK, CallsBacked
<1>9. AlarmArmed' /\ QuotaCounted'
  BY <1>1 DEF WorkerInv, AlarmArmed, QuotaCounted, QuotaKept
<1> QED
  BY <1>5, <1>6, <1>7, <1>8, <1>9 DEF WorkerInv

LEMMA CheckQuotaKeeps ==
    ASSUME WorkerInv, NEW c \in Slots, CheckQuota(c)
    PROVE  WorkerInv'
<1>1. PICK out \in CountOutcomes(store) :
        /\ store' = out.st
        /\ granted' = IF out.res = "ok"
                      THEN [hour |-> granted.hour + 1, day |-> granted.day + 1] ELSE granted
        /\ CASE out.res = "ok" -> Goto(c, "checked")
             [] out.res = "error" -> Answer(c, "error")
             [] OTHER -> Answer(c, "limited")
  BY DEF CheckQuota
<1>2. call[c].at = "new" /\ call[c].op = "upload" /\ UNCHANGED <<born, bound>>
  BY DEF CheckQuota
<1>3. Sound(store)
  BY <1>2, UnderWay
<1>4. /\ Sound(store') /\ Fewer(store, store')
      /\ store'.hour >= store.hour /\ store'.day >= store.day
      /\ out.res = "ok" => /\ store'.hour = store.hour + 1 /\ store'.hour <= PerHour
                           /\ store'.day = store.day + 1 /\ store'.day <= PerDay
  BY <1>1, <1>3, CountSound
<1>5. Moved(store, store', born)
  BY <1>4, FewerMoves
<1>6. granted' \in [hour : Nat, day : Nat] /\ QuotaCounted'
  <2>1. /\ granted \in [hour : Nat, day : Nat]
        /\ granted.hour \in Nat /\ granted.day \in Nat
        /\ store.hour \in Nat /\ store.day \in Nat /\ store'.hour \in Nat /\ store'.day \in Nat
    BY <1>3, <1>4, ShareWorkerAssumption DEF WorkerInv, WorkerTypeOK, Sound, Store
  <2>2. CASE out.res = "ok"
    <3>1. granted'.hour = granted.hour + 1 /\ granted'.day = granted.day + 1
      BY <1>1, <2>2
    <3>2. granted' \in [hour : Nat, day : Nat]
      BY <1>1, <2>1, <2>2
    <3> QED
      BY <3>1, <3>2, <2>1, <2>2, <1>4, ShareWorkerAssumption
      DEF WorkerInv, QuotaCounted, QuotaKept
  <2>3. CASE out.res # "ok"
    <3>1. granted' = granted
      BY <1>1, <2>3
    <3> QED
      BY <3>1, <2>1, <1>4, ShareWorkerAssumption DEF WorkerInv, QuotaCounted, QuotaKept
  <2> QED
    BY <2>2, <2>3
<1>7. CASE out.res = "ok"
  <2>1. Goto(c, "checked")
    BY <1>1, <1>7
  <2> QED
    BY <1>2, <1>4, <1>5, <1>6, <2>1, Continuing
<1>8. CASE out.res # "ok"
  <2>1. Answer(c, "error") \/ Answer(c, "limited")
    BY <1>1, <1>8
  <2>2. "error" \in Answers /\ "limited" \in Answers
    BY DEF Answers
  <2> QED
    BY <1>2, <1>4, <1>5, <1>6, <2>1, <2>2, Answering
<1> QED
  BY <1>7, <1>8

LEMMA RejectBodyKeeps ==
    ASSUME WorkerInv, NEW c \in Slots, RejectBody(c)
    PROVE  WorkerInv'
<1>1. call[c].at = "checked" /\ Answer(c, "bad") /\ UNCHANGED <<store, born, granted, bound>>
  BY DEF RejectBody
<1>2. Sound(store') /\ Moved(store, store', born)
  BY <1>1, UnderWay, FewerReflexive, FewerMoves
<1>3. "bad" \in Answers
  BY DEF Answers
<1> QED
  BY <1>1, <1>2, <1>3, SameQuota, Answering

LEMMA LookUpKeeps ==
    ASSUME WorkerInv, NEW c \in Slots, LookUp(c)
    PROVE  WorkerInv'
<1> DEFINE r == call[c].row
           i == store.index[r]
<1>1. call[c].at = "checked" /\ UNCHANGED <<born, granted, bound>>
  BY DEF LookUp
<1>2. /\ call[c] \in Call /\ Backed(call[c], born) /\ call[c].op = "upload"
      /\ call \in [Slots -> Call \cup {Idle}] /\ Sound(store) /\ r \in Row
  BY <1>1, UnderWay DEF Backed, Call
<1>3. CASE i \in Stored(store)
  <2> DEFINE q == [call[c] EXCEPT !.at = "load", !.found = i]
  <2>1. call' = [call EXCEPT ![c] = q] /\ store' = store
    BY <1>2, <1>3 DEF LookUp
  <2>2. i \in Ids /\ i # None
    BY <1>3, ShareWorkerAssumption DEF Stored, Ids
  <2>3. i \in 1 .. Len(born) /\ born[i] = r
    BY <1>2, <2>2 DEF WorkerInv, IndexBorn
  <2>4. q \in Call
    BY <1>2, <2>2 DEF Call, Steps
  <2>5. /\ q.at = "load" /\ q.found = i /\ q.row = r /\ q.id = call[c].id
        /\ q.op = "upload"
    BY <1>2 DEF Call
  <2>6. Backed(q, born)
    <3> HIDE DEF q, i, r
    <3>1. call[c].id \in 1 .. Len(born) /\ born[call[c].id] = r
      BY <1>2 DEF Backed, r
    <3> QED
      BY <3>1, <2>2, <2>3, <2>5 DEF Backed
  <2>7. Sound(store') /\ Moved(store, store', born)
    BY <1>2, <2>1, FewerReflexive, FewerMoves
  <2>8. granted' \in [hour : Nat, day : Nat] /\ QuotaCounted'
    BY <1>1, <2>1, SameQuota
  <2> HIDE DEF q
  <2> QED
    BY <1>1, <2>1, <2>4, <2>6, <2>7, <2>8, RouteStep
<1>4. CASE i \notin Stored(store)
  <2>1. Goto(c, "put") /\ store' = [store EXCEPT !.index[r] = None]
    BY <1>4 DEF LookUp
  <2>2. store \in Store
    BY <1>2 DEF Sound
  <2>3. /\ store' \in Store /\ store'.rows = store.rows /\ store'.older = store.older
        /\ store'.idle = store.idle /\ store'.alarm = store.alarm
        /\ store'.index = [store.index EXCEPT ![r] = None]
        /\ store'.hour = store.hour /\ store'.day = store.day
    BY <1>2, <2>1, <2>2 DEF Store
  <2>4. Sound(store')
    BY <1>2, <2>3, SameRecords
  <2>5. Fewer(store, store')
    BY <2>2, <2>3 DEF Fewer, Store
  <2> QED
    BY <1>1, <1>2, <2>1, <2>3, <2>4, <2>5, FewerMoves, SameQuota, Continuing
<1> QED
  BY <1>3, <1>4

LEMMA LoadFoundKeeps ==
    ASSUME WorkerInv, NEW c \in Slots, LoadFound(c)
    PROVE  WorkerInv'
<1> DEFINE i == call[c].found
           q == [call[c] EXCEPT !.at = "put", !.found = None]
<1>1. call[c].at = "load" /\ UNCHANGED <<born, granted, bound>>
  BY DEF LoadFound
<1>2. /\ call[c] \in Call /\ Backed(call[c], born)
      /\ call \in [Slots -> Call \cup {Idle}] /\ Sound(store)
  BY <1>1, UnderWay
<1>3. i \in Ids /\ i \in 1 .. Len(born)
  BY <1>1, <1>2 DEF Backed, Call
<1>4. q \in Call /\ Backed(q, born)
  <2>1. q \in Call
    BY <1>2 DEF Call, Steps
  <2>2. /\ q.at = "put" /\ q.found = None /\ q.row = call[c].row /\ q.id = call[c].id
        /\ q.op = call[c].op
    BY <1>2 DEF Call
  <2> HIDE DEF q
  <2> QED
    BY <1>1, <1>2, <2>1, <2>2 DEF Backed
<1> HIDE DEF q
<1>5. CASE i \notin Stored(store)
  <2>1. call' = [call EXCEPT ![c] = q] /\ store' = store
    BY <1>2, <1>5 DEF LoadFound, q
  <2>2. Sound(store') /\ Moved(store, store', born)
    BY <1>2, <2>1, FewerReflexive, FewerMoves
  <2>3. granted' \in [hour : Nat, day : Nat] /\ QuotaCounted'
    BY <1>1, <2>1, SameQuota
  <2> QED
    BY <1>1, <1>4, <2>1, <2>2, <2>3, RouteStep
<1>6. CASE i \in Stored(store)
  <2>1. PICK out \in TouchOutcomes(store, i, store.rows[i]) :
          /\ store' = out.st
          /\ CASE out.res = "ok" -> Answer(c, "ok")
               [] out.res = "error" -> Answer(c, "error")
               [] OTHER -> call' = [call EXCEPT ![c].at = "put", ![c].found = None]
    BY <1>6 DEF LoadFound
  <2>2. store.rows[i] \in Row /\ born[i] = store.rows[i]
    BY <1>2, <1>3, <1>6 DEF Sound, Store, Stored, WorkerInv, RowsBorn
  <2>3. /\ Sound(store') /\ Moved(store, store', born)
        /\ store'.hour = store.hour /\ store'.day = store.day
    BY <1>2, <1>3, <2>1, <2>2, TouchSound, TouchedMoves
  <2>4. granted' \in [hour : Nat, day : Nat] /\ QuotaCounted'
    BY <1>1, <2>3, SameQuota
  <2>5. CASE out.res \in {"ok", "error"}
    <3>1. Answer(c, "ok") \/ Answer(c, "error")
      BY <2>1, <2>5
    <3>2. "ok" \in Answers /\ "error" \in Answers
      BY DEF Answers
    <3> QED
      BY <1>1, <2>3, <2>4, <3>1, <3>2, Answering
  <2>6. CASE out.res \notin {"ok", "error"}
    <3>1. call' = [call EXCEPT ![c] = q]
      BY <1>2, <2>1, <2>6 DEF q
    <3> QED
      BY <1>1, <1>4, <2>3, <2>4, <3>1, RouteStep
  <2> QED
    BY <2>5, <2>6
<1> QED
  BY <1>5, <1>6

LEMMA PurgeSound ==
    ASSUME NEW s, Sound(s), NEW r \in Row
    PROVE  /\ Sound(PurgeContent(s, r)) /\ Fewer(s, PurgeContent(s, r))
           /\ PurgeContent(s, r).hour = s.hour /\ PurgeContent(s, r).day = s.day
<1> DEFINE led == {i \in Ids : s.index[r] = i}
           d == DropRows(s, led)
           t == [d EXCEPT !.index[r] = None]
<1>1. PurgeContent(s, r) = t
  BY DEF PurgeContent
<1>2. Sound(d) /\ Fewer(s, d) /\ d.hour = s.hour /\ d.day = s.day
  <2>1. led \in SUBSET Ids
    OBVIOUS
  <2> HIDE DEF led
  <2> QED
    BY <2>1, DropSound
<1> HIDE DEF d
<1>3. d \in Store
  BY <1>2 DEF Sound
<1>4. /\ t \in Store /\ t.rows = d.rows /\ t.older = d.older /\ t.idle = d.idle
      /\ t.index = [d.index EXCEPT ![r] = None] /\ t.alarm = d.alarm
      /\ t.hour = d.hour /\ t.day = d.day
  BY <1>3 DEF Store
<1> HIDE DEF t
<1>5. Sound(t)
  BY <1>2, <1>4, SameRecords
<1>6. Fewer(s, t)
  BY <1>2, <1>3, <1>4 DEF Fewer, Store
<1> QED
  BY <1>1, <1>2, <1>4, <1>5, <1>6

LEMMA PurgeForForceKeeps ==
    ASSUME WorkerInv, NEW c \in Slots, PurgeForForce(c)
    PROVE  WorkerInv'
<1>1. /\ call[c].at = "checked" /\ store' = PurgeContent(store, call[c].row)
      /\ Goto(c, "put") /\ UNCHANGED <<born, granted, bound>>
  BY DEF PurgeForForce
<1>2. call[c].row \in Row /\ call[c].op = "upload" /\ Sound(store)
  BY <1>1, UnderWay DEF Backed, Call
<1> QED
  BY <1>1, <1>2, PurgeSound, FewerMoves, SameQuota, Continuing

LEMMA PutRowKeeps ==
    ASSUME WorkerInv, NEW c \in Slots, PutRow(c)
    PROVE  WorkerInv'
<1>1. PICK out \in TouchOutcomes(store, call[c].id, call[c].row) :
        /\ store' = out.st
        /\ CASE out.res = "ok" /\ PutNext(c) = "finalize" -> Goto(c, "finalize")
             [] out.res = "ok" /\ PutNext(c) = "done" -> Answer(c, "ok")
             [] out.res = "error" -> Answer(c, "error")
             [] OTHER -> Answer(c, "full")
  BY DEF PutRow
<1>2. call[c].at \in {"put", "finalize"} /\ UNCHANGED <<born, granted, bound>>
  BY DEF PutRow
<1>3. /\ call[c] \in Call /\ Backed(call[c], born) /\ Sound(store)
      /\ call[c].id \in Ids /\ call[c].row \in Row
  BY <1>2, UnderWay DEF Call
<1>4. /\ Sound(store') /\ Moved(store, store', born)
      /\ store'.hour = store.hour /\ store'.day = store.day
      /\ out.res \in {"ok", "pressure", "error"}
  <2>1. call[c].id \in 1 .. Len(born) /\ born[call[c].id] = call[c].row
    BY <1>3 DEF Backed
  <2> QED
    BY <1>1, <1>3, <2>1, TouchSound, TouchedMoves
<1>5. granted' \in [hour : Nat, day : Nat] /\ QuotaCounted'
  BY <1>2, <1>4, SameQuota
<1>6. CASE out.res = "ok" /\ PutNext(c) = "finalize"
  <2>1. Goto(c, "finalize") /\ call[c].at = "put" /\ call[c].op = "upload"
    BY <1>1, <1>2, <1>3, <1>6 DEF PutNext, Backed
  <2> QED
    BY <1>2, <1>4, <1>5, <2>1, Continuing
<1>7. CASE ~(out.res = "ok" /\ PutNext(c) = "finalize")
  <2>1. \E a \in {"ok", "error", "full"} : Answer(c, a)
    BY <1>1, <1>4, <1>7 DEF PutNext
  <2>2. {"ok", "error", "full"} \subseteq Answers
    BY DEF Answers
  <2> QED
    BY <1>2, <1>4, <1>5, <2>1, <2>2, Answering
<1> QED
  BY <1>6, <1>7

LEMMA ReadKeeps ==
    ASSUME WorkerInv, NEW c \in Slots, Read(c)
    PROVE  WorkerInv'
<1> DEFINE i == call[c].id
<1>1. call[c].at = "new" /\ UNCHANGED <<born, granted, bound>>
  BY DEF Read
<1>2. call[c] \in Call /\ Backed(call[c], born) /\ Sound(store) /\ i \in Ids
  BY <1>1, UnderWay DEF Call
<1>3. \E a \in {"gone", "ok", "error"} : Answer(c, a)
  BY DEF Read
<1>4. {"gone", "ok", "error"} \subseteq Answers
  BY DEF Answers
<1>5. CASE i \notin Stored(store)
  <2>1. store' = store
    BY <1>5 DEF Read
  <2>2. Sound(store') /\ Moved(store, store', born)
    BY <1>2, <2>1, FewerReflexive, FewerMoves
  <2> QED
    BY <1>1, <1>3, <1>4, <2>1, <2>2, SameQuota, Answering
<1>6. CASE i \in Stored(store)
  <2>1. PICK out \in TouchOutcomes(store, i, store.rows[i]) : store' = out.st
    BY <1>6 DEF Read
  <2>2. store.rows[i] \in Row /\ i \in 1 .. Len(born) /\ born[i] = store.rows[i]
    BY <1>2, <1>6 DEF Sound, Store, Stored, WorkerInv, RowsBorn
  <2>3. /\ Sound(store') /\ Moved(store, store', born)
        /\ store'.hour = store.hour /\ store'.day = store.day
    BY <1>2, <2>1, <2>2, TouchSound, TouchedMoves
  <2> QED
    BY <1>1, <1>3, <1>4, <2>3, SameQuota, Answering
<1> QED
  BY <1>5, <1>6

LEMMA DeleteRowKeeps ==
    ASSUME WorkerInv, NEW c \in Slots, DeleteRow(c)
    PROVE  WorkerInv'
<1> DEFINE gone == {call[c].id} \cap Stored(store)
<1>1. /\ call[c].at = "new" /\ store' = DropRows(store, gone)
      /\ UNCHANGED <<born, granted, bound>>
      /\ Answer(c, "ok") \/ Answer(c, "absent")
  BY DEF DeleteRow
<1>2. gone \in SUBSET Ids /\ Sound(store)
  BY <1>1, UnderWay DEF Stored
<1>3. "ok" \in Answers /\ "absent" \in Answers
  BY DEF Answers
<1> HIDE DEF gone
<1> QED
  BY <1>1, <1>2, <1>3, DropSound, FewerMoves, SameQuota, Answering

LEMMA CutKeeps ==
    ASSUME WorkerInv, NEW c \in Slots, Cut(c)
    PROVE  WorkerInv'
<1>1. call' = [call EXCEPT ![c] = Idle] /\ UNCHANGED <<store, born, granted, bound>>
  BY DEF Cut
<1>2. WorkerTypeOK'
  BY <1>1 DEF WorkerInv, WorkerTypeOK
<1>3. CallsBacked'
  BY <1>1 DEF WorkerInv, WorkerTypeOK, CallsBacked
<1>4. RowsBorn(store, born)' /\ IndexBorn(store, born)' /\ AlarmArmed' /\ QuotaCounted'
  BY <1>1 DEF WorkerInv, RowsBorn, IndexBorn, AlarmArmed, QuotaCounted, QuotaKept
<1> QED
  BY <1>2, <1>3, <1>4 DEF WorkerInv

(* A step of the platform.                                                  *)
LEMMA PlatformStep ==
    ASSUME WorkerInv, Sound(store'), Moved(store, store', born), UNCHANGED <<born, call>>,
           bound' \in Nat, granted' \in [hour : Nat, day : Nat], QuotaCounted'
    PROVE  WorkerInv'
<1>1. WorkerTypeOK'
  BY DEF WorkerInv, WorkerTypeOK, Sound
<1>2. RowsBorn(store, born)'
  BY DEF WorkerInv, Moved, RowsBorn
<1>3. IndexBorn(store, born)'
  BY DEF WorkerInv, Moved, IndexBorn
<1>4. CallsBacked' /\ AlarmArmed'
  BY DEF WorkerInv, Moved, CallsBacked, AlarmArmed
<1> QED
  BY <1>1, <1>2, <1>3, <1>4 DEF WorkerInv

LEMMA SweepKeeps ==
    ASSUME WorkerInv, Sweep
    PROVE  WorkerInv'
<1> DEFINE left == DropRows(store, store.idle)
           a == Stored(left) # {}
<1>1. store' = [left EXCEPT !.alarm = a] /\ UNCHANGED <<born, call, granted, bound>>
  BY DEF Sweep
<1>2. Sound(store) /\ store.idle \in SUBSET Ids
  BY DEF WorkerInv, WorkerTypeOK, Sound, Store
<1>3. /\ Sound(left) /\ Fewer(store, left)
      /\ left.hour = store.hour /\ left.day = store.day
  BY <1>2, DropSound
<1> HIDE DEF left
<1>4. left \in Store /\ a \in BOOLEAN
  BY <1>3 DEF Sound
<1>5. /\ store' \in Store /\ store'.rows = left.rows /\ store'.older = left.older
      /\ store'.idle = left.idle /\ store'.index = left.index /\ store'.alarm = a
      /\ store'.hour = left.hour /\ store'.day = left.day
  <2> HIDE DEF a
  <2> QED
    BY <1>1, <1>4 DEF Store
<1>6. Sound(store')
  BY <1>3, <1>5, SameRecords
<1>7. Moved(store, store', born)
  <2>1. Stored(store') = Stored(left)
    BY <1>5 DEF Stored
  <2> QED
    BY <1>3, <1>5, <2>1 DEF Fewer, Moved
<1>8. granted' \in [hour : Nat, day : Nat] /\ QuotaCounted'
  BY <1>1, <1>3, <1>5, SameQuota
<1>9. bound' \in Nat
  BY <1>1 DEF WorkerInv, WorkerTypeOK
<1> QED
  BY <1>1, <1>6, <1>7, <1>8, <1>9, PlatformStep

LEMMA AgeKeeps ==
    ASSUME WorkerInv, Age
    PROVE  WorkerInv'
<1>1. PICK i \in Stored(store) \ store.idle :
        /\ Before(store, i) \subseteq store.idle
        /\ store' = [store EXCEPT !.idle = store.idle \cup {i}]
  BY DEF Age
<1>2. bound > 0 /\ bound' = bound - 1 /\ UNCHANGED <<born, call, granted>>
  BY DEF Age
<1>3. Sound(store) /\ store \in Store /\ i \in Ids
  BY <1>1 DEF WorkerInv, WorkerTypeOK, Sound, Stored
<1>4. /\ store' \in Store /\ store'.rows = store.rows /\ store'.older = store.older
      /\ store'.idle = store.idle \cup {i} /\ store'.index = store.index
      /\ store'.alarm = store.alarm /\ store'.hour = store.hour /\ store'.day = store.day
  BY <1>1, <1>3 DEF Store
<1>5. Stored(store') = Stored(store) /\ \A j : Before(store', j) = Before(store, j)
  BY <1>4 DEF Stored, Before
<1>6. AccessSound(store')
  BY <1>1, <1>3, <1>4, <1>5 DEF Sound, AccessSound
<1>7. Moved(store, store', born)
  BY <1>4, FewerMoves DEF Fewer
<1>8. granted' \in [hour : Nat, day : Nat] /\ QuotaCounted'
  BY <1>2, <1>4, SameQuota
<1>9. bound' \in Nat
  BY <1>2 DEF WorkerInv, WorkerTypeOK
<1> QED
  BY <1>2, <1>4, <1>6, <1>7, <1>8, <1>9, PlatformStep DEF Sound

LEMMA FullnessKeeps ==
    ASSUME WorkerInv, FillUp \/ Relieve
    PROVE  WorkerInv'
<1>1. PICK f \in BOOLEAN : store' = [store EXCEPT !.full = f]
  BY DEF FillUp, Relieve
<1>2. UNCHANGED <<born, call, granted>>
  BY DEF FillUp, Relieve
<1>3. Sound(store) /\ store \in Store
  BY DEF WorkerInv, WorkerTypeOK, Sound
<1>4. /\ store' \in Store /\ store'.rows = store.rows /\ store'.older = store.older
      /\ store'.idle = store.idle /\ store'.index = store.index
      /\ store'.alarm = store.alarm /\ store'.hour = store.hour /\ store'.day = store.day
  BY <1>1, <1>3 DEF Store
<1>5. Sound(store')
  BY <1>3, <1>4, SameRecords
<1>6. Moved(store, store', born)
  BY <1>4, FewerMoves DEF Fewer
<1>7. granted' \in [hour : Nat, day : Nat] /\ QuotaCounted'
  BY <1>2, <1>4, SameQuota
<1>8. bound' \in Nat
  BY DEF FillUp, Relieve, WorkerInv, WorkerTypeOK
<1> QED
  BY <1>2, <1>5, <1>6, <1>7, <1>8, PlatformStep

LEMMA NewSlotKeeps ==
    ASSUME WorkerInv, NEW day \in BOOLEAN, NewSlot(day)
    PROVE  WorkerInv'
<1> DEFINE x == IF day THEN 0 ELSE store.day
           y == IF day THEN 0 ELSE granted.day
<1>1. /\ store' = [store EXCEPT !.hour = 0, !.day = x]
      /\ granted' = [granted EXCEPT !.hour = 0, !.day = y]
      /\ bound > 0 /\ bound' = bound - 1 /\ UNCHANGED <<born, call>>
  BY DEF NewSlot
<1>2. Sound(store) /\ store \in Store /\ granted \in [hour : Nat, day : Nat]
  BY DEF WorkerInv, WorkerTypeOK, Sound
<1>3. x \in 0 .. PerDay + 1 /\ y \in Nat /\ y <= x /\ y <= PerDay
  BY <1>2, ShareWorkerAssumption DEF Store, WorkerInv, QuotaCounted, QuotaKept
<1>4. 0 \in 0 .. PerHour + 1 /\ 0 <= PerHour
  BY ShareWorkerAssumption
<1> HIDE DEF x, y
<1>5. /\ store' \in Store /\ store'.rows = store.rows /\ store'.older = store.older
      /\ store'.idle = store.idle /\ store'.index = store.index
      /\ store'.alarm = store.alarm /\ store'.hour = 0 /\ store'.day = x
  BY <1>1, <1>2, <1>3, <1>4 DEF Store
<1>6. /\ granted' \in [hour : Nat, day : Nat] /\ granted'.hour = 0 /\ granted'.day = y
  BY <1>1, <1>2, <1>3
<1>7. QuotaCounted'
  BY <1>3, <1>4, <1>5, <1>6 DEF QuotaCounted, QuotaKept
<1>8. Sound(store')
  BY <1>2, <1>5, SameRecords
<1>9. Moved(store, store', born)
  BY <1>5, FewerMoves DEF Fewer
<1>10. bound' \in Nat
  BY <1>1 DEF WorkerInv, WorkerTypeOK
<1> QED
  BY <1>1, <1>6, <1>7, <1>8, <1>9, <1>10, PlatformStep

LEMMA WorkerInvInit ==
    ASSUME WorkerInit
    PROVE  WorkerInv
<1>1. store \in Store /\ Stored(store) = {}
  BY ShareWorkerAssumption DEF WorkerInit, Store, Stored
<1>2. AccessSound(store)
  BY <1>1 DEF WorkerInit, AccessSound
<1>3. /\ born \in Seq(Row) /\ Len(born) <= MaxIds
      /\ call \in [Slots -> Call \cup {Idle}]
      /\ granted \in [hour : Nat, day : Nat] /\ bound \in Nat
  BY ShareWorkerAssumption DEF WorkerInit
<1>4. RowsBorn(store, born) /\ IndexBorn(store, born) /\ CallsBacked
  BY DEF WorkerInit, RowsBorn, IndexBorn, CallsBacked
<1>5. AlarmArmed
  BY <1>1 DEF AlarmArmed
<1>6. QuotaCounted
  BY ShareWorkerAssumption DEF WorkerInit, QuotaCounted, QuotaKept
<1> QED
  BY <1>1, <1>2, <1>3, <1>4, <1>5, <1>6 DEF WorkerInv, WorkerTypeOK

LEMMA WorkerInvNext ==
    ASSUME WorkerInv, [WorkerNext]_workerVars
    PROVE  WorkerInv'
<1>1. ASSUME NEW c \in Slots, NEW op \in Ops, NEW row \in Row, NEW force \in BOOLEAN,
             NEW id \in Ids, Submit(c, op, row, force, id)
      PROVE  WorkerInv'
  BY <1>1, SubmitKeeps
<1>2. ASSUME NEW c \in Slots, Serve(c)
      PROVE  WorkerInv'
  BY <1>2, CheckQuotaKeeps, RejectBodyKeeps, LookUpKeeps, LoadFoundKeeps,
     PurgeForForceKeeps, PutRowKeeps, ReadKeeps, DeleteRowKeeps DEF Serve
<1>3. ASSUME NEW c \in Slots, Cut(c)
      PROVE  WorkerInv'
  BY <1>3, CutKeeps
<1>4. CASE Platform
  BY <1>4, SweepKeeps, AgeKeeps, FullnessKeeps, NewSlotKeeps DEF Platform
<1>5. CASE UNCHANGED workerVars
  BY <1>5 DEF workerVars, WorkerInv, WorkerTypeOK, RowsBorn, IndexBorn, CallsBacked,
     AlarmArmed, QuotaCounted, QuotaKept
<1> QED
  BY <1>1, <1>2, <1>3, <1>4, <1>5 DEF WorkerNext

LEMMA WorkerInvariant == WorkerSpec => []WorkerInv
<1>1. WorkerInit => WorkerInv
  BY WorkerInvInit
<1>2. WorkerInv /\ [WorkerNext]_workerVars => WorkerInv'
  BY WorkerInvNext
<1> QED
  BY <1>1, <1>2, PTL DEF WorkerSpec

(* The state keeps its shape, and the access times order exactly the stored *)
(* rows whatever evictions, sweeps, purges and touches interleave.          *)
THEOREM WorkerTyped == WorkerSpec => []WorkerTypeOK
<1>1. WorkerInv => WorkerTypeOK
  BY DEF WorkerInv
<1> QED
  BY <1>1, WorkerInvariant, PTL

(* The index never leads to a row of another content.                       *)
THEOREM IndexIsSound == WorkerSpec => []IndexSound
<1>1. WorkerInv => IndexSound
  <2> SUFFICES ASSUME WorkerInv, NEW r \in Row, store.index[r] \in Stored(store)
               PROVE  store.rows[store.index[r]] = r
    BY DEF IndexSound
  <2>1. store.index[r] \in Ids /\ store.index[r] # None /\ store.rows[store.index[r]] # None
    BY ShareWorkerAssumption DEF Stored, Ids
  <2> QED
    BY <2>1 DEF WorkerInv, IndexBorn, RowsBorn
<1> QED
  BY <1>1, WorkerInvariant, PTL

(* As long as anything is stored, something will look whether it is idle.   *)
THEOREM AlarmStaysArmed == WorkerSpec => []AlarmArmed
<1>1. WorkerInv => AlarmArmed
  BY DEF WorkerInv
<1> QED
  BY <1>1, WorkerInvariant, PTL

(* No hour and no day lets more uploads through than the quota.             *)
THEOREM QuotaIsKept == WorkerSpec => []QuotaKept
<1>1. WorkerInv => QuotaKept
  BY DEF WorkerInv, QuotaCounted
<1> QED
  BY <1>1, WorkerInvariant, PTL

-----------------------------------------------------------------------------
(* The refinement. To a client, an open request is what it asked for, and   *)
(* an answered one its answer.                                              *)

Seen(q) ==
  IF q = Idle THEN Idle
  ELSE [at |-> IF q.at = "done" THEN "done" ELSE "open", op |-> q.op,
        row |-> q.row, id |-> q.id, ans |-> q.ans]

Requests == [c \in Slots |-> Seen(call[c])]

LEMMA SeenOf ==
    ASSUME NEW q \in Call
    PROVE  /\ q # Idle
           /\ Seen(q) = [at |-> IF q.at = "done" THEN "done" ELSE "open", op |-> q.op,
                         row |-> q.row, id |-> q.id, ans |-> q.ans]
<1>1. q # Idle
  BY DEF Call, Steps, Idle
<1> QED
  BY <1>1 DEF Seen

LEMMA SeenStep ==
    ASSUME WorkerInv, NEW c \in Slots, NEW q, call' = [call EXCEPT ![c] = q]
    PROVE  Requests' = [Requests EXCEPT ![c] = Seen(q)]
BY DEF Requests, WorkerInv, WorkerTypeOK

LEMMA RowsTyped ==
    ASSUME WorkerInv
    PROVE  store.rows \in [Ids -> Row \cup {None}]
BY DEF WorkerInv, WorkerTypeOK, Store

RowsFewer == \A i \in Ids : store'.rows[i] \in {None, store.rows[i]}

LEMMA Losing ==
    ASSUME WorkerInv, WorkerInv', RowsFewer
    PROVE  \E gone \in SUBSET Service!Stored : store'.rows = Service!Lose(gone)
<1> DEFINE gone == {i \in Service!Stored : store'.rows[i] = None}
<1>1. /\ store.rows \in [Ids -> Row \cup {None}] /\ store'.rows \in [Ids -> Row \cup {None}]
  BY RowsTyped DEF WorkerInv, WorkerTypeOK, Store
<1>2. store'.rows = Service!Lose(gone)
  BY <1>1 DEF Service!Lose, Service!Stored, Service!Ids, Ids, RowsFewer
<1> QED
  BY <1>2

LEMMA LosingEffect ==
    ASSUME WorkerInv, WorkerInv', RowsFewer, NEW q
    PROVE  Service!Effect(q)
BY Losing DEF Service!Effect

LEMMA StoringEffect ==
    ASSUME WorkerInv, WorkerInv', NEW q, q.op = "upload", q.id \in Ids,
           store'.rows[q.id] = q.row,
           \A i \in Ids \ {q.id} : store'.rows[i] \in {None, store.rows[i]}
    PROVE  Service!Effect(q)
<1> DEFINE gone == {i \in Service!Stored : store'.rows[i] = None}
<1>1. /\ store.rows \in [Ids -> Row \cup {None}] /\ store'.rows \in [Ids -> Row \cup {None}]
  BY RowsTyped DEF WorkerInv, WorkerTypeOK, Store
<1>2. store'.rows = [Service!Lose(gone) EXCEPT ![q.id] = q.row]
  BY <1>1 DEF Service!Lose, Service!Stored, Service!Ids, Ids
<1> QED
  BY <1>2 DEF Service!Effect

(* A step of the platform is at most a loss of rows.                        *)
LEMMA PlatformRefines ==
    ASSUME WorkerInv, WorkerInv', RowsFewer, UNCHANGED <<born, call>>
    PROVE  Service!Vanish
<1>1. Requests' = Requests
  BY DEF Requests
<1> QED
  BY <1>1, Losing DEF Service!Vanish, Requests, Seen

(* Work and Reply in terms of Requests.                                     *)
LEMMA WorkSeen ==
    ASSUME NEW c \in Slots, Requests[c].at = "open", UNCHANGED born, Requests' = Requests,
           Service!Effect(Requests[c])
    PROVE  Service!Work(c)
BY DEF Service!Work, Requests, Seen

LEMMA ReplySeen ==
    ASSUME NEW c \in Slots, NEW a, NEW link, Requests[c].at = "open", UNCHANGED born,
           Requests' = [Requests EXCEPT ![c].at = "done", ![c].ans = a, ![c].id = link],
           Service!Effect(Requests[c]), Service!Fits(Requests[c], a, link)
    PROVE  Service!Reply(c, a, link)
BY DEF Service!Reply, Requests, Seen

(* The route goes on without having answered.                               *)
LEMMA ContinueRefines ==
    ASSUME WorkerInv, NEW c \in Slots, call[c] \in Call, call[c].at # "done",
           NEW q \in Call, call' = [call EXCEPT ![c] = q], q.at # "done",
           q.op = call[c].op, q.row = call[c].row, q.id = call[c].id, q.ans = call[c].ans,
           UNCHANGED born, Service!Effect(Requests[c])
    PROVE  Service!Work(c)
<1>1. Seen(q) = Seen(call[c]) /\ Seen(call[c]).at = "open" /\ Requests[c] = Seen(call[c])
  BY SeenOf DEF Requests
<1>2. Requests' = Requests
  BY <1>1, SeenStep DEF Requests
<1> QED
  BY <1>1, <1>2, WorkSeen

(* The route answers.                                                       *)
LEMMA AnswerRefines ==
    ASSUME WorkerInv, NEW c \in Slots, call[c].at \notin {"idle", "done"},
           NEW a \in Answers, NEW link, link = LinkOf(call[c]), Answer(c, a),
           UNCHANGED born, Service!Effect(Requests[c]), Service!Fits(Requests[c], a, link)
    PROVE  Service!Reply(c, a, link)
<1> DEFINE q == call[c]
           w == Replied(q, a)
<1>1. q \in Call /\ Backed(q, born)
  BY UnderWay
<1>2. /\ Requests[c] = Seen(q)
      /\ Seen(q) = [at |-> "open", op |-> q.op, row |-> q.row, id |-> q.id, ans |-> q.ans]
  BY <1>1, SeenOf DEF Requests
<1>3. w \in Call
  BY <1>1, Replying
<1>4. /\ w.at = "done" /\ w.op = q.op /\ w.row = q.row /\ w.id = link /\ w.ans = a
  BY <1>1 DEF Replied, Call
<1>5. Seen(w) = [at |-> "done", op |-> q.op, row |-> q.row, id |-> link, ans |-> a]
  <2> HIDE DEF w, q
  <2> QED
    BY <1>3, <1>4, SeenOf
<1>6. call' = [call EXCEPT ![c] = w]
  BY DEF Answer
<1>7. Requests' = [Requests EXCEPT ![c] = Seen(w)]
  BY <1>6, SeenStep
<1>8. Seen(w) = [Requests[c] EXCEPT !.at = "done", !.ans = a, !.id = link]
  <2> DEFINE S == [at : {"open", "done"}, op : Ops, row : Row, id : Ids,
                   ans : Answers \cup {None}]
             e == [Requests[c] EXCEPT !.at = "done", !.ans = a, !.id = link]
  <2>1. Requests[c] \in S /\ link \in Ids
    BY <1>1, <1>2 DEF Call, LinkOf
  <2>2. /\ e \in S /\ e.at = "done" /\ e.op = Requests[c].op /\ e.row = Requests[c].row
        /\ e.id = link /\ e.ans = a
    BY <2>1
  <2>3. Requests[c].op = q.op /\ Requests[c].row = q.row
    BY <1>2
  <2>4. \A r \in S : r = [at |-> r.at, op |-> r.op, row |-> r.row, id |-> r.id, ans |-> r.ans]
    OBVIOUS
  <2> HIDE DEF w, q, e
  <2>5. e = Seen(w)
    BY <1>5, <2>2, <2>3, <2>4
  <2> QED
    BY <2>5 DEF e
<1>9. Requests' = [Requests EXCEPT ![c].at = "done", ![c].ans = a, ![c].id = link]
  <2> HIDE DEF w, q
  <2> QED
    BY <1>7, <1>8 DEF Requests
<1>10. Requests[c].at = "open"
  BY <1>2
<1> QED
  BY <1>9, <1>10, ReplySeen

(* An answer that says nothing of the rows fits any of them.                *)
LEMMA SubmitRefines ==
    ASSUME WorkerInv, NEW c \in Slots, NEW op \in Ops, NEW row \in Row,
           NEW force \in BOOLEAN, NEW id \in Ids, Submit(c, op, row, force, id)
    PROVE  Service!Submit(c, op, row, id)
<1> DEFINE q == Request(op, row, force, id)
<1>1. call[c] = Idle /\ call' = [call EXCEPT ![c] = q] /\ UNCHANGED store
  BY DEF Submit
<1>2. Requests' = [Requests EXCEPT ![c] = Seen(q)]
  BY <1>1, SeenStep
<1>3. Seen(q) = Service!Open(op, row, id)
  <2>1. /\ q \in Call /\ q.at = "new" /\ q.op = op /\ q.row = row /\ q.id = id
        /\ q.ans = None
    BY DEF Request, Call, Steps
  <2> HIDE DEF q
  <2> QED
    BY <2>1, SeenOf DEF Service!Open
<1>4. Requests[c] = Idle
  BY <1>1 DEF Requests, Seen
<1>5. Service!Draw(op, row, id)
  BY DEF Submit, Service!Draw, Service!Ids, Ids
<1> HIDE DEF q
<1>6. Requests' = [Requests EXCEPT ![c] = Service!Open(op, row, id)]
  BY <1>2, <1>3
<1> QED
  BY <1>1, <1>4, <1>5, <1>6 DEF Service!Submit, Requests, Seen, Service!Idle, Idle

LEMMA CutRefines ==
    ASSUME WorkerInv, NEW c \in Slots, Cut(c)
    PROVE  Service!Cut(c)
<1>1. /\ call[c] # Idle /\ call' = [call EXCEPT ![c] = Idle] /\ UNCHANGED <<store, born>>
  BY DEF Cut
<1>2. Requests' = [Requests EXCEPT ![c] = Idle]
  BY <1>1, SeenStep DEF Seen
<1>3. Requests[c] # Idle
  <2>1. call[c] \in Call
    BY <1>1 DEF WorkerInv, WorkerTypeOK
  <2> QED
    BY <2>1, SeenOf DEF Requests, Idle
<1> QED
  BY <1>1, <1>2, <1>3 DEF Service!Cut, Requests, Seen, Service!Idle, Idle

Progress(c) ==
  \/ Service!Work(c)
  \/ \E a \in Answers, link \in Ids : Service!Reply(c, a, link)

LEMMA Underway ==
    ASSUME WorkerInv, NEW c \in Slots, call[c].at \notin {"idle", "done"}
    PROVE  /\ call[c] \in Call /\ Backed(call[c], born)
           /\ Requests[c].op = call[c].op /\ Requests[c].row = call[c].row
           /\ Requests[c].id = call[c].id
           /\ LinkOf(call[c]) \in Ids
           /\ call[c].op # "upload" => LinkOf(call[c]) = call[c].id
<1>1. call[c] \in Call /\ Backed(call[c], born)
  BY UnderWay
<1>2. Requests[c] = Seen(call[c])
  BY DEF Requests
<1>3. /\ Requests[c].op = call[c].op /\ Requests[c].row = call[c].row
      /\ Requests[c].id = call[c].id
  BY <1>1, <1>2, SeenOf
<1>4. LinkOf(call[c]) \in Ids /\ (call[c].op # "upload" => LinkOf(call[c]) = call[c].id)
  BY <1>1 DEF LinkOf, Call, Backed
<1> QED
  BY <1>1, <1>3, <1>4

(* A refusal says nothing of the rows.                                      *)
LEMMA RefusalRefines ==
    ASSUME WorkerInv, WorkerInv', RowsFewer, NEW c \in Slots,
           call[c].at \notin {"idle", "done"}, NEW a \in Answers, Answer(c, a),
           \/ a = "error"
           \/ call[c].op = "upload" /\ a \in {"full", "limited", "bad"}
           \/ call[c].op = "get" /\ a = "gone",
           UNCHANGED born
    PROVE  Progress(c)
<1>1. PICK link \in Ids : link = LinkOf(call[c])
  BY Underway
<1>2. Service!Fits(Requests[c], a, link)
  BY Underway, <1>1 DEF Service!Fits
<1>3. Service!Effect(Requests[c])
  BY LosingEffect
<1> QED
  BY <1>1, <1>2, <1>3, AnswerRefines DEF Progress

LEMMA GoingRefines ==
    ASSUME WorkerInv, WorkerInv', NEW c \in Slots,
           RowsFewer \/ Service!Effect(Requests[c]),
           call[c].at \in {"new", "checked", "put"}, call[c].op = "upload",
           NEW at \in {"checked", "put", "finalize"}, Goto(c, at), UNCHANGED born
    PROVE  Progress(c)
<1> DEFINE q == [call[c] EXCEPT !.at = at]
<1>1. call[c] \in Call /\ Backed(call[c], born) /\ call \in [Slots -> Call \cup {Idle}]
  BY UnderWay
<1>2. /\ q \in Call /\ q.at = at /\ q.op = call[c].op /\ q.row = call[c].row
      /\ q.id = call[c].id /\ q.ans = call[c].ans
  BY <1>1 DEF Call, Steps
<1>3. call' = [call EXCEPT ![c] = q]
  BY <1>1 DEF Goto
<1>4. Service!Effect(Requests[c])
  BY LosingEffect
<1> HIDE DEF q
<1> QED
  BY <1>1, <1>2, <1>3, <1>4, ContinueRefines DEF Progress

LEMMA FewerRows ==
    ASSUME Fewer(store, store')
    PROVE  RowsFewer
BY DEF Fewer, RowsFewer

LEMMA CheckQuotaRefines ==
    ASSUME WorkerInv, WorkerInv', NEW c \in Slots, CheckQuota(c)
    PROVE  Progress(c)
<1>1. PICK out \in CountOutcomes(store) :
        /\ store' = out.st
        /\ CASE out.res = "ok" -> Goto(c, "checked")
             [] out.res = "error" -> Answer(c, "error")
             [] OTHER -> Answer(c, "limited")
  BY DEF CheckQuota
<1>2. call[c].at = "new" /\ call[c].op = "upload" /\ UNCHANGED born
  BY DEF CheckQuota
<1>3. RowsFewer
  <2>1. Sound(store)
    BY <1>2, UnderWay
  <2> QED
    BY <1>1, <2>1, CountSound, FewerRows
<1>4. CASE out.res = "ok"
  <2>1. Goto(c, "checked")
    BY <1>1, <1>4
  <2> QED
    BY <1>2, <1>3, <2>1, GoingRefines
<1>5. CASE out.res # "ok"
  <2>1. Answer(c, "error") \/ Answer(c, "limited")
    BY <1>1, <1>5
  <2>2. "error" \in Answers /\ "limited" \in Answers
    BY DEF Answers
  <2> QED
    BY <1>2, <1>3, <2>1, <2>2, RefusalRefines
<1> QED
  BY <1>4, <1>5

LEMMA RejectBodyRefines ==
    ASSUME WorkerInv, WorkerInv', NEW c \in Slots, RejectBody(c)
    PROVE  Progress(c)
<1>1. call[c].at = "checked" /\ Answer(c, "bad") /\ UNCHANGED <<store, born>>
  BY DEF RejectBody
<1>2. call[c].op = "upload"
  BY <1>1, UnderWay DEF Backed
<1>3. RowsFewer
  BY <1>1 DEF RowsFewer
<1>4. "bad" \in Answers
  BY DEF Answers
<1> QED
  BY <1>1, <1>2, <1>3, <1>4, RefusalRefines

LEMMA LookUpRefines ==
    ASSUME WorkerInv, WorkerInv', NEW c \in Slots, LookUp(c)
    PROVE  Progress(c)
<1> DEFINE r == call[c].row
           i == store.index[r]
           q == [call[c] EXCEPT !.at = "load", !.found = i]
<1>1. call[c].at = "checked" /\ UNCHANGED born
  BY DEF LookUp
<1>2. /\ call[c] \in Call /\ call[c].op = "upload" /\ store \in Store
      /\ call \in [Slots -> Call \cup {Idle}]
  BY <1>1, UnderWay DEF Backed, Sound
<1>3. CASE i \in Stored(store)
  <2>1. call' = [call EXCEPT ![c] = q] /\ store' = store
    BY <1>2, <1>3 DEF LookUp
  <2>2. i \in Ids
    BY <1>3 DEF Stored
  <2>3. /\ q \in Call /\ q.at = "load" /\ q.op = call[c].op /\ q.row = call[c].row
        /\ q.id = call[c].id /\ q.ans = call[c].ans
    BY <1>2, <2>2 DEF Call, Steps
  <2>4. Service!Effect(Requests[c])
    BY <2>1, LosingEffect DEF RowsFewer
  <2> HIDE DEF q
  <2> QED
    BY <1>1, <1>2, <2>1, <2>3, <2>4, ContinueRefines DEF Progress
<1>4. CASE i \notin Stored(store)
  <2>1. Goto(c, "put") /\ store' = [store EXCEPT !.index[r] = None]
    BY <1>4 DEF LookUp
  <2>2. RowsFewer
    BY <1>2, <2>1 DEF RowsFewer, Store
  <2> QED
    BY <1>1, <1>2, <2>1, <2>2, GoingRefines
<1> QED
  BY <1>3, <1>4

(* A row that is touched while it is stored keeps its content.              *)
LEMMA TouchedStored ==
    ASSUME WorkerInv, NEW i \in Stored(store),
           NEW out \in TouchOutcomes(store, i, store.rows[i]), store' = out.st
    PROVE  /\ RowsFewer /\ i \in Ids /\ born[i] = store.rows[i]
           /\ out.res \in {"ok", "pressure", "error"}
           /\ out.res = "ok" => store'.rows[i] = store.rows[i]
<1>1. /\ Sound(store) /\ i \in Ids /\ store.rows[i] \in Row /\ born[i] = store.rows[i]
  BY DEF WorkerInv, WorkerTypeOK, Sound, Store, Stored, RowsBorn
<1>2. /\ Touched(store, store', i, store.rows[i], out.res)
      /\ out.res \in {"ok", "pressure", "error"}
  BY <1>1, TouchSound
<1> QED
  BY <1>1, <1>2 DEF Touched, RowsFewer

LEMMA LoadFoundRefines ==
    ASSUME WorkerInv, WorkerInv', NEW c \in Slots, LoadFound(c)
    PROVE  Progress(c)
<1> DEFINE i == call[c].found
           q == [call[c] EXCEPT !.at = "put", !.found = None]
           anew == call' = [call EXCEPT ![c].at = "put", ![c].found = None]
<1>1. call[c].at = "load" /\ UNCHANGED born
  BY DEF LoadFound
<1>2. /\ call[c] \in Call /\ Backed(call[c], born) /\ call[c].op = "upload"
      /\ call \in [Slots -> Call \cup {Idle}] /\ i # None /\ LinkOf(call[c]) = i
      /\ born[i] = call[c].row
  BY <1>1, UnderWay DEF Backed, LinkOf
<1>3. ASSUME anew, RowsFewer PROVE Progress(c)
  <2>1. call' = [call EXCEPT ![c] = q]
    BY <1>2, <1>3
  <2>2. /\ q \in Call /\ q.at = "put" /\ q.op = call[c].op /\ q.row = call[c].row
        /\ q.id = call[c].id /\ q.ans = call[c].ans
    BY <1>2 DEF Call, Steps
  <2>3. Service!Effect(Requests[c])
    BY <1>3, LosingEffect
  <2> HIDE DEF q
  <2> QED
    BY <1>1, <1>2, <2>1, <2>2, <2>3, ContinueRefines DEF Progress
<1>4. CASE i \notin Stored(store)
  <2>1. anew /\ RowsFewer
    BY <1>4 DEF LoadFound, RowsFewer
  <2> QED
    BY <1>3, <2>1
<1>5. CASE i \in Stored(store)
  <2>1. PICK out \in TouchOutcomes(store, i, store.rows[i]) :
          /\ store' = out.st
          /\ CASE out.res = "ok" -> Answer(c, "ok")
               [] out.res = "error" -> Answer(c, "error")
               [] OTHER -> anew
    BY <1>5 DEF LoadFound
  <2>2. /\ RowsFewer /\ i \in Ids /\ born[i] = store.rows[i]
        /\ out.res = "ok" => store'.rows[i] = store.rows[i]
    <3>1. PICK j \in Stored(store) : j = i
      BY <1>5
    <3> QED
      BY <2>1, <3>1, TouchedStored
  <2>3. CASE out.res = "ok"
    <3>1. PICK link \in Ids : link = i
      BY <2>2
    <3>2. Service!Fits(Requests[c], "ok", link)
      BY <1>1, <1>2, <2>2, <2>3, <3>1, Underway DEF Service!Fits
    <3>3. Answer(c, "ok") /\ "ok" \in Answers
      BY <2>1, <2>3 DEF Answers
    <3>4. Service!Effect(Requests[c])
      BY <2>2, LosingEffect
    <3> QED
      BY <1>1, <1>2, <3>1, <3>2, <3>3, <3>4, AnswerRefines DEF Progress
  <2>4. CASE out.res = "error"
    <3>1. Answer(c, "error") /\ "error" \in Answers
      BY <2>1, <2>4 DEF Answers
    <3> QED
      BY <1>1, <2>2, <3>1, RefusalRefines
  <2>5. CASE out.res \notin {"ok", "error"}
    BY <1>3, <2>1, <2>2, <2>5
  <2> QED
    BY <2>3, <2>4, <2>5
<1> QED
  BY <1>4, <1>5

LEMMA PurgeForForceRefines ==
    ASSUME WorkerInv, WorkerInv', NEW c \in Slots, PurgeForForce(c)
    PROVE  Progress(c)
<1>1. /\ call[c].at = "checked" /\ store' = PurgeContent(store, call[c].row)
      /\ Goto(c, "put") /\ UNCHANGED born
  BY DEF PurgeForForce
<1>2. call[c].row \in Row /\ call[c].op = "upload" /\ Sound(store)
  BY <1>1, UnderWay DEF Backed, Call
<1> QED
  BY <1>1, <1>2, PurgeSound, FewerRows, GoingRefines

LEMMA PutRowRefines ==
    ASSUME WorkerInv, WorkerInv', NEW c \in Slots, PutRow(c)
    PROVE  Progress(c)
<1>1. PICK out \in TouchOutcomes(store, call[c].id, call[c].row) :
        /\ store' = out.st
        /\ CASE out.res = "ok" /\ PutNext(c) = "finalize" -> Goto(c, "finalize")
             [] out.res = "ok" /\ PutNext(c) = "done" -> Answer(c, "ok")
             [] out.res = "error" -> Answer(c, "error")
             [] OTHER -> Answer(c, "full")
  BY DEF PutRow
<1>2. call[c].at \in {"put", "finalize"} /\ UNCHANGED born
  BY DEF PutRow
<1>3. /\ call[c] \in Call /\ call[c].op = "upload" /\ Sound(store)
      /\ call[c].id \in Ids /\ call[c].row \in Row /\ LinkOf(call[c]) = call[c].id
      /\ Requests[c].op = call[c].op /\ Requests[c].id = call[c].id
      /\ Requests[c].row = call[c].row
  BY <1>2, UnderWay, Underway DEF Backed, Call, LinkOf
<1>4. /\ Touched(store, store', call[c].id, call[c].row, out.res)
      /\ out.res \in {"ok", "pressure", "error"}
  <2>1. PICK i \in Ids, r \in Row : i = call[c].id /\ r = call[c].row
    BY <1>3
  <2> QED
    BY <1>1, <1>3, <2>1, TouchSound
<1>5. CASE out.res = "ok"
  <2>1. Service!Effect(Requests[c])
    BY <1>3, <1>4, <1>5, StoringEffect DEF Touched
  <2>2. CASE PutNext(c) = "finalize"
    <3>1. Goto(c, "finalize") /\ call[c].at = "put"
      BY <1>1, <1>2, <1>5, <2>2 DEF PutNext
    <3> QED
      BY <1>2, <1>3, <2>1, <3>1, GoingRefines
  <2>3. CASE PutNext(c) # "finalize"
    <3>1. Answer(c, "ok") /\ "ok" \in Answers
      BY <1>1, <1>5, <2>3 DEF PutNext, Answers
    <3>2. PICK link \in Ids : link = call[c].id
      BY <1>3
    <3>3. Service!Fits(Requests[c], "ok", link)
      BY <1>3, <1>4, <1>5, <3>2 DEF Service!Fits, Touched
    <3> QED
      BY <1>2, <1>3, <2>1, <3>1, <3>2, <3>3, AnswerRefines DEF Progress
  <2> QED
    BY <2>2, <2>3
<1>6. CASE out.res # "ok"
  <2>1. RowsFewer
    BY <1>4, <1>6 DEF Touched, RowsFewer
  <2>2. Answer(c, "error") \/ Answer(c, "full")
    BY <1>1, <1>6
  <2>3. "error" \in Answers /\ "full" \in Answers
    BY DEF Answers
  <2> QED
    BY <1>2, <1>3, <2>1, <2>2, <2>3, RefusalRefines
<1> QED
  BY <1>5, <1>6

LEMMA ReadRefines ==
    ASSUME WorkerInv, WorkerInv', NEW c \in Slots, Read(c)
    PROVE  Progress(c)
<1> DEFINE i == call[c].id
<1>1. call[c].at = "new" /\ call[c].op = "get" /\ UNCHANGED born
  BY DEF Read
<1>2. /\ call[c] \in Call /\ Backed(call[c], born) /\ i \in Ids
      /\ LinkOf(call[c]) = i /\ Requests[c].op = "get" /\ Requests[c].id = i
      /\ Requests[c].row = call[c].row
  BY <1>1, UnderWay, Underway DEF Backed, Call
<1>3. {"ok", "gone", "error"} \subseteq Answers
  BY DEF Answers
<1>4. CASE i \notin Stored(store)
  <2>1. Answer(c, "gone") /\ RowsFewer
    BY <1>4 DEF Read, RowsFewer
  <2> QED
    BY <1>1, <1>3, <2>1, RefusalRefines
<1>5. CASE i \in Stored(store)
  <2>1. PICK out \in TouchOutcomes(store, i, store.rows[i]) :
          /\ store' = out.st
          /\ CASE out.res = "ok" -> Answer(c, "ok")
               [] out.res = "error" -> Answer(c, "error")
               [] OTHER -> Answer(c, "gone")
    BY <1>5 DEF Read
  <2>2. /\ RowsFewer /\ born[i] = store.rows[i]
        /\ out.res = "ok" => store'.rows[i] = store.rows[i]
    <3>1. PICK j \in Stored(store) : j = i
      BY <1>5
    <3> QED
      BY <2>1, <3>1, TouchedStored
  <2>3. CASE out.res = "ok"
    <3>1. PICK link \in Ids : link = i
      BY <1>2
    <3>2. store'.rows[link] = call[c].row
      BY <1>2, <2>2, <2>3, <3>1 DEF Backed
    <3>3. Service!Fits(Requests[c], "ok", link)
      BY <1>2, <3>1, <3>2 DEF Service!Fits
    <3>4. Answer(c, "ok")
      BY <2>1, <2>3
    <3>5. Service!Effect(Requests[c])
      BY <2>2, LosingEffect
    <3> QED
      BY <1>1, <1>2, <1>3, <3>1, <3>3, <3>4, <3>5, AnswerRefines DEF Progress
  <2>4. CASE out.res # "ok"
    <3>1. Answer(c, "error") \/ Answer(c, "gone")
      BY <2>1, <2>4
    <3> QED
      BY <1>1, <1>3, <2>2, <3>1, RefusalRefines
  <2> QED
    BY <2>3, <2>4
<1> QED
  BY <1>4, <1>5

LEMMA DeleteRowRefines ==
    ASSUME WorkerInv, WorkerInv', NEW c \in Slots, DeleteRow(c)
    PROVE  Progress(c)
<1> DEFINE i == call[c].id
           gone == {i} \cap Stored(store)
           a == IF i \in Stored(store) THEN "ok" ELSE "absent"
<1>1. /\ call[c].at = "new" /\ call[c].op = "delete" /\ UNCHANGED born
      /\ store' = DropRows(store, gone) /\ Answer(c, a)
  BY DEF DeleteRow
<1>2. /\ call[c] \in Call /\ i \in Ids /\ Sound(store)
      /\ LinkOf(call[c]) = i /\ Requests[c].op = "delete" /\ Requests[c].id = i
  BY <1>1, UnderWay, Underway DEF Call
<1>3. RowsFewer
  <2>1. gone \in SUBSET Ids
    BY DEF Stored
  <2> HIDE DEF gone
  <2> QED
    BY <1>1, <1>2, <2>1, DropSound, FewerRows
<1>4. PICK link \in Ids : link = i
  BY <1>2
<1>5. Service!Fits(Requests[c], a, link)
  <2>1. CASE i \in Stored(store)
    <3>1. store.rows[i] # None
      BY <2>1 DEF Stored
    <3>2. store'.rows[i] = None
      BY <1>1, <1>2, <2>1 DEF DropRows, Sound, Store
    <3> QED
      BY <1>2, <1>4, <2>1, <3>1, <3>2 DEF Service!Fits
  <2>2. CASE i \notin Stored(store)
    <3>1. store.rows[i] = None
      BY <1>2, <2>2 DEF Stored
    <3> QED
      BY <1>2, <1>4, <2>2, <3>1 DEF Service!Fits
  <2> QED
    BY <2>1, <2>2
<1>6. Service!Effect(Requests[c])
  BY <1>3, LosingEffect
<1>7. CASE i \in Stored(store)
  <2>1. Answer(c, "ok") /\ Service!Fits(Requests[c], "ok", link) /\ "ok" \in Answers
    BY <1>1, <1>5, <1>7 DEF Answers
  <2> QED
    BY <1>1, <1>2, <1>4, <1>6, <2>1, AnswerRefines DEF Progress
<1>8. CASE i \notin Stored(store)
  <2>1. Answer(c, "absent") /\ Service!Fits(Requests[c], "absent", link) /\ "absent" \in Answers
    BY <1>1, <1>5, <1>8 DEF Answers
  <2> QED
    BY <1>1, <1>2, <1>4, <1>6, <2>1, AnswerRefines DEF Progress
<1> QED
  BY <1>7, <1>8

LEMMA PlatformLoses ==
    ASSUME WorkerInv, Platform
    PROVE  RowsFewer /\ UNCHANGED <<born, call>>
<1>1. store \in Store
  BY DEF WorkerInv, WorkerTypeOK
<1>2. CASE Sweep
  <2>1. store' = [DropRows(store, store.idle) EXCEPT !.alarm = (Stored(DropRows(store, store.idle)) # {})]
    BY <1>2 DEF Sweep
  <2>2. store'.rows = DropRows(store, store.idle).rows
    BY <1>1, <2>1 DEF DropRows, Store
  <2>3. DropRows(store, store.idle).rows
        = [i \in Ids |-> IF i \in store.idle THEN None ELSE store.rows[i]]
    BY <1>1 DEF DropRows, Store
  <2> QED
    BY <1>2, <2>2, <2>3 DEF RowsFewer, Sweep
<1>3. CASE Age
  BY <1>1, <1>3 DEF Age, Store, RowsFewer
<1>4. CASE FillUp \/ Relieve
  BY <1>1, <1>4 DEF FillUp, Relieve, Store, RowsFewer
<1>5. CASE \E day \in BOOLEAN : NewSlot(day)
  BY <1>1, <1>5 DEF NewSlot, Store, RowsFewer
<1> QED
  BY <1>2, <1>3, <1>4, <1>5 DEF Platform

LEMMA WorkerStepRefines ==
    ASSUME WorkerInv, WorkerInv', [WorkerNext]_workerVars
    PROVE  [Service!ServiceNext]_(Service!serviceVars)
<1>1. ASSUME NEW c \in Slots, NEW op \in Ops, NEW row \in Row, NEW force \in BOOLEAN,
             NEW id \in Ids, Submit(c, op, row, force, id)
      PROVE  Service!ServiceNext
  <2>1. Service!Submit(c, op, row, id)
    BY <1>1, SubmitRefines
  <2>2. Requests[c] = Service!Idle
    BY <1>1 DEF Submit, Requests, Seen, Service!Idle, Idle
  <2> QED
    BY <2>1, <2>2 DEF Service!ServiceNext, Service!Ops, Ops, Service!Row, Row,
       Service!Kinds, Kinds, Service!Ids, Ids, Requests, Seen
<1>2. ASSUME NEW c \in Slots, Serve(c)
      PROVE  Service!ServiceNext
  <2>1. Progress(c)
    BY <1>2, CheckQuotaRefines, RejectBodyRefines, LookUpRefines, LoadFoundRefines,
       PurgeForForceRefines, PutRowRefines, ReadRefines, DeleteRowRefines DEF Serve
  <2>2. CASE Service!Work(c)
    BY <2>2 DEF Service!ServiceNext
  <2>3. CASE \E a \in Answers, link \in Ids : Service!Reply(c, a, link)
    <3>1. Requests[c] # Service!Idle
      <4>1. Requests[c].at = "open"
        BY <2>3 DEF Service!Reply, Requests, Seen
      <4> QED
        BY <4>1 DEF Service!Idle
    <3> QED
      BY <2>3, <3>1 DEF Service!ServiceNext, Service!Answers, Answers, Service!Ids, Ids,
         Requests, Seen
  <2> QED
    BY <2>1, <2>2, <2>3 DEF Progress
<1>3. ASSUME NEW c \in Slots, Cut(c)
      PROVE  Service!ServiceNext
  BY <1>3, CutRefines DEF Service!ServiceNext
<1>4. CASE Platform
  BY <1>4, PlatformLoses, PlatformRefines DEF Service!ServiceNext
<1>5. CASE UNCHANGED workerVars
  BY <1>5 DEF workerVars, Service!serviceVars
<1> QED
  BY <1>1, <1>2, <1>3, <1>4, <1>5 DEF WorkerNext

(* The routes and the object behind them implement the service the clients  *)
(* are written against: an answered upload has its row stored with the      *)
(* content that was sent, whatever came between its calls.                  *)
THEOREM WorkerImplementsService == WorkerSpec => ImplementsService
<1>1. WorkerInit => Service!ServiceInit
  BY DEF WorkerInit, Service!ServiceInit, Service!Ids, Ids, Service!Idle, Idle
<1>2. WorkerInv /\ WorkerInv' /\ [WorkerNext]_workerVars
         => [Service!ServiceNext]_(Service!serviceVars)
  BY WorkerStepRefines
<1> QED
  BY <1>1, <1>2, WorkerInvariant, PTL DEF WorkerSpec, ImplementsService, Service!ServiceSpec

=============================================================================
