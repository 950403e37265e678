---------------------------- MODULE ShareWorker ----------------------------
(***************************************************************************)
(* The hosted share worker (apps/workers/i18nprune): the HTTP routes that  *)
(* take, answer and delete shared projects and reports, and the Durable    *)
(* Object behind them (lib/do.ts) with its rows, its content-hash index,   *)
(* upload quota, idle retention and recovery from storage pressure.        *)
(*                                                                         *)
(* A route makes several calls to the object, each a step of its own here; *)
(* one call to the object is one step, because the object awaits nothing   *)
(* but its storage while it serves an event and the platform delivers no   *)
(* other event meanwhile (its input gate; external to the repository).     *)
(*                                                                         *)
(* Left out: bodies and metadata (a row is its kind and content hash), the *)
(* worker's read-only reports (they read a row as Get does), text of the   *)
(* errors, and all but one client address.                                 *)
(***************************************************************************)
EXTENDS Integers, FiniteSets, Sequences

CONSTANTS
  Hashes,      \* content hashes of what may be shared
  Slots,       \* requests the worker may serve at the same time
  MaxIds,      \* bound: row ids ever drawn
  PerHour,     \* UPLOAD_RATE_LIMIT_PER_HOUR
  PerDay,      \* UPLOAD_RATE_LIMIT_PER_DAY
  Threshold,   \* STORAGE_PRESSURE_FAILURE_THRESHOLD, also the ring's length
  MaxEvents,   \* bound: times the storage fills up, a row turns idle, an hour ends
  None

Kinds == {"project", "report"}
Ids == 1 .. MaxIds
Row == [kind : Kinds, hash : Hashes]

ASSUME ShareWorkerAssumption ==
  /\ MaxIds \in Nat /\ PerHour \in Nat /\ PerDay \in Nat
  /\ Threshold \in Nat \ {0} /\ MaxEvents \in Nat
  /\ None \notin Nat /\ None \notin Row

VARIABLES
  store,     \* what the Durable Object holds
  born,      \* per drawn id, the content it stands for (random ids: never drawn twice)
  call,      \* per slot, the request being served
  granted,   \* history: uploads let through in this hour and in this day
  bound      \* what is left of MaxEvents

workerVars == <<store, born, call, granted, bound>>

(***************************************************************************)
(* The storage: rows by id, the index from content to an id (the           *)
(* projecthash and reporthash keys), which row was accessed before which   *)
(* (lastAccessedMs), those idle for longer than the retention, the ring of *)
(* storage failures, the upload counters, the alarm.                       *)
(***************************************************************************)
Store ==
  [rows : [Ids -> Row \cup {None}], index : [Row -> Ids \cup {None}],
   older : SUBSET (Ids \X Ids), idle : SUBSET Ids, ring : 0 .. Threshold,
   hour : 0 .. PerHour + 1, day : 0 .. PerDay + 1, full : BOOLEAN, alarm : BOOLEAN]

Stored(s) == {i \in Ids : s.rows[i] # None}

Among(order, ids) == order \cap (ids \X ids)

\* Deleting rows deletes the index key of their content, whatever row it leads to.
DropRows(s, gone) ==
  [s EXCEPT !.rows = [i \in Ids |-> IF i \in gone THEN None ELSE s.rows[i]],
            !.index = [r \in Row |-> IF \E i \in gone : s.rows[i] = r
                                     THEN None ELSE s.index[r]],
            !.older = Among(s.older, Ids \ gone),
            !.idle = s.idle \ gone]

\* projecthash DELETE: the row the index leads to, and the key itself.
PurgeContent(s, r) ==
  LET led == {i \in Ids : s.index[r] = i}
  IN  [DropRows(s, led) EXCEPT !.index[r] = None]

\* The oldest quarter of the rows, at least one of them if there are any.
EvictionCount(n) == IF n = 0 THEN 0 ELSE IF n < 4 THEN 1 ELSE n \div 4
Before(s, i) == {j \in Stored(s) : <<j, i>> \in s.older}
Evict(s) ==
  DropRows(s, {i \in Stored(s) :
                 Cardinality(Before(s, i)) < EvictionCount(Cardinality(Stored(s)))})

(***************************************************************************)
(* What may become of a put: while the storage is full a row is refused    *)
(* and a short value may be. A refusal is recorded in the ring (itself a   *)
(* put, which may fail and then fails the request); when the ring holds    *)
(* nothing but the same refusal, rows are evicted, the ring is emptied and *)
(* the put is tried once more.                                             *)
(* Answers: "ok", "pressure" (StoragePressureError), "error".              *)
(***************************************************************************)
Attempt(s, res) == [st |-> s, res |-> res]

PutOutcomes(s, short) ==
  (IF ~s.full \/ short THEN {Attempt(s, "ok")} ELSE {}) \cup
  IF ~s.full THEN {}
  ELSE LET hit  == [s EXCEPT !.ring = IF s.ring < Threshold THEN s.ring + 1 ELSE Threshold]
           less == Evict(hit)
       IN  {Attempt(s, "error")} \cup
           IF hit.ring < Threshold THEN {Attempt(hit, "pressure")}
           ELSE {Attempt(less, "error"),
                 Attempt([less EXCEPT !.ring = 0], "pressure"),
                 Attempt([less EXCEPT !.ring = 0, !.full = FALSE], "ok")}

IndexBothKinds(s, i, r) ==                                                       \* mutant
  [s EXCEPT !.index = [x \in Row |-> IF x.hash = r.hash THEN i ELSE s.index[x]]]

WriteIndex(s, i, r) == [s EXCEPT !.index[r] = i]

WriteRowUnused(s, i, r) ==              \* mutant: the access time is moved, idleness not
  [s EXCEPT !.rows[i] = r,
            !.older = Among(s.older, Ids \ {i}) \cup ((Stored(s) \ {i}) \X {i})]

WriteRow(s, i, r) ==
  [s EXCEPT !.rows[i] = r,
            !.older = Among(s.older, Ids \ {i}) \cup ((Stored(s) \ {i}) \X {i}),
            !.idle = s.idle \ {i}]

\* touchProjectRow / touchReportRow: the index key, the row, the retention alarm.
TouchOutcomes(s, i, r) ==
  UNION { IF a.res # "ok" THEN {a}
          ELSE { IF b.res # "ok" THEN b
                 ELSE Attempt([WriteRow(b.st, i, r) EXCEPT !.alarm = TRUE], "ok")
                 : b \in PutOutcomes(WriteIndex(a.st, i, r), FALSE) }
          : a \in PutOutcomes(s, TRUE) }

\* POST /ratelimit/upload: both counters are raised, then compared with the quota.
Raise(n, limit) == IF n > limit THEN n ELSE n + 1
WithinHour(s) == s.hour <= PerHour                                               \* mutant
WithinQuota(s) == s.hour <= PerHour /\ s.day <= PerDay

CountOutcomes(s) ==
  UNION { IF a.res # "ok" THEN {a}
          ELSE LET h == [a.st EXCEPT !.hour = Raise(s.hour, PerHour)]
               IN  { IF b.res # "ok" THEN b
                     ELSE LET d == [b.st EXCEPT !.day = Raise(s.day, PerDay)]
                          IN  Attempt(d, IF WithinQuota(d) THEN "ok" ELSE "refused")
                     : b \in PutOutcomes(h, TRUE) }
          : a \in PutOutcomes(s, TRUE) }

-----------------------------------------------------------------------------
(***************************************************************************)
(* Requests. at: the next thing the route does, "done" once it answered.   *)
(***************************************************************************)
Ops == {"upload", "get", "delete"}
Answers == {"ok", "absent", "gone", "full", "limited", "bad", "error"}
Idle == [at |-> "idle"]

Request(op, row, force, id) ==
  [at |-> "new", op |-> op, row |-> row, force |-> force, id |-> id,
   found |-> None, ans |-> None]

Steps == {"new", "checked", "load", "put", "finalize", "done"}
Call == [at : Steps, op : Ops, row : Row, force : BOOLEAN, id : Ids,
         found : Ids \cup {None}, ans : Answers \cup {None}]

\* The id a successful upload answers with: the row it found, or its own.
LinkOf(q) == IF q.found # None THEN q.found ELSE q.id

\* An answered request keeps only its answer: id is then the link it is about.
Replied(q, a) ==
  [q EXCEPT !.at = "done", !.ans = a, !.id = LinkOf(q), !.found = None, !.force = FALSE]
Answer(c, a) == call' = [call EXCEPT ![c] = Replied(call[c], a)]
Goto(c, at) == call' = [call EXCEPT ![c].at = at]

\* An id is drawn at random for each upload (hex16Id); a client may send the one it
\* drew for an earlier try of the same snapshot.
Submit(c, op, row, force, id) ==
  /\ call[c] = Idle /\ (force => op = "upload")
  /\ \/ /\ op = "upload" /\ id = Len(born) + 1 /\ id \in Ids
        /\ born' = Append(born, row)
     \/ /\ id \in 1 .. Len(born) /\ born[id] = row
        /\ op = "upload" => row.kind = "project"
        /\ UNCHANGED born
  /\ call' = [call EXCEPT ![c] = Request(op, row, force, id)]
  /\ UNCHANGED <<store, granted, bound>>

\* uploadRateLimitResponse: anything but "allowed" in the answer refuses the upload.
CheckQuota(c) ==
  /\ call[c].at = "new" /\ call[c].op = "upload"
  /\ \E out \in CountOutcomes(store) :
       /\ store' = out.st
       /\ granted' = IF out.res = "ok"
                     THEN [hour |-> granted.hour + 1, day |-> granted.day + 1] ELSE granted
       /\ CASE out.res = "ok" -> Goto(c, "checked")
            [] out.res = "error" -> Answer(c, "error")
            [] OTHER -> Answer(c, "limited")
  /\ UNCHANGED <<born, bound>>

\* The body is too large, is not JSON, or does not validate.
RejectBody(c) ==
  /\ call[c].at = "checked"
  /\ Answer(c, "bad")
  /\ UNCHANGED <<store, born, granted, bound>>

\* GET /projecthash: a key that leads to no row is removed.
LookUp(c) ==
  /\ call[c].at = "checked" /\ ~call[c].force
  /\ LET r == call[c].row
         i == store.index[r]
     IN  IF i \in Stored(store)
         THEN /\ call' = [call EXCEPT ![c].at = "load", ![c].found = i]
              /\ UNCHANGED store
         ELSE /\ Goto(c, "put")
              /\ store' = [store EXCEPT !.index[r] = None]
  /\ UNCHANGED <<born, granted, bound>>

LoadFoundTrusting(c) ==                           \* mutant: the row is not looked at again
  /\ call[c].at = "load"
  /\ Answer(c, "ok")
  /\ UNCHANGED <<store, born, granted, bound>>

\* The row the key led to may be gone by now; a touch refused for want of storage
\* answers without a row, which the route takes for the same.
LoadFound(c) ==
  /\ call[c].at = "load"
  /\ LET i    == call[c].found
         anew == call' = [call EXCEPT ![c].at = "put", ![c].found = None]
     IN  IF i \notin Stored(store) THEN anew /\ UNCHANGED store
         ELSE \E out \in TouchOutcomes(store, i, store.rows[i]) :
                /\ store' = out.st
                /\ CASE out.res = "ok" -> Answer(c, "ok")
                     [] out.res = "error" -> Answer(c, "error")
                     [] OTHER -> anew
  /\ UNCHANGED <<born, granted, bound>>

\* DELETE /projecthash: what a forced upload replaces.
PurgeForForce(c) ==
  /\ call[c].at = "checked" /\ call[c].force
  /\ store' = PurgeContent(store, call[c].row)
  /\ Goto(c, "put")
  /\ UNCHANGED <<born, granted, bound>>

\* PUT /project or /report. A project row is put a second time with its timings.
PutNext(c) == IF call[c].at = "put" /\ call[c].row.kind = "project" THEN "finalize" ELSE "done"

PutRow(c) ==
  /\ call[c].at \in {"put", "finalize"}
  /\ \E out \in TouchOutcomes(store, call[c].id, call[c].row) :
       /\ store' = out.st
       /\ CASE out.res = "ok" /\ PutNext(c) = "finalize" -> Goto(c, "finalize")
            [] out.res = "ok" /\ PutNext(c) = "done" -> Answer(c, "ok")
            [] out.res = "error" -> Answer(c, "error")
            [] OTHER -> Answer(c, "full")
  /\ UNCHANGED <<born, granted, bound>>

\* GET /v1/projects/:id and /v1/reports/:id read the row and touch it. The route looks
\* for a row in the object's answer and never at its status.
Read(c) ==
  /\ call[c].at = "new" /\ call[c].op = "get"
  /\ LET i == call[c].id
     IN  IF i \notin Stored(store) THEN Answer(c, "gone") /\ UNCHANGED store
         ELSE \E out \in TouchOutcomes(store, i, store.rows[i]) :
                /\ store' = out.st
                /\ CASE out.res = "ok" -> Answer(c, "ok")
                     [] out.res = "error" -> Answer(c, "error")
                     [] OTHER -> Answer(c, "gone")
  /\ UNCHANGED <<born, granted, bound>>

\* DELETE /v1/projects/:id and /v1/reports/:id answer whether there was a row.
DeleteRow(c) ==
  /\ call[c].at = "new" /\ call[c].op = "delete"
  /\ store' = DropRows(store, {call[c].id} \cap Stored(store))
  /\ Answer(c, IF call[c].id \in Stored(store) THEN "ok" ELSE "absent")
  /\ UNCHANGED <<born, granted, bound>>

\* The request is cut between two of its steps, or its answer has been delivered.
Cut(c) ==
  /\ call[c] # Idle
  /\ call' = [call EXCEPT ![c] = Idle]
  /\ UNCHANGED <<store, born, granted, bound>>

Serve(c) ==
  \/ CheckQuota(c) \/ RejectBody(c) \/ LookUp(c) \/ LoadFound(c)
  \/ PurgeForForce(c) \/ PutRow(c) \/ Read(c) \/ DeleteRow(c)

-----------------------------------------------------------------------------
SweepOnce ==                                      \* mutant: the alarm is not armed again
  /\ store.alarm
  /\ store' = [DropRows(store, store.idle) EXCEPT !.alarm = FALSE]
  /\ UNCHANGED <<born, call, granted, bound>>

\* alarm(): sweeps the idle rows and rearms itself while any row is left.
Sweep ==
  /\ store.alarm
  /\ LET left == DropRows(store, store.idle)
     IN  store' = [left EXCEPT !.alarm = Stored(left) # {}]
  /\ UNCHANGED <<born, call, granted, bound>>

\* Retention passes for the row that was accessed longest ago among those not idle yet.
Age ==
  /\ bound > 0
  /\ \E i \in Stored(store) \ store.idle :
       /\ Before(store, i) \subseteq store.idle
       /\ store' = [store EXCEPT !.idle = @ \cup {i}]
  /\ bound' = bound - 1
  /\ UNCHANGED <<born, call, granted>>

\* The platform's storage limit is reached, or is no longer.
FillUp ==
  /\ bound > 0 /\ ~store.full
  /\ store' = [store EXCEPT !.full = TRUE]
  /\ bound' = bound - 1
  /\ UNCHANGED <<born, call, granted>>

Relieve ==
  /\ store.full
  /\ store' = [store EXCEPT !.full = FALSE]
  /\ UNCHANGED <<born, call, granted, bound>>

\* A new hour, or a new day, counts under keys of its own.
NewSlot(day) ==
  /\ bound > 0
  /\ store' = [store EXCEPT !.hour = 0, !.day = IF day THEN 0 ELSE @]
  /\ granted' = [granted EXCEPT !.hour = 0, !.day = IF day THEN 0 ELSE @]
  /\ bound' = bound - 1
  /\ UNCHANGED <<born, call>>

Platform == Sweep \/ Age \/ FillUp \/ Relieve \/ \E day \in BOOLEAN : NewSlot(day)

WorkerInit ==
  /\ store = [rows |-> [i \in Ids |-> None], index |-> [r \in Row |-> None],
              older |-> {}, idle |-> {}, ring |-> 0, hour |-> 0, day |-> 0,
              full |-> FALSE, alarm |-> FALSE]
  /\ born = <<>>
  /\ call = [c \in Slots |-> Idle]
  /\ granted = [hour |-> 0, day |-> 0]
  /\ bound = MaxEvents

WorkerNext ==
  \/ \E c \in Slots, op \in Ops, row \in Row, force \in BOOLEAN, id \in Ids :
       Submit(c, op, row, force, id)
  \/ \E c \in Slots : Serve(c) \/ Cut(c)
  \/ Platform

WorkerSpec == WorkerInit /\ [][WorkerNext]_workerVars

-----------------------------------------------------------------------------
(***************************************************************************)
(* Properties                                                              *)
(***************************************************************************)

\* The access times order the stored rows and nothing else, and the idle rows are those
\* that were accessed first: eviction and sweep never choose a row that is gone, or a
\* fresher one before an older one.
AccessSound(s) ==
  /\ s.older \subseteq Stored(s) \X Stored(s) /\ s.idle \subseteq Stored(s)
  /\ \A i, j \in Stored(s) : i # j => (<<i, j>> \in s.older <=> <<j, i>> \notin s.older)
  /\ \A i \in Stored(s) : <<i, i>> \notin s.older
  /\ \A i, j, k \in Stored(s) : <<i, j>> \in s.older /\ <<j, k>> \in s.older => <<i, k>> \in s.older
  /\ \A i \in s.idle : Before(s, i) \subseteq s.idle

\* The shape of the state, with the records of the object in step with its rows.
WorkerTypeOK ==
  /\ store \in Store /\ AccessSound(store)
  /\ born \in Seq(Row) /\ Len(born) <= MaxIds
  /\ call \in [Slots -> Call \cup {Idle}]
  /\ granted \in [hour : Nat, day : Nat]
  /\ bound \in Nat

\* The content index never leads to a row of another content: a dedup answer or a
\* forced purge that follows a key (hashDedup.ts, do.ts:35-47) cannot hit a row that
\* somebody else shared, whatever uploads, deletes, evictions and sweeps overlap.
IndexSound ==
  \A r \in Row : store.index[r] \in Stored(store) => store.rows[store.index[r]] = r

\* What clients are promised: the detailed routes and the object implement ShareService.
\* In particular an upload is answered with a link only when the row behind it is stored
\* at that very moment with the content that was sent, although a lookup, a purge, a put
\* and a second put are separate steps which other requests, evictions and sweeps
\* interrupt; and an id never comes to stand for another content.
Service == INSTANCE ShareService WITH
  rows <- store.rows,
  req <- [c \in Slots |->
            IF call[c] = Idle THEN Idle
            ELSE [at |-> IF call[c].at = "done" THEN "done" ELSE "open", op |-> call[c].op,
                  row |-> call[c].row, id |-> call[c].id, ans |-> call[c].ans]]

ImplementsService == Service!ServiceSpec

\* No hour and no day lets more uploads through than the quota of one address, however
\* the counting calls overlap, fail half-way or hit a full storage.
QuotaKept == granted.hour <= PerHour /\ granted.day <= PerDay

\* While a row is stored the retention alarm is armed: no order of touches, sweeps and
\* deletes leaves rows that nothing will ever expire.
AlarmArmed == Stored(store) # {} => store.alarm

=============================================================================
