---------------------------- MODULE ShareService ----------------------------
(***************************************************************************)
(* What the hosted share worker promises its clients: links to shared      *)
(* projects and reports, each standing for one content for ever, and       *)
(* requests that are answered in one step. ShareWorker implements it;      *)
(* ShareClient is written against it.                                      *)
(***************************************************************************)
EXTENDS Integers, FiniteSets, Sequences

CONSTANTS
  Hashes,   \* content hashes of what may be shared
  Slots,    \* requests the worker may serve at the same time
  MaxIds,   \* bound: row ids ever drawn
  None

Kinds == {"project", "report"}
Ids == 1 .. MaxIds
Row == [kind : Kinds, hash : Hashes]
Ops == {"upload", "get", "delete"}
Answers == {"ok", "absent", "gone", "full", "limited", "bad", "error"}

VARIABLES
  rows,   \* the stored rows
  born,   \* per drawn id, the content it stands for (random ids: never drawn twice)
  req     \* per slot, the request being served

serviceVars == <<rows, born, req>>

Idle == [at |-> "idle"]
Open(op, row, id) == [at |-> "open", op |-> op, row |-> row, id |-> id, ans |-> None]
Request == [at : {"open", "done"}, op : Ops, row : Row, id : Ids, ans : Answers \cup {None}]

\* An id is drawn for each upload; a client may send the one it drew for an earlier try
\* of the same snapshot, and asks only about ids it has seen.
Draw(op, row, id) ==
  \/ /\ op = "upload" /\ id = Len(born) + 1 /\ id \in Ids
     /\ born' = Append(born, row)
  \/ /\ id \in 1 .. Len(born) /\ born[id] = row
     /\ op = "upload" => row.kind = "project"
     /\ UNCHANGED born

Submit(c, op, row, id) ==
  /\ req[c] = Idle
  /\ req' = [req EXCEPT ![c] = Open(op, row, id)]
  /\ Draw(op, row, id)
  /\ UNCHANGED rows

Stored == {i \in Ids : rows[i] # None}

\* Rows may go at any time: they turn idle, make room, or are replaced by a forced upload.
\* The row of an upload may be seen before its answer.
Lose(gone) == [i \in Ids |-> IF i \in gone THEN None ELSE rows[i]]

Effect(q) ==
  \E gone \in SUBSET Stored :
    \/ rows' = Lose(gone)
    \/ q.op = "upload" /\ rows' = [Lose(gone) EXCEPT ![q.id] = q.row]

Work(c) ==
  /\ req[c].at = "open"
  /\ UNCHANGED <<born, req>>
  /\ Effect(req[c])

\* What an answer says of the rows. Nothing is promised of "gone" (a row that cannot be
\* touched for want of storage is reported so), nor of an upload that fails.
Fits(q, ans, link) ==
  CASE q.op = "upload" /\ ans = "ok" -> rows'[link] = q.row
    [] q.op = "get" /\ ans = "ok" -> link = q.id /\ rows'[link] = q.row
    [] q.op = "delete" /\ ans = "ok" -> link = q.id /\ rows[link] # None /\ rows'[link] = None
    [] q.op = "delete" /\ ans = "absent" -> link = q.id /\ rows[link] = None
    [] q.op = "get" /\ ans = "gone" -> link = q.id
    [] q.op = "upload" /\ ans \in {"full", "limited", "bad"} -> TRUE
    [] ans = "error" -> TRUE
    [] OTHER -> FALSE

Reply(c, ans, link) ==
  /\ req[c].at = "open"
  /\ req' = [req EXCEPT ![c].at = "done", ![c].ans = ans, ![c].id = link]
  /\ Effect(req[c])
  /\ Fits(req[c], ans, link)
  /\ UNCHANGED born

Cut(c) ==
  /\ req[c] # Idle
  /\ req' = [req EXCEPT ![c] = Idle]
  /\ UNCHANGED <<rows, born>>

Vanish ==
  /\ UNCHANGED <<born, req>>
  /\ \E gone \in SUBSET Stored : rows' = Lose(gone)

ServiceInit ==
  /\ rows = [i \in Ids |-> None] /\ born = <<>>
  /\ req = [c \in Slots |-> Idle]

ServiceNext ==
  \/ Vanish
  \/ \E c \in Slots :
       \/ Work(c) \/ Cut(c)
       \/ req[c] = Idle /\ \E op \in Ops, row \in Row, id \in Ids : Submit(c, op, row, id)
       \/ req[c] # Idle /\ \E ans \in Answers, link \in Ids : Reply(c, ans, link)

ServiceSpec == ServiceInit /\ [][ServiceNext]_serviceVars

=============================================================================
