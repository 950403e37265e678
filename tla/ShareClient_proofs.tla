------------------------- MODULE ShareClient_proofs -------------------------
(* Proofs about ShareClient: share.json tells the truth, for any contents,  *)
(* any number of command processes, requests, tries and ids, whatever the   *)
(* worker answers, loses or answers late.                                   *)
EXTENDS ShareClient, NaturalsInduction, WellFoundedInduction, TLAPS

(* An entry names a link: an id that was drawn, for the content it says.    *)
Names(e, drawn) ==
  /\ e.id \in 1 .. Len(drawn)
  /\ drawn[e.id] = [kind |-> e.kind, hash |-> e.hash]

Truthful(entries, drawn) ==
  /\ entries \in Seq(Entry)
  /\ \A n \in 1 .. Len(entries) : Names(entries[n], drawn)
  /\ \A m, n \in 1 .. Len(entries) : entries[m].id = entries[n].id => m = n

(* Ids are drawn once: what was drawn stays.                                *)
Grown(drawn, more) ==
  Len(drawn) <= Len(more) /\ \A i \in 1 .. Len(drawn) : more[i] = drawn[i]

-----------------------------------------------------------------------------
(* The operators on share.json.                                             *)

LEMMA StaysTruthful ==
    ASSUME NEW drawn \in Seq(Row), NEW more \in Seq(Row), Grown(drawn, more)
    PROVE  /\ \A e : Names(e, drawn) => Names(e, more)
           /\ \A entries : Truthful(entries, drawn) => Truthful(entries, more)
<1>1. ASSUME NEW e, Names(e, drawn) PROVE Names(e, more)
  <2>1. Len(drawn) \in Nat /\ Len(more) \in Nat
    OBVIOUS
  <2> QED
    BY <1>1, <2>1 DEF Names, Grown
<1> QED
  BY <1>1 DEF Truthful

LEMMA WithoutIdIs ==
    ASSUME NEW drawn, NEW entries, Truthful(entries, drawn), NEW id
    PROVE  /\ Truthful(WithoutId(entries, id), drawn)
           /\ \A n \in 1 .. Len(WithoutId(entries, id)) : WithoutId(entries, id)[n].id # id
<1>1. Len(entries) \in Nat /\ \A n \in 1 .. Len(entries) : entries[n] \in Entry
  BY DEF Truthful
<1>2. CASE \A n \in 1 .. Len(entries) : entries[n].id # id
  BY <1>2 DEF WithoutId
<1>3. CASE ~\A n \in 1 .. Len(entries) : entries[n].id # id
  <2>1. PICK place : place = Place(entries, id)
    OBVIOUS
  <2>2. place \in 1 .. Len(entries) /\ entries[place].id = id
    BY <1>3, <2>1 DEF Place
  <2>3. PICK rest : rest = [n \in 1 .. Len(entries) - 1 |-> entries[IF n < place THEN n ELSE n + 1]]
    OBVIOUS
  <2>4. WithoutId(entries, id) = rest
    BY <1>3, <2>1, <2>3 DEF WithoutId
  <2>5. Len(entries) - 1 \in Nat
    BY <1>1, <2>2
  <2>6. \A n \in 1 .. Len(entries) - 1 :
          \E k \in 1 .. Len(entries) : /\ k = (IF n < place THEN n ELSE n + 1)
                                       /\ k # place /\ rest[n] = entries[k]
    BY <1>1, <2>2, <2>3, <2>5
  <2>7. rest \in [1 .. Len(entries) - 1 -> Entry]
    BY <1>1, <2>3, <2>6
  <2>8. rest \in Seq(Entry) /\ Len(rest) = Len(entries) - 1
    BY <2>5, <2>7
  <2>9. \A n \in 1 .. Len(rest) : Names(rest[n], drawn) /\ rest[n].id # id
    BY <2>2, <2>6, <2>8 DEF Truthful
  <2>10. ASSUME NEW m \in 1 .. Len(rest), NEW n \in 1 .. Len(rest), rest[m].id = rest[n].id
         PROVE  m = n
    <3>1. PICK k \in 1 .. Len(entries) : k = (IF m < place THEN m ELSE m + 1) /\ rest[m] = entries[k]
      BY <2>6, <2>8
    <3>2. PICK l \in 1 .. Len(entries) : l = (IF n < place THEN n ELSE n + 1) /\ rest[n] = entries[l]
      BY <2>6, <2>8
    <3>3. k = l
      BY <2>10, <3>1, <3>2 DEF Truthful
    <3> QED
      BY <1>1, <2>2, <3>1, <3>2, <3>3
  <2> QED
    BY <2>4, <2>8, <2>9, <2>10 DEF Truthful
<1> QED
  BY <1>2, <1>3

LEMMA WithEntryIs ==
    ASSUME NEW drawn, NEW entries, Truthful(entries, drawn), NEW e \in Entry, Names(e, drawn)
    PROVE  Truthful(WithEntry(entries, e), drawn)
<1>1. PICK rest : rest = WithoutId(entries, e.id)
  OBVIOUS
<1>2. Truthful(rest, drawn) /\ \A n \in 1 .. Len(rest) : rest[n].id # e.id
  BY <1>1, WithoutIdIs
<1>3. PICK new : new = Append(rest, e)
  OBVIOUS
<1>4. WithEntry(entries, e) = new
  BY <1>1, <1>3 DEF WithEntry
<1>5. /\ new \in Seq(Entry) /\ Len(new) = Len(rest) + 1 /\ Len(rest) \in Nat /\ new[Len(new)] = e
      /\ \A n \in 1 .. Len(new) : n # Len(new) => n \in 1 .. Len(rest) /\ new[n] = rest[n]
  BY <1>2, <1>3 DEF Truthful
<1>6. \A n \in 1 .. Len(new) : Names(new[n], drawn)
  BY <1>2, <1>5 DEF Truthful
<1>7. ASSUME NEW m \in 1 .. Len(new), NEW n \in 1 .. Len(new), new[m].id = new[n].id
      PROVE  m = n
  <2>1. CASE m = Len(new) \/ n = Len(new)
    BY <1>2, <1>5, <1>7, <2>1
  <2>2. CASE m # Len(new) /\ n # Len(new)
    BY <1>2, <1>5, <1>7, <2>2 DEF Truthful
  <2> QED
    BY <2>1, <2>2
<1> QED
  BY <1>4, <1>5, <1>6, <1>7 DEF Truthful

(* The most recently used entry is one of the entries.                      *)
LEMMA MaxIsThere ==
    ASSUME NEW len \in Nat, NEW places \in SUBSET (1 .. len), places # {}
    PROVE  Max(places) \in places
<1>1. PICK below : below = {k \in Nat : len - k \in places}
  OBVIOUS
<1>2. below \in SUBSET Nat /\ below # {}
  <2>1. PICK n \in places : TRUE
    OBVIOUS
  <2>2. len - n \in Nat /\ len - (len - n) = n
    BY <2>1
  <2> QED
    BY <1>1, <2>1, <2>2
<1>3. PICK k \in below : \A l \in below : ~(<<l, k>> \in OpToRel(<, Nat))
  BY <1>2, NatLessThanWellFounded, WFMin, Zenon
<1>4. len - k \in places /\ k \in Nat
  BY <1>1, <1>3
<1>5. \A m \in places : m <= len - k
  <2> SUFFICES ASSUME NEW m \in places PROVE m <= len - k
    OBVIOUS
  <2>1. len - m \in Nat /\ len - (len - m) = m
    OBVIOUS
  <2>2. len - m \in below
    BY <1>1, <2>1
  <2>3. ~(len - m < k)
    BY <1>2, <1>3, <2>2 DEF OpToRel
  <2> QED
    BY <1>4, <2>1, <2>3
<1> QED
  BY <1>4, <1>5 DEF Max

LEMMA NewestIs ==
    ASSUME NEW drawn, NEW entries, Truthful(entries, drawn),
           NEW places \in SUBSET (1 .. Len(entries)), Newest(entries, places) # None
    PROVE  Newest(entries, places) \in Entry /\ Names(Newest(entries, places), drawn)
<1>1. Len(entries) \in Nat /\ \A n \in 1 .. Len(entries) : entries[n] \in Entry
  BY DEF Truthful
<1>2. places # {}
  BY DEF Newest
<1>3. Max(places) \in places
  BY <1>1, <1>2, MaxIsThere
<1>4. Newest(entries, places) = entries[Max(places)]
  BY <1>2 DEF Newest
<1> QED
  BY <1>1, <1>3, <1>4 DEF Truthful

-----------------------------------------------------------------------------
(***************************************************************************)
(* The inductive invariant.                                                 *)
(***************************************************************************)
Steps ==
  {"prepare", "load", "build", "choose", "verify", "verifying", "rebuild", "confirm", "retry",
   "uploading", "delete", "deleting", "view", "viewing"}
Commands ==
  [at : Steps, todo : Seq(Kinds) \ {<<>>}, force : BOOLEAN, base : Hashes \cup {None},
   loaded : BOOLEAN, mem : Seq(Entry), built : Hashes \cup {None}, cand : Entry \cup {None},
   own : Ids \cup {None}, slot : Slots \cup {None}, tries : Nat]

(* A stored row is what its id was drawn for, and a request names such an   *)
(* id from its beginning to its answer.                                     *)
Requests == [at : {"open", "done"}, op : Ops, row : Row, id : Nat, ans : Answers \cup {None}]
Matches(q, drawn) == q.id \in 1 .. Len(drawn) /\ drawn[q.id] = q.row
ServiceInv ==
  /\ born \in Seq(Row) /\ Len(born) <= MaxIds
  /\ rows \in [Ids -> Row \cup {None}] /\ req \in [Slots -> Requests \cup {Idle}]
  /\ \A i \in Ids : rows[i] # None => i <= Len(born) /\ rows[i] = born[i]
  /\ \A c \in Slots : req[c] # Idle => Matches(req[c], born)

(* A command's copy of share.json is truthful, the entry it verifies names  *)
(* a link, and it uploads only what was built.                              *)
Reads(me, drawn) ==
  /\ me \in Commands /\ Truthful(me.mem, drawn)
  /\ me.at \in {"verify", "verifying"} => me.cand \in Entry /\ Names(me.cand, drawn)
  /\ me.at \in {"choose", "confirm", "retry", "uploading"} => me.built \in Hashes

(* A command has a request only while it waits for the answer; the request  *)
(* is under way, and that of an upload is for the payload that was built.   *)
Waiting == {"verifying", "uploading", "deleting", "viewing"}
Waits(me, requests) ==
  /\ me.at \notin Waiting => me.slot = None
  /\ me.slot # None =>
       /\ me.slot \in Slots /\ requests[me.slot] # Idle
       /\ me.at = "uploading" =>
            /\ requests[me.slot].op = "upload"
            /\ requests[me.slot].row = [kind |-> Head(me.todo), hash |-> me.built]

(* No two commands wait for the same request.                               *)
Apart == \A p, q \in Procs : /\ p # q /\ cmd[p] # NoCommand /\ cmd[q] # NoCommand
                             /\ cmd[p].slot # None
                             => cmd[p].slot # cmd[q].slot
ClientInv ==
  /\ disk \in Hashes /\ files \in Hashes \cup {None} /\ Truthful(share, born)
  /\ cmd = [p \in Procs |-> cmd[p]]
  /\ \A p \in Procs : cmd[p] # NoCommand => Reads(cmd[p], born) /\ Waits(cmd[p], req)
  /\ Apart
Inv == ServiceInv /\ ClientInv

-----------------------------------------------------------------------------
(* The service: what was drawn stays, and requests keep to it.              *)
LEMMA RowsAre ==
    ASSUME ServiceInv
    PROVE  /\ Len(born) \in Nat /\ DOMAIN born = 1 .. Len(born) /\ 1 .. Len(born) \subseteq Ids
           /\ \A i \in 1 .. Len(born) : born[i] \in Row
           /\ Grown(born, born)
<1>1. Len(born) \in Nat /\ DOMAIN born = 1 .. Len(born) /\ \A i \in 1 .. Len(born) : born[i] \in Row
  BY DEF ServiceInv
<1>2. MaxIds \in Nat /\ Len(born) <= MaxIds
  BY ShareClientAssumption DEF ServiceInv
<1> QED
  BY <1>1, <1>2 DEF Ids, Grown

LEMMA IdleIs == \A q \in Requests : q # Idle
BY DEF Requests, Idle

LEMMA AppendIs ==
    ASSUME ServiceInv, NEW row \in Row, born' = Append(born, row), Len(born) < MaxIds
    PROVE  /\ born' \in Seq(Row) /\ Len(born') = Len(born) + 1 /\ Len(born') <= MaxIds
           /\ born'[Len(born) + 1] = row /\ Grown(born, born')
<1>1. Len(born) \in Nat /\ born \in Seq(Row) /\ MaxIds \in Nat
  BY ShareClientAssumption DEF ServiceInv
<1> QED
  BY <1>1 DEF Grown

LEMMA SubmitIs ==
    ASSUME ServiceInv, NEW c \in Slots, NEW op \in Ops, NEW row, NEW id,
           op = "upload" => row \in Row, Submit(c, op, row, id)
    PROVE  /\ ServiceInv' /\ Grown(born, born') /\ req[c] = Idle /\ id \in Ids
           /\ req'[c] # Idle /\ req'[c].op = op /\ req'[c].row = row
           /\ \A d \in Slots : d # c => req'[d] = req[d]
<1>1. /\ born \in Seq(Row) /\ rows \in [Ids -> Row \cup {None}]
      /\ req \in [Slots -> Requests \cup {Idle}]
  BY DEF ServiceInv
<1>2. /\ born' \in Seq(Row) /\ Len(born') <= MaxIds /\ Grown(born, born')
      /\ id \in 1 .. Len(born') /\ born'[id] = row /\ row \in Row /\ id \in Ids
  <2>1. CASE op = "upload" /\ id = Len(born) + 1 /\ id \in Ids /\ born' = Append(born, row)
    <3>1. Len(born) \in Nat /\ Len(born) < MaxIds
      BY <2>1, RowsAre, ShareClientAssumption DEF Ids
    <3> QED
      BY <2>1, <3>1, AppendIs
  <2>2. CASE id \in 1 .. Len(born) /\ born[id] = row /\ UNCHANGED born
    BY <2>2, RowsAre DEF ServiceInv
  <2> QED
    BY <2>1, <2>2 DEF Submit, Draw
<1>3. PICK q : q = Open(op, row, id)
  OBVIOUS
<1>4. q \in Requests /\ q.op = op /\ q.row = row /\ q.id = id
  BY <1>2, <1>3 DEF Open, Requests, Ids
<1>5. req' = [req EXCEPT ![c] = q] /\ req[c] = Idle /\ rows' = rows
  BY <1>3 DEF Submit
<1>6. \A d \in Slots : req'[d] = IF d = c THEN q ELSE req[d]
  BY <1>1, <1>5
<1>7. \A d \in Slots : req'[d] # Idle => Matches(req'[d], born')
  <2> SUFFICES ASSUME NEW d \in Slots, req'[d] # Idle PROVE Matches(req'[d], born')
    OBVIOUS
  <2>1. CASE d = c
    BY <1>2, <1>4, <1>6, <2>1 DEF Matches
  <2>2. CASE d # c
    <3>1. Matches(req[d], born) /\ req'[d] = req[d]
      BY <1>6, <2>2 DEF ServiceInv
    <3> QED
      BY <1>2, <3>1, RowsAre DEF Matches, Grown
  <2> QED
    BY <2>1, <2>2
<1>8. \A i \in Ids : rows[i] # None => i <= Len(born') /\ rows[i] = born'[i]
  <2> SUFFICES ASSUME NEW i \in Ids, rows[i] # None
               PROVE  i <= Len(born') /\ rows[i] = born'[i]
    OBVIOUS
  <2>1. i \in 1 .. Len(born) /\ rows[i] = born[i]
    BY RowsAre, ShareClientAssumption DEF ServiceInv, Ids
  <2> QED
    BY <1>2, <2>1, RowsAre DEF Grown
<1>9. req' \in [Slots -> Requests \cup {Idle}]
  BY <1>1, <1>4, <1>5
<1>10. ServiceInv'
  BY <1>1, <1>2, <1>5, <1>7, <1>8, <1>9 DEF ServiceInv
<1> QED
  BY <1>2, <1>4, <1>5, <1>6, <1>10, IdleIs

LEMMA LoseIs ==
    ASSUME ServiceInv, NEW gone, NEW r, r = Lose(gone)
    PROVE  /\ r \in [Ids -> Row \cup {None}]
           /\ \A i \in Ids : r[i] # None => i <= Len(born) /\ r[i] = born[i]
BY DEF Lose, ServiceInv

LEMMA EffectIs ==
    ASSUME ServiceInv, NEW q \in Requests, Matches(q, born), Effect(q)
    PROVE  /\ rows' \in [Ids -> Row \cup {None}]
           /\ \A i \in Ids : rows'[i] # None => i <= Len(born) /\ rows'[i] = born[i]
<1>1. q.row \in Row /\ q.id \in 1 .. Len(born) /\ born[q.id] = q.row
  BY DEF Requests, Matches
<1>2. CASE \E gone \in SUBSET Stored : rows' = Lose(gone)
  BY <1>2, LoseIs
<1>3. CASE \E gone \in SUBSET Stored : rows' = [Lose(gone) EXCEPT ![q.id] = q.row]
  <2>1. PICK gone \in SUBSET Stored : rows' = [Lose(gone) EXCEPT ![q.id] = q.row]
    BY <1>3
  <2>2. PICK r : r = Lose(gone)
    OBVIOUS
  <2>3. /\ r \in [Ids -> Row \cup {None}]
        /\ \A i \in Ids : r[i] # None => i <= Len(born) /\ r[i] = born[i]
    BY <2>2, LoseIs
  <2>4. rows' = [r EXCEPT ![q.id] = q.row] /\ q.id <= Len(born)
    BY <1>1, <2>1, <2>2, RowsAre
  <2> QED
    BY <1>1, <2>3, <2>4
<1> QED
  BY <1>2, <1>3 DEF Effect

(* What a step of the worker leaves of a request that somebody waits for.   *)
Kept(c) == req'[c] # Idle /\ req'[c].op = req[c].op /\ req'[c].row = req[c].row

LEMMA ReplyIs ==
    ASSUME ServiceInv, NEW c \in Slots, NEW ans \in Answers, NEW link \in DOMAIN born,
           ans # "ok" => link = req[c].id, Reply(c, ans, link)
    PROVE  /\ ServiceInv' /\ born' = born
           /\ \A d \in Slots : req[d] # Idle => Kept(d)
<1>1. /\ born \in Seq(Row) /\ rows \in [Ids -> Row \cup {None}]
      /\ req \in [Slots -> Requests \cup {Idle}] /\ born' = born
  BY DEF ServiceInv, Reply
<1>2. PICK q : q = req[c]
  OBVIOUS
<1>3. q \in Requests /\ Matches(q, born)
  <2>1. req[c] # Idle
    BY DEF Reply, Idle
  <2> QED
    BY <1>1, <1>2, <2>1 DEF ServiceInv
<1>4. /\ rows' \in [Ids -> Row \cup {None}]
      /\ \A i \in Ids : rows'[i] # None => i <= Len(born) /\ rows'[i] = born[i]
  BY <1>2, <1>3, EffectIs DEF Reply
<1>5. link \in 1 .. Len(born) /\ link \in Ids /\ born[link] = q.row
  <2>1. link \in 1 .. Len(born) /\ link \in Ids
    BY RowsAre
  <2>2. CASE link = q.id
    BY <1>3, <2>1, <2>2 DEF Matches
  <2>3. CASE link # q.id
    <3>1. ans = "ok" /\ q.op = "upload" /\ rows'[link] = q.row
      BY <1>2, <1>3, <2>3 DEF Reply, Fits, Requests, Ops
    <3>2. q.row # None
      BY <1>3, ShareClientAssumption DEF Requests
    <3> QED
      BY <1>4, <2>1, <3>1, <3>2
  <2> QED
    BY <2>2, <2>3
<1>6. PICK new : new = [q EXCEPT !.at = "done", !.ans = ans, !.id = link]
  OBVIOUS
<1>7. new \in Requests /\ new.op = q.op /\ new.row = q.row /\ new.id = link
  <2>1. link \in Nat
    BY <1>5
  <2>2. q \in [at : {"open", "done"}, op : Ops, row : Row, id : Nat, ans : Answers \cup {None}]
    BY <1>3 DEF Requests
  <2>3. new \in [at : {"open", "done"}, op : Ops, row : Row, id : Nat, ans : Answers \cup {None}]
    BY <1>6, <2>1, <2>2
  <2> QED
    BY <1>6, <2>2, <2>3 DEF Requests
<1>8. req' = [req EXCEPT ![c] = new]
  BY <1>1, <1>2, <1>6 DEF Reply
<1>9. \A d \in Slots : req'[d] = IF d = c THEN new ELSE req[d]
  BY <1>1, <1>8
<1>10. req' \in [Slots -> Requests \cup {Idle}]
  BY <1>1, <1>7, <1>8
<1>11. Matches(new, born)
  BY <1>5, <1>7 DEF Matches
<1>12. \A d \in Slots : req'[d] # Idle => Matches(req'[d], born)
  BY <1>9, <1>11 DEF ServiceInv
<1>13. ServiceInv'
  BY <1>1, <1>4, <1>10, <1>12 DEF ServiceInv
<1>14. \A d \in Slots : req[d] # Idle => Kept(d)
  BY <1>2, <1>7, <1>9, IdleIs DEF Kept
<1> QED
  BY <1>1, <1>13, <1>14

(* A request comes to its end.                                              *)
LEMMA CutIs ==
    ASSUME ServiceInv, NEW c \in Slots, req' = [req EXCEPT ![c] = Idle], UNCHANGED <<rows, born>>
    PROVE  ServiceInv' /\ \A d \in Slots : d # c => req'[d] = req[d]
<1>1. req \in [Slots -> Requests \cup {Idle}]
  BY DEF ServiceInv
<1>2. \A d \in Slots : req'[d] = IF d = c THEN Idle ELSE req[d]
  BY <1>1
<1>3. req' \in [Slots -> Requests \cup {Idle}]
  BY <1>1
<1>4. \A d \in Slots : req'[d] # Idle => Matches(req'[d], born)
  BY <1>2 DEF ServiceInv
<1> QED
  BY <1>2, <1>3, <1>4 DEF ServiceInv

(* The worker on its own: it goes on with a request, or rows go.            *)
LEMMA WorkIs ==
    ASSUME ServiceInv, Vanish \/ \E c \in Slots : Work(c)
    PROVE  ServiceInv' /\ born' = born /\ req' = req
<1>1. born' = born /\ req' = req
  BY DEF Vanish, Work
<1>2. /\ rows' \in [Ids -> Row \cup {None}]
      /\ \A i \in Ids : rows'[i] # None => i <= Len(born) /\ rows'[i] = born[i]
  <2>1. CASE Vanish
    BY <2>1, LoseIs DEF Vanish
  <2>2. ASSUME NEW c \in Slots, Work(c)
        PROVE  /\ rows' \in [Ids -> Row \cup {None}]
               /\ \A i \in Ids : rows'[i] # None => i <= Len(born) /\ rows'[i] = born[i]
    <3>1. req[c] \in Requests /\ Matches(req[c], born)
      BY <2>2 DEF Work, Idle, ServiceInv
    <3> QED
      BY <2>2, <3>1, EffectIs DEF Work
  <2> QED
    BY <2>1, <2>2
<1> QED
  BY <1>1, <1>2 DEF ServiceInv

-----------------------------------------------------------------------------
(* The commands. What stays for a command when the service moves on.        *)
LEMMA StaysGood ==
    ASSUME ServiceInv, ServiceInv', Grown(born, born'), NEW me,
           Reads(me, born), Waits(me, req), me.slot # None => Kept(me.slot)
    PROVE  Reads(me, born') /\ Waits(me, req')
<1>1. born \in Seq(Row) /\ born' \in Seq(Row)
  BY DEF ServiceInv
<1>2. Reads(me, born')
  BY <1>1, StaysTruthful DEF Reads
<1>3. Waits(me, req')
  BY DEF Waits, Kept
<1> QED
  BY <1>2, <1>3

(* The service moves on, and keeps every request that somebody waits for.   *)
LEMMA ServiceStep ==
    ASSUME ServiceInv, ServiceInv', ClientInv, Grown(born, born'), cmd' = cmd,
           disk' \in Hashes, files' \in Hashes \cup {None}, share' = share,
           \A q \in Procs : cmd[q] # NoCommand /\ cmd[q].slot # None => Kept(cmd[q].slot)
    PROVE  ClientInv'
<1>1. Truthful(share', born')
  BY StaysTruthful DEF ServiceInv, ClientInv
<1>2. \A q \in Procs : cmd'[q] # NoCommand => Reads(cmd'[q], born') /\ Waits(cmd'[q], req')
  BY StaysGood DEF ClientInv
<1>3. cmd' = [p \in Procs |-> cmd'[p]] /\ Apart'
  BY DEF ClientInv, Apart
<1> QED
  BY <1>1, <1>2, <1>3 DEF ClientInv

(* A command goes on, and the service with it.                              *)
LEMMA ClientStep ==
    ASSUME ServiceInv, ServiceInv', ClientInv, Grown(born, born'),
           NEW p \in Procs, NEW me, Become(p, me),
           disk' \in Hashes, files' \in Hashes \cup {None}, Truthful(share', born'),
           me # NoCommand => Reads(me, born') /\ Waits(me, req'),
           me # NoCommand /\ me.slot # None
             => \A q \in Procs : q # p /\ cmd[q] # NoCommand => cmd[q].slot # me.slot,
           \A q \in Procs : q # p /\ cmd[q] # NoCommand /\ cmd[q].slot # None => Kept(cmd[q].slot)
    PROVE  ClientInv'
<1>1. /\ cmd' = [q \in Procs |-> cmd'[q]]
      /\ \A q \in Procs : cmd'[q] = IF q = p THEN me ELSE cmd[q]
  BY DEF ClientInv, Become
<1>2. \A q \in Procs : cmd'[q] # NoCommand => Reads(cmd'[q], born') /\ Waits(cmd'[q], req')
  <2> SUFFICES ASSUME NEW q \in Procs, cmd'[q] # NoCommand
               PROVE  Reads(cmd'[q], born') /\ Waits(cmd'[q], req')
    OBVIOUS
  <2>1. CASE q = p
    BY <1>1, <2>1
  <2>2. CASE q # p
    <3>1. cmd'[q] = cmd[q] /\ Reads(cmd[q], born) /\ Waits(cmd[q], req)
      BY <1>1, <2>2 DEF ClientInv
    <3>2. cmd[q].slot # None => Kept(cmd[q].slot)
      BY <2>2, <3>1
    <3> QED
      BY <3>1, <3>2, StaysGood
  <2> QED
    BY <2>1, <2>2
<1>3. Apart'
  <2> SUFFICES ASSUME NEW q \in Procs, NEW r \in Procs, q # r, cmd'[q] # NoCommand,
                      cmd'[r] # NoCommand, cmd'[q].slot # None
               PROVE  cmd'[q].slot # cmd'[r].slot
    BY DEF Apart
  <2>1. CASE q = p
    <3>1. cmd'[q] = me /\ cmd'[r] = cmd[r] /\ r # p
      BY <1>1, <2>1
    <3> QED
      BY <3>1
  <2>2. CASE r = p
    <3>1. cmd'[r] = me /\ cmd'[q] = cmd[q] /\ q # p
      BY <1>1, <2>2
    <3>2. CASE me.slot = None
      BY <3>1, <3>2
    <3>3. CASE me.slot # None
      BY <3>1, <3>3
    <3> QED
      BY <3>2, <3>3
  <2>3. CASE q # p /\ r # p
    <3>1. cmd'[r] = cmd[r] /\ cmd'[q] = cmd[q]
      BY <1>1, <2>3
    <3> QED
      BY <3>1 DEF ClientInv, Apart
  <2> QED
    BY <2>1, <2>2, <2>3
<1> QED
  BY <1>1, <1>2, <1>3 DEF ClientInv

(* A command goes on and asks for nothing.                                  *)
LEMMA QuietStep ==
    ASSUME Inv, NEW p \in Procs, NEW me, Become(p, me), UNCHANGED serviceVars, disk' = disk,
           files' \in Hashes \cup {None}, Truthful(share', born),
           me # NoCommand => Reads(me, born) /\ me.slot = None
    PROVE  Inv'
<1>1. rows' = rows /\ born' = born /\ req' = req /\ ServiceInv /\ ClientInv
  BY DEF serviceVars, Inv
<1>2. ServiceInv' /\ Grown(born, born')
  BY <1>1, RowsAre DEF ServiceInv
<1>3. \A q \in Procs : cmd[q] # NoCommand /\ cmd[q].slot # None => Kept(cmd[q].slot)
  BY <1>1 DEF ClientInv, Waits, Kept
<1>4. me # NoCommand => Reads(me, born') /\ Waits(me, req')
  BY <1>1 DEF Waits
<1>5. disk' \in Hashes
  BY <1>1 DEF ClientInv
<1>6. Truthful(share', born')
  BY <1>1
<1>7. ClientInv'
  BY <1>1, <1>2, <1>3, <1>4, <1>5, <1>6, ClientStep
<1> QED
  BY <1>2, <1>7 DEF Inv

(* A command has its answer, or gives up the wait.                          *)
LEMMA AnswerStep ==
    ASSUME Inv, NEW p \in Procs, cmd[p] # NoCommand, NEW ans, Answered(p, ans),
           NEW me, Become(p, me), UNCHANGED <<disk, files>>, Truthful(share', born),
           me # NoCommand => Reads(me, born) /\ me.slot = None
    PROVE  Inv'
<1>1. ServiceInv /\ ClientInv
  BY DEF Inv
<1>2. PICK c : c = cmd[p].slot
  OBVIOUS
<1>3. c \in Slots /\ c # None
  BY <1>1, <1>2 DEF Answered, ClientInv, Waits
<1>4. CASE UNCHANGED serviceVars
  <2>1. disk' = disk /\ files' \in Hashes \cup {None}
    BY <1>1 DEF ClientInv
  <2> QED
    BY <1>4, <2>1, QuietStep
<1>5. CASE req' = [req EXCEPT ![c] = Idle] /\ UNCHANGED <<rows, born>>
  <2>1. ServiceInv' /\ \A d \in Slots : d # c => req'[d] = req[d]
    BY <1>1, <1>3, <1>5, CutIs
  <2>2. Grown(born, born') /\ born' = born
    BY <1>1, <1>5, RowsAre
  <2>3. ASSUME NEW q \in Procs, q # p, cmd[q] # NoCommand, cmd[q].slot # None
        PROVE  Kept(cmd[q].slot)
    <3>1. cmd[q].slot # c /\ cmd[q].slot \in Slots /\ req[cmd[q].slot] # Idle
      BY <1>1, <1>2, <2>3 DEF ClientInv, Apart, Waits
    <3> QED
      BY <2>1, <3>1 DEF Kept
  <2>4. me # NoCommand => Reads(me, born') /\ Waits(me, req')
    BY <2>2 DEF Waits
  <2>5. disk' \in Hashes /\ files' \in Hashes \cup {None} /\ Truthful(share', born')
    BY <1>1, <2>2 DEF ClientInv
  <2>6. ClientInv'
    BY <1>1, <2>1, <2>2, <2>3, <2>4, <2>5, ClientStep
  <2> QED
    BY <2>1, <2>6 DEF Inv
<1> QED
  BY <1>2, <1>4, <1>5 DEF Answered

(* A command asks.                                                          *)
LEMMA AskStep ==
    ASSUME Inv, NEW p \in Procs, cmd[p] # NoCommand, NEW at \in Waiting, NEW op \in Ops,
           NEW row, NEW id, Ask(p, at, op, row, id),
           at = "verifying" => cmd[p].at = "verify",
           op = "upload" => row \in Row,
           at = "uploading" => /\ op = "upload" /\ cmd[p].built \in Hashes
                               /\ row = [kind |-> Head(cmd[p].todo), hash |-> cmd[p].built]
    PROVE  Inv'
<1>1. ServiceInv /\ ClientInv /\ Reads(cmd[p], born)
  BY DEF Inv, ClientInv
<1>2. PICK c \in Slots :
        /\ Submit(c, op, row, id)
        /\ Become(p, [cmd[p] EXCEPT !.at = at, !.slot = c, !.tries = @ + 1,
                         !.own = IF op = "upload" /\ row.kind = "project" THEN id ELSE @])
        /\ UNCHANGED <<disk, files, share, left>>
  BY DEF Ask
<1>3. /\ ServiceInv' /\ Grown(born, born') /\ req[c] = Idle /\ id \in Ids
      /\ req'[c] # Idle /\ req'[c].op = op /\ req'[c].row = row
      /\ \A d \in Slots : d # c => req'[d] = req[d]
  BY <1>1, <1>2, SubmitIs
<1>4. PICK me : me = [cmd[p] EXCEPT !.at = at, !.slot = c, !.tries = @ + 1,
                         !.own = IF op = "upload" /\ row.kind = "project" THEN id ELSE @]
  OBVIOUS
<1>5. cmd[p] \in Commands /\ at \in Steps
  BY <1>1 DEF Reads, Waiting, Steps
<1>6. /\ me \in Commands /\ me.at = at /\ me.slot = c /\ me.mem = cmd[p].mem
      /\ me.cand = cmd[p].cand /\ me.built = cmd[p].built /\ me.todo = cmd[p].todo
  <2>1. PICK now : now = cmd[p]
    OBVIOUS
  <2>2. PICK own : own = IF op = "upload" /\ row.kind = "project" THEN id ELSE now.own
    OBVIOUS
  <2>3. now \in Commands
    BY <1>5, <2>1
  <2>4. own \in Ids \cup {None}
    BY <1>3, <2>2, <2>3 DEF Commands
  <2>5. me = [now EXCEPT !.at = at, !.slot = c, !.tries = now.tries + 1, !.own = own]
    BY <1>4, <2>1, <2>2, <2>3 DEF Commands
  <2>6. now.tries + 1 \in Nat
    BY <2>3 DEF Commands
  <2> QED
    BY <1>5, <2>1, <2>3, <2>4, <2>5, <2>6 DEF Commands
<1>7. Reads(me, born)
  BY <1>1, <1>6 DEF Reads, Waiting
<1>8. Reads(me, born')
  BY <1>1, <1>3, <1>7, StaysTruthful DEF Reads, ServiceInv
<1>9. Waits(me, req')
  BY <1>3, <1>6 DEF Waits
<1>10. me.slot # None => \A q \in Procs : q # p /\ cmd[q] # NoCommand => cmd[q].slot # me.slot
  BY <1>1, <1>3, <1>6 DEF ClientInv, Waits
<1>11. \A q \in Procs : q # p /\ cmd[q] # NoCommand /\ cmd[q].slot # None => Kept(cmd[q].slot)
  BY <1>1, <1>3 DEF ClientInv, Waits, Kept
<1>12. disk' \in Hashes /\ files' \in Hashes \cup {None} /\ Truthful(share', born')
  BY <1>1, <1>2, <1>3, StaysTruthful DEF ClientInv, ServiceInv
<1>13. Become(p, me)
  BY <1>2, <1>4
<1>14. ClientInv'
  BY <1>1, <1>3, <1>8, <1>9, <1>10, <1>11, <1>12, <1>13, ClientStep
<1> QED
  BY <1>3, <1>14 DEF Inv

-----------------------------------------------------------------------------
(* What a command may become.                                               *)
Quiet(me) == me # NoCommand => Reads(me, born) /\ me.slot = None

LEMMA CommandIs ==
    ASSUME Inv, NEW at \in Steps \ (Waiting \cup {"verify", "choose", "confirm", "retry"}),
           NEW todo \in Seq(Kinds) \ {<<>>}, NEW force \in BOOLEAN, NEW own \in Ids \cup {None}
    PROVE  Quiet(Command(at, todo, force, own))
<1>1. PICK me : me = Command(at, todo, force, own)
  OBVIOUS
<1>2. files \in Hashes \cup {None} /\ <<>> \in Seq(Entry)
  BY DEF Inv, ClientInv
<1>3. me \in Commands /\ me.at = at /\ me.mem = <<>> /\ me.slot = None
  BY <1>1, <1>2 DEF Command, Commands
<1>4. Truthful(<<>>, born)
  BY <1>2 DEF Truthful
<1> QED
  BY <1>1, <1>3, <1>4 DEF Quiet, Reads, Waiting

LEMMA FinishIs ==
    ASSUME NEW p \in Procs, Reads(cmd[p], born), NEW mem, Truthful(mem, born), Finish(p, mem)
    PROVE  \E me : Become(p, me) /\ Quiet(me)
<1>1. CASE Len(cmd[p].todo) > 1
  <2>1. PICK now : now = cmd[p]
    OBVIOUS
  <2>2. now \in Commands /\ mem \in Seq(Entry)
    BY <2>1 DEF Reads, Truthful
  <2>3. PICK rest : rest = Tail(now.todo)
    OBVIOUS
  <2>4. rest \in Seq(Kinds) \ {<<>>}
    <3>1. now.todo \in Seq(Kinds) /\ Len(now.todo) > 1
      BY <1>1, <2>1, <2>2 DEF Commands
    <3>2. rest \in Seq(Kinds) /\ Len(rest) = Len(now.todo) - 1
      BY <2>3, <3>1
    <3> QED
      BY <3>1, <3>2
  <2>5. PICK me : me = [now EXCEPT !.at = "load", !.todo = rest, !.mem = mem, !.cand = None,
                                   !.own = None, !.slot = None, !.tries = 0]
    OBVIOUS
  <2>6. me \in Commands /\ me.at = "load" /\ me.mem = mem /\ me.slot = None
    BY <2>2, <2>4, <2>5 DEF Commands, Steps
  <2>7. Become(p, me)
    BY <1>1, <2>1, <2>2, <2>3, <2>5 DEF Finish, Commands
  <2> QED
    BY <2>6, <2>7 DEF Quiet, Reads
<1>2. CASE ~(Len(cmd[p].todo) > 1)
  <2>1. Become(p, NoCommand) /\ Quiet(NoCommand)
    BY <1>2 DEF Finish, Quiet
  <2> QED
    BY <2>1
<1> QED
  BY <1>1, <1>2

LEMMA CandidateIs ==
    ASSUME NEW entries, Truthful(entries, born), NEW e, e # None,
           \/ \E epoch : e = ByEpoch(entries, epoch)
           \/ \E kind, hash : e = ByHash(entries, kind, hash)
    PROVE  e \in Entry /\ Names(e, born)
<1>1. PICK places \in SUBSET (1 .. Len(entries)) : e = Newest(entries, places)
  <2>1. ASSUME NEW epoch, e = ByEpoch(entries, epoch)
        PROVE  \E places \in SUBSET (1 .. Len(entries)) : e = Newest(entries, places)
    <3>1. PICK places : places = {n \in 1 .. Len(entries) : /\ epoch # None
                                         /\ entries[n].kind = "project"
                                         /\ entries[n].epoch = epoch}
      OBVIOUS
    <3> QED
      BY <2>1, <3>1 DEF ByEpoch
  <2>2. ASSUME NEW kind, NEW hash, e = ByHash(entries, kind, hash)
        PROVE  \E places \in SUBSET (1 .. Len(entries)) : e = Newest(entries, places)
    <3>1. PICK places : places = {n \in 1 .. Len(entries) : /\ entries[n].kind = kind
                                                            /\ entries[n].hash = hash}
      OBVIOUS
    <3> QED
      BY <2>2, <3>1 DEF ByHash
  <2> QED
    BY <2>1, <2>2
<1> QED
  BY <1>1, NewestIs

LEMMA WithCandidateIs ==
    ASSUME NEW me \in Commands, Truthful(me.mem, born), me.slot = None, NEW cand,
           cand # None => cand \in Entry /\ Names(cand, born),
           cand = None \/ me.force => me.built \in Hashes
    PROVE  Quiet(WithCandidate(me, cand))
<1>1. PICK at : at = IF cand # None /\ ~me.force THEN "verify" ELSE "confirm"
  OBVIOUS
<1>2. PICK new : new = [me EXCEPT !.cand = cand, !.at = at]
  OBVIOUS
<1>3. /\ new \in Commands /\ new.at = at /\ new.cand = cand /\ new.mem = me.mem
      /\ new.slot = None /\ new.built = me.built
  <2>1. at \in Steps /\ cand \in Entry \cup {None}
    BY <1>1 DEF Steps
  <2> QED
    BY <1>2, <2>1 DEF Commands
<1>4. WithCandidate(me, cand) = new
  BY <1>1, <1>2 DEF WithCandidate
<1>5. Reads(new, born)
  BY <1>1, <1>3 DEF Reads
<1> QED
  BY <1>3, <1>4, <1>5 DEF Quiet

-----------------------------------------------------------------------------
(* The steps of an upload.                                                  *)
Active(p) == cmd[p] # NoCommand /\ Reads(cmd[p], born) /\ Waits(cmd[p], req)

LEMMA ActiveIs ==
    ASSUME Inv, NEW p \in Procs, cmd[p].at \in Steps
    PROVE  /\ Active(p) /\ ServiceInv /\ Truthful(share, born)
           /\ disk \in Hashes /\ files \in Hashes \cup {None}
BY DEF Inv, ClientInv, Active, NoCommand, Steps

LEMMA AnalyseIs ==
    ASSUME Inv, NEW p \in Procs, cmd[p].at \in {"prepare", "build", "rebuild"},
           NEW next \in {"load", "choose", "confirm"}, Analyse(p, next)
    PROVE  Inv'
<1>1. /\ Active(p) /\ Truthful(share, born) /\ disk \in Hashes /\ files \in Hashes \cup {None}
  BY ActiveIs DEF Steps
<1>2. PICK now : now = cmd[p]
  OBVIOUS
<1>3. now \in Commands /\ Reads(now, born) /\ now.slot = None
  BY <1>1, <1>2 DEF Active, Reads, Waits, Waiting
<1>4. PICK me : me = [now EXCEPT !.at = next, !.built = disk]
  OBVIOUS
<1>5. /\ me \in Commands /\ me.at = next /\ me.built \in Hashes /\ me.slot = None
      /\ me.mem = now.mem
  BY <1>1, <1>3, <1>4 DEF Commands, Steps
<1>6. Reads(me, born)
  BY <1>3, <1>5 DEF Reads
<1>7. /\ Become(p, me) /\ UNCHANGED serviceVars /\ disk' = disk
      /\ files' \in Hashes \cup {None} /\ Truthful(share', born)
  BY <1>1, <1>2, <1>4 DEF Analyse, serviceVars
<1> QED
  BY <1>5, <1>6, <1>7, QuietStep

LEMMA LoadIs ==
    ASSUME Inv, NEW p \in Procs, Load(p)
    PROVE  Inv'
<1>1. cmd[p].at = "load"
  BY DEF Load
<1>2. /\ Active(p) /\ Truthful(share, born) /\ disk \in Hashes /\ files \in Hashes \cup {None}
  BY <1>1, ActiveIs DEF Steps
<1>3. PICK now : now = cmd[p]
  OBVIOUS
<1>4. now \in Commands /\ Reads(now, born) /\ now.slot = None
  BY <1>1, <1>2, <1>3 DEF Active, Reads, Waits, Waiting
<1>5. PICK mem : mem = IF now.loaded THEN now.mem ELSE share
  OBVIOUS
<1>6. PICK read : read = [now EXCEPT !.mem = mem, !.loaded = TRUE]
  OBVIOUS
<1>7. PICK early : early = IF Kind(p) = "project" /\ ~now.force THEN ByEpoch(mem, now.base) ELSE None
  OBVIOUS
<1>8. Truthful(mem, born)
  BY <1>2, <1>4, <1>5 DEF Reads
<1>9. /\ read \in Commands /\ read.mem = mem /\ read.slot = None /\ read.force = now.force
      /\ read.built = now.built
  BY <1>4, <1>6, <1>8 DEF Commands, Truthful
<1>10. PICK me : me = IF early # None THEN WithCandidate(read, early)
                      ELSE IF now.built = None THEN [read EXCEPT !.at = "build"]
                      ELSE WithCandidate(read, ByHash(mem, Kind(p), now.built))
  OBVIOUS
<1>11. Become(p, me)
  BY <1>3, <1>5, <1>6, <1>7, <1>10 DEF Load
<1>12. Quiet(me)
  <2>1. CASE early # None
    <3>1. early \in Entry /\ Names(early, born) /\ ~read.force
      BY <1>7, <1>8, <1>9, <2>1, CandidateIs
    <3> QED
      BY <1>8, <1>9, <1>10, <2>1, <3>1, WithCandidateIs
  <2>2. CASE early = None /\ now.built = None
    <3>1. me = [read EXCEPT !.at = "build"]
      BY <1>10, <2>2
    <3>2. me \in Commands /\ me.at = "build" /\ me.mem = mem /\ me.slot = None
      BY <1>9, <3>1 DEF Commands, Steps
    <3> QED
      BY <1>8, <3>2 DEF Quiet, Reads
  <2>3. CASE early = None /\ now.built # None
    <3>1. PICK e : e = ByHash(mem, Kind(p), now.built)
      OBVIOUS
    <3>2. e # None => e \in Entry /\ Names(e, born)
      BY <1>8, <3>1, CandidateIs
    <3>3. read.built \in Hashes
      BY <1>4, <1>9, <2>3 DEF Commands
    <3>4. me = WithCandidate(read, e)
      BY <1>10, <2>3, <3>1
    <3> QED
      BY <1>8, <1>9, <3>2, <3>3, <3>4, WithCandidateIs
  <2> QED
    BY <2>1, <2>2, <2>3
<1>13. /\ UNCHANGED serviceVars /\ disk' = disk
       /\ files' \in Hashes \cup {None} /\ Truthful(share', born)
  BY <1>2 DEF Load, serviceVars
<1> QED
  BY <1>11, <1>12, <1>13, QuietStep DEF Quiet

LEMMA ChooseIs ==
    ASSUME Inv, NEW p \in Procs, Choose(p)
    PROVE  Inv'
<1>1. cmd[p].at = "choose"
  BY DEF Choose
<1>2. /\ Active(p) /\ Truthful(share, born) /\ disk \in Hashes /\ files \in Hashes \cup {None}
  BY <1>1, ActiveIs DEF Steps
<1>3. /\ cmd[p] \in Commands /\ cmd[p].slot = None /\ cmd[p].built \in Hashes
      /\ Truthful(cmd[p].mem, born)
  BY <1>1, <1>2 DEF Active, Reads, Waits, Waiting
<1>4. PICK e : e = ByHash(cmd[p].mem, "project", cmd[p].built)
  OBVIOUS
<1>5. e # None => e \in Entry /\ Names(e, born)
  BY <1>3, <1>4, CandidateIs
<1>6. Quiet(WithCandidate(cmd[p], e))
  BY <1>3, <1>5, WithCandidateIs
<1>7. /\ Become(p, WithCandidate(cmd[p], e)) /\ UNCHANGED serviceVars /\ disk' = disk
      /\ files' \in Hashes \cup {None} /\ Truthful(share', born)
  BY <1>2, <1>4 DEF Choose, serviceVars
<1> QED
  BY <1>6, <1>7, QuietStep DEF Quiet

(* A payload of the upload ends without a change of share.json.             *)
LEMMA QuietFinish ==
    ASSUME Inv, NEW p \in Procs, Active(p), NEW mem, Truthful(mem, born), Finish(p, mem),
           UNCHANGED serviceVars, UNCHANGED <<disk, files, share>>
    PROVE  Inv'
<1>1. PICK me : Become(p, me) /\ Quiet(me)
  BY FinishIs DEF Active
<1>2. disk' = disk /\ files' \in Hashes \cup {None} /\ Truthful(share', born)
  BY DEF Inv, ClientInv
<1> QED
  BY <1>1, <1>2, QuietStep DEF Quiet

(* A payload of the upload ends with an answer.                             *)
LEMMA AnsweredFinish ==
    ASSUME Inv, NEW p \in Procs, Active(p), NEW mem, Truthful(mem, born), Finish(p, mem),
           NEW ans, Answered(p, ans), UNCHANGED <<disk, files>>, Truthful(share', born)
    PROVE  Inv'
<1>1. PICK me : Become(p, me) /\ Quiet(me)
  BY FinishIs DEF Active
<1> QED
  BY <1>1, AnswerStep DEF Quiet, Active

LEMMA VerifyIs ==
    ASSUME Inv, NEW p \in Procs, Verify(p)
    PROVE  Inv'
<1>1. cmd[p].at = "verify"
  BY DEF Verify
<1>2. Active(p)
  BY <1>1, ActiveIs DEF Steps
<1>3. "verifying" \in Waiting /\ "get" \in Ops
  BY DEF Waiting, Ops
<1>4. PICK row, id : Ask(p, "verifying", "get", row, id)
  BY DEF Verify
<1> QED
  BY <1>1, <1>2, <1>3, <1>4, AskStep DEF Active

LEMMA SkipIs ==
    ASSUME Inv, NEW p \in Procs, Skip(p)
    PROVE  Inv'
<1>1. cmd[p].at = "verifying" /\ Answered(p, "ok")
  BY DEF Skip
<1>2. Active(p)
  BY <1>1, ActiveIs DEF Steps
<1>3. Truthful(cmd[p].mem, born) /\ cmd[p].cand \in Entry /\ Names(cmd[p].cand, born)
  BY <1>1, <1>2 DEF Active, Reads
<1>4. PICK mem : mem = WithEntry(cmd[p].mem, cmd[p].cand)
  OBVIOUS
<1>5. Truthful(mem, born)
  BY <1>3, <1>4, WithEntryIs
<1>6. share' = mem /\ Finish(p, mem) /\ UNCHANGED <<disk, files>>
  BY <1>4 DEF Skip
<1> QED
  BY <1>1, <1>2, <1>5, <1>6, AnsweredFinish

LEMMA UnverifiedIs ==
    ASSUME Inv, NEW p \in Procs, Unverified(p)
    PROVE  Inv'
<1>1. cmd[p].at = "verifying"
  BY DEF Unverified
<1>2. Active(p) /\ Truthful(share, born)
  BY <1>1, ActiveIs DEF Steps
<1>3. PICK now : now = cmd[p]
  OBVIOUS
<1>4. now \in Commands /\ Truthful(now.mem, born)
  BY <1>2, <1>3 DEF Active, Reads
<1>5. PICK ans :
        /\ Answered(p, ans)
        /\ LET mem == IF ans = "gone" THEN WithoutId(now.mem, now.cand.id) ELSE now.mem
           IN  /\ share' = IF ans = "gone" THEN mem ELSE share
               /\ Become(p, [now EXCEPT !.mem = mem, !.slot = None, !.tries = 0,
                                !.at = IF now.built = None THEN "rebuild" ELSE "confirm"])
  BY <1>3 DEF Unverified
<1>6. PICK mem : mem = IF ans = "gone" THEN WithoutId(now.mem, now.cand.id) ELSE now.mem
  OBVIOUS
<1>7. Truthful(mem, born)
  BY <1>4, <1>6, WithoutIdIs
<1>8. PICK at : at = IF now.built = None THEN "rebuild" ELSE "confirm"
  OBVIOUS
<1>9. PICK me : me = [now EXCEPT !.mem = mem, !.slot = None, !.tries = 0, !.at = at]
  OBVIOUS
<1>10. /\ me \in Commands /\ me.at = at /\ me.mem = mem /\ me.slot = None
       /\ me.built = now.built
  <2>1. at \in Steps /\ mem \in Seq(Entry)
    BY <1>7, <1>8 DEF Steps, Truthful
  <2> QED
    BY <1>4, <1>9, <2>1 DEF Commands
<1>11. at = "rebuild" \/ (at = "confirm" /\ me.built \in Hashes)
  BY <1>4, <1>8, <1>10 DEF Commands
<1>12. Reads(me, born)
  BY <1>7, <1>10, <1>11 DEF Reads
<1>13. Become(p, me)
  BY <1>5, <1>6, <1>8, <1>9
<1>14. Truthful(share', born)
  BY <1>2, <1>5, <1>6, <1>7
<1>15. UNCHANGED <<disk, files>>
  BY DEF Unverified
<1> QED
  BY <1>2, <1>5, <1>10, <1>12, <1>13, <1>14, <1>15, AnswerStep DEF Active

LEMMA UploadIs ==
    ASSUME Inv, NEW p \in Procs, Upload(p)
    PROVE  Inv'
<1>1. cmd[p].at \in {"confirm", "retry"}
  BY DEF Upload
<1>2. Active(p)
  BY <1>1, ActiveIs DEF Steps
<1>3. cmd[p] \in Commands /\ cmd[p].built \in Hashes
  BY <1>1, <1>2 DEF Active, Reads
<1>4. PICK row : row = [kind |-> Head(cmd[p].todo), hash |-> cmd[p].built]
  OBVIOUS
<1>5. Head(cmd[p].todo) \in Kinds
  BY <1>3 DEF Commands
<1>6. row \in Row
  BY <1>3, <1>4, <1>5 DEF Row
<1>7. PICK id : Ask(p, "uploading", "upload", row, id)
  BY <1>4 DEF Upload, Kind
<1>8. "uploading" \in Waiting /\ "upload" \in Ops
  BY DEF Waiting, Ops
<1> QED
  BY <1>2, <1>3, <1>4, <1>6, <1>7, <1>8, AskStep DEF Active

LEMMA UploadedIs ==
    ASSUME Inv, NEW p \in Procs, Uploaded(p)
    PROVE  Inv'
<1>1. cmd[p].at = "uploading" /\ Answered(p, "ok")
  BY DEF Uploaded
<1>2. Active(p) /\ ServiceInv
  BY <1>1, ActiveIs DEF Steps
<1>3. /\ cmd[p] \in Commands /\ cmd[p].built \in Hashes /\ Truthful(cmd[p].mem, born)
      /\ Head(cmd[p].todo) \in Kinds /\ cmd[p].base \in Hashes \cup {None}
  BY <1>1, <1>2 DEF Active, Reads, Commands
<1>4. PICK q : q = req[cmd[p].slot]
  OBVIOUS
<1>5. /\ cmd[p].slot \in Slots /\ q # Idle
      /\ q.row = [kind |-> Head(cmd[p].todo), hash |-> cmd[p].built]
  BY <1>1, <1>2, <1>4 DEF Active, Waits, Answered
<1>6. Matches(q, born)
  BY <1>2, <1>4, <1>5 DEF ServiceInv
<1>7. PICK e : e = UploadEntry(p, q.id)
  OBVIOUS
<1>8. e \in Entry /\ Names(e, born)
  <2>1. q.id \in 1 .. Len(born) /\ q.id \in Ids /\ born[q.id] = q.row
    BY <1>2, <1>6, RowsAre DEF Matches
  <2>2. /\ e = [kind |-> e.kind, id |-> q.id, hash |-> cmd[p].built, epoch |-> e.epoch]
        /\ e.kind = Head(cmd[p].todo) /\ e.epoch \in Hashes \cup {None}
    BY <1>3, <1>7 DEF UploadEntry, Kind
  <2> QED
    BY <1>3, <1>5, <2>1, <2>2 DEF Entry, Names
<1>9. PICK mem : mem = WithEntry(cmd[p].mem, e)
  OBVIOUS
<1>10. Truthful(mem, born)
  BY <1>3, <1>8, <1>9, WithEntryIs
<1>11. share' = mem /\ Finish(p, mem) /\ UNCHANGED <<disk, files>>
  BY <1>4, <1>7, <1>9 DEF Uploaded
<1> QED
  BY <1>1, <1>2, <1>10, <1>11, AnsweredFinish

(* A command asks again.                                                    *)
LEMMA AgainIs ==
    ASSUME Inv, NEW p \in Procs, Active(p), NEW at \in {"retry", "delete"},
           at = "retry" => cmd[p].built \in Hashes
    PROVE  Quiet([cmd[p] EXCEPT !.at = at, !.slot = None])
<1>1. PICK me : me = [cmd[p] EXCEPT !.at = at, !.slot = None]
  OBVIOUS
<1>2. /\ me \in Commands /\ me.at = at /\ me.slot = None /\ me.mem = cmd[p].mem
      /\ me.built = cmd[p].built
  BY <1>1 DEF Active, Reads, Commands, Steps
<1> QED
  BY <1>1, <1>2 DEF Active, Quiet, Reads

LEMMA UploadFailsIs ==
    ASSUME Inv, NEW p \in Procs, UploadFails(p)
    PROVE  Inv'
<1>1. cmd[p].at = "uploading"
  BY DEF UploadFails
<1>2. Active(p) /\ Truthful(share, born)
  BY <1>1, ActiveIs DEF Steps
<1>3. PICK ans :
        /\ Answered(p, ans)
        /\ \/ Become(p, [cmd[p] EXCEPT !.at = "retry", !.slot = None])
           \/ Finish(p, cmd[p].mem)
  BY DEF UploadFails
<1>4. UNCHANGED <<disk, files>> /\ Truthful(share', born)
  BY <1>2 DEF UploadFails
<1>5. CASE Become(p, [cmd[p] EXCEPT !.at = "retry", !.slot = None])
  <2>1. Quiet([cmd[p] EXCEPT !.at = "retry", !.slot = None])
    BY <1>1, <1>2, AgainIs DEF Active, Reads
  <2> QED
    BY <1>2, <1>3, <1>4, <1>5, <2>1, AnswerStep DEF Active, Quiet
<1>6. CASE Finish(p, cmd[p].mem)
  <2>1. Truthful(cmd[p].mem, born)
    BY <1>2 DEF Active, Reads
  <2> QED
    BY <1>2, <1>3, <1>4, <1>6, <2>1, AnsweredFinish
<1> QED
  BY <1>3, <1>5, <1>6

LEMMA UploadStepIs ==
    ASSUME Inv, NEW p \in Procs, UploadStep(p)
    PROVE  Inv'
<1>1. CASE Prepare(p) \/ Build(p) \/ Rebuild(p)
  BY <1>1, AnalyseIs DEF Prepare, Build, Rebuild
<1>2. CASE AnalysisFails(p)
  <2>1. /\ Become(p, NoCommand) /\ UNCHANGED serviceVars /\ disk' = disk
        /\ files' \in Hashes \cup {None} /\ Truthful(share', born)
    BY <1>2 DEF AnalysisFails, Inv, ClientInv
  <2> QED
    BY <2>1, QuietStep
<1>3. CASE Decline(p)
  <2>1. cmd[p].at = "confirm"
    BY <1>3 DEF Decline
  <2>2. Active(p)
    BY <2>1, ActiveIs DEF Steps
  <2>3. Truthful(cmd[p].mem, born) /\ Finish(p, cmd[p].mem)
    BY <1>3, <2>2 DEF Decline, Active, Reads
  <2>4. UNCHANGED serviceVars /\ UNCHANGED <<disk, files, share>>
    BY <1>3 DEF Decline
  <2> QED
    BY <2>2, <2>3, <2>4, QuietFinish
<1> QED
  BY <1>1, <1>2, <1>3, LoadIs, ChooseIs, VerifyIs, SkipIs, UnverifiedIs, UploadIs, UploadedIs,
     UploadFailsIs DEF UploadStep

-----------------------------------------------------------------------------
(* Commands begin; delete and view.                                         *)
LEMMA StartIs ==
    ASSUME Inv, NEW p \in Procs, NEW me, Quiet(me), Start(p, me)
    PROVE  Inv'
<1>1. /\ Become(p, me) /\ UNCHANGED serviceVars /\ disk' = disk
      /\ files' \in Hashes \cup {None} /\ Truthful(share', born)
  BY DEF Start, Inv, ClientInv
<1> QED
  BY <1>1, QuietStep DEF Quiet

LEMMA BeginIs ==
    ASSUME Inv, NEW p \in Procs, Begin(p)
    PROVE  Inv'
<1>1. ASSUME NEW todo \in Todos, NEW force \in BOOLEAN, StartUpload(p, todo, force)
      PROVE  Inv'
  <2>1. todo \in Seq(Kinds) \ {<<>>}
    <3>1. "project" \in Kinds /\ "report" \in Kinds
      BY DEF Kinds
    <3>2. ASSUME NEW kind \in Kinds PROVE <<kind>> \in Seq(Kinds) \ {<<>>}
      OBVIOUS
    <3>3. CASE todo = <<"project", "report">>
      BY <3>1, <3>3
    <3> QED
      BY <3>1, <3>2, <3>3 DEF Todos
  <2>2. PICK at : at = IF todo = <<"project">> THEN "load" ELSE "prepare"
    OBVIOUS
  <2>3. Quiet(Command(at, todo, force, None))
    BY <2>1, <2>2, CommandIs DEF Steps, Waiting
  <2>4. Start(p, Command(at, todo, force, None))
    BY <1>1, <2>2 DEF StartUpload
  <2> QED
    BY <2>3, <2>4, StartIs
<1>2. ASSUME NEW id \in 1 .. Len(born), NEW at \in {"delete", "view"}
      PROVE  Quiet(Command(at, <<born[id].kind>>, FALSE, id))
  <2>1. ServiceInv
    BY DEF Inv
  <2>2. id \in Ids /\ born[id].kind \in Kinds
    BY <2>1, RowsAre DEF Row
  <2>3. <<born[id].kind>> \in Seq(Kinds) \ {<<>>}
    BY <2>2
  <2>4. at \in Steps \ (Waiting \cup {"verify", "choose", "confirm", "retry"})
    BY DEF Steps, Waiting
  <2> QED
    BY <2>2, <2>3, <2>4, CommandIs
<1>3. ASSUME NEW id \in Ids, NEW localOnly \in BOOLEAN, StartDelete(p, id, localOnly)
      PROVE  Inv'
  <2>1. /\ ServiceInv /\ id \in 1 .. Len(born) /\ UNCHANGED serviceVars /\ disk' = disk
        /\ files' \in Hashes \cup {None} /\ Truthful(share, born)
        /\ share' = WithoutId(share, id)
    BY <1>3 DEF StartDelete, Inv, ClientInv
  <2>2. Truthful(share', born)
    BY <2>1, WithoutIdIs
  <2>3. CASE localOnly
    <3>1. cmd' = cmd
      BY <1>3, <2>3 DEF StartDelete
    <3>2. Become(p, cmd[p]) /\ (cmd[p] = NoCommand)
      BY <1>3, <3>1 DEF StartDelete, Busy, Become, Inv, ClientInv
    <3> QED
      BY <2>1, <2>2, <3>2, QuietStep
  <2>4. CASE ~localOnly
    <3>1. Become(p, Command("delete", <<born[id].kind>>, FALSE, id))
      BY <1>3, <2>4 DEF StartDelete, Become
    <3> QED
      BY <1>2, <2>1, <2>2, <3>1, QuietStep DEF Quiet
  <2> QED
    BY <2>3, <2>4
<1>4. ASSUME NEW id \in Ids, StartView(p, id)
      PROVE  Inv'
  BY <1>2, <1>4, StartIs DEF StartView
<1> QED
  BY <1>1, <1>3, <1>4 DEF Begin

LEMMA AskAboutIs ==
    ASSUME Inv, NEW p \in Procs, Delete(p) \/ View(p)
    PROVE  Inv'
<1>1. Active(p)
  BY ActiveIs DEF Delete, View, Steps
<1>2. PICK row, id : Ask(p, "deleting", "delete", row, id) \/ Ask(p, "viewing", "get", row, id)
  BY DEF Delete, View, AskAbout
<1>3. "deleting" \in Waiting /\ "viewing" \in Waiting /\ "delete" \in Ops /\ "get" \in Ops
  BY DEF Waiting, Ops
<1>4. cmd[p] # NoCommand
  BY <1>1 DEF Active
<1>5. CASE Ask(p, "deleting", "delete", row, id)
  BY <1>3, <1>4, <1>5, AskStep
<1>6. CASE Ask(p, "viewing", "get", row, id)
  BY <1>3, <1>4, <1>6, AskStep
<1> QED
  BY <1>2, <1>5, <1>6

LEMMA DeletedIs ==
    ASSUME Inv, NEW p \in Procs, Deleted(p)
    PROVE  Inv'
<1>1. cmd[p].at = "deleting"
  BY DEF Deleted
<1>2. Active(p) /\ Truthful(share, born)
  BY <1>1, ActiveIs DEF Steps
<1>3. PICK ans :
        /\ Answered(p, ans)
        /\ \/ Become(p, [cmd[p] EXCEPT !.at = "delete", !.slot = None])
           \/ Become(p, NoCommand)
  BY DEF Deleted
<1>4. UNCHANGED <<disk, files>> /\ Truthful(share', born)
  BY <1>2 DEF Deleted
<1>5. Quiet([cmd[p] EXCEPT !.at = "delete", !.slot = None])
  BY <1>2, AgainIs
<1>6. CASE Become(p, [cmd[p] EXCEPT !.at = "delete", !.slot = None])
  BY <1>2, <1>3, <1>4, <1>5, <1>6, AnswerStep DEF Active, Quiet
<1>7. CASE Become(p, NoCommand)
  BY <1>2, <1>3, <1>4, <1>7, AnswerStep DEF Active
<1> QED
  BY <1>3, <1>6, <1>7

LEMMA ViewedIs ==
    ASSUME Inv, NEW p \in Procs, Viewed(p)
    PROVE  Inv'
<1>1. Active(p) /\ Truthful(share, born)
  BY ActiveIs DEF Viewed, Steps
<1>2. PICK ans : /\ Answered(p, ans)
                 /\ share' = IF ans = "gone" THEN WithoutId(share, cmd[p].own) ELSE share
  BY DEF Viewed
<1>3. Truthful(share', born)
  BY <1>1, <1>2, WithoutIdIs
<1>4. Become(p, NoCommand) /\ UNCHANGED <<disk, files>>
  BY DEF Viewed
<1> QED
  BY <1>1, <1>2, <1>3, <1>4, AnswerStep DEF Active

LEMMA CommandStepIs ==
    ASSUME Inv, NEW p \in Procs, CommandStep(p)
    PROVE  Inv'
BY UploadStepIs, AskAboutIs, DeletedIs, ViewedIs DEF CommandStep

-----------------------------------------------------------------------------
(* The steps of others.                                                     *)
LEMMA ProjectIs ==
    ASSUME Inv, Edit \/ OtherAnalysis
    PROVE  Inv'
<1>1. rows' = rows /\ born' = born /\ req' = req /\ share' = share /\ cmd' = cmd
  BY DEF Edit, OtherAnalysis, serviceVars
<1>2. disk' \in Hashes /\ files' \in Hashes \cup {None} /\ ServiceInv /\ ClientInv
  BY DEF Edit, OtherAnalysis, Inv, ClientInv
<1>3. ServiceInv' /\ Grown(born, born')
  BY <1>1, <1>2, RowsAre DEF ServiceInv
<1>4. \A q \in Procs : cmd[q] # NoCommand /\ cmd[q].slot # None => Kept(cmd[q].slot)
  BY <1>1, <1>2 DEF ClientInv, Waits, Kept
<1>5. ClientInv'
  BY <1>1, <1>2, <1>3, <1>4, ServiceStep
<1> QED
  BY <1>3, <1>5 DEF Inv

LEMMA OtherUserIs ==
    ASSUME Inv, OtherUser
    PROVE  Inv'
<1>1. ServiceInv /\ ClientInv /\ Len(born) < MaxIds
  BY DEF Inv, OtherUser
<1>2. PICK row \in Row : /\ born' = Append(born, row)
                         /\ rows' = [rows EXCEPT ![Len(born) + 1] = row]
  BY DEF OtherUser
<1>3. /\ born' \in Seq(Row) /\ Len(born') = Len(born) + 1 /\ Len(born') <= MaxIds
      /\ born'[Len(born) + 1] = row /\ Grown(born, born')
  BY <1>1, <1>2, AppendIs
<1>4. req' = req /\ share' = share /\ cmd' = cmd /\ disk' = disk /\ files' = files
  BY DEF OtherUser
<1>5. rows' \in [Ids -> Row \cup {None}]
  BY <1>1, <1>2 DEF ServiceInv
<1>6. \A i \in Ids : rows'[i] # None => i <= Len(born') /\ rows'[i] = born'[i]
  <2> SUFFICES ASSUME NEW i \in Ids, rows'[i] # None
               PROVE  i <= Len(born') /\ rows'[i] = born'[i]
    OBVIOUS
  <2>1. Len(born) \in Nat /\ rows \in [Ids -> Row \cup {None}]
    BY <1>1, RowsAre DEF ServiceInv
  <2>2. CASE i = Len(born) + 1
    BY <1>2, <1>3, <2>1, <2>2
  <2>3. CASE i # Len(born) + 1
    <3>1. rows'[i] = rows[i]
      BY <1>2, <2>1, <2>3
    <3>2. i \in 1 .. Len(born) /\ rows[i] = born[i]
      BY <1>1, <2>1, <3>1, ShareClientAssumption DEF ServiceInv, Ids
    <3> QED
      BY <1>3, <2>1, <3>1, <3>2 DEF Grown
  <2> QED
    BY <2>2, <2>3
<1>7. \A c \in Slots : req[c] # Idle => Matches(req[c], born')
  <2> SUFFICES ASSUME NEW c \in Slots, req[c] # Idle PROVE Matches(req[c], born')
    OBVIOUS
  <2>1. Matches(req[c], born)
    BY <1>1 DEF ServiceInv
  <2> QED
    BY <1>1, <1>3, <2>1, RowsAre DEF Matches, Grown
<1>8. ServiceInv'
  BY <1>1, <1>3, <1>4, <1>5, <1>6, <1>7 DEF ServiceInv
<1>9. \A q \in Procs : cmd[q] # NoCommand /\ cmd[q].slot # None => Kept(cmd[q].slot)
  BY <1>1, <1>4 DEF ClientInv, Waits, Kept
<1>10. disk' \in Hashes /\ files' \in Hashes \cup {None}
  BY <1>1, <1>4 DEF ClientInv
<1>11. ClientInv'
  BY <1>1, <1>3, <1>4, <1>8, <1>9, <1>10, ServiceStep
<1> QED
  BY <1>8, <1>11 DEF Inv

LEMMA WorkerStepIs ==
    ASSUME Inv, WorkerStep
    PROVE  Inv'
<1>1. /\ ServiceInv /\ ClientInv /\ Grown(born, born)
      /\ share' = share /\ cmd' = cmd /\ disk' = disk /\ files' = files
  BY RowsAre DEF Inv, WorkerStep, clientVars
<1>2. disk' \in Hashes /\ files' \in Hashes \cup {None}
  BY <1>1 DEF ClientInv
<1>3. \A q \in Procs : cmd[q] # NoCommand /\ cmd[q].slot # None
                         => cmd[q].slot \in Slots /\ req[cmd[q].slot] # Idle
  BY <1>1 DEF ClientInv, Waits
<1>4. CASE Vanish \/ \E c \in Slots : Work(c)
  <2>1. ServiceInv' /\ born' = born /\ req' = req
    BY <1>1, <1>4, WorkIs
  <2>2. \A q \in Procs : cmd[q] # NoCommand /\ cmd[q].slot # None => Kept(cmd[q].slot)
    BY <1>3, <2>1 DEF Kept
  <2>3. ClientInv'
    BY <1>1, <1>2, <2>1, <2>2, ServiceStep
  <2> QED
    BY <2>1, <2>3 DEF Inv
<1>5. ASSUME NEW c \in Slots, Answer(c) PROVE Inv'
  <2>1. PICK ans \in Answers, link \in DOMAIN born :
          Reply(c, ans, link) /\ (ans # "ok" => link = req[c].id)
    BY <1>5 DEF Answer
  <2>2. ServiceInv' /\ born' = born /\ \A d \in Slots : req[d] # Idle => Kept(d)
    BY <1>1, <2>1, ReplyIs
  <2>3. \A q \in Procs : cmd[q] # NoCommand /\ cmd[q].slot # None => Kept(cmd[q].slot)
    BY <1>3, <2>2
  <2>4. ClientInv'
    BY <1>1, <1>2, <2>2, <2>3, ServiceStep
  <2> QED
    BY <2>2, <2>4 DEF Inv
<1>6. ASSUME NEW c \in Slots, Orphan(c), Cut(c) PROVE Inv'
  <2>1. req' = [req EXCEPT ![c] = Idle] /\ UNCHANGED <<rows, born>> /\ born' = born
    BY <1>6 DEF Cut
  <2>2. ServiceInv' /\ \A d \in Slots : d # c => req'[d] = req[d]
    BY <1>1, <2>1, CutIs
  <2>3. \A q \in Procs : cmd[q] # NoCommand /\ cmd[q].slot # None => Kept(cmd[q].slot)
    BY <1>3, <1>6, <2>2 DEF Orphan, Busy, Kept
  <2>4. ClientInv'
    BY <1>1, <1>2, <2>1, <2>2, <2>3, ServiceStep
  <2> QED
    BY <2>2, <2>4 DEF Inv
<1> QED
  BY <1>4, <1>5, <1>6 DEF WorkerStep

-----------------------------------------------------------------------------
(* The bounds of a behaviour: only processes of Procs run commands.         *)
Environment == [procs : SUBSET Procs, ids : Ids, commands : Nat, events : Nat]

LEMMA LeftIs ==
    ASSUME left \in Environment, Next
    PROVE  left' \in Environment
<1>1. CASE left' = left
  BY <1>1
<1>2. CASE left.commands > 0 /\ left' = [left EXCEPT !.commands = @ - 1]
  <2>1. left.commands - 1 \in Nat
    BY <1>2 DEF Environment
  <2> QED
    BY <1>2, <2>1 DEF Environment
<1>3. CASE left.events > 0 /\ left' = [left EXCEPT !.events = @ - 1]
  <2>1. left.events - 1 \in Nat
    BY <1>3 DEF Environment
  <2> QED
    BY <1>3, <2>1 DEF Environment
<1>4. ASSUME NEW p, Begin(p) PROVE left.commands > 0 /\ left' = [left EXCEPT !.commands = @ - 1]
  BY <1>4 DEF Begin, StartUpload, StartDelete, StartView, Start
<1>5. ASSUME NEW p, NEW ans, Answered(p, ans)
      PROVE  left' = left \/ (left.events > 0 /\ left' = [left EXCEPT !.events = @ - 1])
  BY <1>5 DEF Answered
<1>6. ASSUME NEW p, CommandStep(p)
      PROVE  left' = left \/ (left.events > 0 /\ left' = [left EXCEPT !.events = @ - 1])
  <2>1. CASE Skip(p) \/ Unverified(p) \/ Uploaded(p) \/ UploadFails(p) \/ Deleted(p) \/ Viewed(p)
    BY <1>5, <2>1 DEF Skip, Unverified, Uploaded, UploadFails, Deleted, Viewed
  <2>2. CASE Verify(p) \/ Upload(p) \/ Delete(p) \/ View(p)
    BY <2>2 DEF Verify, Upload, Delete, View, AskAbout, Ask
  <2>3. CASE \/ Prepare(p) \/ AnalysisFails(p) \/ Load(p) \/ Build(p) \/ Choose(p)
             \/ Rebuild(p) \/ Decline(p)
    BY <2>3 DEF Prepare, AnalysisFails, Load, Build, Choose, Rebuild, Decline, Analyse
  <2> QED
    BY <1>6, <2>1, <2>2, <2>3 DEF CommandStep, UploadStep
<1>7. ASSUME Edit \/ OtherAnalysis \/ OtherUser \/ WorkerStep
      PROVE  left' = left \/ (left.events > 0 /\ left' = [left EXCEPT !.events = @ - 1])
  BY <1>7 DEF Edit, OtherAnalysis, OtherUser, WorkerStep, clientVars
<1> QED
  BY <1>1, <1>2, <1>3, <1>4, <1>6, <1>7 DEF Next

-----------------------------------------------------------------------------
LEMMA InitIs ==
    ASSUME Init
    PROVE  Inv /\ left \in Environment
<1>1. <<>> \in Seq(Entry) /\ <<>> \in Seq(Row) /\ Len(<<>>) = 0
  OBVIOUS
<1>2. ServiceInv
  BY <1>1, ShareClientAssumption DEF Init, ServiceInit, ServiceInv
<1>3. Truthful(<<>>, born)
  BY <1>1 DEF Truthful
<1>4. disk \in Hashes
  BY ShareClientAssumption DEF Init
<1>5. ClientInv
  BY <1>3, <1>4 DEF Init, ClientInv, Apart
<1> QED
  BY <1>2, <1>5, ShareClientAssumption DEF Init, Inv, Environment

LEMMA NextIs ==
    ASSUME Inv, left \in Environment, [Next]_vars
    PROVE  Inv' /\ left' \in Environment
<1>1. CASE Next
  <2>1. \A p \in left.procs : p \in Procs
    BY DEF Environment
  <2> QED
    BY <1>1, <2>1, LeftIs, BeginIs, CommandStepIs, ProjectIs, OtherUserIs, WorkerStepIs DEF Next
<1>2. CASE UNCHANGED vars
  <2>1. /\ rows' = rows /\ born' = born /\ req' = req /\ disk' = disk /\ files' = files
        /\ share' = share /\ cmd' = cmd /\ left' = left
    BY <1>2 DEF vars, serviceVars, clientVars
  <2> QED
    BY <2>1 DEF Inv, ServiceInv, ClientInv, Apart
<1> QED
  BY <1>1, <1>2

(* share.json never says a wrong thing of a link, however the commands of   *)
(* several processes interleave, whatever the worker loses, answers late or *)
(* answers twice, and whatever is edited meanwhile: no entry names an id    *)
(* that was never drawn or another content than the link stands for, and no *)
(* id has two entries (packages/core/src/share/cache/operations.ts).        *)
THEOREM EntriesStayTruthful == Spec => []EntriesTruthful
<1>1. Init => Inv /\ left \in Environment
  BY InitIs
<1>2. Inv /\ left \in Environment /\ [Next]_vars => Inv' /\ (left \in Environment)'
  BY NextIs
<1>3. Inv => EntriesTruthful
  BY DEF Inv, ClientInv, EntriesTruthful, Truthful, Names
<1> QED
  BY <1>1, <1>2, <1>3, PTL DEF Spec
=============================================================================
