------------------------- MODULE ServeSession_proofs -------------------------
(* Proofs about ServeSession, for any number of ids, roots and requests.    *)
EXTENDS ServeSession, SequenceTheorems, TLAPS

Requests == [number : Nat, id : Ids, method : Methods, root : Roots \cup {NoRoot}]

(* The chain of requests: those that wait are the newest, in the order of   *)
(* their numbers; each id of theirs leads to its own handle; everything     *)
(* before them is answered, in order.                                       *)
ChainInv ==
  /\ requests \in Nat /\ Len(queue) <= requests
  /\ queue \in Seq(Requests)
  /\ inFlight \in [Ids -> Nat]
  /\ \A k \in DOMAIN queue : queue[k].number = requests - Len(queue) + k
  /\ \A j, k \in DOMAIN queue : queue[j].id = queue[k].id => j = k
  /\ RepliesInOrder
  /\ CancelFindsItsRequest

(* Only an operation of an open session leaves the first stage, and only a  *)
(* write of a session that allows writes reaches the last one.              *)
StageInv ==
  /\ stage \in {"queued", "context", "op"}
  /\ stage # "queued" => queue # <<>> /\ initialized /\ ~shuttingDown
                         /\ (Method = "write" => writes)
  /\ stage = "op" => Method = "write"
  /\ wrote => stage = "op"

IInv == ChainInv /\ StageInv

-----------------------------------------------------------------------------
(* What a step may do to the chain: nothing, append one request, or answer  *)
(* the first one.                                                           *)

LEMMA Arrival ==
    ASSUME ChainInv, NEW i \in Ids, NEW m \in Methods, NEW r \in Roots \cup {NoRoot},
           Request(i, m, r)
    PROVE  ChainInv'
<1> DEFINE new == [number |-> requests + 1, id |-> i, method |-> m, root |-> r]
<1>1. /\ requests' = requests + 1 /\ queue' = Append(queue, new) /\ replies' = replies
      /\ inFlight' = [inFlight EXCEPT ![i] = requests + 1]
      /\ \A k \in DOMAIN queue : queue[k].id # i
  BY DEF Request, Register
<1>2. new \in Requests
  BY DEF Requests, ChainInv
<1>3. /\ requests \in Nat /\ queue \in Seq(Requests) /\ Len(queue) \in Nat
      /\ Len(queue) <= requests
  BY DEF ChainInv
<1>4. /\ queue' \in Seq(Requests) /\ Len(queue') = Len(queue) + 1
      /\ DOMAIN queue' = 1 .. Len(queue) + 1 /\ DOMAIN queue = 1 .. Len(queue)
      /\ queue'[Len(queue) + 1] = new
      /\ \A k \in DOMAIN queue : queue'[k] = queue[k]
  <2> HIDE DEF new
  <2> QED
    BY <1>1, <1>2, <1>3
<1>5. (requests - Len(queue))' = requests - Len(queue)
  BY <1>1, <1>3, <1>4
<1>6. \A k \in DOMAIN queue' : queue'[k].number = requests' - Len(queue') + k
  <2>1. ASSUME NEW k \in DOMAIN queue PROVE queue'[k].number = requests' - Len(queue') + k
    BY <1>4, <1>5 DEF ChainInv
  <2>2. queue'[Len(queue) + 1].number = requests' - Len(queue') + (Len(queue) + 1)
    BY <1>1, <1>3, <1>4
  <2> QED
    BY <2>1, <2>2, <1>3, <1>4
<1>7. \A j, k \in DOMAIN queue' : queue'[j].id = queue'[k].id => j = k
  <2>1. \A k \in DOMAIN queue : queue'[k].id = queue[k].id /\ queue'[k].id # i
    BY <1>1, <1>4
  <2>2. queue'[Len(queue) + 1].id = i
    BY <1>4
  <2> QED
    BY <2>1, <2>2, <1>3, <1>4 DEF ChainInv
<1>8. RepliesInOrder'
  BY <1>1, <1>5 DEF ChainInv, RepliesInOrder
<1>9. inFlight' \in [Ids -> Nat] /\ CancelFindsItsRequest'
  <2>1. inFlight' \in [Ids -> Nat]
    BY <1>1, <1>3 DEF ChainInv
  <2>2. ASSUME NEW k \in DOMAIN queue PROVE inFlight'[queue'[k].id] = queue'[k].number
    <3>1. queue[k] \in Requests /\ queue[k].id # i /\ queue'[k] = queue[k]
      BY <1>1, <1>3, <1>4
    <3> QED
      BY <3>1, <1>1 DEF ChainInv, CancelFindsItsRequest, Requests
  <2>3. inFlight'[queue'[Len(queue) + 1].id] = queue'[Len(queue) + 1].number
    BY <1>1, <1>4 DEF ChainInv
  <2> QED
    BY <2>1, <2>2, <2>3, <1>3, <1>4 DEF CancelFindsItsRequest
<1> QED
  BY <1>1, <1>3, <1>4, <1>6, <1>7, <1>8, <1>9 DEF ChainInv

LEMMA Answer ==
    ASSUME ChainInv, queue # <<>>, NEW kind, Settle(kind), requests' = requests
    PROVE  ChainInv'
<1> DEFINE n == Len(queue)
<1>1. /\ requests \in Nat /\ n \in Nat \ {0} /\ n <= requests
      /\ queue \in Seq(Requests) /\ DOMAIN queue = 1 .. n
      /\ queue[1] \in Requests
  BY DEF ChainInv
<1>2. /\ queue' = Tail(queue) /\ replies' = Append(replies, queue[1].number)
      /\ inFlight' = [inFlight EXCEPT ![queue[1].id] = 0]
  BY DEF Settle, Now, None
<1>3. /\ queue' \in Seq(Requests) /\ Len(queue') = n - 1 /\ DOMAIN queue' = 1 .. n - 1
      /\ \A k \in 1 .. n - 1 : queue'[k] = queue[k + 1]
  BY <1>1, <1>2
<1>4. \A k \in 1 .. n - 1 : k + 1 \in 1 .. n
  BY <1>1
<1>5. \A k \in DOMAIN queue' : queue'[k].number = requests' - Len(queue') + k
  <2>1. ASSUME NEW k \in 1 .. n - 1 PROVE queue[k + 1].number = requests - n + (k + 1)
    BY <1>1, <1>4 DEF ChainInv
  <2> QED
    BY <2>1, <1>1, <1>3
<1>6. \A j, k \in DOMAIN queue' : queue'[j].id = queue'[k].id => j = k
  <2> SUFFICES ASSUME NEW j \in 1 .. n - 1, NEW k \in 1 .. n - 1,
                      queue[j + 1].id = queue[k + 1].id
               PROVE  j = k
    BY <1>3
  <2>1. j + 1 = k + 1
    BY <1>1, <1>4 DEF ChainInv
  <2> QED
    BY <2>1, <1>1
<1>7. RepliesInOrder'
  <2>1. queue[1].number = requests - n + 1 /\ requests - n \in Nat
    BY <1>1 DEF ChainInv
  <2>2. replies = [k \in 1 .. requests - n |-> k]
    BY DEF ChainInv, RepliesInOrder
  <2>3. replies' = [k \in 1 .. requests - n + 1 |-> k]
    <3> DEFINE m == requests - n
    <3>1. m \in Nat /\ replies = [k \in 1 .. m |-> k] /\ replies' = Append(replies, m + 1)
      BY <2>1, <2>2, <1>2
    <3> HIDE DEF m
    <3>2. replies \in Seq(Nat) /\ Len(replies) = m
      BY <3>1
    <3>3. replies' = [k \in 1 .. m + 1 |-> k]
      BY <3>1, <3>2
    <3> QED
      BY <3>3 DEF m
  <2>4. requests' - Len(queue') = requests - n + 1
    BY <1>1, <1>3
  <2> QED
    BY <2>3, <2>4 DEF RepliesInOrder
<1>8. inFlight' \in [Ids -> Nat] /\ CancelFindsItsRequest'
  <2>1. inFlight' \in [Ids -> Nat]
    BY <1>2 DEF ChainInv
  <2>2. ASSUME NEW k \in 1 .. n - 1 PROVE inFlight'[queue[k + 1].id] = queue[k + 1].number
    <3>1. queue[k + 1] \in Requests /\ queue[k + 1].id # queue[1].id
      BY <1>1, <1>4 DEF ChainInv
    <3>2. inFlight[queue[k + 1].id] = queue[k + 1].number
      BY <1>1, <1>4 DEF ChainInv, CancelFindsItsRequest
    <3> QED
      BY <3>1, <3>2, <1>2 DEF ChainInv, Requests
  <2> QED
    BY <2>1, <2>2, <1>3 DEF CancelFindsItsRequest
<1> QED
  BY <1>1, <1>3, <1>5, <1>6, <1>7, <1>8 DEF ChainInv

LEMMA Rest ==
    ASSUME ChainInv, UNCHANGED <<requests, queue, inFlight, replies>>
    PROVE  ChainInv'
BY DEF ChainInv, RepliesInOrder, CancelFindsItsRequest

-----------------------------------------------------------------------------
(* Serving a request answers it or leaves the chain as it is.               *)

Answers == queue # <<>> /\ \E kind \in Kinds : Settle(kind)
Proceeds == UNCHANGED <<queue, inFlight, replies>>

LEMMA BeginEffect == Begin => (\E kind \in Kinds : Settle(kind)) \/ Proceeds
BY DEF Begin, Kinds, GoOn, Proceeds

LEMMA DispatchEffect == Dispatch => requests' = requests /\ (Answers \/ Proceeds)
<1> SUFFICES ASSUME Dispatch PROVE requests' = requests /\ (Answers \/ Proceeds)
  OBVIOUS
<1>1. queue # <<>> /\ requests' = requests
  BY DEF Dispatch
<1>2. CASE Refuse
  BY <1>1, <1>2 DEF Refuse, Answers, Kinds
<1>3. CASE Initialize
  BY <1>1, <1>3 DEF Initialize, Answers, Kinds
<1>4. CASE Shutdown
  BY <1>1, <1>4 DEF Shutdown, Answers, Kinds
<1>5. CASE Ping
  BY <1>1, <1>5 DEF Ping, Answers, Kinds
<1>6. CASE StartOp
  <2>1. Settle("cancelled") \/ GetContext
    BY <1>6 DEF StartOp
  <2>2. GetContext => Begin \/ GoOn("context")
    BY DEF GetContext
  <2> QED
    BY <1>1, <2>1, <2>2, BeginEffect DEF Answers, Kinds, GoOn, Proceeds
<1> QED
  BY <1>2, <1>3, <1>4, <1>5, <1>6 DEF Dispatch

LEMMA ServeEffect ==
    ASSUME StageInv, Serve
    PROVE  requests' = requests /\ (Answers \/ Proceeds)
<1>1. CASE Dispatch
  BY <1>1, DispatchEffect
<1>2. CASE ContextResolves
  <2>1. queue # <<>>
    BY <1>2 DEF ContextResolves, StageInv
  <2> QED
    BY <1>2, <2>1, BeginEffect DEF ContextResolves, Answers
<1>3. CASE ContextRejected
  BY <1>3 DEF ContextRejected, RejectionAnswered, StageInv, Answers, Kinds
<1>4. CASE OpCompletes
  <2>1. queue # <<>> /\ requests' = requests /\ Settle(Outcome)
    BY <1>4 DEF OpCompletes, StageInv
  <2>2. Outcome \in Kinds
    BY DEF Outcome, Kinds
  <2> QED
    BY <2>1, <2>2 DEF Answers
<1>5. CASE OpEndsEarly
  BY <1>5 DEF OpEndsEarly, StageInv, Answers, Kinds
<1> QED
  BY <1>1, <1>2, <1>3, <1>4, <1>5 DEF Serve

LEMMA ChainStep == IInv /\ [Next]_vars => ChainInv'
<1> SUFFICES ASSUME ChainInv, StageInv, [Next]_vars PROVE ChainInv'
  BY DEF IInv
<1>1. ASSUME NEW i \in Ids, NEW m \in Methods, NEW r \in Roots \cup {NoRoot}, Request(i, m, r)
      PROVE  ChainInv'
  BY <1>1, Arrival
<1>2. ASSUME NEW i \in Ids, Cancel(i) PROVE ChainInv'
  BY <1>2, Rest DEF Cancel
<1>3. CASE Finish
  BY <1>3, Rest DEF Finish, chain
<1>4. CASE ProcessExits
  BY <1>4, Rest DEF ProcessExits, chain
<1>5. CASE Serve
  <2>1. requests' = requests /\ (Answers \/ Proceeds)
    BY <1>5, ServeEffect
  <2>2. CASE Answers
    BY <2>1, <2>2, Answer DEF Answers
  <2>3. CASE Proceeds
    BY <2>1, <2>3, Rest DEF Proceeds
  <2> QED
    BY <2>1, <2>2, <2>3
<1>6. CASE OpWrites
  BY <1>6, Rest DEF OpWrites
<1>7. ASSUME NEW r \in Roots, ProjectChanges(r) PROVE ChainInv'
  BY <1>7, Rest DEF ProjectChanges, chain
<1>8. CASE UNCHANGED vars
  BY <1>8, Rest DEF vars, chain
<1> QED
  BY <1>1, <1>2, <1>3, <1>4, <1>5, <1>6, <1>7, <1>8 DEF Next, StdinEndsOrExit, IdleTimeout

-----------------------------------------------------------------------------
(* The stages.                                                              *)

LEMMA Answered == ASSUME NEW kind, Settle(kind) PROVE StageInv'
BY DEF Settle, StageInv

LEMMA BeginStage ==
    ASSUME StageInv, Begin, queue # <<>>, Method \in Ops, UNCHANGED protocol,
           initialized /\ ~shuttingDown, Method = "write" => writes
    PROVE  StageInv'
<1>1. (\E kind \in Kinds : Settle(kind)) \/ (Method = "write" /\ GoOn("op"))
  BY DEF Begin, Kinds
<1>2. CASE GoOn("op") /\ Method = "write"
  BY <1>2 DEF GoOn, StageInv, protocol, Method
<1> QED
  BY <1>1, <1>2, Answered

LEMMA SameStage ==
    ASSUME StageInv, UNCHANGED <<stage, wrote, protocol>>,
           stage # "queued" => queue' # <<>> /\ Method' = Method
    PROVE  StageInv'
BY DEF StageInv, protocol

LEMMA StageStep == IInv /\ [Next]_vars => StageInv'
<1> SUFFICES ASSUME ChainInv, StageInv, [Next]_vars PROVE StageInv'
  BY DEF IInv
<1>1. ASSUME NEW i \in Ids, NEW m \in Methods, NEW r \in Roots \cup {NoRoot}, Request(i, m, r)
      PROVE  StageInv'
  <2>1. \E new : queue' = Append(queue, new)
    BY <1>1 DEF Request
  <2>2. ASSUME queue # <<>> PROVE queue' # <<>> /\ queue'[1] = queue[1]
    <3>1. queue \in Seq(Requests)
      BY DEF ChainInv
    <3> QED
      BY <2>1, <2>2, <3>1
  <2>3. stage # "queued" => queue' # <<>> /\ Method' = Method
    BY <2>2 DEF StageInv, Method
  <2> QED
    BY <1>1, <2>3, SameStage DEF Request, protocol
<1>2. ASSUME NEW i \in Ids, Cancel(i) PROVE StageInv'
  BY <1>2, SameStage DEF Cancel, protocol, Method, StageInv
<1>3. CASE Finish
  BY <1>3, SameStage DEF Finish, chain, protocol, Method, StageInv
<1>4. CASE ProcessExits
  BY <1>4, SameStage DEF ProcessExits, chain, protocol, Method, StageInv
<1>5. CASE Dispatch
  <2>1. (\E kind \in Kinds : Settle(kind)) \/ (StartOp /\ ~Cancelled)
    BY <1>5 DEF Dispatch, Refuse, Initialize, Shutdown, Ping, StartOp, Kinds
  <2>2. CASE StartOp /\ ~Cancelled
    <3>1. /\ GetContext /\ Method \in Ops /\ UNCHANGED protocol /\ queue # <<>>
          /\ initialized /\ ~shuttingDown /\ (Method = "write" => writes)
      BY <1>5, <2>2 DEF Dispatch, StartOp, Refused, Ops
    <3>2. Begin \/ GoOn("context")
      BY <3>1 DEF GetContext
    <3>3. CASE GoOn("context")
      BY <3>1, <3>3, <1>5 DEF GoOn, StageInv, protocol, Method, Dispatch
    <3> QED
      BY <3>1, <3>2, <3>3, BeginStage
  <2> QED
    BY <2>1, <2>2, Answered
<1>6. CASE ContextResolves
  <2>1. /\ Begin /\ UNCHANGED protocol /\ queue # <<>> /\ initialized /\ ~shuttingDown
        /\ (Method = "write" => writes)
    BY <1>6 DEF ContextResolves, StageInv
  <2>2. (\E kind \in Kinds : Settle(kind)) \/ (Method = "write" /\ GoOn("op"))
    BY <2>1 DEF Begin, Kinds
  <2>3. CASE Method = "write"
    BY <2>1, <2>3, BeginStage DEF Ops
  <2> QED
    BY <2>2, <2>3, Answered
<1>7. CASE ContextRejected
  BY <1>7, Answered DEF ContextRejected, RejectionAnswered
<1>8. CASE OpCompletes
  BY <1>8, Answered DEF OpCompletes
<1>9. CASE OpEndsEarly
  BY <1>9, Answered DEF OpEndsEarly
<1>10. CASE OpWrites
  BY <1>10 DEF OpWrites, StageInv, protocol, Method
<1>11. ASSUME NEW r \in Roots, ProjectChanges(r) PROVE StageInv'
  BY <1>11, SameStage DEF ProjectChanges, chain, Method, StageInv
<1>12. CASE UNCHANGED vars
  BY <1>12, SameStage DEF vars, chain, protocol, Method, StageInv
<1> QED
  BY <1>1, <1>2, <1>3, <1>4, <1>5, <1>6, <1>7, <1>8, <1>9, <1>10, <1>11, <1>12
  DEF Next, Serve, StdinEndsOrExit, IdleTimeout

-----------------------------------------------------------------------------
(* The inductive invariant.                                                 *)

LEMMA Start == Init => IInv
<1> SUFFICES ASSUME Init PROVE ChainInv /\ StageInv
  BY DEF IInv
<1>1. queue = <<>> /\ requests = 0 /\ replies = <<>> /\ inFlight = [i \in Ids |-> 0]
  BY DEF Init, None
<1>2. replies = [k \in 1 .. 0 |-> k]
  BY <1>1
<1>3. ChainInv
  BY <1>1, <1>2 DEF ChainInv, RepliesInOrder, CancelFindsItsRequest
<1> QED
  BY <1>3 DEF Init, StageInv

LEMMA Invariance == Spec => []IInv
<1>1. IInv /\ [Next]_vars => IInv'
  BY ChainStep, StageStep DEF IInv
<1> QED
  BY Start, <1>1, PTL DEF Spec

(* In every session the answers come in the order of the requests, one for  *)
(* each, and none is passed over (session.ts, handleInbound).               *)
THEOREM AnsweredInOrder == Spec => []RepliesInOrder
<1>1. IInv => RepliesInOrder
  BY DEF IInv, ChainInv
<1> QED
  BY Invariance, <1>1, PTL

(* As long as a request is unsettled, its id leads to its own abort handle  *)
(* (session.ts, inFlight), provided the client does not reuse an id early.  *)
THEOREM Cancellable == Spec => []CancelFindsItsRequest
<1>1. IInv => CancelFindsItsRequest
  BY DEF IInv, ChainInv
<1> QED
  BY Invariance, <1>1, PTL

(* Only an open session that allows writes ever writes to a project         *)
(* (session.ts, dispatchRequest).                                           *)
THEOREM GuardedWrites == Spec => []WritesOnlyWhileOpen
<1>1. IInv => WritesOnlyWhileOpen
  BY DEF IInv, StageInv, WritesOnlyWhileOpen
<1> QED
  BY Invariance, <1>1, PTL

-----------------------------------------------------------------------------
(* Cancellation, which no invariant is needed for.                          *)

NoBegin == stage # "op" /\ stage' = "op" => ~Cancelled
NoResult == replies' # replies /\ Method \in Ops /\ Cancelled => answer' # "result"

LEMMA BeginHeedsCancel == Begin => NoBegin /\ NoResult
BY DEF Begin, NoBegin, NoResult, Settle, GoOn

LEMMA DispatchHeedsCancel == Dispatch => NoBegin /\ NoResult
<1> SUFFICES ASSUME Dispatch PROVE NoBegin /\ NoResult
  OBVIOUS
<1>1. CASE Refuse
  BY <1>1 DEF Refuse, NoBegin, NoResult, Settle
<1>2. CASE Initialize \/ Shutdown \/ Ping
  BY <1>2 DEF Initialize, Shutdown, Ping, NoBegin, NoResult, Settle, Ops
<1>3. CASE StartOp
  <2>1. Settle("cancelled") \/ Begin \/ GoOn("context")
    BY <1>3 DEF StartOp, GetContext
  <2>2. CASE Settle("cancelled")
    BY <2>2 DEF Settle, NoBegin, NoResult
  <2>3. CASE GoOn("context")
    BY <2>3 DEF GoOn, NoBegin, NoResult
  <2> QED
    BY <2>1, <2>2, <2>3, BeginHeedsCancel
<1> QED
  BY <1>1, <1>2, <1>3 DEF Dispatch

LEMMA CancelStep == [Next]_vars => NoBegin /\ NoResult
<1> SUFFICES ASSUME [Next]_vars PROVE NoBegin /\ NoResult
  OBVIOUS
<1>1. ASSUME UNCHANGED <<stage, replies>> PROVE NoBegin /\ NoResult
  BY <1>1 DEF NoBegin, NoResult
<1>2. ASSUME NEW i \in Ids, NEW m \in Methods, NEW r \in Roots \cup {NoRoot},
             Request(i, m, r)
      PROVE  UNCHANGED <<stage, replies>>
  BY <1>2 DEF Request
<1>3. ASSUME Finish \/ ProcessExits \/ OpWrites \/ UNCHANGED vars
      PROVE  UNCHANGED <<stage, replies>>
  BY <1>3 DEF Finish, ProcessExits, OpWrites, vars, chain
<1>4. ASSUME NEW r \in Roots, ProjectChanges(r) PROVE UNCHANGED <<stage, replies>>
  BY <1>4 DEF ProjectChanges, chain
<1>5. CASE ContextResolves
  BY <1>5, BeginHeedsCancel DEF ContextResolves
<1>6. CASE ContextRejected
  BY <1>6 DEF ContextRejected, RejectionAnswered, Settle, NoBegin, NoResult
<1>7. CASE OpCompletes
  BY <1>7 DEF OpCompletes, Outcome, Settle, NoBegin, NoResult
<1>8. CASE OpEndsEarly
  BY <1>8 DEF OpEndsEarly, Settle, NoBegin, NoResult
<1>9. ASSUME NEW i \in Ids, Cancel(i) PROVE UNCHANGED <<stage, replies>>
  BY <1>9 DEF Cancel
<1> QED
  BY <1>1, <1>2, <1>3, <1>4, <1>5, <1>6, <1>7, <1>8, <1>9, DispatchHeedsCancel
  DEF Next, Serve, StdinEndsOrExit, IdleTimeout

(* A cancelled request never begins its operation, not even when the cancel *)
(* comes while its context is being resolved (ops.ts, runServeOp).          *)
THEOREM CancelIsHeeded == Spec => CancelledNeverBegins
<1>1. [Next]_vars => [NoBegin]_vars
  BY CancelStep
<1> QED
  BY <1>1, PTL DEF Spec, CancelledNeverBegins, NoBegin

(* A cancelled operation is never answered with a result, wherever the      *)
(* cancel found it (ops.ts, the check after the operation).                 *)
THEOREM CancelIsAnError == Spec => NoResultAfterCancel
<1>1. [Next]_vars => [NoResult]_vars
  BY CancelStep
<1> QED
  BY <1>1, PTL DEF Spec, NoResultAfterCancel, NoResult

-----------------------------------------------------------------------------
(* The context cache, as the set of its entries.                            *)

Contexts == [root : Roots, seen : Versions \cup {Pending}]
Entries(s) == {s[k] : k \in DOMAIN s}
OnePerRoot(s) == \A j, k \in DOMAIN s : s[j].root = s[k].root => j = k

LEMMA DeletedIs ==
    ASSUME NEW s \in Seq(Contexts), NEW k \in 1 .. Len(s)
    PROVE  /\ Deleted(s, k) \in Seq(Contexts)
           /\ Len(Deleted(s, k)) = Len(s) - 1
           /\ \A n \in 1 .. Len(s) - 1 :
                  Deleted(s, k)[n] = IF n < k THEN s[n] ELSE s[n + 1]
<1> DEFINE a == SubSeq(s, 1, k - 1)
           b == SubSeq(s, k + 1, Len(s))
           d == a \o b
<1>1. Len(s) \in Nat
  OBVIOUS
<1>2. a \in Seq(Contexts) /\ Len(a) = k - 1 /\ \A n \in 1 .. k - 1 : a[n] = s[n]
  BY <1>1
<1>3. b \in Seq(Contexts) /\ Len(b) = Len(s) - k /\ \A n \in 1 .. Len(s) - k : b[n] = s[k + n]
  BY <1>1
<1>4. Deleted(s, k) = d
  BY DEF Deleted
<1> HIDE DEF a, b
<1>5. /\ d \in Seq(Contexts) /\ Len(d) = Len(a) + Len(b)
      /\ \A n \in 1 .. Len(a) + Len(b) : d[n] = IF n <= Len(a) THEN a[n] ELSE b[n - Len(a)]
  BY <1>2, <1>3, ConcatProperties
<1> HIDE DEF d
<1>6. ASSUME NEW n \in 1 .. Len(s) - 1
      PROVE  d[n] = IF n < k THEN s[n] ELSE s[n + 1]
  <2>1. d[n] = IF n <= k - 1 THEN a[n] ELSE b[n - (k - 1)]
    BY <1>1, <1>2, <1>3, <1>5
  <2>2. CASE n < k
    BY <1>1, <1>2, <2>1, <2>2
  <2>3. CASE ~(n < k)
    <3>1. n - (k - 1) \in 1 .. Len(s) - k
      BY <1>1, <2>3
    <3>2. b[n - (k - 1)] = s[k + (n - (k - 1))] /\ k + (n - (k - 1)) = n + 1
      BY <1>1, <1>3, <3>1
    <3> QED
      BY <1>1, <2>1, <2>3, <3>2
  <2> QED
    BY <2>2, <2>3
<1>7. Len(d) = Len(s) - 1
  BY <1>1, <1>2, <1>3, <1>5
<1> HIDE DEF Deleted
<1> QED
  BY <1>4, <1>5, <1>6, <1>7

LEMMA WithoutIs ==
    ASSUME NEW s \in Seq(Contexts), OnePerRoot(s), NEW r
    PROVE  /\ Without(s, r) \in Seq(Contexts)
           /\ OnePerRoot(Without(s, r))
           /\ Entries(Without(s, r)) = {e \in Entries(s) : e.root # r}
           /\ Len(Without(s, r)) = IF IsWarm(s, r) THEN Len(s) - 1 ELSE Len(s)
<1>1. DOMAIN s = 1 .. Len(s) /\ Len(s) \in Nat
  OBVIOUS
<1>2. CASE ~IsWarm(s, r)
  BY <1>2 DEF Without, IsWarm, Entries
<1>3. CASE IsWarm(s, r)
  <2> DEFINE k == Place(s, r)
             d == Deleted(s, k)
  <2>1. k \in 1 .. Len(s) /\ s[k].root = r
    BY <1>1, <1>3 DEF IsWarm, Place
  <2>2. \A n \in 1 .. Len(s) : s[n].root = r => n = k
    BY <1>1, <2>1 DEF OnePerRoot
  <2> HIDE DEF k
  <2>3. /\ d \in Seq(Contexts) /\ Len(d) = Len(s) - 1
        /\ \A n \in 1 .. Len(s) - 1 : d[n] = IF n < k THEN s[n] ELSE s[n + 1]
    BY <2>1, DeletedIs
  <2> HIDE DEF d
  <2>4. DOMAIN d = 1 .. Len(s) - 1
    BY <2>3
  <2>5. OnePerRoot(d)
    <3> SUFFICES ASSUME NEW i \in 1 .. Len(s) - 1, NEW j \in 1 .. Len(s) - 1,
                        d[i].root = d[j].root
                 PROVE  i = j
      BY <2>4 DEF OnePerRoot
    <3> DEFINE at(n) == IF n < k THEN n ELSE n + 1
    <3>1. /\ at(i) \in 1 .. Len(s) /\ at(j) \in 1 .. Len(s)
          /\ d[i] = s[at(i)] /\ d[j] = s[at(j)]
      BY <1>1, <2>1, <2>3
    <3>2. at(i) = at(j)
      BY <1>1, <3>1 DEF OnePerRoot
    <3> QED
      BY <1>1, <2>1, <3>2
  <2>6. ASSUME NEW e \in Entries(d) PROVE e \in Entries(s) /\ e.root # r
    <3>1. PICK n \in 1 .. Len(s) - 1 : e = d[n]
      BY <2>4, <2>6 DEF Entries
    <3>2. CASE n < k
      BY <1>1, <2>1, <2>2, <2>3, <3>1, <3>2 DEF Entries
    <3>3. CASE ~(n < k)
      <4>1. n + 1 \in 1 .. Len(s) /\ e = s[n + 1] /\ n + 1 # k
        BY <1>1, <2>1, <2>3, <3>1, <3>3
      <4> QED
        BY <1>1, <2>2, <4>1 DEF Entries
    <3> QED
      BY <3>2, <3>3
  <2>7. ASSUME NEW e \in Entries(s), e.root # r PROVE e \in Entries(d)
    <3>1. PICK n \in 1 .. Len(s) : e = s[n]
      BY <1>1, <2>7 DEF Entries
    <3>2. n # k
      BY <2>1, <2>7, <3>1
    <3>3. CASE n < k
      <4>1. n \in 1 .. Len(s) - 1 /\ d[n] = s[n]
        BY <1>1, <2>1, <2>3, <3>3
      <4> QED
        BY <2>4, <3>1, <4>1 DEF Entries
    <3>4. CASE n > k
      <4>1. n - 1 \in 1 .. Len(s) - 1 /\ d[n - 1] = s[n]
        BY <1>1, <2>1, <2>3, <3>4
      <4> QED
        BY <2>4, <3>1, <4>1 DEF Entries
    <3> QED
      BY <1>1, <2>1, <3>2, <3>3, <3>4
  <2>8. Without(s, r) = d
    BY <1>3 DEF Without, d, k
  <2> QED
    BY <1>3, <2>3, <2>5, <2>6, <2>7, <2>8
<1> QED
  BY <1>2, <1>3

LEMMA AppendIs ==
    ASSUME NEW s \in Seq(Contexts), OnePerRoot(s), NEW e \in Contexts,
           \A f \in Entries(s) : f.root # e.root
    PROVE  /\ Append(s, e) \in Seq(Contexts)
           /\ OnePerRoot(Append(s, e))
           /\ Entries(Append(s, e)) = Entries(s) \cup {e}
           /\ Len(Append(s, e)) = Len(s) + 1
           /\ Append(s, e)[Len(s) + 1] = e
<1> DEFINE d == Append(s, e)
<1>1. /\ d \in Seq(Contexts) /\ Len(d) = Len(s) + 1 /\ Len(s) \in Nat
      /\ DOMAIN d = 1 .. Len(s) + 1 /\ DOMAIN s = 1 .. Len(s)
      /\ d[Len(s) + 1] = e /\ \A k \in 1 .. Len(s) : d[k] = s[k]
  OBVIOUS
<1> HIDE DEF d
<1>2. \A k \in 1 .. Len(s) : d[k].root # e.root
  BY <1>1 DEF Entries
<1>3. OnePerRoot(d)
  BY <1>1, <1>2 DEF OnePerRoot
<1>4. Entries(d) = Entries(s) \cup {e}
  <2>1. ASSUME NEW f \in Entries(d) PROVE f \in Entries(s) \cup {e}
    BY <1>1, <2>1 DEF Entries
  <2>2. ASSUME NEW f \in Entries(s) PROVE f \in Entries(d)
    <3>1. PICK k \in 1 .. Len(s) : f = s[k]
      BY <1>1, <2>2 DEF Entries
    <3>2. k \in DOMAIN d /\ d[k] = f
      BY <1>1, <3>1
    <3> QED
      BY <3>2 DEF Entries
  <2>3. e \in Entries(d)
    <3>1. Len(s) + 1 \in DOMAIN d
      BY <1>1
    <3> QED
      BY <1>1, <3>1 DEF Entries
  <2> QED
    BY <2>1, <2>2, <2>3
<1> QED
  BY <1>1, <1>3, <1>4 DEF d

(* The newest entries, from position k + 1 on.                              *)
LEMMA SuffixIs ==
    ASSUME NEW s \in Seq(Contexts), OnePerRoot(s), NEW k \in 0 .. Len(s)
    PROVE  /\ SubSeq(s, k + 1, Len(s)) \in Seq(Contexts)
           /\ OnePerRoot(SubSeq(s, k + 1, Len(s)))
           /\ Entries(SubSeq(s, k + 1, Len(s))) \subseteq Entries(s)
           /\ Len(SubSeq(s, k + 1, Len(s))) = Len(s) - k
           /\ k < Len(s) => s[Len(s)] \in Entries(SubSeq(s, k + 1, Len(s)))
<1> DEFINE d == SubSeq(s, k + 1, Len(s))
<1>1. /\ d \in Seq(Contexts) /\ Len(d) = Len(s) - k /\ Len(s) \in Nat
      /\ DOMAIN d = 1 .. Len(s) - k /\ DOMAIN s = 1 .. Len(s)
      /\ \A n \in 1 .. Len(s) - k : d[n] = s[k + n]
  OBVIOUS
<1> HIDE DEF d
<1>2. \A n \in 1 .. Len(s) - k : k + n \in 1 .. Len(s)
  BY <1>1
<1>3. OnePerRoot(d)
  <2> SUFFICES ASSUME NEW i \in 1 .. Len(s) - k, NEW j \in 1 .. Len(s) - k, d[i].root = d[j].root
               PROVE  i = j
    BY <1>1 DEF OnePerRoot
  <2>1. s[k + i].root = s[k + j].root /\ k + i \in DOMAIN s /\ k + j \in DOMAIN s
    BY <1>1, <1>2
  <2>2. k + i = k + j
    BY <2>1 DEF OnePerRoot
  <2> QED
    BY <1>1, <2>2
<1>4. Entries(d) \subseteq Entries(s)
  BY <1>1, <1>2 DEF Entries
<1>5. ASSUME k < Len(s) PROVE s[Len(s)] \in Entries(d)
  <2>1. Len(s) - k \in DOMAIN d /\ d[Len(s) - k] = s[Len(s)]
    BY <1>1, <1>5
  <2> QED
    BY <2>1 DEF Entries
<1> QED
  BY <1>1, <1>3, <1>4, <1>5 DEF d

LEMMA StoreIs ==
    ASSUME NEW s \in Seq(Contexts), OnePerRoot(s), NEW r \in Roots,
           NEW v \in Versions \cup {Pending}
    PROVE  /\ Store(s, r, v) \in Seq(Contexts)
           /\ OnePerRoot(Store(s, r, v))
           /\ Entries(Store(s, r, v)) =
                  {e \in Entries(s) : e.root # r} \cup {[root |-> r, seen |-> v]}
           /\ Len(Store(s, r, v)) = IF IsWarm(s, r) THEN Len(s) ELSE Len(s) + 1
           /\ Len(Store(s, r, v)) > 0
           /\ Store(s, r, v)[Len(Store(s, r, v))] = [root |-> r, seen |-> v]
<1> DEFINE w == Without(s, r)
           e == [root |-> r, seen |-> v]
<1>1. /\ w \in Seq(Contexts) /\ OnePerRoot(w)
      /\ Entries(w) = {f \in Entries(s) : f.root # r}
      /\ Len(w) = IF IsWarm(s, r) THEN Len(s) - 1 ELSE Len(s)
  BY WithoutIs
<1>2. e \in Contexts /\ e.root = r
  BY DEF Contexts
<1>3. Store(s, r, v) = Append(w, e)
  BY DEF Store
<1> HIDE DEF w, e
<1>4. /\ Append(w, e) \in Seq(Contexts) /\ OnePerRoot(Append(w, e))
      /\ Entries(Append(w, e)) = Entries(w) \cup {e}
      /\ Len(Append(w, e)) = Len(w) + 1 /\ Append(w, e)[Len(w) + 1] = e
  BY <1>1, <1>2, AppendIs
<1>5. Len(w) \in Nat /\ Len(s) \in Nat
  BY <1>1
<1>6. Len(Append(w, e)) = IF IsWarm(s, r) THEN Len(s) ELSE Len(s) + 1
  BY <1>1, <1>4, <1>5
<1> QED
  BY <1>1, <1>3, <1>4, <1>5, <1>6 DEF e

LEMMA TouchIs ==
    ASSUME NEW s \in Seq(Contexts), OnePerRoot(s), NEW r \in Roots, IsWarm(s, r)
    PROVE  /\ Touch(s, r) \in Seq(Contexts)
           /\ OnePerRoot(Touch(s, r))
           /\ Entries(Touch(s, r)) = Entries(s)
           /\ Len(Touch(s, r)) = Len(s)
<1> DEFINE k == Place(s, r)
           w == Without(s, r)
<1>1. k \in DOMAIN s /\ s[k].root = r
  BY DEF IsWarm, Place
<1>2. s[k] \in Contexts /\ s[k] \in Entries(s)
  BY <1>1 DEF Entries
<1>3. \A e \in Entries(s) : e.root = r => e = s[k]
  BY <1>1 DEF OnePerRoot, Entries
<1>4. /\ w \in Seq(Contexts) /\ OnePerRoot(w)
      /\ Entries(w) = {f \in Entries(s) : f.root # r} /\ Len(w) = Len(s) - 1
  BY WithoutIs
<1>5. Touch(s, r) = w \o <<s[k]>>
  BY DEF Touch, Only
<1> HIDE DEF w, k
<1>6. w \o <<s[k]>> = Append(w, s[k])
  BY <1>2, <1>4
<1>7. /\ Append(w, s[k]) \in Seq(Contexts) /\ OnePerRoot(Append(w, s[k]))
      /\ Entries(Append(w, s[k])) = Entries(w) \cup {s[k]}
      /\ Len(Append(w, s[k])) = Len(w) + 1
  <2>1. \A f \in Entries(w) : f.root # s[k].root
    BY <1>1, <1>4
  <2> QED
    BY <1>2, <1>4, <2>1, AppendIs
<1>8. Len(w) + 1 = Len(s)
  BY <1>4
<1> QED
  BY <1>1, <1>2, <1>3, <1>4, <1>5, <1>6, <1>7, <1>8

LEMMA TrimIs ==
    ASSUME NEW s \in Seq(Contexts), OnePerRoot(s), Len(s) > 0
    PROVE  /\ Trim(s) \in Seq(Contexts)
           /\ OnePerRoot(Trim(s))
           /\ Entries(Trim(s)) \subseteq Entries(s)
           /\ Len(Trim(s)) <= MaxRoots
           /\ s[Len(s)] \in Entries(Trim(s))
<1>1. Len(s) \in Nat \ {0} /\ MaxRoots \in Nat \ {0}
  BY MaxRootsAssumption
<1>2. CASE Len(s) > MaxRoots
  <2>1. Len(s) - MaxRoots \in 0 .. Len(s) /\ Len(s) - MaxRoots < Len(s)
        /\ Len(s) - (Len(s) - MaxRoots) = MaxRoots
    BY <1>1, <1>2
  <2>2. Trim(s) = SubSeq(s, Len(s) - MaxRoots + 1, Len(s))
    BY <1>2 DEF Trim
  <2> QED
    BY <1>1, <2>1, <2>2, SuffixIs
<1>3. CASE ~(Len(s) > MaxRoots)
  BY <1>1, <1>3 DEF Trim, Entries
<1> QED
  BY <1>2, <1>3

(* What the cache and the projects say of each other: a context that is     *)
(* being resolved belongs to the request in service, and every context is   *)
(* at least as new as the last write reported of its root.                  *)
Fresh(e) == reported[e.root] <= IF e.seen = Pending THEN since ELSE e.seen

CacheInv ==
  /\ \A k \in DOMAIN queue : queue[k].method \in Ops => queue[k].root \in Roots
  /\ stage # "queued" => Root \in Roots
  /\ disk \in [Roots -> Versions] /\ reported \in [Roots -> Versions] /\ since \in Versions
  /\ \A r \in Roots : reported[r] <= disk[r]
  /\ warm \in Seq(Contexts) /\ OnePerRoot(warm) /\ Len(warm) <= MaxRoots
  /\ \A e \in Entries(warm) : Fresh(e)
  /\ \A e \in Entries(warm) : e.seen = Pending => stage = "context" /\ e.root = Root
  /\ stage = "context" => [root |-> Root, seen |-> Pending] \in Entries(warm)

LEMMA CacheIs == ASSUME CacheInv PROVE CacheSound /\ ContextsSeeOwnWrites
<1>1. \A k \in DOMAIN warm : warm[k] \in Entries(warm)
  BY DEF Entries
<1>2. stage = "context" => IsWarm(warm, Root)
  BY DEF CacheInv, Entries, IsWarm
<1> QED
  BY <1>1, <1>2 DEF CacheInv, CacheSound, ContextsSeeOwnWrites, OnePerRoot, Fresh

LEMMA QueueHead ==
    ASSUME ChainInv, CacheInv, queue # <<>>
    PROVE  /\ Len(queue) \in Nat \ {0} /\ 1 \in DOMAIN queue /\ queue \in Seq(Requests)
           /\ Method \in Ops => Root \in Roots
<1>1. queue \in Seq(Requests) /\ Len(queue) \in Nat \ {0}
  BY DEF ChainInv
<1> QED
  BY <1>1 DEF CacheInv, Method, Root

(* The requests that remain are as they were.                               *)
LEMMA TailOps ==
    ASSUME ChainInv, CacheInv, queue # <<>>
    PROVE  \A k \in DOMAIN Tail(queue) :
               Tail(queue)[k].method \in Ops => Tail(queue)[k].root \in Roots
<1>1. queue \in Seq(Requests) /\ Len(queue) \in Nat \ {0}
  BY QueueHead
<1>2. /\ DOMAIN Tail(queue) = 1 .. Len(queue) - 1 /\ DOMAIN queue = 1 .. Len(queue)
      /\ \A k \in 1 .. Len(queue) - 1 : Tail(queue)[k] = queue[k + 1] /\ k + 1 \in 1 .. Len(queue)
  BY <1>1
<1> QED
  BY <1>2 DEF CacheInv

(* A cache in which nothing is being resolved.                              *)
Settled ==
  /\ warm \in Seq(Contexts) /\ OnePerRoot(warm) /\ Len(warm) <= MaxRoots
  /\ \A e \in Entries(warm) : e.seen # Pending /\ reported[e.root] <= e.seen

LEMMA NotResolving == ASSUME CacheInv, stage # "context" PROVE Settled
BY DEF CacheInv, Settled, Fresh

Projects ==
  /\ disk \in [Roots -> Versions] /\ reported \in [Roots -> Versions] /\ since \in Versions
  /\ \A r \in Roots : reported[r] <= disk[r]

(* Answering the first request, or beginning its operation.                 *)
LEMMA AfterAnswer ==
    ASSUME ChainInv, CacheInv, queue # <<>>, NEW kind, Settle(kind), Settled', Projects'
    PROVE  CacheInv'
<1>1. queue' = Tail(queue) /\ stage' = "queued"
  BY DEF Settle
<1>2. \A k \in DOMAIN queue' : queue'[k].method \in Ops => queue'[k].root \in Roots
  BY <1>1, TailOps
<1> QED
  BY <1>1, <1>2 DEF CacheInv, Settled, Projects, Fresh

LEMMA AfterBegin ==
    ASSUME ChainInv, CacheInv, queue # <<>>, Begin, Method \in Ops, Settled', Projects'
    PROVE  CacheInv'
<1>1. (\E kind \in Kinds : Settle(kind)) \/ GoOn("op")
  BY DEF Begin, Kinds
<1>2. CASE GoOn("op")
  <2>1. queue' = queue /\ stage' = "op" /\ Root \in Roots
    BY <1>2, QueueHead DEF GoOn
  <2>2. Root' = Root
    BY <2>1 DEF Root
  <2> QED
    BY <2>1, <2>2 DEF CacheInv, Settled, Projects, Fresh
<1> QED
  BY <1>1, <1>2, AfterAnswer

LEMMA UnexpiredIs ==
    ASSUME Settled, NEW k \in 0 .. Len(warm)
    PROVE  /\ Unexpired(k) \in Seq(Contexts) /\ OnePerRoot(Unexpired(k))
           /\ Entries(Unexpired(k)) \subseteq Entries(warm)
           /\ Len(Unexpired(k)) <= Len(warm) /\ Len(warm) \in Nat /\ Len(Unexpired(k)) \in Nat
<1>1. warm \in Seq(Contexts) /\ OnePerRoot(warm) /\ Len(warm) \in Nat
  BY DEF Settled
<1>2. /\ SubSeq(warm, k + 1, Len(warm)) \in Seq(Contexts)
      /\ OnePerRoot(SubSeq(warm, k + 1, Len(warm)))
      /\ Entries(SubSeq(warm, k + 1, Len(warm))) \subseteq Entries(warm)
      /\ Len(SubSeq(warm, k + 1, Len(warm))) = Len(warm) - k
  BY <1>1, SuffixIs
<1> QED
  BY <1>1, <1>2 DEF Unexpired

(* An unresolved context is stored and the cache trimmed.                   *)
LEMMA ResolutionStarts ==
    ASSUME CacheInv, Settled, NEW s \in Seq(Contexts), OnePerRoot(s),
           Entries(s) \subseteq Entries(warm), Root \in Roots,
           warm' = Trim(Store(s, Root, Pending)), since' = disk[Root], stage' = "context",
           UNCHANGED <<queue, disk, reported>>
    PROVE  CacheInv'
<1> DEFINE new == [root |-> Root, seen |-> Pending]
           w == Store(s, Root, Pending)
<1>1. /\ w \in Seq(Contexts) /\ OnePerRoot(w) /\ Len(w) > 0 /\ w[Len(w)] = new
      /\ Entries(w) = {e \in Entries(s) : e.root # Root} \cup {new}
  BY StoreIs
<1> HIDE DEF w
<1>2. /\ warm' \in Seq(Contexts) /\ OnePerRoot(warm') /\ Entries(warm') \subseteq Entries(w)
      /\ Len(warm') <= MaxRoots /\ new \in Entries(warm')
  BY <1>1, TrimIs DEF w
<1>3. Root' = Root
  BY DEF Root
<1>4. disk[Root] \in Versions /\ reported[Root] <= disk[Root]
  BY DEF CacheInv
<1>5. ASSUME NEW e \in Entries(warm')
      PROVE  Fresh(e)' /\ (e.seen = Pending => e.root = Root)
  <2>1. CASE e = new
    BY <1>4, <2>1 DEF Fresh
  <2>2. CASE e \in Entries(warm)
    BY <2>2 DEF Settled, Fresh
  <2> QED
    BY <1>1, <1>2, <2>1, <2>2
<1> QED
  BY <1>2, <1>3, <1>4, <1>5 DEF CacheInv

LEMMA OpContext ==
    ASSUME ChainInv, CacheInv, stage = "queued", queue # <<>>, Method \in Ops, GetContext,
           UNCHANGED effects
    PROVE  CacheInv'
<1>1. Settled /\ Root \in Roots /\ Projects
  BY NotResolving, QueueHead DEF CacheInv, Projects
<1>2. PICK k \in 0 .. Len(warm) :
         \/ /\ IsWarm(Unexpired(k), Root)
            /\ warm' = Touch(Unexpired(k), Root) /\ UNCHANGED since
            /\ Begin
         \/ /\ ~IsWarm(Unexpired(k), Root)
            /\ warm' = Trim(Store(Unexpired(k), Root, Pending)) /\ since' = disk[Root]
            /\ GoOn("context")
  BY DEF GetContext
<1>3. /\ Unexpired(k) \in Seq(Contexts) /\ OnePerRoot(Unexpired(k))
      /\ Entries(Unexpired(k)) \subseteq Entries(warm)
      /\ Len(Unexpired(k)) <= Len(warm) /\ Len(warm) \in Nat /\ Len(Unexpired(k)) \in Nat
  BY <1>1, UnexpiredIs
<1>4. CASE IsWarm(Unexpired(k), Root) /\ warm' = Touch(Unexpired(k), Root) /\ UNCHANGED since /\ Begin
  <2>1. /\ warm' \in Seq(Contexts) /\ OnePerRoot(warm') /\ Entries(warm') = Entries(Unexpired(k))
        /\ Len(warm') = Len(Unexpired(k))
    BY <1>1, <1>3, <1>4, TouchIs
  <2>2. Len(warm') <= MaxRoots
    BY <1>1, <1>3, <2>1, MaxRootsAssumption DEF Settled
  <2>3. Settled'
    BY <1>1, <1>3, <2>1, <2>2 DEF Settled, effects
  <2>4. Projects'
    BY <1>1, <1>4 DEF Projects, effects
  <2> QED
    BY <1>4, <2>3, <2>4, AfterBegin
<1>5. CASE warm' = Trim(Store(Unexpired(k), Root, Pending)) /\ since' = disk[Root] /\ GoOn("context")
  BY <1>1, <1>3, <1>5, ResolutionStarts DEF GoOn, effects
<1> QED
  BY <1>2, <1>4, <1>5

LEMMA DispatchCache ==
    ASSUME ChainInv, StageInv, CacheInv, Dispatch PROVE CacheInv'
<1>1. queue # <<>> /\ stage = "queued" /\ UNCHANGED effects
  BY DEF Dispatch
<1>2. Settled /\ Projects
  BY <1>1, NotResolving DEF CacheInv, Projects
<1>3. CASE StartOp /\ ~Cancelled
  <2>1. GetContext /\ Method \in Ops
    BY <1>3 DEF StartOp
  <2> QED
    BY <1>1, <2>1, OpContext
<1>4. CASE UNCHANGED cache /\ \E kind \in Kinds : Settle(kind)
  <2>1. Settled' /\ Projects'
    BY <1>1, <1>2, <1>4 DEF Settled, Projects, cache, effects
  <2> QED
    BY <1>1, <1>4, <2>1, AfterAnswer
<1>5. (StartOp /\ ~Cancelled) \/ (UNCHANGED cache /\ \E kind \in Kinds : Settle(kind))
  BY DEF Dispatch, Refuse, Initialize, Shutdown, Ping, StartOp, Kinds
<1> QED
  BY <1>3, <1>4, <1>5

(* The resolution ends: its context is the only one that is not settled.    *)
LEMMA ResolvesCache ==
    ASSUME ChainInv, StageInv, CacheInv, ContextResolves PROVE CacheInv'
<1>1. /\ stage = "context" /\ queue # <<>> /\ since' = 0 /\ Begin /\ UNCHANGED effects
      /\ Root \in Roots
  BY DEF ContextResolves, StageInv, CacheInv
<1>2. PICK v \in since .. disk[Root] : warm' = Store(warm, Root, v)
  BY DEF ContextResolves
<1>3. /\ warm \in Seq(Contexts) /\ OnePerRoot(warm) /\ Len(warm) <= MaxRoots
      /\ disk \in [Roots -> Versions] /\ since \in Versions /\ reported \in [Roots -> Versions]
      /\ [root |-> Root, seen |-> Pending] \in Entries(warm)
  BY <1>1 DEF CacheInv
<1>4. reported[Root] <= since
  BY <1>3 DEF CacheInv, Fresh
<1>5. v \in Versions /\ v # Pending /\ reported[Root] <= v
  <2>1. disk[Root] \in 0 .. MaxVersion /\ since \in 0 .. MaxVersion /\ reported[Root] \in 0 .. MaxVersion
    BY <1>1, <1>3 DEF Versions
  <2> QED
    BY <1>2, <1>4, <2>1, BoundsAssumption DEF Versions, Pending
<1>6. IsWarm(warm, Root)
  BY <1>3 DEF Entries, IsWarm
<1>7. /\ warm' \in Seq(Contexts) /\ OnePerRoot(warm')
      /\ Entries(warm') = {e \in Entries(warm) : e.root # Root} \cup {[root |-> Root, seen |-> v]}
      /\ Len(warm') = Len(warm)
  BY <1>1, <1>2, <1>3, <1>5, <1>6, StoreIs
<1>8. ASSUME NEW e \in Entries(warm') PROVE e.seen # Pending /\ reported'[e.root] <= e.seen
  <2>1. CASE e = [root |-> Root, seen |-> v]
    BY <1>1, <1>5, <2>1 DEF effects
  <2>2. CASE e \in Entries(warm) /\ e.root # Root
    BY <1>1, <2>2 DEF CacheInv, Fresh, effects
  <2> QED
    BY <1>7, <2>1, <2>2
<1>9. Settled' /\ Projects'
  <2>1. 0 \in Versions
    BY BoundsAssumption DEF Versions
  <2> QED
    BY <1>1, <1>3, <1>7, <1>8, <2>1 DEF Settled, Projects, CacheInv, effects
<1>10. CASE Method \in Ops
  BY <1>1, <1>9, <1>10, AfterBegin
<1>11. CASE Method \notin Ops
  <2>1. \E kind \in Kinds : Settle(kind)
    BY <1>1, <1>11 DEF Begin, Kinds, Ops
  <2> QED
    BY <1>1, <1>9, <2>1, AfterAnswer
<1> QED
  BY <1>10, <1>11

(* Dropping the context of the root in service leaves only settled ones.    *)
LEMMA InvalidateIs ==
    ASSUME CacheInv, Invalidate(Root)
    PROVE  /\ warm' \in Seq(Contexts) /\ OnePerRoot(warm') /\ Len(warm') <= MaxRoots
           /\ \A e \in Entries(warm') :
                  e \in Entries(warm) /\ e.root # Root /\ e.seen # Pending /\ Fresh(e)
<1>1. warm \in Seq(Contexts) /\ OnePerRoot(warm) /\ Len(warm) <= MaxRoots
  BY DEF CacheInv
<1>2. /\ warm' \in Seq(Contexts) /\ OnePerRoot(warm')
      /\ Entries(warm') = {e \in Entries(warm) : e.root # Root}
      /\ Len(warm') = IF IsWarm(warm, Root) THEN Len(warm) - 1 ELSE Len(warm)
  BY <1>1, WithoutIs DEF Invalidate
<1>3. Len(warm') <= MaxRoots
  BY <1>1, <1>2, MaxRootsAssumption
<1> QED
  BY <1>2, <1>3 DEF CacheInv

LEMMA RejectedCache ==
    ASSUME ChainInv, StageInv, CacheInv, ContextRejected PROVE CacheInv'
<1>1. /\ queue # <<>> /\ since' = 0 /\ UNCHANGED effects /\ Invalidate(Root) /\ Settle("failed")
  BY DEF ContextRejected, RejectionAnswered, StageInv
<1>2. Settled' /\ Projects'
  <2>1. 0 \in Versions
    BY BoundsAssumption DEF Versions
  <2> QED
    BY <1>1, <2>1, InvalidateIs DEF Settled, Projects, CacheInv, Fresh, effects
<1> QED
  BY <1>1, <1>2, AfterAnswer

LEMMA CompletesCache ==
    ASSUME ChainInv, StageInv, CacheInv, OpCompletes PROVE CacheInv'
<1>1. /\ queue # <<>> /\ stage = "op" /\ UNCHANGED <<since, disk>> /\ Settle(Outcome)
      /\ Root \in Roots
  BY DEF OpCompletes, StageInv, CacheInv
<1>2. CASE wrote
  <2>1. Invalidate(Root) /\ reported' = [reported EXCEPT ![Root] = disk[Root]]
    BY <1>2 DEF OpCompletes
  <2>2. Settled'
    <3>1. \A e \in Entries(warm') : reported'[e.root] <= e.seen /\ e.seen # Pending
      BY <2>1, InvalidateIs DEF Fresh
    <3> QED
      BY <2>1, <3>1, InvalidateIs DEF Settled
  <2>3. Projects'
    <3>1. disk \in [Roots -> Versions] /\ reported \in [Roots -> Versions] /\ since \in Versions
          /\ \A r \in Roots : reported[r] <= disk[r]
      BY DEF CacheInv
    <3>2. reported' \in [Roots -> Versions] /\ disk' = disk /\ since' = since
      BY <1>1, <2>1, <3>1
    <3>3. ASSUME NEW r \in Roots PROVE reported'[r] <= disk'[r]
      <4>1. disk[r] \in Nat
        BY <3>1 DEF Versions
      <4> QED
        BY <1>1, <2>1, <3>1, <4>1
    <3> QED
      BY <3>1, <3>2, <3>3 DEF Projects
  <2> QED
    BY <1>1, <2>2, <2>3, AfterAnswer
<1>3. CASE ~wrote
  <2>1. UNCHANGED <<warm, reported>>
    BY <1>3 DEF OpCompletes
  <2>2. Settled' /\ Projects'
    BY <1>1, <2>1, NotResolving DEF Settled, Projects, CacheInv
  <2> QED
    BY <1>1, <2>2, AfterAnswer
<1> QED
  BY <1>2, <1>3

LEMMA EndsEarlyCache ==
    ASSUME ChainInv, StageInv, CacheInv, OpEndsEarly PROVE CacheInv'
<1>1. /\ queue # <<>> /\ stage = "op" /\ UNCHANGED cache /\ UNCHANGED effects
      /\ \E kind \in Kinds : Settle(kind)
  BY DEF OpEndsEarly, StageInv, Kinds
<1>2. Settled' /\ Projects'
  BY <1>1, NotResolving DEF Settled, Projects, CacheInv, cache, effects
<1> QED
  BY <1>1, <1>2, AfterAnswer

(* A project changes on disk, by an operation or beside the server.         *)
LEMMA ChangeCache ==
    ASSUME CacheInv, NEW r \in Roots, disk[r] < MaxVersion,
           disk' = [disk EXCEPT ![r] = @ + 1],
           UNCHANGED <<queue, stage, warm, since, reported>>
    PROVE  CacheInv'
<1>1. disk \in [Roots -> Versions] /\ reported \in [Roots -> Versions]
  BY DEF CacheInv
<1>2. disk' \in [Roots -> Versions]
  BY <1>1, BoundsAssumption DEF Versions
<1>3. ASSUME NEW x \in Roots PROVE reported[x] <= disk'[x]
  <2>1. disk[x] \in Nat /\ reported[x] \in Nat /\ reported[x] <= disk[x]
    BY <1>1 DEF Versions, CacheInv
  <2>2. disk'[x] = disk[x] \/ disk'[x] = disk[x] + 1
    BY <1>1
  <2> QED
    BY <2>1, <2>2
<1>4. Root' = Root
  BY DEF Root
<1> QED
  BY <1>2, <1>3, <1>4 DEF CacheInv, Fresh

LEMMA SameCache ==
    ASSUME CacheInv, UNCHANGED <<queue, stage, warm, since, disk, reported>>
    PROVE  CacheInv'
<1>1. Root' = Root
  BY DEF Root
<1> QED
  BY <1>1 DEF CacheInv, Fresh

LEMMA ArrivalCache ==
    ASSUME ChainInv, StageInv, CacheInv, NEW i \in Ids, NEW m \in Methods,
           NEW r \in Roots \cup {NoRoot}, Request(i, m, r)
    PROVE  CacheInv'
<1> DEFINE new == [number |-> requests + 1, id |-> i, method |-> m, root |-> r]
<1>1. /\ queue' = Append(queue, new) /\ (m \in Ops => r \in Roots)
      /\ UNCHANGED <<stage, warm, since, disk, reported>>
  BY DEF Request, cache, effects
<1>2. queue \in Seq(Requests) /\ Len(queue) \in Nat
  BY DEF ChainInv
<1>3. new.method = m /\ new.root = r
  OBVIOUS
<1> HIDE DEF new
<1>4. /\ DOMAIN queue' = 1 .. Len(queue) + 1 /\ DOMAIN queue = 1 .. Len(queue)
      /\ queue'[Len(queue) + 1] = new /\ \A k \in DOMAIN queue : queue'[k] = queue[k]
  BY <1>1, <1>2
<1>5. ASSUME NEW k \in DOMAIN queue', queue'[k].method \in Ops PROVE queue'[k].root \in Roots
  <2>1. CASE k \in DOMAIN queue
    BY <1>4, <1>5, <2>1 DEF CacheInv
  <2>2. CASE k = Len(queue) + 1
    BY <1>1, <1>3, <1>4, <1>5, <2>2
  <2> QED
    BY <1>2, <1>4, <2>1, <2>2
<1>6. stage # "queued" => Root' = Root
  <2>1. ASSUME stage # "queued" PROVE 1 \in DOMAIN queue
    BY <1>2, <1>4, <2>1 DEF StageInv
  <2> QED
    BY <1>4, <2>1 DEF Root
<1> QED
  BY <1>1, <1>5, <1>6 DEF CacheInv, Fresh

LEMMA CacheStep == IInv /\ CacheInv /\ [Next]_vars => CacheInv'
<1> SUFFICES ASSUME ChainInv, StageInv, CacheInv, [Next]_vars PROVE CacheInv'
  BY DEF IInv
<1>1. ASSUME NEW i \in Ids, NEW m \in Methods, NEW r \in Roots \cup {NoRoot}, Request(i, m, r)
      PROVE  CacheInv'
  BY <1>1, ArrivalCache
<1>2. ASSUME NEW i \in Ids, Cancel(i) PROVE CacheInv'
  BY <1>2, SameCache DEF Cancel, cache, effects
<1>3. CASE Finish \/ ProcessExits \/ UNCHANGED vars
  BY <1>3, SameCache DEF Finish, ProcessExits, chain, cache, effects, vars
<1>4. CASE Dispatch
  BY <1>4, DispatchCache
<1>5. CASE ContextResolves
  BY <1>5, ResolvesCache
<1>6. CASE ContextRejected
  BY <1>6, RejectedCache
<1>7. CASE OpCompletes
  BY <1>7, CompletesCache
<1>8. CASE OpEndsEarly
  BY <1>8, EndsEarlyCache
<1>9. CASE OpWrites
  <2>1. Root \in Roots
    BY <1>9 DEF OpWrites, CacheInv
  <2> QED
    BY <1>9, <2>1, ChangeCache DEF OpWrites, cache
<1>10. ASSUME NEW r \in Roots, ProjectChanges(r) PROVE CacheInv'
  BY <1>10, ChangeCache DEF ProjectChanges, chain, cache
<1> QED
  BY <1>1, <1>2, <1>3, <1>4, <1>5, <1>6, <1>7, <1>8, <1>9, <1>10
  DEF Next, Serve, StdinEndsOrExit, IdleTimeout

LEMMA CacheStart == Init => CacheInv
<1> SUFFICES ASSUME Init PROVE CacheInv
  OBVIOUS
<1>1. queue = <<>> /\ warm = <<>> /\ stage = "queued" /\ since = 0
  BY DEF Init
<1>2. Entries(warm) = {} /\ OnePerRoot(warm) /\ Len(warm) = 0 /\ warm \in Seq(Contexts)
  BY <1>1 DEF Entries, OnePerRoot
<1>3. 0 \in Versions /\ 0 <= MaxRoots
  BY BoundsAssumption, MaxRootsAssumption DEF Versions
<1>4. disk \in [Roots -> Versions] /\ reported \in [Roots -> Versions]
      /\ \A r \in Roots : reported[r] <= disk[r]
  BY <1>3 DEF Init
<1> QED
  BY <1>1, <1>2, <1>3, <1>4 DEF CacheInv

LEMMA CacheInvariance == Spec => [](IInv /\ CacheInv)
<1>1. (IInv /\ CacheInv) /\ [Next]_vars => (IInv /\ CacheInv)'
  BY ChainStep, StageStep, CacheStep DEF IInv
<1>2. Init => IInv /\ CacheInv
  BY Start, CacheStart
<1> QED
  BY <1>1, <1>2, PTL DEF Spec

(* The cache is bounded, has one context per root, and never hands a        *)
(* rejected or unresolved one to a later request, for any bound and any     *)
(* number of roots (rootContextCache.ts).                                   *)
THEOREM CacheIsSound == Spec => []CacheSound
<1>1. CacheInv => CacheSound
  BY CacheIs
<1> QED
  BY CacheInvariance, <1>1, PTL

(* After a write of the session, no operation runs on an older context of   *)
(* that project (ops.ts, onMutation; rootContextCache.ts, invalidate).      *)
THEOREM OwnWritesAreSeen == Spec => []ContextsSeeOwnWrites
<1>1. CacheInv => ContextsSeeOwnWrites
  BY CacheIs
<1> QED
  BY CacheInvariance, <1>1, PTL
=============================================================================
