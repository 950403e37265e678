-------------------------- MODULE OrderedDelivery --------------------------
(***************************************************************************)
(* What the ordered translate pool promises its caller, and nothing about  *)
(* how: results are handed to one consumer in item order, one at a time;   *)
(* the promise returned settles once, not while the consumer is busy, and  *)
(* resolves only when the consumer accepted every item.                    *)
(***************************************************************************)
EXTENDS Naturals, Sequences

CONSTANT N                \* number of items

VARIABLES
    delivered,            \* the items handed to the consumer
    busy,                 \* is it working on the last of them?
    refused,              \* has it rejected one?
    status                \* the promise: "pending", "resolved" or "rejected"

vars == <<delivered, busy, refused, status>>

Init ==
    /\ delivered = <<>>
    /\ busy = FALSE
    /\ refused = FALSE
    /\ status = "pending"

HandOver ==
    /\ Len(delivered) < N
    /\ delivered' = Append(delivered, Len(delivered))
    /\ busy' = TRUE

Deliver ==
    /\ status = "pending" /\ ~busy /\ ~refused
    /\ HandOver
    /\ UNCHANGED <<refused, status>>

Accept ==
    /\ busy
    /\ HandOver \/ (busy' = FALSE /\ UNCHANGED delivered)
    /\ UNCHANGED <<refused, status>>

Refuse ==
    /\ busy
    /\ busy' = FALSE
    /\ refused' = TRUE
    /\ UNCHANGED <<delivered, status>>

Resolve ==
    /\ status = "pending" /\ ~busy /\ ~refused
    /\ Len(delivered) = N
    /\ status' = "resolved"
    /\ UNCHANGED <<delivered, busy, refused>>

Reject ==
    /\ status = "pending" /\ ~busy
    /\ status' = "rejected"
    /\ UNCHANGED <<delivered, busy, refused>>

Next == Deliver \/ Accept \/ Refuse \/ Resolve \/ Reject

Spec == Init /\ [][Next]_vars

FairSpec == Spec /\ WF_vars(Next)
=============================================================================
