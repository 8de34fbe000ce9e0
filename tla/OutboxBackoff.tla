---------------------------- MODULE OutboxBackoff ----------------------------
(***************************************************************************)
(* OutboxRelay with one history variable: how far into its batch each send *)
(* failed.  It is what the delay of a retry is compared with.              *)
(***************************************************************************)
EXTENDS OutboxRelay

VARIABLE failedAt   \* failedAt[e]: elapsed[r] when relay r marked e for retry

InitWithHistory == Init /\ failedAt = [e \in Events |-> 0]

MarkedBy(r, e) == e \in retried'[r] \ retried[r]

NextWithHistory ==
    /\ Next
    /\ failedAt' = [e \in Events |->
                      IF \E r \in Relays : MarkedBy(r, e)
                      THEN elapsed[CHOOSE r \in Relays : MarkedBy(r, e)]
                      ELSE failedAt[e]]

SpecWithHistory == InitWithHistory /\ [][NextWithHistory]_<<vars, failedAt>>

(***************************************************************************)
(* What the README says of a failed send: it is rescheduled with           *)
(* exponential backoff, so that the next attempt waits for the delay of    *)
(* _schedule_retry, counted from the failure.                              *)
(***************************************************************************)
BackoffFromFailure ==
    [][\A r \in Relays : CommitBatch(r) =>
         \A e \in retried[r] : status'[e] = "pending" =>
             dueIn'[e] + (elapsed[r] - failedAt[e]) >= Delay(attempts'[e])]_<<vars, failedAt>>
==============================================================================
