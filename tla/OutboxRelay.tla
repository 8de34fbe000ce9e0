----------------------------- MODULE OutboxRelay -----------------------------
(***************************************************************************)
(* The transactional outbox of the school service: business transactions   *)
(* insert a row of outbox_events, and one background relay per running     *)
(* instance (OutboxRelay in app/broker/outbox_relay.py) claims pending     *)
(* rows in batches, sends each to Kafka and marks it, all in one database  *)
(* transaction that commits when the batch is over.                        *)
(*                                                                         *)
(* Time is relative: the model keeps, for each row, the time left until    *)
(* available_at and the time since published_at, and for each relay the    *)
(* time since it read `now' at the start of its batch.                     *)
(***************************************************************************)
EXTENDS Integers, FiniteSets

CONSTANTS
    Events,         \* the domain events that business changes may record
    Aggregates,     \* the entities they are about (the Kafka message keys)
    AggregateOf,    \* the aggregate of each event
    Relays,         \* the instances of the service, each with its relay task
    BatchSize,      \* settings.outbox.batch_size
    MaxAttempts,    \* settings.outbox.max_attempts
    RetryBase,      \* settings.outbox.retry_base_seconds, in ticks
    RetryMax,       \* settings.outbox.retry_max_seconds, in ticks
    Retention,      \* settings.outbox.published_retention_hours, in ticks
    MaxFailures,    \* bound: crashes, cancellations and database errors
    MaxStops        \* bound: orderly shutdowns

ASSUME EventsAssumption == IsFiniteSet(Events)
ASSUME AggregatesAssumption == AggregateOf \in [Events -> Aggregates]
ASSUME SettingsAssumption ==
    /\ BatchSize \in Nat \ {0}
    /\ MaxAttempts \in Nat \ {0}
    /\ RetryBase \in Nat \ {0}
    /\ RetryMax \in Nat
    /\ RetryMax >= RetryBase
    /\ Retention \in Nat \ {0}
ASSUME BoundsAssumption == MaxFailures \in Nat /\ MaxStops \in Nat

VARIABLES
    status,     \* status[e]: the row of e in outbox_events, see Statuses
    createdAt,  \* createdAt[e]: its created_at, as a rank
    attempts,   \* attempts[e]: its attempts column
    dueIn,      \* dueIn[e]: ticks until available_at, 0 when it has passed
    age,        \* age[e]: ticks since published_at, up to Retention + 1
    mode,       \* mode[r]: where the task of relay r stands
    stopping,   \* the relays whose stop event is set
    due,        \* the relays whose next cleanup is due
    todo,       \* todo[r]: claimed records not yet handled in this batch
    sent,       \* sent[r]: records marked published, not yet committed
    retried,    \* retried[r]: records marked for retry, not yet committed
    elapsed,    \* elapsed[r]: ticks since the `now' of this batch
    copies,     \* copies[e]: messages of e that Kafka has appended
    failures,   \* crashes, cancellations and database errors so far
    stops       \* orderly shutdowns so far

rows == <<status, createdAt, attempts, dueIn, age>>
batches == <<todo, sent, retried, elapsed>>
counters == <<failures, stops>>
vars == <<rows, mode, stopping, due, batches, copies, counters>>

(***************************************************************************)
(* "absent": no transaction has recorded the event; "open": the recording  *)
(* transaction has flushed it and not ended; "discarded": it rolled back;  *)
(* "removed": the retention cleanup deleted the row.  The other three are  *)
(* the values of the status column.                                        *)
(***************************************************************************)
Statuses ==
    {"absent", "open", "discarded", "pending", "published", "failed", "removed"}

Modes == {"down", "idle", "batch", "sweep"}

\* Rows that a committed business transaction has inserted.
Committed == {e \in Events : status[e] \in {"pending", "published", "failed", "removed"}}

Horizon == IF RetryMax > Retention THEN RetryMax ELSE Retention + 1

\* Mutation of Delay: the cap is forgotten.
DelayUncapped(a) == RetryBase * 2 ^ (a - 1)

\* min(retry_base * 2 ** (attempts - 1), retry_max) of _schedule_retry
Delay(a) ==
    IF RetryBase * 2 ^ (a - 1) \in 0..RetryMax THEN RetryBase * 2 ^ (a - 1) ELSE RetryMax

TypeOK ==
    /\ status \in [Events -> Statuses]
    /\ createdAt \in [Events -> Nat]
    /\ attempts \in [Events -> 0..MaxAttempts]
    /\ dueIn \in [Events -> 0..RetryMax]
    /\ age \in [Events -> 0..Retention + 1]
    /\ mode \in [Relays -> Modes]
    /\ stopping \in SUBSET Relays
    /\ due \in SUBSET Relays
    /\ todo \in [Relays -> SUBSET Events]
    /\ sent \in [Relays -> SUBSET Events]
    /\ retried \in [Relays -> SUBSET Events]
    /\ elapsed \in [Relays -> 0..Horizon]
    /\ copies \in [Events -> Nat]
    /\ failures \in Nat
    /\ stops \in Nat

Init ==
    /\ status = [e \in Events |-> "absent"]
    /\ createdAt = [e \in Events |-> 0]
    /\ attempts = [e \in Events |-> 0]
    /\ dueIn = [e \in Events |-> 0]
    /\ age = [e \in Events |-> 0]
    /\ mode = [r \in Relays |-> "down"]
    /\ stopping = {}
    /\ due = {}
    /\ todo = [r \in Relays |-> {}]
    /\ sent = [r \in Relays |-> {}]
    /\ retried = [r \in Relays |-> {}]
    /\ elapsed = [r \in Relays |-> 0]
    /\ copies = [e \in Events |-> 0]
    /\ failures = 0
    /\ stops = 0

-----------------------------------------------------------------------------
(* Business transactions.                                                   *)

\* created_at is taken at the flush.  The transaction holds the row lock of
\* the aggregate by then, so two of one aggregate never overlap.  (Repeated
\* deletions, which find no row to lock, are left out.)
AggregateUnlocked(e) ==
    \A f \in Events : status[f] = "open" => AggregateOf[f] # AggregateOf[e]

Record(e) ==
    /\ status[e] = "absent"
    /\ AggregateUnlocked(e)
    /\ status' = [status EXCEPT ![e] = "open"]
    /\ createdAt' = [createdAt EXCEPT
                       ![e] = Cardinality({f \in Events : status[f] # "absent"})]
    /\ UNCHANGED <<attempts, dueIn, age, mode, stopping, due, batches, copies, counters>>

CommitChange(e) ==
    /\ status[e] = "open"
    /\ status' = [status EXCEPT ![e] = "pending"]
    /\ UNCHANGED <<createdAt, attempts, dueIn, age, mode, stopping, due, batches,
                   copies, counters>>

RollbackChange(e) ==
    /\ status[e] = "open"
    /\ status' = [status EXCEPT ![e] = "discarded"]
    /\ UNCHANGED <<createdAt, attempts, dueIn, age, mode, stopping, due, batches,
                   copies, counters>>

-----------------------------------------------------------------------------
(* The life of a relay task.                                                *)

Start(r) ==
    /\ mode[r] = "down"
    /\ mode' = [mode EXCEPT ![r] = "idle"]
    /\ stopping' = stopping \ {r}
    /\ due' = due \ {r}
    /\ UNCHANGED <<rows, batches, copies, counters>>

RequestStop(r) ==
    /\ mode[r] # "down"
    /\ r \notin stopping
    /\ stops < MaxStops
    /\ stopping' = stopping \cup {r}
    /\ stops' = stops + 1
    /\ UNCHANGED <<rows, mode, due, batches, copies, failures>>

\* The loop sees the stop event only between two rounds.
Exit(r) ==
    /\ mode[r] = "idle"
    /\ r \in stopping
    /\ mode' = [mode EXCEPT ![r] = "down"]
    /\ UNCHANGED <<rows, stopping, due, batches, copies, counters>>

CleanupFallsDue(r) ==
    /\ mode[r] # "down"
    /\ r \notin due
    /\ due' = due \cup {r}
    /\ UNCHANGED <<rows, mode, stopping, batches, copies, counters>>

-----------------------------------------------------------------------------
(* process_batch: one database transaction.                                 *)

Claimed(r) == todo[r] \cup sent[r] \cup retried[r]

\* FOR UPDATE: the rows some batch transaction has claimed are locked.
Locked == UNION {Claimed(r) : r \in Relays}

\* Mutation of Eligible: the claim takes no row locks.
EligibleUnlocked == {e \in Events : status[e] = "pending" /\ dueIn[e] = 0}

\* Mutation of Eligible: the event is visible before its change commits.
EligibleUncommitted ==
    {e \in Events : status[e] \in {"open", "pending"} /\ dueIn[e] = 0} \ Locked

Eligible == {e \in Events : status[e] = "pending" /\ dueIn[e] = 0} \ Locked

\* ORDER BY created_at LIMIT batch_size
IsFirstPage(S, from) ==
    /\ S \subseteq from
    /\ Cardinality(S) <= BatchSize
    /\ Cardinality(S) = BatchSize \/ S = from
    /\ \A e \in S, f \in from \ S : createdAt[e] < createdAt[f]

Claim(r) ==
    /\ mode[r] = "idle"
    /\ r \notin stopping
    /\ \E S \in SUBSET Eligible :
         /\ IsFirstPage(S, Eligible)
         /\ todo' = [todo EXCEPT ![r] = S]
    /\ mode' = [mode EXCEPT ![r] = "batch"]
    /\ elapsed' = [elapsed EXCEPT ![r] = 0]
    /\ UNCHANGED <<rows, stopping, due, sent, retried, copies, counters>>

\* Mutation of IsNext: the claimed rows come in no particular order.
IsNextUnordered(r, e) == e \in todo[r]

\* The record at which the `for' loop of the batch stands.
IsNext(r, e) ==
    /\ e \in todo[r]
    /\ \A f \in todo[r] : createdAt[e] <= createdAt[f]

PublishOk(r, e) ==
    /\ mode[r] = "batch"
    /\ IsNext(r, e)
    /\ copies' = [copies EXCEPT ![e] = @ + 1]
    /\ todo' = [todo EXCEPT ![r] = @ \ {e}]
    /\ sent' = [sent EXCEPT ![r] = @ \cup {e}]
    /\ UNCHANGED <<rows, mode, stopping, due, retried, elapsed, counters>>

\* Mutation of PublishError: the loop goes on without _schedule_retry.
PublishErrorUncounted(r, e) ==
    /\ mode[r] = "batch"
    /\ IsNext(r, e)
    /\ todo' = [todo EXCEPT ![r] = @ \ {e}]
    /\ UNCHANGED <<rows, mode, stopping, due, sent, retried, elapsed, copies, counters>>

\* The send raised, though the broker may have appended the message.
PublishError(r, e) ==
    /\ mode[r] = "batch"
    /\ IsNext(r, e)
    /\ \E appended \in {0, 1} : copies' = [copies EXCEPT ![e] = @ + appended]
    /\ todo' = [todo EXCEPT ![r] = @ \ {e}]
    /\ retried' = [retried EXCEPT ![r] = @ \cup {e}]
    /\ UNCHANGED <<rows, mode, stopping, due, sent, elapsed, counters>>

\* Mutation of AfterBatch: the timer is tested on the way out only.
AfterBatchStopping(r) == IF r \in due \cap stopping THEN "sweep" ELSE "idle"

\* _run tests the cleanup timer as soon as process_batch returns.
AfterBatch(r) == IF r \in due THEN "sweep" ELSE "idle"

EndBatch(r) ==
    /\ todo' = [todo EXCEPT ![r] = {}]
    /\ sent' = [sent EXCEPT ![r] = {}]
    /\ retried' = [retried EXCEPT ![r] = {}]
    /\ elapsed' = [elapsed EXCEPT ![r] = 0]

\* Mutation of StatusAfter: a failed send is marked published.
StatusAfterAnySend(r, e) ==
    IF e \in sent[r] \cup retried[r] THEN "published" ELSE status[e]

\* Mutation of StatusAfter: the attempt just made is not counted.
StatusAfterOneMore(r, e) ==
    IF e \in sent[r] THEN "published"
    ELSE IF e \in retried[r]
         THEN IF attempts[e] >= MaxAttempts THEN "failed" ELSE "pending"
         ELSE status[e]

\* The status mark_published and mark_retry leave.
StatusAfter(r, e) ==
    IF e \in sent[r] THEN "published"
    ELSE IF e \in retried[r]
         THEN IF attempts[e] + 1 >= MaxAttempts THEN "failed" ELSE "pending"
         ELSE status[e]

\* available_at counts from the `now' of the batch, not from the failure.
DueAfter(r, e) ==
    IF e \in retried[r] /\ StatusAfter(r, e) = "pending" /\ Delay(attempts[e] + 1) > elapsed[r]
    THEN Delay(attempts[e] + 1) - elapsed[r]
    ELSE IF e \in retried[r] THEN 0 ELSE dueIn[e]

\* published_at is the `now' of the batch too.
AgeAfter(r, e) ==
    IF e \in sent[r]
    THEN IF elapsed[r] > Retention THEN Retention + 1 ELSE elapsed[r]
    ELSE age[e]

CommitBatch(r) ==
    /\ mode[r] = "batch"
    /\ todo[r] = {}
    /\ status' = [e \in Events |-> StatusAfter(r, e)]
    /\ attempts' = [e \in Events |-> IF e \in retried[r] THEN attempts[e] + 1 ELSE attempts[e]]
    /\ dueIn' = [e \in Events |-> DueAfter(r, e)]
    /\ age' = [e \in Events |-> AgeAfter(r, e)]
    /\ mode' = [mode EXCEPT ![r] = AfterBatch(r)]
    /\ EndBatch(r)
    /\ UNCHANGED <<createdAt, stopping, due, copies, counters>>

\* The transaction is rolled back, with every mark in it.  A send may be in
\* flight, and what the broker has appended stays appended.
LoseBatch(r) ==
    /\ failures < MaxFailures
    /\ failures' = failures + 1
    /\ \/ UNCHANGED copies
       \/ \E e \in Events : IsNext(r, e) /\ copies' = [copies EXCEPT ![e] = @ + 1]
    /\ EndBatch(r)
    /\ UNCHANGED <<rows, stops>>

\* A database error anywhere in the batch; _run logs it and goes on.
AbortBatch(r) ==
    /\ mode[r] = "batch"
    /\ LoseBatch(r)
    /\ mode' = [mode EXCEPT ![r] = AfterBatch(r)]
    /\ UNCHANGED <<stopping, due>>

\* stop() waits for shutdown_timeout_seconds, then cancels the task.
Cancel(r) ==
    /\ mode[r] \in {"batch", "sweep"}
    /\ r \in stopping
    /\ LoseBatch(r)
    /\ mode' = [mode EXCEPT ![r] = "down"]
    /\ UNCHANGED <<stopping, due>>

\* The process dies, and its connections with it.
Crash(r) ==
    /\ mode[r] # "down"
    /\ LoseBatch(r)
    /\ mode' = [mode EXCEPT ![r] = "down"]
    /\ UNCHANGED <<stopping, due>>

-----------------------------------------------------------------------------
(* The retention cleanup, a transaction of its own after a batch.           *)

\* Mutation of Expired: the cleanup forgets to select by status.
ExpiredAnyStatus == {e \in Events : status[e] = "failed" \/ age[e] > Retention}

Expired == {e \in Events : status[e] = "published" /\ age[e] > Retention}

Cleanup(r) ==
    /\ mode[r] = "sweep"
    /\ status' = [e \in Events |-> IF e \in Expired THEN "removed" ELSE status[e]]
    /\ age' = [e \in Events |-> IF e \in Expired THEN 0 ELSE age[e]]
    /\ mode' = [mode EXCEPT ![r] = "idle"]
    /\ due' = due \ {r}
    /\ UNCHANGED <<createdAt, attempts, dueIn, stopping, batches, copies, counters>>

\* A failed cleanup is logged and waits for the next interval.
CleanupFails(r) ==
    /\ mode[r] = "sweep"
    /\ failures < MaxFailures
    /\ failures' = failures + 1
    /\ mode' = [mode EXCEPT ![r] = "idle"]
    /\ due' = due \ {r}
    /\ UNCHANGED <<rows, stopping, batches, copies, stops>>

-----------------------------------------------------------------------------
Tick ==
    /\ \/ \E e \in Events : dueIn[e] > 0
       \/ \E e \in Events : status[e] = "published" /\ age[e] <= Retention
       \/ \E r \in Relays : mode[r] = "batch" /\ elapsed[r] < Horizon
    /\ dueIn' = [e \in Events |-> IF dueIn[e] > 0 THEN dueIn[e] - 1 ELSE 0]
    /\ age' = [e \in Events |-> IF status[e] = "published" /\ age[e] <= Retention
                                THEN age[e] + 1 ELSE age[e]]
    /\ elapsed' = [r \in Relays |-> IF mode[r] = "batch" /\ elapsed[r] < Horizon
                                    THEN elapsed[r] + 1 ELSE elapsed[r]]
    /\ UNCHANGED <<status, createdAt, attempts, mode, stopping, due, todo, sent,
                   retried, copies, counters>>

RelayStep(r) ==
    \/ Start(r) \/ RequestStop(r) \/ Exit(r) \/ CleanupFallsDue(r)
    \/ Claim(r)
    \/ \E e \in Events : PublishOk(r, e) \/ PublishError(r, e)
    \/ CommitBatch(r) \/ AbortBatch(r) \/ Cancel(r) \/ Crash(r)
    \/ Cleanup(r) \/ CleanupFails(r)

Next ==
    \/ \E e \in Events : Record(e) \/ CommitChange(e) \/ RollbackChange(e)
    \/ \E r \in Relays : RelayStep(r)
    \/ Tick

Spec == Init /\ [][Next]_vars

(***************************************************************************)
(* The container is restarted when it ends (restart: unless-stopped), the  *)
(* loop polls for ever, a send returns or raises, commits end, and time    *)
(* and the cleanup interval pass.  Nothing is assumed of crashes, stops,   *)
(* errors, or of which way a send goes.                                    *)
(***************************************************************************)
Fairness ==
    /\ WF_vars(Tick)
    /\ \A r \in Relays :
         /\ WF_vars(Start(r))
         /\ WF_vars(Exit(r))
         /\ WF_vars(CleanupFallsDue(r))
         /\ WF_vars(Claim(r))
         /\ WF_vars(\E e \in Events : PublishOk(r, e) \/ PublishError(r, e))
         /\ WF_vars(CommitBatch(r))
         /\ WF_vars(Cleanup(r) \/ CleanupFails(r))

FairSpec == Spec /\ Fairness

-----------------------------------------------------------------------------
(* Safety.                                                                  *)

(***************************************************************************)
(* No lost event: a row that mark_published settled, still there or        *)
(* removed by the retention cleanup, has a message in the topic, whatever  *)
(* batches were rolled back in between.                                    *)
(***************************************************************************)
Delivered ==
    \A e \in Events : status[e] \in {"published", "removed"} => copies[e] > 0

(***************************************************************************)
(* No phantom event: Kafka never holds an event whose business transaction *)
(* has not committed, though the row is flushed before that.               *)
(***************************************************************************)
NoPhantom == \A e \in Events : copies[e] > 0 => e \in Committed

(***************************************************************************)
(* Every duplicate has a cause: beyond the one message of a success, each  *)
(* further copy of an event is paid for by a counted attempt or by a batch *)
(* that was rolled back.  Two relays alone never send an event twice.      *)
(***************************************************************************)
DuplicatesAccounted ==
    \A e \in Events : copies[e] <= attempts[e] + failures + 1

(***************************************************************************)
(* An event is given up exactly when its max_attempts counted attempts are *)
(* used up: not one earlier, and none is made after.                       *)
(***************************************************************************)
FailedAfterMaxAttempts ==
    \A e \in Events : status[e] = "failed" <=> attempts[e] >= MaxAttempts

(***************************************************************************)
(* A settled row is final: the unguarded UPDATEs of mark_published and     *)
(* mark_retry never take a published or failed row back, the cleanup       *)
(* removes published rows only, and a removed row does not return.         *)
(***************************************************************************)
SettledIsFinal ==
    [][\A e \in Events :
         /\ status[e] = "published" => status'[e] \in {"published", "removed"}
         /\ status[e] = "failed" => status'[e] = "failed"
         /\ status[e] = "removed" => status'[e] = "removed"]_vars

\* More than one instance runs.
Several == \E r, q \in Relays : r # q

\* e and f are about one aggregate, and e was recorded first.
Precedes(e, f) ==
    /\ {e, f} \subseteq Committed
    /\ AggregateOf[e] = AggregateOf[f]
    /\ createdAt[e] < createdAt[f]

(***************************************************************************)
(* An event reaches Kafka before an earlier event of its aggregate only    *)
(* past a failed send of that one (it has a counted attempt or a retry     *)
(* mark), or while another relay has it in its batch, or had, in a batch   *)
(* that was lost: the order of claim_pending and of the loop over records. *)
(***************************************************************************)
FirstSendsInOrder ==
    [][\A e, f \in Events :
         Precedes(e, f) /\ copies[e] = 0 /\ copies[f] = 0 /\ copies'[f] > 0 =>
             \/ attempts[e] > 0
             \/ \E r \in Relays : e \in retried[r]
             \/ \E r \in Relays : e \in todo[r] /\ f \notin todo[r]
             \/ Several /\ failures > 0]_vars

(***************************************************************************)
(* What the README says of the message key: the events of one aggregate    *)
(* keep their order in the partition.                                      *)
(***************************************************************************)
KeyOrder ==
    \A e, f \in Events : Precedes(e, f) /\ copies[f] > 0 => copies[e] > 0

(***************************************************************************)
(* The relay implements the promise of the outbox: a pending row is a debt *)
(* and batches, rollbacks, retries and the cleanup are steps of EventDelivery *)
(* or leave it alone.                                                      *)
(***************************************************************************)
StageOf(st) ==
    IF st = "pending" THEN "owed"
    ELSE IF st \in {"published", "removed"} THEN "delivered"
    ELSE IF st = "failed" THEN "abandoned"
    ELSE "none"

Stage == [e \in Events |-> StageOf(status[e])]

Delivery == INSTANCE EventDelivery WITH stage <- Stage

DeliverySpec == Delivery!Spec

-----------------------------------------------------------------------------
(* The inductive invariant behind the safety properties.                    *)

\* Marks exist only inside a batch, and a batch handles a record once.
BatchesOK ==
    \A r \in Relays :
        /\ mode[r] # "batch" => Claimed(r) = {}
        /\ todo[r] \cap sent[r] = {}
        /\ todo[r] \cap retried[r] = {}
        /\ sent[r] \cap retried[r] = {}

\* A claim is exclusive, and its row stays pending until the batch commits.
ClaimsOK ==
    /\ \A r \in Relays : \A e \in Claimed(r) : status[e] = "pending"
    /\ \A r, q \in Relays : r # q => Claimed(r) \cap Claimed(q) = {}

\* What the status says of the number of counted attempts.
AttemptsOK ==
    \A e \in Events :
        /\ status[e] = "failed" => attempts[e] = MaxAttempts
        /\ status[e] # "failed" => attempts[e] < MaxAttempts

\* Every mark of a successful send stands for a message.
MarksOK == \A r \in Relays : \A e \in sent[r] : copies[e] > 0

\* e has been sent, or tried, since its last counted attempt.
Handled(e) ==
    \/ status[e] \in {"published", "removed"}
    \/ \E r \in Relays : e \in sent[r] \cup retried[r]

\* The copies of an event, counted exactly.
CopiesOK ==
    \A e \in Events :
        /\ copies[e] <= attempts[e] + failures + 1
        /\ ~ Handled(e) => copies[e] <= attempts[e] + failures

(***************************************************************************)
(* Claims are exclusive, marks are made once per batch and mean what they  *)
(* say, and attempts and copies are counted exactly: together strong       *)
(* enough to be kept by every step of the relays.                          *)
(***************************************************************************)
Inv ==
    /\ TypeOK
    /\ BatchesOK
    /\ ClaimsOK
    /\ AttemptsOK
    /\ MarksOK
    /\ Delivered
    /\ NoPhantom
    /\ CopiesOK

\* created_at grows, and an open change is the last of its aggregate.
RecordedInOrder ==
    /\ \A e \in Events : status[e] # "absent" =>
         createdAt[e] < Cardinality({f \in Events : status[f] # "absent"})
    /\ \A e, f \in Events :
         status[e] = "open" /\ status[f] # "absent" /\ e # f
           /\ AggregateOf[e] = AggregateOf[f] => createdAt[f] < createdAt[e]

\* e has never been handled by a batch that still counts.
Untried(e) ==
    copies[e] = 0 /\ attempts[e] = 0 /\ \A r \in Relays : e \notin retried[r]

\* A record is claimed with, or after, the earlier ones of its aggregate.
ClaimedInOrder ==
    \A e, f \in Events : Precedes(e, f) /\ Untried(e) =>
        \A r \in Relays : f \in todo[r] =>
            \/ \E q \in Relays : e \in todo[q]
            \/ Several /\ failures > 0

(***************************************************************************)
(* Inv with what keeps the first sends of an aggregate in order: how the   *)
(* events are recorded, that an event nobody has tried is due, and that    *)
(* the claims follow created_at.                                           *)
(***************************************************************************)
OrderInv ==
    /\ Inv
    /\ RecordedInOrder
    /\ \A e \in Events : attempts[e] = 0 => dueIn[e] = 0
    /\ ClaimedInOrder
-----------------------------------------------------------------------------
(* Liveness.                                                                *)

(***************************************************************************)
(* Every committed event is settled in the end: delivered, or given up     *)
(* after its attempts, though sends fail, relays stop and crash and older  *)
(* events fill the batches.                                                *)
(***************************************************************************)
EventuallySettled ==
    \A e \in Events :
        status[e] = "pending" ~> status[e] \in {"published", "failed", "removed"}

(***************************************************************************)
(* The table does not grow for ever: a published row is removed in the end *)
(* by the retention cleanup of some relay.                                 *)
(***************************************************************************)
EventuallyRemoved ==
    \A e \in Events : status[e] = "published" ~> status[e] = "removed"
==============================================================================
