-------------------------- MODULE OutboxRelayProofs --------------------------
(***************************************************************************)
(* Theorems about OutboxRelay for every set of events, aggregates and      *)
(* relays and every value of the settings.                                 *)
(***************************************************************************)
EXTENDS OutboxRelay, FiniteSetTheorems, TLAPS

-----------------------------------------------------------------------------
(* Helpers.                                                                 *)

\* The horizon of the model lies beyond every delay and the retention.
LEMMA HorizonType == Horizon \in Nat /\ Horizon >= RetryMax /\ Horizon >= Retention + 1
BY SettingsAssumption DEF Horizon

\* _schedule_retry never delays an event beyond retry_max_seconds.
LEMMA DelayBound == ASSUME NEW a PROVE Delay(a) \in 0..RetryMax
BY SettingsAssumption DEF Delay

-----------------------------------------------------------------------------
(* Type correctness.                                                        *)

\* The initial state is well typed.
LEMMA InitType == Init => TypeOK
BY SettingsAssumption, HorizonType DEF Init, TypeOK, Statuses, Modes

\* Business transactions keep the types.
LEMMA BusinessType ==
    ASSUME TypeOK, NEW e \in Events, Record(e) \/ CommitChange(e) \/ RollbackChange(e)
    PROVE  TypeOK'
<1>1. Cardinality({f \in Events : status[f] # "absent"}) \in Nat
  BY EventsAssumption, FS_Subset, FS_CardinalityType
<1>2. CASE Record(e)
  BY <1>1, <1>2 DEF TypeOK, Statuses, Record, batches, counters
<1>3. CASE CommitChange(e)
  BY <1>3 DEF TypeOK, Statuses, CommitChange, batches, counters
<1>4. CASE RollbackChange(e)
  BY <1>4 DEF TypeOK, Statuses, RollbackChange, batches, counters
<1> QED BY <1>2, <1>3, <1>4

\* Starting, stopping and leaving a relay keep the types.
LEMMA LifeType ==
    ASSUME TypeOK, NEW r \in Relays,
           Start(r) \/ RequestStop(r) \/ Exit(r) \/ CleanupFallsDue(r)
    PROVE  TypeOK'
BY DEF TypeOK, Modes, Start, RequestStop, Exit, CleanupFallsDue, rows, batches, counters

\* A claim keeps the types.
LEMMA ClaimType == ASSUME TypeOK, NEW r \in Relays, Claim(r) PROVE TypeOK'
<1> PICK S \in SUBSET Eligible : todo' = [todo EXCEPT ![r] = S]
  BY DEF Claim
<1>1. S \subseteq Events
  BY DEF Eligible
<1> QED BY <1>1, HorizonType DEF TypeOK, Modes, Claim, rows, counters

\* A send, successful or not, keeps the types.
LEMMA PublishType ==
    ASSUME TypeOK, NEW r \in Relays, NEW e \in Events,
           PublishOk(r, e) \/ PublishError(r, e)
    PROVE  TypeOK'
BY DEF TypeOK, PublishOk, PublishError, rows, counters

\* The marks of a batch stay within the limits of the settings.
LEMMA CommitBatchType == ASSUME TypeOK, AttemptsOK, ClaimsOK, NEW r \in Relays, CommitBatch(r)
                         PROVE TypeOK'
<1>1. \A e \in Events : StatusAfter(r, e) \in Statuses
  BY DEF TypeOK, StatusAfter, Statuses
<1>2. \A e \in Events : DueAfter(r, e) \in 0..RetryMax
  <2> TAKE e \in Events
  <2>1. Delay(attempts[e] + 1) \in 0..RetryMax
    BY DelayBound
  <2> QED BY <2>1, SettingsAssumption, HorizonType DEF TypeOK, DueAfter
<1>3. \A e \in Events : AgeAfter(r, e) \in 0..Retention + 1
  BY SettingsAssumption, HorizonType DEF TypeOK, AgeAfter
<1>4. \A e \in retried[r] : attempts[e] + 1 \in 0..MaxAttempts
  BY SettingsAssumption DEF TypeOK, AttemptsOK, ClaimsOK, Claimed
<1>5. attempts' \in [Events -> 0..MaxAttempts]
  BY <1>4 DEF TypeOK, CommitBatch
<1>6. mode' \in [Relays -> Modes]
  BY DEF TypeOK, Modes, CommitBatch, AfterBatch
<1>7. status' \in [Events -> Statuses] /\ dueIn' \in [Events -> 0..RetryMax]
      /\ age' \in [Events -> 0..Retention + 1]
  BY <1>1, <1>2, <1>3 DEF CommitBatch
<1> QED BY <1>5, <1>6, <1>7, HorizonType DEF TypeOK, CommitBatch, EndBatch, counters

\* A lost batch keeps the types.
LEMMA LoseBatchType ==
    ASSUME TypeOK, NEW r \in Relays, AbortBatch(r) \/ Cancel(r) \/ Crash(r)
    PROVE  TypeOK'
<1>1. mode' \in [Relays -> Modes] /\ UNCHANGED <<stopping, due>>
  BY DEF TypeOK, Modes, AbortBatch, Cancel, Crash, AfterBatch
<1>2. LoseBatch(r)
  BY DEF AbortBatch, Cancel, Crash
<1>3. copies' \in [Events -> Nat]
  BY <1>2 DEF TypeOK, LoseBatch
<1> QED BY <1>1, <1>2, <1>3, HorizonType DEF TypeOK, LoseBatch, EndBatch, rows

\* The cleanup keeps the types.
LEMMA CleanupType == ASSUME TypeOK, NEW r \in Relays, Cleanup(r) \/ CleanupFails(r)
                     PROVE TypeOK'
<1>1. CASE Cleanup(r)
  BY <1>1, SettingsAssumption DEF TypeOK, Statuses, Modes, Cleanup, batches, counters
<1>2. CASE CleanupFails(r)
  BY <1>2 DEF TypeOK, Modes, CleanupFails, rows, batches
<1> QED BY <1>1, <1>2

\* Time that passes keeps the types.
LEMMA TickType == ASSUME TypeOK, Tick PROVE TypeOK'
<1>1. dueIn' \in [Events -> 0..RetryMax]
  BY SettingsAssumption DEF TypeOK, Tick
<1>2. age' \in [Events -> 0..Retention + 1]
  BY SettingsAssumption DEF TypeOK, Tick
<1>3. elapsed' \in [Relays -> 0..Horizon]
  BY HorizonType DEF TypeOK, Tick
<1> QED BY <1>1, <1>2, <1>3 DEF TypeOK, Tick, counters

-----------------------------------------------------------------------------
(* The inductive invariant, one lemma per kind of step.                     *)

\* The parts of Inv that remain once types are settled.
Rest ==
    /\ BatchesOK
    /\ ClaimsOK
    /\ AttemptsOK
    /\ MarksOK
    /\ Delivered
    /\ NoPhantom
    /\ CopiesOK

\* At first no row, no claim and no message exists.
LEMMA InitInv == Init => Inv
<1> SUFFICES ASSUME Init PROVE Inv
  OBVIOUS
<1>1. TypeOK
  BY InitType
<1>2. BatchesOK /\ ClaimsOK /\ MarksOK
  BY DEF Init, BatchesOK, ClaimsOK, MarksOK, Claimed
<1>3. AttemptsOK
  BY SettingsAssumption DEF Init, AttemptsOK
<1>4. Delivered /\ NoPhantom /\ CopiesOK
  BY DEF Init, Delivered, NoPhantom, CopiesOK
<1> QED BY <1>1, <1>2, <1>3, <1>4 DEF Inv

\* A change that is recorded, commits or rolls back concerns no claimed row.
LEMMA BusinessRest ==
    ASSUME Inv, NEW e \in Events, Record(e) \/ CommitChange(e) \/ RollbackChange(e)
    PROVE  Rest'
<1>1. \A f \in Events :
         /\ f # e => status'[f] = status[f]
         /\ status[e] \in {"absent", "open"}
         /\ status'[e] \in {"open", "pending", "discarded"}
  BY DEF Inv, TypeOK, Record, CommitChange, RollbackChange
<1>2. UNCHANGED <<attempts, mode, todo, sent, retried, copies, failures>>
  BY DEF Record, CommitChange, RollbackChange, batches, counters
<1>3. e \notin Committed
  BY <1>1 DEF Committed
<1>4. \A r \in Relays : e \notin Claimed(r)
  BY <1>1 DEF Inv, ClaimsOK
<1>5. BatchesOK' /\ MarksOK'
  BY <1>2 DEF Inv, BatchesOK, MarksOK, Claimed
<1>6. ClaimsOK'
  BY <1>1, <1>2, <1>4 DEF Inv, TypeOK, ClaimsOK, Claimed
<1>7. AttemptsOK'
  BY <1>1, <1>2 DEF Inv, TypeOK, AttemptsOK
<1>8. Delivered' /\ NoPhantom'
  BY <1>1, <1>2, <1>3 DEF Inv, TypeOK, Delivered, NoPhantom, Committed
<1>9. CopiesOK'
  BY <1>1, <1>2 DEF Inv, TypeOK, CopiesOK, Handled
<1> QED BY <1>5, <1>6, <1>7, <1>8, <1>9 DEF Rest

\* Steps that touch no row, no mark and no message.
LEMMA QuietRest ==
    ASSUME Inv, UNCHANGED <<status, attempts, todo, sent, retried, copies, failures>>,
           \A r \in Relays : mode'[r] # "batch" => Claimed(r) = {}
    PROVE  Rest'
BY DEF Inv, Rest, BatchesOK, ClaimsOK, AttemptsOK, MarksOK, Delivered, NoPhantom, CopiesOK,
       Claimed, Committed, Handled

\* A relay outside a batch holds nothing.
LEMMA LifeRest ==
    ASSUME Inv, NEW r \in Relays,
           Start(r) \/ RequestStop(r) \/ Exit(r) \/ CleanupFallsDue(r)
    PROVE  Rest'
<1>1. UNCHANGED <<status, attempts, todo, sent, retried, copies, failures>>
  BY DEF Start, RequestStop, Exit, CleanupFallsDue, rows, batches, counters
<1>2. \A q \in Relays : mode'[q] # "batch" => mode[q] # "batch"
  BY DEF Inv, TypeOK, Start, RequestStop, Exit, CleanupFallsDue
<1> QED BY <1>1, <1>2, QuietRest DEF Inv, BatchesOK

\* Time changes no row, mark or message.
LEMMA TickRest == ASSUME Inv, Tick PROVE Rest'
BY QuietRest DEF Tick, Inv, BatchesOK, counters

\* A claim takes pending rows that nobody else has claimed.
LEMMA ClaimRest == ASSUME Inv, NEW r \in Relays, Claim(r) PROVE Rest'
<1> PICK S \in SUBSET Eligible : todo' = [todo EXCEPT ![r] = S]
  BY DEF Claim
<1>1. \A e \in S : e \in Events /\ status[e] = "pending"
                  /\ \A q \in Relays : e \notin Claimed(q)
  BY DEF Eligible, Locked
<1>2. Claimed(r) = {}
  BY DEF Claim, Inv, BatchesOK
<1>3. UNCHANGED <<status, attempts, sent, retried, copies, failures>>
  BY DEF Claim, rows, counters
<1>4. \A q \in Relays : Claimed(q)' = IF q = r THEN S ELSE Claimed(q)
  BY <1>2, <1>3 DEF Inv, TypeOK, Claimed
<1>5. \A q \in Relays : q # r => todo'[q] = todo[q] /\ mode'[q] = mode[q]
  BY DEF Claim, Inv, TypeOK
<1>6. todo'[r] = S /\ mode'[r] = "batch" /\ sent[r] = {} /\ retried[r] = {}
  BY <1>2 DEF Claim, Inv, TypeOK, Claimed
<1>7. BatchesOK'
  BY <1>3, <1>4, <1>5, <1>6 DEF Inv, BatchesOK
<1>8. ClaimsOK'
  BY <1>1, <1>3, <1>4 DEF Inv, ClaimsOK
<1>9. AttemptsOK' /\ MarksOK' /\ Delivered' /\ NoPhantom' /\ CopiesOK'
  BY <1>3 DEF Inv, AttemptsOK, MarksOK, Delivered, NoPhantom, CopiesOK, Committed, Handled
<1> QED BY <1>7, <1>8, <1>9 DEF Rest

\* A send is counted with the mark it leaves.
LEMMA PublishRest ==
    ASSUME Inv, NEW r \in Relays, NEW e \in Events,
           PublishOk(r, e) \/ PublishError(r, e)
    PROVE  Rest'
<1>1. e \in todo[r] /\ mode[r] = "batch"
  BY DEF PublishOk, PublishError, IsNext
<1>2. /\ status[e] = "pending"
      /\ \A q \in Relays : e \notin sent[q] \cup retried[q]
  BY <1>1 DEF Inv, ClaimsOK, BatchesOK, Claimed
<1>3. UNCHANGED <<status, attempts, mode, failures>>
  BY DEF PublishOk, PublishError, rows, counters
<1>4. /\ \A f \in Events : f # e => copies'[f] = copies[f]
      /\ copies'[e] \in {copies[e], copies[e] + 1}
      /\ PublishOk(r, e) => copies'[e] = copies[e] + 1
  BY DEF Inv, TypeOK, PublishOk, PublishError
<1>5. todo' = [todo EXCEPT ![r] = @ \ {e}]
  BY DEF PublishOk, PublishError
<1>6. \/ PublishOk(r, e) /\ sent' = [sent EXCEPT ![r] = @ \cup {e}] /\ retried' = retried
      \/ retried' = [retried EXCEPT ![r] = @ \cup {e}] /\ sent' = sent
  BY DEF PublishOk, PublishError
<1>7. \A q \in Relays : Claimed(q)' = Claimed(q)
  BY <1>1, <1>5, <1>6 DEF Inv, TypeOK, Claimed
<1>8. BatchesOK'
  <2>1. \A q \in Relays : mode'[q] # "batch" => Claimed(q)' = {}
    BY <1>3, <1>7 DEF Inv, BatchesOK
  <2>2. \A q \in Relays : todo'[q] \cap sent'[q] = {} /\ todo'[q] \cap retried'[q] = {}
                        /\ sent'[q] \cap retried'[q] = {}
    BY <1>1, <1>2, <1>5, <1>6 DEF Inv, TypeOK, BatchesOK
  <2> QED BY <2>1, <2>2 DEF BatchesOK
<1>9. ClaimsOK' /\ AttemptsOK'
  BY <1>3, <1>7 DEF Inv, ClaimsOK, AttemptsOK
<1>10. MarksOK'
  BY <1>4, <1>6 DEF Inv, TypeOK, MarksOK
<1>11. Delivered' /\ NoPhantom'
  BY <1>2, <1>3, <1>4 DEF Inv, TypeOK, Delivered, NoPhantom, Committed
<1>12. CopiesOK'
  <2> SUFFICES ASSUME NEW f \in Events
               PROVE  /\ copies'[f] <= attempts'[f] + failures' + 1
                      /\ ~ Handled(f)' => copies'[f] <= attempts'[f] + failures'
    BY DEF CopiesOK
  <2>1. CASE f = e
    <3>1. Handled(e)'
      BY <1>6 DEF Inv, TypeOK, Handled
    <3>2. ~ Handled(e)
      BY <1>2 DEF Handled
    <3>3. copies'[e] <= attempts[e] + failures + 1
      BY <3>2, <1>4 DEF Inv, TypeOK, CopiesOK
    <3> QED BY <2>1, <3>1, <3>3, <1>3
  <2>2. CASE f # e
    <3>1. Handled(f)' <=> Handled(f)
      BY <2>2, <1>3, <1>6 DEF Inv, TypeOK, Handled
    <3> QED BY <2>2, <3>1, <1>3, <1>4 DEF Inv, CopiesOK
  <2> QED BY <2>1, <2>2
<1> QED BY <1>8, <1>9, <1>10, <1>11, <1>12 DEF Rest

\* A committed batch settles or counts each of its records.
LEMMA CommitBatchRest == ASSUME Inv, NEW r \in Relays, CommitBatch(r) PROVE Rest'
<1> DEFINE newAttempts(e) == IF e \in retried[r] THEN attempts[e] + 1 ELSE attempts[e]
<1>1. /\ \A e \in Events : status'[e] = StatusAfter(r, e)
      /\ \A e \in Events : attempts'[e] = newAttempts(e)
      /\ UNCHANGED <<copies, failures>>
  BY DEF CommitBatch, counters
<1>2. \A q \in Relays :
         /\ todo'[q] = IF q = r THEN {} ELSE todo[q]
         /\ sent'[q] = IF q = r THEN {} ELSE sent[q]
         /\ retried'[q] = IF q = r THEN {} ELSE retried[q]
         /\ q # r => mode'[q] = mode[q]
  BY DEF Inv, TypeOK, CommitBatch, EndBatch
<1>3. \A q \in Relays : Claimed(q)' = IF q = r THEN {} ELSE Claimed(q)
  BY <1>2 DEF Claimed
<1>4. \A e \in Events : e \notin Claimed(r) => status'[e] = status[e] /\ attempts'[e] = attempts[e]
  BY <1>1 DEF StatusAfter, Claimed
<1>5. \A e \in sent[r] : e \in Events /\ status[e] = "pending" /\ status'[e] = "published"
  BY <1>1 DEF Inv, TypeOK, ClaimsOK, Claimed, StatusAfter
<1>6. \A e \in retried[r] :
         /\ e \in Events /\ status[e] = "pending" /\ attempts[e] < MaxAttempts
         /\ attempts'[e] = attempts[e] + 1
         /\ status'[e] = IF attempts[e] + 1 >= MaxAttempts THEN "failed" ELSE "pending"
  BY <1>1 DEF Inv, TypeOK, ClaimsOK, BatchesOK, AttemptsOK, Claimed, StatusAfter
<1>7. Claimed(r) = sent[r] \cup retried[r]
  BY DEF CommitBatch, Claimed
<1>8. BatchesOK'
  BY <1>2, <1>3 DEF Inv, BatchesOK
<1>9. ClaimsOK'
  <2>1. \A q \in Relays : \A e \in Claimed(q)' : e \notin Claimed(r) /\ e \in Claimed(q)
    BY <1>3 DEF Inv, ClaimsOK
  <2>2. \A q \in Relays : \A e \in Claimed(q)' : status'[e] = "pending"
    BY <2>1, <1>4 DEF Inv, TypeOK, ClaimsOK, Claimed
  <2> QED BY <2>2, <1>3 DEF Inv, ClaimsOK
<1>10. AttemptsOK'
  <2> SUFFICES ASSUME NEW e \in Events
               PROVE  /\ status'[e] = "failed" => attempts'[e] = MaxAttempts
                      /\ status'[e] # "failed" => attempts'[e] < MaxAttempts
    BY DEF AttemptsOK
  <2>1. CASE e \in retried[r]
    BY <2>1, <1>6, SettingsAssumption DEF Inv, TypeOK
  <2>2. CASE e \notin retried[r]
    <3>1. attempts'[e] = attempts[e]
      BY <2>2, <1>1
    <3> QED BY <3>1, <2>2, <1>4, <1>5, <1>7 DEF Inv, AttemptsOK
  <2> QED BY <2>1, <2>2
<1>11. MarksOK'
  BY <1>1, <1>2 DEF Inv, MarksOK
<1>12. Delivered'
  BY <1>1, <1>4, <1>6, <1>7 DEF Inv, Delivered, MarksOK
<1>13. NoPhantom'
  BY <1>1, <1>4, <1>5, <1>6, <1>7 DEF Inv, NoPhantom, Committed
<1>14. CopiesOK'
  <2> SUFFICES ASSUME NEW e \in Events
               PROVE  /\ copies'[e] <= attempts'[e] + failures' + 1
                      /\ ~ Handled(e)' => copies'[e] <= attempts'[e] + failures'
    BY DEF CopiesOK
  <2>0. /\ copies[e] \in Nat /\ attempts[e] \in Nat /\ failures \in Nat
        /\ copies[e] <= attempts[e] + failures + 1
        /\ ~ Handled(e) => copies[e] <= attempts[e] + failures
    BY SettingsAssumption DEF Inv, TypeOK, CopiesOK
  <2>1. CASE e \in sent[r]
    <3>1. attempts'[e] = attempts[e]
      BY <2>1, <1>1 DEF Inv, BatchesOK
    <3>2. Handled(e)'
      BY <2>1, <1>5 DEF Handled
    <3> QED BY <2>0, <3>1, <3>2, <1>1
  <2>2. CASE e \in retried[r]
    BY <2>0, <2>2, <1>1, <1>6
  <2>3. CASE e \notin Claimed(r)
    <3>1. Handled(e)' <=> Handled(e)
      BY <2>3, <1>2, <1>4 DEF Handled, Claimed
    <3> QED BY <2>0, <2>3, <3>1, <1>1, <1>4
  <2> QED BY <2>1, <2>2, <2>3, <1>7
<1> QED BY <1>8, <1>9, <1>10, <1>11, <1>12, <1>13, <1>14 DEF Rest

\* A lost batch forgets its marks and pays for them with one failure.
LEMMA LoseBatchRest ==
    ASSUME Inv, NEW r \in Relays, AbortBatch(r) \/ Cancel(r) \/ Crash(r)
    PROVE  Rest'
<1>1. /\ LoseBatch(r)
      /\ \A q \in Relays : q # r => mode'[q] = mode[q]
  BY DEF Inv, TypeOK, AbortBatch, Cancel, Crash
<1>2. UNCHANGED <<status, attempts>> /\ failures' = failures + 1
  BY <1>1 DEF LoseBatch, rows
<1>3. \A q \in Relays :
         /\ todo'[q] = IF q = r THEN {} ELSE todo[q]
         /\ sent'[q] = IF q = r THEN {} ELSE sent[q]
         /\ retried'[q] = IF q = r THEN {} ELSE retried[q]
  BY <1>1 DEF Inv, TypeOK, LoseBatch, EndBatch
<1>4. \A q \in Relays : Claimed(q)' = IF q = r THEN {} ELSE Claimed(q)
  BY <1>3 DEF Claimed
<1>5. \A e \in Events :
         \/ copies'[e] = copies[e]
         \/ copies'[e] = copies[e] + 1 /\ e \in todo[r]
  BY <1>1 DEF Inv, TypeOK, LoseBatch, IsNext
<1>6. \A e \in todo[r] : status[e] = "pending" /\ ~ Handled(e)
  <2> TAKE e \in todo[r]
  <2>1. status[e] = "pending" /\ e \notin sent[r] \cup retried[r]
    BY DEF Inv, ClaimsOK, BatchesOK, Claimed
  <2>2. \A q \in Relays : q # r => e \notin sent[q] \cup retried[q]
    BY DEF Inv, ClaimsOK, Claimed
  <2> QED BY <2>1, <2>2 DEF Handled
<1>7. BatchesOK'
  BY <1>1, <1>3, <1>4 DEF Inv, BatchesOK
<1>8. ClaimsOK' /\ AttemptsOK'
  BY <1>2, <1>4 DEF Inv, ClaimsOK, AttemptsOK
<1>9. MarksOK' /\ Delivered'
  BY <1>2, <1>3, <1>5 DEF Inv, TypeOK, MarksOK, Delivered
<1>10. NoPhantom'
  BY <1>2, <1>5, <1>6 DEF Inv, NoPhantom, Committed
<1>11. CopiesOK'
  BY <1>2, <1>5, <1>6 DEF Inv, TypeOK, CopiesOK
<1> QED BY <1>7, <1>8, <1>9, <1>10, <1>11 DEF Rest

\* The cleanup takes published rows, which nobody has claimed.
LEMMA CleanupRest == ASSUME Inv, NEW r \in Relays, Cleanup(r) PROVE Rest'
<1>1. \A e \in Events : IF e \in Expired THEN status[e] = "published" /\ status'[e] = "removed"
                                          ELSE status'[e] = status[e]
  BY DEF Cleanup, Expired
<1>2. UNCHANGED <<attempts, todo, sent, retried, copies, failures>>
  BY DEF Cleanup, batches, counters
<1>3. \A q \in Relays : Claimed(q)' = Claimed(q) /\ (mode'[q] # "batch" => mode[q] # "batch")
  BY <1>2 DEF Cleanup, Claimed, Inv, TypeOK
<1>4. BatchesOK' /\ MarksOK'
  BY <1>2, <1>3 DEF Inv, BatchesOK, MarksOK
<1>5. ClaimsOK'
  BY <1>1, <1>3 DEF Inv, TypeOK, ClaimsOK, Claimed
<1>6. AttemptsOK' /\ Delivered' /\ NoPhantom'
  BY <1>1, <1>2 DEF Inv, AttemptsOK, Delivered, NoPhantom, Committed
<1>7. CopiesOK'
  BY <1>1, <1>2 DEF Inv, CopiesOK, Handled
<1> QED BY <1>4, <1>5, <1>6, <1>7 DEF Rest

\* A failed cleanup costs a failure and nothing else.
LEMMA CleanupFailsRest == ASSUME Inv, NEW r \in Relays, CleanupFails(r) PROVE Rest'
<1>1. UNCHANGED <<status, attempts, todo, sent, retried, copies>> /\ failures' = failures + 1
  BY DEF CleanupFails, rows, batches
<1>2. \A q \in Relays : mode'[q] # "batch" => mode[q] # "batch"
  BY DEF CleanupFails, Inv, TypeOK
<1>3. BatchesOK' /\ ClaimsOK' /\ AttemptsOK' /\ MarksOK' /\ Delivered' /\ NoPhantom'
  BY <1>1, <1>2 DEF Inv, BatchesOK, ClaimsOK, AttemptsOK, MarksOK, Delivered, NoPhantom,
                    Claimed, Committed
<1>4. CopiesOK'
  BY <1>1, SettingsAssumption DEF Inv, TypeOK, CopiesOK, Handled
<1> QED BY <1>3, <1>4 DEF Rest

\* Every step keeps the invariant.
LEMMA NextInv == Inv /\ [Next]_vars => Inv'
<1> SUFFICES ASSUME Inv, [Next]_vars PROVE Inv'
  OBVIOUS
<1> USE DEF Inv
<1>1. CASE UNCHANGED vars
  BY <1>1, QuietRest DEF vars, rows, batches, counters, TypeOK, Rest, BatchesOK
<1>2. CASE \E e \in Events : Record(e) \/ CommitChange(e) \/ RollbackChange(e)
  BY <1>2, BusinessType, BusinessRest DEF Rest
<1>3. CASE Tick
  BY <1>3, TickType, TickRest DEF Rest
<1>4. CASE \E r \in Relays : RelayStep(r)
  <2> PICK r \in Relays : RelayStep(r)
    BY <1>4
  <2>1. CASE Start(r) \/ RequestStop(r) \/ Exit(r) \/ CleanupFallsDue(r)
    BY <2>1, LifeType, LifeRest DEF Rest
  <2>2. CASE Claim(r)
    BY <2>2, ClaimType, ClaimRest DEF Rest
  <2>3. CASE \E e \in Events : PublishOk(r, e) \/ PublishError(r, e)
    BY <2>3, PublishType, PublishRest DEF Rest
  <2>4. CASE CommitBatch(r)
    BY <2>4, CommitBatchType, CommitBatchRest DEF Rest
  <2>5. CASE AbortBatch(r) \/ Cancel(r) \/ Crash(r)
    BY <2>5, LoseBatchType, LoseBatchRest DEF Rest
  <2>6. CASE Cleanup(r) \/ CleanupFails(r)
    BY <2>6, CleanupType, CleanupRest, CleanupFailsRest DEF Rest
  <2> QED BY <2>1, <2>2, <2>3, <2>4, <2>5, <2>6 DEF RelayStep
<1> QED BY <1>1, <1>2, <1>3, <1>4 DEF Next

(***************************************************************************)
(* The inductive invariant holds in every reachable state, for any number  *)
(* of events and relays and all settings the configuration accepts.        *)
(***************************************************************************)
THEOREM Invariance == Spec => []Inv
<1>1. Init => Inv
  BY InitInv
<1>2. Inv /\ [Next]_vars => Inv'
  BY NextInv
<1> QED BY <1>1, <1>2, PTL DEF Spec

-----------------------------------------------------------------------------
(* What the invariant gives.                                                *)

(***************************************************************************)
(* Every variable keeps its type: in particular attempts never exceeds     *)
(* max_attempts and a delay never exceeds retry_max_seconds.               *)
(***************************************************************************)
THEOREM TypeCorrectness == Spec => []TypeOK
BY Invariance, PTL DEF Inv

(***************************************************************************)
(* A row settled as published has a message in the topic, across any       *)
(* number of rollbacks, crashes and relays.                                *)
(***************************************************************************)
THEOREM DeliveredIsSent == Spec => []Delivered
BY Invariance, PTL DEF Inv

(***************************************************************************)
(* Kafka never holds an event of a change that did not commit.             *)
(***************************************************************************)
THEOREM NoPhantomSent == Spec => []NoPhantom
BY Invariance, PTL DEF Inv

(***************************************************************************)
(* Each copy beyond the first is paid for by a counted attempt or a batch  *)
(* that was rolled back.                                                   *)
(***************************************************************************)
THEOREM DuplicatesBounded == Spec => []DuplicatesAccounted
<1>1. Inv => DuplicatesAccounted
  BY DEF Inv, CopiesOK, DuplicatesAccounted
<1> QED BY <1>1, Invariance, PTL

(***************************************************************************)
(* An event is given up exactly when its attempts are used up.             *)
(***************************************************************************)
THEOREM GivenUpAtMaxAttempts == Spec => []FailedAfterMaxAttempts
<1>1. Inv => FailedAfterMaxAttempts
  BY SettingsAssumption DEF Inv, TypeOK, AttemptsOK, FailedAfterMaxAttempts
<1> QED BY <1>1, Invariance, PTL

-----------------------------------------------------------------------------
(* Settled rows are final.                                                  *)

\* How each step may change the status of a row.
StatusMoves ==
    \A e \in Events :
        \/ status'[e] = status[e]
        \/ status[e] = "absent" /\ status'[e] = "open"
        \/ status[e] = "open" /\ status'[e] \in {"pending", "discarded"}
        \/ status[e] = "pending" /\ status'[e] \in {"published", "failed"}
        \/ status[e] = "published" /\ status'[e] = "removed"

\* The moves of the status column in one step.
LEMMA StepStatus == Inv /\ [Next]_vars => StatusMoves
<1> SUFFICES ASSUME Inv, [Next]_vars PROVE StatusMoves
  OBVIOUS
<1>1. CASE UNCHANGED status
  BY <1>1 DEF StatusMoves
<1>2. CASE \E e \in Events : Record(e) \/ CommitChange(e) \/ RollbackChange(e)
  BY <1>2 DEF StatusMoves, Record, CommitChange, RollbackChange, Inv, TypeOK
<1>3. CASE \E r \in Relays : CommitBatch(r)
  <2> PICK r \in Relays : CommitBatch(r)
    BY <1>3
  <2>1. \A e \in sent[r] \cup retried[r] : status[e] = "pending"
    BY DEF Inv, ClaimsOK, Claimed
  <2>2. \A e \in Events : status'[e] = StatusAfter(r, e)
    BY DEF CommitBatch
  <2> QED BY <2>1, <2>2 DEF StatusMoves, StatusAfter
<1>4. CASE \E r \in Relays : Cleanup(r)
  BY <1>4 DEF StatusMoves, Cleanup, Expired
<1>5. UNCHANGED status \/ (\E e \in Events : Record(e) \/ CommitChange(e) \/ RollbackChange(e))
      \/ \E r \in Relays : CommitBatch(r) \/ Cleanup(r)
  <2>1. CASE UNCHANGED vars
    BY <2>1 DEF vars, rows
  <2>2. CASE Tick
    BY <2>2 DEF Tick
  <2>3. CASE \E r \in Relays : RelayStep(r)
    BY <2>3 DEF RelayStep, Start, RequestStop, Exit, CleanupFallsDue, Claim, PublishOk,
                PublishError, AbortBatch, Cancel, Crash, LoseBatch, CleanupFails, rows
  <2> QED BY <2>1, <2>2, <2>3 DEF Next
<1> QED BY <1>1, <1>2, <1>3, <1>4, <1>5

(***************************************************************************)
(* No interleaving of relays takes a settled row back, and the cleanup     *)
(* never removes a failed one.                                             *)
(***************************************************************************)
THEOREM SettledStaysSettled == Spec => SettledIsFinal
<1> DEFINE Step == \A e \in Events :
         /\ status[e] = "published" => status'[e] \in {"published", "removed"}
         /\ status[e] = "failed" => status'[e] = "failed"
         /\ status[e] = "removed" => status'[e] = "removed"
<1>1. Inv /\ [Next]_vars => [Step]_vars
  BY StepStatus DEF StatusMoves
<1>2. Spec => [][Step]_vars
  BY <1>1, Invariance, PTL DEF Spec
<1> QED BY <1>2 DEF SettledIsFinal

-----------------------------------------------------------------------------
(* The relay implements EventDelivery.                                      *)

\* A step that moves no row between promises and sends nothing.
LEMMA StageStutter ==
    ASSUME \A e \in Events : StageOf(status'[e]) = StageOf(status[e]), UNCHANGED copies
    PROVE  UNCHANGED Delivery!vars
<1>1. Stage' = Stage
  BY DEF Stage
<1> QED BY <1>1 DEF Delivery!vars

\* One more copy of a pending event.
LEMMA StageSend ==
    ASSUME NEW e \in Events, status[e] = "pending", UNCHANGED status,
           copies' = [copies EXCEPT ![e] = @ + 1]
    PROVE  Delivery!Next
<1>1. Stage[e] = "owed" /\ Stage' = Stage
  BY DEF Stage, StageOf
<1>2. Delivery!Send(e)
  BY <1>1 DEF Delivery!Send
<1> QED BY <1>2 DEF Delivery!Next

\* At first nothing is owed.
LEMMA InitDelivery == Init => Delivery!Init
<1> SUFFICES ASSUME Init PROVE Delivery!Init
  OBVIOUS
<1>1. Stage = [e \in Events |-> "none"]
  BY DEF Stage, Init, StageOf
<1> QED BY <1>1 DEF Init, Delivery!Init

\* A committed change records a debt; one rolled back records none.
LEMMA BusinessDelivery ==
    ASSUME Inv, NEW e \in Events, Record(e) \/ CommitChange(e) \/ RollbackChange(e)
    PROVE  [Delivery!Next]_(Delivery!vars)
<1>1. CASE Record(e) \/ RollbackChange(e)
  <2>1. \A f \in Events : StageOf(status'[f]) = StageOf(status[f])
    BY <1>1 DEF Inv, TypeOK, Record, RollbackChange, StageOf
  <2> QED BY <1>1, <2>1, StageStutter DEF Record, RollbackChange
<1>2. CASE CommitChange(e)
  <2>1. Stage[e] = "none"
    BY <1>2 DEF Stage, CommitChange, StageOf
  <2>2. Stage' = [Stage EXCEPT ![e] = "owed"]
    BY <1>2 DEF Stage, CommitChange, StageOf, Inv, TypeOK
  <2>3. Delivery!Record(e)
    BY <1>2, <2>1, <2>2 DEF Delivery!Record, CommitChange
  <2> QED BY <2>3 DEF Delivery!Next
<1> QED BY <1>1, <1>2

\* A send is a Send of an owed event, or nothing.
LEMMA PublishDelivery ==
    ASSUME Inv, NEW r \in Relays, NEW e \in Events,
           PublishOk(r, e) \/ PublishError(r, e)
    PROVE  [Delivery!Next]_(Delivery!vars)
<1>1. e \in todo[r] /\ UNCHANGED status
  BY DEF PublishOk, PublishError, IsNext, rows
<1>2. status[e] = "pending"
  BY <1>1 DEF Inv, ClaimsOK, Claimed
<1>3. copies' = copies \/ copies' = [copies EXCEPT ![e] = @ + 1]
  BY DEF Inv, TypeOK, PublishOk, PublishError
<1> QED BY <1>1, <1>2, <1>3, StageStutter, StageSend

\* A lost batch is at most the Send of the record it was at.
LEMMA LoseBatchDelivery ==
    ASSUME Inv, NEW r \in Relays, LoseBatch(r)
    PROVE  [Delivery!Next]_(Delivery!vars)
<1>1. UNCHANGED status
  BY DEF LoseBatch, rows
<1>2. CASE UNCHANGED copies
  BY <1>1, <1>2, StageStutter
<1>3. CASE \E e \in Events : IsNext(r, e) /\ copies' = [copies EXCEPT ![e] = @ + 1]
  <2> PICK e \in Events : IsNext(r, e) /\ copies' = [copies EXCEPT ![e] = @ + 1]
    BY <1>3
  <2>1. status[e] = "pending"
    BY DEF IsNext, Inv, ClaimsOK, Claimed
  <2> QED BY <1>1, <2>1, StageSend
<1> QED BY <1>2, <1>3 DEF LoseBatch

\* A committed batch settles its sent and its given-up records together.
LEMMA CommitBatchDelivery ==
    ASSUME Inv, NEW r \in Relays, CommitBatch(r)
    PROVE  Delivery!Next
<1> DEFINE D == sent[r]
           A == {e \in retried[r] : attempts[e] + 1 >= MaxAttempts}
<1>1. D \in SUBSET Events /\ A \in SUBSET Events
  BY DEF Inv, TypeOK
<1>2. \A e \in D \cup retried[r] : status[e] = "pending"
  BY DEF Inv, ClaimsOK, Claimed
<1>3. \A e \in D \cup A : Stage[e] = "owed"
  BY <1>1, <1>2 DEF Stage, StageOf
<1>4. \A e \in D : copies[e] > 0
  BY DEF Inv, MarksOK
<1>5. D \cap retried[r] = {}
  BY DEF Inv, BatchesOK
<1>6. Stage' = [e \in Events |-> IF e \in D THEN "delivered"
                                ELSE IF e \in A THEN "abandoned" ELSE Stage[e]]
  <2>1. \A e \in Events : status'[e] = StatusAfter(r, e)
    BY DEF CommitBatch
  <2>2. \A e \in Events : StageOf(status'[e]) =
          IF e \in D THEN "delivered" ELSE IF e \in A THEN "abandoned" ELSE StageOf(status[e])
    BY <2>1, <1>2, <1>5 DEF StatusAfter, StageOf
  <2> QED BY <2>2 DEF Stage
<1>7. UNCHANGED copies
  BY DEF CommitBatch
<1>8. Delivery!Settle(D, A)
  BY <1>3, <1>4, <1>6, <1>7 DEF Delivery!Settle
<1> QED BY <1>1, <1>8 DEF Delivery!Next

\* A removed row stays delivered.
LEMMA CleanupDelivery ==
    ASSUME Inv, NEW r \in Relays, Cleanup(r)
    PROVE  UNCHANGED Delivery!vars
<1>1. \A e \in Events : StageOf(status'[e]) = StageOf(status[e])
  BY DEF Cleanup, Expired, StageOf
<1> QED BY <1>1, StageStutter DEF Cleanup

\* Every step is a step of EventDelivery or a stutter.
LEMMA NextDelivery == Inv /\ [Next]_vars => [Delivery!Next]_(Delivery!vars)
<1> SUFFICES ASSUME Inv, [Next]_vars PROVE [Delivery!Next]_(Delivery!vars)
  OBVIOUS
<1>1. CASE UNCHANGED <<status, copies>>
  BY <1>1, StageStutter
<1>2. CASE UNCHANGED vars
  BY <1>1, <1>2 DEF vars, rows
<1>3. CASE \E e \in Events : Record(e) \/ CommitChange(e) \/ RollbackChange(e)
  BY <1>3, BusinessDelivery
<1>4. CASE Tick
  BY <1>1, <1>4 DEF Tick
<1>5. CASE \E r \in Relays : RelayStep(r)
  <2> PICK r \in Relays : RelayStep(r)
    BY <1>5
  <2>1. CASE Start(r) \/ RequestStop(r) \/ Exit(r) \/ CleanupFallsDue(r) \/ Claim(r)
             \/ CleanupFails(r)
    BY <1>1, <2>1 DEF Start, RequestStop, Exit, CleanupFallsDue, Claim, CleanupFails, rows
  <2>2. CASE \E e \in Events : PublishOk(r, e) \/ PublishError(r, e)
    BY <2>2, PublishDelivery
  <2>3. CASE CommitBatch(r)
    BY <2>3, CommitBatchDelivery
  <2>4. CASE AbortBatch(r) \/ Cancel(r) \/ Crash(r)
    BY <2>4, LoseBatchDelivery DEF AbortBatch, Cancel, Crash
  <2>5. CASE Cleanup(r)
    BY <2>5, CleanupDelivery
  <2> QED BY <2>1, <2>2, <2>3, <2>4, <2>5 DEF RelayStep
<1> QED BY <1>2, <1>3, <1>4, <1>5 DEF Next

(***************************************************************************)
(* The relay keeps the promise of the outbox: under the mapping Stage each *)
(* of its behaviours is a behaviour of EventDelivery.                      *)
(***************************************************************************)
THEOREM Implementation == Spec => DeliverySpec
<1>1. Spec => Delivery!Init /\ [][Delivery!Next]_(Delivery!vars)
  BY InitDelivery, NextDelivery, Invariance, PTL DEF Spec
<1> QED BY <1>1 DEF DeliverySpec, Delivery!Spec
-----------------------------------------------------------------------------
(* First sends in the order of the changes.                                 *)

\* The rows that have been recorded.
Recorded == {f \in Events : status[f] # "absent"}

\* At first nothing is recorded, tried or claimed.
LEMMA InitOrder == Init => OrderInv
<1> SUFFICES ASSUME Init PROVE OrderInv
  OBVIOUS
<1>1. RecordedInOrder
  BY DEF Init, RecordedInOrder
<1>2. (\A e \in Events : attempts[e] = 0 => dueIn[e] = 0) /\ ClaimedInOrder
  BY DEF Init, ClaimedInOrder
<1> QED BY <1>1, <1>2, InitInv DEF OrderInv

\* created_at is taken behind all that is recorded, under the row lock.
LEMMA RecordOrder == ASSUME OrderInv, NEW e \in Events, Record(e) PROVE RecordedInOrder'
<1>1. status[e] = "absent" /\ AggregateUnlocked(e)
  BY DEF Record
<1>2. \A f \in Events : status'[f] = IF f = e THEN "open" ELSE status[f]
  BY DEF Record, OrderInv, Inv, TypeOK
<1>3. \A f \in Events : createdAt'[f] = IF f = e THEN Cardinality(Recorded) ELSE createdAt[f]
  BY DEF Record, Recorded, OrderInv, Inv, TypeOK
<1>4. Recorded' = Recorded \cup {e} /\ e \notin Recorded
  BY <1>1, <1>2 DEF Recorded
<1>5. IsFiniteSet(Recorded)
  BY EventsAssumption, FS_Subset DEF Recorded
<1>6. Cardinality(Recorded) \in Nat /\ Cardinality(Recorded') = Cardinality(Recorded) + 1
  BY <1>4, <1>5, FS_CardinalityType, FS_AddElement
<1>7. \A f \in Recorded : createdAt[f] \in Nat /\ createdAt[f] < Cardinality(Recorded)
  BY DEF OrderInv, Inv, TypeOK, RecordedInOrder, Recorded
<1>8. \A f \in Events : status'[f] # "absent" => createdAt'[f] < Cardinality(Recorded')
  <2> SUFFICES ASSUME NEW f \in Events, status'[f] # "absent"
               PROVE  createdAt'[f] < Cardinality(Recorded')
    OBVIOUS
  <2>1. CASE f = e
    BY <2>1, <1>3, <1>6
  <2>2. CASE f # e
    <3>1. f \in Recorded
      BY <2>2, <1>2 DEF Recorded
    <3> QED BY <2>2, <3>1, <1>3, <1>6, <1>7
  <2> QED BY <2>1, <2>2
<1>9. ASSUME NEW d \in Events, NEW f \in Events, status'[d] = "open", status'[f] # "absent",
             d # f, AggregateOf[d] = AggregateOf[f]
      PROVE  createdAt'[f] < createdAt'[d]
  <2>1. CASE d = e
    BY <2>1, <1>2, <1>3, <1>7, <1>9 DEF Recorded
  <2>2. CASE d # e
    <3>1. status[d] = "open" /\ AggregateOf[d] # AggregateOf[e]
      BY <2>2, <1>1, <1>2, <1>9 DEF AggregateUnlocked
    <3>2. f # e /\ status[f] # "absent"
      BY <3>1, <1>2, <1>9
    <3> QED BY <2>2, <3>1, <3>2, <1>3, <1>9 DEF OrderInv, RecordedInOrder
  <2> QED BY <2>1, <2>2
<1> QED BY <1>8, <1>9 DEF RecordedInOrder, Recorded

\* Whatever records nothing keeps the order of what is recorded.
LEMMA RecordedKept ==
    ASSUME RecordedInOrder, UNCHANGED createdAt,
           \A e \in Events : status'[e] = "absent" <=> status[e] = "absent",
           \A e \in Events : status'[e] = "open" => status[e] = "open"
    PROVE  RecordedInOrder'
<1>1. Recorded' = Recorded
  BY DEF Recorded
<1> QED BY <1>1 DEF RecordedInOrder, Recorded

\* Only Record makes a row, and none is opened again.
LEMMA StepRecorded == ASSUME OrderInv, [Next]_vars PROVE RecordedInOrder'
<1>1. StatusMoves
  BY StepStatus DEF OrderInv
<1>2. CASE \E e \in Events : Record(e)
  BY <1>2, RecordOrder
<1>3. CASE UNCHANGED createdAt /\ ~ \E e \in Events : Record(e)
  <2>1. \A e \in Events : status[e] = "absent" => status'[e] = "absent"
    <3>1. CASE UNCHANGED status
      BY <3>1
    <3>2. CASE \E e \in Events : CommitChange(e) \/ RollbackChange(e)
      BY <3>2 DEF CommitChange, RollbackChange, OrderInv, Inv, TypeOK
    <3>3. CASE \E r \in Relays : CommitBatch(r)
      <4> PICK r \in Relays : CommitBatch(r)
        BY <3>3
      <4>1. \A e \in sent[r] \cup retried[r] : status[e] = "pending"
        BY DEF OrderInv, Inv, ClaimsOK, Claimed
      <4> QED BY <4>1 DEF CommitBatch, StatusAfter
    <3>4. CASE \E r \in Relays : Cleanup(r)
      BY <3>4 DEF Cleanup, Expired
    <3>5. CASE \E r \in Relays : RelayStep(r) /\ ~ CommitBatch(r) /\ ~ Cleanup(r)
      BY <3>1, <3>5 DEF RelayStep, Start, RequestStop, Exit, CleanupFallsDue, Claim,
         PublishOk, PublishError, AbortBatch, Cancel, Crash, LoseBatch, CleanupFails, rows
    <3>6. CASE Tick \/ UNCHANGED vars
      BY <3>1, <3>6 DEF Tick, vars, rows
    <3> QED BY <1>3, <3>2, <3>3, <3>4, <3>5, <3>6 DEF Next
  <2> QED BY <1>1, <1>3, <2>1, RecordedKept DEF StatusMoves, OrderInv
<1>4. UNCHANGED createdAt \/ \E e \in Events : Record(e)
  <2>1. CASE \E e \in Events : CommitChange(e) \/ RollbackChange(e)
    BY <2>1 DEF CommitChange, RollbackChange
  <2>2. CASE Tick \/ UNCHANGED vars
    BY <2>2 DEF Tick, vars, rows
  <2>3. CASE \E r \in Relays : RelayStep(r)
    BY <2>3 DEF RelayStep, Start, RequestStop, Exit, CleanupFallsDue, Claim, PublishOk,
       PublishError, CommitBatch, AbortBatch, Cancel, Crash, LoseBatch, Cleanup,
       CleanupFails, rows
  <2> QED BY <2>1, <2>2, <2>3 DEF Next
<1> QED BY <1>2, <1>3, <1>4

\* Only a counted attempt delays an event.
LEMMA StepDue == ASSUME OrderInv, [Next]_vars
                 PROVE  \A e \in Events : attempts'[e] = 0 => dueIn'[e] = 0
<1>1. CASE UNCHANGED <<attempts, dueIn>>
  BY <1>1 DEF OrderInv
<1>2. CASE \E r \in Relays : CommitBatch(r)
  <2> PICK r \in Relays : CommitBatch(r)
    BY <1>2
  <2> SUFFICES ASSUME NEW e \in Events, attempts'[e] = 0 PROVE dueIn'[e] = 0
    OBVIOUS
  <2>1. attempts'[e] = IF e \in retried[r] THEN attempts[e] + 1 ELSE attempts[e]
    BY DEF CommitBatch
  <2>2. e \notin retried[r] /\ attempts[e] = 0
    BY <2>1, SettingsAssumption DEF OrderInv, Inv, TypeOK
  <2>3. dueIn'[e] = dueIn[e]
    BY <2>2 DEF CommitBatch, DueAfter
  <2> QED BY <2>2, <2>3 DEF OrderInv
<1>3. CASE Tick
  BY <1>3 DEF Tick, OrderInv
<1>4. CASE \E r \in Relays : RelayStep(r) /\ ~ CommitBatch(r)
  BY <1>1, <1>4 DEF RelayStep, Start, RequestStop, Exit, CleanupFallsDue, Claim, PublishOk,
     PublishError, AbortBatch, Cancel, Crash, LoseBatch, Cleanup, CleanupFails, rows
<1>5. CASE UNCHANGED vars \/ \E e \in Events : Record(e) \/ CommitChange(e) \/ RollbackChange(e)
  BY <1>1, <1>5 DEF Record, CommitChange, RollbackChange, vars, rows
<1> QED BY <1>2, <1>3, <1>4, <1>5 DEF Next

\* A step that makes no event committed or untried and claims nothing keeps
\* the order of the claims, if it drops only events that are tried by then.
LEMMA ClaimedKept ==
    ASSUME ClaimedInOrder, UNCHANGED createdAt, Committed' \subseteq Committed,
           failures > 0 => failures' > 0,
           \A r \in Relays : todo'[r] \subseteq todo[r],
           \A e \in Events : Untried(e)' =>
               /\ Untried(e)
               /\ (\E q \in Relays : e \in todo[q]) => \E q \in Relays : e \in todo'[q]
    PROVE  ClaimedInOrder'
<1> SUFFICES ASSUME NEW e \in Events, NEW f \in Events, Precedes(e, f)', Untried(e)',
                    NEW r \in Relays, f \in todo'[r]
             PROVE  (\E q \in Relays : e \in todo'[q]) \/ (Several /\ failures' > 0)
  BY DEF ClaimedInOrder, Several
<1>1. Precedes(e, f) /\ Untried(e) /\ f \in todo[r]
  BY DEF Precedes
<1>2. (\E q \in Relays : e \in todo[q]) \/ (Several /\ failures > 0)
  BY <1>1 DEF ClaimedInOrder
<1> QED BY <1>2

\* Which rows are committed follows the moves of the status column.
LEMMA CommittedKept ==
    ASSUME StatusMoves, \A e \in Events : status[e] = "open" => status'[e] # "pending"
    PROVE  Committed' \subseteq Committed
BY DEF StatusMoves, Committed

\* A change that commits now comes after all that are claimed.
LEMMA BusinessOrder ==
    ASSUME OrderInv, NEW d \in Events, Record(d) \/ CommitChange(d) \/ RollbackChange(d)
    PROVE  ClaimedInOrder'
<1>1. UNCHANGED <<attempts, todo, retried, copies, failures>>
  BY DEF Record, CommitChange, RollbackChange, batches, counters
<1>2. status[d] \in {"absent", "open"}
      /\ \A f \in Events : f # d => status'[f] = status[f] /\ createdAt'[f] = createdAt[f]
  BY DEF Record, CommitChange, RollbackChange, OrderInv, Inv, TypeOK
<1> SUFFICES ASSUME NEW e \in Events, NEW f \in Events, Precedes(e, f)', Untried(e)',
                    NEW r \in Relays, f \in todo[r]
             PROVE  (\E q \in Relays : e \in todo[q]) \/ (Several /\ failures > 0)
  BY <1>1 DEF ClaimedInOrder, Several
<1>3. status[f] = "pending" /\ f # d
  BY <1>2 DEF OrderInv, Inv, ClaimsOK, Claimed
<1>4. CASE e # d
  <2>1. Precedes(e, f) /\ Untried(e)
    BY <1>1, <1>2, <1>3, <1>4 DEF Precedes, Committed, Untried
  <2> QED BY <2>1 DEF OrderInv, ClaimedInOrder
<1>5. CASE e = d
  <2>1. status[d] = "open" /\ UNCHANGED createdAt
    BY <1>5 DEF Precedes, Committed, Record, CommitChange, RollbackChange, OrderInv, Inv, TypeOK
  <2>2. createdAt[f] < createdAt[e]
    BY <1>3, <1>5, <2>1 DEF Precedes, OrderInv, RecordedInOrder
  <2>3. createdAt[e] < createdAt[f]
    BY <2>1 DEF Precedes
  <2> QED BY <2>2, <2>3 DEF OrderInv, Inv, TypeOK
<1> QED BY <1>4, <1>5

\* A claim takes the earlier event with the later one, or finds it claimed.
LEMMA ClaimOrder == ASSUME OrderInv, NEW r \in Relays, Claim(r) PROVE ClaimedInOrder'
<1> PICK S \in SUBSET Eligible : IsFirstPage(S, Eligible) /\ todo' = [todo EXCEPT ![r] = S]
  BY DEF Claim
<1>1. UNCHANGED <<status, createdAt, attempts, retried, copies, failures>>
  BY DEF Claim, rows, counters
<1>2. \A q \in Relays : todo'[q] = IF q = r THEN S ELSE todo[q]
  BY DEF OrderInv, Inv, TypeOK
<1>3. todo[r] = {}
  BY DEF Claim, OrderInv, Inv, BatchesOK, Claimed
<1> SUFFICES ASSUME NEW e \in Events, NEW f \in Events, Precedes(e, f), Untried(e),
                    NEW q \in Relays, f \in todo'[q]
             PROVE  (\E p \in Relays : e \in todo'[p]) \/ (Several /\ failures > 0)
  BY <1>1 DEF ClaimedInOrder, Several, Precedes, Committed, Untried
<1>4. (\E p \in Relays : e \in todo[p]) => \E p \in Relays : e \in todo'[p]
  BY <1>2, <1>3
<1>5. CASE q # r
  BY <1>2, <1>4, <1>5 DEF OrderInv, ClaimedInOrder
<1>6. CASE q = r
  <2>1. f \in S /\ S \subseteq Eligible
    BY <1>2, <1>6
  <2>2. status[e] = "pending"
    BY SettingsAssumption DEF Precedes, Committed, Untried, OrderInv, Inv, TypeOK, Delivered, AttemptsOK
  <2>3. dueIn[e] = 0
    BY DEF Untried, OrderInv
  <2>4. CASE e \in Locked
    <3>1. PICK p \in Relays : e \in Claimed(p)
      BY <2>4 DEF Locked
    <3>2. e \notin sent[p]
      BY DEF OrderInv, Inv, TypeOK, MarksOK, Untried
    <3>3. e \in todo[p]
      BY <3>1, <3>2 DEF Claimed, Untried
    <3> QED BY <3>3, <1>4
  <2>5. CASE e \notin Locked
    <3>1. e \in Eligible
      BY <2>2, <2>3, <2>5 DEF Eligible
    <3>2. e \in S
      <4> SUFFICES ASSUME e \notin S PROVE FALSE
        OBVIOUS
      <4>1. createdAt[f] < createdAt[e]
        BY <2>1, <3>1 DEF IsFirstPage
      <4> QED BY <4>1 DEF Precedes, OrderInv, Inv, TypeOK
    <3> QED BY <3>2, <1>2
  <2> QED BY <2>4, <2>5
<1> QED BY <1>5, <1>6

\* A record leaves the queue of its batch with a message or a retry mark.
LEMMA PublishOrder ==
    ASSUME OrderInv, NEW r \in Relays, NEW d \in Events,
           PublishOk(r, d) \/ PublishError(r, d)
    PROVE  ClaimedInOrder'
<1>1. UNCHANGED <<status, createdAt, attempts, failures>>
  BY DEF PublishOk, PublishError, rows, counters
<1>2. \A q \in Relays : todo'[q] = IF q = r THEN todo[q] \ {d} ELSE todo[q]
  BY DEF PublishOk, PublishError, OrderInv, Inv, TypeOK
<1>3. \A q \in Relays : retried[q] \subseteq retried'[q]
  BY DEF PublishOk, PublishError, OrderInv, Inv, TypeOK
<1>4. \A e \in Events : copies[e] \in Nat /\ copies'[e] \in Nat /\ copies[e] <= copies'[e]
  BY DEF PublishOk, PublishError, OrderInv, Inv, TypeOK
<1>5. \A e \in Events : Untried(e)' => Untried(e)
  BY <1>1, <1>3, <1>4 DEF Untried
<1>6. ~ Untried(d)'
  BY <1>4 DEF PublishOk, PublishError, Untried, OrderInv, Inv, TypeOK
<1>7. Committed' = Committed
  BY <1>1 DEF Committed
<1>8. \A e \in Events : Untried(e)' /\ (\E q \in Relays : e \in todo[q])
                          => \E q \in Relays : e \in todo'[q]
  BY <1>2, <1>6
<1>9. \A q \in Relays : todo'[q] \subseteq todo[q]
  BY <1>2
<1> QED BY <1>1, <1>5, <1>7, <1>8, <1>9, ClaimedKept DEF OrderInv

\* A committed batch has emptied its queue and counts its failed sends.
LEMMA CommitBatchOrder == ASSUME OrderInv, NEW r \in Relays, CommitBatch(r) PROVE ClaimedInOrder'
<1>1. UNCHANGED <<createdAt, copies, failures>>
  BY DEF CommitBatch, counters
<1>2. \A q \in Relays : todo'[q] = todo[q] /\ (q # r => retried'[q] = retried[q])
  BY DEF CommitBatch, EndBatch, OrderInv, Inv, TypeOK
<1>3. \A e \in Events : attempts[e] \in Nat
        /\ attempts'[e] = IF e \in retried[r] THEN attempts[e] + 1 ELSE attempts[e]
  BY SettingsAssumption DEF CommitBatch, OrderInv, Inv, TypeOK
<1>4. \A e \in Events : Untried(e)' => Untried(e)
  BY <1>1, <1>2, <1>3 DEF Untried
<1>5. \A e \in sent[r] \cup retried[r] : status[e] = "pending"
  BY DEF OrderInv, Inv, ClaimsOK, Claimed
<1>6. \A e \in Events : e \in Committed' => e \in Committed
  BY <1>5 DEF CommitBatch, Committed, StatusAfter
<1>7. Committed' \subseteq Committed
  BY <1>6 DEF Committed
<1> QED BY <1>1, <1>2, <1>4, <1>7, ClaimedKept DEF OrderInv

\* A lost batch drops earlier and later events together; only a second relay
\* can be left with the later one, and then the loss is counted.
LEMMA LoseBatchOrder == ASSUME OrderInv, NEW r \in Relays, LoseBatch(r) PROVE ClaimedInOrder'
<1>1. UNCHANGED <<status, createdAt, attempts>> /\ failures' = failures + 1 /\ failures \in Nat
  BY DEF LoseBatch, rows, OrderInv, Inv, TypeOK
<1>2. \A q \in Relays : /\ todo'[q] = IF q = r THEN {} ELSE todo[q]
                        /\ retried'[q] = IF q = r THEN {} ELSE retried[q]
  BY DEF LoseBatch, EndBatch, OrderInv, Inv, TypeOK
<1>3. \A e \in Events : copies[e] \in Nat /\ copies'[e] \in {copies[e], copies[e] + 1}
  BY DEF LoseBatch, OrderInv, Inv, TypeOK
<1> SUFFICES ASSUME ~ Several,
                    NEW e \in Events, NEW f \in Events, NEW q \in Relays, f \in todo'[q]
             PROVE  FALSE
  BY <1>1 DEF ClaimedInOrder, Several
<1>4. q = r
  BY DEF Several
<1> QED BY <1>2, <1>4

\* Nothing else touches a claim, a mark or the rows of a claim.
LEMMA QuietOrder ==
    ASSUME OrderInv, StatusMoves,
           \A e \in Events : status[e] = "open" => status'[e] # "pending",
           UNCHANGED <<createdAt, attempts, todo, retried, copies>>,
           failures > 0 => failures' > 0
    PROVE  ClaimedInOrder'
<1>1. \A e \in Events : Untried(e)' <=> Untried(e)
  BY DEF Untried
<1> QED BY <1>1, CommittedKept, ClaimedKept DEF OrderInv

\* Every step keeps the strengthened invariant.
LEMMA NextOrder == OrderInv /\ [Next]_vars => OrderInv'
<1> SUFFICES ASSUME OrderInv, [Next]_vars PROVE OrderInv'
  OBVIOUS
<1>1. StatusMoves /\ Inv'
  BY StepStatus, NextInv DEF OrderInv
<1>2. ClaimedInOrder'
  <2>1. CASE UNCHANGED vars
    BY <1>1, <2>1, QuietOrder DEF vars, rows, batches, counters
  <2>2. CASE \E e \in Events : Record(e) \/ CommitChange(e) \/ RollbackChange(e)
    BY <2>2, BusinessOrder
  <2>3. CASE Tick
    BY <1>1, <2>3, QuietOrder DEF Tick, counters
  <2>4. CASE \E r \in Relays : RelayStep(r)
    <3> PICK r \in Relays : RelayStep(r)
      BY <2>4
    <3>1. CASE Start(r) \/ RequestStop(r) \/ Exit(r) \/ CleanupFallsDue(r)
      BY <1>1, <3>1, QuietOrder DEF Start, RequestStop, Exit, CleanupFallsDue, rows, batches, counters
    <3>2. CASE Claim(r)
      BY <3>2, ClaimOrder
    <3>3. CASE \E e \in Events : PublishOk(r, e) \/ PublishError(r, e)
      BY <3>3, PublishOrder
    <3>4. CASE CommitBatch(r)
      BY <3>4, CommitBatchOrder
    <3>5. CASE AbortBatch(r) \/ Cancel(r) \/ Crash(r)
      BY <3>5, LoseBatchOrder DEF AbortBatch, Cancel, Crash
    <3>6. CASE Cleanup(r)
      <4>1. \A e \in Events : status[e] = "open" => status'[e] # "pending"
        BY <3>6 DEF Cleanup, Expired
      <4> QED BY <1>1, <3>6, <4>1, QuietOrder DEF Cleanup, batches, counters
    <3>7. CASE CleanupFails(r)
      <4>1. failures' = failures + 1 /\ failures \in Nat
        BY <3>7 DEF CleanupFails, OrderInv, Inv, TypeOK
      <4> QED BY <1>1, <3>7, <4>1, QuietOrder DEF CleanupFails, rows, batches
    <3> QED BY <3>1, <3>2, <3>3, <3>4, <3>5, <3>6, <3>7 DEF RelayStep
  <2> QED BY <2>1, <2>2, <2>3, <2>4 DEF Next
<1> QED BY <1>1, <1>2, StepRecorded, StepDue DEF OrderInv

\* A new message is one of the record a batch stands at.
LEMMA SentIsNext ==
    ASSUME OrderInv, [Next]_vars, NEW f \in Events, copies[f] = 0, copies'[f] > 0
    PROVE  \E r \in Relays : IsNext(r, f)
<1>1. copies'[f] # copies[f]
  BY DEF OrderInv, Inv, TypeOK
<1>2. CASE \E r \in Relays, e \in Events : PublishOk(r, e) \/ PublishError(r, e)
  BY <1>1, <1>2 DEF PublishOk, PublishError, OrderInv, Inv, TypeOK
<1>3. CASE \E r \in Relays : LoseBatch(r)
  BY <1>1, <1>3 DEF LoseBatch, OrderInv, Inv, TypeOK
<1>4. ~ (UNCHANGED vars \/ Tick \/ \E e \in Events : Record(e) \/ CommitChange(e) \/ RollbackChange(e))
  BY <1>1 DEF vars, Tick, Record, CommitChange, RollbackChange
<1>5. CASE \E r \in Relays : RelayStep(r)
  BY <1>1, <1>2, <1>3, <1>5 DEF RelayStep, Start, RequestStop, Exit, CleanupFallsDue, Claim,
     CommitBatch, AbortBatch, Cancel, Crash, Cleanup, CleanupFails
<1> QED BY <1>4, <1>5 DEF Next

(***************************************************************************)
(* For any number of relays and events, an event is first sent before an   *)
(* earlier one of its aggregate only past a failed send of that one, or    *)
(* while another relay has it, or after a loss with several relays.        *)
(***************************************************************************)
THEOREM FirstSendsStayInOrder == Spec => FirstSendsInOrder
<1> DEFINE Step == \A e, f \in Events :
         Precedes(e, f) /\ copies[e] = 0 /\ copies[f] = 0 /\ copies'[f] > 0 =>
             \/ attempts[e] > 0
             \/ \E r \in Relays : e \in retried[r]
             \/ \E r \in Relays : e \in todo[r] /\ f \notin todo[r]
             \/ Several /\ failures > 0
<1>1. OrderInv /\ [Next]_vars => Step
  <2> SUFFICES ASSUME OrderInv, [Next]_vars, NEW e \in Events, NEW f \in Events,
                      Precedes(e, f), copies[e] = 0, copies[f] = 0, copies'[f] > 0,
                      ~ (attempts[e] > 0), \A r \in Relays : e \notin retried[r],
                      ~ (Several /\ failures > 0)
               PROVE  \E r \in Relays : e \in todo[r] /\ f \notin todo[r]
    OBVIOUS
  <2>1. PICK r \in Relays : IsNext(r, f)
    BY SentIsNext
  <2>2. Untried(e)
    BY SettingsAssumption DEF Untried, OrderInv, Inv, TypeOK
  <2>3. f \in todo[r]
    BY <2>1 DEF IsNext
  <2>4. PICK q \in Relays : e \in todo[q]
    BY <2>2, <2>3 DEF OrderInv, ClaimedInOrder
  <2>5. e \notin todo[r]
    BY <2>1 DEF IsNext, Precedes, OrderInv, Inv, TypeOK
  <2>6. f \notin todo[q]
    BY <2>3, <2>4, <2>5 DEF OrderInv, Inv, ClaimsOK, Claimed
  <2> QED BY <2>4, <2>6
<1>2. Spec => []OrderInv
  BY InitOrder, NextOrder, PTL DEF Spec
<1>3. OrderInv /\ [Next]_vars => [Step]_vars
  BY <1>1
<1>4. Spec => [][Step]_vars
  BY <1>2, <1>3, PTL DEF Spec
<1> QED BY <1>4 DEF FirstSendsInOrder
==============================================================================
