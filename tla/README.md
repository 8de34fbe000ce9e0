# Verification of the school service

TLA+ models of `schoolhub-school-service` (the FastAPI service under `app/`),
the TLC runs that check them on small instances, and the theorems about them
that TLAPS proves for every value of the constants.

The service keeps classes, members, subjects, a weekly schedule with dated
overrides, homework with revisions, completions and attachments, and school
events in PostgreSQL. It caches reads in Redis, stores attachments in an
S3-compatible store, and announces every change on a Kafka topic through a
transactional outbox.

## 1. Inventory

| Component | State | Operations | Hard behaviour |
|---|---|---|---|
| Outbox and relay (`broker/outbox_relay.py`, `repositories/outbox.py`, `services/base.py`, `broker/kafka_producer.py`) | `outbox_events` rows; per process: task, stop event, cleanup timer; per batch: claimed and marked rows | `record_event`, `process_batch` (claim, publish, mark, retry), `cleanup_published`, `start`, `stop` | several instances; a send is not transactional; crash, cancellation or database error in the middle of a batch; retries; order of one key |
| Homework (`services/homework.py`, `repositories/homework.py`) | `homeworks`, `homework_revisions`, `homework_completions` | `create`, `update`, `delete`, `mark_completed`, `unmark_completed`, reads | READ COMMITTED: reads without lock, then writes; revision decided from what was read; cascade against concurrent inserts |
| Attachments (`services/homework.py`, `storage/s3.py`) | `homework_attachments`, objects in the store | `upload_attachment`, `delete_attachment`, `download_attachment`, part of `delete` | two stores and no transaction over both; compensation; ambiguous COMMIT; objects removed after the commit |
| Schedule (`services/schedule.py`, `repositories/schedule.py`) | `schedule_entries`, `schedule_overrides` | create, update, delete of entries and overrides; `merge_schedule`; day and week reads | slot check then insert; validation of a partial update against an unlocked read |
| Cache (`cache/json.py`, `cache/redis.py`, `cache/keys.py`) | Redis keys with TTL | `get`, `set`, `invalidate`, `invalidate_pattern` | reader repopulates after the invalidation; Redis fails between commit and invalidation; weeks made of cached days |
| Classes, members, subjects, access (`services/classes.py`, `services/access.py`) | `school_classes`, `class_members`, `subjects` | create, update, delete; `require_member`, `require_editor`, `require_admin` | unique membership; a role checked in one statement and used in a later one; subject in use |
| School events and day view (`services/events.py`, `services/day.py`) | `school_events` | create, update, delete, `list_for_day`, day view | dates validated against an unlocked read; interval boundaries |
| Lifespan and connections (`main.py`, `broker/kafka_client.py`, `cache/redis.py`, `storage/s3.py`) | connected clients | connect, close, ordered shutdown | connect racing close; partial startup |
| HTTP API (`api/`), schemas, exceptions | none | one service call per request | none: translation only |
| Health, metrics, logging, configuration (`core/`) | counters | read-only probes | none |
| Migrations, infrastructure | schema, deployment | | outside the program |

How they interact:

* A request opens one SQLAlchemy session. A write operation is one
  `session.begin()` transaction (an upload has two), in which the service checks
  access and the named rows, writes, and calls `record_event`, which adds an
  `outbox_events` row to the same transaction. After the commit it invalidates
  cache keys and, for attachments, removes objects.
* The relay task of each process claims pending outbox rows with
  `FOR UPDATE SKIP LOCKED`, sends each to Kafka, marks it, and commits the batch.
* Readers consult Redis first, then PostgreSQL, and write what they read back.
* Foreign keys tie everything to its class (CASCADE) and to its subject
  (RESTRICT); homework children cascade with their homework.

What makes each component correct:

* Outbox: no committed event lost, none sent for an uncommitted change,
  duplicates only on account of a failed attempt or a lost batch, given up
  exactly at `max_attempts`, settled rows final, order of first sends kept up to
  failures, everything settled and removed in the end.
* Homework: dates in order, children never outlive their homework, the history
  explains the text, the events tell the life, requests do not deadlock.
* Attachments: what is listed is stored; what is stored is listed in the end,
  except for named failures.
* Schedule: one entry per slot, valid overrides, the merged day as defined.
* Cache: a stale value lives for a bounded time; with no failure and no race a
  read after a write sees it.
* Members and access: one membership per person and class, and the events tell
  it; a write happens only by somebody who was an editor at some moment of its
  request; a subject that is named is there.
* School events: dates in order, stored and announced; an event is listed on
  each day it touches.
* Lifespan: no client is left open, or opened twice, whatever raises an error.

`PROJECT.json` lists the hazards behind these, each at its line.

## 2. Modules

| Module | What it is |
|---|---|
| `EventDelivery` | what the outbox promises to consumers, with no table, lock, batch or clock |
| `OutboxRelay` | business transactions, the relays and their batches; its properties, fairness and inductive invariant; the refinement of `EventDelivery` |
| `OutboxRelayProofs` | theorems about `OutboxRelay` |
| `OutboxBackoff` | `OutboxRelay` with a history variable: when in its batch a send failed |
| `HomeworkValues` | the row of a homework, its revisions, and what a PATCH body makes of them; operators only |
| `HomeworkLife` | what the requests on one homework amount to, with no reads, statements or locks |
| `HomeworkEditing` | concurrent requests on one homework, statement by statement, with row and key-share locks; the refinement of `HomeworkLife` |
| `HomeworkEditingProofs` | theorems about `HomeworkEditing` and `HomeworkHistory` |
| `HomeworkHistory` | `HomeworkEditing` with a history variable: whether updates have overlapped |
| `HomeworkAttachments` | uploads, removals and deletions over the database and the object store |
| `HomeworkAttachmentsProofs` | theorems about `HomeworkAttachments` |
| `ScheduleRows` | the rows of the schedule, what makes them valid, and the day they define; operators only |
| `ScheduleRowsProofs` | lemmas about these operators |
| `MergeSchedule` | the loop of `merge_schedule` |
| `MergeScheduleProofs` | theorems about `MergeSchedule` |
| `SchedulePatches` | what requests may store in the schedule, and what a PATCH body makes of a row; operators only |
| `Timetable` | what the requests on the schedule amount to, with no reads, locks or index |
| `ScheduleEditing` | concurrent requests on entries and overrides, with row locks and the unique index; the refinement of `Timetable` |
| `ScheduleEditingProofs` | theorems about `ScheduleEditing` |
| `ScheduleCache` | readers and writers of the day and week keys in Redis |
| `ScheduleCacheProofs` | theorems about `ScheduleCache` |
| `ClassValues` | memberships, the dates of a school event, and what a PATCH body makes of them; operators only |
| `ClassRegister` | what the requests on the members, the school event and the subject of a class amount to |
| `ClassMembers` | the members of a class: concurrent requests on them, and the access check of every other request |
| `Subjects` | a subject and the rows that name it, with row and key-share locks |
| `SchoolEvents` | a school event: its updates, its announcements, the days it is listed on |
| `SchoolClass` | the three composed over the same requests, with uploads; their inductive invariant; the refinement of `ClassRegister` |
| `Lifespan` | the process around the requests of `SchoolClass`: startup, shutdown, the connection of Redis |
| `SchoolClassProofs` | theorems about `SchoolClass` and `Lifespan` |
| `MC...` | instances for TLC: model values and symmetry |

Some definitions in the modules are headed "Mutation of ...": a form of the
definition after them with a plausible bug (a dropped guard, a missing reset, a
swapped order). No specification uses them. Put in the place of the definition
they mutate, each makes a property fail; `PROJECT.json` says which, so that a
property that no change of the code could break would be noticed.

### The abstract specifications

`EventDelivery`, `HomeworkLife`, `Timetable` and `ClassRegister` say what a
component promises to those who do not see its tables, locks and statements. In
the last three a request (in `ClassRegister` once it has been let through, if what
it wants needs the editor's role) first asks (`Ask` puts one order into `asked[q]`), and
then either takes effect in one step, `Apply`, with everything that goes with
it (the revision, the event, the announcement), or is forgotten. A creation, and
what else the code does in one statement, is one step without asking. Each
detailed module computes `asked` from what a request carries (`Order`, `Asked`)
and its commit must be an `Apply` of exactly that order on the state of that
moment: an update that writes back what it had read, a row that is revived, or
an event that announces something else is no step of the abstract module. Where
the code does keep less, so does the abstract module, and says it: a second
deletion is announced again, the announced dates of a school event may be laid
over overtaken ones, a revision may start from an earlier text of the history.
`Ask` and `Answer` name the new value of `asked[q]` before they look into it, so
that TLC need not enumerate the orders.

### OutboxRelay and the code

| Model | Code |
|---|---|
| `status`, `createdAt`, `attempts` | the columns of `outbox_events`; "absent", "open", "discarded" and "removed" stand for rows that are not there (yet, or any more) |
| `dueIn`, `age` | `available_at` and `published_at`, relative to the clock |
| `mode`, `stopping`, `due` | where `_run` stands, `_stop_event`, `loop.time() >= next_cleanup_at` |
| `todo`, `sent`, `retried`, `elapsed` | the records of the batch still to be handled, the uncommitted marks, the time since `now` |
| `copies` | the messages Kafka holds; external |
| `Record`, `CommitChange`, `RollbackChange` | `record_event`/`enqueue` and the end of the business transaction |
| `Claim` | the start of `process_batch` with `claim_pending` |
| `PublishOk`, `PublishError` | one round of its loop; after an error the message may have been appended or not |
| `CommitBatch` | the commit, with the effect of every `mark_published` and `mark_retry` of the batch |
| `AbortBatch`, `Cancel`, `Crash` | a database error, `stop()` after its timeout, the death of the process: the marks are rolled back, a send may be in flight |
| `Cleanup`, `CleanupFails` | `cleanup_published` as `_run` calls it |
| `Start`, `RequestStop`, `Exit`, `CleanupFallsDue` | `start`, `stop`, the loop condition, the timer |

The batch is one database transaction: nothing of it is visible before the
commit, its claimed rows stay locked, and other relays skip them. `created_at`
is a rank, given by one clock, at the flush; two open transactions about one
aggregate exclude each other by the row lock of the aggregate. A COMMIT that
takes effect and reports an error is `CommitBatch` (and a `Crash` after it).

### HomeworkEditing and the code

A request takes one step per statement: the unlocked read with the validation
against it, the insert of the revision, the UPDATE, the DELETE, the upsert, and
the commit. `seen` is the ORM entity, `change` the fields of the PATCH body,
`draft` the inserted revision. Locks are not variables: who holds one follows
from `pc`, and `WriteLocked`, `DeleteLocked` and `KeyShared` say so. `Answered` says that
the statement of a request returns, with a result or an error: the guards of the
actions it may take next. The subject
of a homework, the members' roles, the cache and the event payload are left out;
refusals on their account are `Reject`.

### HomeworkAttachments and the code

Each upload generates its own key, so an upload is its key, row and object.
`todo` holds the keys a deletion has still to remove from the store. `Answers`
says for which keys a request answers by what it has still to do. The
variables `unsure`, `lost` and `late` are history: they record the failures and
the race that the properties name as exceptions, and no action reads them.

### MergeSchedule, ScheduleEditing and the code

A row of either table is one record, whose `type` is "normal" for an entry. The
models have one weekday and one date of it, so that the lesson number is the
slot; `reason`, which no property is about, is left out.

`MergeSchedule` takes the overrides in any order, one step each, as the dictionary
`lessons` is rebuilt. `DayOf` of `ScheduleRows` is the reference definition: what
each lesson consists of, with no loop and no order.

A request of `ScheduleEditing` is one transaction. `seen` is the ORM entity,
`change` the fields of the PATCH body, `draft` the version the statement writes
into its table, not committed. An UPDATE is two steps: it waits for the row and
computes the new version (`LockRow`), then enters the unique index (`UpdateRow`),
as PostgreSQL does; an INSERT only does the latter. `Claimants` are the
transactions the index makes it wait for. A slot found taken is `SlotConflict`,
a circle of waits ends with `DeadlockVictim`. `stale` is history. `Order` makes
of `target`, `change` and `draft` what a request asks of `Timetable`.

### ScheduleCache and the code

A value is the number of the last committed change it shows. `Scan` and
`ClearFirst` are `delete_pattern` for the days: the keys found by SCAN, then the
DEL of those only, in one batch; the week has one key and one step,
`ClearSecond`. A reader of a week goes through the days one by one (`DayHit`, or
`DayMiss`, `LoadDay`, `StoreDay`). A read that finds its own key changes nothing
and is not a step. `left` and `obsolete` count ticks of a common clock; a reader
takes at most `Slow` of them. `crossed`, `raced` and `failed` are history.

### ClassMembers, Subjects, SchoolEvents, SchoolClass and the code

`SchoolClass` has one set of requests. `pc[q]` says which operation a request
runs and at which statement it is; each of the three component modules has the
actions of its own operations and leaves the variables of the others alone, and
`Authorize` is how every operation of an editor begins. So a demotion can be
committed between any two statements of a write.

| Model | Code |
|---|---|
| `members` | the rows of `class_members`, by id; a person may have a row, lose it and get another |
| `known`, `told`, `announced` | what the last recorded event says of a member, the subject, the school event |
| `target`, `draft` | the id and the version a member request carries |
| `seen`, `change` | the entity of a school event as read, and the fields of the PATCH body |
| `Roster` | who is a member with which role: the rows as `ClassRegister` sees them |
| `Order`, `Asked` | what a request asks of `ClassRegister`, from its read to its commit |
| `actor` | as whom `require_editor` has let a request through: a member, `Admin` (an administrator), or `None` before the check and where an operation has none; `ClassRegister` has it too |
| `Claimants`, `Holders`, `EventLocked`, `SubjectLocked`, `NamedBy`, `DropLocked` | who a statement waits for; as in `HomeworkEditing`, locks follow from `pc` |
| `StartAdd`, `InsertMember`, `AlreadyMember` | `ClassMemberService.add`; the last with its `except IntegrityError` |
| `ReadMember`, `ChangeRole`, `MemberGone`, `RemoveMember`, `CommitMember` | `update` and `delete`; an UPDATE that finds no row raises, a DELETE does not notice |
| `ReadForUse`, `InsertUse`, `UseRefused`, `CommitUse`, `DropUse` | a homework, a lesson or an override that names the subject, as `HomeworkService` and `ScheduleService` write them |
| `ReadSubject` ... `ClearCache` | `SubjectService.update` and `delete`, with `SubjectInUse` for the foreign key |
| `CreateEvent` ... `CommitDelete` | `SchoolEventService` |
| `Listed` | the WHERE clause of `list_for_day`, for the day that starts at `d * DayLength` |
| `Upload` | the two transactions of `upload_attachment`: the second has no check |
| `Reject`, `Rollback` | a refusal by the role or for want of a row; an error, a cancellation or a crash before the COMMIT |

An UPDATE of a school event writes the columns of the body to the row it finds,
but the entity that `RETURNING` fills keeps the columns it had loaded, so the
payload of the event is `Merge(seen, change)` and not the row. `behind` and
`hollow` are history: they name the exceptions in `AnnouncedIsStored` and
`MembersKnown`, and no action reads them.

Who may write is part of `RegisterSpec`. `ClassRegister` lets a request through
(`Admit`) for an administrator or for one whom the roster calls an editor at that
moment, and takes an order that needs the role (`Editing`, `Plan`, `Unname`) from
such a request only. So a handler that does not ask for the role, a check that is
content with membership, and a role read from anything but the members' rows of
that moment are no steps of it. A demotion between the check and the COMMIT is
one, as the code does not read the role again; the second transaction of an
upload, which writes by the check of the first, is for that reason not held
against it. Operations of an administrator begin without a look at the members.

### Lifespan and the code

`phase` is the next statement of `lifespan`, or "serving" (the `yield`), or
"draining": uvicorn, with its default graceful shutdown, begins no request
then and lets those under way end. `open` is what has been opened and not been
closed; a Redis client goes by the name of who created it, `Main` or a request.
A startup step succeeds, or fails with the client closed or (`ConnectStorage`)
with the client left to the `finally` block. A closing step gives its client up
whether it returns or raises. `AskForRedis`, `EnterLock` and `LeaveLock` are
`RedisCache.connect` as the invalidation of a request calls it: the look before
the lock, the look under it with the creation of the client, the answer to the
PING. A request that waits there takes no other step.

## 3. Runs

| Run | Shows | Bounds |
|---|---|---|
| `outbox_safety` | `Delivered`, `NoPhantom`, `DuplicatesAccounted`, `FailedAfterMaxAttempts`, `SettledIsFinal`, `FirstSendsInOrder`, and `DeliverySpec` (refinement) | 2 relays, 2 events of one aggregate, 2 attempts, batches of 2, 1 failure, no stop, symmetric relays |
| `outbox_liveness` | `EventuallySettled`, `EventuallyRemoved`, `TypeOK` | 1 relay, 2 events, batches of 1, 3 attempts so that the delay reaches its cap, 1 failure, 1 stop |
| `outbox_key_order` | violation of `KeyOrder` | 1 relay |
| `outbox_backoff` | violation of `BackoffFromFailure` | 1 relay |
| `homework` | `ChildrenHaveParent`, `TextsExplained`, `EventsFollowLife`, `NobodyStuck`, `HistoryIsChain`, `LifeSpec` (refinement), `RequestsEnd` | 3 requests of any kind, 2 texts, 2 dates, 1 member |
| `homework_revision` | violation of `TextChangeRecorded` | 3 requests |
| `attachments` | `NoDangling`, `RowsHaveHomework`, `ObjectsAccounted`, `EventuallyClean` | 2 uploads, 1 removal, 2 deletions, 1 failure |
| `merge_schedule` | `MergedAsDefined`, `LessonsTimely` | 2 lesson numbers, every valid entry and override with 1 subject, 3 times, 1 room |
| `schedule` | `SlotsUnique`, `NobodyStuck`, `ValidUnlessStale`, `DayTimely`, `TimetableSpec` (refinement) | 2 rows; 4 requests that move lessons out of 3 slots into 2 of them, or 3 requests with 3 times and 6 PATCH bodies on one slot, with a move out of it; the constraint `Apart` keeps the two apart |
| `schedule_override` | violation of `OverridesValid` | 3 requests of the second kind, without the move |
| `schedule_cache` | `DayStaleness`, `WeekStaleness`, `FreshUnlessRaced` | 2 readers, 1 writer, 2 days, 1 change, TTL and `Slow` of 1 tick; values followed up to the longer bound |
| `school_class` | `MembersUnique`, `MembersKnown`, `UsesHaveSubject`, `SubjectToldTrue`, `AnnouncedIsStored`, `ListedOnItsDays`, `ClientsAccounted`, `RegisterSpec` (refinement), no deadlock | 3 requests of any kind, 1 person, 2 row ids, 3 times over 4 days (a midnight, a noon, the next midnight), any failure at startup and shutdown, restarts |

Why the bounds are enough. A claim, a lock or a duplicate needs two actors, and
an order needs two events. A
failed attempt, a retry and a final failure need two attempts. One failure at
any point of any batch, with everything that may follow it, covers the
rollbacks; a second one is a second copy of the same step, and the theorems
cover any number. A cancellation by `stop()` loses a batch as a crash does; it
happens in `outbox_liveness`. For homework, three requests are a creation and two
that race, or the two updates of a chain; for attachments, two deletions are needed for the one that loses, and two
uploads for the one that comes between. A circle of waits in the unique index
needs four requests: two that have found the slots they want free, and two that
move into these the rows the first two then lock. A slot and its
override need two rows, a stale update two requests and one to create what they
update. A week that outlives its day needs a reader that stores the day and one
that takes it from Redis; further writers and changes are left to the theorems.
Of a class, three requests are a deletion, a second deletion of the same row and
a person who joins between them, or two updates of an event that one has created,
or one request that fails to connect Redis while two wait for the lock;
members do not depend on each other but by the person, so that one is enough.
Symmetry is used in runs without liveness only.

### What the violations show

* `KeyOrder`: `README.md:118-119` says the events of one aggregate keep their
  order in the partition. When the send of one fails, `process_batch` reschedules
  it and goes on, and the next event of the aggregate overtakes it.
  `FirstSendsInOrder` says what is kept: nothing overtakes without such a failure,
  or another relay that holds the earlier event.
* `BackoffFromFailure`: `README.md:124` promises exponential backoff. The delay
  is added to the `now` of the batch start, so for a send that fails late in a
  slow batch it has passed by the time it is committed.
* `TextChangeRecorded`: `tests/unit/test_homework_service.py:222` says an update
  of the text creates the revision from the old to the new text. With two
  overlapping updates the old text is the one read before the other committed:
  the change may be recorded from a text that was no longer there, or not at
  all when the text read equals the new one. `TextsExplained` and
  `HistoryIsChain` say what is kept.
* `OverridesValid`: `services/schedule.py:530` and `:535`, and
  `tests/unit/test_schedule_service.py:312` and `:368`, say that an added or
  replaced lesson has a subject and that the times come together. `update_override`
  validates the merged columns against a row read without a lock and then writes
  its own columns only: two overlapping updates store what neither would have.
  `ValidUnlessStale` says that nothing else can, not even to an entry, and
  `TimesOrdered`, which is proved, what the database still refuses.

## 4. Fairness

`OutboxRelay!Fairness` is weak fairness of what the code's scheduling gives:
the container is restarted (`restart: unless-stopped`, or an operator starts it
again after a shutdown), `_run` loops for ever, a send returns or raises (the
Kafka client has request timeouts), a commit ends, time passes. A send is fair
as "returns or raises": which of the two happens is never assumed, nor is that
a failure, a stop or an error happens. Liveness is checked with a bounded
number of failures and stops: an unbounded number would let every batch be lost.

`HomeworkEditing!FairSpec` and `HomeworkAttachments!FairSpec` assume that a
request under way takes its next statement once the locks allow it; nothing is
assumed of requests that have not begun.

`SchoolClass` and `Lifespan` state no fairness and no liveness: a request of
theirs locks one row, so that there is no circle of waits to look for, and
`Rollback` may end any request.

## 5. Proofs

| Theorem | States, for every value of the constants |
|---|---|
| `OutboxRelayProofs!TypeCorrectness` | `TypeOK` |
| `OutboxRelayProofs!DeliveredIsSent` | `Delivered` |
| `OutboxRelayProofs!NoPhantomSent` | `NoPhantom` |
| `OutboxRelayProofs!DuplicatesBounded` | `DuplicatesAccounted` |
| `OutboxRelayProofs!GivenUpAtMaxAttempts` | `FailedAfterMaxAttempts` |
| `OutboxRelayProofs!SettledStaysSettled` | `SettledIsFinal` |
| `OutboxRelayProofs!Implementation` | `Spec => DeliverySpec` |
| `OutboxRelayProofs!FirstSendsStayInOrder` | `FirstSendsInOrder` |
| `HomeworkEditingProofs!TypeCorrectness` | `TypeOK` |
| `HomeworkEditingProofs!DatesStayInOrder` | `DatesKept` |
| `HomeworkEditingProofs!NoOrphanChildren` | `ChildrenHaveParent` |
| `HomeworkEditingProofs!HistoryExplainsTexts` | `TextsExplained` |
| `HomeworkEditingProofs!EventsTellTheLife` | `EventsFollowLife` |
| `HomeworkEditingProofs!NobodyEverStuck` | `NobodyStuck` |
| `HomeworkEditingProofs!Implementation` | `Spec => LifeSpec` |
| `HomeworkEditingProofs!HistoryStaysChain` | `SpecWithHistory => []HistoryIsChain` |
| `HomeworkAttachmentsProofs!ListedIsStored` | `NoDangling` |
| `HomeworkAttachmentsProofs!NoOrphanRows` | `RowsHaveHomework` |
| `HomeworkAttachmentsProofs!NothingForgotten` | `ObjectsAccounted` |
| `ScheduleRowsProofs!ValidDayIsTimely` | the day of valid rows has both times of a lesson or none |
| `MergeScheduleProofs!MergeIsDayOf` | `MergedAsDefined` |
| `MergeScheduleProofs!MergedLessonsTimely` | `LessonsTimely` |
| `ScheduleEditingProofs!OneRowPerSlot` | `SlotsUnique` |
| `ScheduleEditingProofs!TimesStayOrdered` | `TimesOrdered` |
| `ScheduleEditingProofs!OnlyStaleUpdatesInvalidate` | `ValidUnlessStale` |
| `ScheduleEditingProofs!DaysStayTimely` | `DayTimely` |
| `ScheduleEditingProofs!NobodyEverStuck` | `NobodyStuck` |
| `ScheduleEditingProofs!Implementation` | `Spec => TimetableSpec` |
| `ScheduleCacheProofs!DaysAreBoundedlyStale` | `DayStaleness` |
| `ScheduleCacheProofs!WeeksAreBoundedlyStale` | `WeekStaleness` |
| `ScheduleCacheProofs!ClearedMeansFresh` | `FreshUnlessRaced` |
| `SchoolClassProofs!TypeCorrectness` | `TypeOK` of `SchoolClass` |
| `SchoolClassProofs!OneMembership` | `MembersUnique` |
| `SchoolClassProofs!MembershipsKnown` | `MembersKnown` |
| `SchoolClassProofs!EventsStayInOrder` | `EventInOrder` |
| `SchoolClassProofs!AnnouncementsInOrder` | `AnnouncedInOrder` |
| `SchoolClassProofs!AnnouncementsAreTrue` | `AnnouncedIsStored` |
| `SchoolClassProofs!ListedOnDays` | `ListedOnItsDays` |
| `SchoolClassProofs!NamedSubjectsStay` | `UsesHaveSubject` |
| `SchoolClassProofs!DeletionIsLastWord` | `SubjectToldTrue` |
| `SchoolClassProofs!Implementation` | `Spec => RegisterSpec` |
| `SchoolClassProofs!ServiceImplementsClass` | `ServiceSpec => Spec`: what is proved of `SchoolClass` holds in the process |
| `SchoolClassProofs!NoClientLeft` | `ClientsAccounted` |

Each follows from an inductive invariant of its module.

* `OutboxRelay!Inv`. The properties alone are not inductive: that a committed
  batch sets `published` only where a message exists needs `MarksOK` (a success
  mark stands for a message); that it never takes back a settled row needs
  `ClaimsOK` (a claimed row is pending, and claimed once); that duplicates are
  paid for needs `CopiesOK`, which counts one copy less for an event that has
  not been handled since its last counted attempt. Assumed of the constants:
  finitely many events, each with an aggregate, and the ranges that
  `OutboxSettings` validates. The implementation theorem maps each step to a
  step of `EventDelivery` or a stutter; a committed batch is one `Settle` of its
  sent and its given-up records.
* `OutboxRelay!OrderInv` adds to it what orders the first sends: `RecordedInOrder`
  (a change that is open, and holds the lock of its aggregate, has the latest
  `created_at` of it, so none commits behind a claim), that an event nobody has
  tried is due, and `ClaimedInOrder` (a claim takes the earlier event with the
  later, or finds it claimed). A lost batch drops both, unless another relay holds
  the later one: that is the exception the property names.
* `HomeworkEditing!Inv`. `LocksOK` says who excludes whom and that a locked row
  is there; `RequestOK` says what a request carries: the text it has read is
  still explained by the history, a text it has written is explained or is in
  its draft, the row it has written has its dates in order. That nobody is
  stuck needs the types only: a request that has written or deleted its row has its
  answer, so if nobody has one, no row is locked; then an update with its revision
  inserted could write, so there is none, and no key-share lock either; then
  whoever is left could go on. The implementation theorem
  needs of the invariant what a commit does: the row is there under the lock, its
  dates are in order, and the draft goes on from a text the history knows. Assumed:
  dates are numbers, and the marker of an absent field is no text, date or revision.
* `HomeworkHistory!HistoryInv` adds that stamps grow, and `UpToDate`: what an
  update that is alone has read is still there, and its revision goes on from the
  current text and is later than all others.
* `HomeworkAttachments!Inv`. The key of a committed row belongs to an upload
  that is over, or that compensates after an ambiguous COMMIT; a key is removed
  from the store only by a request whose transaction has taken the row away.
  `AccountInv` adds that a deletion which has locked the homework has every
  stored row on its list, but for those that came after the listing: only then does
  the cascade take no row whose object nobody removes. Assumed: requests have one
  kind.
* `MergeSchedule`. The invariant says that `lessons` is the defined day of the
  entries and of the overrides the loop has passed; that these have one row per
  number is what makes one round right for its number and harmless for the rest.
* `ScheduleEditing`. `SlotsUnique` is not inductive: it needs that what a
  request has put into the index, and what it may still put back, is in no
  slot of another committed or pending row, and that a row is written by one
  request at a time. The validity of rows needs that a version merged from the row
  the request has read was validated. That nobody is stuck is a fact about finite
  sets: where each request waits for another, the smallest set of which the same
  can be said is a circle (`CircleFound`); it is why `Requests` is assumed finite.
  The implementation theorem shows that a commit puts into the table what its
  order makes of the row as it is then, in a slot that is free then.
* `ScheduleCache!IInv`. A value that a reader holds was true when it began, or
  came from Redis: its age is within what the reader has spent, or that plus the
  bound of a day. Freshness follows what is out of date: a key that is waits for a
  writer that has not cleared it, and a reader that holds such a value is crossed
  by that writer's scan or deletion before it can be too late. Assumed: a positive
  time to live and number of days, and readers that are no writers.

* `SchoolClass!Inv` has a part per component, disturbed by the actions of that
  component only, and `ActorsOK`, which every action keeps. `MembersOK`: an id that is being inserted is
  nobody else's, a pending row of a person excludes every other row and holder of
  that person, and a row belongs to the person its holder has read; without
  this neither uniqueness nor the order of the events would be inductive. `EventOK`:
  what a request has merged with the row it read was validated, what it holds
  locked satisfies the constraint, and a lock excludes every other. `SubjectOK`:
  while a deletion is pending nothing names the subject and nobody else holds it.
  That a listed day is right follows from the order of the dates by arithmetic.
  For the implementation theorem the rows become a roster: as a person has one row
  at most, a commit changes the role of its own person and of nobody else
  (`CommitRoster`), from none for one who joins and to another for a member. The
  check is an `Admit`, as the roster of a unique row says what the row says; that
  an order which needs the role comes from an admitted request, and an operation
  without a check leaves no actor behind, is `ActorsOK`: a request acts for somebody
  from the check to its end.
  Assumed: times are numbers, a day is not empty, an administrator's right is no
  member's, and the markers are no values.
* `Lifespan!LifeInv` says what may be open in each phase, that requests are under
  way only while the service is up, and that one request at a time is in the lock,
  with no client connected. That the closing of each is reached for every outcome
  of the one before is what makes `open = {}` hold in the end. It rests on
  `ServiceImplementsClass` for what a step of a request may do.

Only model-checked: liveness (`EventuallySettled`, `EventuallyRemoved`,
`RequestsEnd`, `EventuallyClean`), which is out of the prover's reach. The two
`NobodyStuck` say without ENABLED what stands behind `RequestsEnd`, and
`ObjectsAccounted` what stands behind `EventuallyClean`: those are proved. The
implementation theorems are about the initial state and the steps: the abstract
specifications promise nothing about what must happen.

## 6. Plan

In this order; each step brings its module, its MC module and runs, then its
theorems.

1. Done: `EventDelivery`, `OutboxRelay` with proofs, `OutboxBackoff`.
2. Done: `HomeworkEditing` with proofs, `HomeworkHistory`.
3. Done: `HomeworkAttachments` with proofs.
4. Done: `ScheduleRows`, `MergeSchedule`, `ScheduleEditing` with proofs.
5. Done: `ScheduleCache` with proofs. Left: the keys of a homework, of the list
   and of the history, with the order in which they are invalidated.
6. Done: `ClassMembers`, `Subjects`, `SchoolEvents` and their composition
   `SchoolClass`, with proofs. Left: the row of the class, and the join of lessons
   and homework in the day view.
7. Done: `Lifespan` with proofs.
8. Composition: `OutboxRelay` with the requests of `HomeworkEditing` as its
   business transactions, and the events of one homework as consumers see them.
9. Done: the proofs of `FirstSendsInOrder` and `HistoryIsChain`, of both
   `NobodyStuck`, of `ObjectsAccounted`, and that `HomeworkEditing`,
   `ScheduleEditing` and `SchoolClass` implement `HomeworkLife`, `Timetable` and
   `ClassRegister`.

## 7. Not modelled

Not modelled yet: what items 5, 6 and 8 of the plan have left; the join of the
day view reads only, and shows the lessons of a cached day beside the homework of
the moment. A request of `Lifespan` is not cancelled while it waits for Redis:
`connect` closes a client whose PING raises an `Exception`, which a cancellation
is not. The death of the process is no action of `Lifespan`, as nothing of what it
tracks survives it; for the requests it is `Rollback`. Left out for good: the HTTP layer, schemas, logging,
metrics, health probes and configuration parsing, which keep no state; event
payloads and their encoding; the inside of PostgreSQL, Kafka, Redis and the
object store, which are modelled by what the service relies on; migrations and
deployment files. `retry_base_seconds * 2 ** (attempts - 1)` is exact in
`Delay`, whereas in the code it overflows beyond 1024 attempts.

## 8. Running

    tlc -workers 2 -config MCOutboxRelay.cfg MCOutboxRelay
    tlapm OutboxRelayProofs.tla

Every run finishes within about three minutes on two cores.
