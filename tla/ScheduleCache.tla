---------------------------- MODULE ScheduleCache ----------------------------
(***************************************************************************)
(* The cache-aside reads of ScheduleService (app/services/schedule.py,     *)
(* app/cache/json.py) for the days of one class and the week made of them. *)
(*                                                                         *)
(* A value is the number of the last committed change it shows; that of a  *)
(* week is the oldest among its days.  A reader asks Redis, loads what is  *)
(* missing and stores it; a writer commits, then clears the days, then the *)
(* week: it scans for the keys, then deletes what it found.  Nothing ties  *)
(* the two together but the order of their steps.                          *)
(***************************************************************************)
EXTENDS Naturals, FiniteSets

CONSTANTS
    Readers,    \* requests that read
    Writers,    \* requests that change the schedule or a subject
    Days,       \* the number of days in a week
    TTL,        \* default_ttl_seconds, in ticks
    Slow,       \* bound: ticks a reader takes from its first question to its end
    MaxWrites,  \* bound: changes that are committed
    None        \* a key that is not in Redis, a value not known yet

ASSUME DaysAssumption == Days \in Nat \ {0}
ASSUME TTLAssumption == TTL \in Nat \ {0}
ASSUME SlowAssumption == Slow \in Nat
ASSUME MaxWritesAssumption == MaxWrites \in Nat
ASSUME NoneAssumption == None \notin Nat
ASSUME ActorsAssumption == Readers \cap Writers = {}

VARIABLES
    db,         \* the number of committed changes
    cache,      \* cache[k]: the value under key k; key 0 is the week
    left,       \* left[k]: the ticks key k still has
    pc,         \* pc[p]: where reader or writer p stands
    goal,       \* goal[r]: the key r reads for its client
    at,         \* at[r]: the day r is busy with
    value,      \* value[r]: what r has loaded for that day
    oldest,     \* oldest[r]: the oldest value among the days r has seen
    spent,      \* spent[r]: ticks since r began
    obsolete,   \* obsolete[v]: ticks since value v was superseded
    found,      \* found[w]: the keys the scan of writer w has returned
    crossed,    \* history: the readers in whose course keys were first cleared
    raced,      \* history: whether such a reader has stored something
    failed      \* history: whether an invalidation has not been done

readerVars == <<goal, at, value, oldest, spent>>
historyVars == <<crossed, raced, failed>>
vars == <<db, cache, left, pc, readerVars, obsolete, found, historyVars>>

Week == 0
Keys == 0..Days
Values == 0..MaxWrites
Places == {"idle", "get", "load", "store", "storeWeek",
           "committed", "scanned", "cleared"}

\* How long a value may be out of date when it is stored, plus its time to live.
DayBound == TTL + Slow
WeekBound == 2 * DayBound

TypeOK ==
    /\ db \in Values
    /\ cache \in [Keys -> Values \cup {None}]
    /\ left \in [Keys -> 0..TTL]
    /\ pc \in [Readers \cup Writers -> Places]
    /\ goal \in [Readers -> Keys]
    /\ at \in [Readers -> 1..Days]
    /\ value \in [Readers -> Values \cup {None}]
    /\ oldest \in [Readers -> Values \cup {None}]
    /\ spent \in [Readers -> 0..Slow]
    /\ obsolete \in [Values -> Nat]
    /\ found \in [Writers -> SUBSET Keys]
    /\ crossed \in SUBSET Readers
    /\ raced \in BOOLEAN
    /\ failed \in BOOLEAN

Init ==
    /\ db = 0
    /\ cache = [k \in Keys |-> None]
    /\ left = [k \in Keys |-> 0]
    /\ pc = [p \in Readers \cup Writers |-> "idle"]
    /\ goal = [r \in Readers |-> Week]
    /\ at = [r \in Readers |-> 1]
    /\ value = [r \in Readers |-> None]
    /\ oldest = [r \in Readers |-> None]
    /\ spent = [r \in Readers |-> 0]
    /\ obsolete = [v \in Values |-> 0]
    /\ found = [w \in Writers |-> {}]
    /\ crossed = {}
    /\ raced = FALSE
    /\ failed = FALSE

Advance(p, step) == pc' = [pc EXCEPT ![p] = step]
Older(a, b) == IF a = None \/ b < a THEN b ELSE a

-----------------------------------------------------------------------------
(* Redis: a read, a write or a deletion may fail, and the service goes on.  *)

\* Mutation of PutTTL: SET without an expiry.
PutForEver(k) == 0

\* RedisCache.set with no ttl_seconds.
PutTTL(k) == TTL

Put(r, k, v) ==
    /\ cache' = [cache EXCEPT ![k] = v]
    /\ left' = [left EXCEPT ![k] = PutTTL(k)]
    /\ raced' = (raced \/ r \in crossed)

PutFails == UNCHANGED <<cache, left, raced>>

Clear(keys) ==
    /\ cache' = [k \in Keys |-> IF k \in keys THEN None ELSE cache[k]]
    /\ left' = [k \in Keys |-> IF k \in keys THEN 0 ELSE left[k]]

-----------------------------------------------------------------------------
(* Readers: get_day, get_week and _get_day.                                 *)

\* The end of a read, with its answer or without.
Finish(r) ==
    /\ Advance(r, "idle")
    /\ goal' = [goal EXCEPT ![r] = Week]
    /\ at' = [at EXCEPT ![r] = 1]
    /\ value' = [value EXCEPT ![r] = None]
    /\ oldest' = [oldest EXCEPT ![r] = None]
    /\ spent' = [spent EXCEPT ![r] = 0]
    /\ crossed' = crossed \ {r}

\* get_day: the key is not there, or Redis does not answer.
StartDay(r) ==
    /\ pc[r] = "idle"
    /\ \E d \in 1..Days :
         /\ goal' = [goal EXCEPT ![r] = d]
         /\ at' = [at EXCEPT ![r] = d]
    /\ Advance(r, "load")
    /\ UNCHANGED <<db, cache, left, value, oldest, spent, obsolete, found, historyVars>>

\* get_week: the same; its days follow, one after the other.
StartWeek(r) ==
    /\ pc[r] = "idle"
    /\ Advance(r, "get")
    /\ UNCHANGED <<db, cache, left, readerVars, obsolete, found, historyVars>>

\* The next day of the week, or the week is complete.
NextDay(r, v) ==
    /\ oldest' = [oldest EXCEPT ![r] = Older(oldest[r], v)]
    /\ IF at[r] < Days
       THEN Advance(r, "get") /\ at' = [at EXCEPT ![r] = at[r] + 1]
       ELSE Advance(r, "storeWeek") /\ UNCHANGED at

\* _get_day for a week finds the day in Redis.
DayHit(r) ==
    /\ pc[r] = "get"
    /\ cache[at[r]] # None
    /\ NextDay(r, cache[at[r]])
    /\ UNCHANGED <<db, cache, left, goal, value, spent, obsolete, found, historyVars>>

\* It does not, or Redis does not answer.
DayMiss(r) ==
    /\ pc[r] = "get"
    /\ Advance(r, "load")
    /\ UNCHANGED <<db, cache, left, readerVars, obsolete, found, historyVars>>

\* The entries of the weekday and the overrides of the date; a change between
\* the two queries only makes the second newer.
LoadDay(r) ==
    /\ pc[r] = "load"
    /\ value' = [value EXCEPT ![r] = db]
    /\ Advance(r, "store")
    /\ UNCHANGED <<db, cache, left, goal, at, oldest, spent, obsolete, found, historyVars>>

StoreDay(r) ==
    /\ pc[r] = "store"
    /\ Put(r, at[r], value[r]) \/ PutFails
    /\ IF goal[r] = Week
       THEN /\ NextDay(r, value[r])
            /\ value' = [value EXCEPT ![r] = None]
            /\ UNCHANGED <<goal, spent, crossed>>
       ELSE Finish(r)
    /\ UNCHANGED <<db, obsolete, found, failed>>

StoreWeek(r) ==
    /\ pc[r] = "storeWeek"
    /\ Put(r, Week, oldest[r]) \/ PutFails
    /\ Finish(r)
    /\ UNCHANGED <<db, obsolete, found, failed>>

\* The client goes away, or the database fails.
Abandon(r) ==
    /\ pc[r] # "idle"
    /\ Finish(r)
    /\ UNCHANGED <<db, cache, left, obsolete, found, raced, failed>>

-----------------------------------------------------------------------------
(* Writers: a change of the schedule or of a subject, then                  *)
(* _invalidate_schedule.                                                    *)

Commit(w) ==
    /\ pc[w] = "idle"
    /\ db < MaxWrites
    /\ db' = db + 1
    /\ Advance(w, "committed")
    /\ UNCHANGED <<cache, left, readerVars, obsolete, found, historyVars>>

\* Mutation of FirstKeys: the week is cleared before the days it is made of.
WeekFirst == {Week}

\* What invalidate_pattern clears first, and second.
FirstKeys == 1..Days

Active == {r \in Readers : pc[r] # "idle"}

\* delete_pattern: the keys of the first pattern that exist, ...
Scan(w) ==
    /\ pc[w] = "committed"
    /\ found' = [found EXCEPT ![w] = {k \in FirstKeys : cache[k] # None}]
    /\ crossed' = crossed \cup Active
    /\ Advance(w, "scanned")
    /\ UNCHANGED <<db, cache, left, readerVars, obsolete, raced, failed>>

\* ... which are then deleted, those only.
ClearFirst(w) ==
    /\ pc[w] = "scanned"
    /\ Clear(found[w])
    /\ found' = [found EXCEPT ![w] = {}]
    /\ crossed' = crossed \cup Active
    /\ Advance(w, "cleared")
    /\ UNCHANGED <<db, readerVars, obsolete, raced, failed>>

\* The second pattern has one key here: scanning and deleting it is one step.
ClearSecond(w) ==
    /\ pc[w] = "cleared"
    /\ Clear(Keys \ FirstKeys)
    /\ Advance(w, "idle")
    /\ UNCHANGED <<db, readerVars, obsolete, found, historyVars>>

\* Redis fails and the error is logged; the next pattern follows.
ClearFails(w) ==
    /\ \/ pc[w] \in {"committed", "scanned"} /\ Advance(w, "cleared")
       \/ pc[w] = "cleared" /\ Advance(w, "idle")
    /\ found' = [found EXCEPT ![w] = {}]
    /\ failed' = TRUE
    /\ UNCHANGED <<db, cache, left, readerVars, obsolete, crossed, raced>>

\* The request ends after its COMMIT, with what it was about to clear.
Die(w) ==
    /\ pc[w] \in {"committed", "scanned", "cleared"}
    /\ Advance(w, "idle")
    /\ found' = [found EXCEPT ![w] = {}]
    /\ failed' = TRUE
    /\ UNCHANGED <<db, cache, left, readerVars, obsolete, crossed, raced>>

-----------------------------------------------------------------------------
\* Time: keys expire, values age, readers do not take more than Slow.
Tick ==
    /\ \A r \in Readers : pc[r] # "idle" => spent[r] < Slow
    /\ spent' = [r \in Readers |-> IF pc[r] = "idle" THEN 0 ELSE spent[r] + 1]
    /\ cache' = [k \in Keys |-> IF left[k] = 1 THEN None ELSE cache[k]]
    /\ left' = [k \in Keys |-> IF left[k] > 0 THEN left[k] - 1 ELSE 0]
    /\ obsolete' = [v \in Values |-> IF v < db THEN obsolete[v] + 1 ELSE 0]
    /\ UNCHANGED <<db, pc, goal, at, value, oldest, found, historyVars>>

Next ==
    \/ \E r \in Readers :
         \/ StartDay(r) \/ StartWeek(r) \/ DayHit(r) \/ DayMiss(r) \/ LoadDay(r)
         \/ StoreDay(r) \/ StoreWeek(r) \/ Abandon(r)
    \/ \E w \in Writers : Commit(w) \/ Scan(w) \/ ClearFirst(w) \/ ClearSecond(w)
                           \/ ClearFails(w) \/ Die(w)
    \/ Tick

Spec == Init /\ [][Next]_vars

-----------------------------------------------------------------------------
\* A day that Redis serves was true at most TTL + Slow ago, whatever fails and
\* whoever races with whom; what is served out of date counts its time to live.
DayStaleness ==
    \A d \in 1..Days : cache[d] # None => obsolete[cache[d]] + left[d] <= DayBound

\* A week is made of days that may come from Redis: twice as long.
WeekStaleness ==
    cache[Week] # None => obsolete[cache[Week]] + left[Week] <= WeekBound

\* With every invalidation done and no reader that stores after the scan of
\* the days or their deletion came in its course, Redis holds nothing out of date once the keys are cleared:
\* the order of _invalidate_schedule, days before the week.
FreshUnlessRaced ==
    ~ raced /\ ~ failed =>
        /\ (\A w \in Writers : pc[w] \notin {"committed", "scanned"}) =>
             \A d \in 1..Days : cache[d] \in {None, db}
        /\ (\A w \in Writers : pc[w] = "idle") => cache[Week] \in {None, db}
=============================================================================
