------------------------- MODULE ScheduleCacheProofs -------------------------
(***************************************************************************)
(* How old what Redis serves can be, for any number of readers, writers,   *)
(* days and changes, any time to live and any bound on the slowness of a   *)
(* reader; and what the order of _invalidate_schedule buys.                *)
(***************************************************************************)
EXTENDS ScheduleCache, TLAPS

\* What was not superseded yet has not aged.
Unborn == \A v \in Values : v >= db => obsolete[v] = 0

\* Every key in Redis has time left.
Expires == \A k \in Keys : cache[k] # None => left[k] > 0

Steps ==
    \A r \in Readers :
        /\ pc[r] = "idle" => value[r] = None /\ oldest[r] = None
        /\ pc[r] = "store" => value[r] # None
        /\ pc[r] = "storeWeek" => oldest[r] # None

\* What a reader holds was true when it began, or, from Redis, DayBound before.
ValueAge ==
    \A r \in Readers : value[r] # None => obsolete[value[r]] <= spent[r]
OldestAge ==
    \A r \in Readers : oldest[r] # None => obsolete[oldest[r]] <= DayBound + spent[r]

Ages ==
    /\ Unborn
    /\ Expires
    /\ Steps
    /\ ValueAge
    /\ OldestAge
    /\ DayStaleness
    /\ WeekStaleness

Pending == \E w \in Writers : pc[w] = "committed"
Scanning == \E w \in Writers : pc[w] \in {"committed", "scanned"}
Invalidating == \E w \in Writers : pc[w] \in {"committed", "scanned", "cleared"}
WillClear(d) ==
    \E w \in Writers : pc[w] = "committed" \/ (pc[w] = "scanned" /\ d \in found[w])

\* What is out of date is about to be cleared, or in the hands of a reader
\* that is in crossed, or will be when it could store it.
FreshValues ==
    \A r \in Readers : r \notin crossed /\ value[r] \notin {None, db} => Pending
FreshOldest ==
    \A r \in Readers : r \notin crossed /\ oldest[r] \notin {None, db} => Scanning
FreshDays ==
    \A d \in 1..Days : cache[d] \notin {None, db} => WillClear(d)
FreshWeek == cache[Week] \notin {None, db} => Invalidating

Fresh ==
    ~ raced /\ ~ failed => FreshValues /\ FreshOldest /\ FreshDays /\ FreshWeek

IInv == TypeOK /\ Ages /\ Fresh

-----------------------------------------------------------------------------
\* A reader or writer that moves on stands at a place of the program.
LEMMA AdvanceType ==
  ASSUME TypeOK, NEW p \in Readers \cup Writers, NEW step \in Places, Advance(p, step)
  PROVE  pc' \in [Readers \cup Writers -> Places]
<1>1. pc \in [Readers \cup Writers -> Places]
  BY DEF TypeOK
<1> QED
  BY <1>1 DEF Advance

\* The end of a read resets what the reader keeps to values of their types.
LEMMA FinishType ==
  ASSUME TypeOK, NEW r \in Readers, Finish(r)
  PROVE  /\ pc' \in [Readers \cup Writers -> Places]
         /\ goal' \in [Readers -> Keys]
         /\ at' \in [Readers -> 1..Days]
         /\ value' \in [Readers -> Values \cup {None}]
         /\ oldest' \in [Readers -> Values \cup {None}]
         /\ spent' \in [Readers -> 0..Slow]
         /\ crossed' \in SUBSET Readers
<1>1. pc' \in [Readers \cup Writers -> Places]
  BY AdvanceType DEF Finish, Places
<1>2. Week \in Keys /\ 1 \in 1..Days /\ 0 \in 0..Slow
  BY DaysAssumption, SlowAssumption DEF Week, Keys
<1> QED
  BY <1>1, <1>2 DEF TypeOK, Finish

\* The next day of the week, if any, is a day of it.
LEMMA NextDayType ==
  ASSUME TypeOK, NEW r \in Readers, NEW v \in Values, NextDay(r, v)
  PROVE  /\ pc' \in [Readers \cup Writers -> Places]
         /\ at' \in [Readers -> 1..Days]
         /\ oldest' \in [Readers -> Values \cup {None}]
<1>1. pc' \in [Readers \cup Writers -> Places]
  BY AdvanceType DEF NextDay, Places
<1>2. at' \in [Readers -> 1..Days]
  BY DaysAssumption DEF TypeOK, NextDay
<1>3. oldest' \in [Readers -> Values \cup {None}]
  BY DEF TypeOK, NextDay, Older
<1> QED
  BY <1>1, <1>2, <1>3

\* What is stored has the type of the cache.
LEMMA PutType ==
  ASSUME TypeOK, NEW r \in Readers, NEW k \in Keys, NEW v \in Values \cup {None},
         Put(r, k, v) \/ PutFails
  PROVE  /\ cache' \in [Keys -> Values \cup {None}]
         /\ left' \in [Keys -> 0..TTL]
         /\ raced' \in BOOLEAN
<1>1. TTL \in 0..TTL
  BY TTLAssumption
<1>2. raced' \in BOOLEAN
  BY Zenon DEF TypeOK, Put, PutFails
<1>3. CASE Put(r, k, v)
  BY <1>1, <1>2, <1>3 DEF TypeOK, Put, PutTTL
<1>4. CASE PutFails
  BY <1>2, <1>4 DEF TypeOK, PutFails
<1> QED
  BY <1>3, <1>4

\* So has what is left when keys are cleared.
LEMMA ClearType ==
  ASSUME TypeOK, NEW keys, Clear(keys)
  PROVE  /\ cache' \in [Keys -> Values \cup {None}]
         /\ left' \in [Keys -> 0..TTL]
<1>1. 0 \in 0..TTL
  BY TTLAssumption
<1> QED
  BY <1>1 DEF TypeOK, Clear

\* Every variable keeps its type: the type invariant of the cache.
LEMMA TypeStep ==
  ASSUME TypeOK, Steps, [Next]_vars
  PROVE  TypeOK'
<1>1. ASSUME NEW r \in Readers, StartDay(r) PROVE TypeOK'
  <2>1. PICK d \in 1..Days : goal' = [goal EXCEPT ![r] = d] /\ at' = [at EXCEPT ![r] = d]
    BY <1>1 DEF StartDay
  <2>2. goal' \in [Readers -> Keys] /\ at' \in [Readers -> 1..Days]
    BY <2>1 DEF TypeOK, Keys
  <2>3. pc' \in [Readers \cup Writers -> Places]
    BY <1>1, AdvanceType DEF StartDay, Places
  <2> QED
    BY <1>1, <2>2, <2>3 DEF StartDay, TypeOK, historyVars
<1>2. ASSUME NEW r \in Readers, StartWeek(r) PROVE TypeOK'
  <2>1. pc' \in [Readers \cup Writers -> Places]
    BY <1>2, AdvanceType DEF StartWeek, Places
  <2> QED
    BY <1>2, <2>1 DEF StartWeek, TypeOK, readerVars, historyVars
<1>3. ASSUME NEW r \in Readers, DayHit(r) PROVE TypeOK'
  <2>1. cache[at[r]] \in Values
    BY <1>3 DEF DayHit, TypeOK, Keys
  <2> QED
    BY <1>3, <2>1, NextDayType DEF DayHit, TypeOK, historyVars
<1>4. ASSUME NEW r \in Readers, DayMiss(r) PROVE TypeOK'
  <2>1. pc' \in [Readers \cup Writers -> Places]
    BY <1>4, AdvanceType DEF DayMiss, Places
  <2> QED
    BY <1>4, <2>1 DEF DayMiss, TypeOK, readerVars, historyVars
<1>5. ASSUME NEW r \in Readers, LoadDay(r) PROVE TypeOK'
  <2>1. pc' \in [Readers \cup Writers -> Places]
    BY <1>5, AdvanceType DEF LoadDay, Places
  <2> QED
    BY <1>5, <2>1 DEF LoadDay, TypeOK, historyVars
<1>6. ASSUME NEW r \in Readers, StoreDay(r) PROVE TypeOK'
  <2>1. value[r] \in Values
    BY <1>6 DEF StoreDay, TypeOK, Steps
  <2>2. /\ cache' \in [Keys -> Values \cup {None}]
        /\ left' \in [Keys -> 0..TTL]
        /\ raced' \in BOOLEAN
    <3>1. at[r] \in Keys
      BY DEF TypeOK, Keys
    <3> QED
      BY <1>6, <2>1, <3>1, PutType DEF StoreDay
  <2>3. CASE goal[r] = Week
    BY <1>6, <2>1, <2>2, <2>3, NextDayType DEF StoreDay, TypeOK
  <2>4. CASE goal[r] # Week
    BY <1>6, <2>2, <2>4, FinishType DEF StoreDay, TypeOK
  <2> QED
    BY <2>3, <2>4
<1>7. ASSUME NEW r \in Readers, StoreWeek(r) PROVE TypeOK'
  <2>1. /\ cache' \in [Keys -> Values \cup {None}]
        /\ left' \in [Keys -> 0..TTL]
        /\ raced' \in BOOLEAN
    <3>1. Week \in Keys /\ oldest[r] \in Values \cup {None}
      BY DaysAssumption DEF TypeOK, Keys, Week
    <3> QED
      BY <1>7, <3>1, PutType DEF StoreWeek
  <2> QED
    BY <1>7, <2>1, FinishType DEF StoreWeek, TypeOK
<1>8. ASSUME NEW r \in Readers, Abandon(r) PROVE TypeOK'
  BY <1>8, FinishType DEF Abandon, TypeOK
<1>9. ASSUME NEW w \in Writers, Commit(w) PROVE TypeOK'
  <2>1. pc' \in [Readers \cup Writers -> Places]
    BY <1>9, AdvanceType DEF Commit, Places
  <2> QED
    BY <1>9, <2>1, MaxWritesAssumption DEF Commit, TypeOK, Values, readerVars, historyVars
<1>10. ASSUME NEW w \in Writers, Scan(w) PROVE TypeOK'
  <2>1. pc' \in [Readers \cup Writers -> Places]
    BY <1>10, AdvanceType DEF Scan, Places
  <2>2. found' \in [Writers -> SUBSET Keys]
    BY <1>10 DEF Scan, TypeOK, FirstKeys, Keys
  <2>3. crossed' \in SUBSET Readers
    BY <1>10 DEF Scan, TypeOK, Active
  <2> QED
    BY <1>10, <2>1, <2>2, <2>3 DEF Scan, TypeOK, readerVars
<1>11. ASSUME NEW w \in Writers, ClearFirst(w) PROVE TypeOK'
  <2>1. pc' \in [Readers \cup Writers -> Places]
    BY <1>11, AdvanceType DEF ClearFirst, Places
  <2>2. found' \in [Writers -> SUBSET Keys]
    BY <1>11 DEF ClearFirst, TypeOK
  <2>3. crossed' \in SUBSET Readers
    BY <1>11 DEF ClearFirst, TypeOK, Active
  <2> QED
    BY <1>11, <2>1, <2>2, <2>3, ClearType DEF ClearFirst, TypeOK, readerVars
<1>12. ASSUME NEW w \in Writers, ClearSecond(w) PROVE TypeOK'
  <2>1. pc' \in [Readers \cup Writers -> Places]
    BY <1>12, AdvanceType DEF ClearSecond, Places
  <2> QED
    BY <1>12, <2>1, ClearType DEF ClearSecond, TypeOK, readerVars, historyVars
<1>13. ASSUME NEW w \in Writers, ClearFails(w) PROVE TypeOK'
  <2>1. pc' \in [Readers \cup Writers -> Places]
    BY <1>13, AdvanceType DEF ClearFails, Places
  <2> QED
    BY <1>13, <2>1 DEF ClearFails, TypeOK, readerVars
<1>14. ASSUME NEW w \in Writers, Die(w) PROVE TypeOK'
  <2>1. pc' \in [Readers \cup Writers -> Places]
    BY <1>14, AdvanceType DEF Die, Places
  <2> QED
    BY <1>14, <2>1 DEF Die, TypeOK, readerVars
<1>15. ASSUME Tick PROVE TypeOK'
  <2>1. spent' \in [Readers -> 0..Slow]
    BY <1>15, SlowAssumption DEF Tick, TypeOK
  <2>2. cache' \in [Keys -> Values \cup {None}]
    BY <1>15 DEF Tick, TypeOK
  <2>3. left' \in [Keys -> 0..TTL]
    BY <1>15, TTLAssumption DEF Tick, TypeOK
  <2>4. obsolete' \in [Values -> Nat]
    BY <1>15 DEF Tick, TypeOK
  <2> QED
    BY <1>15, <2>1, <2>2, <2>3, <2>4 DEF Tick, TypeOK, historyVars
<1>16. ASSUME UNCHANGED vars PROVE TypeOK'
  BY <1>16 DEF vars, TypeOK, readerVars, historyVars
<1> QED
  BY <1>1, <1>2, <1>3, <1>4, <1>5, <1>6, <1>7, <1>8, <1>9,
     <1>10, <1>11, <1>12, <1>13, <1>14, <1>15, <1>16 DEF Next

-----------------------------------------------------------------------------
\* Storing what is not too old for its key keeps Redis within the bounds.
LEMMA PutAges ==
  ASSUME TypeOK, Expires, DayStaleness, WeekStaleness, obsolete' = obsolete,
         NEW r \in Readers, NEW k \in Keys, NEW v \in Values,
         k # Week => obsolete[v] <= Slow,
         k = Week => obsolete[v] <= DayBound + Slow,
         Put(r, k, v) \/ PutFails
  PROVE  Expires' /\ DayStaleness' /\ WeekStaleness'
<1>1. CASE PutFails
  BY <1>1 DEF PutFails, Expires, DayStaleness, WeekStaleness
<1>2. CASE Put(r, k, v)
  <2>1. /\ cache'[k] = v
        /\ left'[k] = TTL
        /\ \A l \in Keys \ {k} : cache'[l] = cache[l] /\ left'[l] = left[l]
    BY <1>2 DEF Put, PutTTL, TypeOK
  <2>2. TTL > 0 /\ TTL \in Nat /\ Slow \in Nat /\ obsolete[v] \in Nat
    BY TTLAssumption, SlowAssumption DEF TypeOK
  <2>3. Expires'
    BY <2>1, <2>2 DEF Expires
  <2>4. DayStaleness'
    BY <2>1, <2>2 DEF DayStaleness, DayBound, Keys, Week
  <2>5. WeekStaleness'
    BY <2>1, <2>2, DaysAssumption DEF WeekStaleness, WeekBound, DayBound, Keys, Week
  <2> QED
    BY <2>3, <2>4, <2>5
<1> QED
  BY <1>1, <1>2

\* Clearing keys makes nothing older.
LEMMA ClearAges ==
  ASSUME TypeOK, Expires, DayStaleness, WeekStaleness, obsolete' = obsolete,
         NEW keys, Clear(keys)
  PROVE  Expires' /\ DayStaleness' /\ WeekStaleness'
<1>1. \A k \in Keys : cache'[k] # None => cache'[k] = cache[k] /\ left'[k] = left[k]
  BY DEF Clear, TypeOK
<1>2. Week \in Keys /\ \A d \in 1..Days : d \in Keys
  BY DaysAssumption DEF Week, Keys
<1> QED
  BY <1>1, <1>2 DEF Expires, DayStaleness, WeekStaleness

\* A writer that moves on leaves the readers where they are.
LEMMA WriterAlone ==
  ASSUME TypeOK, NEW w \in Writers, NEW step, Advance(w, step)
  PROVE  \A r \in Readers : pc'[r] = pc[r]
BY ActorsAssumption DEF TypeOK, Advance

\* A reader that moves on keeps what it holds within the bounds.
LEMMA ReaderAges ==
  ASSUME TypeOK, Ages, NEW r \in Readers,
         db' = db, obsolete' = obsolete, spent'[r] = spent[r],
         \A q \in Readers \ {r} : /\ pc'[q] = pc[q] /\ value'[q] = value[q]
                                  /\ oldest'[q] = oldest[q] /\ spent'[q] = spent[q],
         pc'[r] # "idle",
         pc'[r] = "store" => value'[r] # None,
         pc'[r] = "storeWeek" => oldest'[r] # None,
         value'[r] # None => value'[r] = value[r] \/ value'[r] = db,
         oldest'[r] # None => \/ oldest'[r] = oldest[r]
                              \/ oldest'[r] = value[r]
                              \/ at[r] \in 1..Days /\ oldest'[r] = cache[at[r]]
  PROVE  Unborn' /\ Steps' /\ ValueAge' /\ OldestAge'
<1>1. Unborn'
  BY DEF Ages, Unborn
<1>2. Steps'
  BY DEF Ages, Steps
<1>3. obsolete[db] = 0
  BY DEF Ages, Unborn, TypeOK, Values
<1>4. ValueAge'
  BY <1>3 DEF Ages, ValueAge, TypeOK
<1>5. oldest'[r] # None => obsolete[oldest'[r]] <= DayBound + spent[r]
  <2>1. DayBound \in Nat
    BY TTLAssumption, SlowAssumption DEF DayBound
  <2>2. spent[r] \in Nat
    BY DEF TypeOK
  <2>3. CASE oldest'[r] = oldest[r]
    BY <2>3 DEF Ages, OldestAge
  <2>4. CASE oldest'[r] = value[r]
    BY <2>1, <2>2, <2>4 DEF Ages, ValueAge, TypeOK
  <2>5. CASE at[r] \in 1..Days /\ oldest'[r] = cache[at[r]]
    <3>1. ASSUME oldest'[r] # None PROVE obsolete[oldest'[r]] <= DayBound + spent[r]
      <4>1. at[r] \in Keys /\ cache[at[r]] # None
        BY <2>5, <3>1 DEF Keys
      <4>2. cache[at[r]] \in Values /\ left[at[r]] \in Nat
        BY <4>1 DEF TypeOK
      <4>3. obsolete[cache[at[r]]] \in Nat
        BY <4>2 DEF TypeOK
      <4>4. obsolete[cache[at[r]]] + left[at[r]] <= DayBound
        BY <2>5, <4>1 DEF Ages, DayStaleness
      <4> QED
        BY <2>1, <2>2, <2>5, <4>2, <4>3, <4>4
    <3> QED
      BY <3>1
  <2> QED
    BY <2>3, <2>4, <2>5
<1>6. OldestAge'
  BY <1>5 DEF Ages, OldestAge
<1> QED
  BY <1>1, <1>2, <1>4, <1>6

\* A reader that ends holds nothing.
LEMMA FinishAges ==
  ASSUME TypeOK, Ages, NEW r \in Readers, Finish(r), db' = db, obsolete' = obsolete
  PROVE  Unborn' /\ Steps' /\ ValueAge' /\ OldestAge'
<1>1. /\ pc'[r] = "idle" /\ value'[r] = None /\ oldest'[r] = None
      /\ \A q \in Readers \ {r} : /\ pc'[q] = pc[q] /\ value'[q] = value[q]
                                    /\ oldest'[q] = oldest[q] /\ spent'[q] = spent[q]
  BY DEF Finish, Advance, TypeOK
<1> QED
  BY <1>1 DEF Ages, Unborn, Steps, ValueAge, OldestAge

\* No step makes anything older than its bound.
LEMMA AgesStep ==
  ASSUME TypeOK, Ages, [Next]_vars
  PROVE  Ages'
<1> USE DEF readerVars, historyVars
<1>1. ASSUME NEW r \in Readers, StartDay(r) PROVE Ages'
  <2>1. Unborn' /\ Steps' /\ ValueAge' /\ OldestAge'
    BY <1>1, ReaderAges DEF StartDay, Advance, TypeOK
  <2> QED
    BY <1>1, <2>1 DEF StartDay, Ages, Expires, DayStaleness, WeekStaleness
<1>2. ASSUME NEW r \in Readers, StartWeek(r) PROVE Ages'
  <2>1. Unborn' /\ Steps' /\ ValueAge' /\ OldestAge'
    BY <1>2, ReaderAges DEF StartWeek, Advance, TypeOK
  <2> QED
    BY <1>2, <2>1 DEF StartWeek, Ages, Expires, DayStaleness, WeekStaleness
<1>3. ASSUME NEW r \in Readers, DayHit(r) PROVE Ages'
  <2>1. Unborn' /\ Steps' /\ ValueAge' /\ OldestAge'
    BY <1>3, ReaderAges DEF DayHit, NextDay, Older, Advance, TypeOK
  <2> QED
    BY <1>3, <2>1 DEF DayHit, Ages, Expires, DayStaleness, WeekStaleness
<1>4. ASSUME NEW r \in Readers, DayMiss(r) PROVE Ages'
  <2>1. Unborn' /\ Steps' /\ ValueAge' /\ OldestAge'
    BY <1>4, ReaderAges DEF DayMiss, Advance, TypeOK
  <2> QED
    BY <1>4, <2>1 DEF DayMiss, Ages, Expires, DayStaleness, WeekStaleness
<1>5. ASSUME NEW r \in Readers, LoadDay(r) PROVE Ages'
  <2>1. Unborn' /\ Steps' /\ ValueAge' /\ OldestAge'
    BY <1>5, ReaderAges, NoneAssumption DEF LoadDay, Advance, TypeOK, Values
  <2> QED
    BY <1>5, <2>1 DEF LoadDay, Ages, Expires, DayStaleness, WeekStaleness
<1>6. ASSUME NEW r \in Readers, StoreDay(r) PROVE Ages'
  <2>1. value[r] \in Values /\ at[r] \in Keys /\ at[r] # Week
    BY <1>6 DEF StoreDay, Ages, Steps, TypeOK, Keys, Week
  <2>2. obsolete[value[r]] <= Slow
    BY <2>1, NoneAssumption, SlowAssumption DEF Ages, ValueAge, TypeOK, Values
  <2>3. Expires' /\ DayStaleness' /\ WeekStaleness'
    BY <1>6, <2>1, <2>2, PutAges DEF StoreDay, Ages
  <2>4. Unborn' /\ Steps' /\ ValueAge' /\ OldestAge'
    <3>1. CASE goal[r] = Week
      <4>1. /\ value'[r] = None
            /\ oldest'[r] = Older(oldest[r], value[r])
            /\ pc'[r] \in {"get", "storeWeek"}
            /\ spent' = spent /\ db' = db /\ obsolete' = obsolete
        BY <1>6, <3>1 DEF StoreDay, NextDay, Advance, TypeOK
      <4>2. \A q \in Readers \ {r} : /\ pc'[q] = pc[q] /\ value'[q] = value[q]
                                      /\ oldest'[q] = oldest[q] /\ spent'[q] = spent[q]
        BY <1>6, <3>1 DEF StoreDay, NextDay, Advance, TypeOK
      <4>3. oldest'[r] # None /\ oldest'[r] \in {oldest[r], value[r]}
        BY <2>1, <4>1, NoneAssumption DEF Older, Values
      <4> QED
        BY <4>1, <4>2, <4>3, ReaderAges
    <3>2. CASE goal[r] # Week
      BY <1>6, <3>2, FinishAges DEF StoreDay
    <3> QED
      BY <3>1, <3>2
  <2> QED
    BY <2>3, <2>4 DEF Ages
<1>7. ASSUME NEW r \in Readers, StoreWeek(r) PROVE Ages'
  <2>1. Unborn' /\ Steps' /\ ValueAge' /\ OldestAge'
    BY <1>7, FinishAges DEF StoreWeek
  <2>2. Expires' /\ DayStaleness' /\ WeekStaleness'
    <3>1. Week \in Keys /\ oldest[r] \in Values
      BY <1>7, DaysAssumption DEF StoreWeek, Week, Keys, Ages, Steps, TypeOK
    <3>2. obsolete[oldest[r]] <= DayBound + Slow
      BY <3>1, NoneAssumption, SlowAssumption, TTLAssumption
      DEF Ages, OldestAge, TypeOK, Values, DayBound
    <3> QED
      BY <1>7, <3>1, <3>2, PutAges DEF StoreWeek, Ages
  <2> QED
    BY <2>1, <2>2 DEF Ages
<1>8. ASSUME NEW r \in Readers, Abandon(r) PROVE Ages'
  <2>1. Unborn' /\ Steps' /\ ValueAge' /\ OldestAge'
    BY <1>8, FinishAges DEF Abandon
  <2> QED
    BY <1>8, <2>1 DEF Abandon, Ages, Expires, DayStaleness, WeekStaleness
<1>9. ASSUME NEW w \in Writers, Commit(w) PROVE Ages'
  <2>1. \A r \in Readers : pc'[r] = pc[r]
    BY <1>9, WriterAlone DEF Commit
  <2>2. Unborn'
    BY <1>9 DEF Commit, Ages, Unborn, TypeOK, Values
  <2> QED
    BY <1>9, <2>1, <2>2
    DEF Commit, Ages, Expires, Steps, ValueAge, OldestAge, DayStaleness, WeekStaleness
<1>10. ASSUME NEW w \in Writers, Scan(w) PROVE Ages'
  <2>1. \A r \in Readers : pc'[r] = pc[r]
    BY <1>10, WriterAlone DEF Scan
  <2> QED
    BY <1>10, <2>1
    DEF Scan, Ages, Unborn, Expires, Steps, ValueAge, OldestAge, DayStaleness,
        WeekStaleness
<1>11. ASSUME NEW w \in Writers, ClearFirst(w) PROVE Ages'
  <2>1. \A r \in Readers : pc'[r] = pc[r]
    BY <1>11, WriterAlone DEF ClearFirst
  <2>2. Expires' /\ DayStaleness' /\ WeekStaleness'
    BY <1>11, ClearAges DEF ClearFirst, Ages
  <2> QED
    BY <1>11, <2>1, <2>2 DEF ClearFirst, Ages, Unborn, Steps, ValueAge, OldestAge
<1>12. ASSUME NEW w \in Writers, ClearSecond(w) PROVE Ages'
  <2>1. \A r \in Readers : pc'[r] = pc[r]
    BY <1>12, WriterAlone DEF ClearSecond
  <2>2. Expires' /\ DayStaleness' /\ WeekStaleness'
    BY <1>12, ClearAges DEF ClearSecond, Ages
  <2> QED
    BY <1>12, <2>1, <2>2 DEF ClearSecond, Ages, Unborn, Steps, ValueAge, OldestAge
<1>13. ASSUME NEW w \in Writers, ClearFails(w) PROVE Ages'
  <2>1. \A r \in Readers : pc'[r] = pc[r]
    BY <1>13, WriterAlone DEF ClearFails
  <2> QED
    BY <1>13, <2>1
    DEF ClearFails, Ages, Unborn, Expires, Steps, ValueAge, OldestAge, DayStaleness,
        WeekStaleness
<1>14. ASSUME NEW w \in Writers, Die(w) PROVE Ages'
  <2>1. \A r \in Readers : pc'[r] = pc[r]
    BY <1>14, WriterAlone DEF Die
  <2> QED
    BY <1>14, <2>1
    DEF Die, Ages, Unborn, Expires, Steps, ValueAge, OldestAge, DayStaleness,
        WeekStaleness
<1>15. ASSUME Tick PROVE Ages'
  <2>1. Unborn'
    BY <1>15, MaxWritesAssumption DEF Tick, Ages, Unborn, TypeOK, Values
  <2>2. \A k \in Keys : cache'[k] # None =>
           cache'[k] = cache[k] /\ left[k] > 1 /\ left'[k] = left[k] - 1
    BY <1>15 DEF Tick, Ages, Expires, TypeOK
  <2>3. \A v \in Values : obsolete'[v] \in Nat /\ obsolete'[v] <= obsolete[v] + 1
    BY <1>15 DEF Tick, TypeOK
  <2>4. Expires'
    BY <2>2 DEF Expires, TypeOK
  <2>5. Steps'
    BY <1>15 DEF Tick, Ages, Steps
  <2>6. \A r \in Readers : value[r] # None \/ oldest[r] # None => spent'[r] = spent[r] + 1
    BY <1>15 DEF Tick, Ages, Steps, TypeOK
  <2>7. ValueAge'
    BY <1>15, <2>3, <2>6 DEF Tick, Ages, ValueAge, TypeOK
  <2>8. OldestAge'
    <3>1. DayBound \in Nat
      BY TTLAssumption, SlowAssumption DEF DayBound
    <3>2. ASSUME NEW r \in Readers, oldest[r] # None
          PROVE  obsolete'[oldest[r]] <= DayBound + spent'[r]
      <4>1. oldest[r] \in Values /\ spent[r] \in Nat
        BY <3>2 DEF TypeOK
      <4>2. obsolete[oldest[r]] \in Nat
        BY <4>1 DEF TypeOK
      <4>3. obsolete[oldest[r]] <= DayBound + spent[r]
        BY <3>2 DEF Ages, OldestAge
      <4> QED
        BY <2>3, <2>6, <3>1, <3>2, <4>1, <4>2, <4>3
    <3> QED
      BY <1>15, <3>2 DEF Tick, OldestAge
  <2>9. \A k \in Keys : cache'[k] # None =>
           /\ obsolete'[cache'[k]] + left'[k] <= obsolete[cache[k]] + left[k]
           /\ obsolete'[cache'[k]] + left'[k] \in Nat
           /\ obsolete[cache[k]] + left[k] \in Nat
    BY <2>2, <2>3 DEF TypeOK
  <2>10. DayStaleness'
    <3>1. DayBound \in Nat /\ \A d \in 1..Days : d \in Keys
      BY TTLAssumption, SlowAssumption DEF DayBound, Keys
    <3> QED
      BY <2>2, <2>9, <3>1 DEF Ages, DayStaleness
  <2>11. WeekStaleness'
    <3>1. WeekBound \in Nat /\ Week \in Keys
      BY TTLAssumption, SlowAssumption, DaysAssumption
      DEF WeekBound, DayBound, Week, Keys
    <3> QED
      BY <2>2, <2>9, <3>1 DEF Ages, WeekStaleness
  <2> QED
    BY <2>1, <2>4, <2>5, <2>7, <2>8, <2>10, <2>11 DEF Ages
<1>16. ASSUME UNCHANGED vars PROVE Ages'
  BY <1>16
  DEF vars, Ages, Unborn, Expires, Steps, ValueAge, OldestAge, DayStaleness, WeekStaleness
<1> QED
  BY <1>1, <1>2, <1>3, <1>4, <1>5, <1>6, <1>7, <1>8, <1>9, <1>10, <1>11, <1>12, <1>13,
     <1>14, <1>15, <1>16 DEF Next

-----------------------------------------------------------------------------
\* What has raced or failed stays so.
LEMMA HistoryStays ==
  ASSUME [Next]_vars
  PROVE  (~ raced' => ~ raced) /\ (~ failed' => ~ failed)
<1>1. ASSUME NEW r \in Readers, StoreDay(r) \/ StoreWeek(r)
      PROVE  (~ raced' => ~ raced) /\ (~ failed' => ~ failed)
  <2>1. failed' = failed
    BY <1>1 DEF StoreDay, StoreWeek
  <2>2. PICK k, v : Put(r, k, v) \/ PutFails
    BY <1>1 DEF StoreDay, StoreWeek
  <2>3. CASE Put(r, k, v)
    BY <2>1, <2>3, Zenon DEF Put
  <2>4. CASE PutFails
    BY <2>1, <2>4 DEF PutFails
  <2> QED
    BY <2>2, <2>3, <2>4
<1>2. ASSUME NEW r \in Readers,
             \/ StartDay(r) \/ StartWeek(r) \/ DayHit(r) \/ DayMiss(r)
             \/ LoadDay(r) \/ Abandon(r)
      PROVE  raced' = raced /\ failed' = failed
  BY <1>2 DEF StartDay, StartWeek, DayHit, DayMiss, LoadDay, Abandon, historyVars
<1>3. ASSUME NEW w \in Writers, Commit(w) \/ Scan(w) \/ ClearFirst(w) \/ ClearSecond(w)
      PROVE  raced' = raced /\ failed' = failed
  BY <1>3 DEF Commit, Scan, ClearFirst, ClearSecond, historyVars
<1>4. ASSUME NEW w \in Writers, ClearFails(w) \/ Die(w)
      PROVE  raced' = raced /\ failed'
  BY <1>4 DEF ClearFails, Die
<1>5. ASSUME Tick \/ UNCHANGED vars
      PROVE  raced' = raced /\ failed' = failed
  BY <1>5 DEF Tick, vars, historyVars
<1> QED
  BY <1>1, <1>2, <1>3, <1>4, <1>5 DEF Next

\* A step of a reader changes nothing about who is going to clear what.
LEMMA ReaderAlone ==
  ASSUME TypeOK, NEW r \in Readers, NEW step, Advance(r, step), found' = found
  PROVE  /\ Pending => Pending'
         /\ Scanning => Scanning'
         /\ Invalidating => Invalidating'
         /\ \A d \in 1..Days : WillClear(d) => WillClear(d)'
<1>1. \A w \in Writers : pc'[w] = pc[w] /\ found'[w] = found[w]
  BY ActorsAssumption DEF TypeOK, Advance
<1> QED
  BY <1>1 DEF Pending, Scanning, Invalidating, WillClear

\* A reader picks up what is out of date only while it is to be cleared.
LEMMA ReaderFresh ==
  ASSUME TypeOK, FreshValues, FreshOldest, FreshDays, NEW r \in Readers, NEW step,
         Advance(r, step), found' = found, db' = db,
         \A q \in Readers \ {r} : /\ value'[q] = value[q] /\ oldest'[q] = oldest[q]
                                  /\ (q \in crossed' <=> q \in crossed),
         r \in crossed => r \in crossed' \/ (value'[r] = None /\ oldest'[r] = None),
         value'[r] \in {None, db, value[r]},
         \/ oldest'[r] \in {None, oldest[r], value[r]}
         \/ at[r] \in 1..Days /\ oldest'[r] = cache[at[r]]
  PROVE  FreshValues' /\ FreshOldest'
<1>1. /\ Pending => Pending'
      /\ Scanning => Scanning'
  BY ReaderAlone
<1>2. Pending => Scanning
  BY DEF Pending, Scanning
<1>3. \A d \in 1..Days : WillClear(d) => Scanning
  BY DEF WillClear, Scanning
<1>4. FreshValues'
  BY <1>1 DEF FreshValues
<1>5. r \notin crossed' /\ oldest'[r] \notin {None, db} => Scanning
  BY <1>2, <1>3 DEF FreshValues, FreshOldest, FreshDays
<1>6. FreshOldest'
  BY <1>1, <1>5 DEF FreshOldest
<1> QED
  BY <1>4, <1>6

\* Redis takes what is out of date only while it is to be cleared.
LEMMA PutFresh ==
  ASSUME TypeOK, FreshDays, FreshWeek, NEW r \in Readers, NEW step, Advance(r, step),
         found' = found, db' = db, ~ raced', NEW k \in Keys, NEW v \in Values,
         Put(r, k, v) \/ PutFails,
         r \notin crossed /\ v # db => Scanning,
         r \notin crossed /\ v # db /\ k # Week => Pending
  PROVE  FreshDays' /\ FreshWeek'
<1>1. /\ Pending => Pending'
      /\ Scanning => Scanning'
      /\ Invalidating => Invalidating'
      /\ \A d \in 1..Days : WillClear(d) => WillClear(d)'
  BY ReaderAlone
<1>2. Scanning => Invalidating
  BY DEF Scanning, Invalidating
<1>3. \A d \in 1..Days : Pending => WillClear(d)
  BY DEF Pending, WillClear
<1>4. CASE PutFails
  BY <1>1, <1>4 DEF PutFails, FreshDays, FreshWeek
<1>5. CASE Put(r, k, v)
  <2>1. r \notin crossed
    BY <1>5, Zenon DEF Put
  <2>2. \A l \in Keys : cache'[l] = IF l = k THEN v ELSE cache[l]
    BY <1>5 DEF Put, TypeOK
  <2>3. Week \in Keys /\ \A d \in 1..Days : d \in Keys /\ d # Week
    BY DaysAssumption DEF Week, Keys
  <2>4. FreshDays'
    BY <1>1, <1>3, <2>1, <2>2, <2>3 DEF FreshDays
  <2>5. FreshWeek'
    BY <1>1, <1>2, <2>1, <2>2, <2>3 DEF FreshWeek
  <2> QED
    BY <2>4, <2>5
<1> QED
  BY <1>4, <1>5

\* No step leaves Redis out of date without a clearing to come, while every
\* invalidation is done and no reader has stored across one.
LEMMA FreshStep ==
  ASSUME TypeOK, Ages, Fresh, [Next]_vars
  PROVE  Fresh'
<1> SUFFICES ASSUME ~ raced', ~ failed'
             PROVE  FreshValues' /\ FreshOldest' /\ FreshDays' /\ FreshWeek'
  BY DEF Fresh
<1> USE DEF readerVars, historyVars
<1>0. FreshValues /\ FreshOldest /\ FreshDays /\ FreshWeek
  BY HistoryStays DEF Fresh
<1>1. ASSUME NEW r \in Readers, NEW step, Advance(r, step), found' = found, db' = db,
             cache' = cache
      PROVE  FreshDays' /\ FreshWeek'
  BY <1>0, <1>1, ReaderAlone DEF FreshDays, FreshWeek
<1>2. ASSUME NEW r \in Readers, StartDay(r)
      PROVE  FreshValues' /\ FreshOldest' /\ FreshDays' /\ FreshWeek'
  BY <1>0, <1>1, <1>2, ReaderFresh DEF StartDay
<1>3. ASSUME NEW r \in Readers, StartWeek(r)
      PROVE  FreshValues' /\ FreshOldest' /\ FreshDays' /\ FreshWeek'
  BY <1>0, <1>1, <1>3, ReaderFresh DEF StartWeek
<1>4. ASSUME NEW r \in Readers, DayHit(r)
      PROVE  FreshValues' /\ FreshOldest' /\ FreshDays' /\ FreshWeek'
  BY <1>0, <1>1, <1>4, ReaderFresh DEF DayHit, NextDay, Older, TypeOK
<1>5. ASSUME NEW r \in Readers, DayMiss(r)
      PROVE  FreshValues' /\ FreshOldest' /\ FreshDays' /\ FreshWeek'
  BY <1>0, <1>1, <1>5, ReaderFresh DEF DayMiss
<1>6. ASSUME NEW r \in Readers, LoadDay(r)
      PROVE  FreshValues' /\ FreshOldest' /\ FreshDays' /\ FreshWeek'
  BY <1>0, <1>1, <1>6, ReaderFresh DEF LoadDay, TypeOK
<1>7. ASSUME NEW r \in Readers, Abandon(r)
      PROVE  FreshValues' /\ FreshOldest' /\ FreshDays' /\ FreshWeek'
  BY <1>0, <1>1, <1>7, ReaderFresh DEF Abandon, Finish, TypeOK
<1>8. ASSUME NEW r \in Readers, StoreDay(r)
      PROVE  FreshValues' /\ FreshOldest' /\ FreshDays' /\ FreshWeek'
  <2>1. value[r] \in Values /\ at[r] \in Keys /\ at[r] # Week
    BY <1>8 DEF StoreDay, Ages, Steps, TypeOK, Keys, Week
  <2>2. PICK step : Advance(r, step)
    BY <1>8 DEF StoreDay, NextDay, Finish
  <2>3. r \notin crossed /\ value[r] # db => Pending /\ Scanning
    BY <1>0, <2>1, NoneAssumption DEF FreshValues, Pending, Scanning, Values
  <2>4. FreshDays' /\ FreshWeek'
    BY <1>0, <1>8, <2>1, <2>2, <2>3, PutFresh DEF StoreDay
  <2>5. CASE goal[r] = Week
    <3>1. /\ value'[r] = None /\ oldest'[r] \in {oldest[r], value[r]}
          /\ found' = found /\ db' = db /\ crossed' = crossed
      BY <1>8, <2>5 DEF StoreDay, NextDay, Older, TypeOK
    <3>2. \A q \in Readers \ {r} : value'[q] = value[q] /\ oldest'[q] = oldest[q]
      BY <1>8, <2>5 DEF StoreDay, NextDay, TypeOK
    <3> QED
      BY <1>0, <2>2, <2>4, <3>1, <3>2, ReaderFresh
  <2>6. CASE goal[r] # Week
    <3>1. /\ value'[r] = None /\ oldest'[r] = None
          /\ found' = found /\ db' = db /\ crossed' = crossed \ {r}
      BY <1>8, <2>6 DEF StoreDay, Finish, TypeOK
    <3>2. \A q \in Readers \ {r} : value'[q] = value[q] /\ oldest'[q] = oldest[q]
      BY <1>8, <2>6 DEF StoreDay, Finish, TypeOK
    <3> QED
      BY <1>0, <2>2, <2>4, <3>1, <3>2, ReaderFresh
  <2> QED
    BY <2>4, <2>5, <2>6
<1>9. ASSUME NEW r \in Readers, StoreWeek(r)
      PROVE  FreshValues' /\ FreshOldest' /\ FreshDays' /\ FreshWeek'
  <2>1. oldest[r] \in Values /\ Week \in Keys
    BY <1>9, DaysAssumption DEF StoreWeek, Ages, Steps, TypeOK, Keys, Week
  <2>2. r \notin crossed /\ oldest[r] # db => Scanning
    BY <1>0, <2>1, NoneAssumption DEF FreshOldest, Values
  <2>3. FreshDays' /\ FreshWeek'
    BY <1>0, <1>9, <2>1, <2>2, PutFresh DEF StoreWeek, Finish
  <2>4. FreshValues' /\ FreshOldest'
    BY <1>0, <1>9, ReaderFresh DEF StoreWeek, Finish, TypeOK
  <2> QED
    BY <2>3, <2>4
<1>10. ASSUME NEW w \in Writers, Commit(w)
      PROVE  FreshValues' /\ FreshOldest' /\ FreshDays' /\ FreshWeek'
  <2>1. pc'[w] = "committed"
    BY <1>10 DEF Commit, Advance, TypeOK
  <2> QED
    BY <2>1 DEF FreshValues, FreshOldest, FreshDays, FreshWeek, Pending, Scanning,
                Invalidating, WillClear
<1>11. ASSUME NEW w \in Writers, Scan(w)
      PROVE  FreshValues' /\ FreshOldest' /\ FreshDays' /\ FreshWeek'
  <2>1. \A r \in Readers : r \notin crossed' => value'[r] = None /\ oldest'[r] = None
    BY <1>11 DEF Scan, Active, Ages, Steps
  <2>2. /\ pc'[w] = "scanned"
        /\ \A d \in 1..Days : cache[d] # None => d \in found'[w]
        /\ \A x \in Writers \ {w} : pc'[x] = pc[x] /\ found'[x] = found[x]
        /\ cache' = cache /\ db' = db
    BY <1>11 DEF Scan, Advance, FirstKeys, TypeOK
  <2>3. FreshDays'
    BY <1>0, <2>2 DEF FreshDays, WillClear
  <2>4. FreshWeek'
    BY <2>2 DEF FreshWeek, Invalidating
  <2> QED
    BY <2>1, <2>3, <2>4 DEF FreshValues, FreshOldest
<1>12. ASSUME NEW w \in Writers, ClearFirst(w)
      PROVE  FreshValues' /\ FreshOldest' /\ FreshDays' /\ FreshWeek'
  <2>1. \A r \in Readers : r \notin crossed' => value'[r] = None /\ oldest'[r] = None
    BY <1>12 DEF ClearFirst, Active, Ages, Steps
  <2>2. /\ pc[w] = "scanned" /\ pc'[w] = "cleared"
        /\ \A x \in Writers \ {w} : pc'[x] = pc[x] /\ found'[x] = found[x]
        /\ \A d \in 1..Days :
             cache'[d] # None => d \notin found[w] /\ cache'[d] = cache[d]
        /\ db' = db
    BY <1>12 DEF ClearFirst, Clear, Advance, Keys, TypeOK
  <2>3. FreshDays'
    BY <1>0, <2>2 DEF FreshDays, WillClear
  <2>4. FreshWeek'
    BY <2>2 DEF FreshWeek, Invalidating
  <2> QED
    BY <2>1, <2>3, <2>4 DEF FreshValues, FreshOldest
<1>13. ASSUME NEW w \in Writers, ClearSecond(w)
      PROVE  FreshValues' /\ FreshOldest' /\ FreshDays' /\ FreshWeek'
  <2>1. /\ pc[w] = "cleared"
        /\ \A x \in Writers \ {w} : pc'[x] = pc[x]
        /\ found' = found /\ db' = db /\ value' = value /\ oldest' = oldest
        /\ crossed' = crossed
    BY <1>13 DEF ClearSecond, Advance, TypeOK
  <2>2. /\ cache'[Week] = None
        /\ \A d \in 1..Days : cache'[d] = cache[d]
    BY <1>13, DaysAssumption DEF ClearSecond, Clear, FirstKeys, Keys, Week
  <2>3. /\ Pending => Pending'
        /\ Scanning => Scanning'
        /\ \A d \in 1..Days : WillClear(d) => WillClear(d)'
    BY <2>1 DEF Pending, Scanning, WillClear
  <2> QED
    BY <1>0, <2>1, <2>2, <2>3 DEF FreshValues, FreshOldest, FreshDays, FreshWeek
<1>14. ASSUME NEW w \in Writers, ClearFails(w) \/ Die(w)
      PROVE  FALSE
  BY <1>14 DEF ClearFails, Die
<1>15. ASSUME Tick
      PROVE  FreshValues' /\ FreshOldest' /\ FreshDays' /\ FreshWeek'
  <2>1. \A k \in Keys : cache'[k] \in {None, cache[k]}
    BY <1>15 DEF Tick
  <2>2. Week \in Keys /\ \A d \in 1..Days : d \in Keys
    BY DaysAssumption DEF Week, Keys
  <2> QED
    BY <1>0, <1>15, <2>1, <2>2
    DEF Tick, FreshValues, FreshOldest, FreshDays, FreshWeek, Pending, Scanning,
        Invalidating, WillClear
<1>16. ASSUME UNCHANGED vars
      PROVE  FreshValues' /\ FreshOldest' /\ FreshDays' /\ FreshWeek'
  BY <1>0, <1>16
  DEF vars, FreshValues, FreshOldest, FreshDays, FreshWeek, Pending, Scanning,
      Invalidating, WillClear
<1> QED
  BY <1>2, <1>3, <1>4, <1>5, <1>6, <1>7, <1>8, <1>9, <1>10, <1>11, <1>12, <1>13,
     <1>14, <1>15, <1>16 DEF Next

-----------------------------------------------------------------------------
\* At the start Redis is empty and nobody holds anything.
LEMMA InitOK == Init => IInv
<1> SUFFICES ASSUME Init PROVE IInv
  OBVIOUS
<1>1. TypeOK
  <2>1. Week \in Keys /\ 0 \in 0..TTL /\ 0 \in 0..Slow /\ 1 \in 1..Days /\ 0 \in Values
    BY DaysAssumption, TTLAssumption, SlowAssumption, MaxWritesAssumption
    DEF Week, Keys, Values
  <2> QED
    BY <2>1 DEF Init, TypeOK, Places
<1>2. Ages
  BY DaysAssumption
  DEF Init, Ages, Unborn, Expires, Steps, ValueAge, OldestAge, DayStaleness,
      WeekStaleness, Keys, Week
<1>3. Fresh
  <2>1. Week \in Keys /\ \A d \in 1..Days : d \in Keys
    BY DaysAssumption DEF Week, Keys
  <2>2. \A k \in Keys : cache[k] = None
    BY DEF Init
  <2>3. \A r \in Readers : value[r] = None /\ oldest[r] = None
    BY DEF Init
  <2> QED
    BY <2>1, <2>2, <2>3 DEF Fresh, FreshValues, FreshOldest, FreshDays, FreshWeek
<1> QED
  BY <1>1, <1>2, <1>3 DEF IInv

\* Types, ages and freshness hold in every state: the inductive invariant.
THEOREM Invariance == Spec => []IInv
<1>1. IInv /\ [Next]_vars => IInv'
  BY TypeStep, AgesStep, FreshStep DEF IInv, Ages
<1> QED
  BY InitOK, <1>1, PTL DEF Spec

\* A day that Redis serves was true at most TTL + Slow ago, whatever fails and
\* however reads and changes of the schedule interleave.
THEOREM DaysAreBoundedlyStale == Spec => []DayStaleness
<1>1. IInv => DayStaleness
  BY DEF IInv, Ages
<1> QED
  BY Invariance, <1>1, PTL

\* A week, made of days that Redis may have served, at most twice as long ago.
THEOREM WeeksAreBoundedlyStale == Spec => []WeekStaleness
<1>1. IInv => WeekStaleness
  BY DEF IInv, Ages
<1> QED
  BY Invariance, <1>1, PTL

\* Once the keys of a change are cleared, days before the week, Redis holds
\* nothing out of date unless a reader stored across the clearing or an
\* invalidation was not done.
THEOREM ClearedMeansFresh == Spec => []FreshUnlessRaced
<1>1. IInv => FreshUnlessRaced
  <2> SUFFICES ASSUME IInv, ~ raced, ~ failed
               PROVE  /\ (\A w \in Writers : pc[w] \notin {"committed", "scanned"}) =>
                           \A d \in 1..Days : cache[d] \in {None, db}
                      /\ (\A w \in Writers : pc[w] = "idle") => cache[Week] \in {None, db}
    BY DEF FreshUnlessRaced
  <2>1. FreshDays /\ FreshWeek
    BY DEF IInv, Fresh
  <2> QED
    BY <2>1 DEF FreshDays, FreshWeek, WillClear, Invalidating
<1> QED
  BY Invariance, <1>1, PTL
=============================================================================
