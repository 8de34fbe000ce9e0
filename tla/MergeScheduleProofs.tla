------------------------- MODULE MergeScheduleProofs -------------------------
(* Theorems about MergeSchedule: the loop invariant of merge_schedule.      *)
EXTENDS MergeSchedule, ScheduleRowsProofs

\* What the loop relies on and leaves alone.
InputsOK ==
    /\ entries \subseteq {r \in Columns({"normal"}) : ValidEntry(r)}
    /\ overrides \subseteq {r \in Columns(OverrideTypes) : ValidOverride(r)}
    /\ UniqueNumbers(entries)
    /\ UniqueNumbers(overrides)
    /\ todo \subseteq overrides

\* The loop invariant: the lessons are those of the overrides handled so far.
LoopInv == InputsOK /\ lessons = DayOf(entries, overrides \ todo)

\* A table allowed by the unique constraint has unique numbers.
LEMMA TablesUnique ==
    ASSUME NEW rows, NEW t \in Tables(rows)
    PROVE  t \subseteq rows /\ UniqueNumbers(t)
<1>1. PICK f \in [Numbers -> rows \cup {None}] :
         /\ \A n \in Numbers : f[n] # None => f[n].number = n
         /\ t = {r \in {f[n] : n \in Numbers} : r # None}
  BY DEF Tables
<1> QED BY <1>1 DEF UniqueNumbers

\* The lesson of an entry no override changes.
LEMMA LessonOfEntry ==
    ASSUME NEW b, NEW types, types = {} \/ types = {"cancelled"}
    PROVE  LessonOf({b}, {}, types) =
             IF types = {} THEN Normal(b) ELSE Cancelled(Normal(b))
<1>1. {r.subject : r \in IF {} = {} THEN {b} ELSE {}} = {b.subject}
  BY ColumnsOfOne
<1>2. (CHOOSE s \in {b.subject} : TRUE) = b.subject
  BY ChooseOne
<1>3. LessonOf({b}, {}, types) =
        [subject |-> b.subject, start |-> b.start, end |-> b.end, room |-> b.room,
         status |-> IF types = {} THEN "normal" ELSE CHOOSE t \in types : TRUE]
  BY <1>1, <1>2, ColumnsOfOne, GivenOne DEF LessonOf
<1>4. CASE types = {}
  BY <1>3, <1>4 DEF Normal
<1>5. CASE types = {"cancelled"}
  BY <1>3, <1>5, ChooseOne DEF Normal, Cancelled
<1> QED BY <1>4, <1>5

\* The lesson of an added or replaced one, with an entry below it and without.
LEMMA LessonOfOverride ==
    ASSUME NEW o, NEW b
    PROVE  /\ LessonOf({b}, {o}, {o.type}) =
                [subject |-> o.subject,
                 start |-> IF o.start # None THEN o.start ELSE b.start,
                 end |-> IF o.end # None THEN o.end ELSE b.end,
                 room |-> IF o.room # None THEN o.room ELSE b.room,
                 status |-> o.type]
           /\ LessonOf({}, {o}, {o.type}) =
                [subject |-> o.subject, start |-> o.start, end |-> o.end,
                 room |-> o.room, status |-> o.type]
<1>1. \A base : {r.subject : r \in IF {o} = {} THEN base ELSE {o}} = {o.subject}
  BY ColumnsOfOne
<1>2. /\ (CHOOSE s \in {o.subject} : TRUE) = o.subject
      /\ (IF {o.type} = {} THEN "normal" ELSE CHOOSE t \in {o.type} : TRUE) = o.type
  BY ChooseOne
<1>3. LessonOf({b}, {o}, {o.type}) =
        [subject |-> o.subject, start |-> Given({o.start}, {b.start}),
         end |-> Given({o.end}, {b.end}), room |-> Given({o.room}, {b.room}),
         status |-> o.type]
  BY <1>1, <1>2, ColumnsOfOne DEF LessonOf
<1>4. LessonOf({}, {o}, {o.type}) =
        [subject |-> o.subject, start |-> Given({o.start}, {}),
         end |-> Given({o.end}, {}), room |-> Given({o.room}, {}),
         status |-> o.type]
  BY <1>1, <1>2, ColumnsOfOne DEF LessonOf
<1> QED BY <1>3, <1>4, GivenOne

\* Without overrides a day has the lessons of its entries.
LEMMA DayOfEntries ==
    ASSUME NEW es, UniqueNumbers(es)
    PROVE  DayOf(es, {}) = [n \in {e.number : e \in es} |->
                               Normal(CHOOSE e \in es : e.number = n)]
<1>1. Shown(es, {}) = {e.number : e \in es}
  BY DEF Shown
<1>2. ASSUME NEW n \in {e.number : e \in es}
      PROVE  LessonOf(At(es, n), Changing({}, n), {o.type : o \in At({}, n)})
               = Normal(CHOOSE e \in es : e.number = n)
  <2>1. PICK b \in es : b.number = n
    BY <1>2
  <2>2. (CHOOSE e \in es : e.number = n) = b
    BY <2>1 DEF UniqueNumbers
  <2>3. At(es, n) = {b}
    BY <2>1, AtUnique
  <2>4. At({}, n) = {} /\ Changing({}, n) = {} /\ {o.type : o \in At({}, n)} = {}
    BY DEF At, Changing
  <2> QED BY <2>2, <2>3, <2>4, LessonOfEntry
<1> QED BY <1>1, <1>2 DEF DayOf

\* The loop starts from the lessons of the weekday.
LEMMA LoopInvInit == Init => LoopInv
<1> SUFFICES ASSUME Init PROVE LoopInv
  OBVIOUS
<1>1. InputsOK
  BY TablesUnique DEF Init, InputsOK
<1>2. overrides \ todo = {}
  BY DEF Init
<1>3. lessons = DayOf(entries, {})
  BY <1>1, DayOfEntries DEF InputsOK, Init
<1> QED BY <1>1, <1>2, <1>3 DEF LoopInv
\* The override of a number is the only one to count for it.
LEMMA AtOneMore ==
    ASSUME NEW os, UniqueNumbers(os), NEW d, NEW o, d \subseteq os, o \in os, o \notin d
    PROVE  /\ At(d, o.number) = {}
           /\ Changing(d, o.number) = {}
           /\ At(d \cup {o}, o.number) = {o}
<1>1. At(d, o.number) = {}
  BY DEF At, UniqueNumbers
<1>2. At(d \cup {o}, o.number) = {o}
  BY <1>1 DEF At
<1> QED BY <1>1, <1>2 DEF Changing

\* One more override changes the lesson of its number and no other.
LEMMA DayOfOneMore ==
    ASSUME NEW es, NEW d, NEW o, NEW n \in Shown(es, d), n # o.number
    PROVE  DayOf(es, d \cup {o})[n] = DayOf(es, d)[n]
<1>1. n \in Shown(es, d \cup {o})
  BY DEF Shown
<1>2. At(d \cup {o}, n) = At(d, n)
  BY DEF At
<1>3. Changing(d \cup {o}, n) = Changing(d, n)
  BY <1>2 DEF Changing
<1> QED BY <1>1, <1>2, <1>3 DEF DayOf

\* A lesson shown that no override has changed is that of an entry.
LEMMA UnchangedLesson ==
    ASSUME NEW es, UniqueNumbers(es), NEW os, UniqueNumbers(os),
           NEW d, NEW o, d \subseteq os, o \in os, o \notin d, o.number \in Shown(es, d)
    PROVE  \E b \in es : /\ At(es, o.number) = {b}
                         /\ DayOf(es, d)[o.number] = Normal(b)
<1>1. At(d, o.number) = {} /\ Changing(d, o.number) = {}
  BY AtOneMore
<1>2. \A x \in d : x.number # o.number
  BY <1>1 DEF At
<1>3. PICK b \in es : b.number = o.number
  BY <1>2 DEF Shown
<1>4. At(es, o.number) = {b}
  BY <1>3, AtUnique
<1>5. {x.type : x \in At(d, o.number)} = {}
  BY <1>1
<1>6. DayOf(es, d)[o.number] = LessonOf({b}, {}, {})
  BY <1>1, <1>4, <1>5 DEF DayOf
<1> QED BY <1>4, <1>6, LessonOfEntry

\* One round of the loop over a cancelled lesson.
LEMMA CancelStep ==
    ASSUME LoopInv, NEW o \in todo, Cancel(o)
    PROVE  LoopInv'
<1> DEFINE d == overrides \ todo
<1>1. InputsOK'
  BY DEF LoopInv, InputsOK, Cancel
<1>2. /\ UniqueNumbers(entries) /\ UniqueNumbers(overrides)
      /\ d \subseteq overrides /\ o \in overrides /\ o \notin d
      /\ (overrides \ todo)' = d \cup {o}
  BY DEF LoopInv, InputsOK, Cancel
<1>3. lessons = DayOf(entries, d)
  BY DEF LoopInv
<1>4. lessons' = [n \in DOMAIN lessons |->
                     IF n = o.number THEN Cancelled(lessons[n]) ELSE lessons[n]]
  BY DEF Cancel
<1>5. o.type = "cancelled"
  BY DEF Cancel
<1> HIDE DEF d
<1>6. Shown(entries, d \cup {o}) = Shown(entries, d) /\ DOMAIN lessons = Shown(entries, d)
  BY <1>3, <1>5 DEF DayOf, Shown
<1>7. ASSUME NEW n \in Shown(entries, d)
      PROVE  lessons'[n] = DayOf(entries, d \cup {o})[n]
  <2>1. CASE n # o.number
    <3>1. n \in Shown(entries, d)
      BY <1>6, <1>7, <2>1
    <3>2. DayOf(entries, d \cup {o})[n] = DayOf(entries, d)[n]
      BY <2>1, <3>1, DayOfOneMore
    <3>3. lessons'[n] = lessons[n]
      BY <1>4, <1>6, <2>1, <3>1
    <3> QED BY <1>3, <3>2, <3>3
  <2>2. CASE n = o.number
    <3>0. o.number \in Shown(entries, d)
      BY <1>7, <2>2
    <3>1. PICK b \in entries : /\ At(entries, o.number) = {b}
                               /\ DayOf(entries, d)[o.number] = Normal(b)
      BY <1>2, <3>0, UnchangedLesson
    <3>2. /\ At(d \cup {o}, o.number) = {o}
          /\ Changing(d \cup {o}, o.number) = {}
      <4>1. At(d \cup {o}, o.number) = {o}
        BY <1>2 DEF At, UniqueNumbers
      <4> QED BY <1>5, <4>1 DEF Changing
    <3>3. {x.type : x \in At(d \cup {o}, o.number)} = {"cancelled"}
      BY <1>5, <3>2
    <3>4. DayOf(entries, d \cup {o})[n] = LessonOf({b}, {}, {"cancelled"})
      BY <1>6, <2>2, <3>1, <3>2, <3>3 DEF DayOf
    <3>5. LessonOf({b}, {}, {"cancelled"}) = Cancelled(Normal(b))
      BY LessonOfEntry
    <3> QED BY <1>3, <1>4, <1>6, <2>2, <3>1, <3>4, <3>5
  <2> QED BY <2>1, <2>2
<1>8. lessons' = DayOf(entries, d \cup {o})
  BY <1>4, <1>6, <1>7 DEF DayOf
<1>9. entries' = entries
  BY DEF Cancel
<1> QED BY <1>1, <1>2, <1>8, <1>9 DEF LoopInv

\* One round of the loop over an added or replaced lesson.
LEMMA ReplaceStep ==
    ASSUME LoopInv, NEW o \in todo, Replace(o)
    PROVE  LoopInv'
<1> DEFINE d == overrides \ todo
<1>1. InputsOK'
  BY DEF LoopInv, InputsOK, Replace
<1>2. /\ UniqueNumbers(entries) /\ UniqueNumbers(overrides)
      /\ d \subseteq overrides /\ o \in overrides /\ o \notin d
      /\ (overrides \ todo)' = d \cup {o}
  BY DEF LoopInv, InputsOK, Replace
<1>3. lessons = DayOf(entries, d)
  BY DEF LoopInv
<1>4. lessons' = [n \in DOMAIN lessons \cup {o.number} |->
                     IF n = o.number THEN Changed(o) ELSE lessons[n]]
  BY DEF Replace
<1>5. o.type # "cancelled"
  BY DEF Replace
<1> HIDE DEF d
<1>6. /\ Shown(entries, d \cup {o}) = Shown(entries, d) \cup {o.number}
      /\ DOMAIN lessons = Shown(entries, d)
  BY <1>3, <1>5 DEF DayOf, Shown
<1>7. ASSUME NEW n \in Shown(entries, d \cup {o})
      PROVE  lessons'[n] = DayOf(entries, d \cup {o})[n]
  <2>1. CASE n # o.number
    <3>1. n \in Shown(entries, d)
      BY <1>6, <1>7, <2>1
    <3>2. DayOf(entries, d \cup {o})[n] = DayOf(entries, d)[n]
      BY <2>1, <3>1, DayOfOneMore
    <3>3. lessons'[n] = lessons[n]
      BY <1>4, <1>6, <2>1, <3>1
    <3> QED BY <1>3, <3>2, <3>3
  <2>2. CASE n = o.number
    <3>1. /\ At(d \cup {o}, o.number) = {o}
          /\ Changing(d \cup {o}, o.number) = {o}
      <4>1. At(d \cup {o}, o.number) = {o}
        BY <1>2 DEF At, UniqueNumbers
      <4> QED BY <1>5, <4>1 DEF Changing
    <3>2. {x.type : x \in At(d \cup {o}, o.number)} = {o.type}
      BY <3>1
    <3>3. DayOf(entries, d \cup {o})[n] = LessonOf(At(entries, o.number), {o}, {o.type})
      BY <2>2, <3>1, <3>2 DEF DayOf
    <3>4. lessons'[n] = Changed(o)
      BY <1>4, <2>2
    <3>5. CASE o.number \in Shown(entries, d)
      <4>1. PICK b \in entries : /\ At(entries, o.number) = {b}
                                 /\ DayOf(entries, d)[o.number] = Normal(b)
        BY <1>2, <3>5, UnchangedLesson
      <4>2. lessons[o.number] = Normal(b) /\ o.number \in DOMAIN lessons
        BY <1>3, <1>6, <3>5, <4>1
      <4>3. Changed(o) =
              [subject |-> o.subject,
               start |-> IF o.start # None THEN o.start ELSE b.start,
               end |-> IF o.end # None THEN o.end ELSE b.end,
               room |-> IF o.room # None THEN o.room ELSE b.room,
               status |-> o.type]
        BY <4>2 DEF Changed, Inherited, Normal
      <4> QED BY <3>3, <3>4, <4>1, <4>3, LessonOfOverride
    <3>6. CASE o.number \notin Shown(entries, d)
      <4>1. At(entries, o.number) = {}
        BY <3>6 DEF Shown, At
      <4>2. o.number \notin DOMAIN lessons
        BY <1>6, <3>6
      <4>3. Changed(o) = LessonOf({}, {o}, {o.type})
        BY <4>2, LessonOfOverride DEF Changed, Inherited
      <4> QED BY <3>3, <3>4, <4>1, <4>3
    <3> QED BY <3>5, <3>6
  <2> QED BY <2>1, <2>2
<1>8. lessons' = DayOf(entries, d \cup {o})
  BY <1>4, <1>6, <1>7 DEF DayOf
<1>9. entries' = entries
  BY DEF Replace
<1> QED BY <1>1, <1>2, <1>8, <1>9 DEF LoopInv

\* A valid entry has both times, a valid override both or none.
LEMMA ChangedIsTimely ==
    ASSUME InputsOK, LessonsTimely, NEW o \in todo
    PROVE  Timely(Changed(o))
<1>1. o.start = None <=> o.end = None
  BY DEF InputsOK, ValidOverride
<1>2. Ordered(o)
  BY DEF InputsOK, ValidOverride
<1>3. CASE o.start = None
  BY <1>1, <1>3 DEF Changed, Inherited, Timely, Ordered, LessonsTimely
<1>4. CASE o.start # None
  BY <1>1, <1>2, <1>4 DEF Changed, Inherited, Timely, Ordered
<1> QED BY <1>3, <1>4

\* merge_schedule computes the day as it is defined, for any tables that the
\* constraints allow and any order of the overrides.
THEOREM MergeIsDayOf == Spec => []MergedAsDefined
<1>1. LoopInv /\ [Next]_vars => LoopInv'
  <2> SUFFICES ASSUME LoopInv, [Next]_vars PROVE LoopInv'
    OBVIOUS
  <2>1. CASE UNCHANGED vars
    BY <2>1 DEF LoopInv, InputsOK, vars
  <2>2. CASE Next
    BY <2>2, CancelStep, ReplaceStep DEF Next
  <2> QED BY <2>1, <2>2
<1>2. LoopInv => MergedAsDefined
  <2> SUFFICES ASSUME LoopInv, todo = {} PROVE lessons = DayOf(entries, overrides)
    BY DEF MergedAsDefined
  <2> QED BY DEF LoopInv
<1> QED BY LoopInvInit, <1>1, <1>2, PTL DEF Spec

\* No lesson of a merged day has half a time, or ends before it starts.
THEOREM MergedLessonsTimely == Spec => []LessonsTimely
<1>1. Init => InputsOK /\ LessonsTimely
  <2> SUFFICES ASSUME Init PROVE LessonsTimely
    BY LoopInvInit DEF LoopInv
  <2>1. InputsOK
    BY LoopInvInit DEF LoopInv
  <2>2. ASSUME NEW n \in DOMAIN lessons PROVE Timely(lessons[n])
    <3>1. PICK b \in entries : b.number = n
      BY <2>2 DEF Init
    <3>2. (CHOOSE e \in entries : e.number = n) = b
      BY <2>1, <3>1 DEF InputsOK, UniqueNumbers
    <3>3. lessons[n] = Normal(b)
      BY <2>2, <3>2 DEF Init
    <3>4. ValidEntry(b)
      BY <2>1, <3>1 DEF InputsOK
    <3>5. lessons[n].start = b.start /\ lessons[n].end = b.end
      BY <3>3 DEF Normal
    <3> QED BY <3>4, <3>5 DEF ValidEntry, Timely, Ordered
  <2> QED BY <2>2 DEF LessonsTimely
<1>2. InputsOK /\ LessonsTimely /\ [Next]_vars => (InputsOK /\ LessonsTimely)'
  <2> SUFFICES ASSUME InputsOK, LessonsTimely, [Next]_vars
               PROVE  (InputsOK /\ LessonsTimely)'
    OBVIOUS
  <2>1. CASE UNCHANGED vars
    BY <2>1 DEF InputsOK, LessonsTimely, vars
  <2>2. ASSUME NEW o \in todo, Cancel(o) PROVE (InputsOK /\ LessonsTimely)'
    BY <2>2 DEF Cancel, Cancelled, InputsOK, LessonsTimely, Timely, Ordered
  <2>3. ASSUME NEW o \in todo, Replace(o) PROVE (InputsOK /\ LessonsTimely)'
    <3>1. Timely(Changed(o))
      BY <2>3, ChangedIsTimely
    <3>2. LessonsTimely'
      BY <2>3, <3>1 DEF Replace, LessonsTimely
    <3> QED BY <2>3, <3>2 DEF Replace, InputsOK
  <2> QED BY <2>1, <2>2, <2>3 DEF Next
<1> QED BY <1>1, <1>2, PTL DEF Spec
=============================================================================
