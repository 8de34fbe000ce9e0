-------------------------- MODULE ScheduleRowsProofs --------------------------
(* Lemmas about the lessons of a day (DayOf of ScheduleRows).               *)
EXTENDS ScheduleRows, TLAPS

UniqueNumbers(rows) == \A a, b \in rows : a.number = b.number => a = b

\* The values that one entry, one override, or both, give a column.
LEMMA GivenOne ==
    ASSUME NEW v, NEW w
    PROVE  /\ Given({}, {v}) = v
           /\ Given({w}, {}) = w
           /\ Given({w}, {v}) = IF w # None THEN w ELSE v
BY DEF Given

\* The columns of one row.
LEMMA ColumnsOfOne ==
    ASSUME NEW x
    PROVE  /\ {r.subject : r \in {x}} = {x.subject}
           /\ {r.start : r \in {x}} = {x.start}
           /\ {r.end : r \in {x}} = {x.end}
           /\ {r.room : r \in {x}} = {x.room}
           /\ {r.start : r \in {}} = {}
           /\ {r.end : r \in {}} = {}
           /\ {r.room : r \in {}} = {}
OBVIOUS

\* The choice from one value.
LEMMA ChooseOne == ASSUME NEW v PROVE (CHOOSE x \in {v} : TRUE) = v
OBVIOUS

\* The rows of one number: none or one.
LEMMA AtUnique ==
    ASSUME NEW rows, UniqueNumbers(rows), NEW r \in rows
    PROVE  At(rows, r.number) = {r}
BY DEF At, UniqueNumbers

\* The values a column of a lesson comes from, when numbers are unique.
LEMMA SourcesOfLesson ==
    ASSUME NEW es, NEW os, UniqueNumbers(es), UniqueNumbers(os), NEW n \in Shown(es, os)
    PROVE  LET lesson == DayOf(es, os)[n] IN
           \/ \E b \in es : lesson.start = b.start /\ lesson.end = b.end
           \/ \E o \in os : lesson.start = o.start /\ lesson.end = o.end
           \/ \E b \in es, o \in os :
                /\ lesson.start = IF o.start # None THEN o.start ELSE b.start
                /\ lesson.end = IF o.end # None THEN o.end ELSE b.end
<1> DEFINE base == At(es, n)
           over == Changing(os, n)
<1>1. /\ DayOf(es, os)[n].start = Given({o.start : o \in over}, {e.start : e \in base})
      /\ DayOf(es, os)[n].end = Given({o.end : o \in over}, {e.end : e \in base})
  BY DEF DayOf, LessonOf
<1>2. base = {} \/ \E b \in es : base = {b}
  BY DEF At, UniqueNumbers
<1>3. over = {} \/ \E o \in os : over = {o}
  BY DEF At, Changing, UniqueNumbers
<1>4. base # {} \/ over # {}
  BY DEF At, Changing, Shown
<1> HIDE DEF base, over
<1>5. CASE over = {}
  <2>1. PICK b \in es : base = {b}
    BY <1>2, <1>4, <1>5
  <2>2. DayOf(es, os)[n].start = Given({}, {b.start}) /\ DayOf(es, os)[n].end = Given({}, {b.end})
    BY <1>1, <1>5, <2>1, ColumnsOfOne
  <2> QED BY <2>2, GivenOne
<1>6. CASE over # {} /\ base = {}
  <2>1. PICK o \in os : over = {o}
    BY <1>3, <1>6
  <2>2. DayOf(es, os)[n].start = Given({o.start}, {}) /\ DayOf(es, os)[n].end = Given({o.end}, {})
    BY <1>1, <1>6, <2>1, ColumnsOfOne
  <2> QED BY <2>2, GivenOne
<1>7. CASE over # {} /\ base # {}
  <2>1. PICK b \in es, o \in os : base = {b} /\ over = {o}
    BY <1>2, <1>3, <1>7
  <2>2. /\ DayOf(es, os)[n].start = Given({o.start}, {b.start})
        /\ DayOf(es, os)[n].end = Given({o.end}, {b.end})
    BY <1>1, <2>1, ColumnsOfOne
  <2>3. /\ DayOf(es, os)[n].start = IF o.start # None THEN o.start ELSE b.start
        /\ DayOf(es, os)[n].end = IF o.end # None THEN o.end ELSE b.end
    BY <2>2, GivenOne
  <2> QED BY <2>3
<1> QED BY <1>5, <1>6, <1>7

\* The lessons of a day made of valid rows have both times or none, in order:
\* an override never combines one of its times with one of the entry.
THEOREM ValidDayIsTimely ==
    ASSUME NEW es, NEW os, UniqueNumbers(es), UniqueNumbers(os),
           \A e \in es : ValidEntry(e), \A o \in os : ValidOverride(o)
    PROVE  \A n \in Shown(es, os) : Timely(DayOf(es, os)[n])
<1> SUFFICES ASSUME NEW n \in Shown(es, os) PROVE Timely(DayOf(es, os)[n])
  OBVIOUS
<1> DEFINE lesson == DayOf(es, os)[n]
<1>1. \/ \E b \in es : lesson.start = b.start /\ lesson.end = b.end
      \/ \E o \in os : lesson.start = o.start /\ lesson.end = o.end
      \/ \E b \in es, o \in os :
           /\ lesson.start = IF o.start # None THEN o.start ELSE b.start
           /\ lesson.end = IF o.end # None THEN o.end ELSE b.end
  BY SourcesOfLesson
<1> HIDE DEF lesson
<1> QED BY <1>1 DEF Timely, Ordered, ValidEntry, ValidOverride, lesson
=============================================================================
