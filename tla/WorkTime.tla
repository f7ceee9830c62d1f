------------------------------ MODULE WorkTime ------------------------------
(* Intervals, pauses and breaks (src/common/utils/net-work-minutes.ts): pure  *)
(* operators.  Time is counted in half minutes, the unit that shows where the *)
(* rounding happens; a day has DayLength of them and begins KstOffset before  *)
(* the clock's own day.                                                       *)
EXTENDS Rows, Integers, SequencesExt

CONSTANTS
    DayLength, \* DAY_MS
    KstOffset  \* KST_OFFSET_MS

ASSUME WorkTimeAssumption ==
    /\ {DayLength, KstOffset} \subseteq Nat
    /\ DayLength > 0

Latest(a, b) == IF a > b THEN a ELSE b

Earliest(a, b) == IF a < b THEN a ELSE b

\* Mutant: the later interval closes the union, even when it ends earlier.
JoinLast(merged, i) ==
    IF merged # <<>> /\ i[1] <= Last(merged)[2]
    THEN [merged EXCEPT ![Len(merged)] = <<@[1], i[2]>>]
    ELSE Append(merged, i)

Join(merged, i) ==
    IF merged # <<>> /\ i[1] <= Last(merged)[2]
    THEN [merged EXCEPT ![Len(merged)] = <<@[1], Latest(@[2], i[2])>>]
    ELSE Append(merged, i)

\* The last one in the order of the sort.
LastOf(list) ==
    CHOOSE i \in list : \A j \in list : j[1] < i[1] \/ (j[1] = i[1] /\ j[2] <= i[2])

\* Sorted by their starts, one after the other is joined to what came before.
mergeIntervals(list) ==
    MapThenFoldSet(LAMBDA i, merged : Join(merged, i), <<>>, LAMBDA i : i, LastOf,
                   {i \in list : i[2] > i[1]})

kstDayStart(t) == ((t + KstOffset) \div DayLength) * DayLength - KstOffset

\* The part of from..to that daily breaks cover, day by day.
breakOverlap(from, to, configs) ==
    LET periods == mergeIntervals(
                     {<<b.from, b.to>> : b \in {c \in configs : c.from >= 0 /\ c.to <= DayLength}})
        Covered(day, p) == Latest(0, Earliest(day + p[2], to) - Latest(day + p[1], from))
        OfDay(day) == FoldLeft(LAMBDA sum, p : sum + Covered(day, p), 0, periods)
        Days == {d \in kstDayStart(from)..to :
                   d < to /\ (d - kstDayStart(from)) % DayLength = 0}
    IN  FoldSet(LAMBDA d, sum : sum + OfDay(d), 0, Days)

\* An open pause lasts until the end of the work.
parsePauseIntervals(pauses, end) ==
    LET until(p) == IF p.to = None THEN end ELSE p.to
    IN  {<<p.from, until(p)>> : p \in {q \in pauses : until(q) > q.from}}

activeWorkSegments(w) ==
    LET clipped == {<<Latest(p[1], w.start), Earliest(p[2], w.end)>> :
                      p \in parsePauseIntervals(w.pauses, w.end)}
        Step(acc, p) ==
            [cursor |-> Latest(acc.cursor, p[2]),
             segments |-> IF p[1] > acc.cursor
                          THEN acc.segments \cup {<<acc.cursor, p[1]>>} ELSE acc.segments]
        cut == FoldLeft(Step, [cursor |-> w.start, segments |-> {}], mergeIntervals(clipped))
    IN  IF w.end <= w.start THEN {}
        ELSE cut.segments \cup IF w.end > cut.cursor THEN {<<cut.cursor, w.end>>} ELSE {}

netMinutesOfSegments(segments, configs) ==
    LET Net(sum, s) == sum + ((s[2] - s[1]) - breakOverlap(s[1], s[2], configs))
    IN  (FoldLeft(Net, 0, mergeIntervals(segments)) + 1) \div 2
=============================================================================
