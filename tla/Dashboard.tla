----------------------------- MODULE Dashboard ------------------------------
(* The tables over the work of one site (src/dashboard, src/performance):    *)
(* working time per worker, load per hour, the work of each day, once per    *)
(* client and once as the trend, and the rankings.  They read the rows that  *)
(* the exposure report of Exposure reads; a month stands for the period      *)
(* from..to, and every item has the same volume, one.                        *)
EXTENDS Exposure

Started == {i \in DOMAIN tasks : tasks[i].start \in MonthStart..(MonthEnd - 1)}

\* What is not ended lasts until now, but a day at most (OPEN_ITEM_CAP_MS).
endOf(task) == IF task.end = None THEN Earliest(Now, task.start + DayLength) ELSE task.end

segmentsOf(task) == activeWorkSegments([task EXCEPT !.end = endOf(task)])

-----------------------------------------------------------------------------
(* getWorkerTimeSummary *)

Mine(w) == {i \in Started : w \in participants(tasks[i])}

TimedWorkers == {w \in People : Mine(w) # {}}

\* Per day: the first start and the last end of what began on it.
daySpan(w, day) ==
    LET here == {i \in Mine(w) : kstDayStart(tasks[i].start) = day}
    IN  <<Min({tasks[i].start : i \in here}),
          Max({Latest(tasks[i].start, endOf(tasks[i])) : i \in here})>>

workDays(w) == {kstDayStart(tasks[i].start) : i \in Mine(w)}

\* Overlapping items count once; the breaks are those of the worker's own site.
netMinutes(w) ==
    netMinutesOfSegments(UNION {segmentsOf(tasks[i]) : i \in Mine(w)}, restsFor(w))

-----------------------------------------------------------------------------
(* getLoadProfile: who is at work in an hour; the averages per day of the    *)
(* week are left out.                                                        *)

slots == {t \in MonthStart..(MonthEnd - 1) : (t - MonthStart) % HourLength = 0}

\* Mutant: an item also counts in the hour that begins as it ends.
MeetsClosed(task, slot) == task.start < slot + HourLength /\ endOf(task) >= slot

Meets(task, slot) == task.start < slot + HourLength /\ endOf(task) > slot

\* Items of the period's edge included; masters too.
load(slot) ==
    UNION {{tasks[i].by} \cup tasks[i].with :
             i \in {j \in DOMAIN tasks : /\ tasks[j].start < MonthEnd
                                         /\ endOf(tasks[j]) >= MonthStart
                                         /\ Meets(tasks[j], slot)}}

-----------------------------------------------------------------------------
(* getTrendsByClassification and getTrends, by day *)

pivotOf(day) == {i \in Started : kstDayStart(tasks[i].start) = day}

\* The trend converts the naive column once, which takes the offset off again
\* instead of adding it: the key is that of a moment two offsets earlier.
trendDay(t) == kstDayStart(t - 2 * KstOffset)

trendOf(day) == {i \in Started : trendDay(tasks[i].start) = day}

-----------------------------------------------------------------------------
(* getWorkerStats: what workers started; getRankings: what they took part in *)

Ended == {i \in Started : tasks[i].end # None}

\* calcNetWorkMinutes, with the breaks of the starter's site for whoever took part.
itemMinutes(i) == netMinutesOfSegments(segmentsOf(tasks[i]), restsFor(tasks[i].by))

Average(items) ==
    LET n == Cardinality(items)
    IN  (2 * MapThenSumSet(itemMinutes, items) + n) \div (2 * n)

startedBy(w) == {i \in Ended : tasks[i].by = w}

workerStats ==
    [w \in {v \in People : startedBy(v) # {}} |->
        [count |-> Cardinality(startedBy(w)), avgDuration |-> Average(startedBy(w))]]

\* Assignments of another role than STARTER.
coWork(w) == {i \in Ended : w \in tasks[i].with \ {tasks[i].by}}

rankings ==
    [w \in {v \in People : startedBy(v) \cup coWork(v) # {}} |->
        [completedCount |-> Cardinality(startedBy(w) \cup coWork(w)),
         totalVolume |-> Cardinality(startedBy(w)) + Cardinality(coWork(w)),
         coWorkCount |-> Cardinality(coWork(w)),
         avgDuration |-> Average(startedBy(w) \cup coWork(w))]]

\* getSummary of the rankings: the work of starters only.
summary == [totalCount |-> Cardinality(Ended),
            totalWorkers |-> Cardinality({tasks[i].by : i \in Ended})]

-----------------------------------------------------------------------------
(* Property *)

\* The tables agree with one another and with the exposure report.  A worker is
\* counted in an hour if he spends any of it on an item, and if he is counted he
\* has an item that lasts into it or stands still in it.  His minutes are those
\* of his items, each half minute once, outside the breaks of his own site.  They
\* are never more than his exposure in a period that holds all his items whole,
\* and the same if no two of them overlap, where every item was started under the
\* breaks he has himself: the exposure takes the starter's.  His days are those
\* of the pivot with an item of his, and none ends before it begins.  The pivot and the trend spread the
\* same items over days, each once; the trend's day is never later.  The counts
\* of all starters add up to the summary, a ranking counts no item of a worker
\* twice, nor its volume, and is the same as his statistics for who took part
\* only in what he started; and nobody's average item is longer than his time,
\* where again the breaks are the same ones.
DashboardAgrees ==
    LET out == workersOut
        Whole(w) == \A i \in DOMAIN tasks : w \in participants(tasks[i]) =>
                      tasks[i].end # None /\ i \in Started /\ tasks[i].end <= MonthEnd
        Apart(w) == \A i, j \in Mine(w) :
                      i # j => tasks[i].end <= tasks[j].start \/ tasks[j].end <= tasks[i].start
        Alike(w) == \A i \in DOMAIN tasks : w \in participants(tasks[i]) =>
                      restsFor(tasks[i].by) = restsFor(w)
        AtWork(w, i) == {t \in tasks[i].start..(endOf(tasks[i]) - 1) :
                           /\ \A p \in tasks[i].pauses : ~(t >= p.from /\ (p.to = None \/ t < p.to))
                           /\ \A r \in restsFor(w) :
                                ~((t + KstOffset) % DayLength \in r.from..(r.to - 1))}
        Busy(w, slot) == \E i \in DOMAIN tasks, t \in slot..(slot + HourLength - 1) :
                           Spends(w, tasks[i], t) /\ t < endOf(tasks[i])
        Touches(w, slot) == \E i \in DOMAIN tasks :
                              /\ w \in {tasks[i].by} \cup tasks[i].with
                              /\ tasks[i].start \in slot..(slot + HourLength - 1)
                                 \/ \E t \in slot..(slot + HourLength - 1) :
                                      t \in tasks[i].start..(endOf(tasks[i]) - 1)
        Days == {kstDayStart(t) : t \in 0..MonthEnd} \cup {trendDay(t) : t \in 0..MonthEnd}
    IN  /\ \A w \in People, s \in slots :
            /\ Busy(w, s) => w \in load(s)
            /\ w \in load(s) => Touches(w, s)
        /\ \A w \in TimedWorkers :
            /\ netMinutes(w) = toMin(Cardinality(UNION {AtWork(w, i) : i \in Mine(w)}))
            /\ Whole(w) /\ Alike(w) =>
                LET total == IF w \in DOMAIN out THEN out[w].total ELSE 0 IN
                /\ netMinutes(w) <= total
                /\ Apart(w) => netMinutes(w) = total
            /\ workDays(w) = {d \in Days : pivotOf(d) \cap Mine(w) # {}}
            /\ \A d \in workDays(w) : daySpan(w, d)[1] <= daySpan(w, d)[2]
        /\ \A i \in Started :
            /\ Cardinality({d \in Days : i \in pivotOf(d)}) = 1
            /\ Cardinality({d \in Days : i \in trendOf(d)}) = 1
            /\ trendDay(tasks[i].start) <= kstDayStart(tasks[i].start)
        /\ summary.totalWorkers = Cardinality(DOMAIN workerStats)
        /\ summary.totalCount = MapThenSumSet(LAMBDA w : workerStats[w].count, DOMAIN workerStats)
        /\ \A w \in DOMAIN rankings :
            LET rank == rankings[w]
                part == {i \in Ended : w \in {tasks[i].by} \cup tasks[i].with} IN
            /\ rank.completedCount = Cardinality(part)
            /\ rank.totalVolume = Cardinality(part)
            /\ rank.coWorkCount = 0 =>
                /\ workerStats[w].count = rank.completedCount
                /\ workerStats[w].avgDuration = rank.avgDuration
            /\ role[w] # "MASTER" /\ Alike(w) => rank.avgDuration <= netMinutes(w)
=============================================================================
