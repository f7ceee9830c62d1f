------------------------------ MODULE Exposure ------------------------------
(* The monthly heat exposure report (findMonthlyExposure of                  *)
(* src/heat-alerts): the work intervals of every item, clipped to the month, *)
(* cut at the hours and freed of breaks, are laid on the hourly levels and   *)
(* credited to each participant.  Time is counted in half minutes, as in     *)
(* WorkTime.                                                                 *)
EXTENDS WorkTime

CONSTANTS
    People,     \* workers
    HourLength, \* HOUR_MS
    MonthStart, \* startMs
    MonthEnd,   \* endMs
    Danger,     \* rank of the highest level
    Moments,    \* bound: when items and pauses begin and end
    MaxInputs   \* bound: the rows, weighed

ASSUME ExposureAssumption ==
    /\ {HourLength, MonthStart, MonthEnd, Danger, MaxInputs} \subseteq Nat
    /\ HourLength > 0 /\ MonthStart < MonthEnd
    /\ Moments \subseteq 0..MonthEnd

VARIABLES
    role,    \* per worker; None: the worker was deleted
    placed,  \* per worker: of the site whose breaks are on file; FALSE: of none
             \* at all, or of one without breaks of its own
    tasks,   \* rows of work_items that are not VOID
    rests,   \* active rows of break_configs: the site's own, and the global ones
    records, \* rows of heat_hourly_records: any two may be of one hour
    alerts   \* rows of heat_check_alerts, per worker

exposureVars == <<role, placed, tasks, rests, records, alerts>>

Unknown == -1

Ranks == 0..Danger

Levels == Ranks \cup {Unknown}

Now == MonthEnd + 1

HourOf(t) == (t \div HourLength) * HourLength

\* Mutant: the level of an hour is that of its lowest record.
hourLevelLow(h) ==
    LET here == {r.level : r \in {x \in records : x.at = h}}
    IN  IF here = {} THEN Unknown ELSE Min(here)

hourLevel(h) ==
    LET here == {r.level : r \in {x \in records : x.at = h}}
    IN  IF here = {} THEN Unknown ELSE Max(here)

\* forSite(worker.siteId): the breaks of a worker's site, the global ones if it
\* has none.
restsFor(w) ==
    LET own == {r \in rests : ~r.global}
    IN  IF placed[w] /\ own # {} THEN own ELSE rests \ own

Until(end) == IF end = None THEN Now ELSE end

activeSegmentsOf(task) == activeWorkSegments([task EXCEPT !.end = Until(@)])

\* What an item gives: its intervals inside the month, cut at the hours.
Pieces(task) ==
    UNION {LET s == Latest(seg[1], MonthStart)
               e == Earliest(seg[2], MonthEnd)
           IN  {<<h, Latest(h, s), Earliest(h + HourLength, e)>> :
                  h \in {HourOf(t) : t \in s..(e - 1)}}
           : seg \in activeSegmentsOf(task)}

\* The breaks are those of the starter's site, whoever takes part.
Exposed(task, level) ==
    MapThenSumSet(LAMBDA p : (p[3] - p[2]) - breakOverlap(p[2], p[3], restsFor(task.by)),
                  {p \in Pieces(task) : hourLevel(p[1]) = level})

\* The starter and the assigned workers, each once, without masters.
participants(task) == {w \in {task.by} \cup task.with : role[w] # "MASTER"}

ExposedWorkers ==
    {w \in People : \E i \in DOMAIN tasks :
        w \in participants(tasks[i]) /\ \E l \in Levels : Exposed(tasks[i], l) > 0}

\* An alert gives its worker a row, also a deleted one.
AlertedWorkers == {w \in People : alerts[w] > 0 /\ role[w] # "MASTER"}

toMin(halves) == (halves + 1) \div 2

workersOut ==
    LET each == [i \in DOMAIN tasks |-> [l \in Levels |-> Exposed(tasks[i], l)]]
        spent(w, l) == MapThenSumSet(LAMBDA i : each[i][l],
                                     {i \in DOMAIN tasks : w \in participants(tasks[i])})
    IN  [w \in ExposedWorkers \cup AlertedWorkers |->
            [minutes |-> [l \in Levels |-> toMin(spent(w, l))],
             total |-> toMin(MapThenSumSet(LAMBDA l : spent(w, l), Levels)),
             alerts |-> alerts[w]]]

\* The daily view of the same records: a day's highest level.
dayLevel(day) == Max({r.level : r \in {x \in records : kstDayStart(x.at) = day}})

-----------------------------------------------------------------------------
(* The rows the report reads, one after the other. *)

Stops == {p \in [from : Moments, to : Moments \cup {None}] : p.from < Until(p.to)}

restWeight(r) == IF r.global THEN 2 ELSE 1

\* An item and a global break weigh as much as two of the other rows; a worker
\* without a site as one.
Inputs(weight) ==
    MapThenSumSet(restWeight, rests) + Cardinality(records) + Cardinality({w \in People : ~placed[w]})
    + MapThenSumSet(LAMBDA i : 2 + Cardinality(tasks[i].pauses) + Cardinality(tasks[i].with),
                    DOMAIN tasks)
    + MapThenSumSet(LAMBDA w : alerts[w], People) + weight <= MaxInputs

AddTask(by, start, end) ==
    /\ Inputs(2)
    /\ role[by] # None
    /\ start < MonthEnd
    /\ Until(end) >= Latest(MonthStart, start)
    /\ tasks' = Append(tasks, [by |-> by, with |-> {}, start |-> start, end |-> end,
                               pauses |-> {}])
    /\ UNCHANGED <<role, placed, rests, records, alerts>>

AddMate(i, w) ==
    /\ Inputs(1)
    /\ role[w] # None
    /\ tasks' = [tasks EXCEPT ![i].with = @ \cup {w}]
    /\ UNCHANGED <<role, placed, rests, records, alerts>>

AddStop(i, p) ==
    /\ Inputs(1)
    /\ tasks' = [tasks EXCEPT ![i].pauses = @ \cup {p}]
    /\ UNCHANGED <<role, placed, rests, records, alerts>>

AddRest(r) ==
    /\ Inputs(restWeight(r))
    /\ rests' = rests \cup {r}
    /\ UNCHANGED <<role, placed, tasks, records, alerts>>

AddRecord(at, level) ==
    /\ Inputs(1)
    /\ records' = records \cup {[at |-> at, level |-> level]}
    /\ UNCHANGED <<role, placed, tasks, rests, alerts>>

AddAlert(w) ==
    /\ Inputs(1)
    /\ alerts' = [alerts EXCEPT ![w] = @ + 1]
    /\ UNCHANGED <<role, placed, tasks, rests, records>>

FirstRoles ==
    {r \in [People -> {"WORKER", "MASTER", None}] : \E w \in People : r[w] = "WORKER"}

ExposureFrom(roles, places) ==
    /\ role = roles /\ placed = places
    /\ tasks = <<>> /\ rests = {} /\ records = {}
    /\ alerts = [w \in People |-> 0]

ExposureInit ==
    \E roles \in FirstRoles, places \in [People -> BOOLEAN] : ExposureFrom(roles, places)

ExposureNext ==
    \/ \E w \in People, start \in Moments, end \in Moments \cup {None} :
        AddTask(w, start, end)
    \/ \E i \in DOMAIN tasks :
        \/ \E w \in People : AddMate(i, w)
        \/ \E p \in Stops : AddStop(i, p)
    \/ \E r \in [from : 0..DayLength, to : 0..DayLength, global : BOOLEAN] :
        r.from < r.to /\ AddRest(r)
    \/ \E h \in {HourOf(t) : t \in MonthStart..(MonthEnd - 1)}, level \in Ranks :
        AddRecord(h, level)
    \/ \E w \in People : AddAlert(w)

ExposureSpec == ExposureInit /\ [][ExposureNext]_exposureVars

-----------------------------------------------------------------------------
(* Property *)

\* Worker w spends the half minute that begins at t on the item.
Spends(w, task, t) ==
    /\ w \in {task.by} \cup task.with
    /\ t >= task.start /\ t < Until(task.end)
    /\ \A p \in task.pauses : ~(t >= p.from /\ (p.to = None \/ t < p.to))
    /\ \A r \in restsFor(task.by) : ~((t + KstOffset) % DayLength \in r.from..(r.to - 1))

LevelAt(t, level) ==
    LET here == {r \in records : t >= r.at /\ t < r.at + HourLength}
    IN  IF level = Unknown THEN here = {}
        ELSE (\E r \in here : r.level = level) /\ \A r \in here : r.level <= level

\* The report has a row for exactly the workers, masters aside, who worked in
\* the month or raised an alert, and credits each, per level, with every half
\* minute of every item they took part in, outside the breaks where the item was
\* started, at the highest level recorded for its hour and as unknown where none
\* was: no boundary of month, hour, day, pause or break makes it lose one or
\* count one twice.  The daily view never
\* shows a lower level than an hour of the day has.
ExposureAgrees ==
    LET Month == MonthStart..(MonthEnd - 1)
        Halves(w, level) == {x \in (DOMAIN tasks) \X Month :
                               Spends(w, tasks[x[1]], x[2]) /\ LevelAt(x[2], level)}
        Toiled(w) == \E l \in Levels : Halves(w, l) # {}
        out == workersOut
    IN  /\ DOMAIN out = {w \in People : role[w] # "MASTER" /\ (Toiled(w) \/ alerts[w] > 0)}
        /\ \A w \in DOMAIN out :
            /\ out[w].alerts = alerts[w]
            /\ \A l \in Levels : out[w].minutes[l] = toMin(Cardinality(Halves(w, l)))
        /\ \A r \in records : dayLevel(kstDayStart(r.at)) >= hourLevel(r.at)
=============================================================================
