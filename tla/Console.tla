------------------------------ MODULE Console -------------------------------
(* The operator's views of the centres (src/customer-ops): the morning       *)
(* digest, the live board, the readiness check, the overview with its        *)
(* comparison of a period, and the list of actions drawn from it; and the    *)
(* centre's own dashboard (src/dashboard).  Each is computed from the same   *)
(* rows by code of its own; the reads of a view are taken as one.            *)
EXTENDS Rows, Integers, SequencesExt

CONSTANTS
    SiteCount,  \* sites, in the order of their creation
    Staff,      \* workers
    Today,      \* kstStartOfDay of the day of the views
    AnHour,     \* HOUR_MS
    WorkStart,  \* workStartHour, as a time since the start of the day
    GraceTime,  \* DIGEST_GRACE_HOURS
    LongTime,   \* LONG_RUNNING_THRESHOLD_HOURS
    DigestTime, \* DIGEST_STUCK_HOURS
    AlertTime,  \* the age of an alert of the dashboard: 24 hours
    IdleTime,   \* seven days
    SpanTime,   \* thirty days
    MaxActions, \* actions shown
    ViewTimes,  \* bound: when the views are asked for
    Beginnings, \* bound: when items begin
    Reports,    \* bound: when tablets report
    MaxEntries  \* bound: rows entered

ASSUME ConsoleAssumption ==
    /\ {SiteCount, Today, AnHour, WorkStart, GraceTime, LongTime, DigestTime, AlertTime,
        IdleTime, SpanTime, MaxActions, MaxEntries} \subseteq Nat
    /\ IsFiniteSet(Staff)
    /\ AnHour > 0 /\ LongTime <= DigestTime /\ DigestTime <= AlertTime
    /\ ((Today + WorkStart) % AnHour) = 0 \* workStartHour is an integer
    /\ Beginnings \cup Reports \cup ViewTimes \subseteq Nat
    /\ \A t \in ViewTimes : t >= Today

VARIABLES
    viewed,  \* the time of the views
    site,    \* rows of sites: [top, active, placed], with the status of the subscription
    sorted,  \* sites with a classification; None: one that is common to all
    person,  \* rows of workers: [place, role, active]
    chore,   \* rows of work_items: [by, begun, status]
    report,  \* rows of heat_hourly_records, with the time they were heard at: [place, at, heard]
    ticket,  \* open support cases: [place, urgent]
    entries  \* rows entered so far

consoleVars == <<viewed, site, sorted, person, chore, report, ticket, entries>>

SitesHere == 1..SiteCount

Spots == SitesHere \cup {None}

listed == {n \in SitesHere : site[n].top}

board == {n \in listed : site[n].active}

Inactive == {"EXPIRED", "SUSPENDED", "CANCELLED"}

\* subscriptionStatus of the digest, in capitals; the overview takes the row's.
Upper(status) == IF status = "expired" THEN "EXPIRED" ELSE status

digestStatus(n) == Upper(site[n].status)

ChoresOf(spots) == {i \in DOMAIN chore : person[chore[i].by].place \in spots}

Running(chores, since) ==
    {i \in chores : chore[i].status = "ACTIVE" /\ chore[i].begun <= viewed - since}

-----------------------------------------------------------------------------
(* buildOpsDigest, collectDigestIssues *)

\* Rows without a site belong to the first centre only.
digestScope(n) == IF n = Min(board) THEN {n, None} ELSE {n}

\* Mutant: a report is expected for the hour that has just begun.
tabletCutoffNow == Max({Min({Today + WorkStart + GraceTime, viewed}), Today + WorkStart})

\* The end of the grace or an hour ago, but not before the start of work.
tabletCutoff ==
    Max({Min({Today + WorkStart + GraceTime, viewed - AnHour}), Today + WorkStart})

\* No report of today is as late as the cutoff.
Unheard(n) ==
    /\ viewed >= Today + WorkStart
    /\ \A r \in report : r.place \in digestScope(n) /\ r.at >= Today => r.at < tabletCutoff

\* VOID items count as work of today here.
Workless(n) ==
    /\ viewed >= Today + WorkStart + GraceTime
    /\ \A i \in ChoresOf(digestScope(n)) : chore[i].begun < Today

collectDigestIssues(n) ==
    LET inactive == digestStatus(n) \in Inactive
        found == {<<"subscription", inactive>>, <<"coords", ~site[n].placed>>,
                  <<"tablet", ~inactive /\ Unheard(n)>>,
                  <<"no_work", ~inactive /\ Workless(n)>>,
                  <<"stuck", ~inactive /\ Running(ChoresOf(digestScope(n)), DigestTime) # {}>>}
    IN  {f[1] : f \in {x \in found : x[2]}}

-----------------------------------------------------------------------------
(* getLiveBoard: only what has a site *)

liveBoard(n) ==
    LET reports == {r.at : r \in {x \in report : x.place = n}} IN
    [todayCount |-> Cardinality({i \in ChoresOf({n}) :
                       chore[i].begun >= Today /\ chore[i].status # "VOID"}),
     activeCount |-> Cardinality(Running(ChoresOf({n}), 0)),
     lastHeatReportAt |-> IF reports = {} THEN None ELSE Max(reports),
     coordsSet |-> site[n].placed]

-----------------------------------------------------------------------------
(* computeReadiness: the required items that are met *)

requiredOk(n) ==
    LET found == {<<"coords", site[n].placed>>,
                  <<"admin", \E w \in Staff : /\ person[w].place = n /\ person[w].active
                                              /\ person[w].role = "ADMIN">>,
                  <<"classification", sorted \cap {n, None} # {}>>,
                  <<"tablet", \E r \in report : r.place = n>>}
    IN  {f[1] : f \in {x \in found : x[2]}}

-----------------------------------------------------------------------------
(* computePeriodAggregates *)

Counted == {w \in Staff : person[w].place \in listed \cup {None} /\ person[w].role # "MASTER"}

workerKey(key) == {w \in Counted : person[w].place = key}

\* The rows: the listed sites, and one for the workers without a site.
periodRows == listed \cup IF workerKey(None) = {} THEN {} ELSE {None}

aggregate(key, from, to) ==
    LET inRange == {i \in DOMAIN chore : /\ chore[i].by \in workerKey(key)
                                         /\ chore[i].begun >= from /\ chore[i].begun <= to}
    IN  [count |-> Cardinality({i \in inRange : chore[i].status # "VOID"}),
         endedCount |-> Cardinality({i \in inRange : chore[i].status = "ENDED"}),
         stuckCount |-> Cardinality(Running(inRange, LongTime)),
         activeWorkerCount |-> Cardinality({w \in workerKey(key) :
                                  person[w].active /\ person[w].role # "ADMIN"})]

-----------------------------------------------------------------------------
(* buildSiteOverview: items without a site are in every row *)

overviewChores(n) == ChoresOf({n, None})

\* The last thirty days, those before, and of the last seven what is not VOID.
metrics(n) ==
    LET In(from, to) == {i \in overviewChores(n) : chore[i].begun >= from /\ chore[i].begun < to}
        recent == {i \in In(viewed - IdleTime, viewed + 1) : chore[i].status # "VOID"}
    IN  [last30d |-> Cardinality(In(viewed - SpanTime, viewed + 1)),
         previous30d |-> Cardinality(In(viewed - 2 * SpanTime, viewed - SpanTime)),
         recent7d |-> Cardinality(recent),
         recent7dEnded |-> Cardinality({i \in recent : chore[i].status = "ENDED"})]

longRunning(n) == Running(overviewChores(n), LongTime) # {}

atRisk(n) == site[n].status \in Inactive \cup {"PAST_DUE"}

openCases(n) == {t \in DOMAIN ticket : ticket[t].place = n}

p1Open(n) == \E t \in openCases(n) : ticket[t].urgent

\* Days since the last item, whatever became of it.
lowActivity(n) ==
    /\ overviewChores(n) # {}
    /\ \A i \in overviewChores(n) : chore[i].begun <= viewed - IdleTime

onboarded(n) == Cardinality(requiredOk(n)) = 4

health(n) ==
    IF atRisk(n) \/ p1Open(n) \/ longRunning(n) THEN "AT_RISK"
    ELSE IF openCases(n) # {} \/ lowActivity(n) \/ ~onboarded(n) THEN "NEEDS_ATTENTION"
    ELSE "HEALTHY"

-----------------------------------------------------------------------------
(* getOperationsConsole *)

siteActions(n) ==
    LET Told(type, holds, severity) ==
            IF holds THEN <<[site |-> n, type |-> type, severity |-> severity]>> ELSE <<>>
    IN  Told("long_running", longRunning(n), "critical")
        \o Told("subscription", atRisk(n), "critical")
        \o Told("onboarding", ~onboarded(n), "warning")
        \o Told("support", openCases(n) # {}, IF p1Open(n) THEN "critical" ELSE "warning")
        \o Told("adoption", lowActivity(n), "warning")

\* Newest site first.
allActions ==
    FoldLeft(LAMBDA list, n : IF n \in listed THEN siteActions(n) \o list ELSE list,
             <<>>, [n \in SitesHere |-> n])

Rank(list, severity) ==
    FoldLeft(LAMBDA kept, a : IF a.severity = severity THEN Append(kept, a) ELSE kept,
             <<>>, list)

\* Mutant: the list is cut as it was collected.
BySeverityKept(list) == list

BySeverity(list) == Rank(list, "critical") \o Rank(list, "warning")

actions ==
    LET sortedList == BySeverity(allActions)
    IN  SubSeq(sortedList, 1, Min({MaxActions, Len(sortedList)}))

-----------------------------------------------------------------------------
(* The dashboard of a centre: getStats and the STUCK_WORK alert of getAlerts *)

shown(n, from, to) ==
    {i \in ChoresOf({n, None}) : chore[i].begun >= from /\ chore[i].begun <= to}

shownOf(status, n, from, to) ==
    Cardinality({i \in shown(n, from, to) : chore[i].status = status})

\* Mutant: the total leaves out what is paused.
totalUnpaused(n, from, to) ==
    shownOf("ACTIVE", n, from, to) + shownOf("ENDED", n, from, to) + shownOf("VOID", n, from, to)

total(n, from, to) ==
    shownOf("ACTIVE", n, from, to) + shownOf("PAUSED", n, from, to)
    + shownOf("ENDED", n, from, to) + shownOf("VOID", n, from, to)

counts(n, from, to) ==
    [active |-> shownOf("ACTIVE", n, from, to), paused |-> shownOf("PAUSED", n, from, to),
     ended |-> shownOf("ENDED", n, from, to), void |-> shownOf("VOID", n, from, to),
     total |-> total(n, from, to)]

stuckAlert(n, from, to) == Running(shown(n, from, to), AlertTime) # {}

-----------------------------------------------------------------------------
(* What the rest of the system writes before a view is asked for *)

Enter ==
    /\ entries < MaxEntries
    /\ entries' = entries + 1
    /\ UNCHANGED viewed

\* The program writes a status in capitals; the column takes any text, and a row
\* that was not written by the program may hold another.
ChangeSite(n) ==
    /\ Enter
    /\ \/ site' = [site EXCEPT ![n].top = ~@]
       \/ site' = [site EXCEPT ![n].active = ~@]
       \/ site' = [site EXCEPT ![n].placed = ~@]
       \/ \E s \in {"ACTIVE", "PAST_DUE", "EXPIRED", "expired"} \ {site[n].status} :
            site' = [site EXCEPT ![n].status = s]
    /\ UNCHANGED <<sorted, person, chore, report, ticket>>

Sort(spot) ==
    /\ Enter
    /\ spot \notin sorted
    /\ sorted' = sorted \cup {spot}
    /\ UNCHANGED <<site, person, chore, report, ticket>>

MovePerson(w) ==
    /\ Enter
    /\ \/ \E spot \in Spots \ {person[w].place} : person' = [person EXCEPT ![w].place = spot]
       \/ \E r \in {"ADMIN", "MASTER", "WORKER"} \ {person[w].role} :
            person' = [person EXCEPT ![w].role = r]
       \/ person' = [person EXCEPT ![w].active = ~@]
    /\ UNCHANGED <<site, sorted, chore, report, ticket>>

AddChore(w, begun) ==
    /\ Enter
    /\ begun <= viewed
    /\ \E s \in {"ACTIVE", "PAUSED", "ENDED", "VOID"} :
        chore' = Append(chore, [by |-> w, begun |-> begun, status |-> s])
    /\ UNCHANGED <<site, sorted, person, report, ticket>>

\* recordHourly keeps the hour of a report.
AddReport(spot, at) ==
    /\ Enter
    /\ at <= viewed
    /\ report' = report \cup {[place |-> spot, at |-> at - (at % AnHour), heard |-> at]}
    /\ UNCHANGED <<site, sorted, person, chore, ticket>>

AddTicket(n) ==
    /\ Enter
    /\ \E urgent \in BOOLEAN : ticket' = Append(ticket, [place |-> n, urgent |-> urgent])
    /\ UNCHANGED <<site, sorted, person, chore, report>>

\* Centres that were just created, or that are in use.
ConsoleFrom(open, time, place, used) ==
    /\ viewed = time
    /\ site = [n \in SitesHere |->
                 [top |-> n \in open, active |-> TRUE, status |-> "ACTIVE", placed |-> TRUE]]
    /\ person = [w \in Staff |-> [place |-> place[w], active |-> TRUE,
                                  role |-> IF used THEN "ADMIN" ELSE "WORKER"]]
    /\ sorted = IF used THEN {None} ELSE {}
    /\ report = IF used THEN {[place |-> n, at |-> 0, heard |-> 0] : n \in SitesHere} ELSE {}
    /\ chore = IF used THEN SetToSeq({[by |-> w, begun |-> 0, status |-> "ENDED"] : w \in Staff})
               ELSE <<>>
    /\ ticket = <<>>
    /\ entries = 0

ConsoleInit ==
    \E time \in ViewTimes, place \in [Staff -> Spots], used \in BOOLEAN :
        ConsoleFrom(SitesHere, time, place, used)

ConsoleNext ==
    \/ \E n \in SitesHere : ChangeSite(n) \/ AddTicket(n)
    \/ \E spot \in Spots :
        Sort(spot) \/ \E at \in Reports : AddReport(spot, at)
    \/ \E w \in Staff :
        MovePerson(w) \/ \E begun \in Beginnings : AddChore(w, begun)

ConsoleSpec == ConsoleInit /\ [][ConsoleNext]_consoleVars

-----------------------------------------------------------------------------
(* Properties *)

\* Every item that is not VOID and was begun in the period by somebody who is
\* not a master, at a listed site or at none, is in exactly one row of the
\* comparison: the rows add up to them, and two periods that meet add up to
\* their union, so that no boundary loses an item or counts one twice.  The
\* dashboard of a centre counts the centre's row, the one of no site, and what
\* masters began, what is paused and what is not; the last thirty days and those
\* before count sixty once.
PeriodsAddUp ==
    LET Sum(from, to) == MapThenSumSet(LAMBDA k : aggregate(k, from, to).count, periodRows)
        Due(from, to) == {i \in DOMAIN chore :
            /\ chore[i].status # "VOID" /\ chore[i].begun \in from..to
            /\ person[chore[i].by].role # "MASTER"
            /\ person[chore[i].by].place \in listed \cup {None}}
    IN  \A m \in {b \in Beginnings : chore # <<>>} :
            /\ Sum(0, m) = Cardinality(Due(0, m))
            /\ Sum(0, viewed) = Sum(0, m) + Sum(m + 1, viewed)
            /\ \A n \in listed :
                LET own == aggregate(n, 0, m)
                    placeless == aggregate(None, 0, m)
                    masters(kinds) == Cardinality({i \in ChoresOf({n, None}) :
                        /\ person[chore[i].by].role = "MASTER"
                        /\ chore[i].status \in kinds /\ chore[i].begun <= m})
                    here == counts(n, 0, m)
                IN  /\ here.total - here.void
                         = own.count + placeless.count + masters({"ACTIVE", "PAUSED", "ENDED"})
                    /\ here.ended = own.endedCount + placeless.endedCount + masters({"ENDED"})
                    /\ metrics(n).last30d + metrics(n).previous30d
                         = counts(n, viewed - 2 * SpanTime, viewed).total

\* At half past, when the digest is scheduled, a centre whose tablet has reported
\* within the last half hour of work is not called silent, although a report keeps
\* only its hour, and a centre that is not called silent has been heard from since
\* the start of work.
TabletHeard ==
    2 * (viewed % AnHour) = AnHour =>
    \A n \in board :
        LET heard == {r.heard : r \in {x \in report : x.place \in digestScope(n)}}
            start == Today + WorkStart
            silent == "tablet" \in collectDigestIssues(n)
        IN  /\ silent => \A t \in heard : t < start \/ 2 * (viewed - t) > AnHour
            /\ viewed >= start /\ digestStatus(n) \notin Inactive /\ ~silent
                 => \E t \in heard : t >= start

\* The views agree about a centre: what the digest or the centre's dashboard
\* reports as stuck, or the digest as not subscribed, is at risk in the overview,
\* unless the row's status is not in capitals, which the digest reads and the
\* overview does not; without coordinates means the same to the digest, the board
\* and the readiness check, no work means none on the board, the board's work is
\* on the dashboard too, a centre idle for more than seven days has none in the
\* last seven, and a tablet that never reported is silent in the digest too,
\* unless reports without a site speak for the first centre.
DigestAgrees ==
    \A n \in board :
        LET issues == collectDigestIssues(n) IN
        /\ \/ "stuck" \in issues
           \/ "subscription" \in issues /\ digestStatus(n) = site[n].status
           => health(n) = "AT_RISK"
        /\ ("coords" \in issues) <=> ~liveBoard(n).coordsSet
        /\ ("coords" \in issues) <=> "coords" \notin requiredOk(n)
        /\ "no_work" \in issues => liveBoard(n).todayCount = 0
        /\ (liveBoard(n).lastHeatReportAt = None) <=> "tablet" \notin requiredOk(n)
        /\ /\ "tablet" \notin requiredOk(n) /\ digestStatus(n) \notin Inactive
           /\ viewed >= Today + WorkStart
           /\ ~\E r \in report : r.place = None
           => "tablet" \in issues
        /\ aggregate(n, 0, viewed).stuckCount > 0 => longRunning(n)
        /\ stuckAlert(n, 0, viewed) => health(n) = "AT_RISK"
        /\ LET today == counts(n, Today, viewed) IN
           /\ liveBoard(n).todayCount <= today.total - today.void
           /\ ChoresOf({None}) = {} => liveBoard(n).todayCount = today.total - today.void
        /\ lowActivity(n) /\ (\A i \in overviewChores(n) : chore[i].begun # viewed - IdleTime)
             => metrics(n).recent7d = 0
        /\ metrics(n).recent7dEnded <= metrics(n).recent7d

\* The list of actions agrees with the overview, which decides health by
\* conditions of its own: a site needs attention exactly if an action was
\* collected for it, and is at risk exactly if one of them is critical; and as
\* the list is cut, no site at risk is left out while a warning is shown.
ActionsAgree ==
    \A n \in listed :
        LET own == {a \in ToSet(allActions) : a.site = n}
            critical == {a \in own : a.severity = "critical"}
        IN  /\ (health(n) # "HEALTHY") <=> (own # {})
            /\ (health(n) = "AT_RISK") <=> (critical # {})
            /\ critical \subseteq ToSet(actions)
               \/ \A k \in DOMAIN actions : actions[k].severity = "critical"

\* The operator is told the same by every view: DigestAgrees and ActionsAgree.
ViewsAgree == DigestAgrees /\ ActionsAgree
=============================================================================
