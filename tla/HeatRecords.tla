---------------------------- MODULE HeatRecords -----------------------------
(* The hourly heat records of one site, or of the tablets that have none     *)
(* (recordHourly of src/heat-alerts): a report truncates the clock to the    *)
(* hour, looks for a record of that hour, and updates it or creates one.     *)
(* The unique index on site and hour does not hold for a site that is NULL.  *)
EXTENDS Rows, Integers, FiniteSets

CONSTANTS
    Tablets,    \* concurrent reports
    MaxRecords, \* bound: rows ever created
    MaxHour,    \* bound on the clock, in hours
    MaxReports  \* bound: reports ever begun

ASSUME HeatAssumption ==
    /\ {MaxRecords, MaxHour, MaxReports} \subseteq Nat
    /\ None \notin [hour : Nat, report : Nat]

VARIABLES
    sited,    \* the reports carry a site
    hour,
    record,   \* rows: the hour, and the report whose values they hold
    recorded, \* rows created so far
    reports,  \* reports begun so far; a report's number stands for its values
    tablet,   \* what each tablet is doing
    answered, \* reports that were answered with success: number and hour
    before    \* per report: the reports answered when it began

heatVars == <<sited, hour, record, recorded, reports, tablet, answered, before>>

RecordIds == 1..MaxRecords

Records == Present(record)

RecordsOf(h) == {i \in Records : record[i].hour = h}

Quiet == [pc |-> "idle", hour |-> None, report |-> None, on |-> None]

\* The clock is read before the database is.
ReportBegin(t) ==
    /\ tablet[t] = Quiet
    /\ reports < MaxReports
    /\ reports' = reports + 1
    /\ before' = [before EXCEPT ![reports + 1] = {a.report : a \in answered}]
    /\ tablet' = [tablet EXCEPT ![t] =
                    [Quiet EXCEPT !.pc = "find", !.hour = hour, !.report = reports + 1]]
    /\ UNCHANGED <<sited, hour, record, recorded, answered>>

\* findFirst names no order: any row of the hour.
ReportFind(t) ==
    /\ tablet[t].pc = "find"
    /\ LET h == tablet[t].hour IN
       \/ /\ RecordsOf(h) = {}
          /\ tablet' = [tablet EXCEPT ![t].pc = "create"]
       \/ \E i \in RecordsOf(h) : tablet' = [tablet EXCEPT ![t].pc = "update", ![t].on = i]
    /\ UNCHANGED <<sited, hour, record, recorded, reports, answered, before>>

Answer(t) ==
    /\ answered' = answered \cup {[report |-> tablet[t].report, hour |-> tablet[t].hour]}
    /\ tablet' = [tablet EXCEPT ![t] = Quiet]

\* Mutant: a report of an hour that has a record is taken as recorded.
UpdatedKept(i, report) == record

Updated(i, report) == [record EXCEPT ![i].report = report]

ReportUpdate(t) ==
    /\ tablet[t].pc = "update"
    /\ record' = Updated(tablet[t].on, tablet[t].report)
    /\ Answer(t)
    /\ UNCHANGED <<sited, hour, recorded, reports, before>>

\* The unique index refuses a second row of a site (P2002): the report is
\* answered with success and its values are dropped.
ReportCreate(t) ==
    /\ tablet[t].pc = "create"
    /\ IF sited /\ RecordsOf(tablet[t].hour) # {}
       THEN UNCHANGED <<record, recorded>>
       ELSE /\ recorded < MaxRecords
            /\ recorded' = recorded + 1
            /\ record' = [record EXCEPT ![recorded + 1] =
                            [hour |-> tablet[t].hour, report |-> tablet[t].report]]
    /\ Answer(t)
    /\ UNCHANGED <<sited, hour, reports, before>>

ReportFails(t) ==
    /\ tablet[t] # Quiet
    /\ tablet' = [tablet EXCEPT ![t] = Quiet]
    /\ UNCHANGED <<sited, hour, record, recorded, reports, answered, before>>

HourTick ==
    /\ hour < MaxHour
    /\ hour' = hour + 1
    /\ UNCHANGED <<sited, record, recorded, reports, tablet, answered, before>>

HeatInit ==
    /\ sited \in BOOLEAN
    /\ hour = 0
    /\ record = [i \in RecordIds |-> None]
    /\ recorded = 0
    /\ reports = 0
    /\ tablet = [t \in Tablets |-> Quiet]
    /\ answered = {}
    /\ before = [n \in 1..MaxReports |-> {}]

HeatNext ==
    \/ HourTick
    \/ \E t \in Tablets :
        ReportBegin(t) \/ ReportFind(t) \/ ReportUpdate(t) \/ ReportCreate(t) \/ ReportFails(t)

HeatSpec == HeatInit /\ [][HeatNext]_heatVars

-----------------------------------------------------------------------------
(* Properties *)

\* "같은 시간대 재보고는 최신 값으로 갱신": once a report of an hour is answered, the
\* hour has a record whose report was not over before an answered one began.
\* (Between reports that overlap, the values that lose may be the later ones.)
NewestHolds ==
    \A a \in answered : \E i \in RecordsOf(a.hour) :
        \A b \in answered : b.hour = a.hour => record[i].report \notin before[b.report]
=============================================================================
