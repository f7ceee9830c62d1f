------------------------------- MODULE Breaks -------------------------------
(* The break settings of one site, and the global ones                       *)
(* (src/break-configs/break-configs.service.ts, the clone and the migration  *)
(* of src/sites).  A period is checked against the site's active ones, in a  *)
(* read of its own, before it is written; some writers, and a change of the  *)
(* active flag alone, do not check at all.                                   *)
EXTENDS Rows, Integers, FiniteSets

CONSTANTS
    Editors,    \* concurrent calls
    DayEnd,     \* bound: the times of a day are 0..DayEnd
    Spans,      \* bound: the periods that are entered, <<from, to>>
    MaxBreaks,  \* ten per site
    MaxPeriods, \* bound: rows ever created
    MaxEdits    \* bound: calls begun

validateTimeRange(s) == s \in (0..DayEnd) \X (0..DayEnd) /\ s[1] < s[2]

ASSUME BreaksAssumption ==
    /\ {DayEnd, MaxBreaks, MaxPeriods, MaxEdits} \subseteq Nat
    /\ \A s \in Spans : validateTimeRange(s)

VARIABLES
    period,   \* rows, in the order of creation
    entered,  \* rows created so far
    here,     \* the site exists
    edits,    \* calls begun so far
    editor,   \* what each call is doing
    strayed   \* rows placed unchecked, or by a check that was overtaken

breaksVars == <<period, entered, here, edits, editor, strayed>>

PeriodIds == 1..MaxPeriods

\* site = None: the global setting.
PeriodRow == [site : {"here", None}, from : 0..DayEnd, to : 0..DayEnd, active : BOOLEAN]

ASSUME PeriodRowAssumption == None \notin PeriodRow

Periods == Present(period)

\* Active periods of another site.
Sources == {S \in SUBSET Spans : Cardinality(S) \in {1, 2}}

\* The active periods of a place: only they are looked at.
At(place) == {i \in Periods : period[i].site = place /\ period[i].active}

\* Mutant: a period may begin before another one ends, if it ends later.
MeetsInside(s, p) == s[1] >= p.from /\ s[2] <= p.to

Meets(s, p) == s[1] < p.to /\ s[2] > p.from

NoOverlap(s, place, except) == \A i \in At(place) \ except : ~Meets(s, period[i])

Away == [pc |-> "idle", on |-> None, site |-> None, span |-> None, turn |-> "kept",
         overtaken |-> FALSE]

Edit(c) == editor[c] = Away /\ edits < MaxEdits /\ edits' = edits + 1

\* A write of call c overtakes the checks of the others.
Overtaking(c) == [d \in Editors |->
    IF d = c THEN Away
    ELSE IF editor[d] = Away THEN Away ELSE [editor[d] EXCEPT !.overtaken = TRUE]]

Put(c, place, s) ==
    /\ entered < MaxPeriods
    /\ entered' = entered + 1
    /\ period' = [period EXCEPT ![entered + 1] = [site |-> place, from |-> s[1], to |-> s[2],
                                                     active |-> TRUE]]
    /\ strayed' = IF editor[c].overtaken THEN strayed \cup {entered + 1} ELSE strayed

CreateCheck(c, place, s) ==
    /\ Edit(c)
    /\ NoOverlap(s, place, {})
    /\ Cardinality(At(place)) < MaxBreaks
    /\ editor' = [editor EXCEPT ![c] =
                    [Away EXCEPT !.pc = "create", !.site = place, !.span = s]]
    /\ UNCHANGED <<period, entered, here, strayed>>

\* A site that is gone is refused by the foreign key.
CreatePut(c) ==
    /\ editor[c].pc = "create"
    /\ editor[c].site = "here" => here
    /\ Put(c, editor[c].site, editor[c].span)
    /\ editor' = Overtaking(c)
    /\ UNCHANGED <<here, edits>>

\* Bound: a call names what it changes, and another site only with a new time.
Changes(p, place, s, turn) ==
    /\ s # None \/ place # "kept" \/ turn # "kept"
    /\ place = "here" => p.site = None
    /\ place = "global" => p.site = "here"
    /\ place = "elsewhere" => p.site = "here" /\ s # None
    /\ turn # "kept" => p.active = (turn = "off")

\* update checks a new time against the others of the site it names or keeps; a
\* change of site or of the active flag is not counted, and without a new time
\* not checked either.  An administrator who names another site is checked there,
\* and stays; a row that a MASTER makes global is checked where it was.
UpdateCheck(c) ==
    /\ Edit(c)
    /\ \E i \in Periods, place \in {"here", "kept", "elsewhere", "global"},
          s \in Spans \cup {None}, turn \in {"on", "off", "kept"} :
        /\ Changes(period[i], place, s, turn)
        /\ s # None /\ place # "elsewhere" =>
            NoOverlap(s, IF place = "here" THEN "here" ELSE period[i].site, {i})
        /\ editor' = [editor EXCEPT ![c] = [Away EXCEPT !.pc = "update", !.on = i, !.site = place,
                                                        !.span = s, !.turn = turn]]
    /\ UNCHANGED <<period, entered, here, strayed>>

UpdatePut(c) ==
    /\ editor[c].pc = "update"
    /\ LET i == editor[c].on
           s == editor[c].span
           place == CASE editor[c].site = "here" -> "here"
                      [] editor[c].site = "global" -> None
                      [] OTHER -> period[i].site
           active == editor[c].turn = "on" \/ (editor[c].turn = "kept" /\ period[i].active) IN
       IF i \in Periods /\ (editor[c].site = "here" => here)
       THEN /\ period' = [period EXCEPT
                  ![i] = [site |-> place, active |-> active,
                          from |-> IF s = None THEN @.from ELSE s[1],
                          to |-> IF s = None THEN @.to ELSE s[2]]]
            /\ strayed' = IF \/ editor[c].overtaken
                             \/ place # period[i].site
                             \/ editor[c].site = "elsewhere"
                             \/ active /\ ~period[i].active
                          THEN strayed \cup {i} ELSE strayed
            /\ editor' = Overtaking(c)
       ELSE /\ editor' = [editor EXCEPT ![c] = Away]
            /\ UNCHANGED <<period, strayed>>
    /\ UNCHANGED <<entered, here, edits>>

RemovePeriod(i) ==
    /\ i \in Periods
    /\ period' = [period EXCEPT ![i] = None]
    /\ UNCHANGED <<entered, here, edits, editor, strayed>>

\* The inactive rows of the site with the same times; with the same label too they
\* are duplicates.
Twins(source) == {s \in source : \E i \in Periods :
    period[i].site = "here" /\ ~period[i].active /\ s = <<period[i].from, period[i].to>>}

\* cloneSettings, one transaction: it takes the periods of another site one by one,
\* as long as there is room, but for the duplicates and those that meet one of the
\* site's or one already taken, ...
CloneCheck(c, source) ==
    /\ here
    /\ Edit(c)
    /\ \E duplicates \in SUBSET Twins(source) :
       LET fit == {s \in source \ duplicates : NoOverlap(s, "here", {})}
           room == MaxBreaks - Cardinality(At("here"))
           Fits(s, t) == s[2] <= t[1] \/ t[2] <= s[1] IN
       \E taken \in SUBSET fit :
        /\ \A s, t \in taken : s = t \/ Fits(s, t)
        /\ taken # {} => Cardinality(taken) <= room
        /\ \A s \in fit \ taken : Cardinality(taken) < room => \E t \in taken : ~Fits(s, t)
        /\ editor' = [editor EXCEPT ![c] =
                        [Away EXCEPT !.pc = "clone", !.site = "here", !.span = taken]]
    /\ UNCHANGED <<period, entered, here, strayed>>

\* ... and writes them all.
ClonePut(c) ==
    /\ editor[c].pc = "clone"
    /\ here
    /\ LET taken == editor[c].span
           new == entered + 1..entered + Cardinality(taken) IN
       /\ entered + Cardinality(taken) <= MaxPeriods
       /\ entered' = entered + Cardinality(taken)
       /\ \E row \in [new -> taken] :
            /\ \A i, j \in new : row[i] = row[j] => i = j
            /\ period' = [i \in PeriodIds |->
                            IF i \in new
                            THEN [site |-> "here", from |-> row[i][1], to |-> row[i][2],
                                  active |-> TRUE]
                            ELSE period[i]]
       /\ strayed' = IF editor[c].overtaken THEN strayed \cup new ELSE strayed
    /\ editor' = Overtaking(c)
    /\ UNCHANGED <<here, edits>>

\* migrateWorkersToSite, for a single customer: the global rows become the
\* site's, unchecked.
Absorb ==
    /\ here
    /\ \E i \in Periods : period[i].site = None
    /\ period' = [i \in PeriodIds |->
                    IF i \in Periods THEN [period[i] EXCEPT !.site = "here"] ELSE None]
    /\ strayed' = strayed \cup At(None)
    /\ editor' = [d \in Editors |->
                    IF editor[d] = Away THEN Away ELSE [editor[d] EXCEPT !.overtaken = TRUE]]
    /\ UNCHANGED <<entered, here, edits>>

\* The site is removed: its rows lose it, and are global from then on.
SiteGoes ==
    /\ here
    /\ here' = FALSE
    /\ period' = [i \in PeriodIds |->
                    IF i \in Periods THEN [period[i] EXCEPT !.site = None] ELSE None]
    /\ strayed' = strayed \cup At("here")
    /\ editor' = [d \in Editors |->
                    IF editor[d] = Away THEN Away ELSE [editor[d] EXCEPT !.overtaken = TRUE]]
    /\ UNCHANGED <<entered, edits>>

EditorDies(c) ==
    /\ editor[c] # Away
    /\ editor' = [editor EXCEPT ![c] = Away]
    /\ UNCHANGED <<period, entered, here, edits, strayed>>

\* No row yet, or one that was created and deactivated before.
BreaksInit ==
    /\ entered \in {0, 1}
    /\ \E s \in Spans :
        period = [i \in PeriodIds |->
                    IF i <= entered
                    THEN [site |-> "here", from |-> s[1], to |-> s[2], active |-> FALSE] ELSE None]
    /\ here = TRUE
    /\ edits = 0
    /\ editor = [c \in Editors |-> Away]
    /\ strayed = {}

BreaksNext ==
    \/ \E c \in Editors :
        \/ \E source \in Sources : CloneCheck(c, source)
        \/ \E s \in Spans, place \in {"here", None} : CreateCheck(c, place, s)
        \/ UpdateCheck(c) \/ CreatePut(c) \/ UpdatePut(c) \/ ClonePut(c) \/ EditorDies(c)
    \/ \E i \in PeriodIds : RemovePeriod(i)
    \/ Absorb \/ SiteGoes

BreaksSpec == BreaksInit /\ [][BreaksNext]_breaksVars

-----------------------------------------------------------------------------
(* Property *)

\* The active periods of a site do not overlap, and are no more than the limit, but
\* for the rows that an overtaken check, a check on another site, a change of site,
\* a reactivation, a migration of the global settings or the removal of the site
\* put there (create, update, cloneSettings).
BreaksDisjoint ==
    \A place \in {"here", None} :
        /\ \A i, j \in At(place) :
            i # j /\ Meets(<<period[i].from, period[i].to>>, period[j])
                => strayed \cap {i, j} # {}
        /\ Cardinality(At(place) \ strayed) <= MaxBreaks
=============================================================================
