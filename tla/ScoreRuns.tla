----------------------------- MODULE ScoreRuns ------------------------------
(* The score runs of one policy and month, and the objections filed against  *)
(* their entries (src/incentives/incentives.service.ts).  Every operation    *)
(* reads, checks and then writes by id; only the creation of a run repeats   *)
(* its check inside a serializable transaction.                              *)
EXTENDS Rows, Integers, FiniteSets

CONSTANTS
    Analysts,      \* concurrent calls; the monthly job is one of them
    MaxRuns,       \* bound: runs ever created
    MaxObjections, \* bound: objections ever filed
    MaxRunDay,     \* bound on the calendar
    GraceDays      \* autoFinalizeStaleFrozenRuns(graceDays)

ASSUME ScoreRunsAssumption == {MaxRuns, MaxObjections, MaxRunDay, GraceDays} \subseteq Nat

VARIABLES
    runDay,
    run,        \* score runs, in the order of createdAt
    scored,     \* runs created so far
    objection,  \* objections, in the order they were filed
    filed,      \* objections filed so far
    analyst,    \* what each call is doing
    sweep,      \* the job that finalizes what was frozen long enough
    thawed      \* finalized runs that a freeze decided earlier has reopened

runVars == <<runDay, run, scored, objection, filed, analyst, sweep, thawed>>

RunIds == 1..MaxRuns

ObjectionIds == 1..MaxObjections

\* seen: the objections on file when the finalization counted them; None for a
\* run that a recalculation replaced.
RunRow == [status : {"SHADOW", "RUNNING", "FROZEN", "FINALIZED"},
           frozen : (0..MaxRunDay) \cup {None}, seen : (0..MaxObjections) \cup {None}]

ObjectionRow == [on : RunIds, status : {"OPEN", "ACCEPTED", "REJECTED"}]

ASSUME RunRowAssumption == None \notin RunRow /\ None \notin ObjectionRow

Runs == Present(run)

Objections == Present(objection)

OpenRuns == {r \in Runs : run[r].status # "FINALIZED"}

Unanswered(r) ==
    {o \in Objections : objection[o].on = r /\ objection[o].status = "OPEN"}

Nothing == [pc |-> "idle", on |-> None, as |-> None]

Doing(a, pc, on, as) == analyst' = [analyst EXCEPT ![a] = [pc |-> pc, on |-> on, as |-> as]]

Finished(a) == analyst' = [analyst EXCEPT ![a] = Nothing]

-----------------------------------------------------------------------------
(* Runs *)

\* createScoreRun, by hand, for all tracks, or by the monthly job, of a policy
\* that is in SHADOW or ACTIVE when it is read: Policies moves it at any time.
CreateRunRead(a, s) ==
    /\ analyst[a] = Nothing \/ analyst[a].pc = "again"
    /\ OpenRuns = {}
    /\ Doing(a, "score", None, s)
    /\ UNCHANGED <<runDay, run, scored, objection, filed, sweep, thawed>>

\* Mutant: the transaction does not look again.
MayStoreBlindly == TRUE

MayStore == OpenRuns = {}

\* Scoring may also find nobody to score, and refuse.
CreateRun(a) ==
    /\ analyst[a].pc = "score"
    /\ \/ /\ MayStore
          /\ scored < MaxRuns
          /\ scored' = scored + 1
          /\ run' = [run EXCEPT ![scored + 1] =
                       [status |-> IF analyst[a].as = "SHADOW" THEN "SHADOW" ELSE "RUNNING",
                        frozen |-> None, seen |-> None]]
       \/ UNCHANGED <<run, scored>>
    /\ Finished(a)
    /\ UNCHANGED <<runDay, objection, filed, sweep, thawed>>

FreezeRead(a, r) ==
    /\ analyst[a] = Nothing
    /\ r \in Runs /\ run[r].status \in {"RUNNING", "SHADOW"}
    /\ Doing(a, "freeze", r, None)
    /\ UNCHANGED <<runDay, run, scored, objection, filed, sweep, thawed>>

Freeze(a) ==
    /\ analyst[a].pc = "freeze"
    /\ LET r == analyst[a].on IN
       /\ run' = [run EXCEPT ![r].status = "FROZEN", ![r].frozen = runDay]
       /\ thawed' = IF run[r].status = "FINALIZED" THEN thawed \cup {r} ELSE thawed
    /\ Finished(a)
    /\ UNCHANGED <<runDay, scored, objection, filed, sweep>>

FinalizeRead(a, r) ==
    /\ analyst[a] = Nothing
    /\ r \in Runs /\ run[r].status = "FROZEN"
    /\ Doing(a, "count", r, None)
    /\ UNCHANGED <<runDay, run, scored, objection, filed, sweep, thawed>>

\* An open objection sends the call back.
FinalizeCount(a) ==
    /\ analyst[a].pc = "count"
    /\ IF Unanswered(analyst[a].on) = {}
       THEN Doing(a, "finalize", analyst[a].on, filed) ELSE Finished(a)
    /\ UNCHANGED <<runDay, run, scored, objection, filed, sweep, thawed>>

Finalized(r, seen) ==
    /\ run' = [run EXCEPT ![r].status = "FINALIZED", ![r].seen = seen]
    /\ thawed' = thawed \ {r}

Finalize(a) ==
    /\ analyst[a].pc = "finalize"
    /\ Finalized(analyst[a].on, analyst[a].as)
    /\ Finished(a)
    /\ UNCHANGED <<runDay, scored, objection, filed, sweep>>

\* recalculateAfterObjection asks for an accepted objection, whatever the state
\* of the run, finalizes it and creates another, which may fail.
RecalculateRead(a, r) ==
    /\ analyst[a] = Nothing
    /\ \E o \in Objections : objection[o].on = r /\ objection[o].status = "ACCEPTED"
    /\ Doing(a, "recalculate", r, None)
    /\ UNCHANGED <<runDay, run, scored, objection, filed, sweep, thawed>>

Recalculate(a) ==
    /\ analyst[a].pc = "recalculate"
    /\ Finalized(analyst[a].on, None)
    /\ Doing(a, "again", None, None)
    /\ UNCHANGED <<runDay, scored, objection, filed, sweep>>

-----------------------------------------------------------------------------
(* Objections *)

\* createObjection does not ask for the run's status.
FileObjection(r) ==
    /\ r \in Runs
    /\ filed < MaxObjections
    /\ filed' = filed + 1
    /\ objection' = [objection EXCEPT ![filed + 1] = [on |-> r, status |-> "OPEN"]]
    /\ UNCHANGED <<runDay, run, scored, analyst, sweep, thawed>>

ResolveRead(a, o, answer) ==
    /\ analyst[a] = Nothing
    /\ o \in Objections /\ objection[o].status = "OPEN"
    /\ Doing(a, "resolve", o, answer)
    /\ UNCHANGED <<runDay, run, scored, objection, filed, sweep, thawed>>

Resolve(a) ==
    /\ analyst[a].pc = "resolve"
    /\ objection' = [objection EXCEPT ![analyst[a].on].status = analyst[a].as]
    /\ Finished(a)
    /\ UNCHANGED <<runDay, run, scored, filed, sweep, thawed>>

-----------------------------------------------------------------------------
(* The daily job *)

Overdue(r) == run[r].status = "FROZEN" /\ runDay - run[r].frozen > GraceDays

AutoFinalizeList ==
    /\ sweep.pc = "idle"
    /\ \E r \in Runs : Overdue(r)
    /\ sweep' = [pc |-> "count", list |-> {r \in Runs : Overdue(r)}, on |-> None, as |-> None]
    /\ UNCHANGED <<runDay, run, scored, objection, filed, analyst, thawed>>

\* Mutant: the job takes a frozen run for undisputed.
UndisputedUnasked(r) == TRUE

Undisputed(r) == Unanswered(r) = {}

AutoFinalizeCount ==
    /\ sweep.pc = "count"
    /\ \E r \in sweep.list :
        sweep' = IF Undisputed(r)
                 THEN [sweep EXCEPT !.pc = "write", !.on = r, !.as = filed]
                 ELSE [sweep EXCEPT !.list = @ \ {r}]
    /\ UNCHANGED <<runDay, run, scored, objection, filed, analyst, thawed>>

\* The run is written from the list, whatever it has become.
AutoFinalizeWrite ==
    /\ sweep.pc = "write"
    /\ Finalized(sweep.on, sweep.as)
    /\ sweep' = [sweep EXCEPT !.pc = "count", !.list = @ \ {sweep.on}, !.on = None, !.as = None]
    /\ UNCHANGED <<runDay, scored, objection, filed, analyst>>

Idling == [pc |-> "idle", list |-> {}, on |-> None, as |-> None]

\* The job is through its list, or its instance dies.
AutoFinalizeEnds ==
    /\ sweep # Idling
    /\ sweep' = Idling
    /\ UNCHANGED <<runDay, run, scored, objection, filed, analyst, thawed>>

AnalystDies(a) ==
    /\ analyst[a] # Nothing
    /\ Finished(a)
    /\ UNCHANGED <<runDay, run, scored, objection, filed, sweep, thawed>>

RunTick ==
    /\ runDay < MaxRunDay
    /\ runDay' = runDay + 1
    /\ UNCHANGED <<run, scored, objection, filed, analyst, sweep, thawed>>

ScoreRunsInit ==
    /\ runDay = 0
    /\ run = [r \in RunIds |-> None]
    /\ scored = 0
    /\ objection = [o \in ObjectionIds |-> None]
    /\ filed = 0
    /\ analyst = [a \in Analysts |-> Nothing]
    /\ sweep = Idling
    /\ thawed = {}

ScoreRunsNext ==
    \/ RunTick
    \/ \E a \in Analysts :
        \/ \E s \in {"SHADOW", "ACTIVE"} : CreateRunRead(a, s)
        \/ CreateRun(a) \/ Freeze(a) \/ FinalizeCount(a) \/ Finalize(a)
        \/ Recalculate(a) \/ Resolve(a) \/ AnalystDies(a)
        \/ \E r \in RunIds : FreezeRead(a, r) \/ FinalizeRead(a, r) \/ RecalculateRead(a, r)
        \/ \E o \in ObjectionIds, answer \in {"ACCEPTED", "REJECTED"} : ResolveRead(a, o, answer)
    \/ \E r \in RunIds : FileObjection(r)
    \/ AutoFinalizeList \/ AutoFinalizeCount \/ AutoFinalizeWrite \/ AutoFinalizeEnds

ScoreRunsSpec == ScoreRunsInit /\ [][ScoreRunsNext]_runVars

-----------------------------------------------------------------------------
(* Properties *)

\* A policy and month has one run that is not final ("동시 요청 시 한 쪽 트랜잭션이
\* 먼저 커밋되고 나머지는 재검증에서 차단됨"), apart from finalized ones that a freeze
\* decided before their finalization has reopened.
OneOpenRun == Cardinality(OpenRuns \ thawed) <= 1

\* Nothing that was on file when a run's objections were counted is still open
\* once the run is final: neither the administrator nor the job passes over one,
\* and no answer is taken back.
AnsweredWhenFinal ==
    \A r \in Runs : run[r].status = "FINALIZED" /\ run[r].seen # None
        => \A o \in Unanswered(r) : o > run[r].seen
=============================================================================
