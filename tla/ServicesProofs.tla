--------------------------- MODULE ServicesProofs ---------------------------
(* Proofs about the smaller services: score runs, incentive policies,        *)
(* inbound uploads, heat records, backup requests, the removal of a site,    *)
(* the scores of managers, and break periods.                                *)
EXTENDS ScoreRuns, Policies, Inbound, HeatRecords, Backups, Sites, Scores, Breaks, Counting, TLAPS

\* Some value is not in a set.
LEMMA NotEverything == \A S : \E x : x \notin S
<1> SUFFICES ASSUME NEW S PROVE \E x : x \notin S
  OBVIOUS
<1> DEFINE R == {x \in S : x \notin x}
<1>1. R \notin S
  <2> SUFFICES ASSUME R \in S PROVE FALSE
    OBVIOUS
  <2>1. R \in R <=> R \notin R
    OBVIOUS
  <2> QED
    BY <2>1
<1> QED
  BY <1>1
-----------------------------------------------------------------------------
(* Score runs and objections *)

AnalystJob == [pc : {"idle", "score", "freeze", "count", "finalize", "recalculate", "again",
                     "resolve"},
               on : RunIds \cup ObjectionIds \cup {None},
               as : (0..MaxObjections) \cup {None, "SHADOW", "ACTIVE", "ACCEPTED", "REJECTED"}]

SweepJob == [pc : {"idle", "count", "write"}, list : SUBSET RunIds,
             on : RunIds \cup {None}, as : (0..MaxObjections) \cup {None}]

ScoreType ==
    /\ runDay \in 0..MaxRunDay
    /\ run \in [RunIds -> RunRow \cup {None}]
    /\ scored \in 0..MaxRuns
    /\ objection \in [ObjectionIds -> ObjectionRow \cup {None}]
    /\ filed \in 0..MaxObjections
    /\ analyst \in [Analysts -> AnalystJob]
    /\ sweep \in SweepJob

\* Of the objections to run r, those filed up to the n-th are answered.
AnsweredTo(r, n) ==
    \A o \in ObjectionIds :
        objection[o] # None /\ objection[o].on = r /\ objection[o].status = "OPEN" => o > n

Existing(r) == r \in RunIds /\ run[r] # None

\* What a call knows when it writes, whatever happened since it looked.
AnalystFits(a) ==
    /\ analyst[a].pc \in {"freeze", "count", "finalize", "recalculate"} => Existing(analyst[a].on)
    /\ analyst[a].pc = "finalize" =>
        analyst[a].as \in 0..filed /\ AnsweredTo(analyst[a].on, analyst[a].as)
    /\ analyst[a].pc = "resolve" =>
        /\ analyst[a].on \in ObjectionIds /\ objection[analyst[a].on] # None
        /\ analyst[a].as \in {"ACCEPTED", "REJECTED"}

SweepFits ==
    /\ \A r \in sweep.list : Existing(r)
    /\ sweep.pc = "write" =>
        Existing(sweep.on) /\ sweep.as \in 0..filed /\ AnsweredTo(sweep.on, sweep.as)

RunFits(r) ==
    run[r] # None /\ run[r].status = "FINALIZED" /\ run[r].seen # None =>
        run[r].seen \in 0..filed /\ AnsweredTo(r, run[r].seen)

\* Open, and not reopened behind its finalization.
Loose(r) == run[r] # None /\ run[r].status # "FINALIZED" /\ r \notin thawed

OneLoose == \A r, s \in RunIds : Loose(r) /\ Loose(s) => r = s

\* Numbers beyond the counts are unused, and objections are to runs there are.
ScoreFresh ==
    /\ \A o \in ObjectionIds : o > filed => objection[o] = None
    /\ \A r \in RunIds : r > scored => run[r] = None
    /\ \A o \in ObjectionIds : objection[o] # None => Existing(objection[o].on)

\* Inductive.
ScoreInv ==
    /\ ScoreType /\ ScoreFresh /\ SweepFits /\ OneLoose
    /\ \A a \in Analysts : AnalystFits(a)
    /\ \A r \in RunIds : RunFits(r)

LEMMA ScoreNumbers ==
    /\ MaxRuns \in Nat /\ MaxObjections \in Nat /\ MaxRunDay \in Nat /\ GraceDays \in Nat
    /\ RunIds \subseteq Nat /\ ObjectionIds \subseteq Nat
    /\ None \notin Nat /\ None \notin RunIds /\ None \notin ObjectionIds
    /\ None \notin RunRow /\ None \notin ObjectionRow
BY ScoreRunsAssumption, RunRowAssumption, NullAssumption DEF RunIds, ObjectionIds

LEMMA InitScoreInv == ScoreRunsInit => ScoreInv
<1> SUFFICES ASSUME ScoreRunsInit PROVE ScoreInv
  OBVIOUS
<1> USE ScoreNumbers
<1>1. Nothing \in AnalystJob /\ Nothing.pc = "idle" /\ Idling \in SweepJob
      /\ Idling.pc = "idle" /\ Idling.list = {}
  BY DEF Nothing, AnalystJob, Idling, SweepJob
<1>2. ScoreType
  BY <1>1 DEF ScoreRunsInit, ScoreType
<1>3. ScoreFresh /\ SweepFits /\ OneLoose
  BY <1>1 DEF ScoreRunsInit, ScoreFresh, SweepFits, OneLoose, Loose
<1>4. \A a \in Analysts : AnalystFits(a)
  BY <1>1 DEF ScoreRunsInit, AnalystFits
<1>5. \A r \in RunIds : RunFits(r)
  BY DEF ScoreRunsInit, RunFits
<1> QED
  BY <1>2, <1>3, <1>4, <1>5 DEF ScoreInv

\* What no step undoes: runs stay, and only a new objection is a new open one.
ScoreStands ==
    /\ filed' \in Nat /\ filed <= filed'
    /\ \A r \in RunIds : run[r] # None => run'[r] # None
    /\ \A o \in ObjectionIds : objection[o] # None => objection'[o] # None
    /\ \A o \in ObjectionIds :
        objection'[o] # None /\ objection'[o].status = "OPEN" =>
            \/ objection[o] # None /\ objection[o].status = "OPEN"
               /\ objection'[o].on = objection[o].on
            \/ o > filed

LEMMA AnswersStand ==
    ASSUME ScoreType, ScoreStands, NEW r, NEW n \in 0..filed, AnsweredTo(r, n)
    PROVE  n \in 0..filed' /\ AnsweredTo(r, n)'
<1>1. filed \in Nat /\ ObjectionIds \subseteq Nat
  BY ScoreNumbers DEF ScoreType
<1> QED
  BY <1>1 DEF ScoreStands, AnsweredTo

\* What is left to show of a step: its types, and what it writes.
LEMMA ScoreKeeps ==
    ASSUME ScoreInv, ScoreType', ScoreStands, ScoreFresh', OneLoose',
           \A a \in Analysts : analyst'[a] = analyst[a] \/ AnalystFits(a)',
           sweep' = sweep \/ SweepFits',
           \A r \in RunIds : run'[r] = run[r] \/ RunFits(r)'
    PROVE  ScoreInv'
<1>0. ScoreType
  BY DEF ScoreInv
<1>1. \A r : Existing(r) => Existing(r)'
  BY DEF ScoreStands, Existing
<1>2. ASSUME NEW a \in Analysts PROVE AnalystFits(a)'
  <2> SUFFICES ASSUME analyst'[a] = analyst[a] PROVE AnalystFits(a)'
    OBVIOUS
  <2>1. AnalystFits(a)
    BY DEF ScoreInv
  <2>2. CASE analyst[a].pc = "finalize"
    <3>1. PICK r, n : /\ r = analyst[a].on /\ n = analyst[a].as
                      /\ r = analyst'[a].on /\ n = analyst'[a].as
      OBVIOUS
    <3>2. n \in 0..filed /\ AnsweredTo(r, n)
      BY <2>1, <2>2, <3>1 DEF AnalystFits
    <3>3. n \in 0..filed' /\ AnsweredTo(r, n)'
      BY <1>0, <3>2, AnswersStand
    <3> QED
      BY <1>1, <2>1, <2>2, <3>1, <3>3 DEF AnalystFits, AnsweredTo
  <2>3. CASE analyst[a].pc # "finalize"
    BY <1>1, <2>1, <2>3 DEF AnalystFits, ScoreStands
  <2> QED
    BY <2>2, <2>3
<1>3. SweepFits'
  <2> SUFFICES ASSUME sweep' = sweep PROVE SweepFits'
    OBVIOUS
  <2>1. SweepFits
    BY DEF ScoreInv
  <2>2. sweep.pc = "write" => sweep.as \in 0..filed' /\ AnsweredTo(sweep.on, sweep.as)'
    <3>1. ASSUME NEW r, NEW n \in 0..filed, AnsweredTo(r, n)
          PROVE  n \in 0..filed' /\ AnsweredTo(r, n)'
      BY <1>0, <3>1, AnswersStand
    <3> QED
      BY <2>1, <3>1 DEF SweepFits, AnsweredTo
  <2> QED
    BY <1>1, <2>1, <2>2 DEF SweepFits, AnsweredTo
<1>4. ASSUME NEW r \in RunIds PROVE RunFits(r)'
  <2> SUFFICES ASSUME run'[r] = run[r] PROVE RunFits(r)'
    OBVIOUS
  <2>1. RunFits(r)
    BY DEF ScoreInv
  <2>2. run[r] # None /\ run[r].status = "FINALIZED" /\ run[r].seen # None =>
          run[r].seen \in 0..filed' /\ AnsweredTo(r, run[r].seen)'
    <3>1. ASSUME NEW n \in 0..filed, AnsweredTo(r, n)
          PROVE  n \in 0..filed' /\ AnsweredTo(r, n)'
      BY <1>0, <3>1, AnswersStand
    <3> QED
      BY <2>1, <3>1 DEF RunFits, AnsweredTo
  <2> QED
    BY <2>2 DEF RunFits, AnsweredTo
<1> QED
  BY <1>2, <1>3, <1>4 DEF ScoreInv

\* One call moves.
OneAnalyst(a) ==
    /\ analyst' \in [Analysts -> AnalystJob]
    /\ \A b \in Analysts : b # a => analyst'[b] = analyst[b]

LEMMA AnalystMoves ==
    ASSUME ScoreType, NEW a \in Analysts,
           NEW pc \in {"idle", "score", "freeze", "count", "finalize", "recalculate", "again",
                       "resolve"},
           NEW on \in RunIds \cup ObjectionIds \cup {None},
           NEW as \in (0..MaxObjections) \cup {None, "SHADOW", "ACTIVE", "ACCEPTED", "REJECTED"},
           Doing(a, pc, on, as)
    PROVE  /\ OneAnalyst(a)
           /\ analyst'[a].pc = pc /\ analyst'[a].on = on /\ analyst'[a].as = as
BY DEF ScoreType, AnalystJob, OneAnalyst, Doing

LEMMA AnalystRests ==
    ASSUME ScoreType, NEW a \in Analysts, Finished(a)
    PROVE  OneAnalyst(a) /\ analyst'[a].pc = "idle"
<1>1. Nothing \in AnalystJob /\ Nothing.pc = "idle"
  BY DEF Nothing, AnalystJob
<1> QED
  BY <1>1 DEF ScoreType, OneAnalyst, Finished

\* A step that leaves runs and objections alone.
LEMMA ScoreLooks ==
    ASSUME ScoreInv, UNCHANGED <<run, scored, objection, filed, thawed>>, ScoreType'
    PROVE  ScoreStands /\ ScoreFresh' /\ OneLoose' /\ \A r \in RunIds : run'[r] = run[r]
<1>1. filed \in Nat
  BY ScoreNumbers DEF ScoreInv, ScoreType
<1> QED
  BY <1>1 DEF ScoreInv, ScoreStands, ScoreFresh, OneLoose, Loose, Existing

LEMMA AnalystLooks ==
    ASSUME ScoreInv, UNCHANGED <<runDay, run, scored, objection, filed, sweep, thawed>>,
           NEW a \in Analysts, OneAnalyst(a), AnalystFits(a)'
    PROVE  ScoreInv'
<1>1. ScoreType'
  BY DEF ScoreInv, ScoreType, OneAnalyst
<1>2. \A b \in Analysts : analyst'[b] = analyst[b] \/ AnalystFits(b)'
  BY DEF OneAnalyst
<1> QED
  BY <1>1, <1>2, ScoreLooks, ScoreKeeps

LEMMA NextScoreInv == ScoreInv /\ [ScoreRunsNext]_runVars => ScoreInv'
<1> SUFFICES ASSUME ScoreInv, [ScoreRunsNext]_runVars PROVE ScoreInv'
  OBVIOUS
<1> USE ScoreNumbers
<1>0. /\ ScoreType /\ ScoreFresh /\ SweepFits /\ OneLoose
      /\ runDay \in 0..MaxRunDay
      /\ run \in [RunIds -> RunRow \cup {None}] /\ scored \in 0..MaxRuns
      /\ objection \in [ObjectionIds -> ObjectionRow \cup {None}] /\ filed \in 0..MaxObjections
      /\ filed \in Nat /\ scored \in Nat
      /\ analyst \in [Analysts -> AnalystJob] /\ sweep \in SweepJob
  BY DEF ScoreInv, ScoreType
<1>f. \A a \in Analysts : AnalystFits(a)
  BY DEF ScoreInv
<1>r. /\ Runs = {r \in RunIds : run[r] # None}
      /\ Objections = {o \in ObjectionIds : objection[o] # None}
  BY <1>0 DEF Runs, Objections, Present
\* A run is written by its number.
<1>w. ASSUME NEW r, Existing(r), NEW row \in RunRow, run' = [run EXCEPT ![r] = row],
             UNCHANGED <<runDay, scored, objection, filed>>, NEW a \in Analysts, OneAnalyst(a),
             AnalystFits(a)', sweep' \in SweepJob, sweep' = sweep \/ SweepFits',
             \/ row.status = "FINALIZED" /\ thawed' = thawed \ {r}
             \/ row.status = "FROZEN" /\ run[r].status = "FINALIZED" /\ thawed' = thawed \cup {r}
             \/ row.status = "FROZEN" /\ run[r].status # "FINALIZED" /\ thawed' = thawed,
             row.status = "FINALIZED" /\ row.seen # None =>
                row.seen \in 0..filed /\ AnsweredTo(r, row.seen)
      PROVE  ScoreInv'
  <2>1. /\ r \in RunIds /\ run[r] # None
        /\ run' \in [RunIds -> RunRow \cup {None}]
        /\ run'[r] = row /\ row # None
        /\ \A s \in RunIds : s # r => run'[s] = run[s]
    BY <1>0, <1>w DEF Existing
  <2>2. ScoreType'
    BY <1>0, <1>w, <2>1 DEF ScoreType, OneAnalyst
  <2>3. ScoreStands /\ ScoreFresh'
    BY <1>0, <1>w, <2>1 DEF ScoreStands, ScoreFresh, Existing
  <2>4. OneLoose'
    BY <1>0, <1>w, <2>1 DEF OneLoose, Loose, Existing
  <2>5. RunFits(r)'
    <3>1. CASE row.status = "FINALIZED" /\ row.seen # None
      <4>1. PICK n : n = row.seen
        OBVIOUS
      <4>2. n \in 0..filed' /\ AnsweredTo(r, n)'
        BY <1>0, <1>w, <2>3, <3>1, <4>1, AnswersStand
      <4> QED
        BY <2>1, <4>1, <4>2 DEF RunFits, AnsweredTo
    <3>2. CASE ~(row.status = "FINALIZED" /\ row.seen # None)
      BY <2>1, <3>2 DEF RunFits
    <3> QED
      BY <3>1, <3>2
  <2>6. /\ \A s \in RunIds : run'[s] = run[s] \/ RunFits(s)'
        /\ \A b \in Analysts : analyst'[b] = analyst[b] \/ AnalystFits(b)'
    BY <1>w, <2>1, <2>5 DEF OneAnalyst
  <2> QED
    BY <1>w, <2>2, <2>3, <2>4, <2>6, ScoreKeeps
<1>1. CASE UNCHANGED runVars
  BY <1>1 DEF runVars, ScoreInv, ScoreType, ScoreFresh, SweepFits, OneLoose, Loose, AnalystFits,
     RunFits, AnsweredTo, Existing
<1>2. CASE RunTick
  <2>1. UNCHANGED <<run, scored, objection, filed, analyst, sweep, thawed>>
        /\ runDay' \in 0..MaxRunDay
    BY <1>0, <1>2 DEF RunTick
  <2> QED
    BY <2>1 DEF ScoreInv, ScoreType, ScoreFresh, SweepFits, OneLoose, Loose, AnalystFits,
       RunFits, AnsweredTo, Existing
<1>3. ASSUME NEW a \in Analysts, NEW s \in {"SHADOW", "ACTIVE"}, CreateRunRead(a, s)
      PROVE  ScoreInv'
  <2>1. Doing(a, "score", None, s) /\ UNCHANGED <<runDay, run, scored, objection, filed, sweep, thawed>>
    BY <1>3 DEF CreateRunRead
  <2>2. OneAnalyst(a) /\ analyst'[a].pc = "score"
    BY <1>0, <2>1, AnalystMoves
  <2> QED
    BY <2>1, <2>2, AnalystLooks DEF AnalystFits
<1>4. ASSUME NEW a \in Analysts, CreateRun(a) PROVE ScoreInv'
  <2>1. OneAnalyst(a) /\ analyst'[a].pc = "idle"
    BY <1>0, <1>4, AnalystRests DEF CreateRun
  <2>2. AnalystFits(a)' /\ UNCHANGED <<runDay, objection, filed, sweep, thawed>>
    BY <1>4, <2>1 DEF AnalystFits, CreateRun
  <2>3. CASE UNCHANGED <<run, scored>>
    BY <2>1, <2>2, <2>3, AnalystLooks
  <2>4. CASE /\ MayStore /\ scored < MaxRuns /\ scored' = scored + 1
             /\ run' = [run EXCEPT ![scored + 1] =
                          [status |-> IF analyst[a].as = "SHADOW" THEN "SHADOW" ELSE "RUNNING",
                           frozen |-> None, seen |-> None]]
    <3> DEFINE n == scored + 1
    <3>1. n \in RunIds /\ n \in 0..MaxRuns /\ scored' = n
      BY <1>0, <2>4 DEF RunIds
    <3>2. PICK row \in RunRow : run' = [run EXCEPT ![n] = row] /\ row.status # "FINALIZED"
      <4>1. PICK s \in {"SHADOW", "RUNNING"} :
              run' = [run EXCEPT ![n] = [status |-> s, frozen |-> None, seen |-> None]]
        BY <2>4
      <4>2. [status |-> s, frozen |-> None, seen |-> None] \in RunRow
        BY DEF RunRow
      <4> QED
        BY <4>1, <4>2
    <3>3. \A r \in RunIds : run[r] # None => run[r].status = "FINALIZED" /\ r # n
      BY <1>0, <1>r, <2>4 DEF MayStore, OpenRuns, ScoreFresh
    <3> HIDE DEF n
    <3>4. /\ run' \in [RunIds -> RunRow \cup {None}]
          /\ run'[n] = row /\ row # None
          /\ \A r \in RunIds : r # n => run'[r] = run[r]
      BY <1>0, <3>1, <3>2
    <3>5. ScoreType'
      BY <1>0, <2>1, <2>2, <3>1, <3>4 DEF ScoreType, OneAnalyst
    <3>6. ScoreStands
      BY <1>0, <2>2, <3>1, <3>3, <3>4 DEF ScoreStands
    <3>7. ScoreFresh'
      BY <1>0, <2>2, <2>4, <3>1, <3>4 DEF ScoreFresh, Existing
    <3>8. OneLoose'
      BY <1>0, <3>1, <3>3, <3>4 DEF OneLoose, Loose
    <3>9. /\ \A s \in RunIds : run'[s] = run[s] \/ RunFits(s)'
          /\ \A b \in Analysts : analyst'[b] = analyst[b] \/ AnalystFits(b)'
      BY <2>1, <2>2, <3>1, <3>2, <3>4 DEF OneAnalyst, RunFits
    <3> QED
      BY <2>2, <3>5, <3>6, <3>7, <3>8, <3>9, ScoreKeeps
  <2> QED
    BY <1>4, <2>3, <2>4 DEF CreateRun
<1>5. ASSUME NEW a \in Analysts, NEW r \in RunIds,
             FreezeRead(a, r) \/ FinalizeRead(a, r) \/ RecalculateRead(a, r)
      PROVE  ScoreInv'
  <2>1. /\ UNCHANGED <<runDay, run, scored, objection, filed, sweep, thawed>>
        /\ \/ Doing(a, "freeze", r, None) \/ Doing(a, "count", r, None)
           \/ Doing(a, "recalculate", r, None)
    BY <1>5 DEF FreezeRead, FinalizeRead, RecalculateRead
  <2>2. Existing(r)
    BY <1>0, <1>5, <1>r DEF FreezeRead, FinalizeRead, RecalculateRead, Existing, ScoreFresh
  <2>3. /\ OneAnalyst(a) /\ analyst'[a].pc \in {"freeze", "count", "recalculate"}
        /\ analyst'[a].on = r
    BY <1>0, <2>1, AnalystMoves
  <2>4. AnalystFits(a)'
    BY <2>1, <2>2, <2>3 DEF AnalystFits, Existing
  <2> QED
    BY <2>1, <2>3, <2>4, AnalystLooks
<1>6. ASSUME NEW a \in Analysts, Freeze(a) PROVE ScoreInv'
  <2>1. PICK r : r = analyst[a].on
    OBVIOUS
  <2>2. Existing(r) /\ run[r] \in RunRow
    BY <1>0, <1>f, <1>6, <2>1 DEF Freeze, AnalystFits, Existing
  <2>3. PICK row \in RunRow : run' = [run EXCEPT ![r] = row] /\ row.status = "FROZEN"
    <3>1. run' = [run EXCEPT ![r] = [run[r] EXCEPT !.status = "FROZEN", !.frozen = runDay]]
      BY <1>6, <2>1 DEF Freeze
    <3>2. [run[r] EXCEPT !.status = "FROZEN", !.frozen = runDay] \in RunRow
      BY <1>0, <2>2 DEF RunRow
    <3>3. [run[r] EXCEPT !.status = "FROZEN", !.frozen = runDay].status = "FROZEN"
      BY <2>2 DEF RunRow
    <3> QED
      BY <3>1, <3>2, <3>3
  <2>4. OneAnalyst(a) /\ analyst'[a].pc = "idle"
    BY <1>0, <1>6, AnalystRests DEF Freeze
  <2>5. AnalystFits(a)' /\ UNCHANGED <<runDay, scored, objection, filed, sweep>>
        /\ thawed' = IF run[r].status = "FINALIZED" THEN thawed \cup {r} ELSE thawed
    BY <1>6, <2>1, <2>4 DEF AnalystFits, Freeze
  <2> QED
    BY <1>0, <1>w, <2>2, <2>3, <2>4, <2>5
<1>7. ASSUME NEW a \in Analysts, FinalizeCount(a) PROVE ScoreInv'
  <2>1. PICK r : r = analyst[a].on
    OBVIOUS
  <2>2. /\ UNCHANGED <<runDay, run, scored, objection, filed, sweep, thawed>>
        /\ \/ Unanswered(r) = {} /\ Doing(a, "finalize", r, filed)
           \/ Finished(a)
    BY <1>7, <2>1 DEF FinalizeCount
  <2>3. Existing(r)
    BY <1>f, <1>7, <2>1 DEF FinalizeCount, AnalystFits
  <2>4. CASE Finished(a)
    <3>1. OneAnalyst(a) /\ analyst'[a].pc = "idle"
      BY <1>0, <2>4, AnalystRests
    <3>2. AnalystFits(a)'
      BY <3>1 DEF AnalystFits
    <3> QED
      BY <2>2, <3>1, <3>2, AnalystLooks
  <2>5. CASE Unanswered(r) = {} /\ Doing(a, "finalize", r, filed)
    <3>1. /\ OneAnalyst(a) /\ analyst'[a].pc = "finalize"
          /\ analyst'[a].on = r /\ analyst'[a].as = filed
      BY <1>0, <2>3, <2>5, AnalystMoves DEF Existing
    <3>2. AnsweredTo(r, filed)
      BY <1>r, <2>5 DEF Unanswered, AnsweredTo
    <3>3. AnalystFits(a)'
      BY <1>0, <2>2, <2>3, <3>1, <3>2 DEF AnalystFits, AnsweredTo, Existing
    <3> QED
      BY <2>2, <3>1, <3>3, AnalystLooks
  <2> QED
    BY <2>2, <2>4, <2>5
\* A run becomes final.
<1>e. ASSUME NEW r, Existing(r), NEW n \in (0..MaxObjections) \cup {None}, Finalized(r, n)
      PROVE  \E row \in RunRow : /\ run' = [run EXCEPT ![r] = row]
                                 /\ row.status = "FINALIZED" /\ row.seen = n
  <2>1. run[r] \in RunRow
    BY <1>0, <1>e DEF Existing
  <2>2. run' = [run EXCEPT ![r] = [run[r] EXCEPT !.status = "FINALIZED", !.seen = n]]
    BY <1>e DEF Finalized
  <2>3. /\ [run[r] EXCEPT !.status = "FINALIZED", !.seen = n] \in RunRow
        /\ [run[r] EXCEPT !.status = "FINALIZED", !.seen = n].status = "FINALIZED"
        /\ [run[r] EXCEPT !.status = "FINALIZED", !.seen = n].seen = n
    BY <2>1 DEF RunRow
  <2> QED
    BY <2>2, <2>3
<1>8. ASSUME NEW a \in Analysts, Finalize(a) PROVE ScoreInv'
  <2>1. PICK r, n : r = analyst[a].on /\ n = analyst[a].as
    OBVIOUS
  <2>2. /\ Finalized(r, n) /\ Finished(a) /\ UNCHANGED <<runDay, scored, objection, filed, sweep>>
        /\ Existing(r) /\ n \in 0..filed /\ AnsweredTo(r, n)
    BY <1>f, <1>8, <2>1 DEF Finalize, AnalystFits
  <2>3. PICK row \in RunRow : /\ run' = [run EXCEPT ![r] = row]
                             /\ row.status = "FINALIZED" /\ row.seen = n
    BY <1>0, <1>e, <2>2
  <2>4. OneAnalyst(a) /\ analyst'[a].pc = "idle"
    BY <1>0, <2>2, AnalystRests
  <2>5. AnalystFits(a)' /\ thawed' = thawed \ {r}
    BY <2>2, <2>4 DEF AnalystFits, Finalized
  <2> QED
    BY <1>0, <1>w, <2>2, <2>3, <2>4, <2>5
<1>9. ASSUME NEW a \in Analysts, Recalculate(a) PROVE ScoreInv'
  <2>1. PICK r : r = analyst[a].on
    OBVIOUS
  <2>2. /\ Finalized(r, None) /\ Doing(a, "again", None, None)
        /\ UNCHANGED <<runDay, scored, objection, filed, sweep>> /\ Existing(r)
    BY <1>f, <1>9, <2>1 DEF Recalculate, AnalystFits
  <2>3. PICK row \in RunRow : /\ run' = [run EXCEPT ![r] = row]
                             /\ row.status = "FINALIZED" /\ row.seen = None
    BY <1>0, <1>e, <2>2
  <2>4. OneAnalyst(a) /\ analyst'[a].pc = "again"
    BY <1>0, <2>2, AnalystMoves
  <2>5. AnalystFits(a)' /\ thawed' = thawed \ {r}
    BY <2>2, <2>4 DEF AnalystFits, Finalized
  <2> QED
    BY <1>0, <1>w, <2>2, <2>3, <2>4, <2>5
<1>10. ASSUME NEW a \in Analysts, NEW o \in ObjectionIds, NEW answer \in {"ACCEPTED", "REJECTED"},
              ResolveRead(a, o, answer)
       PROVE  ScoreInv'
  <2>1. /\ UNCHANGED <<runDay, run, scored, objection, filed, sweep, thawed>>
        /\ Doing(a, "resolve", o, answer) /\ objection[o] # None
    BY <1>10, <1>r DEF ResolveRead
  <2>2. /\ OneAnalyst(a) /\ analyst'[a].pc = "resolve"
        /\ analyst'[a].on = o /\ analyst'[a].as = answer
    BY <1>0, <2>1, AnalystMoves
  <2>3. AnalystFits(a)'
    BY <2>1, <2>2 DEF AnalystFits
  <2> QED
    BY <2>1, <2>2, <2>3, AnalystLooks
<1>11. ASSUME NEW a \in Analysts, Resolve(a) PROVE ScoreInv'
  <2>1. PICK o, answer : o = analyst[a].on /\ answer = analyst[a].as
    OBVIOUS
  <2>2. /\ Finished(a) /\ UNCHANGED <<runDay, run, scored, filed, sweep, thawed>>
        /\ o \in ObjectionIds /\ objection[o] # None /\ answer \in {"ACCEPTED", "REJECTED"}
        /\ objection' = [objection EXCEPT ![o] = [objection[o] EXCEPT !.status = answer]]
    BY <1>f, <1>11, <2>1 DEF Resolve, AnalystFits
  <2>3. PICK row \in ObjectionRow : /\ objection' = [objection EXCEPT ![o] = row]
                                   /\ row.status # "OPEN" /\ row.on = objection[o].on
    <3>1. objection[o] \in ObjectionRow
      BY <1>0, <2>2
    <3>2. /\ [objection[o] EXCEPT !.status = answer] \in ObjectionRow
          /\ [objection[o] EXCEPT !.status = answer].status = answer
          /\ [objection[o] EXCEPT !.status = answer].on = objection[o].on
      BY <2>2, <3>1 DEF ObjectionRow
    <3> QED
      BY <2>2, <3>2
  <2>4. /\ objection' \in [ObjectionIds -> ObjectionRow \cup {None}]
        /\ objection'[o] = row /\ row # None
        /\ \A p \in ObjectionIds : p # o => objection'[p] = objection[p]
    BY <1>0, <2>2, <2>3
  <2>5. OneAnalyst(a) /\ analyst'[a].pc = "idle"
    BY <1>0, <2>2, AnalystRests
  <2>6. ScoreType'
    BY <1>0, <2>2, <2>4, <2>5 DEF ScoreType, OneAnalyst
  <2>7. ScoreStands
    BY <1>0, <2>2, <2>3, <2>4 DEF ScoreStands
  <2>8. ScoreFresh'
    BY <1>0, <2>2, <2>3, <2>4 DEF ScoreFresh, Existing
  <2>9. OneLoose' /\ (\A r \in RunIds : run'[r] = run[r])
    BY <1>0, <2>2 DEF OneLoose, Loose
  <2>10. \A b \in Analysts : analyst'[b] = analyst[b] \/ AnalystFits(b)'
    BY <2>5 DEF OneAnalyst, AnalystFits
  <2> QED
    BY <2>2, <2>6, <2>7, <2>8, <2>9, <2>10, ScoreKeeps
<1>12. ASSUME NEW a \in Analysts, AnalystDies(a) PROVE ScoreInv'
  <2>1. /\ UNCHANGED <<runDay, run, scored, objection, filed, sweep, thawed>>
        /\ Finished(a)
    BY <1>12 DEF AnalystDies
  <2>2. OneAnalyst(a) /\ analyst'[a].pc = "idle"
    BY <1>0, <2>1, AnalystRests
  <2>3. AnalystFits(a)'
    BY <2>2 DEF AnalystFits
  <2> QED
    BY <2>1, <2>2, <2>3, AnalystLooks
<1>13. ASSUME NEW r \in RunIds, FileObjection(r) PROVE ScoreInv'
  <2> DEFINE n == filed + 1
  <2>1. /\ n \in ObjectionIds /\ n \in 0..MaxObjections /\ filed' = n
        /\ UNCHANGED <<runDay, run, scored, analyst, sweep, thawed>> /\ Existing(r)
    BY <1>0, <1>r, <1>13 DEF FileObjection, ObjectionIds, Existing
  <2>2. PICK row \in ObjectionRow : objection' = [objection EXCEPT ![n] = row] /\ row.on = r
    <3>1. [on |-> r, status |-> "OPEN"] \in ObjectionRow
      BY DEF ObjectionRow
    <3> QED
      BY <1>13, <3>1 DEF FileObjection
  <2>3. objection[n] = None
    BY <1>0, <2>1 DEF ScoreFresh
  <2> HIDE DEF n
  <2>4. /\ objection' \in [ObjectionIds -> ObjectionRow \cup {None}]
        /\ objection'[n] = row /\ row # None
        /\ \A p \in ObjectionIds : p # n => objection'[p] = objection[p]
    BY <1>0, <2>1, <2>2
  <2>5. ScoreType'
    BY <1>0, <2>1, <2>4 DEF ScoreType
  <2>6. n > filed
    BY <1>0 DEF n
  <2>7. ScoreStands
    BY <1>0, <2>1, <2>3, <2>4, <2>6 DEF ScoreStands
  <2>8. ScoreFresh'
    BY <1>0, <2>1, <2>2, <2>4, <2>6 DEF ScoreFresh, Existing
  <2>9. OneLoose' /\ (\A s \in RunIds : run'[s] = run[s])
        /\ (\A b \in Analysts : analyst'[b] = analyst[b])
    BY <1>0, <2>1 DEF OneLoose, Loose
  <2> QED
    BY <2>1, <2>5, <2>7, <2>8, <2>9, ScoreKeeps
\* The job looks, or ends.
<1>s. ASSUME sweep' \in SweepJob, SweepFits',
             UNCHANGED <<runDay, run, scored, objection, filed, analyst, thawed>>
      PROVE  ScoreInv'
  <2>1. ScoreType'
    BY <1>0, <1>s DEF ScoreType
  <2> QED
    BY <1>s, <2>1, ScoreLooks, ScoreKeeps
<1>14. CASE AutoFinalizeList
  <2>1. /\ UNCHANGED <<runDay, run, scored, objection, filed, analyst, thawed>>
        /\ sweep' = [pc |-> "count", list |-> {r \in Runs : Overdue(r)}, on |-> None, as |-> None]
    BY <1>14 DEF AutoFinalizeList
  <2>2. sweep' \in SweepJob /\ sweep'.pc = "count" /\ sweep'.list \subseteq Runs
    BY <1>r, <2>1 DEF SweepJob
  <2>3. SweepFits'
    BY <1>r, <2>1, <2>2 DEF SweepFits, Existing
  <2> QED
    BY <1>s, <2>1, <2>2, <2>3
<1>15. CASE AutoFinalizeCount
  <2>1. PICK r \in sweep.list :
          sweep' = IF Undisputed(r)
                   THEN [sweep EXCEPT !.pc = "write", !.on = r, !.as = filed]
                   ELSE [sweep EXCEPT !.list = @ \ {r}]
    BY <1>15 DEF AutoFinalizeCount
  <2>2. /\ UNCHANGED <<runDay, run, scored, objection, filed, analyst, thawed>>
        /\ sweep.pc = "count" /\ Existing(r)
    BY <1>0, <1>15 DEF AutoFinalizeCount, SweepFits
  <2>3. CASE Undisputed(r)
    <3>1. AnsweredTo(r, filed)
      BY <1>r, <2>3 DEF Undisputed, Unanswered, AnsweredTo
    <3>2. /\ sweep' \in SweepJob /\ sweep'.pc = "write" /\ sweep'.list = sweep.list
          /\ sweep'.on = r /\ sweep'.as = filed
      BY <1>0, <2>1, <2>2, <2>3 DEF SweepJob, Existing
    <3>3. SweepFits'
      BY <1>0, <2>2, <3>1, <3>2 DEF SweepFits, Existing, AnsweredTo
    <3> QED
      BY <1>s, <2>2, <3>2, <3>3
  <2>4. CASE ~Undisputed(r)
    <3>1. sweep' \in SweepJob /\ sweep'.pc = "count" /\ sweep'.list \subseteq sweep.list
      BY <1>0, <2>1, <2>2, <2>4 DEF SweepJob
    <3>2. SweepFits'
      BY <1>0, <2>2, <3>1 DEF SweepFits, Existing
    <3> QED
      BY <1>s, <2>2, <3>1, <3>2
  <2> QED
    BY <2>3, <2>4
<1>16. CASE AutoFinalizeEnds
  <2>1. Idling \in SweepJob /\ Idling.pc = "idle" /\ Idling.list = {}
    BY DEF Idling, SweepJob
  <2>2. /\ UNCHANGED <<runDay, run, scored, objection, filed, analyst, thawed>>
        /\ sweep' \in SweepJob /\ SweepFits'
    BY <1>16, <2>1 DEF AutoFinalizeEnds, SweepFits
  <2> QED
    BY <1>s, <2>2
<1>17. CASE AutoFinalizeWrite
  <2>1. PICK r, n : r = sweep.on /\ n = sweep.as
    OBVIOUS
  <2>2. /\ Finalized(r, n) /\ UNCHANGED <<runDay, scored, objection, filed, analyst>>
        /\ Existing(r) /\ n \in 0..filed /\ AnsweredTo(r, n)
    BY <1>0, <1>17, <2>1 DEF AutoFinalizeWrite, SweepFits
  <2>3. PICK row \in RunRow : /\ run' = [run EXCEPT ![r] = row]
                             /\ row.status = "FINALIZED" /\ row.seen = n
    BY <1>0, <1>e, <2>2
  <2>4. sweep' = [sweep EXCEPT !.pc = "count", !.list = @ \ {sweep.on}, !.on = None, !.as = None]
    BY <1>17 DEF AutoFinalizeWrite
  <2>5. sweep' \in SweepJob /\ sweep'.pc = "count" /\ sweep'.list \subseteq sweep.list
    BY <1>0, <2>4 DEF SweepJob
  <2>6. /\ r \in RunIds /\ run' \in [RunIds -> RunRow \cup {None}]
        /\ run'[r] = row /\ row # None
        /\ \A s \in RunIds : s # r => run'[s] = run[s]
    BY <1>0, <2>2, <2>3 DEF Existing
  <2>7. ScoreType'
    BY <1>0, <2>2, <2>5, <2>6 DEF ScoreType
  <2>8. ScoreStands /\ ScoreFresh'
    <3>1. objection' = objection /\ filed' = filed /\ scored' = scored
      BY <2>2
    <3>2. ScoreStands
      BY <1>0, <2>6, <3>1 DEF ScoreStands
    <3>3. \A s \in RunIds : s > scored => run'[s] = None
      BY <1>0, <2>2, <2>6 DEF ScoreFresh, Existing
    <3>4. \A s : Existing(s) => Existing(s)'
      BY <2>6 DEF Existing
    <3>5. \A o \in ObjectionIds : objection[o] # None => run'[objection[o].on] # None
      BY <1>0, <3>4 DEF ScoreFresh, Existing
    <3> QED
      BY <1>0, <3>1, <3>2, <3>3, <3>5 DEF ScoreFresh, Existing
  <2>9. thawed' = thawed \ {r}
    BY <2>2 DEF Finalized
  <2>10. OneLoose'
    BY <1>0, <2>3, <2>6, <2>9 DEF OneLoose, Loose
  <2>11. SweepFits'
    BY <1>0, <2>5, <2>6 DEF SweepFits, Existing
  <2>12. AnsweredTo(r, n)'
    BY <1>0, <2>2, <2>8, AnswersStand
  <2>13. RunFits(r)'
    BY <1>0, <2>2, <2>3, <2>6, <2>12 DEF RunFits, AnsweredTo
  <2>14. /\ \A s \in RunIds : run'[s] = run[s] \/ RunFits(s)'
         /\ \A a \in Analysts : analyst'[a] = analyst[a]
    BY <2>2, <2>6, <2>13
  <2> QED
    BY <2>7, <2>8, <2>10, <2>11, <2>14, ScoreKeeps
<1> QED
  BY <1>1, <1>2, <1>3, <1>4, <1>5, <1>6, <1>7, <1>8, <1>9, <1>10, <1>11, <1>12, <1>13, <1>14,
     <1>15, <1>16, <1>17 DEF ScoreRunsNext

LEMMA ScoreAlways == ScoreRunsSpec => []ScoreInv
<1> QED
  BY InitScoreInv, NextScoreInv, PTL DEF ScoreRunsSpec

\* Neither the administrator's finalization nor the daily job passes over an
\* objection that was on file when it counted (finalizeScoreRun,
\* autoFinalizeStaleFrozenRuns).
THEOREM FinalRunsAreAnswered == ScoreRunsSpec => []AnsweredWhenFinal
<1>1. ScoreInv => AnsweredWhenFinal
  BY DEF ScoreInv, ScoreType, RunFits, AnsweredTo, AnsweredWhenFinal, Runs, Objections, Present,
     Unanswered
<1> QED
  BY <1>1, ScoreAlways, PTL

\* A policy and month has one run that is not final, but for those that a freeze
\* reopened behind their finalization (createScoreRun).
THEOREM OneRunIsOpen == ScoreRunsSpec => []OneOpenRun
<1>1. ScoreInv => OneOpenRun
  <2> SUFFICES ASSUME ScoreInv PROVE OneOpenRun
    OBVIOUS
  <2> DEFINE L == OpenRuns \ thawed
  <2>1. \A r, s \in L : r = s
    BY DEF ScoreInv, ScoreType, OneLoose, Loose, OpenRuns, Runs, Present
  <2>2. L = {} \/ \E r : L = {r}
    BY <2>1
  <2> HIDE DEF L
  <2>3. Cardinality(L) <= 1
    BY <2>2, FS_EmptySet, FS_Singleton
  <2> QED
    BY <2>3 DEF L, OneOpenRun
<1> QED
  BY <1>1, ScoreAlways, PTL

-----------------------------------------------------------------------------
(* Inbound sessions *)

OfficeJob == [pc : {"idle", "upload", "APPROVED", "REJECTED"}, on : SessionIds \cup {None},
              missed : BOOLEAN]

Decided == {"PENDING", "APPROVED", "REJECTED"}

InboundType ==
    /\ session \in [SessionIds -> Decided \cup {None}]
    /\ stored \in 0..MaxSessions
    /\ byHand \in Nat /\ crossed \in Nat
    /\ office \in [Offices -> OfficeJob]

InboundFresh == \A s \in SessionIds : s > stored => session[s] = None

\* An upload that found nothing and missed nothing is right: there is nothing.
UploadFits(c) ==
    office[c].pc = "upload" /\ office[c].on = None /\ ~office[c].missed => Sessions = {}

\* Inductive.
InboundInv ==
    /\ InboundType /\ InboundFresh /\ UploadReplaces
    /\ \A c \in Offices : UploadFits(c)

LEMMA InboundNumbers ==
    /\ MaxSessions \in Nat /\ MaxByHand \in Nat /\ SessionIds \subseteq Nat
    /\ IsFiniteSet(SessionIds)
    /\ None \notin Nat /\ None \notin SessionIds /\ None \notin Decided
<1>1. IsFiniteSet(1..MaxSessions)
  BY InboundAssumption, FS_Interval
<1> QED
  BY <1>1, InboundAssumption, NullAssumption DEF SessionIds, Decided

LEMMA SessionSets ==
    ASSUME InboundType
    PROVE  /\ Sessions = {s \in SessionIds : session[s] # None}
           /\ IsFiniteSet(Sessions) /\ Cardinality(Sessions) \in Nat
           /\ stored \in Nat /\ byHand \in Nat /\ crossed \in Nat
<1>1. Sessions = {s \in SessionIds : session[s] # None} /\ stored \in Nat
  BY InboundNumbers DEF InboundType, Sessions, Present
<1> QED
  BY <1>1, InboundNumbers, CountPart DEF InboundType

LEMMA InitInboundInv == InboundInit => InboundInv
<1> SUFFICES ASSUME InboundInit PROVE InboundInv
  OBVIOUS
<1> USE InboundNumbers
<1>1. AtRest \in OfficeJob /\ AtRest.pc = "idle"
  BY DEF AtRest, OfficeJob
<1>2. InboundType /\ InboundFresh /\ \A c \in Offices : UploadFits(c)
  BY <1>1 DEF InboundInit, InboundType, InboundFresh, UploadFits
<1>3. Sessions = {}
  BY <1>2, SessionSets DEF InboundInit
<1>4. UploadReplaces
  BY <1>3, FS_EmptySet DEF InboundInit, UploadReplaces
<1> QED
  BY <1>2, <1>4 DEF InboundInv

\* The table keeps its rows.
LEMMA SessionsStay ==
    ASSUME InboundInv, session' \in [SessionIds -> Decided \cup {None}],
           \A s \in SessionIds : session'[s] = None <=> session[s] = None,
           UNCHANGED <<stored, byHand, crossed>>,
           office' \in [Offices -> OfficeJob],
           \A c \in Offices : office'[c] = office[c] \/ UploadFits(c)'
    PROVE  InboundInv'
<1>1. InboundType' /\ InboundFresh'
  BY DEF InboundInv, InboundType, InboundFresh
<1>2. Sessions' = Sessions
  <2>1. InboundType
    BY DEF InboundInv
  <2>2. Sessions' = {s \in SessionIds : session'[s] # None}
    BY DEF Sessions, Present
  <2> QED
    BY <2>1, <2>2, SessionSets
<1>3. UploadReplaces'
  BY <1>2 DEF InboundInv, UploadReplaces
<1>4. \A c \in Offices : UploadFits(c)'
  BY <1>2 DEF InboundInv, UploadFits
<1> QED
  BY <1>1, <1>3, <1>4 DEF InboundInv

\* The table without the sessions in gone.
Drops(table, gone) == \A s \in SessionIds : table[s] = IF s \in gone THEN None ELSE session[s]

\* A session is added, in the place of the one in gone, if any.
LEMMA SessionStored ==
    ASSUME InboundInv, NEW gone \in SUBSET SessionIds, NEW table,
           table \in [SessionIds -> Decided \cup {None}],
           Drops(table, gone), StoreSession(table)
    PROVE  /\ session' \in [SessionIds -> Decided \cup {None}]
           /\ stored' \in 0..MaxSessions /\ stored' = stored + 1
           /\ stored + 1 \in SessionIds /\ stored + 1 \notin Sessions
           /\ {s \in SessionIds : session'[s] # None} = (Sessions \ gone) \cup {stored + 1}
           /\ \A s \in SessionIds : s > stored' => session'[s] = None
<1> USE InboundNumbers
<1>0. InboundType /\ InboundFresh /\ stored \in Nat
      /\ Sessions = {s \in SessionIds : session[s] # None}
  BY SessionSets DEF InboundInv
<1> DEFINE n == stored + 1
<1>1. /\ n \in SessionIds /\ n \in 0..MaxSessions /\ stored' = n /\ n > stored
      /\ session' = [table EXCEPT ![n] = "PENDING"]
  BY <1>0 DEF InboundType, StoreSession, SessionIds
<1>2. session[n] = None /\ n \notin Sessions
  BY <1>0, <1>1 DEF InboundFresh
<1>3. \A s \in SessionIds : s > stored => table[s] = None
  BY <1>0 DEF InboundFresh, Drops
<1>t. /\ "PENDING" \in Decided
      /\ \A s \in SessionIds : table[s] = IF s \in gone THEN None ELSE session[s]
      /\ table \in [SessionIds -> Decided \cup {None}]
  BY DEF Decided, Drops
<1> HIDE DEF n
<1>4. /\ session' \in [SessionIds -> Decided \cup {None}]
      /\ session'[n] = "PENDING" /\ session'[n] # None
      /\ \A s \in SessionIds : s # n => session'[s] = table[s]
  BY <1>1, <1>t
<1>5. {s \in SessionIds : session'[s] # None} = (Sessions \ gone) \cup {n}
  BY <1>0, <1>1, <1>t, <1>4
<1>6. \A s \in SessionIds : s > n => session'[s] = None
  <2>1. \A s \in SessionIds : s > n => s > stored /\ s # n
    BY <1>0 DEF n
  <2> QED
    BY <1>3, <1>4, <2>1
<1> QED
  BY <1>1, <1>2, <1>4, <1>5, <1>6 DEF n

LEMMA NextInboundInv == InboundInv /\ [InboundNext]_inboundVars => InboundInv'
<1> SUFFICES ASSUME InboundInv, [InboundNext]_inboundVars PROVE InboundInv'
  OBVIOUS
<1> USE InboundNumbers
<1>0. /\ InboundType /\ InboundFresh
      /\ session \in [SessionIds -> Decided \cup {None}] /\ stored \in 0..MaxSessions
      /\ office \in [Offices -> OfficeJob]
  BY DEF InboundInv, InboundType
<1>s. /\ Sessions = {s \in SessionIds : session[s] # None}
      /\ IsFiniteSet(Sessions) /\ Cardinality(Sessions) \in Nat
      /\ stored \in Nat /\ byHand \in Nat /\ crossed \in Nat
  BY <1>0, SessionSets
<1>u. /\ \A c \in Offices : UploadFits(c)
      /\ Cardinality(Sessions) <= 1 + byHand + crossed
  BY DEF InboundInv, UploadReplaces
<1>i. AtRest \in OfficeJob /\ AtRest.pc = "idle"
  BY DEF AtRest, OfficeJob
\* A call is done.
<1>l. ASSUME NEW c \in Offices, Leaves(c)
      PROVE  /\ office' \in [Offices -> OfficeJob] /\ office'[c].pc = "idle"
             /\ \A d \in Offices : d # c => office'[d] = office[d]
  BY <1>0, <1>i, <1>l DEF Leaves
<1>m. ASSUME NEW c \in Offices, NEW d \in Offices
      PROVE  /\ Missing(c) \in [Offices -> OfficeJob]
             /\ Missing(c)[d].pc = office[d].pc /\ Missing(c)[d].on = office[d].on
             /\ office[d].missed => Missing(c)[d].missed
             /\ d # c /\ office[d].pc = "upload" /\ office[d].on = None => Missing(c)[d].missed
  <2>1. \A e \in Offices : office[e] \in OfficeJob
    BY <1>0
  <2>2. \A e \in Offices : [office[e] EXCEPT !.missed = TRUE] \in OfficeJob
    BY <2>1 DEF OfficeJob
  <2>3. Missing(c) \in [Offices -> OfficeJob]
    BY <2>1, <2>2 DEF Missing
  <2>4. Missing(c)[d] = IF d # c /\ office[d].pc = "upload" /\ office[d].on = None
                        THEN [office[d] EXCEPT !.missed = TRUE] ELSE office[d]
    BY DEF Missing
  <2>5. /\ [office[d] EXCEPT !.missed = TRUE].pc = office[d].pc
        /\ [office[d] EXCEPT !.missed = TRUE].on = office[d].on
        /\ [office[d] EXCEPT !.missed = TRUE].missed
    BY <2>1 DEF OfficeJob
  <2> QED
    BY <2>3, <2>4, <2>5
<1>1. CASE UNCHANGED inboundVars
  BY <1>1 DEF inboundVars, InboundInv, InboundType, InboundFresh, UploadReplaces, UploadFits,
     Sessions, Present
<1>2. ASSUME NEW c \in Offices, CreateSession(c) PROVE InboundInv'
  <2>1. /\ byHand' = byHand + 1 /\ StoreSession(session) /\ office' = Missing(c)
        /\ crossed' = crossed /\ office[c].pc = "idle"
    BY <1>2, <1>i DEF CreateSession
  <2>2. /\ session' \in [SessionIds -> Decided \cup {None}]
        /\ stored' \in 0..MaxSessions
        /\ stored + 1 \notin Sessions
        /\ {s \in SessionIds : session'[s] # None} = (Sessions \ {}) \cup {stored + 1}
        /\ \A s \in SessionIds : s > stored' => session'[s] = None
    <3>1. Drops(session, {}) /\ {} \in SUBSET SessionIds
      BY DEF Drops
    <3> QED
      BY <1>0, <2>1, <3>1, SessionStored
  <2>3. InboundType' /\ InboundFresh'
    BY <1>m, <1>s, <2>1, <2>2 DEF InboundType, InboundFresh
  <2>4. Sessions' = Sessions \cup {stored + 1}
    <3>1. Sessions' = {s \in SessionIds : session'[s] # None}
      BY <2>2 DEF Sessions, Present
    <3> QED
      BY <2>2, <3>1
  <2>5. Cardinality(Sessions') = Cardinality(Sessions) + 1
    BY <1>s, <2>2, <2>4, CountNew
  <2>6. UploadReplaces'
    BY <1>s, <1>u, <2>1, <2>5 DEF UploadReplaces
  <2>7. \A d \in Offices : UploadFits(d)'
    BY <1>m, <2>1 DEF UploadFits
  <2> QED
    BY <2>3, <2>6, <2>7 DEF InboundInv
<1>3. ASSUME NEW c \in Offices, NEW s \in SessionIds, NEW to \in {"APPROVED", "REJECTED"},
             DecideRead(c, s, to)
      PROVE  InboundInv'
  <2>1. /\ UNCHANGED <<session, stored, byHand, crossed>>
        /\ office' = [office EXCEPT ![c] = [pc |-> to, on |-> s, missed |-> FALSE]]
    BY <1>3 DEF DecideRead
  <2>2. [pc |-> to, on |-> s, missed |-> FALSE] \in OfficeJob
    BY DEF OfficeJob
  <2>3. /\ office' \in [Offices -> OfficeJob] /\ office'[c].pc # "upload"
        /\ \A d \in Offices : d # c => office'[d] = office[d]
    BY <1>0, <2>1, <2>2
  <2> QED
    BY <1>0, <2>1, <2>3, SessionsStay DEF UploadFits
<1>4. ASSUME NEW c \in Offices, DecideWrite(c) PROVE InboundInv'
  <2>1. /\ UNCHANGED <<stored, byHand, crossed>> /\ Leaves(c)
        /\ session' = IF office[c].on \in Sessions
                      THEN [session EXCEPT ![office[c].on] = office[c].pc] ELSE session
        /\ office[c].pc \in Decided
    BY <1>4 DEF DecideWrite, Decided
  <2>2. /\ session' \in [SessionIds -> Decided \cup {None}]
        /\ \A s \in SessionIds : session'[s] = None <=> session[s] = None
    BY <1>0, <1>s, <2>1
  <2> QED
    BY <1>l, <2>1, <2>2, SessionsStay DEF UploadFits
<1>5. ASSUME NEW c \in Offices, UploadFind(c) PROVE InboundInv'
  <2>1. PICK s \in Sessions \cup {None} :
          /\ office' = [office EXCEPT ![c] = [pc |-> "upload", on |-> s, missed |-> FALSE]]
          /\ s = None => Sessions = {}
    BY <1>5, <1>s DEF UploadFind, Duplicate
  <2>2. UNCHANGED <<session, stored, byHand, crossed>>
    BY <1>5 DEF UploadFind
  <2>3. [pc |-> "upload", on |-> s, missed |-> FALSE] \in OfficeJob
    BY <1>s DEF OfficeJob
  <2>4. /\ office' \in [Offices -> OfficeJob] /\ office'[c].on = s
        /\ \A d \in Offices : d # c => office'[d] = office[d]
    BY <1>0, <2>1, <2>3
  <2>5. UploadFits(c)'
    BY <2>1, <2>2, <2>4 DEF UploadFits, Sessions, Present
  <2> QED
    BY <1>0, <2>2, <2>4, <2>5, SessionsStay
<1>6. ASSUME NEW c \in Offices, UploadReplace(c) PROVE InboundInv'
  <2>1. PICK g : g = office[c].on
    OBVIOUS
  <2>2. Leaves(c) /\ UNCHANGED <<byHand, crossed>>
        /\ IF g \in Sessions THEN StoreSession([session EXCEPT ![g] = None])
           ELSE UNCHANGED <<session, stored>>
    BY <1>6, <2>1 DEF UploadReplace
  <2>3. CASE g \notin Sessions
    BY <1>0, <1>l, <2>2, <2>3, SessionsStay DEF UploadFits
  <2>4. CASE g \in Sessions
    <3>1. PICK table : table = [session EXCEPT ![g] = None]
      OBVIOUS
    <3>2. /\ table \in [SessionIds -> Decided \cup {None}]
          /\ Drops(table, {g}) /\ StoreSession(table) /\ {g} \in SUBSET SessionIds
      BY <1>0, <1>s, <2>2, <2>4, <3>1 DEF Drops
    <3>3. /\ session' \in [SessionIds -> Decided \cup {None}]
          /\ stored' \in 0..MaxSessions
          /\ stored + 1 \notin Sessions
          /\ {s \in SessionIds : session'[s] # None} = (Sessions \ {g}) \cup {stored + 1}
          /\ \A s \in SessionIds : s > stored' => session'[s] = None
      BY <3>2, SessionStored
    <3>4. InboundType' /\ InboundFresh'
      BY <1>l, <1>s, <2>2, <3>3 DEF InboundType, InboundFresh
    <3>5. Sessions' = (Sessions \ {g}) \cup {stored + 1}
      <4>1. Sessions' = {s \in SessionIds : session'[s] # None}
        BY <3>3 DEF Sessions, Present
      <4> QED
        BY <3>3, <4>1
    <3>6. Cardinality(Sessions') <= Cardinality(Sessions)
      <4>1. /\ IsFiniteSet(Sessions \ {g}) /\ Cardinality(Sessions \ {g}) \in Nat
            /\ Cardinality(Sessions \ {g}) + 1 <= Cardinality(Sessions)
        BY <1>s, <2>4, CountLoss
      <4>2. Cardinality((Sessions \ {g}) \cup {stored + 1}) = Cardinality(Sessions \ {g}) + 1
        BY <3>3, <4>1, CountNew
      <4> QED
        BY <3>5, <4>1, <4>2
    <3>7. Cardinality(Sessions') \in Nat
      <4>1. Sessions' \subseteq SessionIds
        BY <3>3, <3>5
      <4> QED
        BY <4>1, InboundNumbers, CountPart
    <3>8. UploadReplaces'
      BY <1>s, <1>u, <2>2, <3>6, <3>7 DEF UploadReplaces
    <3>9. \A d \in Offices : UploadFits(d)'
      BY <1>l, <1>u, <2>2, <2>4 DEF UploadFits
    <3> QED
      BY <3>4, <3>8, <3>9 DEF InboundInv
  <2> QED
    BY <2>3, <2>4
<1>7. ASSUME NEW c \in Offices, UploadCreate(c) PROVE InboundInv'
  <2>1. /\ office[c].pc = "upload" /\ office[c].on = None /\ byHand' = byHand
        /\ StoreSession(session)
        /\ crossed' = IF office[c].missed THEN crossed + 1 ELSE crossed
        /\ office' = [Missing(c) EXCEPT ![c] = AtRest]
    BY <1>7 DEF UploadCreate
  <2>2. /\ session' \in [SessionIds -> Decided \cup {None}]
        /\ stored' \in 0..MaxSessions
        /\ stored + 1 \notin Sessions
        /\ {s \in SessionIds : session'[s] # None} = (Sessions \ {}) \cup {stored + 1}
        /\ \A s \in SessionIds : s > stored' => session'[s] = None
    <3>1. Drops(session, {}) /\ {} \in SUBSET SessionIds
      BY DEF Drops
    <3> QED
      BY <1>0, <2>1, <3>1, SessionStored
  <2>3. PICK missing : missing = Missing(c)
    OBVIOUS
  <2>4. /\ office' \in [Offices -> OfficeJob] /\ office'[c].pc = "idle"
        /\ \A d \in Offices : d # c => office'[d] = missing[d]
    BY <1>i, <1>m, <2>1, <2>3
  <2>5. InboundType' /\ InboundFresh'
    BY <1>s, <2>1, <2>2, <2>4 DEF InboundType, InboundFresh
  <2>6. Sessions' = Sessions \cup {stored + 1}
    <3>1. Sessions' = {s \in SessionIds : session'[s] # None}
      BY <2>2 DEF Sessions, Present
    <3> QED
      BY <2>2, <3>1
  <2>7. Cardinality(Sessions') = Cardinality(Sessions) + 1
    BY <1>s, <2>2, <2>6, CountNew
  <2>8. UploadReplaces'
    <3>1. CASE office[c].missed
      BY <1>s, <1>u, <2>1, <2>7, <3>1 DEF UploadReplaces
    <3>2. CASE ~office[c].missed
      <4>1. Sessions = {}
        BY <1>u, <2>1, <3>2 DEF UploadFits
      <4>2. Cardinality(Sessions) = 0
        BY <4>1, FS_EmptySet
      <4> QED
        BY <1>s, <2>1, <2>7, <3>2, <4>2 DEF UploadReplaces
    <3> QED
      BY <3>1, <3>2
  <2>9. ASSUME NEW d \in Offices PROVE UploadFits(d)'
    <3>1. CASE d = c
      BY <2>4, <3>1 DEF UploadFits
    <3>2. CASE d # c
      BY <1>m, <2>3, <2>4, <3>2 DEF UploadFits
    <3> QED
      BY <3>1, <3>2
  <2> QED
    BY <2>5, <2>8, <2>9 DEF InboundInv
<1>8. ASSUME NEW c \in Offices, OfficeDies(c) PROVE InboundInv'
  <2>1. UNCHANGED <<session, stored, byHand, crossed>> /\ Leaves(c)
    BY <1>8 DEF OfficeDies
  <2> QED
    BY <1>0, <1>l, <2>1, SessionsStay DEF UploadFits
<1> QED
  BY <1>1, <1>2, <1>3, <1>4, <1>5, <1>6, <1>7, <1>8 DEF InboundNext

LEMMA InboundAlways == InboundSpec => []InboundInv
<1> QED
  BY InitInboundInv, NextInboundInv, PTL DEF InboundSpec

\* A session uploaded again takes the place of the first, however many uploads,
\* decisions and entries by hand overlap (uploadExcel).
THEOREM UploadsReplace == InboundSpec => []UploadReplaces
<1>1. InboundInv => UploadReplaces
  BY DEF InboundInv
<1> QED
  BY <1>1, InboundAlways, PTL

-----------------------------------------------------------------------------
(* Policies *)

Status == {"DRAFT", "SHADOW", "ACTIVE", "RETIRED"}

ManagerJob == [pc : {"idle", "generate", "replace", "write", "pack"},
               on : PolicyIds \cup {None}, to : Status \cup {None},
               from : (0..MaxPolicyDay) \cup {None}, force : BOOLEAN]

PolicyType ==
    /\ policyDay \in 0..MaxPolicyDay
    /\ policy \in [PolicyIds -> PolicyRow \cup {None}]
    /\ drafted \in 0..MaxPolicies
    /\ overlaps \in Nat
    /\ manager \in [Managers -> ManagerJob]

\* What a call has decided is about a policy there is.
ManagerFits(c) ==
    manager[c].pc \in {"replace", "write"} =>
        /\ manager[c].on \in PolicyIds /\ policy[manager[c].on] # None
        /\ manager[c].to \in Status

ActiveOnes == {p \in PolicyIds : policy[p] # None /\ policy[p].status = "ACTIVE"}

\* What runs beside the policy a call is about to activate was activated after
\* its replacement.
ReplacedFits(c) ==
    Activating(c) => Cardinality(ActiveOnes \ {manager[c].on}) <= overlaps

\* Inductive.
PolicyInv ==
    /\ PolicyType
    /\ \A c \in Managers : ManagerFits(c) /\ ReplacedFits(c)
    /\ Cardinality(ActiveOnes) <= 1 + overlaps

LEMMA PolicyNumbers ==
    /\ MaxPolicies \in Nat /\ MaxPolicyDay \in Nat
    /\ PolicyIds \subseteq Nat /\ IsFiniteSet(PolicyIds) /\ IsFiniteSet(Managers)
    /\ None \notin Nat /\ None \notin PolicyIds /\ None \notin PolicyRow
<1>1. IsFiniteSet(1..MaxPolicies)
  BY PoliciesAssumption, FS_Interval
<1> QED
  BY <1>1, PoliciesAssumption, PolicyRowAssumption, NullAssumption DEF PolicyIds

LEMMA ActiveCounts ==
    /\ IsFiniteSet(ActiveOnes) /\ Cardinality(ActiveOnes) \in Nat
    /\ \A p : /\ IsFiniteSet(ActiveOnes \ {p}) /\ Cardinality(ActiveOnes \ {p}) \in Nat
              /\ Cardinality(ActiveOnes \ {p}) <= Cardinality(ActiveOnes)
<1>1. IsFiniteSet(ActiveOnes) /\ Cardinality(ActiveOnes) \in Nat
  <2>1. ActiveOnes \subseteq PolicyIds
    BY DEF ActiveOnes
  <2> QED
    BY <2>1, PolicyNumbers, CountPart
<1>2. ASSUME NEW p
      PROVE  /\ IsFiniteSet(ActiveOnes \ {p}) /\ Cardinality(ActiveOnes \ {p}) \in Nat
             /\ Cardinality(ActiveOnes \ {p}) <= Cardinality(ActiveOnes)
  <2>1. ActiveOnes \ {p} \subseteq ActiveOnes
    OBVIOUS
  <2> QED
    BY <1>1, <2>1, CountPart
<1> QED
  BY <1>1, <1>2

LEMMA InitPolicyInv == PoliciesInit => PolicyInv
<1> SUFFICES ASSUME PoliciesInit PROVE PolicyInv
  OBVIOUS
<1> USE PolicyNumbers
<1>1. NoChange \in ManagerJob /\ NoChange.pc = "idle"
  BY DEF NoChange, ManagerJob
<1>2. PolicyType /\ \A c \in Managers : ManagerFits(c) /\ ReplacedFits(c)
  BY <1>1 DEF PoliciesInit, PolicyType, ManagerFits, ReplacedFits, Activating
<1>3. ActiveOnes = {}
  BY DEF PoliciesInit, ActiveOnes
<1> QED
  BY <1>2, <1>3, FS_EmptySet DEF PoliciesInit, PolicyInv

PoliciesStay ==
    /\ policy' \in [PolicyIds -> PolicyRow \cup {None}]
    /\ \A p \in PolicyIds : policy[p] # None => policy'[p] # None

\* A step that activates nothing: what is left to show is what a call that moves
\* knows.
LEMMA PolicyKeeps ==
    ASSUME PolicyInv, PolicyType', PoliciesStay, overlaps' = overlaps,
           \A p \in PolicyIds : policy'[p] # None /\ policy'[p].status = "ACTIVE" =>
                policy[p] # None /\ policy[p].status = "ACTIVE",
           \A c \in Managers :
                manager'[c] = manager[c] \/ (ManagerFits(c)' /\ ReplacedFits(c)')
    PROVE  PolicyInv'
<1>0. overlaps \in Nat /\ Cardinality(ActiveOnes) <= 1 + overlaps
  BY DEF PolicyInv, PolicyType
<1>1. ActiveOnes' \subseteq ActiveOnes
  BY DEF ActiveOnes
<1>2. Cardinality(ActiveOnes') \in Nat /\ Cardinality(ActiveOnes') <= Cardinality(ActiveOnes)
  BY <1>1, ActiveCounts, CountPart
<1>3. Cardinality(ActiveOnes') <= 1 + overlaps'
  BY <1>0, <1>2, ActiveCounts
<1>4. ASSUME NEW c \in Managers, manager'[c] = manager[c] PROVE ManagerFits(c)' /\ ReplacedFits(c)'
  <2>1. ManagerFits(c) /\ ReplacedFits(c)
    BY DEF PolicyInv
  <2>2. PICK p : p = manager[c].on /\ p = manager'[c].on
    BY <1>4
  <2>3. ActiveOnes' \ {p} \subseteq ActiveOnes \ {p}
    BY <1>1
  <2>4. /\ Cardinality(ActiveOnes' \ {p}) \in Nat /\ Cardinality(ActiveOnes \ {p}) \in Nat
        /\ Cardinality(ActiveOnes' \ {p}) <= Cardinality(ActiveOnes \ {p})
    BY <2>3, ActiveCounts, CountPart
  <2>5. ManagerFits(c)'
    BY <1>4, <2>1 DEF ManagerFits, PoliciesStay
  <2>6. Activating(c)' => Activating(c)
    BY <1>4 DEF Activating
  <2>7. ReplacedFits(c)'
    BY <1>0, <2>1, <2>2, <2>4, <2>6 DEF ReplacedFits
  <2> QED
    BY <2>5, <2>7
<1> QED
  BY <1>3, <1>4 DEF PolicyInv

\* One call moves.
OneManager(c) ==
    /\ manager' \in [Managers -> ManagerJob]
    /\ \A d \in Managers : d # c => manager'[d] = manager[d]

LEMMA ManagerMoves ==
    ASSUME PolicyType, NEW c \in Managers, NEW job \in ManagerJob,
           manager' = [manager EXCEPT ![c] = job]
    PROVE  OneManager(c) /\ manager'[c] = job
BY DEF PolicyType, OneManager

LEMMA ManagerRests ==
    ASSUME PolicyType, NEW c \in Managers, Resting(c)
    PROVE  /\ OneManager(c) /\ manager'[c].pc = "idle"
           /\ ManagerFits(c)' /\ ReplacedFits(c)'
<1>1. NoChange \in ManagerJob /\ NoChange.pc = "idle"
  BY DEF NoChange, ManagerJob
<1>2. OneManager(c) /\ manager'[c].pc = "idle"
  BY <1>1 DEF PolicyType, OneManager, Resting
<1> QED
  BY <1>2 DEF ManagerFits, ReplacedFits, Activating

LEMMA Drafts ==
    ASSUME PolicyType, NEW st \in {"DRAFT", "SHADOW"}, NEW legacy \in BOOLEAN,
           NEW from \in (0..MaxPolicyDay) \cup {None}, Draft(st, legacy, from)
    PROVE  /\ PoliciesStay /\ drafted' \in 0..MaxPolicies
           /\ \A p \in PolicyIds : policy'[p] # None /\ policy'[p].status = "ACTIVE" =>
                policy[p] # None /\ policy[p].status = "ACTIVE"
<1> DEFINE n == drafted + 1
<1>1. n \in PolicyIds /\ drafted' = n /\ n \in 0..MaxPolicies
  BY PolicyNumbers DEF PolicyType, Draft, PolicyIds
<1>2. PICK row \in PolicyRow : policy' = [policy EXCEPT ![n] = row] /\ row.status # "ACTIVE"
  <2>1. [status |-> st, legacy |-> legacy, from |-> from] \in PolicyRow
    BY DEF PolicyRow
  <2>2. policy' = [policy EXCEPT ![n] = [status |-> st, legacy |-> legacy, from |-> from]]
    BY DEF Draft
  <2> QED
    BY <2>1, <2>2
<1> HIDE DEF n
<1>3. /\ policy' \in [PolicyIds -> PolicyRow \cup {None}]
      /\ policy'[n] = row
      /\ \A p \in PolicyIds : p # n => policy'[p] = policy[p]
  BY <1>1, <1>2 DEF PolicyType
<1> QED
  BY <1>1, <1>2, <1>3, PolicyNumbers DEF PoliciesStay

LEMMA NextPolicyInv == PolicyInv /\ [PoliciesNext]_policyVars => PolicyInv'
<1> SUFFICES ASSUME PolicyInv, [PoliciesNext]_policyVars PROVE PolicyInv'
  OBVIOUS
<1> USE PolicyNumbers
<1>0. /\ PolicyType
      /\ policyDay \in 0..MaxPolicyDay
      /\ policy \in [PolicyIds -> PolicyRow \cup {None}]
      /\ drafted \in 0..MaxPolicies
      /\ overlaps \in Nat
      /\ manager \in [Managers -> ManagerJob]
      /\ Policies = {p \in PolicyIds : policy[p] # None}
  BY DEF PolicyInv, PolicyType, Policies, Present
<1>f. /\ \A c \in Managers : ManagerFits(c) /\ ReplacedFits(c)
      /\ Cardinality(ActiveOnes) <= 1 + overlaps
  BY DEF PolicyInv
<1>n. ASSUME NEW c \in Managers, NEW pc \in {"generate", "pack"},
             manager' = [manager EXCEPT ![c] = [NoChange EXCEPT !.pc = pc]]
      PROVE  OneManager(c) /\ ManagerFits(c)' /\ ReplacedFits(c)'
  <2>1. /\ [NoChange EXCEPT !.pc = pc] \in ManagerJob
        /\ [NoChange EXCEPT !.pc = pc].pc = pc
    BY DEF NoChange, ManagerJob
  <2>2. OneManager(c) /\ manager'[c].pc = pc
    BY <1>0, <1>n, <2>1, ManagerMoves
  <2> QED
    BY <2>2 DEF ManagerFits, ReplacedFits, Activating
\* Policies that run are retired.
<1>t. ASSUME NEW gone, policy' = [p \in PolicyIds |->
                 IF p \in Policies /\ p \in gone THEN [policy[p] EXCEPT !.status = "RETIRED"]
                 ELSE policy[p]]
      PROVE  /\ PoliciesStay
             /\ \A p \in PolicyIds : policy'[p] # None /\ policy'[p].status = "ACTIVE" =>
                   policy[p] # None /\ policy[p].status = "ACTIVE" /\ p \notin gone
  <2>1. ASSUME NEW p \in PolicyIds, policy[p] # None
        PROVE  /\ [policy[p] EXCEPT !.status = "RETIRED"] \in PolicyRow
               /\ [policy[p] EXCEPT !.status = "RETIRED"].status = "RETIRED"
    <3>1. policy[p] \in PolicyRow
      BY <1>0, <2>1
    <3> QED
      BY <3>1 DEF PolicyRow
  <2>2. \A p \in PolicyIds : policy'[p] =
          IF p \in Policies /\ p \in gone THEN [policy[p] EXCEPT !.status = "RETIRED"] ELSE policy[p]
    BY <1>t
  <2>3. PoliciesStay
    BY <1>0, <1>t, <2>1 DEF PoliciesStay
  <2> QED
    BY <1>0, <2>1, <2>2, <2>3
<1>1. CASE UNCHANGED policyVars
  BY <1>1 DEF policyVars, PolicyInv, PolicyType, ManagerFits, ReplacedFits, Activating, ActiveOnes
<1>2. CASE PolicyTick
  <2>1. /\ UNCHANGED <<policy, drafted, manager, overlaps>> /\ policyDay' \in 0..MaxPolicyDay
    BY <1>0, <1>2 DEF PolicyTick
  <2> QED
    BY <2>1 DEF PolicyInv, PolicyType, ManagerFits, ReplacedFits, Activating, ActiveOnes
<1>3. ASSUME NEW c \in Managers, NEW legacy \in BOOLEAN, CreatePolicyVersion(c, legacy)
      PROVE  PolicyInv'
  <2>1. Draft("DRAFT", legacy, None) /\ UNCHANGED <<policyDay, manager, overlaps>>
    BY <1>3 DEF CreatePolicyVersion
  <2>2. /\ PoliciesStay /\ drafted' \in 0..MaxPolicies
        /\ \A p \in PolicyIds : policy'[p] # None /\ policy'[p].status = "ACTIVE" =>
             policy[p] # None /\ policy[p].status = "ACTIVE"
    BY <1>0, <2>1, Drafts
  <2>3. PolicyType'
    BY <1>0, <2>1, <2>2 DEF PolicyType, PoliciesStay
  <2> QED
    BY <2>1, <2>2, <2>3, PolicyKeeps
<1>4. ASSUME NEW c \in Managers, NEW p \in PolicyIds, NEW to \in Status, NEW force \in BOOLEAN,
             UpdateStatusRead(c, p, to, force)
      PROVE  PolicyInv'
  <2>1. PICK job : job = [pc |-> IF to = "ACTIVE" THEN "replace" ELSE "write", on |-> p,
                          to |-> to, from |-> policy[p].from, force |-> force]
    OBVIOUS
  <2>2. /\ manager' = [manager EXCEPT ![c] = job] /\ policy[p] # None
        /\ UNCHANGED <<policyDay, policy, drafted, overlaps>>
    BY <1>0, <1>4, <2>1 DEF UpdateStatusRead
  <2>3. policy[p].from \in (0..MaxPolicyDay) \cup {None}
    <3>1. policy[p] \in PolicyRow
      BY <1>0, <2>2
    <3> QED
      BY <3>1 DEF PolicyRow
  <2>4. /\ job \in ManagerJob /\ job.on = p /\ job.to = to
        /\ job.pc = "write" => job.to # "ACTIVE"
    BY <2>1, <2>3 DEF ManagerJob
  <2>5. OneManager(c) /\ manager'[c] = job
    BY <1>0, <2>2, <2>4, ManagerMoves
  <2>6. ManagerFits(c)' /\ ReplacedFits(c)'
    BY <2>2, <2>4, <2>5 DEF ManagerFits, ReplacedFits, Activating
  <2>7. PolicyType' /\ PoliciesStay
    BY <1>0, <2>2, <2>5 DEF PolicyType, PoliciesStay, OneManager
  <2> QED
    BY <2>2, <2>5, <2>6, <2>7, PolicyKeeps DEF OneManager
<1>5. ASSUME NEW c \in Managers, UpdateStatusReplace(c) PROVE PolicyInv'
  <2>1. PICK p : p = manager[c].on
    OBVIOUS
  <2>2. /\ manager[c].pc = "replace" /\ manager' = [manager EXCEPT ![c].pc = "write"]
        /\ UNCHANGED <<policyDay, drafted, overlaps>>
        /\ policy' = [q \in PolicyIds |->
                 IF q \in Policies /\ Replaces(q, p)
                 THEN [policy[q] EXCEPT !.status = "RETIRED"] ELSE policy[q]]
    BY <1>5, <2>1 DEF UpdateStatusReplace
  <2>3. p \in PolicyIds /\ policy[p] # None
    BY <1>f, <2>1, <2>2 DEF ManagerFits
  <2> DEFINE gone == {q \in PolicyIds : Replaces(q, p)}
  <2>4. policy' = [q \in PolicyIds |->
                 IF q \in Policies /\ q \in gone
                 THEN [policy[q] EXCEPT !.status = "RETIRED"] ELSE policy[q]]
    BY <2>2
  <2>5. /\ PoliciesStay
        /\ \A q \in PolicyIds : policy'[q] # None /\ policy'[q].status = "ACTIVE" =>
             policy[q] # None /\ policy[q].status = "ACTIVE" /\ q \notin gone
    <3> HIDE DEF gone
    <3> QED
      BY <1>t, <2>4
  <2>6. ActiveOnes' \ {p} = {}
    BY <2>5 DEF ActiveOnes, Replaces
  <2> HIDE DEF gone
  <2>7. /\ OneManager(c) /\ manager'[c].pc = "write" /\ manager'[c].on = p
        /\ manager'[c].to = manager[c].to
    <3>1. manager[c] \in ManagerJob
      BY <1>0
    <3>2. /\ [manager[c] EXCEPT !.pc = "write"] \in ManagerJob
          /\ [manager[c] EXCEPT !.pc = "write"].pc = "write"
          /\ [manager[c] EXCEPT !.pc = "write"].on = manager[c].on
          /\ [manager[c] EXCEPT !.pc = "write"].to = manager[c].to
      BY <3>1 DEF ManagerJob
    <3>3. OneManager(c) /\ manager'[c] = [manager[c] EXCEPT !.pc = "write"]
      BY <1>0, <2>2, <3>2 DEF OneManager
    <3> QED
      BY <2>1, <3>2, <3>3
  <2>8. ManagerFits(c)'
    BY <1>f, <2>1, <2>2, <2>3, <2>5, <2>7 DEF ManagerFits, PoliciesStay
  <2>9. ReplacedFits(c)'
    <3>1. Cardinality(ActiveOnes' \ {p}) = 0
      BY <2>6, FS_EmptySet
    <3>2. Cardinality(ActiveOnes' \ {p}) <= overlaps'
      BY <1>0, <2>2, <3>1
    <3> QED
      BY <2>7, <3>2 DEF ReplacedFits
  <2>10. PolicyType'
    BY <1>0, <2>2, <2>5, <2>7 DEF PolicyType, PoliciesStay, OneManager
  <2> QED
    BY <2>2, <2>5, <2>7, <2>8, <2>9, <2>10, PolicyKeeps DEF OneManager
<1>6. ASSUME NEW c \in Managers, UpdateStatusWrite(c) PROVE PolicyInv'
  <2>1. PICK p, to : p = manager[c].on /\ to = manager[c].to
    OBVIOUS
  <2>2. /\ manager[c].pc = "write" /\ Resting(c) /\ UNCHANGED <<policyDay, drafted>>
        /\ p \in PolicyIds /\ policy[p] # None /\ to \in Status
    BY <1>6, <1>f, <2>1 DEF UpdateStatusWrite, ManagerFits
  <2>3. PICK row \in PolicyRow : policy' = [policy EXCEPT ![p] = row] /\ row.status = to
    <3>1. PICK day : /\ policy' = [policy EXCEPT ![p].status = to, ![p].from = day]
                     /\ day \in {policyDay, manager[c].from}
      BY <1>6, <2>1 DEF UpdateStatusWrite
    <3>2. day \in (0..MaxPolicyDay) \cup {None}
      BY <1>0, <3>1 DEF ManagerJob
    <3>3. policy' = [policy EXCEPT ![p] = [policy[p] EXCEPT !.status = to, !.from = day]]
      BY <3>1
    <3>4. policy[p] \in PolicyRow
      BY <1>0, <2>2
    <3>5. /\ [policy[p] EXCEPT !.status = to, !.from = day] \in PolicyRow
          /\ [policy[p] EXCEPT !.status = to, !.from = day].status = to
      BY <2>2, <3>2, <3>4 DEF PolicyRow, Status
    <3> QED
      BY <3>3, <3>5
  <2>4. /\ policy' \in [PolicyIds -> PolicyRow \cup {None}]
        /\ policy'[p] = row /\ row # None
        /\ \A q \in PolicyIds : q # p => policy'[q] = policy[q]
    BY <1>0, <2>2, <2>3
  <2>5. PoliciesStay
    BY <2>2, <2>4 DEF PoliciesStay
  <2>6. /\ OneManager(c) /\ manager'[c].pc = "idle"
        /\ ManagerFits(c)' /\ ReplacedFits(c)'
    BY <1>0, <2>2, ManagerRests
  <2> DEFINE E == {d \in Managers \ {c} : Activating(d)}
  <2>7. IsFiniteSet(E) /\ Cardinality(E) \in Nat
    <3>1. E \subseteq Managers
      OBVIOUS
    <3> QED
      BY <3>1, CountPart
  <2>8. overlaps' = overlaps + (IF to = "ACTIVE" THEN Cardinality(E) ELSE 0)
    BY <1>6, <2>1 DEF UpdateStatusWrite
  <2>9. overlaps' \in Nat
    <3> HIDE DEF E
    <3> QED
      BY <1>0, <2>7, <2>8
  <2>10. PolicyType'
    BY <1>0, <2>2, <2>4, <2>6, <2>9 DEF PolicyType, OneManager
  <2>11. CASE to # "ACTIVE"
    <3>1. overlaps' = overlaps
      BY <1>0, <2>8, <2>11
    <3>2. \A q \in PolicyIds : policy'[q] # None /\ policy'[q].status = "ACTIVE" =>
            policy[q] # None /\ policy[q].status = "ACTIVE"
      BY <2>3, <2>4, <2>11
    <3> QED
      BY <2>5, <2>6, <2>10, <3>1, <3>2, PolicyKeeps DEF OneManager
  <2>12. CASE to = "ACTIVE"
    <3>1. ActiveOnes' = (ActiveOnes \ {p}) \cup {p}
      BY <2>2, <2>3, <2>4, <2>12 DEF ActiveOnes
    <3>2. Cardinality(ActiveOnes \ {p}) <= overlaps
      BY <1>f, <2>1, <2>2, <2>12 DEF ReplacedFits, Activating
    <3>3. ActiveOnes' \subseteq (ActiveOnes \ {p}) \cup {p}
      BY <3>1
    <3>4. /\ Cardinality(ActiveOnes') \in Nat
          /\ Cardinality(ActiveOnes') <= Cardinality(ActiveOnes \ {p}) + 1
      BY <3>3, ActiveCounts, CountGain
    <3>5. Cardinality(ActiveOnes') <= 1 + overlaps'
      <4>1. Cardinality(ActiveOnes \ {p}) \in Nat
        BY ActiveCounts
      <4> HIDE DEF E
      <4> QED
        BY <1>0, <2>7, <2>8, <3>2, <3>4, <4>1
    <3>6. ASSUME NEW d \in Managers, d # c PROVE ManagerFits(d)' /\ ReplacedFits(d)'
      <4>1. manager'[d] = manager[d] /\ ManagerFits(d) /\ ReplacedFits(d)
        BY <1>f, <2>6, <3>6 DEF OneManager
      <4>2. ManagerFits(d)'
        BY <2>5, <4>1 DEF ManagerFits, PoliciesStay
      <4>3. ASSUME Activating(d)' PROVE Cardinality(ActiveOnes' \ {manager'[d].on}) <= overlaps'
        <5>1. PICK r : r = manager[d].on /\ r = manager'[d].on
          BY <4>1
        <5>2. Activating(d)
          BY <4>1, <4>3 DEF Activating
        <5>3. Cardinality(ActiveOnes \ {r}) <= overlaps
          BY <4>1, <5>1, <5>2 DEF ReplacedFits
        <5>4. ActiveOnes' \ {r} \subseteq (ActiveOnes \ {r}) \cup {p}
          BY <3>1
        <5>5. /\ Cardinality(ActiveOnes' \ {r}) \in Nat /\ Cardinality(ActiveOnes \ {r}) \in Nat
              /\ Cardinality(ActiveOnes' \ {r}) <= Cardinality(ActiveOnes \ {r}) + 1
          BY <5>4, ActiveCounts, CountGain
        <5>6. d \in E
          BY <3>6, <5>2
        <5>7. 1 <= Cardinality(E)
          <6> HIDE DEF E
          <6>1. {} \subseteq E \ {d}
            OBVIOUS
          <6>2. Cardinality({}) + 1 <= Cardinality(E)
            BY <2>7, <5>6, <6>1, CountLoss
          <6> QED
            BY <2>7, <6>2, FS_EmptySet
        <5>8. overlaps + 1 <= overlaps'
          <6> HIDE DEF E
          <6> QED
            BY <1>0, <2>7, <2>8, <2>12, <5>7
        <5>9. Cardinality(ActiveOnes' \ {r}) <= overlaps'
          BY <1>0, <2>9, <5>3, <5>5, <5>8
        <5> QED
          BY <5>1, <5>9
      <4> QED
        BY <4>2, <4>3 DEF ReplacedFits
    <3> QED
      BY <2>6, <2>10, <3>5, <3>6 DEF PolicyInv
  <2> QED
    BY <2>11, <2>12
<1>7. ASSUME NEW c \in Managers, GeneratePackRead(c) PROVE PolicyInv'
  <2>1. /\ UNCHANGED <<policyDay, policy, drafted, overlaps>>
        /\ manager' = [manager EXCEPT ![c] = [NoChange EXCEPT !.pc = "generate"]]
    BY <1>7 DEF GeneratePackRead
  <2>2. OneManager(c) /\ ManagerFits(c)' /\ ReplacedFits(c)'
    BY <1>n, <2>1
  <2>3. PolicyType' /\ PoliciesStay
    BY <1>0, <2>1, <2>2 DEF PolicyType, PoliciesStay, OneManager
  <2> QED
    BY <2>1, <2>2, <2>3, PolicyKeeps DEF OneManager
<1>8. ASSUME NEW c \in Managers, GeneratePack(c) \/ ApplyPackCreate(c) PROVE PolicyInv'
  <2>1. /\ Resting(c) /\ UNCHANGED <<policyDay, overlaps>>
        /\ \/ \E legacy \in BOOLEAN : Draft("DRAFT", legacy, None)
           \/ Draft("SHADOW", FALSE, policyDay)
    BY <1>8 DEF GeneratePack, ApplyPackCreate
  <2>2. /\ PoliciesStay /\ drafted' \in 0..MaxPolicies
        /\ \A p \in PolicyIds : policy'[p] # None /\ policy'[p].status = "ACTIVE" =>
             policy[p] # None /\ policy[p].status = "ACTIVE"
    BY <1>0, <2>1, Drafts
  <2>3. OneManager(c) /\ ManagerFits(c)' /\ ReplacedFits(c)'
    BY <1>0, <2>1, ManagerRests
  <2>4. PolicyType'
    BY <1>0, <2>1, <2>2, <2>3 DEF PolicyType, PoliciesStay, OneManager
  <2> QED
    BY <2>1, <2>2, <2>3, <2>4, PolicyKeeps DEF OneManager
<1>9. ASSUME NEW c \in Managers, ApplyPackRetire(c) PROVE PolicyInv'
  <2> DEFINE gone == InStatus({"ACTIVE", "SHADOW"})
  <2>1. /\ UNCHANGED <<policyDay, drafted, overlaps>>
        /\ manager' = [manager EXCEPT ![c] = [NoChange EXCEPT !.pc = "pack"]]
        /\ policy' = [p \in PolicyIds |->
                        IF p \in gone THEN [policy[p] EXCEPT !.status = "RETIRED"] ELSE policy[p]]
    BY <1>9 DEF ApplyPackRetire
  <2>2. gone \subseteq Policies
    BY DEF InStatus
  <2> HIDE DEF gone
  <2>3. policy' = [p \in PolicyIds |->
                     IF p \in Policies /\ p \in gone THEN [policy[p] EXCEPT !.status = "RETIRED"]
                     ELSE policy[p]]
    BY <2>1, <2>2
  <2>4. /\ PoliciesStay
        /\ \A p \in PolicyIds : policy'[p] # None /\ policy'[p].status = "ACTIVE" =>
             policy[p] # None /\ policy[p].status = "ACTIVE" /\ p \notin gone
    BY <1>t, <2>3
  <2>5. OneManager(c) /\ ManagerFits(c)' /\ ReplacedFits(c)'
    BY <1>n, <2>1
  <2>6. PolicyType'
    BY <1>0, <2>1, <2>4, <2>5 DEF PolicyType, PoliciesStay, OneManager
  <2> QED
    BY <2>1, <2>4, <2>5, <2>6, PolicyKeeps DEF OneManager
<1>10. ASSUME NEW c \in Managers, ManagerDies(c) PROVE PolicyInv'
  <2>1. UNCHANGED <<policyDay, policy, drafted, overlaps>> /\ Resting(c)
    BY <1>10 DEF ManagerDies
  <2>2. OneManager(c) /\ ManagerFits(c)' /\ ReplacedFits(c)'
    BY <1>0, <2>1, ManagerRests
  <2>3. PolicyType' /\ PoliciesStay
    BY <1>0, <2>1, <2>2 DEF PolicyType, PoliciesStay, OneManager
  <2> QED
    BY <2>1, <2>2, <2>3, PolicyKeeps DEF OneManager
<1> QED
  BY <1>1, <1>2, <1>3, <1>4, <1>5, <1>6, <1>7, <1>8, <1>9, <1>10 DEF PoliciesNext, Status

LEMMA PoliciesAlways == PoliciesSpec => []PolicyInv
<1> QED
  BY InitPolicyInv, NextPolicyInv, PTL DEF PoliciesSpec

\* One policy of a track runs, but for activations whose replacement and write
\* another activation came between (updatePolicyStatus).
THEOREM OnePolicyRuns == PoliciesSpec => []ActiveAlone
<1>1. PolicyInv => ActiveAlone
  <2> SUFFICES ASSUME PolicyInv PROVE ActiveAlone
    OBVIOUS
  <2>1. InStatus({"ACTIVE"}) = ActiveOnes
    BY DEF PolicyInv, PolicyType, InStatus, Policies, Present, ActiveOnes
  <2> QED
    BY <2>1 DEF PolicyInv, ActiveAlone
<1> QED
  BY <1>1, PoliciesAlways, PTL

-----------------------------------------------------------------------------
(* Heat records *)

HeatRow == [hour : Nat, report : Nat]

TabletJob == [pc : {"idle", "find", "create", "update"}, hour : Nat \cup {None},
              report : Nat \cup {None}, on : RecordIds \cup {None}]

HeatType ==
    /\ hour \in Nat /\ reports \in Nat
    /\ record \in [RecordIds -> HeatRow \cup {None}]
    /\ recorded \in 0..MaxRecords
    /\ tablet \in [Tablets -> TabletJob]
    /\ answered \subseteq HeatRow
    /\ before \in [1..MaxReports -> SUBSET Nat]

\* A report that is over has its number; what was over when it began is known.
ReportsFit ==
    /\ \A a \in answered : a.report \in 1..reports
    /\ \A n \in 1..MaxReports : \A m \in before[n] : \E a \in answered : a.report = m
    /\ reports <= MaxReports

\* A report under way has a number of its own, is not over, and what it found is
\* still so: a record of its hour; or, when it found none, none of the reports
\* that were over when it began is of its hour.
TabletFits(t) ==
    tablet[t].pc # "idle" =>
        /\ tablet[t].report \in 1..reports /\ tablet[t].hour \in Nat
        /\ \A a \in answered : a.report # tablet[t].report
        /\ tablet[t].pc = "update" =>
            /\ tablet[t].on \in RecordIds /\ record[tablet[t].on] # None
            /\ record[tablet[t].on].hour = tablet[t].hour
        /\ tablet[t].pc = "create" =>
            \A a \in answered : a.report \in before[tablet[t].report] => a.hour # tablet[t].hour

TabletsDiffer ==
    \A t, u \in Tablets :
        t # u /\ tablet[t].pc # "idle" /\ tablet[u].pc # "idle" =>
            tablet[t].report # tablet[u].report

\* What a record holds has been answered.
RecordsFit ==
    \A i \in RecordIds : record[i] # None => record[i] \in answered

\* Record i holds its hour.
Holds(i, h) ==
    /\ i \in RecordIds /\ record[i] # None /\ record[i].hour = h
    /\ \A b \in answered : b.hour = h => record[i].report \notin before[b.report]

\* Inductive.
HeatInv ==
    /\ HeatType /\ ReportsFit /\ TabletsDiffer /\ RecordsFit
    /\ \A i \in RecordIds : i > recorded => record[i] = None
    /\ \A t \in Tablets : TabletFits(t)
    /\ \A a \in answered : \E i \in RecordIds : Holds(i, a.hour)

LEMMA HeatNumbers ==
    /\ MaxRecords \in Nat /\ MaxReports \in Nat /\ MaxHour \in Nat
    /\ RecordIds \subseteq Nat /\ None \notin RecordIds
    /\ None \notin Nat /\ None \notin HeatRow
BY HeatAssumption, NullAssumption DEF RecordIds, HeatRow

LEMMA InitHeatInv == HeatInit => HeatInv
<1> SUFFICES ASSUME HeatInit PROVE HeatInv
  OBVIOUS
<1> USE HeatNumbers
<1>1. Quiet \in TabletJob /\ Quiet.pc = "idle"
  BY DEF Quiet, TabletJob
<1>2. HeatType /\ \A t \in Tablets : TabletFits(t)
  BY <1>1 DEF HeatInit, HeatType, TabletFits
<1>3. ReportsFit /\ TabletsDiffer /\ RecordsFit
  BY <1>1 DEF HeatInit, ReportsFit, TabletsDiffer, RecordsFit
<1>4. /\ \A i \in RecordIds : record[i] = None
      /\ answered = {}
  BY DEF HeatInit
<1> QED
  BY <1>2, <1>3, <1>4 DEF HeatInv

\* One tablet moves.
OneTablet(t) ==
    /\ tablet' \in [Tablets -> TabletJob]
    /\ \A u \in Tablets : u # t => tablet'[u] = tablet[u]

\* A step that answers nothing and writes no record.
LEMMA HeatLooks ==
    ASSUME HeatInv, UNCHANGED <<record, recorded, reports, answered, before>>, hour' \in Nat,
           NEW t \in Tablets, OneTablet(t), TabletFits(t)',
           tablet'[t].pc # "idle" =>
                tablet[t].pc # "idle" /\ tablet'[t].report = tablet[t].report
    PROVE  HeatInv'
<1>1. HeatType' /\ ReportsFit'
  BY DEF HeatInv, HeatType, ReportsFit, OneTablet
<1>2. TabletsDiffer'
  BY DEF HeatInv, TabletsDiffer, OneTablet
<1>3. ASSUME NEW u \in Tablets PROVE TabletFits(u)'
  <2>1. CASE u = t
    BY <2>1
  <2>2. CASE u # t
    BY <2>2 DEF HeatInv, TabletFits, OneTablet
  <2> QED
    BY <2>1, <2>2
<1>4. RecordsFit' /\ (\A i \in RecordIds : i > recorded' => record'[i] = None)
  BY DEF HeatInv, RecordsFit
<1>5. \A a \in answered' : \E i \in RecordIds : Holds(i, a.hour)'
  BY DEF HeatInv, Holds
<1> QED
  BY <1>1, <1>2, <1>3, <1>4, <1>5 DEF HeatInv

\* A report is answered: record j holds it, or it is dropped for a record that
\* holds the hour already.
LEMMA HeatAnswers ==
    ASSUME HeatInv, NEW t \in Tablets, tablet[t].pc # "idle", Answer(t),
           UNCHANGED <<hour, reports, before>>,
           record' \in [RecordIds -> HeatRow \cup {None}], recorded' \in 0..MaxRecords,
           \A i \in RecordIds : i > recorded' => record'[i] = None,
           NEW j \in RecordIds,
           record'[j] # None, record'[j].hour = tablet[t].hour,
           \A i \in RecordIds : i # j => record'[i] = record[i],
           record[j] = None \/ record[j].hour = tablet[t].hour,
           \/ record'[j].report = tablet[t].report
           \/ record'[j] = record[j] /\ tablet[t].pc = "create"
    PROVE  HeatInv'
<1> USE HeatNumbers
<1>0. /\ HeatType /\ ReportsFit /\ TabletsDiffer /\ RecordsFit /\ TabletFits(t)
      /\ hour \in Nat /\ reports \in Nat /\ reports <= MaxReports
      /\ record \in [RecordIds -> HeatRow \cup {None}]
      /\ tablet \in [Tablets -> TabletJob] /\ answered \subseteq HeatRow
      /\ before \in [1..MaxReports -> SUBSET Nat]
  BY DEF HeatInv, HeatType, ReportsFit
<1>1. PICK n, h : n = tablet[t].report /\ h = tablet[t].hour
  OBVIOUS
<1>2. /\ n \in 1..reports /\ n \in 1..MaxReports /\ n \in Nat /\ h \in Nat
      /\ \A a \in answered : a.report # n
  BY <1>0, <1>1 DEF TabletFits
<1>3. PICK new : new = [report |-> n, hour |-> h]
  OBVIOUS
<1>4. /\ new \in HeatRow /\ new.report = n /\ new.hour = h
      /\ answered' = answered \cup {new}
  BY <1>1, <1>2, <1>3 DEF HeatRow, Answer
<1>5. Quiet \in TabletJob /\ Quiet.pc = "idle"
  BY DEF Quiet, TabletJob
<1>6. OneTablet(t) /\ tablet'[t].pc = "idle"
  BY <1>0, <1>5 DEF Answer, OneTablet
<1>7. HeatType'
  BY <1>0, <1>4, <1>6 DEF HeatType, OneTablet
\* No report that has begun counts this one among those over.
<1>8. \A m \in 1..MaxReports : n \notin before[m]
  BY <1>0, <1>2 DEF ReportsFit
<1>9. ReportsFit'
  BY <1>0, <1>2, <1>4 DEF ReportsFit
<1>10. TabletsDiffer'
  BY <1>0, <1>6 DEF TabletsDiffer, OneTablet
<1>11. ASSUME NEW u \in Tablets PROVE TabletFits(u)'
  <2>1. CASE u = t
    BY <1>6, <2>1 DEF TabletFits
  <2>2. CASE u # t
    <3>1. tablet'[u] = tablet[u] /\ TabletFits(u)
      BY <1>6, <2>2 DEF HeatInv, OneTablet
    <3>2. tablet[u].pc # "idle" => tablet[u].report # n /\ tablet[u].report \in 1..MaxReports
      BY <1>0, <1>1, <2>2, <3>1 DEF TabletsDiffer, TabletFits
    <3>3. tablet[u].pc = "update" =>
            /\ tablet[u].on \in RecordIds /\ record'[tablet[u].on] # None
            /\ record'[tablet[u].on].hour = tablet[u].hour
      <4>1. \A i \in RecordIds : record[i] # None =>
              record'[i] # None /\ record'[i].hour = record[i].hour
        OBVIOUS
      <4> QED
        BY <3>1, <4>1 DEF TabletFits
    <3> QED
      BY <1>4, <1>8, <3>1, <3>2, <3>3 DEF TabletFits
  <2> QED
    BY <2>1, <2>2
<1>12. PICK m : m = record'[j].report
  OBVIOUS
<1>13. record'[j] \in answered' /\ record'[j] \in HeatRow
  <2>1. CASE m = n
    <3>1. record'[j] \in HeatRow
      OBVIOUS
    <3>2. record'[j] = new
      BY <1>1, <1>3, <1>12, <2>1, <3>1 DEF HeatRow
    <3> QED
      BY <1>4, <3>2
  <2>2. CASE record'[j] = record[j]
    BY <1>0, <1>4, <2>2 DEF RecordsFit
  <2> QED
    BY <1>1, <1>12, <2>1, <2>2
<1>14. RecordsFit'
  BY <1>0, <1>4, <1>13 DEF RecordsFit
\* The hour of the report is held, ...
<1>15. \E i \in RecordIds : Holds(i, h)'
  <2>1. CASE m = n
    <3>1. \A b \in answered' : m \notin before'[b.report]
      <4>1. \A b \in answered : b.report \in 1..MaxReports
        <5>1. 1..reports \subseteq 1..MaxReports
          BY <1>0
        <5> QED
          BY <1>0, <5>1 DEF ReportsFit
      <4>2. \A b \in answered' : b.report \in 1..MaxReports
        BY <1>2, <1>4, <4>1
      <4> QED
        BY <1>8, <2>1, <4>2
    <3> QED
      BY <1>1, <1>12, <3>1 DEF Holds
  <2>2. CASE record'[j] = record[j] /\ tablet[t].pc = "create"
    <3>1. record[j] \in answered /\ record[j].hour = h
      BY <1>0, <1>1, <2>2 DEF RecordsFit
    <3>2. PICK i \in RecordIds : Holds(i, h)
      BY <3>1 DEF HeatInv
    <3>3. record'[i] = record[i] /\ record[i] \in answered
      BY <1>0, <2>2, <3>2 DEF Holds, RecordsFit
    <3>4. record[i].report \notin before[n]
      BY <1>0, <1>1, <2>2, <3>2, <3>3 DEF TabletFits, Holds
    <3> QED
      BY <1>4, <3>2, <3>3, <3>4 DEF Holds
  <2> QED
    BY <1>1, <1>12, <2>1, <2>2
\* ... and the others by what held them.
<1>16. ASSUME NEW a \in answered' PROVE \E i \in RecordIds : Holds(i, a.hour)'
  <2>1. PICK g : g = a.hour
    OBVIOUS
  <2>2. CASE g = h
    BY <1>15, <2>1, <2>2 DEF Holds
  <2>3. CASE g # h
    <3>1. a \in answered
      BY <1>4, <2>1, <2>3
    <3>2. PICK i \in RecordIds : Holds(i, g)
      BY <2>1, <3>1 DEF HeatInv
    <3>3. record'[i] = record[i]
      BY <1>1, <2>3, <3>2 DEF Holds
    <3>4. Holds(i, g)'
      BY <1>4, <2>3, <3>2, <3>3 DEF Holds
    <3> QED
      BY <2>1, <3>4 DEF Holds
  <2> QED
    BY <2>2, <2>3
<1> QED
  BY <1>7, <1>9, <1>10, <1>11, <1>14, <1>16 DEF HeatInv

LEMMA NextHeatInv == HeatInv /\ [HeatNext]_heatVars => HeatInv'
<1> SUFFICES ASSUME HeatInv, [HeatNext]_heatVars PROVE HeatInv'
  OBVIOUS
<1> USE HeatNumbers
<1>0. /\ HeatType /\ ReportsFit /\ TabletsDiffer /\ RecordsFit
      /\ hour \in Nat /\ reports \in Nat /\ recorded \in 0..MaxRecords /\ recorded \in Nat
      /\ record \in [RecordIds -> HeatRow \cup {None}]
      /\ tablet \in [Tablets -> TabletJob] /\ answered \subseteq HeatRow
      /\ before \in [1..MaxReports -> SUBSET Nat]
      /\ Records = {i \in RecordIds : record[i] # None}
  BY DEF HeatInv, HeatType, Records, Present
<1>f. /\ \A t \in Tablets : TabletFits(t)
      /\ \A i \in RecordIds : i > recorded => record[i] = None
  BY DEF HeatInv
<1>q. Quiet \in TabletJob /\ Quiet.pc = "idle"
  BY DEF Quiet, TabletJob
<1>1. CASE UNCHANGED heatVars
  BY <1>1 DEF heatVars, HeatInv, HeatType, ReportsFit, TabletsDiffer, RecordsFit, TabletFits, Holds
<1>2. CASE HourTick
  <2>1. /\ UNCHANGED <<record, recorded, reports, tablet, answered, before>> /\ hour' \in Nat
    BY <1>0, <1>2 DEF HourTick
  <2> QED
    BY <2>1 DEF HeatInv, HeatType, ReportsFit, TabletsDiffer, RecordsFit, TabletFits, Holds
<1>3. ASSUME NEW t \in Tablets, ReportBegin(t) PROVE HeatInv'
  <2> DEFINE n == reports + 1
  <2>1. PICK job : job = [Quiet EXCEPT !.pc = "find", !.hour = hour, !.report = n]
    OBVIOUS
  <2>2. /\ n \in 1..MaxReports /\ n \in Nat /\ reports' = n
        /\ before' = [before EXCEPT ![n] = {a.report : a \in answered}]
        /\ tablet' = [tablet EXCEPT ![t] = job]
        /\ UNCHANGED <<hour, record, recorded, answered>>
    BY <1>0, <1>3, <2>1, HeatAssumption DEF ReportBegin
  <2>3. job \in TabletJob /\ job.pc = "find" /\ job.report = n /\ job.hour = hour
    <3>1. job = [pc |-> "find", hour |-> hour, report |-> n, on |-> None]
      BY <2>1 DEF Quiet
    <3> HIDE DEF n
    <3> QED
      BY <1>0, <2>2, <3>1 DEF TabletJob
  <2>4. n \notin 1..reports /\ 1..reports \subseteq 1..n /\ n \in 1..n
    BY <1>0
  <2> HIDE DEF n
  <2>5. OneTablet(t) /\ tablet'[t] = job
    BY <1>0, <2>2, <2>3 DEF OneTablet
  <2> DEFINE V == {a.report : a \in answered}
  <2>6. V \in SUBSET Nat
    BY <1>0 DEF HeatRow
  <2>7. \A m \in V : \E a \in answered : a.report = m
    OBVIOUS
  <2> HIDE DEF V
  <2>8. /\ before' \in [1..MaxReports -> SUBSET Nat] /\ before'[n] = V
        /\ \A m \in 1..MaxReports : m # n => before'[m] = before[m]
    <3>1. before' = [before EXCEPT ![n] = V]
      BY <2>2 DEF V
    <3> QED
      BY <1>0, <2>2, <2>6, <3>1
  <2>9. HeatType'
    BY <1>0, <2>2, <2>5, <2>8 DEF HeatType, OneTablet
  <2>10. ReportsFit'
    <3>1. \A a \in answered' : a.report \in 1..reports'
      BY <1>0, <2>2, <2>4 DEF ReportsFit
    <3>2. \A k \in 1..MaxReports : \A m \in before'[k] : \E a \in answered' : a.report = m
      BY <1>0, <2>2, <2>7, <2>8 DEF ReportsFit
    <3>3. reports' <= MaxReports
      BY <2>2
    <3> QED
      BY <3>1, <3>2, <3>3 DEF ReportsFit
  <2>11. TabletsDiffer'
    BY <1>0, <1>f, <2>3, <2>4, <2>5 DEF TabletsDiffer, TabletFits, OneTablet
  <2>12. ASSUME NEW u \in Tablets PROVE TabletFits(u)'
    <3>1. CASE u = t
      <4>1. \A a \in answered : a.report # n
        BY <1>0, <2>4 DEF ReportsFit
      <4> QED
        BY <1>0, <2>2, <2>3, <2>4, <2>5, <3>1, <4>1 DEF TabletFits
    <3>2. CASE u # t
      <4>1. tablet'[u] = tablet[u] /\ TabletFits(u)
        BY <1>f, <2>5, <3>2 DEF OneTablet
      <4>2. tablet[u].pc # "idle" =>
              tablet[u].report \in 1..reports' /\ before'[tablet[u].report] = before[tablet[u].report]
        <5>1. 1..reports \subseteq 1..MaxReports
          BY <1>0 DEF ReportsFit
        <5> QED
          BY <2>2, <2>4, <2>8, <4>1, <5>1 DEF TabletFits
      <4> QED
        BY <2>2, <4>1, <4>2 DEF TabletFits
    <3> QED
      BY <3>1, <3>2
  <2>13. RecordsFit' /\ (\A i \in RecordIds : i > recorded' => record'[i] = None)
    BY <1>0, <1>f, <2>2 DEF RecordsFit
  <2>14. ASSUME NEW a \in answered' PROVE \E i \in RecordIds : Holds(i, a.hour)'
    <3>1. PICK i \in RecordIds : Holds(i, a.hour)
      BY <2>2 DEF HeatInv
    <3>2. \A b \in answered : b.report \in 1..MaxReports /\ before'[b.report] = before[b.report]
      <4>1. \A b \in answered : b.report \in 1..reports
        BY <1>0 DEF ReportsFit
      <4>2. 1..reports \subseteq 1..MaxReports
        BY <1>0 DEF ReportsFit
      <4> QED
        BY <2>4, <2>8, <4>1, <4>2
    <3> QED
      BY <2>2, <3>1, <3>2 DEF Holds
  <2> QED
    BY <2>9, <2>10, <2>11, <2>12, <2>13, <2>14 DEF HeatInv
<1>4. ASSUME NEW t \in Tablets, ReportFind(t) PROVE HeatInv'
  <2>1. PICK h : h = tablet[t].hour
    OBVIOUS
  <2>2. /\ tablet[t].pc = "find" /\ tablet[t] \in TabletJob
        /\ UNCHANGED <<hour, record, recorded, reports, answered, before>>
        /\ \/ RecordsOf(h) = {} /\ tablet' = [tablet EXCEPT ![t].pc = "create"]
           \/ \E i \in RecordsOf(h) : tablet' = [tablet EXCEPT ![t].pc = "update", ![t].on = i]
    BY <1>0, <1>4, <2>1 DEF ReportFind
  <2>3. CASE RecordsOf(h) = {} /\ tablet' = [tablet EXCEPT ![t].pc = "create"]
    <3>1. PICK job : job = [tablet[t] EXCEPT !.pc = "create"]
      OBVIOUS
    <3>2. /\ job \in TabletJob /\ job.pc = "create"
          /\ job.report = tablet[t].report /\ job.hour = h
      BY <2>1, <2>2, <3>1 DEF TabletJob
    <3>3. OneTablet(t) /\ tablet'[t] = job
      BY <1>0, <2>3, <3>1, <3>2 DEF OneTablet
    <3>4. \A a \in answered : a.hour # h
      BY <1>0, <2>3 DEF HeatInv, Holds, RecordsOf
    <3>5. TabletFits(t)'
      BY <1>f, <2>1, <2>2, <3>2, <3>3, <3>4 DEF TabletFits
    <3> QED
      BY <1>0, <2>2, <3>2, <3>3, <3>5, HeatLooks
  <2>4. ASSUME NEW i \in RecordsOf(h), tablet' = [tablet EXCEPT ![t].pc = "update", ![t].on = i]
        PROVE  HeatInv'
    <3>1. PICK job : job = [tablet[t] EXCEPT !.pc = "update", !.on = i]
      OBVIOUS
    <3>2. i \in RecordIds /\ record[i] # None /\ record[i].hour = h
      BY <1>0 DEF RecordsOf
    <3>3. /\ job \in TabletJob /\ job.pc = "update" /\ job.on = i
          /\ job.report = tablet[t].report /\ job.hour = h
      BY <2>1, <2>2, <3>1, <3>2 DEF TabletJob
    <3>4. OneTablet(t) /\ tablet'[t] = job
      BY <1>0, <2>4, <3>1, <3>3 DEF OneTablet
    <3>5. TabletFits(t)'
      BY <1>f, <2>1, <2>2, <3>2, <3>3, <3>4 DEF TabletFits
    <3> QED
      BY <1>0, <2>2, <3>3, <3>4, <3>5, HeatLooks
  <2> QED
    BY <2>2, <2>3, <2>4
<1>5. ASSUME NEW t \in Tablets, ReportUpdate(t) PROVE HeatInv'
  <2>1. PICK i, n : i = tablet[t].on /\ n = tablet[t].report
    OBVIOUS
  <2>2. /\ tablet[t].pc = "update" /\ Answer(t) /\ UNCHANGED <<hour, recorded, reports, before>>
        /\ record' = [record EXCEPT ![i] = [record[i] EXCEPT !.report = n]]
    BY <1>5, <2>1 DEF ReportUpdate, Updated
  <2>3. /\ i \in RecordIds /\ record[i] # None /\ record[i].hour = tablet[t].hour
        /\ n \in Nat
    BY <1>0, <1>f, <2>1, <2>2 DEF TabletFits
  <2>4. PICK row \in HeatRow : /\ record' = [record EXCEPT ![i] = row]
                               /\ row.report = n /\ row.hour = tablet[t].hour
    <3>1. record[i] \in HeatRow
      BY <1>0, <2>3
    <3>2. /\ [record[i] EXCEPT !.report = n] \in HeatRow
          /\ [record[i] EXCEPT !.report = n].report = n
          /\ [record[i] EXCEPT !.report = n].hour = record[i].hour
      BY <2>3, <3>1 DEF HeatRow
    <3> QED
      BY <2>2, <2>3, <3>2
  <2>5. /\ record' \in [RecordIds -> HeatRow \cup {None}]
        /\ record'[i] = row /\ row # None
        /\ \A j \in RecordIds : j # i => record'[j] = record[j]
    BY <1>0, <2>3, <2>4
  <2>6. recorded' \in 0..MaxRecords /\ \A j \in RecordIds : j > recorded' => record'[j] = None
    BY <1>0, <1>f, <2>2, <2>3, <2>5
  <2> QED
    BY <2>1, <2>2, <2>3, <2>4, <2>5, <2>6, HeatAnswers
<1>6. ASSUME NEW t \in Tablets, ReportCreate(t) PROVE HeatInv'
  <2>1. PICK h, n : h = tablet[t].hour /\ n = tablet[t].report
    OBVIOUS
  <2>2. /\ tablet[t].pc = "create" /\ Answer(t) /\ UNCHANGED <<hour, reports, before>>
        /\ h \in Nat /\ n \in Nat
    BY <1>0, <1>6, <1>f, <2>1 DEF ReportCreate, TabletFits
  <2>3. CASE UNCHANGED <<record, recorded>> /\ RecordsOf(h) # {}
    <3>1. PICK j \in RecordIds : record[j] # None /\ record[j].hour = h
      BY <1>0, <2>3 DEF RecordsOf
    <3> QED
      BY <1>0, <1>f, <2>1, <2>2, <2>3, <3>1, HeatAnswers
  <2>4. CASE /\ recorded < MaxRecords /\ recorded' = recorded + 1
             /\ record' = [record EXCEPT ![recorded + 1] = [hour |-> h, report |-> n]]
    <3> DEFINE j == recorded + 1
    <3>1. j \in RecordIds /\ recorded' = j /\ j \in 0..MaxRecords /\ j > recorded
      BY <1>0, <2>4 DEF RecordIds
    <3>2. record[j] = None
      BY <1>f, <3>1
    <3>3. PICK row \in HeatRow : /\ record' = [record EXCEPT ![j] = row]
                                 /\ row.hour = h /\ row.report = n
      <4>1. [hour |-> h, report |-> n] \in HeatRow
        BY <2>2 DEF HeatRow
      <4> QED
        BY <2>4, <4>1
    <3>4. \A i \in RecordIds : i > j => i > recorded /\ i # j
      BY <1>0
    <3> HIDE DEF j
    <3>5. /\ record' \in [RecordIds -> HeatRow \cup {None}]
          /\ record'[j] = row /\ row # None
          /\ \A i \in RecordIds : i # j => record'[i] = record[i]
      BY <1>0, <3>1, <3>3
    <3>6. \A i \in RecordIds : i > recorded' => record'[i] = None
      BY <1>f, <3>1, <3>4, <3>5
    <3> QED
      BY <2>1, <2>2, <3>1, <3>2, <3>3, <3>5, <3>6, HeatAnswers
  <2> QED
    BY <1>6, <2>1, <2>3, <2>4 DEF ReportCreate
<1>7. ASSUME NEW t \in Tablets, ReportFails(t) PROVE HeatInv'
  <2>1. /\ UNCHANGED <<hour, record, recorded, reports, answered, before>>
        /\ tablet' = [tablet EXCEPT ![t] = Quiet]
    BY <1>7 DEF ReportFails
  <2>2. OneTablet(t) /\ tablet'[t].pc = "idle"
    BY <1>0, <1>q, <2>1 DEF OneTablet
  <2>3. TabletFits(t)'
    BY <2>2 DEF TabletFits
  <2> QED
    BY <1>0, <2>1, <2>2, <2>3, HeatLooks
<1> QED
  BY <1>1, <1>2, <1>3, <1>4, <1>5, <1>6, <1>7 DEF HeatNext

LEMMA HeatAlways == HeatSpec => []HeatInv
<1> QED
  BY InitHeatInv, NextHeatInv, PTL DEF HeatSpec

\* Once a report of an hour is answered, the hour has a record whose report was
\* not over before an answered one began, with a site and without (recordHourly).
THEOREM HoursHoldTheNewest == HeatSpec => []NewestHolds
<1>1. HeatInv => NewestHolds
  BY DEF HeatInv, HeatType, Holds, NewestHolds, RecordsOf, Records, Present
<1> QED
  BY <1>1, HeatAlways, PTL

-----------------------------------------------------------------------------
(* Backups *)

WatcherJob == [pc : {"idle", "stale", "clear", "mailed"}, deed : Deeds \cup {None}]

BackupsType ==
    /\ halfDay \in 0..MaxHalfDay
    /\ alertDays \subseteq Days
    /\ sent \in [Deeds -> Nat]
    /\ watcher \in [Watchers -> WatcherJob]

\* The heartbeat is about a day that has come.
WatcherFits(w) ==
    /\ watcher[w].pc # "idle" => watcher[w].deed \in Deeds
    /\ watcher[w].pc \in {"stale", "mailed"} => watcher[w].deed \notin Requests
    /\ watcher[w].pc # "idle" /\ watcher[w].deed \notin Requests => watcher[w].deed <= Day(halfDay)

\* Between its look-up and its row.
Holding(w, deed) == watcher[w].pc \in {"clear", "mailed"} /\ watcher[w].deed = deed

\* A deed nothing has let through again: one execution at most is about to do
\* or to record it, it is not done when one is about to, and once a warning is
\* out its row is, or will be, there.
DeedFits(deed) ==
    deed \notin excused =>
        /\ sent[deed] <= 1
        /\ \A v, w \in Watchers : Holding(v, deed) /\ Holding(w, deed) => v = w
        /\ \A w \in Watchers : Holding(w, deed) /\ watcher[w].pc = "clear" => sent[deed] = 0
        /\ sent[deed] # 0 /\ deed \notin Requests =>
            \/ Warned(deed)
            \/ \E w \in Watchers : Holding(w, deed) /\ watcher[w].pc = "mailed"

\* Inductive.
BackupsInv ==
    /\ BackupsType
    /\ \A w \in Watchers : WatcherFits(w)
    /\ \A deed \in Deeds : DeedFits(deed)

LEMMA BackupNumbers ==
    /\ MaxHalfDay \in Nat /\ StaleAfter \in Nat /\ Days \subseteq Nat
    /\ Deeds = Days \cup Requests /\ Days \cap Requests = {}
    /\ \A t \in Nat : Day(t) \in Nat /\ Day(t) <= Day(t + 1)
    /\ \A t \in 0..MaxHalfDay : Day(t) \in Days
<1>1. MaxHalfDay \in Nat /\ StaleAfter \in Nat /\ Requests \cap Nat = {}
  BY BackupsAssumption
<1>2. \A t \in Nat : Day(t) \in Nat /\ Day(t) <= Day(t + 1)
  BY DEF Day
<1>3. \A t \in 0..MaxHalfDay : Day(t) \in 0..Day(MaxHalfDay)
  BY <1>1 DEF Day
<1> QED
  BY <1>1, <1>2, <1>3 DEF Days, Deeds

LEMMA InitBackupsInv == BackupsInit => BackupsInv
<1> SUFFICES ASSUME BackupsInit PROVE BackupsInv
  OBVIOUS
<1> USE BackupNumbers
<1>1. Unoccupied \in WatcherJob /\ Unoccupied.pc = "idle"
  BY DEF Unoccupied, WatcherJob
<1>2. BackupsType
  BY <1>1 DEF BackupsInit, BackupsType
<1>3. \A w \in Watchers : WatcherFits(w)
  BY <1>1 DEF BackupsInit, WatcherFits
<1>4. \A deed \in Deeds : DeedFits(deed)
  BY <1>1 DEF BackupsInit, DeedFits, Holding
<1> QED
  BY <1>2, <1>3, <1>4 DEF BackupsInv

\* One execution moves.
OneWatcher(w) ==
    /\ watcher' \in [Watchers -> WatcherJob]
    /\ \A v \in Watchers : v # w => watcher'[v] = watcher[v]

LEMMA WatcherMoves ==
    ASSUME BackupsType, NEW w \in Watchers, NEW pc \in {"idle", "stale", "clear", "mailed"},
           NEW deed \in Deeds, Occupied(w, pc, deed)
    PROVE  OneWatcher(w) /\ watcher'[w].pc = pc /\ watcher'[w].deed = deed
BY DEF BackupsType, WatcherJob, OneWatcher, Occupied

LEMMA WatcherRests ==
    ASSUME BackupsType, NEW w \in Watchers, LetGo(w)
    PROVE  OneWatcher(w) /\ watcher'[w].pc = "idle"
<1>1. Unoccupied \in WatcherJob /\ Unoccupied.pc = "idle"
  BY DEF Unoccupied, WatcherJob
<1> QED
  BY <1>1 DEF BackupsType, OneWatcher, LetGo

\* A step in which one execution moves: what is left to show is about its deed.
LEMMA BackupsKeep ==
    ASSUME BackupsInv, NEW w \in Watchers, OneWatcher(w), WatcherFits(w)', halfDay' = halfDay,
           alertDays' \subseteq Days, alertDays \subseteq alertDays',
           excused \subseteq excused', sent' \in [Deeds -> Nat], NEW deed,
           \A d \in Deeds : d # deed => sent'[d] = sent[d],
           \A d \in Deeds : d # deed => ~Holding(w, d) /\ ~Holding(w, d)',
           deed \in Deeds => DeedFits(deed)'
    PROVE  BackupsInv'
<1>1. BackupsType'
  BY DEF BackupsInv, BackupsType, OneWatcher
<1>2. \A v \in Watchers : WatcherFits(v)'
  BY DEF BackupsInv, WatcherFits, OneWatcher
<1>3. ASSUME NEW d \in Deeds PROVE DeedFits(d)'
  <2>1. CASE d = deed
    BY <2>1
  <2>2. CASE d # deed
    <3>1. DeedFits(d) /\ sent'[d] = sent[d]
      BY <2>2 DEF BackupsInv
    <3>2. \A v \in Watchers : Holding(v, d)' <=> Holding(v, d)
      BY <2>2 DEF OneWatcher, Holding
    <3>3. \A v \in Watchers : Holding(v, d) => watcher'[v] = watcher[v]
      BY <2>2 DEF OneWatcher
    <3>4. Warned(d) => Warned(d)'
      BY DEF Warned
    <3> QED
      BY <3>1, <3>2, <3>3, <3>4 DEF DeedFits
  <2> QED
    BY <2>1, <2>2
<1> QED
  BY <1>1, <1>2, <1>3 DEF BackupsInv

LEMMA NextBackupsInv == BackupsInv /\ [BackupsNext]_backupVars => BackupsInv'
<1> SUFFICES ASSUME BackupsInv, [BackupsNext]_backupVars PROVE BackupsInv'
  OBVIOUS
<1> USE BackupNumbers
<1>0. /\ BackupsType
      /\ halfDay \in 0..MaxHalfDay /\ halfDay \in Nat /\ Day(halfDay) \in Days /\ Day(halfDay) \in Nat
      /\ alertDays \subseteq Days /\ sent \in [Deeds -> Nat]
      /\ watcher \in [Watchers -> WatcherJob]
  BY DEF BackupsInv, BackupsType
<1>f. /\ \A w \in Watchers : WatcherFits(w)
      /\ \A deed \in Deeds : DeedFits(deed)
  BY DEF BackupsInv
<1>1. CASE UNCHANGED backupVars
  BY <1>1 DEF backupVars, BackupsInv, BackupsType, WatcherFits, DeedFits, Holding, Warned
<1>2. CASE \E ok \in BOOLEAN, at \in 0..MaxHalfDay : Report(ok, at)
  <2>1. UNCHANGED <<halfDay, alertDays, sent, excused, watcher>>
    BY <1>2 DEF Report
  <2> QED
    BY <2>1 DEF BackupsInv, BackupsType, WatcherFits, DeedFits, Holding, Warned
<1>3. CASE BackupTick
  <2>1. /\ UNCHANGED <<alertDays, sent, excused, watcher>>
        /\ halfDay' = halfDay + 1 /\ halfDay' \in 0..MaxHalfDay
    BY <1>0, <1>3 DEF BackupTick
  <2>2. Day(halfDay') \in Nat /\ Day(halfDay) <= Day(halfDay')
    BY <1>0, <2>1
  <2>3. ASSUME NEW w \in Watchers PROVE WatcherFits(w)'
    <3>1. WatcherFits(w)
      BY <1>f
    <3>2. watcher[w].deed \in Deeds /\ watcher[w].deed \notin Requests => watcher[w].deed \in Nat
      OBVIOUS
    <3> QED
      BY <1>0, <2>1, <2>2, <3>1, <3>2 DEF WatcherFits
  <2> QED
    BY <1>f, <2>1, <2>3 DEF BackupsInv, BackupsType, DeedFits, Holding, Warned
\* An execution that holds nothing looks, or gives up.
<1>l. ASSUME NEW w \in Watchers, OneWatcher(w), WatcherFits(w)',
             \A d \in Deeds : ~Holding(w, d) /\ ~Holding(w, d)',
             UNCHANGED <<halfDay, alertDays, sent>>, excused \subseteq excused'
      PROVE  BackupsInv'
  <2>1. PICK deed : deed \notin Deeds
    BY NotEverything
  <2> QED
    BY <1>0, <1>l, <2>1, BackupsKeep
<1>4. ASSUME NEW w \in Watchers, Heartbeat(w) PROVE BackupsInv'
  <2>1. PICK d : d = Day(halfDay)
    OBVIOUS
  <2>2. d \in Deeds /\ d \notin Requests /\ d <= Day(halfDay)
    BY <1>0, <2>1
  <2>3. /\ Occupied(w, "stale", d) /\ UNCHANGED <<halfDay, alertDays, sent, excused>>
        /\ watcher[w].pc = "idle"
    BY <1>4, <2>1 DEF Heartbeat, Unoccupied
  <2>4. OneWatcher(w) /\ watcher'[w].pc = "stale" /\ watcher'[w].deed = d
    BY <1>0, <2>2, <2>3, WatcherMoves
  <2>5. WatcherFits(w)'
    BY <2>2, <2>3, <2>4 DEF WatcherFits
  <2> QED
    BY <1>l, <2>3, <2>4, <2>5 DEF Holding
\* An execution gets through.
<1>c. ASSUME NEW w \in Watchers, NEW deed \in Deeds, Occupied(w, "clear", deed),
             watcher[w].pc \in {"idle", "stale"},
             deed \notin Requests => deed <= Day(halfDay),
             deed \in Requests => sent[deed] = 0,
             deed \notin Requests => ~Warned(deed),
             IF Unseen(w, deed) THEN Excuse(deed) ELSE UNCHANGED excused,
             UNCHANGED <<halfDay, alertDays, sent>>
      PROVE  BackupsInv'
  <2>1. OneWatcher(w) /\ watcher'[w].pc = "clear" /\ watcher'[w].deed = deed
    BY <1>0, <1>c, WatcherMoves
  <2>2. WatcherFits(w)'
    BY <1>c, <2>1 DEF WatcherFits
  <2>3. excused \subseteq excused'
    BY <1>c DEF Excuse
  <2>4. DeedFits(deed)'
    <3> SUFFICES ASSUME deed \notin excused' PROVE DeedFits(deed)'
      BY DEF DeedFits
    <3>1. \A v \in Watchers : v # w => ~Holding(v, deed)
      BY <1>c DEF Unseen, Excuse, Holding
    <3>2. \A v \in Watchers : Holding(v, deed)' => v = w
      BY <2>1, <3>1 DEF OneWatcher, Holding
    <3>3. ~Holding(w, deed)
      BY <1>c DEF Holding
    <3>4. sent[deed] = 0
      <4>1. DeedFits(deed) /\ deed \notin excused
        BY <1>f, <2>3
      <4> QED
        BY <1>c, <3>1, <3>3, <4>1 DEF DeedFits
    <3> QED
      BY <1>c, <3>2, <3>4 DEF DeedFits
  <2>5. \A d \in Deeds : d # deed => ~Holding(w, d) /\ ~Holding(w, d)'
    BY <1>c, <2>1 DEF Holding
  <2> QED
    BY <1>0, <1>c, <2>1, <2>2, <2>3, <2>4, <2>5, BackupsKeep
<1>5. ASSUME NEW w \in Watchers, LookUpAlert(w) PROVE BackupsInv'
  <2>1. PICK d : d = watcher[w].deed
    OBVIOUS
  <2>2. /\ watcher[w].pc = "stale" /\ UNCHANGED <<halfDay, alertDays, sent>>
        /\ IF Warned(d) THEN LetGo(w) /\ UNCHANGED excused
           ELSE /\ Occupied(w, "clear", d)
                /\ IF Unseen(w, d) THEN Excuse(d) ELSE UNCHANGED excused
    BY <1>5, <2>1 DEF LookUpAlert, LookUp
  <2>3. d \in Deeds /\ d \notin Requests /\ d <= Day(halfDay)
    BY <1>f, <2>1, <2>2 DEF WatcherFits
  <2>4. CASE Warned(d)
    <3>1. OneWatcher(w) /\ watcher'[w].pc = "idle"
      BY <1>0, <2>2, <2>4, WatcherRests
    <3>2. WatcherFits(w)'
      BY <3>1 DEF WatcherFits
    <3> QED
      BY <1>l, <2>2, <2>4, <3>1, <3>2 DEF Holding
  <2>5. CASE ~Warned(d)
    BY <1>c, <2>2, <2>3, <2>5
  <2> QED
    BY <2>4, <2>5
<1>6. ASSUME NEW w \in Watchers, NEW request \in Requests, AskRead(w, request) PROVE BackupsInv'
  <2>1. /\ watcher[w].pc = "idle" /\ sent[request] = 0 /\ Occupied(w, "clear", request)
        /\ IF Unseen(w, request) THEN Excuse(request) ELSE UNCHANGED excused
        /\ UNCHANGED <<halfDay, alertDays, sent>>
    BY <1>6 DEF AskRead, Unoccupied
  <2> QED
    BY <1>c, <2>1
\* It does the deed: mails the warning, or stores the request.
<1>d. ASSUME NEW w \in Watchers, NEW deed \in Deeds, Holding(w, deed), watcher[w].pc = "clear",
             sent' = [sent EXCEPT ![deed] = sent[deed] + 1],
             UNCHANGED <<halfDay, alertDays, excused>>, OneWatcher(w), WatcherFits(w)',
             \/ watcher'[w].pc = "mailed" /\ watcher'[w].deed = deed
             \/ watcher'[w].pc = "idle" /\ deed \in Requests
      PROVE  BackupsInv'
  <2>1. sent' \in [Deeds -> Nat] /\ sent'[deed] = sent[deed] + 1
        /\ \A d \in Deeds : d # deed => sent'[d] = sent[d]
    BY <1>0, <1>d
  <2>2. DeedFits(deed)'
    <3> SUFFICES ASSUME deed \notin excused' PROVE DeedFits(deed)'
      BY DEF DeedFits
    <3>1. DeedFits(deed) /\ deed \notin excused
      BY <1>d, <1>f
    <3>2. sent'[deed] = 1
      BY <1>d, <2>1, <3>1 DEF DeedFits
    <3>3. \A v \in Watchers : Holding(v, deed)' => v = w
      BY <1>d, <3>1 DEF DeedFits, OneWatcher, Holding
    <3>4. \A v \in Watchers : Holding(v, deed)' => watcher'[v].pc # "clear"
      BY <1>d, <3>3 DEF Holding
    <3>5. deed \notin Requests => Holding(w, deed)' /\ watcher'[w].pc = "mailed"
      BY <1>d DEF Holding
    <3> QED
      BY <3>2, <3>3, <3>4, <3>5 DEF DeedFits
  <2>3. \A d \in Deeds : d # deed => ~Holding(w, d) /\ ~Holding(w, d)'
    BY <1>d DEF Holding
  <2> QED
    BY <1>0, <1>d, <2>1, <2>2, <2>3, BackupsKeep
\* It lets go: of nothing that is done, or the deed is excused or recorded.
<1>g. ASSUME NEW w \in Watchers, LetGo(w), UNCHANGED <<halfDay, sent>>,
             alertDays' \subseteq Days, alertDays \subseteq alertDays', excused \subseteq excused',
             watcher[w].pc = "mailed" =>
                watcher[w].deed \in excused' \/ \E d \in alertDays' : d >= watcher[w].deed
      PROVE  BackupsInv'
  <2>1. OneWatcher(w) /\ watcher'[w].pc = "idle"
    BY <1>0, <1>g, WatcherRests
  <2>2. WatcherFits(w)'
    BY <2>1 DEF WatcherFits
  <2>3. PICK deed : deed = watcher[w].deed
    OBVIOUS
  <2>4. ASSUME deed \in Deeds PROVE DeedFits(deed)'
    <3> SUFFICES ASSUME deed \notin excused' PROVE DeedFits(deed)'
      BY DEF DeedFits
    <3>1. DeedFits(deed) /\ deed \notin excused
      BY <1>f, <1>g, <2>4
    <3>2. \A v \in Watchers : Holding(v, deed)' => v # w /\ Holding(v, deed) /\ watcher'[v] = watcher[v]
      BY <2>1 DEF OneWatcher, Holding
    <3>3. \A v \in Watchers : v # w /\ Holding(v, deed) => Holding(v, deed)' /\ watcher'[v] = watcher[v]
      BY <2>1 DEF OneWatcher, Holding
    <3>4. sent'[deed] = sent[deed]
      BY <1>g
    <3>5. Warned(deed) => Warned(deed)'
      BY <1>g DEF Warned
    <3>6. watcher[w].pc = "mailed" => Warned(deed)'
      BY <1>g, <2>3 DEF Warned
    <3>7. sent'[deed] # 0 /\ deed \notin Requests =>
            \/ Warned(deed)'
            \/ \E v \in Watchers : Holding(v, deed)' /\ watcher'[v].pc = "mailed"
      BY <3>1, <3>3, <3>4, <3>5, <3>6 DEF DeedFits
    <3> QED
      BY <3>1, <3>2, <3>4, <3>7 DEF DeedFits
  <2>5. \A d \in Deeds : d # deed => ~Holding(w, d) /\ ~Holding(w, d)'
    BY <2>1, <2>3 DEF Holding
  <2> QED
    BY <1>0, <1>g, <2>1, <2>2, <2>4, <2>5, BackupsKeep
<1>7. ASSUME NEW w \in Watchers, NEW ok \in BOOLEAN, Warn(w, ok) PROVE BackupsInv'
  <2>1. PICK d : d = watcher[w].deed
    OBVIOUS
  <2>2. /\ watcher[w].pc = "clear" /\ d \notin Requests
        /\ UNCHANGED <<halfDay, alertDays, excused>>
        /\ IF ok THEN Occupied(w, "mailed", d) /\ sent' = [sent EXCEPT ![d] = sent[d] + 1]
           ELSE LetGo(w) /\ UNCHANGED sent
    BY <1>7, <2>1 DEF Warn
  <2>3. CASE ~ok
    BY <1>0, <1>g, <2>2, <2>3
  <2>4. CASE ok
    <3>1. d \in Deeds /\ d <= Day(halfDay) /\ Holding(w, d)
      BY <1>f, <2>1, <2>2 DEF WatcherFits, Holding
    <3>2. OneWatcher(w) /\ watcher'[w].pc = "mailed" /\ watcher'[w].deed = d
      BY <1>0, <2>2, <2>4, <3>1, WatcherMoves
    <3>3. WatcherFits(w)'
      BY <2>2, <3>1, <3>2 DEF WatcherFits
    <3> QED
      BY <1>d, <2>2, <2>4, <3>1, <3>2, <3>3
  <2> QED
    BY <2>3, <2>4
<1>8. ASSUME NEW w \in Watchers, NEW ok \in BOOLEAN, Record(w, ok) PROVE BackupsInv'
  <2>1. PICK d : d = watcher[w].deed
    OBVIOUS
  <2>2. /\ watcher[w].pc = "mailed" /\ LetGo(w) /\ UNCHANGED <<halfDay, sent>>
        /\ IF ok THEN alertDays' = alertDays \cup {Day(halfDay)} /\ UNCHANGED excused
           ELSE Excuse(d) /\ UNCHANGED alertDays
    BY <1>8, <2>1 DEF Record
  <2>3. d \in Days /\ d <= Day(halfDay)
    BY <1>f, <2>1, <2>2 DEF WatcherFits
  <2>4. /\ alertDays' \subseteq Days /\ alertDays \subseteq alertDays'
        /\ excused \subseteq excused'
    BY <1>0, <2>2 DEF Excuse
  <2>5. d \in excused' \/ \E e \in alertDays' : e >= d
    BY <2>2, <2>3 DEF Excuse
  <2> QED
    BY <1>g, <2>1, <2>2, <2>4, <2>5
<1>9. ASSUME NEW w \in Watchers, AskStore(w) PROVE BackupsInv'
  <2>1. PICK d : d = watcher[w].deed
    OBVIOUS
  <2>2. /\ watcher[w].pc = "clear" /\ d \in Requests /\ d \in Deeds /\ Holding(w, d)
        /\ sent' = [sent EXCEPT ![d] = sent[d] + 1] /\ LetGo(w)
        /\ UNCHANGED <<halfDay, alertDays, excused>>
    BY <1>9, <2>1 DEF AskStore, Holding
  <2>3. OneWatcher(w) /\ watcher'[w].pc = "idle"
    BY <1>0, <2>2, WatcherRests
  <2>4. WatcherFits(w)'
    BY <2>3 DEF WatcherFits
  <2> QED
    BY <1>d, <2>2, <2>3, <2>4
<1>10. ASSUME NEW w \in Watchers, WatcherDies(w) PROVE BackupsInv'
  <2>1. /\ LetGo(w) /\ UNCHANGED <<halfDay, alertDays, sent>>
        /\ IF watcher[w].pc = "mailed" THEN Excuse(watcher[w].deed) ELSE UNCHANGED excused
    BY <1>10 DEF WatcherDies
  <2>2. excused \subseteq excused' /\ (watcher[w].pc = "mailed" => watcher[w].deed \in excused')
    BY <2>1 DEF Excuse
  <2> QED
    BY <1>0, <1>g, <2>1, <2>2
<1> QED
  BY <1>1, <1>2, <1>3, <1>4, <1>5, <1>6, <1>7, <1>8, <1>9, <1>10 DEF BackupsNext

LEMMA BackupsAlways == BackupsSpec => []BackupsInv
<1> QED
  BY InitBackupsInv, NextBackupsInv, PTL DEF BackupsSpec

\* One warning a day and one waiting request of a kind, unless a row was missing
\* or late when another execution looked
\* (checkBackupHeartbeat, requestBackup, createRestoreRequest).
THEOREM DeedsAreDoneOnce == BackupsSpec => []DoneOnce
<1>1. BackupsInv => DoneOnce
  BY DEF BackupsInv, BackupsType, DeedFits, DoneOnce
<1> QED
  BY <1>1, BackupsAlways, PTL

-----------------------------------------------------------------------------
(* Sites *)

MasterJob == [pc : {"idle", "create", "template", "activate", "deactivate", "staff", "remove",
                    "take", "takeAll"},
              on : SiteIds \cup {None}, code : SiteCodes \cup {None}, from : SUBSET SiteIds]

Unbuilt == built \in Nat /\ \A j \in SiteIds : j > built => site[j] = None

\* Inductive: whoever is at a site that a removal is at work on came late.
SitesInv ==
    /\ DOMAIN site = SiteIds /\ Unbuilt /\ master \in [Masters -> MasterJob]
    /\ \A c \in Masters, j \in SiteIds :
        /\ master[c].pc \in {"staff", "remove"}
        /\ site[j] # None
        /\ site[j].parent = master[c].on
        => j \in young
    /\ \A c \in Masters, w \in DOMAIN place :
        /\ master[c].pc = "remove"
        /\ place[w] = master[c].on
        => w \in late

LEMMA InitSitesInv == SitesInit => SitesInv
<1> SUFFICES ASSUME SitesInit PROVE SitesInv
  OBVIOUS
<1>1. DOMAIN site = SiteIds /\ Unbuilt
  BY SitesAssumption DEF SitesInit, Unbuilt, SiteIds
<1>2. Still \in MasterJob /\ Still.pc = "idle"
  BY DEF Still, MasterJob
<1>3. master \in [Masters -> MasterJob] /\ \A c \in Masters : master[c].pc = "idle"
  BY <1>2 DEF SitesInit
<1> QED
  BY <1>1, <1>3 DEF SitesInv

\* One call moves.
MasterSteps(c, job) == master' = [master EXCEPT ![c] = job] /\ job \in MasterJob

\* A call goes on with the site of its removal, or has just counted nobody there.
Counted(c) ==
    /\ \/ master'[c].pc \notin {"staff", "remove"}
       \/ master[c].pc \in {"staff", "remove"} /\ master'[c].on = master[c].on
       \/ site' = site /\ \A j \in SiteIds : site[j] # None => site[j].parent # master'[c].on
    /\ \/ master'[c].pc # "remove"
       \/ master[c].pc = "remove" /\ master'[c].on = master[c].on
       \/ place' = place /\ \A w \in DOMAIN place : place[w] # master'[c].on

LEMMA CountedKeeps ==
    ASSUME SitesInv, Arrivals, DOMAIN site' = SiteIds, Unbuilt', DOMAIN place' = DOMAIN place,
           master' \in [Masters -> MasterJob], \A c \in Masters : Counted(c)
    PROVE  SitesInv'
<1>1. ASSUME NEW c \in Masters, NEW j \in SiteIds, master'[c].pc \in {"staff", "remove"},
             site'[j] # None, site'[j].parent = master'[c].on
      PROVE  j \in young'
  <2>1. CASE site[j] # None /\ site[j].parent = site'[j].parent
    <3>1. master[c].pc \in {"staff", "remove"} /\ master'[c].on = master[c].on
      BY <1>1, <2>1 DEF Counted
    <3>2. j \in young
      BY <1>1, <2>1, <3>1 DEF SitesInv
    <3> QED
      BY <1>1, <2>1, <3>2 DEF Arrivals
  <2>2. CASE site[j] = None \/ site[j].parent # site'[j].parent
    <3>1. master[c].pc \in {"staff", "remove"} /\ master'[c].on = master[c].on
      BY <1>1, <2>2 DEF Counted
    <3>2. Closing(site'[j].parent, {"staff", "remove"})
      BY <1>1, <3>1 DEF Closing
    <3> QED
      BY <1>1, <2>2, <3>2 DEF Arrivals
  <2> QED
    BY <2>1, <2>2
<1>2. ASSUME NEW c \in Masters, NEW w \in DOMAIN place, master'[c].pc = "remove",
             place'[w] = master'[c].on
      PROVE  w \in late'
  <2>1. CASE place'[w] = place[w]
    <3>1. master[c].pc = "remove" /\ master'[c].on = master[c].on
      BY <1>2, <2>1 DEF Counted
    <3>2. w \in late
      BY <1>2, <2>1, <3>1 DEF SitesInv
    <3> QED
      BY <2>1, <3>2 DEF Arrivals
  <2>2. CASE place'[w] # place[w]
    <3>1. master[c].pc = "remove" /\ master'[c].on = master[c].on
      BY <1>2, <2>2 DEF Counted
    <3>2. Closing(place'[w], {"remove"})
      BY <1>2, <3>1 DEF Closing
    <3> QED
      BY <2>2, <3>2 DEF Arrivals
  <2> QED
    BY <2>1, <2>2
<1> QED
  BY <1>1, <1>2 DEF SitesInv

LEMMA MastersKeep ==
    ASSUME SitesInv, Arrivals, DOMAIN site' = SiteIds, Unbuilt', DOMAIN place' = DOMAIN place,
           \/ master' = master
           \/ \E c \in Masters : \E job :
                MasterSteps(c, job) /\ job.pc \notin {"staff", "remove"}
    PROVE  SitesInv'
<1>1. CASE master' = master
  <2>1. \A c \in Masters : Counted(c)
    BY <1>1 DEF Counted
  <2>2. master' \in [Masters -> MasterJob]
    BY <1>1 DEF SitesInv
  <2> QED
    BY <2>1, <2>2, CountedKeeps
<1>2. ASSUME NEW c \in Masters, NEW job, MasterSteps(c, job), job.pc \notin {"staff", "remove"}
      PROVE  SitesInv'
  <2>1. /\ master' \in [Masters -> MasterJob] /\ master'[c] = job
        /\ \A d \in Masters : d # c => master'[d] = master[d]
    BY <1>2 DEF SitesInv, MasterSteps
  <2>2. \A d \in Masters : Counted(d)
    BY <1>2, <2>1 DEF Counted
  <2> QED
    BY <2>1, <2>2, CountedKeeps
<1> QED
  BY <1>1, <1>2

LEMMA NextSitesInv == SitesInv /\ [SitesNext]_sitesVars => SitesInv'
<1> SUFFICES ASSUME SitesInv, [SitesNext]_sitesVars PROVE SitesInv'
  OBVIOUS
<1>0. /\ DOMAIN site = SiteIds /\ Unbuilt /\ master \in [Masters -> MasterJob]
      /\ AllSites \subseteq SiteIds
  BY DEF SitesInv, AllSites, Present
<1>r. ASSUME NEW c \in Masters, Rests(c)
      PROVE  \E job : MasterSteps(c, job) /\ job.pc \notin {"staff", "remove"}
  <2>1. Still \in MasterJob /\ Still.pc = "idle"
    BY DEF Still, MasterJob
  <2> QED
    BY <1>r, <2>1 DEF Rests, MasterSteps
<1>b. ASSUME NEW row, NEW device, Build(row, device)
      PROVE  DOMAIN site' = SiteIds /\ Unbuilt' /\ DOMAIN place' = DOMAIN place
  <2>1. built \in Nat /\ built' = built + 1 /\ site' = [site EXCEPT ![built + 1] = row]
    BY <1>0, <1>b DEF Build, Unbuilt
  <2>2. DOMAIN site' = SiteIds /\ \A j \in SiteIds : j # built + 1 => site'[j] = site[j]
    BY <1>0, <2>1
  <2>3. SiteIds \subseteq Nat
    BY SitesAssumption DEF SiteIds
  <2>4. Unbuilt'
    BY <1>0, <2>1, <2>2, <2>3 DEF Unbuilt
  <2> QED
    BY <1>b, <2>2, <2>4 DEF Build
<1>m. ASSUME NEW c \in Masters, NEW on \in SiteIds \cup {None}, NEW k \in SiteCodes \cup {None},
             NEW pc \in {"create", "template", "activate", "deactivate", "staff"},
             Remember(c, pc, on, k)
      PROVE  \E job : MasterSteps(c, job) /\ job.pc = pc /\ job.on = on
  <2>1. PICK job : job = [Still EXCEPT !.pc = pc, !.on = on, !.code = k]
    OBVIOUS
  <2>2. job = [pc |-> pc, on |-> on, code |-> k, from |-> {}]
    BY <2>1 DEF Still
  <2>3. job \in MasterJob
    BY <2>2 DEF MasterJob
  <2> QED
    BY <1>m, <2>1, <2>2, <2>3 DEF Remember, MasterSteps
<1>1. CASE UNCHANGED sitesVars
  BY <1>1 DEF sitesVars, SitesInv, Unbuilt
<1>a. ASSUME SitesNext PROVE Arrivals
  BY <1>a DEF SitesNext
<1>2. ASSUME Arrivals, NEW c \in Masters, NEW k \in SiteCodes,
             \/ \E p \in SiteIds \cup {None} : CreateSiteRead(c, k, p)
             \/ CreateFromTemplateRead(c, k)
      PROVE  SitesInv'
  <2>1. \E job : MasterSteps(c, job) /\ job.pc \notin {"staff", "remove"}
    BY <1>2, <1>m DEF CreateSiteRead, CreateFromTemplateRead
  <2>2. DOMAIN site' = SiteIds /\ Unbuilt' /\ DOMAIN place' = DOMAIN place
    BY <1>0, <1>2 DEF CreateSiteRead, CreateFromTemplateRead, Unbuilt
  <2> QED
    BY <1>2, <2>1, <2>2, MastersKeep
<1>3. ASSUME Arrivals, NEW c \in Masters, NEW i \in SiteIds, ToggleRead(c, i) PROVE SitesInv'
  <2>1. \E pc \in {"activate", "deactivate"} : Remember(c, pc, i, None)
    BY <1>3 DEF ToggleRead
  <2>2. \E job : MasterSteps(c, job) /\ job.pc \notin {"staff", "remove"}
    BY <2>1, <1>m
  <2>3. DOMAIN site' = SiteIds /\ Unbuilt' /\ DOMAIN place' = DOMAIN place
    BY <1>0, <1>3 DEF ToggleRead, Unbuilt
  <2> QED
    BY <1>3, <2>2, <2>3, MastersKeep
<1>4. ASSUME Arrivals, NEW c \in Masters, NEW i \in SiteIds, RemoveRead(c, i) PROVE SitesInv'
  <2>1. PICK job : MasterSteps(c, job) /\ job.pc = "staff" /\ job.on = i
    BY <1>4, <1>m DEF RemoveRead
  <2>2. /\ master' \in [Masters -> MasterJob] /\ master'[c] = job
        /\ \A d \in Masters : d # c => master'[d] = master[d]
    BY <1>0, <2>1 DEF MasterSteps
  <2>3. site' = site /\ place' = place /\ Unbuilt' /\ Children(i) = {}
    BY <1>0, <1>4 DEF RemoveRead, Childless, Unbuilt
  <2>4. \A j \in SiteIds : site[j] # None => site[j].parent # i
    BY <1>0, <2>3 DEF Children, AllSites, Present
  <2>5. \A d \in Masters : Counted(d)
    BY <2>1, <2>2, <2>3, <2>4 DEF Counted
  <2> QED
    BY <1>0, <1>4, <2>2, <2>3, <2>5, CountedKeeps
<1>5. ASSUME Arrivals, NEW c \in Masters, NEW i \in SiteIds, MigrateRead(c, i) PROVE SitesInv'
  <2>1. DefaultSite \subseteq SiteIds
    BY <1>0 DEF DefaultSite
  <2>2. PICK pc \in {"take", "takeAll"} :
          master' = [master EXCEPT ![c] = [Still EXCEPT !.pc = pc, !.on = i, !.from = DefaultSite]]
    BY <1>5 DEF MigrateRead
  <2>3. PICK job : job = [Still EXCEPT !.pc = pc, !.on = i, !.from = DefaultSite]
    OBVIOUS
  <2>4. job = [pc |-> pc, on |-> i, code |-> None, from |-> DefaultSite]
    BY <2>3 DEF Still
  <2>5. MasterSteps(c, job) /\ job.pc \notin {"staff", "remove"}
    BY <2>1, <2>2, <2>3, <2>4 DEF MasterSteps, MasterJob
  <2>6. DOMAIN site' = SiteIds /\ Unbuilt' /\ DOMAIN place' = DOMAIN place
    BY <1>0, <1>5 DEF MigrateRead, Unbuilt
  <2> QED
    BY <1>5, <2>5, <2>6, MastersKeep
<1>6. ASSUME Arrivals, NEW c \in Masters, CreateSite(c) \/ CreateFromTemplate(c) PROVE SitesInv'
  <2>1. Rests(c)
    BY <1>6 DEF CreateSite, CreateFromTemplate
  <2>2. DOMAIN site' = SiteIds /\ Unbuilt' /\ DOMAIN place' = DOMAIN place
    BY <1>0, <1>6, <1>b DEF CreateSite, CreateFromTemplate, Unbuilt
  <2> QED
    BY <1>6, <1>r, <2>1, <2>2, MastersKeep
<1>7. ASSUME Arrivals, NEW c \in Masters, Toggle(c) \/ RemoveSite(c) \/ Migrate(c) \/ MasterDies(c)
      PROVE  SitesInv'
  <2>1. Rests(c)
    BY <1>7 DEF Toggle, RemoveSite, Migrate, MasterDies
  <2>2. DOMAIN site' = SiteIds /\ Unbuilt' /\ DOMAIN place' = DOMAIN place
    <3>1. CASE Toggle(c)
      BY <1>0, <3>1 DEF Toggle, Unbuilt, AllSites, Present
    <3>2. CASE RemoveSite(c)
      <4>1. \A j \in SiteIds : site[j] = None => site'[j] = None
        BY <1>0, <3>2 DEF RemoveSite, Children, AllSites, Present
      <4> QED
        BY <1>0, <3>2, <4>1 DEF RemoveSite, Unbuilt
    <3>3. CASE Migrate(c) \/ MasterDies(c)
      BY <1>0, <3>3 DEF Migrate, MasterDies, Unbuilt
    <3> QED
      BY <1>7, <3>1, <3>2, <3>3
  <2> QED
    BY <1>7, <1>r, <2>1, <2>2, MastersKeep
<1>8. ASSUME Arrivals, NEW c \in Masters, RemoveCount(c) PROVE SitesInv'
  <2>1. UNCHANGED <<site, place>> /\ Unbuilt' /\ master[c].pc = "staff"
    BY <1>0, <1>8 DEF RemoveCount, Unbuilt
  <2>2. CASE Rests(c)
    BY <1>0, <1>8, <1>r, <2>1, <2>2, MastersKeep
  <2>3. CASE StaffOf(master[c].on) = {} /\ master' = [master EXCEPT ![c].pc = "remove"]
    <3>1. PICK job : job = [master[c] EXCEPT !.pc = "remove"]
      OBVIOUS
    <3>2. job \in MasterJob /\ job.pc = "remove" /\ job.on = master[c].on
      BY <1>0, <3>1 DEF MasterJob
    <3>3. /\ master' \in [Masters -> MasterJob] /\ master'[c] = job
          /\ \A d \in Masters : d # c => master'[d] = master[d]
      BY <1>0, <2>3, <3>1, <3>2
    <3>4. \A w \in DOMAIN place : place[w] # master[c].on
      BY <2>3 DEF StaffOf
    <3>5. \A d \in Masters : Counted(d)
      BY <2>1, <3>2, <3>3, <3>4 DEF Counted
    <3> QED
      BY <1>0, <1>8, <2>1, <3>3, <3>5, CountedKeeps
  <2> QED
    BY <1>8, <2>2, <2>3 DEF RemoveCount
<1>9. ASSUME Arrivals, NEW i \in SiteIds,
             \/ \E k \in SiteCodes : SetCode(i, k)
             \/ Settle(i) \/ Hire(i)
             \/ \E w \in StaffIds : Move(w, i)
      PROVE  SitesInv'
  <2>1. master' = master /\ DOMAIN site' = SiteIds /\ Unbuilt' /\ DOMAIN place' = DOMAIN place
    <3>1. CASE (\E k \in SiteCodes : SetCode(i, k)) \/ Settle(i)
      BY <1>0, <3>1 DEF SetCode, Settle, Unbuilt, AllSites, Present
    <3>2. CASE Hire(i) \/ \E w \in StaffIds : Move(w, i)
      BY <1>0, <3>2 DEF Hire, Move, Unbuilt
    <3> QED
      BY <1>9, <3>1, <3>2
  <2> QED
    BY <1>9, <2>1, MastersKeep
<1> QED
  BY <1>1, <1>a, <1>2, <1>3, <1>4, <1>5, <1>6, <1>7, <1>8, <1>9 DEF SitesNext, SitesSteps

LEMMA SitesAlways == SitesSpec => []SitesInv
<1> QED
  BY InitSitesInv, NextSitesInv, PTL DEF SitesSpec

\* A worker loses his site, and a site its parent, only by a removal that had
\* counted before he or it came (remove).
THEOREM NobodyOnTimeIsStranded == SitesSpec => OnlyLateAreStranded
<1> DEFINE Stranding ==
      /\ \A w \in DOMAIN place : place[w] # None /\ place'[w] = None => w \in late
      /\ \A j \in SiteIds :
            site[j] # None /\ site[j].parent # None /\ site'[j] # None /\ site'[j].parent = None =>
                j \in young
<1>1. SitesInv /\ [SitesNext]_sitesVars => [Stranding]_sitesVars
  <2> SUFFICES ASSUME SitesInv, SitesNext PROVE Stranding
    BY DEF sitesVars
  <2>0. /\ DOMAIN site = SiteIds /\ Unbuilt /\ master \in [Masters -> MasterJob]
        /\ AllSites \subseteq SiteIds /\ SiteIds \subseteq Nat /\ None \notin SiteIds
    BY SitesAssumption, NullAssumption DEF SitesInv, AllSites, Present, SiteIds
  <2>b. ASSUME NEW row, NEW device, Build(row, device) PROVE Stranding
    <3>1. /\ built + 1 \in Nat /\ built + 1 > built /\ site' = [site EXCEPT ![built + 1] = row]
      BY <2>0, <2>b DEF Build, Unbuilt
    <3>2. \A j \in SiteIds : site[j] # None => site'[j] = site[j]
      BY <2>0, <3>1 DEF Unbuilt
    <3>3. \A w \in DOMAIN place : place'[w] = None => place[w] = None
      BY <2>b, <3>1, NullAssumption DEF Build
    <3> QED
      BY <3>2, <3>3
  <2>1. ASSUME NEW c \in Masters, RemoveSite(c) PROVE Stranding
    <3>1. CASE UNCHANGED <<site, place>>
      BY <3>1
    <3>2. ASSUME NEW i, i = master[c].on,
                 site' = [j \in SiteIds |-> IF j = i THEN None
                            ELSE IF j \in Children(i) THEN [site[j] EXCEPT !.parent = None]
                            ELSE site[j]],
                 place' = [w \in DOMAIN place |-> IF place[w] = i THEN None ELSE place[w]]
          PROVE  Stranding
      <4>1. master[c].pc = "remove"
        BY <2>1 DEF RemoveSite
      <4>2. ASSUME NEW w \in DOMAIN place, place[w] # None, place'[w] = None PROVE w \in late
        BY <3>2, <4>1, <4>2 DEF SitesInv
      <4>3. ASSUME NEW j \in SiteIds, site[j] # None, site[j].parent # None, site'[j] # None,
                   site'[j].parent = None
            PROVE  j \in young
        <5>1. j \in Children(i)
          BY <3>2, <4>3
        <5>2. site[j].parent = i
          BY <5>1 DEF Children
        <5> QED
          BY <3>2, <4>1, <4>3, <5>2 DEF SitesInv
      <4> QED
        BY <4>2, <4>3
    <3> QED
      BY <2>1, <3>1, <3>2 DEF RemoveSite
  <2>2. ASSUME NEW c \in Masters, CreateSite(c) \/ CreateFromTemplate(c) PROVE Stranding
    BY <2>2, <2>b DEF CreateSite, CreateFromTemplate
  <2>3. ASSUME NEW c \in Masters, Toggle(c) PROVE Stranding
    <3>1. place' = place
      BY <2>3 DEF Toggle
    <3>2. \A j \in SiteIds : site[j] # None /\ site'[j] # None => site'[j].parent = site[j].parent
      <4>1. CASE site' = site
        BY <4>1
      <4>2. ASSUME NEW m, NEW b, site' = [site EXCEPT ![m].active = b]
            PROVE  \A j \in SiteIds :
                     site[j] # None /\ site'[j] # None => site'[j].parent = site[j].parent
        BY <2>0, <4>2
      <4> QED
        BY <2>3, <4>1, <4>2 DEF Toggle
    <3> QED
      BY <3>1, <3>2
  <2>4. ASSUME NEW c \in Masters, Migrate(c) PROVE Stranding
    BY <2>0, <2>4 DEF Migrate
  <2>5. ASSUME NEW i \in SiteIds, \/ \E k \in SiteCodes : SetCode(i, k)
                                  \/ Settle(i)
        PROVE  Stranding
    <3>1. place' = place
      BY <2>5 DEF SetCode, Settle
    <3>2. \A j \in SiteIds : site[j] # None /\ site'[j] # None => site'[j].parent = site[j].parent
      <4>1. ASSUME NEW k, site' = [site EXCEPT ![i].code = k]
            PROVE  \A j \in SiteIds :
                     site[j] # None /\ site'[j] # None => site'[j].parent = site[j].parent
        BY <2>0, <4>1
      <4>2. ASSUME site' = [site EXCEPT ![i].settled = TRUE]
            PROVE  \A j \in SiteIds :
                     site[j] # None /\ site'[j] # None => site'[j].parent = site[j].parent
        BY <2>0, <4>2
      <4> QED
        BY <2>5, <4>1, <4>2 DEF SetCode, Settle
    <3> QED
      BY <3>1, <3>2
  <2>6. ASSUME NEW i \in SiteIds, Hire(i) \/ \E w \in StaffIds : Move(w, i) PROVE Stranding
    BY <2>0, <2>6 DEF Hire, Move
  <2>7. ASSUME UNCHANGED <<site, place>> PROVE Stranding
    BY <2>7
  <2>8. ASSUME NEW c \in Masters,
               \/ \E k \in SiteCodes :
                    \/ \E p \in SiteIds \cup {None} : CreateSiteRead(c, k, p)
                    \/ CreateFromTemplateRead(c, k)
               \/ \E i \in SiteIds : ToggleRead(c, i) \/ RemoveRead(c, i) \/ MigrateRead(c, i)
               \/ RemoveCount(c) \/ MasterDies(c)
        PROVE  UNCHANGED <<site, place>>
    BY <2>8 DEF CreateSiteRead, CreateFromTemplateRead, ToggleRead, RemoveRead, MigrateRead,
                RemoveCount, MasterDies
  <2> QED
    BY <2>1, <2>2, <2>3, <2>4, <2>5, <2>6, <2>7, <2>8 DEF SitesNext, SitesSteps
<1> QED
  BY <1>1, SitesAlways, PTL DEF OnlyLateAreStranded, SitesSpec

-----------------------------------------------------------------------------
(* Scores *)

LEMMA PointsBound ==
    ASSUME NEW n \in Int, NEW d \in Nat, NEW max \in Nat
    PROVE  Points(n, d, max) \in Nat /\ Points(n, d, max) <= max
<1> DEFINE q == Fix2(n, d)
<1>1. d # 0 => q \in Int
  BY DEF Fix2
<1>2. q \in Int => /\ AtMost(max, AtLeast(0, q)) \in Nat
                   /\ AtMost(max, AtLeast(0, q)) <= max
  <2> HIDE DEF q
  <2> QED
    BY DEF AtMost, AtLeast
<1> QED
  BY <1>1, <1>2 DEF Points

LEMMA NormalBound ==
    ASSUME NEW raw \in Int, NEW max \in Nat
    PROVE  Normal(raw, max) \in Nat /\ Normal(raw, max) <= 10000
<1>1. PICK n \in Int : n = 10000 * raw
  BY SMT
<1>2. Points(n, max, 10000) \in Nat /\ Points(n, max, 10000) <= 10000
  BY PointsBound, SMT
<1> QED
  BY <1>1, <1>2, SMT DEF Normal

LEMMA Shares ==
    ASSUME NEW p \in Nat, NEW r \in Nat, NEW t \in Nat, p + r + t = 100, NEW k \in Nat
    PROVE  k * p + k * r + k * t = 100 * k
<1>1. k * (p + r + t) = k * p + k * r + k * t
  BY SMT
<1> QED
  BY <1>1, SMT

LEMMA Monotone ==
    ASSUME NEW x \in Nat, NEW y \in Nat, x <= y, NEW p \in Nat
    PROVE  x * p <= y * p
<1>1. PICK a \in Nat : y = x + a
  BY SMT
<1>2. (x + a) * p = x * p + a * p /\ a * p >= 0
  BY SMT
<1> QED
  BY <1>1, <1>2, SMT

Statistics == {"items", "volume", "hours", "days", "team", "mates", "voids", "edits", "checks",
               "checked", "defects", "sessions", "approved", "diff"}

\* Inductive: what a month adds up is never negative.
ScoresInv == track \in Tracks /\ split \in Splits /\ month \in [Statistics -> Nat]

LEMMA Collected ==
    ASSUME ScoresInv
    PROVE  /\ month.items \in Nat /\ month.volume \in Nat /\ month.hours \in Nat
           /\ month.days \in Nat /\ month.team \in Nat /\ month.mates \in Nat
           /\ month.voids \in Nat /\ month.edits \in Nat /\ month.checks \in Nat
           /\ month.checked \in Nat /\ month.defects \in Nat /\ month.sessions \in Nat
           /\ month.approved \in Nat /\ month.diff \in Nat
BY DEF ScoresInv, Statistics

LEMMA AttendanceBound ==
    ASSUME ScoresInv, NEW max \in Nat
    PROVE  Attendance(month, max) \in Nat /\ Attendance(month, max) <= max
<1>1. PICK n \in Int : n = max * month.days
  BY Collected, SMT
<1>2. WorkingDays \in Nat
  BY ScoresAssumption
<1> QED
  BY <1>1, <1>2, PointsBound DEF Attendance

LEMMA RateBound ==
    ASSUME NEW k \in Nat, NEW m \in Nat, NEW d \in Nat, NEW max \in Nat
    PROVE  Points(k * m, d, max) \in Nat /\ Points(k * m, d, max) <= max
<1>1. PICK n \in Int : n = k * m
  BY SMT
<1> QED
  BY <1>1, PointsBound

LEMMA ReliabilityBound ==
    ASSUME ScoresInv, NEW attend \in Nat, NEW void \in Nat, NEW maxVoid \in Nat,
           NEW edit \in Nat, NEW maxEdit \in Nat
    PROVE  /\ Reliability(month, attend, void, maxVoid, edit, maxEdit) \in Int
           /\ Reliability(month, attend, void, maxVoid, edit, maxEdit) <= attend
<1>1. PICK a \in Nat : a = Attendance(month, attend) /\ a <= attend
  BY AttendanceBound
<1>2. PICK v \in Nat : v = Points(void * month.voids, month.items, maxVoid)
  BY Collected, RateBound
<1>3. PICK e \in Nat : e = Points(edit * month.edits, month.items, maxEdit)
  BY Collected, RateBound
<1>4. Reliability(month, attend, void, maxVoid, edit, maxEdit) = a - v - e
  BY <1>1, <1>2, <1>3 DEF Reliability
<1> QED
  BY <1>1, <1>4, SMT

LEMMA AccuracyBound ==
    ASSUME ScoresInv
    PROVE  Accuracy(month) \in Nat /\ Accuracy(month) <= 2500
<1>1. PICK n \in Int : n = 2500 * (month.approved - month.diff)
  BY Collected, SMT
<1>2. PICK x \in Nat : x = 2500
  BY SMT
<1>3. Points(n, month.approved, x) \in Nat /\ Points(n, month.approved, x) <= x
  BY Collected, PointsBound
<1> QED
  BY <1>1, <1>2, <1>3, SMT DEF Accuracy

LEMMA DetectionBound ==
    ASSUME ScoresInv
    PROVE  Detection(month) \in Nat /\ Detection(month) <= 4000
<1>1. PICK q \in Nat, found \in Nat : q = month.checked /\ found = 100 * month.defects
  BY Collected, SMT
<1>2. PICK off \in Int : off = IF found > 3 * q THEN found - 3 * q ELSE 3 * q - found
  <2>1. (IF found > 3 * q THEN found - 3 * q ELSE 3 * q - found) \in Int
    BY SMT
  <2> QED
    BY <2>1, Zenon
<1>m. PICK u \in Int, v \in Int : u = 12000 * q /\ v = 1000 * off
  BY SMT
<1>3. PICK m \in Int : m = u - v
  OBVIOUS
<1>n. PICK n \in Int : n = 13500 * q + 1500 * (15 * q - found)
  BY SMT
<1>4. PICK x \in Nat, y \in Nat, c \in Nat, d \in Nat :
          x = 3 * q /\ y = 9 * q /\ c = 4000 /\ d = 3000
  BY SMT
<1>5. /\ Points(m, x, c) \in Nat /\ Points(m, x, c) <= c
      /\ Points(n, y, d) \in Nat /\ Points(n, y, d) <= d
  BY PointsBound
<1>6. Detection(month) = CASE q = 0 -> 0
                           [] q > 0 /\ found <= 6 * q -> Points(m, x, c)
                           [] q > 0 /\ found > 6 * q /\ found <= 15 * q -> Points(n, y, d)
                           [] q > 0 /\ found > 15 * q -> 1000
  BY <1>1, <1>2, <1>m, <1>3, <1>n, <1>4 DEF Detection
<1>7. q = 0 \/ (q > 0 /\ (found <= 6 * q \/ (found > 6 * q /\ (found <= 15 * q \/ found > 15 * q))))
  BY SMT
<1> QED
  BY <1>4, <1>5, <1>6, <1>7, SMT

LEMMA Adds ==
    ASSUME ScoresInv, NEW more, \A f \in DOMAIN more : more[f] \in Nat, Add(more)
    PROVE  ScoresInv'
<1>1. /\ track' = track /\ split' = split
      /\ month' = [f \in Statistics |-> month[f] + (IF f \in DOMAIN more THEN more[f] ELSE 0)]
  BY DEF ScoresInv, Add
<1>2. ASSUME NEW f \in Statistics
      PROVE  month[f] + (IF f \in DOMAIN more THEN more[f] ELSE 0) \in Nat
  <2>1. month[f] \in Nat
    BY DEF ScoresInv
  <2>2. PICK n \in Nat : n = IF f \in DOMAIN more THEN more[f] ELSE 0
    OBVIOUS
  <2> QED
    BY <2>1, <2>2
<1> QED
  BY <1>1, <1>2 DEF ScoresInv

LEMMA NextScoresInv == ScoresInv /\ [ScoresNext]_scoreVars => ScoresInv'
<1> SUFFICES ASSUME ScoresInv, [ScoresNext]_scoreVars PROVE ScoresInv'
  OBVIOUS
<1>s. Sizes \subseteq Nat /\ \A b \in BOOLEAN : One(b) \in Nat
  BY ScoresAssumption DEF One
<1>1. CASE UNCHANGED scoreVars
  BY <1>1 DEF ScoresInv, scoreVars
<1>2. ASSUME NEW volume \in Sizes, NEW hours \in Sizes, NEW newDay \in BOOLEAN,
             NEW voided \in BOOLEAN, NEW edited \in BOOLEAN, NEW mates \in {0, 1},
             AddItem(volume, hours, newDay, mates, voided, edited)
      PROVE  ScoresInv'
  <2>1. PICK more : more =
          [items |-> 1, volume |-> volume, hours |-> hours, days |-> One(newDay),
           team |-> One(mates > 0), mates |-> mates, voids |-> One(voided), edits |-> One(edited)]
    OBVIOUS
  <2>2. \A f \in DOMAIN more : more[f] \in Nat
    <3>1. (mates > 0) \in BOOLEAN
      OBVIOUS
    <3>2. One(newDay) \in Nat /\ One(voided) \in Nat /\ One(edited) \in Nat
      BY <1>s
    <3>3. One(mates > 0) \in Nat
      BY <1>s, <3>1, Zenon
    <3>4. volume \in Nat /\ hours \in Nat /\ mates \in Nat
      BY <1>s
    <3> QED
      BY <2>1, <3>2, <3>3, <3>4
  <2> QED
    BY <1>2, <2>1, <2>2, Adds DEF AddItem
<1>3. ASSUME NEW checked \in Sizes, NEW defects \in Sizes, AddCheck(checked, defects)
      PROVE  ScoresInv'
  <2>1. PICK more : more = [checks |-> 1, checked |-> checked, defects |-> defects]
    OBVIOUS
  <2>2. \A f \in DOMAIN more : more[f] \in Nat
    BY <1>s, <2>1
  <2> QED
    BY <1>3, <2>1, <2>2, Adds DEF AddCheck
<1>4. ASSUME NEW approved \in BOOLEAN, NEW quantity \in Sizes, NEW diff \in Sizes,
             AddSession(approved, quantity, diff)
      PROVE  ScoresInv'
  <2>1. PICK more : more = [sessions |-> 1, approved |-> IF approved THEN quantity ELSE 0,
                            diff |-> IF approved THEN diff ELSE 0]
    OBVIOUS
  <2>2. \A f \in DOMAIN more : more[f] \in Nat
    BY <1>s, <2>1
  <2> QED
    BY <1>4, <2>1, <2>2, Adds DEF AddSession
<1> QED
  BY <1>1, <1>2, <1>3, <1>4 DEF ScoresNext

LEMMA ScoresAlways == ScoresSpec => []ScoresInv
<1>1. ScoresInit => ScoresInv
  BY DEF ScoresInit, ScoresInv, Statistics, Tracks
<1> QED
  BY <1>1, NextScoresInv, PTL DEF ScoresSpec

LEMMA OutboundHolds ==
    ASSUME ScoresInv
    PROVE  LET raw == RawOutbound(month) IN
           /\ raw.performance \in Int /\ raw.performance <= 10000
           /\ raw.reliability \in Int /\ raw.reliability <= 5000
           /\ raw.teamwork \in Int /\ raw.teamwork <= 10000
<1>c. Throughput \in Nat /\ VolumeGoal \in Nat /\ WorkingDays \in Nat
  BY ScoresAssumption
<1>1. PICK a \in Nat : a = Points(2000 * month.items, month.days * Throughput, 4000) /\ a <= 4000
  <2>1. PICK n \in Int, d \in Nat, max \in Nat :
            n = 2000 * month.items /\ d = month.days * Throughput /\ max = 4000
    BY <1>c, Collected, SMT
  <2>2. Points(n, d, max) \in Nat /\ Points(n, d, max) <= max
    BY PointsBound
  <2> QED
    BY <2>1, <2>2
<1>2. PICK b \in Nat :
          b = Points(1500 * month.volume * WorkingDays, month.hours * VolumeGoal, 3000) /\ b <= 3000
  <2>1. PICK n \in Int, d \in Nat, max \in Nat :
            n = 1500 * month.volume * WorkingDays /\ d = month.hours * VolumeGoal /\ max = 3000
    BY <1>c, Collected, SMT
  <2>2. Points(n, d, max) \in Nat /\ Points(n, d, max) <= max
    BY PointsBound
  <2> QED
    BY <2>1, <2>2
<1>3. PICK c \in Nat : c = Points(1500 * month.volume, VolumeGoal, 3000) /\ c <= 3000
  <2>1. PICK n \in Int, d \in Nat, max \in Nat :
            n = 1500 * month.volume /\ d = VolumeGoal /\ max = 3000
    BY <1>c, Collected, SMT
  <2>2. Points(n, d, max) \in Nat /\ Points(n, d, max) <= max
    BY PointsBound
  <2> QED
    BY <2>1, <2>2
<1>4. PICK e \in Nat : e = Points(5000 * month.team, month.items, 5000) /\ e <= 5000
  <2>1. PICK n \in Int, d \in Nat, max \in Nat :
            n = 5000 * month.team /\ d = month.items /\ max = 5000
    BY <1>c, Collected, SMT
  <2>2. Points(n, d, max) \in Nat /\ Points(n, d, max) <= max
    BY PointsBound
  <2> QED
    BY <2>1, <2>2
<1>5. PICK f \in Nat : f = Points(6000 * month.team, month.items, 3000) /\ f <= 3000
  <2>1. PICK n \in Int, d \in Nat, max \in Nat :
            n = 6000 * month.team /\ d = month.items /\ max = 3000
    BY <1>c, Collected, SMT
  <2>2. Points(n, d, max) \in Nat /\ Points(n, d, max) <= max
    BY PointsBound
  <2> QED
    BY <2>1, <2>2
<1>6. PICK g \in Nat : g = AtMost(2000, 50 * month.mates) /\ g <= 2000
  BY Collected, SMT DEF AtMost
<1>7. PICK r \in Int : r = Reliability(month, 5000, 25000, 2500, 15000, 1500) /\ r <= 5000
  <2>1. PICK attend \in Nat, void \in Nat, maxVoid \in Nat, edit \in Nat, maxEdit \in Nat :
            attend = 5000 /\ void = 25000 /\ maxVoid = 2500 /\ edit = 15000 /\ maxEdit = 1500
    BY SMT
  <2>2. /\ Reliability(month, attend, void, maxVoid, edit, maxEdit) \in Int
        /\ Reliability(month, attend, void, maxVoid, edit, maxEdit) <= attend
    BY ReliabilityBound
  <2> QED
    BY <2>1, <2>2
<1>8. RawOutbound(month) =
        [performance |-> a + b + c, reliability |-> r, teamwork |-> e + f + g]
  BY <1>1, <1>2, <1>3, <1>4, <1>5, <1>6, <1>7 DEF RawOutbound
<1> QED
  BY <1>1, <1>2, <1>3, <1>4, <1>5, <1>6, <1>7, <1>8, SMT

LEMMA InboundDockHolds ==
    ASSUME ScoresInv
    PROVE  LET raw == RawInboundDock(month) IN
           /\ raw.performance \in Int /\ raw.performance <= 10000
           /\ raw.reliability \in Int /\ raw.reliability <= 5000
           /\ raw.teamwork \in Int /\ raw.teamwork <= 10000
<1>c. SessionGoal \in Nat /\ QuantityGoal \in Nat /\ VolumeGoal \in Nat
  BY ScoresAssumption
<1>1. PICK a \in Nat : a = Points(1250 * month.sessions, SessionGoal, 2500) /\ a <= 2500
  <2>1. PICK n \in Int, d \in Nat, max \in Nat :
            n = 1250 * month.sessions /\ d = SessionGoal /\ max = 2500
    BY <1>c, Collected, SMT
  <2>2. Points(n, d, max) \in Nat /\ Points(n, d, max) <= max
    BY PointsBound
  <2> QED
    BY <2>1, <2>2
<1>2. PICK b \in Nat : b = Points(1250 * month.approved, QuantityGoal, 2500) /\ b <= 2500
  <2>1. PICK n \in Int, d \in Nat, max \in Nat :
            n = 1250 * month.approved /\ d = QuantityGoal /\ max = 2500
    BY <1>c, Collected, SMT
  <2>2. Points(n, d, max) \in Nat /\ Points(n, d, max) <= max
    BY PointsBound
  <2> QED
    BY <2>1, <2>2
<1>3. PICK c \in Nat : c = Points(1250 * month.volume, VolumeGoal, 2500) /\ c <= 2500
  <2>1. PICK n \in Int, d \in Nat, max \in Nat :
            n = 1250 * month.volume /\ d = VolumeGoal /\ max = 2500
    BY <1>c, Collected, SMT
  <2>2. Points(n, d, max) \in Nat /\ Points(n, d, max) <= max
    BY PointsBound
  <2> QED
    BY <2>1, <2>2
<1>4. PICK d \in Nat : d = Accuracy(month) /\ d <= 2500
  BY AccuracyBound
<1>5. PICK e \in Nat : e = AtMost(6000, 200 * month.team) /\ e <= 6000
  BY Collected, SMT DEF AtMost
<1>6. PICK f \in Nat : f = (IF month.sessions > 0 /\ month.volume > 0 THEN 4000 ELSE 0) /\ f <= 4000
  BY Collected, SMT
<1>7. PICK r \in Int : r = Reliability(month, 5000, 20000, 2500, 10000, 1500) /\ r <= 5000
  <2>1. PICK attend \in Nat, void \in Nat, maxVoid \in Nat, edit \in Nat, maxEdit \in Nat :
            attend = 5000 /\ void = 20000 /\ maxVoid = 2500 /\ edit = 10000 /\ maxEdit = 1500
    BY SMT
  <2>2. /\ Reliability(month, attend, void, maxVoid, edit, maxEdit) \in Int
        /\ Reliability(month, attend, void, maxVoid, edit, maxEdit) <= attend
    BY ReliabilityBound
  <2> QED
    BY <2>1, <2>2
<1>8. RawInboundDock(month) =
        [performance |-> a + b + c + d, reliability |-> r, teamwork |-> e + f]
  BY <1>1, <1>2, <1>3, <1>4, <1>5, <1>6, <1>7 DEF RawInboundDock
<1> QED
  BY <1>1, <1>2, <1>3, <1>4, <1>5, <1>6, <1>7, <1>8, SMT

LEMMA InspectionHolds ==
    ASSUME ScoresInv
    PROVE  LET raw == RawInspection(month) IN
           /\ raw.performance \in Int /\ raw.performance <= 10000
           /\ raw.reliability \in Int /\ raw.reliability <= 6000
           /\ raw.teamwork \in Int /\ raw.teamwork <= 6000
<1>c. CheckGoal \in Nat /\ CoverageGoal \in Nat
  BY ScoresAssumption
<1>1. PICK a \in Nat : a = Points(1750 * month.checks, CheckGoal, 3500) /\ a <= 3500
  <2>1. PICK n \in Int, d \in Nat, max \in Nat :
            n = 1750 * month.checks /\ d = CheckGoal /\ max = 3500
    BY <1>c, Collected, SMT
  <2>2. Points(n, d, max) \in Nat /\ Points(n, d, max) <= max
    BY PointsBound
  <2> QED
    BY <2>1, <2>2
<1>2. PICK b \in Nat : b = Detection(month) /\ b <= 4000
  BY DetectionBound
<1>3. PICK c \in Nat : c = Points(1250 * month.checked, CoverageGoal, 2500) /\ c <= 2500
  <2>1. PICK n \in Int, d \in Nat, max \in Nat :
            n = 1250 * month.checked /\ d = CoverageGoal /\ max = 2500
    BY <1>c, Collected, SMT
  <2>2. Points(n, d, max) \in Nat /\ Points(n, d, max) <= max
    BY PointsBound
  <2> QED
    BY <2>1, <2>2
<1>4. PICK e \in Nat : e = AtMost(6000, 200 * month.team) /\ e <= 6000
  BY Collected, SMT DEF AtMost
<1>5. PICK r \in Int : r = Reliability(month, 6000, 20000, 2000, 10000, 1000) /\ r <= 6000
  <2>1. PICK attend \in Nat, void \in Nat, maxVoid \in Nat, edit \in Nat, maxEdit \in Nat :
            attend = 6000 /\ void = 20000 /\ maxVoid = 2000 /\ edit = 10000 /\ maxEdit = 1000
    BY SMT
  <2>2. /\ Reliability(month, attend, void, maxVoid, edit, maxEdit) \in Int
        /\ Reliability(month, attend, void, maxVoid, edit, maxEdit) <= attend
    BY ReliabilityBound
  <2> QED
    BY <2>1, <2>2
<1>6. RawInspection(month) =
        [performance |-> a + b + c, reliability |-> r, teamwork |-> e]
  BY <1>1, <1>2, <1>3, <1>4, <1>5 DEF RawInspection
<1> QED
  BY <1>1, <1>2, <1>3, <1>4, <1>5, <1>6, SMT

LEMMA ManagerHolds ==
    ASSUME ScoresInv
    PROVE  LET raw == RawManager(month) IN
           /\ raw.performance \in Int /\ raw.performance <= 10000
           /\ raw.reliability \in Int /\ raw.reliability <= 10000
           /\ raw.teamwork \in Int /\ raw.teamwork <= 10000
<1>c. TeamGoal \in Nat /\ ExceptionGoal \in Nat
  BY ScoresAssumption
<1>m. /\ Managed.score \in Nat /\ Managed.exceptions \in Nat
      /\ Managed.voids \in Nat /\ Managed.items \in Nat
  BY DEF Managed
<1>1. PICK a \in Nat : a = Points(3500 * Managed.score, TeamGoal, 3500) /\ a <= 3500
  <2>1. PICK n \in Int, d \in Nat, max \in Nat :
            n = 3500 * Managed.score /\ d = TeamGoal /\ max = 3500
    BY <1>c, <1>m, SMT
  <2>2. Points(n, d, max) \in Nat /\ Points(n, d, max) <= max
    BY PointsBound
  <2> QED
    BY <2>1, <2>2
<1>2. PICK b \in Nat : b = Points(1750 * Managed.exceptions, ExceptionGoal, 3500) /\ b <= 3500
  <2>1. PICK n \in Int, d \in Nat, max \in Nat :
            n = 1750 * Managed.exceptions /\ d = ExceptionGoal /\ max = 3500
    BY <1>c, <1>m, SMT
  <2>2. Points(n, d, max) \in Nat /\ Points(n, d, max) <= max
    BY PointsBound
  <2> QED
    BY <2>1, <2>2
<1>3. PICK e \in Nat : e = Points(50000 * Managed.voids, Managed.items, 5000) /\ e <= 5000
  <2>1. PICK n \in Int, d \in Nat, max \in Nat :
            n = 50000 * Managed.voids /\ d = Managed.items /\ max = 5000
    BY <1>c, <1>m, SMT
  <2>2. Points(n, d, max) \in Nat /\ Points(n, d, max) <= max
    BY PointsBound
  <2> QED
    BY <2>1, <2>2
<1>4. PICK c \in Nat : c = Attendance(month, 3000) /\ c <= 3000
  <2>1. PICK max \in Nat : max = 3000
    BY SMT
  <2>2. Attendance(month, max) \in Nat /\ Attendance(month, max) <= max
    BY AttendanceBound
  <2> QED
    BY <2>1, <2>2
<1>5. PICK d \in Nat : d = Attendance(month, 2500) /\ d <= 2500
  <2>1. PICK max \in Nat : max = 2500
    BY SMT
  <2>2. Attendance(month, max) \in Nat /\ Attendance(month, max) <= max
    BY AttendanceBound
  <2> QED
    BY <2>1, <2>2
<1>6. PICK f \in Nat : f = AtMost(6000, 300 * Managed.exceptions) /\ f <= 6000
  BY <1>m, SMT DEF AtMost
<1>7. PICK g \in Nat : g = AtMost(4000, 400 * month.team) /\ g <= 4000
  BY Collected, SMT DEF AtMost
<1>8. RawManager(month) =
        [performance |-> a + b + c, reliability |-> 5000 - e + d + 2500, teamwork |-> f + g]
  BY <1>1, <1>2, <1>3, <1>4, <1>5, <1>6, <1>7 DEF RawManager
<1> QED
  BY <1>1, <1>2, <1>3, <1>4, <1>5, <1>6, <1>7, <1>8, SMT

LEMMA RawHolds ==
    ASSUME ScoresInv, NEW a \in Aspects
    PROVE  /\ Raw(track, month)[a] \in Int
           /\ Raw(track, month)[a] <= Nominal(track)[a]
           /\ Nominal(track)[a] \in Nat
<1>1. track \in {"OUTBOUND", "INBOUND_DOCK", "INSPECTION", "MANAGER"}
  BY DEF ScoresInv, Tracks
<1>2. CASE track = "OUTBOUND"
  BY <1>2, OutboundHolds DEF Raw, Nominal, Aspects
<1>3. CASE track = "INBOUND_DOCK"
  BY <1>3, InboundDockHolds DEF Raw, Nominal, Aspects
<1>4. CASE track = "INSPECTION"
  BY <1>4, InspectionHolds DEF Raw, Nominal, Aspects
<1>5. CASE track = "MANAGER"
  BY <1>5, ManagerHolds DEF Raw, Nominal, Aspects
<1> QED
  BY <1>1, <1>2, <1>3, <1>4, <1>5

\* No month of any track earns more raw points than its nominal maximum, no score
\* is negative, and with no negative weight the total lies between the worst and
\* the best category (scoreOutbound, scoreInboundDock, scoreInspection,
\* scoreManager, normalizeCategory, createPolicyVersion).
THEOREM ScoresStayOnScale == ScoresSpec => []ScoresKeepScale
<1>1. ScoresInv => ScoresKeepScale
  <2> SUFFICES ASSUME ScoresInv PROVE ScoresKeepScale
    OBVIOUS
  <2> DEFINE c == Categories(track, month)
             total == Total(track, month)
  <2>1. \A a \in Aspects : c[a] \in Nat /\ c[a] <= 10000
    <3> SUFFICES ASSUME NEW a \in Aspects PROVE c[a] \in Nat /\ c[a] <= 10000
      OBVIOUS
    <3>1. c[a] = Normal(Raw(track, month)[a], Nominal(track)[a])
      BY DEF Categories
    <3>2. PICK raw \in Int, max \in Nat : raw = Raw(track, month)[a] /\ max = Nominal(track)[a]
      BY RawHolds
    <3>3. Normal(raw, max) \in Nat /\ Normal(raw, max) <= 10000
      BY NormalBound
    <3> HIDE DEF c
    <3> QED
      BY <3>1, <3>2, <3>3
  <2>2. ASSUME \A a \in Aspects : split[a] >= 0, ~Excluded(track, month)
        PROVE  \E low, high \in Aspects : c[low] <= total /\ total <= c[high]
    <3>1. PICK x \in Nat, y \in Nat, z \in Nat :
              x = c["performance"] /\ y = c["reliability"] /\ z = c["teamwork"]
      BY <2>1 DEF Aspects
    <3>2. AddUp(split)
      BY ScoresAssumption DEF ScoresInv
    <3>3. PICK p \in Nat, r \in Nat, t \in Nat :
              /\ p = split.performance /\ r = split.reliability /\ t = split.teamwork
              /\ p + r + t = 100
      <4>1. split.performance \in Int /\ split.reliability \in Int /\ split.teamwork \in Int
        BY <3>2 DEF AddUp, Aspects
      <4>2. split.performance >= 0 /\ split.reliability >= 0 /\ split.teamwork >= 0
        BY <2>2 DEF Aspects
      <4> QED
        BY <3>2, <4>1, <4>2, SMT DEF AddUp
    <3>4. total = Fix2(x * p + y * r + z * t, 100)
      BY <2>2, <3>1, <3>3 DEF Total
    <3>5. PICK lo \in {x, y, z}, hi \in {x, y, z} :
              lo <= x /\ lo <= y /\ lo <= z /\ x <= hi /\ y <= hi /\ z <= hi
      BY SMT
    <3>6. total \in lo..hi
      <4>1. lo \in Nat /\ hi \in Nat /\ x \in lo..hi /\ y \in lo..hi /\ z \in lo..hi
        BY <3>5, SMT
      <4>2. PICK n \in Int : n = x * p + y * r + z * t
        BY SMT
      <4>3. /\ lo * p <= x * p /\ x * p <= hi * p
            /\ lo * r <= y * r /\ y * r <= hi * r
            /\ lo * t <= z * t /\ z * t <= hi * t
        BY <4>1, Monotone, SMT
      <4>4. lo * p + lo * r + lo * t = 100 * lo /\ hi * p + hi * r + hi * t = 100 * hi
        <5>1. PICK l \in Nat, h \in Nat : l = lo /\ h = hi
          BY <4>1
        <5>2. p + r + t = 100
          BY <3>3
        <5>3. l * p + l * r + l * t = 100 * l /\ h * p + h * r + h * t = 100 * h
          BY <5>2, Shares
        <5> QED
          BY <5>1, <5>3
      <4>5. /\ lo * p \in Int /\ lo * r \in Int /\ lo * t \in Int
            /\ hi * p \in Int /\ hi * r \in Int /\ hi * t \in Int
            /\ x * p \in Int /\ y * r \in Int /\ z * t \in Int
        BY <4>1, SMT
      <4>6. 100 * lo <= n /\ n <= 100 * hi
        BY <4>1, <4>2, <4>3, <4>4, <4>5, SMT
      <4>7. Fix2(n, 100) \in lo..hi
        BY <4>1, <4>6, SMT DEF Fix2
      <4> HIDE DEF total
      <4> QED
        BY <3>4, <4>2, <4>7
    <3>7. \E low \in Aspects, high \in Aspects : c[low] = lo /\ c[high] = hi
      BY <3>1, <3>5 DEF Aspects
    <3>8. lo <= total /\ total <= hi
      <4> HIDE DEF total
      <4> QED
        BY <3>5, <3>6, SMT
    <3> HIDE DEF c, total
    <3> QED
      BY <3>7, <3>8
  <2>3. \A a \in Aspects : Raw(track, month)[a] <= Nominal(track)[a] /\ c[a] >= 0
    <3> HIDE DEF c
    <3> QED
      BY <2>1, RawHolds, SMT
  <2> QED
    BY <2>2, <2>3 DEF ScoresKeepScale
<1> QED
  BY <1>1, ScoresAlways, PTL

-----------------------------------------------------------------------------
(* Break periods *)

EditorRow == [pc : {"idle", "create", "update", "clone"}, on : PeriodIds \cup {None},
              site : {"here", "kept", "elsewhere", "global", None},
              span : Spans \cup {None} \cup SUBSET Spans, turn : {"on", "off", "kept"},
              overtaken : BOOLEAN]

\* What a call carries, by what it does.
Carries(x) ==
    /\ x \in EditorRow
    /\ x.pc = "create" => x.span \in Spans /\ x.site \in {"here", None}
    /\ x.pc = "update" => /\ x.on \in PeriodIds /\ x.span \in Spans \cup {None}
                          /\ x.site \in {"here", "kept", "elsewhere", "global"}
    /\ x.pc = "clone" => x.span \subseteq Spans /\ IsFiniteSet(x.span)

\* What a call has checked holds until another one writes.
Checked(x) ==
    \/ x.overtaken
    \/ /\ x.pc = "create" => /\ NoOverlap(x.span, x.site, {})
                             /\ Cardinality(At(x.site)) < MaxBreaks
       /\ x.pc = "update" /\ x.on \in Periods /\ x.span # None /\ x.site # "elsewhere"
            => NoOverlap(x.span, IF x.site = "here" THEN "here" ELSE period[x.on].site, {x.on})
       /\ x.pc = "clone" =>
            /\ \A s \in x.span : NoOverlap(s, "here", {})
            /\ \A s, t \in x.span : s = t \/ s[2] <= t[1] \/ t[2] <= s[1]
            /\ x.span # {} => Cardinality(At("here")) + Cardinality(x.span) <= MaxBreaks

Clear(i, j) == ~Meets(<<period[i].from, period[i].to>>, period[j])

Apart == \A i, j \in Periods :
            /\ i # j /\ period[i].site = period[j].site /\ period[i].active /\ period[j].active
            /\ i \notin strayed /\ j \notin strayed
            => Clear(i, j)

Roomy == \A spot \in {"here", None} : Cardinality(At(spot) \ strayed) <= MaxBreaks

\* Inductive: the active periods that are not strayed are apart and within the limit, and
\* what the calls have checked still holds.
BreaksInv ==
    /\ period \in [PeriodIds -> PeriodRow \cup {None}] /\ entered \in Nat
    /\ editor \in [Editors -> EditorRow]
    /\ \A c \in Editors, x \in EditorRow : x = editor[c] => Carries(x) /\ Checked(x)
    /\ Apart
    /\ Roomy

LEMMA PeriodIdsFinite == IsFiniteSet(PeriodIds)
  BY BreaksAssumption, FS_Interval DEF PeriodIds

LEMMA PeriodsFinite ==
    ASSUME DOMAIN period = PeriodIds, NEW spot
    PROVE  IsFiniteSet(Periods) /\ IsFiniteSet(At(spot)) /\ Cardinality(At(spot)) \in Nat
<1>1. Periods \subseteq PeriodIds /\ At(spot) \subseteq Periods
  BY DEF Periods, Present, At
<1> QED
  BY <1>1, PeriodIdsFinite, FS_Subset, FS_CardinalityType

LEMMA SpansFinite == IsFiniteSet(Spans)
<1>1. IsFiniteSet(0..DayEnd)
  BY BreaksAssumption, FS_Interval
<1>2. IsFiniteSet((0..DayEnd) \X (0..DayEnd))
  BY <1>1, FS_Product
<1>3. Spans \subseteq (0..DayEnd) \X (0..DayEnd)
  BY BreaksAssumption DEF validateTimeRange
<1> QED
  BY <1>2, <1>3, FS_Subset

LEMMA SpanTimes ==
    ASSUME NEW s \in Spans PROVE s[1] \in 0..DayEnd /\ s[2] \in 0..DayEnd /\ s = <<s[1], s[2]>>
BY BreaksAssumption DEF validateTimeRange

LEMMA AwayStands == Carries(Away) /\ Away.pc = "idle" /\ Away \in EditorRow
<1>1. PICK x : x = [pc |-> "idle", on |-> None, site |-> None, span |-> None, turn |-> "kept",
                    overtaken |-> FALSE]
  OBVIOUS
<1>2. x \in EditorRow
  BY <1>1 DEF EditorRow
<1>3. Carries(x)
  BY <1>1, <1>2 DEF Carries
<1> QED
  BY <1>1, <1>2, <1>3 DEF Away

\* A check outlasts the removal of rows.
LEMMA ChecksLast ==
    ASSUME DOMAIN period = PeriodIds, DOMAIN period' = PeriodIds,
           \A i \in PeriodIds : period'[i] = period[i] \/ period'[i] = None,
           NEW x, Carries(x), Checked(x)
    PROVE  Checked(x)'
<1>1. /\ Periods' \subseteq Periods
      /\ \A i \in Periods' : period'[i] = period[i]
  BY DEF Periods, Present
<1>2. ASSUME NEW spot PROVE At(spot)' \subseteq At(spot)
  BY <1>1 DEF At
<1>3. ASSUME NEW spot PROVE /\ Cardinality(At(spot)') \in Nat /\ Cardinality(At(spot)) \in Nat
                             /\ Cardinality(At(spot)') <= Cardinality(At(spot))
  BY <1>2, PeriodsFinite, CountPart
<1>4. ASSUME NEW s, NEW spot, NEW except, NoOverlap(s, spot, except)
      PROVE  NoOverlap(s, spot, except)'
  BY <1>1, <1>2, <1>4 DEF NoOverlap, Meets, At
<1>5. CASE x.overtaken
  BY <1>5 DEF Checked
<1>6. CASE ~x.overtaken
  <2>1. ASSUME x.pc = "create"
        PROVE  NoOverlap(x.span, x.site, {})' /\ Cardinality(At(x.site)') < MaxBreaks
    <3>1. PICK spot : spot = x.site
      OBVIOUS
    <3> QED
      BY <1>3, <1>4, <1>6, <2>1, <3>1, BreaksAssumption DEF Checked
  <2>2. ASSUME x.pc = "update", x.on \in Periods', x.span # None, x.site # "elsewhere"
        PROVE  NoOverlap(x.span, IF x.site = "here" THEN "here" ELSE period[x.on].site, {x.on})'
    <3>1. PICK spot : spot = IF x.site = "here" THEN "here" ELSE period[x.on].site
      OBVIOUS
    <3>2. x.on \in Periods /\ period'[x.on] = period[x.on]
      BY <1>1, <2>2
    <3>3. NoOverlap(x.span, spot, {x.on})
      BY <1>6, <2>2, <3>1, <3>2 DEF Checked
    <3>4. NoOverlap(x.span, spot, {x.on})'
      BY <1>4, <3>3
    <3> QED
      BY <3>1, <3>2, <3>4
  <2>3. ASSUME x.pc = "clone"
        PROVE  /\ \A s \in x.span : NoOverlap(s, "here", {})'
               /\ \A s, t \in x.span : s = t \/ s[2] <= t[1] \/ t[2] <= s[1]
               /\ x.span # {} => Cardinality(At("here")') + Cardinality(x.span) <= MaxBreaks
    <3>1. /\ \A s \in x.span : NoOverlap(s, "here", {})
          /\ \A s, t \in x.span : s = t \/ s[2] <= t[1] \/ t[2] <= s[1]
          /\ x.span # {} => Cardinality(At("here")) + Cardinality(x.span) <= MaxBreaks
      BY <1>6, <2>3 DEF Checked
    <3>2. Cardinality(x.span) \in Nat
      BY <2>3, FS_CardinalityType DEF Carries
    <3> QED
      BY <1>3, <1>4, <3>1, <3>2, BreaksAssumption
  <2> QED
    BY <2>1, <2>2, <2>3 DEF Checked
<1> QED
  BY <1>5, <1>6

\* A read or an end of a call, which writes no rows.
LEMMA ReadKeeps ==
    ASSUME BreaksInv, NEW c \in Editors, NEW x, Carries(x), Checked(x),
           editor' = [editor EXCEPT ![c] = x], UNCHANGED <<period, entered, strayed>>
    PROVE  BreaksInv'
<1>1. DOMAIN period = PeriodIds /\ DOMAIN period' = PeriodIds
  BY DEF BreaksInv
<1>2. ASSUME NEW d \in Editors, NEW y \in EditorRow, y = editor'[d]
      PROVE  Carries(y) /\ Checked(y)'
  <2>1. y = x \/ y = editor[d]
    BY <1>2 DEF BreaksInv
  <2>2. Carries(y) /\ Checked(y)
    BY <1>2, <2>1 DEF BreaksInv
  <2>3. \A i \in PeriodIds : period'[i] = period[i] \/ period'[i] = None
    OBVIOUS
  <2> QED
    BY <1>1, <2>2, <2>3, ChecksLast
<1>3. editor' \in [Editors -> EditorRow]
  BY DEF BreaksInv, Carries
<1>4. Apart' /\ Roomy'
  BY DEF BreaksInv, Apart, Roomy, Clear, Meets, Periods, Present, At
<1> QED
  BY <1>2, <1>3, <1>4 DEF BreaksInv

\* After a write every other call is overtaken.
LEMMA WriteOvertakes ==
    ASSUME BreaksInv, editor' = [d \in Editors |-> editor'[d]],
           \A d \in Editors : editor'[d] = Away \/ editor'[d] = [editor[d] EXCEPT !.overtaken = TRUE]
    PROVE  /\ editor' \in [Editors -> EditorRow]
           /\ \A d \in Editors, x \in EditorRow : x = editor'[d] => Carries(x) /\ Checked(x)'
<1>1. ASSUME NEW d \in Editors, NEW x, x = editor'[d]
      PROVE  x \in EditorRow /\ Carries(x) /\ (x.pc = "idle" \/ x.overtaken)
  <2>1. CASE x = Away
    BY <2>1, AwayStands
  <2>2. CASE x = [editor[d] EXCEPT !.overtaken = TRUE]
    <3>1. PICK y : y = editor[d]
      OBVIOUS
    <3>2. y \in EditorRow /\ Carries(y)
      BY <3>1 DEF BreaksInv
    <3>3. PICK z : z = [y EXCEPT !.overtaken = TRUE]
      OBVIOUS
    <3>4. /\ z \in EditorRow /\ z.overtaken
          /\ z.pc = y.pc /\ z.on = y.on /\ z.site = y.site /\ z.span = y.span
      BY <3>2, <3>3 DEF EditorRow
    <3>5. Carries(z)
      BY <3>2, <3>4 DEF Carries
    <3> QED
      BY <2>2, <3>1, <3>3, <3>4, <3>5
  <2> QED
    BY <1>1, <2>1, <2>2
<1>2. ASSUME NEW x, x.pc = "idle" \/ x.overtaken PROVE Checked(x)'
  BY <1>2 DEF Checked
<1>3. editor' \in [Editors -> EditorRow]
  BY <1>1
<1> QED
  BY <1>1, <1>2, <1>3

\* The rows N are written at a spot: unchecked, or clear of the rows that are there
\* and few enough.
Joins(N, spot) ==
    /\ period' \in [PeriodIds -> PeriodRow \cup {None}]
    /\ \A i \in PeriodIds \ N : period'[i] = period[i]
    /\ \A i \in N : period'[i] # None /\ period'[i].site = spot
    /\ \/ strayed' = strayed \cup N
       \/ /\ strayed' = strayed
          /\ \A i \in N, j \in At(spot) : ~Meets(<<period'[i].from, period'[i].to>>, period[j])
          /\ \A i, j \in N : i # j => Clear(i, j)'
          /\ Cardinality(At(spot)) + Cardinality(N) <= MaxBreaks

LEMMA JoinKeeps ==
    ASSUME BreaksInv, NEW N \in SUBSET PeriodIds, NEW spot \in {"here", None}, Joins(N, spot)
    PROVE  Apart' /\ Roomy'
<1> USE DEF Joins
<1>1. /\ DOMAIN period = PeriodIds /\ DOMAIN period' = PeriodIds
      /\ \A i \in Periods' \ N : i \in Periods /\ period'[i] = period[i]
      /\ strayed \subseteq strayed'
      /\ period \in [PeriodIds -> PeriodRow \cup {None}]
      /\ \A i \in Periods : period[i] \in PeriodRow /\ period[i].from \in Int /\ period[i].to \in Int
  BY BreaksAssumption DEF BreaksInv, Periods, Present, PeriodRow
<1>2. \A i \in Periods' : period'[i] \in PeriodRow /\ period'[i].from \in Int /\ period'[i].to \in Int
  BY BreaksAssumption DEF Periods, Present, PeriodRow
<1>3. IsFiniteSet(N)
  BY PeriodIdsFinite, FS_Subset
<1>4. ASSUME NEW i \in Periods', NEW j \in Periods', i # j, period'[i].site = period'[j].site,
             period'[i].active, period'[j].active, i \notin strayed', j \notin strayed'
      PROVE  Clear(i, j)'
  <2>1. CASE i \notin N /\ j \notin N
    <3>1. Clear(i, j)
      BY <1>1, <1>4, <2>1 DEF BreaksInv, Apart
    <3> QED
      BY <1>1, <2>1, <3>1 DEF Clear, Meets
  <2>2. CASE i \in N /\ j \in N
    BY <1>4, <2>2
  <2>3. CASE i \in N /\ j \notin N
    <3>1. j \in At(spot) /\ period'[j] = period[j]
      BY <1>1, <1>4, <2>3 DEF At
    <3> QED
      BY <1>4, <2>3, <3>1 DEF Clear
  <2>4. CASE i \notin N /\ j \in N
    <3>1. i \in At(spot) /\ period'[i] = period[i]
      BY <1>1, <1>4, <2>4 DEF At
    <3>2. ~Meets(<<period'[j].from, period'[j].to>>, period[i])
      BY <1>4, <2>4, <3>1
    <3>3. PICK a \in Int, b \in Int, u \in Int, v \in Int :
            /\ a = period'[i].from /\ b = period'[i].to
            /\ u = period'[j].from /\ v = period'[j].to
      BY <1>2
    <3>4. ~(u < b /\ v > a)
      BY <3>1, <3>2, <3>3 DEF Meets
    <3>5. ~(a < v /\ b > u)
      BY <3>3, <3>4
    <3> QED
      BY <3>3, <3>5 DEF Clear, Meets
  <2> QED
    BY <2>1, <2>2, <2>3, <2>4
<1>5. ASSUME NEW q \in {"here", None} PROVE Cardinality(At(q)' \ strayed') <= MaxBreaks
  <2>1. /\ IsFiniteSet(At(q)) /\ IsFiniteSet(At(q) \ strayed)
        /\ Cardinality(At(q) \ strayed) <= MaxBreaks
    BY <1>1, PeriodsFinite, FS_Subset DEF BreaksInv, Roomy
  <2>2. CASE strayed' = strayed \cup N \/ q # spot
    <3>1. At(q)' \ strayed' \subseteq At(q) \ strayed
      BY <1>1, <2>2 DEF At
    <3> QED
      BY <2>1, <3>1, CountPart, BreaksAssumption
  <2>3. CASE strayed' = strayed /\ Cardinality(At(spot)) + Cardinality(N) <= MaxBreaks /\ q = spot
    <3>1. At(q)' \ strayed' \subseteq At(q) \cup N
      BY <1>1 DEF At
    <3> QED
      BY <1>3, <2>1, <2>3, <3>1, CountBoth, BreaksAssumption
  <2> QED
    BY <2>2, <2>3
<1> QED
  BY <1>4, <1>5 DEF Apart, Roomy

LEMMA InitBreaksInv == BreaksInit => BreaksInv
<1> SUFFICES ASSUME BreaksInit PROVE BreaksInv
  OBVIOUS
<1>1. period \in [PeriodIds -> PeriodRow \cup {None}] /\ entered \in Nat
      /\ \A i \in Periods : ~period[i].active
  <2>1. PICK s \in Spans :
          period = [i \in PeriodIds |->
                      IF i <= entered
                      THEN [site |-> "here", from |-> s[1], to |-> s[2], active |-> FALSE] ELSE None]
    BY DEF BreaksInit
  <2>2. s[1] \in 0..DayEnd /\ s[2] \in 0..DayEnd
    BY SpanTimes
  <2>3. PICK row : row = [site |-> "here", from |-> s[1], to |-> s[2], active |-> FALSE]
    OBVIOUS
  <2>4. row \in PeriodRow /\ ~row.active
    BY <2>2, <2>3 DEF PeriodRow
  <2>5. period = [i \in PeriodIds |-> IF i <= entered THEN row ELSE None]
    BY <2>1, <2>3
  <2> QED
    BY <2>4, <2>5 DEF BreaksInit, Periods, Present
<1>2. Away \in EditorRow /\ Carries(Away) /\ Away.pc = "idle"
  BY AwayStands
<1>3. ASSUME NEW x, x = Away PROVE Carries(x) /\ Checked(x)
  BY <1>2, <1>3 DEF Checked
<1>4. /\ editor \in [Editors -> EditorRow]
      /\ \A c \in Editors, x \in EditorRow : x = editor[c] => Carries(x) /\ Checked(x)
  BY <1>2, <1>3 DEF BreaksInit
<1>5. ASSUME NEW q PROVE Cardinality(At(q) \ strayed) <= MaxBreaks
  <2>1. At(q) \ strayed = {}
    BY <1>1 DEF At
  <2> QED
    BY <2>1, FS_EmptySet, BreaksAssumption
<1> QED
  BY <1>1, <1>4, <1>5 DEF BreaksInv, Apart, Roomy

LEMMA NextBreaksInv == BreaksInv /\ [BreaksNext]_breaksVars => BreaksInv'
<1> SUFFICES ASSUME BreaksInv, [BreaksNext]_breaksVars PROVE BreaksInv'
  OBVIOUS
<1>0. /\ period \in [PeriodIds -> PeriodRow \cup {None}] /\ DOMAIN period = PeriodIds
      /\ entered \in Nat
      /\ \A i \in Periods : i \in PeriodIds /\ period[i] \in PeriodRow
  BY DEF BreaksInv, Periods, Present
<1>1. ASSUME NEW c \in Editors, NEW spot \in {"here", None}, NEW s \in Spans,
             CreateCheck(c, spot, s)
      PROVE  BreaksInv'
  <2>1. PICK x : x = [Away EXCEPT !.pc = "create", !.site = spot, !.span = s]
    OBVIOUS
  <2>0. x = [pc |-> "create", on |-> None, site |-> spot, span |-> s, turn |-> "kept",
             overtaken |-> FALSE]
    BY <2>1 DEF Away
  <2>2. x \in EditorRow
    BY <2>0 DEF EditorRow
  <2>3. Carries(x)
    BY <2>0, <2>2 DEF Carries
  <2>4. Checked(x)
    BY <1>1, <2>0 DEF Checked, CreateCheck
  <2> QED
    BY <1>1, <2>1, <2>3, <2>4, ReadKeeps DEF CreateCheck
<1>2. ASSUME NEW c \in Editors, UpdateCheck(c) PROVE BreaksInv'
  <2>1. PICK i \in Periods, spot \in {"here", "kept", "elsewhere", "global"},
             s \in Spans \cup {None}, turn \in {"on", "off", "kept"} :
          /\ Changes(period[i], spot, s, turn)
          /\ s # None /\ spot # "elsewhere" =>
                NoOverlap(s, IF spot = "here" THEN "here" ELSE period[i].site, {i})
          /\ editor' = [editor EXCEPT ![c] = [Away EXCEPT !.pc = "update", !.on = i, !.site = spot,
                                                          !.span = s, !.turn = turn]]
    BY <1>2, Zenon DEF UpdateCheck
  <2>2. PICK x : x = [Away EXCEPT !.pc = "update", !.on = i, !.site = spot, !.span = s,
                                  !.turn = turn]
    OBVIOUS
  <2>3. x = [pc |-> "update", on |-> i, site |-> spot, span |-> s, turn |-> turn,
             overtaken |-> FALSE]
    BY <2>2 DEF Away
  <2>4. x \in EditorRow
    BY <1>0, <2>3 DEF EditorRow
  <2>5. Carries(x)
    BY <1>0, <2>3, <2>4 DEF Carries
  <2>6. Checked(x)
    BY <2>1, <2>3 DEF Checked
  <2> QED
    BY <1>2, <2>1, <2>2, <2>5, <2>6, ReadKeeps DEF UpdateCheck
<1>3. ASSUME NEW c \in Editors, NEW source \in Sources, CloneCheck(c, source)
      PROVE  BreaksInv'
  <2> DEFINE room == MaxBreaks - Cardinality(At("here"))
  <2>1. PICK taken \in SUBSET source :
          /\ \A s \in taken : NoOverlap(s, "here", {})
          /\ \A s, t \in taken : s = t \/ s[2] <= t[1] \/ t[2] <= s[1]
          /\ taken # {} => Cardinality(taken) <= room
          /\ editor' = [editor EXCEPT ![c] = [Away EXCEPT !.pc = "clone", !.site = "here",
                                                          !.span = taken]]
    BY <1>3 DEF CloneCheck
  <2>2. PICK x : x = [Away EXCEPT !.pc = "clone", !.site = "here", !.span = taken]
    OBVIOUS
  <2>0. x = [pc |-> "clone", on |-> None, site |-> "here", span |-> taken, turn |-> "kept",
             overtaken |-> FALSE]
    BY <2>2 DEF Away
  <2>3. taken \subseteq Spans
    BY DEF Sources
  <2>4. IsFiniteSet(taken) /\ Cardinality(taken) \in Nat
    BY <2>3, SpansFinite, FS_Subset, FS_CardinalityType
  <2>5. Cardinality(At("here")) \in Nat
    BY <1>0, PeriodsFinite
  <2>6. taken # {} => Cardinality(At("here")) + Cardinality(taken) <= MaxBreaks
    BY <2>1, <2>4, <2>5, BreaksAssumption
  <2>7. x \in EditorRow
    BY <2>0, <2>3 DEF EditorRow
  <2>8. Carries(x)
    BY <2>0, <2>3, <2>4, <2>7 DEF Carries
  <2>9. Checked(x)
    BY <2>0, <2>1, <2>6 DEF Checked
  <2>10. editor' = [editor EXCEPT ![c] = x] /\ UNCHANGED <<period, entered, strayed>>
    BY <1>3, <2>1, <2>2 DEF CloneCheck
  <2> QED
    BY <2>8, <2>9, <2>10, ReadKeeps
<1>4. ASSUME NEW c \in Editors, CreatePut(c) PROVE BreaksInv'
  <2>1. PICK y : y = editor[c]
    OBVIOUS
  <2>2. y.pc = "create" /\ Carries(y) /\ Checked(y)
    BY <1>4, <2>1 DEF CreatePut, BreaksInv
  <2>3. PICK n, spot, s : n = entered + 1 /\ spot = y.site /\ s = y.span
    OBVIOUS
  <2>4. /\ n \in PeriodIds /\ spot \in {"here", None} /\ s \in Spans
        /\ s[1] \in 0..DayEnd /\ s[2] \in 0..DayEnd /\ s = <<s[1], s[2]>>
    BY <1>0, <1>4, <2>2, <2>3, SpanTimes, BreaksAssumption DEF CreatePut, Put, PeriodIds, Carries
  <2>5. PICK row : row = [site |-> spot, from |-> s[1], to |-> s[2], active |-> TRUE]
    OBVIOUS
  <2>6. row \in PeriodRow /\ row # None /\ row.site = spot /\ row.from = s[1] /\ row.to = s[2]
    <3>1. row \in PeriodRow
      BY <2>4, <2>5 DEF PeriodRow
    <3>2. row # None
      BY <3>1, PeriodRowAssumption
    <3> QED
      BY <2>5, <3>1, <3>2
  <2>7. /\ entered' = n /\ period' = [period EXCEPT ![n] = row]
        /\ strayed' = IF y.overtaken THEN strayed \cup {n} ELSE strayed
        /\ editor' = Overtaking(c)
    BY <1>4, <2>1, <2>3, <2>5 DEF CreatePut, Put
  <2>8. /\ period' \in [PeriodIds -> PeriodRow \cup {None}]
        /\ \A i \in PeriodIds \ {n} : period'[i] = period[i]
        /\ period'[n] = row
    BY <1>0, <2>4, <2>6, <2>7
  <2>9. ASSUME ~y.overtaken
        PROVE  /\ \A j \in At(spot) : ~Meets(<<row.from, row.to>>, period[j])
               /\ Cardinality(At(spot)) + Cardinality({n}) <= MaxBreaks
    <3>1. NoOverlap(s, spot, {}) /\ Cardinality(At(spot)) < MaxBreaks
      BY <2>2, <2>3, <2>9 DEF Checked
    <3>2. Cardinality(At(spot)) \in Nat /\ Cardinality({n}) = 1
      BY <1>0, PeriodsFinite, FS_Singleton
    <3> QED
      BY <2>4, <2>6, <3>1, <3>2, BreaksAssumption DEF NoOverlap, Meets
  <2>10. Joins({n}, spot)
    BY <2>4, <2>6, <2>7, <2>8, <2>9 DEF Joins
  <2>11. Apart' /\ Roomy'
    BY <2>4, <2>10, JoinKeeps
  <2>12. /\ editor' = [d \in Editors |-> editor'[d]]
         /\ \A d \in Editors : editor'[d] = Away \/ editor'[d] = [editor[d] EXCEPT !.overtaken = TRUE]
    BY <2>7 DEF Overtaking
  <2> QED
    BY <1>0, <2>3, <2>7, <2>8, <2>11, <2>12, WriteOvertakes DEF BreaksInv
<1>5. ASSUME NEW c \in Editors, UpdatePut(c) PROVE BreaksInv'
  <2>1. PICK y : y = editor[c]
    OBVIOUS
  <2>2. y.pc = "update" /\ Carries(y) /\ Checked(y)
    BY <1>5, <2>1 DEF UpdatePut, BreaksInv
  <2>3. PICK i, s, spot, act :
          /\ i = y.on /\ s = y.span
          /\ spot = CASE y.site = "here" -> "here"
                      [] y.site = "global" -> None
                      [] OTHER -> period[i].site
          /\ act = (y.turn = "on" \/ (y.turn = "kept" /\ period[i].active))
    OBVIOUS
  <2>4. /\ i \in PeriodIds /\ s \in Spans \cup {None} /\ act \in BOOLEAN
        /\ y.site \in {"here", "kept", "elsewhere", "global"}
    BY <2>2, <2>3 DEF Carries
  <2>5. CASE ~(i \in Periods /\ (y.site = "here" => here))
    <3>1. editor' = [editor EXCEPT ![c] = Away] /\ UNCHANGED <<period, strayed, entered>>
      BY <1>5, <2>1, <2>3, <2>5 DEF UpdatePut
    <3>2. Carries(Away) /\ Away.pc = "idle"
      BY AwayStands
    <3>3. PICK x : x = Away
      OBVIOUS
    <3>4. Carries(x) /\ Checked(x)
      BY <3>2, <3>3 DEF Checked
    <3> QED
      BY <3>1, <3>3, <3>4, ReadKeeps
  <2>6. CASE i \in Periods /\ (y.site = "here" => here)
    <3>2. PICK p \in PeriodRow : p = period[i]
      BY <1>0, <2>6
    <3>5. PICK row : row = [site |-> spot, active |-> act,
                            from |-> IF s = None THEN p.from ELSE s[1],
                            to |-> IF s = None THEN p.to ELSE s[2]]
      OBVIOUS
    <3>1. /\ period' = [period EXCEPT ![i] = row]
          /\ strayed' = IF \/ y.overtaken
                           \/ spot # p.site
                           \/ y.site = "elsewhere"
                           \/ act /\ ~p.active
                        THEN strayed \cup {i} ELSE strayed
          /\ editor' = Overtaking(c) /\ entered' = entered
      BY <1>0, <1>5, <2>1, <2>3, <2>6, <3>2, <3>5 DEF UpdatePut
    <3>3. spot \in {"here", None}
      BY <2>3, <2>4, <3>2 DEF PeriodRow
    <3>4. s # None => /\ s \in Spans /\ s[1] \in 0..DayEnd /\ s[2] \in 0..DayEnd
                      /\ s = <<s[1], s[2]>>
      BY <2>4, SpanTimes
    <3>6. row \in PeriodRow /\ row # None /\ row.site = spot /\ row.active = act
      BY <2>4, <3>2, <3>3, <3>4, <3>5, PeriodRowAssumption DEF PeriodRow
    <3>8. /\ period' \in [PeriodIds -> PeriodRow \cup {None}]
          /\ \A j \in PeriodIds \ {i} : period'[j] = period[j]
          /\ period'[i] = row
      BY <1>0, <2>4, <3>1, <3>6
    <3>9. Apart' /\ Roomy'
      <4>1. CASE strayed' = strayed \cup {i}
        <5>1. Joins({i}, spot)
          BY <3>6, <3>8, <4>1 DEF Joins
        <5> QED
          BY <2>4, <3>3, <5>1, JoinKeeps
      <4>2. CASE /\ strayed' = strayed /\ ~y.overtaken /\ spot = p.site /\ y.site # "elsewhere"
                 /\ act => p.active
        <5>0. Periods' = Periods /\ \A j \in Periods : j # i => period'[j] = period[j]
          BY <1>0, <2>6, <3>6, <3>8 DEF Periods, Present
        <5>1. ASSUME NEW q \in {"here", None} PROVE Cardinality(At(q)' \ strayed') <= MaxBreaks
          <6>1. At(q)' \ strayed' \subseteq At(q) \ strayed
            BY <3>2, <3>6, <3>8, <4>2, <5>0 DEF At
          <6>2. IsFiniteSet(At(q) \ strayed) /\ Cardinality(At(q) \ strayed) <= MaxBreaks
            BY <1>0, PeriodsFinite, FS_Subset DEF BreaksInv, Roomy
          <6> QED
            BY <6>1, <6>2, CountPart, BreaksAssumption
        <5>2. Roomy'
          BY <5>1 DEF Roomy
        <5>3. CASE s = None
          <6>1. row.from = p.from /\ row.to = p.to /\ row.site = p.site
            BY <3>5, <3>6, <4>2, <5>3
          <6>2. \A j \in Periods :
                    /\ period'[j].from = period[j].from /\ period'[j].to = period[j].to
                    /\ period'[j].site = period[j].site
                    /\ period'[j].active => period[j].active
            BY <3>2, <3>6, <3>8, <4>2, <5>0, <6>1
          <6> QED
            BY <4>2, <5>0, <5>2, <6>2 DEF BreaksInv, Apart, Clear, Meets
        <5>4. CASE s # None
          <6>1. NoOverlap(s, spot, {i})
            <7>1. spot = IF y.site = "here" THEN "here" ELSE period[i].site
              BY <2>3, <3>2, <4>2
            <7> QED
              BY <2>2, <2>3, <2>6, <4>2, <5>4, <7>1 DEF Checked
          <6>2. row.from = s[1] /\ row.to = s[2] /\ row.from \in Int /\ row.to \in Int
            BY <3>4, <3>5, <5>4, BreaksAssumption
          <6>3. ASSUME NEW j \in Periods, j # i, period[j].site = spot, period[j].active
                PROVE  /\ ~(row.from < period[j].to /\ row.to > period[j].from)
                       /\ period[j].from \in Int /\ period[j].to \in Int
            BY <1>0, <3>4, <6>1, <6>2, <6>3, BreaksAssumption DEF NoOverlap, At, Meets, PeriodRow
          <6>5. ASSUME NEW j \in Periods, NEW k \in Periods, j # k,
                       period'[j].site = period'[k].site, period'[j].active, period'[k].active,
                       j \notin strayed, k \notin strayed
                PROVE  Clear(j, k)'
            <7>1. CASE j # i /\ k # i
              BY <5>0, <6>5, <7>1 DEF BreaksInv, Apart, Clear, Meets
            <7>2. CASE j = i
              BY <3>6, <3>8, <5>0, <6>3, <6>5, <7>2 DEF Clear, Meets
            <7>3. CASE k = i
              <8>1. /\ period[j].site = spot /\ period[j].active
                    /\ period'[j] = period[j] /\ period'[k] = row /\ j # i
                BY <3>6, <3>8, <5>0, <6>5, <7>3
              <8>2. PICK a \in Int, b \in Int, u \in Int, v \in Int :
                      a = row.from /\ b = row.to /\ u = period[j].from /\ v = period[j].to
                BY <6>2, <6>3, <8>1
              <8>3. ~(a < v /\ b > u)
                BY <6>3, <8>1, <8>2
              <8>4. ~(u < b /\ v > a)
                BY <8>2, <8>3
              <8> QED
                BY <8>1, <8>2, <8>4 DEF Clear, Meets
            <7> QED
              BY <7>1, <7>2, <7>3
          <6> QED
            BY <4>2, <5>0, <5>2, <6>5 DEF Apart
        <5> QED
          BY <5>3, <5>4
      <4> QED
        BY <3>1, <4>1, <4>2
    <3>10. /\ editor' = [d \in Editors |-> editor'[d]]
           /\ \A d \in Editors : editor'[d] = Away \/ editor'[d] = [editor[d] EXCEPT !.overtaken = TRUE]
      BY <3>1 DEF Overtaking
    <3> QED
      BY <1>0, <3>1, <3>8, <3>9, <3>10, WriteOvertakes DEF BreaksInv
  <2> QED
    BY <2>5, <2>6
<1>6. ASSUME NEW c \in Editors, ClonePut(c) PROVE BreaksInv'
  <2>1. PICK y : y = editor[c]
    OBVIOUS
  <2>2. y.pc = "clone" /\ Carries(y) /\ Checked(y)
    BY <1>6, <2>1 DEF ClonePut, BreaksInv
  <2>3. PICK taken, size : taken = y.span /\ size = Cardinality(taken)
    OBVIOUS
  <2>4. taken \subseteq Spans /\ IsFiniteSet(taken) /\ size \in Nat
    BY <2>2, <2>3, FS_CardinalityType DEF Carries
  <2>5. PICK new : new = entered + 1..entered + size
    OBVIOUS
  <2>6. PICK row \in [new -> taken] :
          /\ \A i, j \in new : row[i] = row[j] => i = j
          /\ period' = [i \in PeriodIds |-> period'[i]]
          /\ \A i \in PeriodIds :
                period'[i] = IF i \in new THEN [site |-> "here", from |-> row[i][1], to |-> row[i][2],
                                               active |-> TRUE]
                             ELSE period[i]
    <3>1. PICK row \in [entered + 1..entered + Cardinality(editor[c].span) -> editor[c].span] :
            /\ \A i, j \in entered + 1..entered + Cardinality(editor[c].span) :
                  row[i] = row[j] => i = j
            /\ period' = [i \in PeriodIds |->
                            IF i \in entered + 1..entered + Cardinality(editor[c].span)
                            THEN [site |-> "here", from |-> row[i][1], to |-> row[i][2],
                                  active |-> TRUE]
                            ELSE period[i]]
      BY <1>6, Zenon DEF ClonePut
    <3>2. /\ row \in [new -> taken]
          /\ new = entered + 1..entered + Cardinality(editor[c].span)
      BY <2>1, <2>3, <2>5, <3>1
    <3>3. period' = [i \in PeriodIds |-> period'[i]]
      BY <3>1
    <3>4. ASSUME NEW i \in PeriodIds
          PROVE  period'[i] = IF i \in new THEN [site |-> "here", from |-> row[i][1], to |-> row[i][2],
                                                active |-> TRUE]
                              ELSE period[i]
      BY <3>1, <3>2
    <3> QED
      BY <3>1, <3>2, <3>3, <3>4
  <2>7. /\ entered + size <= MaxPeriods /\ entered' = entered + size
        /\ strayed' = IF y.overtaken THEN strayed \cup new ELSE strayed
        /\ editor' = Overtaking(c)
    BY <1>6, <2>1, <2>3, <2>5 DEF ClonePut
  <2>8. new \in SUBSET PeriodIds
    BY <1>0, <2>4, <2>5, <2>7, BreaksAssumption DEF PeriodIds
  <2>9. Cardinality(new) = size
    <3>1. PICK a \in Int, b \in Int : a = entered + 1 /\ b = entered + size
      BY <1>0, <2>4
    <3>2. Cardinality(a..b) = IF a > b THEN 0 ELSE b - a + 1
      BY <3>1, FS_Interval
    <3> QED
      BY <1>0, <2>4, <2>5, <3>1, <3>2
  <2>10. ASSUME NEW i \in new
         PROVE  /\ period'[i] \in PeriodRow /\ period'[i] # None /\ period'[i].site = "here"
                /\ period'[i].from = row[i][1] /\ period'[i].to = row[i][2]
                /\ row[i] \in taken /\ row[i] = <<row[i][1], row[i][2]>>
                /\ row[i][1] \in Int /\ row[i][2] \in Int
    <3>1. PICK s \in Spans : s = row[i]
      BY <2>4
    <3>2. s[1] \in 0..DayEnd /\ s[2] \in 0..DayEnd /\ s = <<s[1], s[2]>>
      BY SpanTimes
    <3>3. period'[i] = [site |-> "here", from |-> s[1], to |-> s[2], active |-> TRUE]
      BY <2>6, <2>8, <3>1
    <3>4. period'[i] \in PeriodRow
      BY <3>2, <3>3 DEF PeriodRow
    <3>5. period'[i] # None
      BY <3>4, PeriodRowAssumption
    <3>6. s[1] \in Int /\ s[2] \in Int
      BY <3>2, BreaksAssumption
    <3> QED
      BY <3>1, <3>2, <3>3, <3>4, <3>5, <3>6
  <2>11. /\ period' \in [PeriodIds -> PeriodRow \cup {None}]
         /\ \A i \in PeriodIds \ new : period'[i] = period[i]
    <3>1. \A i \in PeriodIds : period'[i] \in PeriodRow \cup {None}
      BY <1>0, <2>6, <2>10
    <3> QED
      BY <2>6, <3>1
  <2>12. Joins(new, "here")
    <3>1. CASE y.overtaken \/ taken = {}
      <4>1. taken = {} => size = 0
        BY <2>3, FS_EmptySet
      <4>2. taken = {} => new = {}
        BY <1>0, <2>5, <4>1
      <4> QED
        BY <2>7, <2>10, <2>11, <3>1, <4>2 DEF Joins
    <3>2. CASE ~y.overtaken /\ taken # {}
      <4>1. /\ \A s \in taken : NoOverlap(s, "here", {})
            /\ \A s, t \in taken : s = t \/ s[2] <= t[1] \/ t[2] <= s[1]
            /\ Cardinality(At("here")) + size <= MaxBreaks
        BY <2>2, <2>3, <3>2 DEF Checked
      <4>2. ASSUME NEW i \in new, NEW j \in At("here")
            PROVE  ~Meets(<<period'[i].from, period'[i].to>>, period[j])
        BY <2>10, <4>1 DEF NoOverlap, Meets
      <4>3. ASSUME NEW i \in new, NEW j \in new, i # j PROVE Clear(i, j)'
        <5>1. PICK a \in Int, b \in Int, u \in Int, v \in Int :
                /\ a = row[i][1] /\ b = row[i][2] /\ u = row[j][1] /\ v = row[j][2]
          BY <2>10
        <5>2. row[i] # row[j] /\ row[i] \in taken /\ row[j] \in taken
          BY <2>6, <2>10, <4>3
        <5>3. b <= u \/ v <= a
          BY <4>1, <5>1, <5>2
        <5>4. ~(a < v /\ b > u)
          BY <5>1, <5>3
        <5> QED
          BY <2>10, <5>1, <5>4 DEF Clear, Meets
      <4> QED
        BY <2>7, <2>9, <2>10, <2>11, <3>2, <4>1, <4>2, <4>3 DEF Joins
    <3> QED
      BY <3>1, <3>2
  <2>13. Apart' /\ Roomy'
    BY <2>8, <2>12, JoinKeeps
  <2>14. /\ editor' = [d \in Editors |-> editor'[d]]
         /\ \A d \in Editors : editor'[d] = Away \/ editor'[d] = [editor[d] EXCEPT !.overtaken = TRUE]
    BY <2>7 DEF Overtaking
  <2> QED
    BY <1>0, <2>4, <2>7, <2>11, <2>13, <2>14, WriteOvertakes DEF BreaksInv
<1>7. ASSUME NEW c \in Editors, EditorDies(c) PROVE BreaksInv'
  <2>1. Carries(Away) /\ Away.pc = "idle"
    BY AwayStands
  <2>2. PICK x : x = Away
    OBVIOUS
  <2>3. Carries(x) /\ Checked(x)
    BY <2>1, <2>2 DEF Checked
  <2> QED
    BY <1>7, <2>2, <2>3, ReadKeeps DEF EditorDies
<1>8. ASSUME NEW i \in PeriodIds, RemovePeriod(i) PROVE BreaksInv'
  <2>1. /\ period' = [period EXCEPT ![i] = None]
        /\ UNCHANGED <<entered, editor, strayed>>
    BY <1>8 DEF RemovePeriod
  <2>2. /\ period' \in [PeriodIds -> PeriodRow \cup {None}] /\ DOMAIN period' = PeriodIds
        /\ \A j \in PeriodIds : period'[j] = period[j] \/ period'[j] = None
    BY <1>0, <2>1
  <2>3. ASSUME NEW c \in Editors, NEW x \in EditorRow, x = editor'[c]
        PROVE  Carries(x) /\ Checked(x)'
    <3>1. Carries(x) /\ Checked(x)
      BY <2>1, <2>3 DEF BreaksInv
    <3> QED
      BY <1>0, <2>2, <3>1, ChecksLast
  <2>4. Periods' \subseteq Periods /\ \A j \in Periods' : period'[j] = period[j]
    BY <1>0, <2>2 DEF Periods, Present
  <2>5. Apart'
    BY <2>1, <2>4 DEF BreaksInv, Apart, Clear, Meets
  <2>6. ASSUME NEW q \in {"here", None} PROVE Cardinality(At(q)' \ strayed') <= MaxBreaks
    <3>1. At(q)' \ strayed' \subseteq At(q) \ strayed
      BY <2>1, <2>4 DEF At
    <3>2. IsFiniteSet(At(q) \ strayed) /\ Cardinality(At(q) \ strayed) <= MaxBreaks
      BY <1>0, PeriodsFinite, FS_Subset DEF BreaksInv, Roomy
    <3> QED
      BY <3>1, <3>2, CountPart, BreaksAssumption
  <2>7. editor' \in [Editors -> EditorRow]
    BY <2>1 DEF BreaksInv
  <2> QED
    BY <1>0, <2>1, <2>2, <2>3, <2>5, <2>6, <2>7 DEF BreaksInv, Roomy
<1>9. ASSUME NEW spot \in {"here", None}, NEW new \in {"here", None},
             period' = [i \in PeriodIds |->
                          IF i \in Periods THEN [period[i] EXCEPT !.site = new] ELSE None],
             \A i \in Periods : period[i].site = spot \/ period[i].site = new,
             strayed' = strayed \cup At(spot),
             editor' = [d \in Editors |->
                          IF editor[d] = Away THEN Away ELSE [editor[d] EXCEPT !.overtaken = TRUE]],
             entered' = entered
      PROVE  BreaksInv'
  <2>1. ASSUME NEW i \in Periods
        PROVE  /\ period'[i] \in PeriodRow /\ i \in PeriodIds
               /\ period[i].site = new => period'[i] = period[i]
               /\ period'[i].active = period[i].active
    <3>1. PICK p \in PeriodRow : p = period[i]
      BY <1>0
    <3>2. period'[i] = [p EXCEPT !.site = new]
      BY <1>0, <1>9, <3>1
    <3>3. p = [site |-> p.site, from |-> p.from, to |-> p.to, active |-> p.active]
      BY DEF PeriodRow
    <3>4. period'[i] = [site |-> new, from |-> p.from, to |-> p.to, active |-> p.active]
      BY <3>2, <3>3
    <3> QED
      BY <1>0, <1>9, <3>1, <3>3, <3>4 DEF PeriodRow
  <2>2. period' \in [PeriodIds -> PeriodRow \cup {None}]
    BY <1>9, <2>1
  <2>3. Periods' \subseteq Periods
    BY <1>9 DEF Periods, Present
  <2>4. ASSUME NEW i \in Periods', i \notin strayed', period'[i].active
        PROVE  i \in Periods /\ i \notin strayed /\ period'[i] = period[i]
    BY <1>9, <2>1, <2>3, <2>4 DEF At
  <2>5. Apart'
    BY <2>4 DEF BreaksInv, Apart, Clear, Meets
  <2>6. ASSUME NEW q \in {"here", None} PROVE Cardinality(At(q)' \ strayed') <= MaxBreaks
    <3>1. At(q)' \ strayed' \subseteq At(q) \ strayed
      BY <2>4 DEF At
    <3>2. IsFiniteSet(At(q) \ strayed) /\ Cardinality(At(q) \ strayed) <= MaxBreaks
      BY <1>0, PeriodsFinite, FS_Subset DEF BreaksInv, Roomy
    <3> QED
      BY <3>1, <3>2, CountPart, BreaksAssumption
  <2>7. /\ editor' = [d \in Editors |-> editor'[d]]
        /\ \A d \in Editors : editor'[d] = Away \/ editor'[d] = [editor[d] EXCEPT !.overtaken = TRUE]
    BY <1>9
  <2> QED
    BY <1>0, <1>9, <2>2, <2>5, <2>6, <2>7, WriteOvertakes DEF BreaksInv, Roomy
<1>10. \A i \in Periods : period[i].site \in {"here", None}
  BY <1>0 DEF PeriodRow
<1>11. CASE Absorb
  BY <1>9, <1>10, <1>11 DEF Absorb
<1>12. CASE SiteGoes
  BY <1>9, <1>10, <1>12 DEF SiteGoes
<1>13. CASE UNCHANGED breaksVars
  BY <1>13 DEF breaksVars, BreaksInv, Apart, Roomy, Clear, Meets, At, Periods, Present,
               Checked, NoOverlap
<1> QED
  BY <1>1, <1>2, <1>3, <1>4, <1>5, <1>6, <1>7, <1>8, <1>11, <1>12, <1>13 DEF BreaksNext

LEMMA BreaksAlways == BreaksSpec => []BreaksInv
BY InitBreaksInv, NextBreaksInv, PTL DEF BreaksSpec

\* Whatever calls check and write in between, two active periods of one site that
\* overlap, or one too many, come of a row that an overtaken or missing check let in
\* (break-configs.service.ts: create, update, the clone and the migration).
THEOREM PeriodsStayApart == BreaksSpec => []BreaksDisjoint
<1>1. BreaksInv => BreaksDisjoint
  <2> SUFFICES ASSUME BreaksInv PROVE BreaksDisjoint
    OBVIOUS
  <2>1. ASSUME NEW spot \in {"here", None}, NEW i \in At(spot), NEW j \in At(spot),
               i # j /\ Meets(<<period[i].from, period[i].to>>, period[j])
        PROVE  strayed \cap {i, j} # {}
    BY <2>1 DEF BreaksInv, Apart, Clear, At
  <2> QED
    BY <2>1 DEF BreaksDisjoint, BreaksInv, Roomy
<1> QED
  BY <1>1, BreaksAlways, PTL
=============================================================================
