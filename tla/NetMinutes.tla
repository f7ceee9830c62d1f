----------------------------- MODULE NetMinutes -----------------------------
(* Net work minutes of one person, as the callers of                         *)
(* src/common/utils/net-work-minutes.ts add them up: the works without       *)
(* their pauses, united where they overlap, without the site's daily breaks, *)
(* rounded once.                                                             *)
EXTENDS WorkTime

CONSTANTS
    Horizon,   \* bound on the clock
    MaxFacts   \* bound: works, pauses and breaks together

ASSUME NetMinutesAssumption == {Horizon, MaxFacts} \subseteq Nat

VARIABLES
    works,  \* [start, end, pauses]: rows of work_items and their notes
    breaks  \* [from, to, global]: rows of break_configs

netVars == <<works, breaks>>

Times == 1..Horizon

\* to = None: a pause that is still open.
Pauses == {p \in [from : Times, to : Times \cup {None}] : p.to = None \/ p.from < p.to}

\* The site's own breaks if it has one, the global ones otherwise.
forSite ==
    LET own == {b \in breaks : ~b.global}
    IN  IF own # {} THEN own ELSE breaks

NetMinutesOfPerson ==
    netMinutesOfSegments(UNION {activeWorkSegments(w) : w \in works}, forSite)

-----------------------------------------------------------------------------
(* The rows the calculation reads, one after the other. *)

Facts == Cardinality(breaks) + FoldSet(LAMBDA w, n : n + 1 + Cardinality(w.pauses), 0, works)

AddWork(start, end) ==
    /\ Facts < MaxFacts
    /\ start <= end
    /\ works' = works \cup {[start |-> start, end |-> end, pauses |-> {}]}
    /\ UNCHANGED breaks

AddPause(w, p) ==
    /\ Facts < MaxFacts
    /\ works' = (works \ {w}) \cup {[w EXCEPT !.pauses = @ \cup {p}]}
    /\ UNCHANGED breaks

AddBreak(from, to, global) ==
    /\ Facts < MaxFacts
    /\ breaks' = breaks \cup {[from |-> from, to |-> to, global |-> global]}
    /\ UNCHANGED works

NetInit == works = {} /\ breaks = {}

NetNext ==
    \/ \E start, end \in Times : AddWork(start, end)
    \/ \E w \in works, p \in Pauses : AddPause(w, p)
    \/ \E from \in 0..DayLength, to \in 0..DayLength + 1, global \in BOOLEAN :
        from < to /\ AddBreak(from, to, global)

NetSpec == NetInit /\ [][NetNext]_netVars

-----------------------------------------------------------------------------
(* Property *)

\* The half minute that begins at t belongs to the person's work.
Worked(t) ==
    /\ \E w \in works :
        /\ t >= w.start /\ t < w.end
        /\ \A p \in w.pauses : ~(t >= p.from /\ (p.to = None \/ t < p.to))
    /\ \A b \in forSite :
        LET inDay == (t + KstOffset) % DayLength
        IN  b.to <= DayLength => ~(inDay >= b.from /\ inDay < b.to)

\* The calculation counts every half minute of the person's works once, outside
\* its pauses and outside the breaks of its day, and rounds the sum once: no
\* overlap of works, pauses or breaks, touch, nesting or midnight makes it count
\* one twice or take one off twice.
NetAgrees == NetMinutesOfPerson = (Cardinality({t \in Times : Worked(t)}) + 1) \div 2
=============================================================================
