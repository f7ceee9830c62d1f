----------------------------- MODULE MCServices -----------------------------
(* The smaller services, each with its own instance.  As in MCAccounts, they *)
(* share no state that one of them decides on: a behaviour moves one, the    *)
(* focus, and the state spaces add up instead of multiplying.                *)
EXTENDS TLC, Policies, ScoreRuns, Scores, HeatRecords, NetMinutes, Inbound, Sites, Breaks, Backups

CONSTANTS c1, c2, k0, k1, k2, manual, restore

VARIABLE focus

Parts == {"policies", "runs", "scores", "heat", "net", "inbound", "sites", "breaks", "backups"}

servicesVars == <<focus, policyVars, runVars, scoreVars, heatVars, netVars, inboundVars,
                  sitesVars, breaksVars, backupVars>>

\* The split OUTBOUND is documented with.
Documented == [performance |-> 55, reliability |-> 30, teamwork |-> 15]

\* The period that was deactivated before, which meets the other two.
OldPeriod == [site |-> "here", from |-> 0, to |-> 2, active |-> FALSE]

ServicesInit ==
    /\ focus \in Parts
    /\ PoliciesInit /\ ScoreRunsInit /\ HeatInit /\ NetInit /\ InboundInit /\ SitesInit
    /\ BreaksInit /\ BackupsInit
    /\ ScoresInit
    /\ focus # "scores" => track = "OUTBOUND" /\ split = Documented
    /\ focus # "heat" => sited
    /\ period[1] \in {None, OldPeriod}
    /\ focus # "breaks" => entered = 0

ServicesNext ==
    /\ UNCHANGED focus
    /\ IF focus = "policies" THEN PoliciesNext ELSE UNCHANGED policyVars
    /\ IF focus = "runs" THEN ScoreRunsNext ELSE UNCHANGED runVars
    /\ IF focus = "scores" THEN ScoresNext ELSE UNCHANGED scoreVars
    /\ IF focus = "heat" THEN HeatNext ELSE UNCHANGED heatVars
    /\ IF focus = "net" THEN NetNext ELSE UNCHANGED netVars
    /\ IF focus = "inbound" THEN InboundNext ELSE UNCHANGED inboundVars
    /\ IF focus = "sites" THEN SitesNext ELSE UNCHANGED sitesVars
    /\ IF focus = "breaks" THEN BreaksNext ELSE UNCHANGED breaksVars
    /\ IF focus = "backups" THEN BackupsNext ELSE UNCHANGED backupVars

ServicesSpec == ServicesInit /\ [][ServicesNext]_servicesVars

\* Periods that touch, that lie in one another and that overlap in part.
MCSpans == {<<0, 1>>, <<0, 2>>, <<1, 3>>}

\* Weights that differ in what they favour, and one with a negative one.
MCSplits == {Documented, [performance |-> 10, reliability |-> 90, teamwork |-> 0],
             [performance |-> 120, reliability |-> -40, teamwork |-> 20]}

\* Calls of the same kind are interchangeable.  So are codes and requests, but in
\* this many parts a larger group costs more than it saves.
ServiceSymmetry == Permutations({c1, c2})
=============================================================================
