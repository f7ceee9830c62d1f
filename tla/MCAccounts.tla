----------------------------- MODULE MCAccounts -----------------------------
(* The parts of account handling, and the operator's reports and mails, each *)
(* with its own instance.  They share no state that one of them decides on,  *)
(* so a behaviour moves one of them, the focus, and their state spaces add   *)
(* up instead of multiplying.                                                *)
EXTENDS TLC, Tokens, Lockout, Codes, Roster, Dashboard, Notices, Console

CONSTANTS c1, c2, k1, m1, m2, i1, i2

VARIABLE focus

Parts == {"tokens", "lockout", "codes", "roster", "exposure", "notices", "console"}

reportVars == <<exposureVars, noticeVars, consoleVars>>

\* All workers are of the site, or all of them are workers and one is not.
MCWorlds ==
    {w \in FirstRoles \X [People -> BOOLEAN] :
        \/ \A p \in People : w[2][p]
        \/ /\ \A p \in People : w[1][p] = "WORKER"
           /\ \E p \in People : w[2][p]}

\* One item is anywhere, the other running at the first centre.
MCFirstItems ==
    {i \in FirstItems : i[i2] = [at |-> 1, status |-> "ACTIVE", old |-> TRUE]}

\* The first states of a part: only one of them while another part moves.
Among(part, worlds, one) == IF focus = part THEN worlds ELSE {one}

AccountsInit ==
    /\ focus \in Parts
    /\ TokensInit /\ LockoutInit /\ CodesInit /\ RosterInit
    /\ \E world \in Among("exposure", MCWorlds,
                          <<[w \in People |-> "WORKER"], [w \in People |-> TRUE]>>) :
        ExposureFrom(world[1], world[2])
    /\ \E world \in Among("notices", BOOLEAN \X FirstCentres \X MCFirstItems,
                          <<TRUE, CHOOSE c \in FirstCentres : TRUE, CHOOSE i \in MCFirstItems : TRUE>>) :
        NoticesFrom(world[1], world[2], world[3])
    /\ \E world \in Among("console", {SitesHere} \X ViewTimes \X [Staff -> Spots] \X BOOLEAN,
                          <<{}, Min(ViewTimes), [w \in Staff |-> None], FALSE>>) :
        ConsoleFrom(world[1], world[2], world[3], world[4])

AccountsNext ==
    /\ UNCHANGED focus
    /\ \/ /\ focus = "tokens" /\ TokensNext
          /\ UNCHANGED <<lockoutVars, codesVars, rosterVars, reportVars>>
       \/ /\ focus = "lockout" /\ LockoutNext
          /\ UNCHANGED <<tokenVars, codesVars, rosterVars, reportVars>>
       \/ /\ focus = "codes" /\ CodesNext
          /\ UNCHANGED <<tokenVars, lockoutVars, rosterVars, reportVars>>
       \/ /\ focus = "roster" /\ RosterNext
          /\ UNCHANGED <<tokenVars, lockoutVars, codesVars, reportVars>>
       \/ /\ focus = "exposure" /\ ExposureNext
          /\ UNCHANGED <<tokenVars, lockoutVars, codesVars, rosterVars, noticeVars, consoleVars>>
       \/ /\ focus = "notices" /\ NoticesNext
          /\ UNCHANGED <<tokenVars, lockoutVars, codesVars, rosterVars, exposureVars, consoleVars>>
       \/ /\ focus = "console" /\ ConsoleNext
          /\ UNCHANGED <<tokenVars, lockoutVars, codesVars, rosterVars, exposureVars, noticeVars>>

AccountsSpec ==
    AccountsInit
    /\ [][AccountsNext]_<<focus, tokenVars, lockoutVars, codesVars, rosterVars, reportVars>>

\* Callers, clerks and workers of the same kind are interchangeable; the parts
\* use the same two names for theirs.
CallSymmetry == Permutations(Callers) \cup Permutations(Emails)

\* Half a minute is the unit of the exposure: items and pauses begin and end
\* before the month, within an hour and at midnight.
MCMoments == {1, 3, 5}

\* A quarter of an hour is the unit of the views: yesterday, the last evening,
\* this morning; before the start of work and after it; three views, before
\* work, within the grace and after it.
MCBeginnings == {10, 46, 54}
MCReports == {51, 53, 57}
MCViewTimes == {50, 58, 66}
=============================================================================
