------------------------------ MODULE Policies ------------------------------
(* The incentive policies of one track of one site                           *)
(* (src/incentives/incentives.service.ts, generatePolicyPack of src/ai).     *)
(* A change of status reads the policy, checks the transition and the four   *)
(* weeks in SHADOW, retires the policy it replaces, and writes what it       *)
(* decided, whatever the policy has become meanwhile.                        *)
EXTENDS Rows, Integers, FiniteSets

CONSTANTS
    Managers,     \* concurrent calls
    MaxPolicies,  \* bound: policies ever created
    MaxPolicyDay, \* bound on the calendar
    MaxChanges,   \* bound: calls begun
    ShadowDays    \* SHADOW_PROMOTION_MIN_DAYS

ASSUME PoliciesAssumption ==
    /\ {MaxPolicies, MaxPolicyDay, MaxChanges, ShadowDays} \subseteq Nat
    /\ IsFiniteSet(Managers)

VARIABLES
    policyDay,
    policy,    \* policies, in the order of createdAt
    drafted,   \* policies created so far
    changes,   \* calls begun so far
    manager,   \* what each call is doing
    overlaps   \* activations written between another's replacement and its write

policyVars == <<policyDay, policy, drafted, changes, manager, overlaps>>

PolicyIds == 1..MaxPolicies

\* legacy: the track is stored under a name of an earlier release.
PolicyRow == [status : {"DRAFT", "SHADOW", "ACTIVE", "RETIRED"}, legacy : BOOLEAN,
              from : (0..MaxPolicyDay) \cup {None}]

ASSUME PolicyRowAssumption == None \notin PolicyRow

Policies == Present(policy)

InStatus(s) == {p \in Policies : policy[p].status \in s}

transitions == [DRAFT |-> {"SHADOW", "RETIRED"}, SHADOW |-> {"ACTIVE", "DRAFT", "RETIRED"},
                ACTIVE |-> {"RETIRED"}, RETIRED |-> {}]

NoChange == [pc |-> "idle", on |-> None, to |-> None, from |-> None, force |-> FALSE]

Engage(c) == manager[c] = NoChange /\ changes < MaxChanges /\ changes' = changes + 1

Resting(c) == manager' = [manager EXCEPT ![c] = NoChange]

Draft(status, legacy, from) ==
    /\ drafted < MaxPolicies
    /\ drafted' = drafted + 1
    /\ policy' = [policy EXCEPT ![drafted + 1] =
                    [status |-> status, legacy |-> legacy, from |-> from]]

CreatePolicyVersion(c, legacy) ==
    /\ Engage(c)
    /\ Draft("DRAFT", legacy, None)
    /\ UNCHANGED <<policyDay, manager, overlaps>>

\* generatePolicyPack: nothing but retired policies, then the model is asked.
GeneratePackRead(c) ==
    /\ Engage(c)
    /\ InStatus({"DRAFT", "SHADOW", "ACTIVE"}) = {}
    /\ manager' = [manager EXCEPT ![c] = [NoChange EXCEPT !.pc = "generate"]]
    /\ UNCHANGED <<policyDay, policy, drafted, overlaps>>

GeneratePack(c) ==
    /\ manager[c].pc = "generate"
    /\ \E legacy \in BOOLEAN : Draft("DRAFT", legacy, None)
    /\ Resting(c)
    /\ UNCHANGED <<policyDay, changes, overlaps>>

\* The gate of a promotion that is not forced.
RanInShadow(row) == row.from # None /\ policyDay - row.from >= ShadowDays

UpdateStatusRead(c, p, to, force) ==
    /\ p \in Policies
    /\ Engage(c)
    /\ to \in transitions[policy[p].status]
    /\ force => to = "ACTIVE"
    /\ to = "ACTIVE" /\ ~force => RanInShadow(policy[p])
    /\ manager' = [manager EXCEPT ![c] =
                    [pc |-> IF to = "ACTIVE" THEN "replace" ELSE "write", on |-> p, to |-> to,
                     from |-> policy[p].from, force |-> force]]
    /\ UNCHANGED <<policyDay, policy, drafted, overlaps>>

\* Mutant: only policies stored under the same track name are replaced.
ReplacesByName(q, p) ==
    q # p /\ policy[q].status = "ACTIVE" /\ policy[q].legacy = policy[p].legacy

\* trackVariants holds the old names too.
Replaces(q, p) == q # p /\ policy[q].status = "ACTIVE"

UpdateStatusReplace(c) ==
    /\ manager[c].pc = "replace"
    /\ policy' = [q \in PolicyIds |->
                    IF q \in Policies /\ Replaces(q, manager[c].on)
                    THEN [policy[q] EXCEPT !.status = "RETIRED"] ELSE policy[q]]
    /\ manager' = [manager EXCEPT ![c].pc = "write"]
    /\ UNCHANGED <<policyDay, drafted, changes, overlaps>>

Activating(c) == manager[c].pc = "write" /\ manager[c].to = "ACTIVE"

\* effectiveFrom is stamped by the first SHADOW and by ACTIVE.
UpdateStatusWrite(c) ==
    /\ manager[c].pc = "write"
    /\ LET p == manager[c].on
           to == manager[c].to
           stamp == to = "ACTIVE" \/ (to = "SHADOW" /\ manager[c].from = None) IN
       policy' = [policy EXCEPT ![p].status = to,
                                ![p].from = IF stamp THEN policyDay ELSE manager[c].from]
    /\ overlaps' = overlaps + (IF manager[c].to = "ACTIVE"
                               THEN Cardinality({d \in Managers \ {c} : Activating(d)}) ELSE 0)
    /\ Resting(c)
    /\ UNCHANGED <<policyDay, drafted, changes>>

\* applyPolicyPack: what runs is retired, the pack's policies start in SHADOW.
ApplyPackRetire(c) ==
    /\ Engage(c)
    /\ policy' = [p \in PolicyIds |->
                    IF p \in InStatus({"ACTIVE", "SHADOW"})
                    THEN [policy[p] EXCEPT !.status = "RETIRED"] ELSE policy[p]]
    /\ manager' = [manager EXCEPT ![c] = [NoChange EXCEPT !.pc = "pack"]]
    /\ UNCHANGED <<policyDay, drafted, overlaps>>

ApplyPackCreate(c) ==
    /\ manager[c].pc = "pack"
    /\ Draft("SHADOW", FALSE, policyDay)
    /\ Resting(c)
    /\ UNCHANGED <<policyDay, changes, overlaps>>

\* A call fails or its instance dies between two statements.
ManagerDies(c) ==
    /\ manager[c] # NoChange
    /\ Resting(c)
    /\ UNCHANGED <<policyDay, policy, drafted, changes, overlaps>>

PolicyTick ==
    /\ policyDay < MaxPolicyDay
    /\ policyDay' = policyDay + 1
    /\ UNCHANGED <<policy, drafted, changes, manager, overlaps>>

PoliciesInit ==
    /\ policyDay = 0
    /\ policy = [p \in PolicyIds |-> None]
    /\ drafted = 0
    /\ changes = 0
    /\ manager = [c \in Managers |-> NoChange]
    /\ overlaps = 0

PoliciesNext ==
    \/ PolicyTick
    \/ \E c \in Managers :
        \/ \E legacy \in BOOLEAN : CreatePolicyVersion(c, legacy)
        \/ \E p \in PolicyIds, to \in {"DRAFT", "SHADOW", "ACTIVE", "RETIRED"}, force \in BOOLEAN :
            UpdateStatusRead(c, p, to, force)
        \/ UpdateStatusReplace(c) \/ UpdateStatusWrite(c)
        \/ GeneratePackRead(c) \/ GeneratePack(c) \/ ApplyPackRetire(c) \/ ApplyPackCreate(c)
        \/ ManagerDies(c)

PoliciesSpec == PoliciesInit /\ [][PoliciesNext]_policyVars

-----------------------------------------------------------------------------
(* Property *)

\* An activation replaces the policy that ran on the track, under whatever name
\* that was stored: a second one runs only where another
\* activation was written between this one's replacement and its write.
ActiveAlone == Cardinality(InStatus({"ACTIVE"})) <= 1 + overlaps
=============================================================================
