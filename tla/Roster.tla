------------------------------- MODULE Roster -------------------------------
(* The accounts of one site: registration and linking, administrator         *)
(* invites, creation under the plan's limit, changes, deactivation and       *)
(* deletion (src/auth, src/workers, src/subscriptions/usage-limit).  Every   *)
(* call checks first and writes later; what stops two of them is a unique    *)
(* index, a condition repeated in the update, or nothing.                    *)
EXTENDS Rows, Integers, FiniteSets

CONSTANTS
    Clerks,      \* concurrent calls
    MaxAccounts, \* bound: accounts ever created
    MaxInvites,  \* bound: invites ever created
    Emails,
    EmpCodes,    \* employee codes given twice; None stands for one of its own
    MaxWorkers,  \* plan.maxWorkers
    MaxBegun,    \* bound: calls begun
    MaxUnchecked \* bound: additions by paths that do not look at the plan

ASSUME RosterAssumption ==
    /\ {MaxAccounts, MaxInvites, MaxWorkers, MaxBegun, MaxUnchecked} \subseteq Nat
    /\ IsFiniteSet(Clerks) /\ Clerks # {}
    /\ EmpCodes # {} /\ None \notin Emails
    \* the first account is there, and the plan has room for it
    /\ MaxAccounts # 0 /\ MaxWorkers # 0

VARIABLES
    account,    \* account rows, in the order of creation
    opened,     \* accounts created so far
    invite,     \* invite rows, in the order of creation
    invited,    \* invites created so far
    begun,      \* calls begun so far
    clerk,      \* what each call is doing
    linked,     \* per account: linkings since it last had no e-mail
    unchecked   \* activations that did not look at the plan

rosterVars == <<account, opened, invite, invited, begun, clerk, linked, unchecked>>

AccountIds == 1..MaxAccounts
InviteIds == 1..MaxInvites

\* records: what refers to the account, work records or settled ones; trail: its
\* audit, login and consent rows; from: the invite it came from.
AccountRow == [email : Emails \cup {None}, code : EmpCodes \cup {None}, active : BOOLEAN,
               records : {"none", "work", "settled"}, trail : BOOLEAN,
               from : InviteIds \cup {None}]

InviteRow == [email : Emails, accepted : BOOLEAN, expired : BOOLEAN]

ASSUME RosterRowAssumption == None \notin AccountRow /\ None \notin InviteRow

Accounts == Present(account)

Invites == Present(invite)

EmailFree(m) == \A i \in Accounts : account[i].email # m

CodeFree(k) == k = None \/ \A i \in Accounts : account[i].code # k

ActiveHere == {i \in Accounts : account[i].active}

NoWork == [op |-> "idle", email |-> None, on |-> None]

Take(c, op, m, on) == clerk' = [clerk EXCEPT ![c] = [op |-> op, email |-> m, on |-> on]]

Leave(c) == clerk' = [clerk EXCEPT ![c] = NoWork]

Begin(c) == clerk[c] = NoWork /\ begun < MaxBegun /\ begun' = begun + 1

Fresh(m, k, from) == [email |-> m, code |-> k, active |-> TRUE,
                      records |-> "none", trail |-> TRUE, from |-> from]

Open(row) ==
    /\ opened < MaxAccounts
    /\ opened' = opened + 1
    /\ account' = [account EXCEPT ![opened + 1] = row]

Unlimited == unchecked < MaxUnchecked /\ unchecked' = unchecked + 1

-----------------------------------------------------------------------------
(* Registration *)

RegisterRead(c, m) ==
    /\ Begin(c)
    /\ EmailFree(m)
    /\ Take(c, "register", m, None)
    /\ UNCHANGED <<account, opened, invite, invited, linked, unchecked>>

\* The unique index on e-mails decides; a site code makes the account ours,
\* without a look at the plan.
RegisterCreate(c) ==
    /\ clerk[c].op = "register"
    /\ \/ EmailFree(clerk[c].email) /\ Unlimited /\ Open(Fresh(clerk[c].email, None, None))
       \/ ~EmailFree(clerk[c].email) /\ UNCHANGED <<account, opened, unchecked>>
    /\ Leave(c)
    /\ UNCHANGED <<invite, invited, linked, begun>>

\* register with an employee code: an account without an e-mail gets one.
LinkRead(c, m) ==
    /\ Begin(c)
    /\ EmailFree(m)
    /\ \E i \in Accounts :
        /\ account[i].code # None
        /\ account[i].email = None
        /\ Take(c, "link", m, i)
    /\ UNCHANGED <<account, opened, invite, invited, linked, unchecked>>

\* Mutant: the update does not repeat the condition.
StillUnlinkedForgotten(i) == account[i] # None

\* updateMany({ where: { employeeCode, email: null } })
StillUnlinked(i) == account[i] # None /\ account[i].email = None

LinkWrite(c) ==
    /\ clerk[c].op = "link"
    /\ LET i == clerk[c].on IN
       IF StillUnlinked(i) /\ EmailFree(clerk[c].email)
       THEN /\ account' = [account EXCEPT ![i].email = clerk[c].email]
            /\ linked' = [linked EXCEPT ![i] = @ + 1]
       ELSE UNCHANGED <<account, linked>>
    /\ Leave(c)
    /\ UNCHANGED <<opened, invite, invited, unchecked, begun>>

-----------------------------------------------------------------------------
(* Invites *)

InviteRead(c, m) ==
    /\ Begin(c)
    /\ EmailFree(m)
    /\ Take(c, "clear", m, None)
    /\ UNCHANGED <<account, opened, invite, invited, linked, unchecked>>

\* Open invites of the address are deleted, a new one is stored after that.
InviteClear(c) ==
    /\ clerk[c].op = "clear"
    /\ invite' = [v \in InviteIds |->
                    IF v \in Invites /\ invite[v].email = clerk[c].email /\ ~invite[v].accepted
                    THEN None ELSE invite[v]]
    /\ Take(c, "invite", clerk[c].email, None)
    /\ UNCHANGED <<account, opened, invited, linked, unchecked, begun>>

InviteStore(c) ==
    /\ clerk[c].op = "invite"
    /\ invited < MaxInvites
    /\ invited' = invited + 1
    /\ invite' = [invite EXCEPT ![invited + 1] =
                    [email |-> clerk[c].email, accepted |-> FALSE, expired |-> FALSE]]
    /\ Leave(c)
    /\ UNCHANGED <<account, opened, linked, unchecked, begun>>

InviteExpires(v) ==
    /\ v \in Invites /\ ~invite[v].expired
    /\ invite' = [invite EXCEPT ![v].expired = TRUE]
    /\ UNCHANGED <<account, opened, invited, clerk, linked, unchecked, begun>>

\* Mutant: the invite is marked before the account is made.
FirstMark == "mark"

\* What acceptAdminInvite does first.
FirstStep == "create"

AcceptRead(c) ==
    /\ Begin(c)
    /\ \E v \in Invites :
        /\ ~invite[v].accepted
        /\ ~invite[v].expired
        /\ EmailFree(invite[v].email)
        /\ Take(c, FirstStep, invite[v].email, v)
    /\ UNCHANGED <<account, opened, invite, invited, linked, unchecked>>

\* The account, without a look at the plan; the unique index may refuse it.
AcceptCreate(c) ==
    /\ clerk[c].op = "create"
    /\ LET m == clerk[c].email IN
       \/ /\ EmailFree(m)
          /\ Unlimited
          /\ Open(Fresh(m, None, clerk[c].on))
          /\ IF FirstStep = "create" THEN Take(c, "mark", m, clerk[c].on) ELSE Leave(c)
       \/ ~EmailFree(m) /\ Leave(c) /\ UNCHANGED <<account, opened, unchecked>>
    /\ UNCHANGED <<invite, invited, linked, begun>>

\* The mark fails if the invite has been replaced meanwhile.
AcceptMark(c) ==
    /\ clerk[c].op = "mark"
    /\ LET v == clerk[c].on IN
       invite' = IF invite[v] # None THEN [invite EXCEPT ![v].accepted = TRUE] ELSE invite
    /\ IF FirstStep = "mark" THEN Take(c, "create", clerk[c].email, clerk[c].on) ELSE Leave(c)
    /\ UNCHANGED <<account, opened, invited, linked, unchecked, begun>>

-----------------------------------------------------------------------------
(* Workers *)

\* Mutant: the last place is given twice.
HasRoomLoose == Cardinality(ActiveHere) <= MaxWorkers

\* canAddWorker
HasRoom == Cardinality(ActiveHere) < MaxWorkers

\* create, and one row of bulkCreate: the code, then the plan, then the row.
CreateRead(c, k) ==
    /\ Begin(c)
    /\ CodeFree(k)
    /\ HasRoom
    /\ Take(c, "hire", None, k)
    /\ UNCHANGED <<account, opened, invite, invited, linked, unchecked>>

CreateWrite(c) ==
    /\ clerk[c].op = "hire"
    /\ \/ CodeFree(clerk[c].on) /\ Open(Fresh(None, clerk[c].on, None))
       \/ ~CodeFree(clerk[c].on) /\ UNCHANGED <<account, opened>>
    /\ Leave(c)
    /\ UNCHANGED <<invite, invited, linked, unchecked, begun>>

\* update: the e-mail; the unique index has the last word.
SetEmail(i, m) ==
    /\ i \in Accounts
    /\ account[i].email # m
    /\ m = None \/ EmailFree(m)
    /\ account' = [account EXCEPT ![i].email = m]
    /\ linked' = IF m = None THEN [linked EXCEPT ![i] = 0] ELSE linked
    /\ UNCHANGED <<opened, invite, invited, clerk, unchecked, begun>>

\* update: the status, without a look at the plan.
SetActive(i) ==
    /\ i \in Accounts
    /\ ~account[i].active
    /\ Unlimited
    /\ account' = [account EXCEPT ![i].active = TRUE]
    /\ UNCHANGED <<opened, invite, invited, clerk, linked, begun>>

SetInactive(i) ==
    /\ i \in ActiveHere
    /\ account' = [account EXCEPT ![i].active = FALSE]
    /\ UNCHANGED <<opened, invite, invited, clerk, linked, unchecked, begun>>

\* deleteAccount: the owner leaves, the e-mail is free again.
DeleteAccount(i) ==
    /\ i \in ActiveHere
    /\ account[i].email # None
    /\ account' = [account EXCEPT ![i].active = FALSE, ![i].email = None]
    /\ linked' = [linked EXCEPT ![i] = 0]
    /\ UNCHANGED <<opened, invite, invited, clerk, unchecked, begun>>

\* The account starts a work, or enters a settlement or an inspection.
Records(i) ==
    /\ i \in ActiveHere
    /\ account[i].records = "none"
    /\ \E r \in {"work", "settled"} : account' = [account EXCEPT ![i].records = r]
    /\ UNCHANGED <<opened, invite, invited, clerk, linked, unchecked, begun>>

\* delete counts the work records, removes the account's trail table by table,
\* and leaves the rest to the foreign keys.
DeleteRead(c) ==
    /\ Begin(c)
    /\ \E i \in Accounts :
        /\ account[i].records # "work"
        /\ Take(c, "clean", None, i)
    /\ UNCHANGED <<account, opened, invite, invited, linked, unchecked>>

DeleteClean(c) ==
    /\ clerk[c].op = "clean"
    /\ LET i == clerk[c].on IN
       account' = IF i \in Accounts THEN [account EXCEPT ![i].trail = FALSE] ELSE account
    /\ Take(c, "delete", None, clerk[c].on)
    /\ UNCHANGED <<opened, invite, invited, linked, unchecked, begun>>

DeleteWrite(c) ==
    /\ clerk[c].op = "delete"
    /\ LET i == clerk[c].on IN
       account' = IF i \in Accounts /\ account[i].records = "none"
                  THEN [account EXCEPT ![i] = None] ELSE account
    /\ Leave(c)
    /\ UNCHANGED <<opened, invite, invited, linked, unchecked, begun>>

\* A call fails or its instance dies.
ClerkDies(c) ==
    /\ clerk[c] # NoWork
    /\ Leave(c)
    /\ UNCHANGED <<account, opened, invite, invited, linked, unchecked, begun>>

\* An account of the site, made by hand.
RosterInit ==
    /\ account = [i \in AccountIds |->
                    IF i = 1 THEN Fresh(None, CHOOSE k \in EmpCodes : TRUE, None) ELSE None]
    /\ opened = 1
    /\ invite = [v \in InviteIds |-> None]
    /\ invited = 0
    /\ begun = 0
    /\ clerk = [c \in Clerks |-> NoWork]
    /\ linked = [i \in AccountIds |-> 0]
    /\ unchecked = 0

RosterNext ==
    \/ \E c \in Clerks :
        \/ \E m \in Emails : RegisterRead(c, m) \/ LinkRead(c, m) \/ InviteRead(c, m)
        \/ \E k \in EmpCodes \cup {None} : CreateRead(c, k)
        \/ RegisterCreate(c) \/ LinkWrite(c) \/ InviteClear(c) \/ InviteStore(c)
        \/ AcceptRead(c) \/ AcceptCreate(c) \/ AcceptMark(c) \/ CreateWrite(c)
        \/ DeleteRead(c) \/ DeleteClean(c) \/ DeleteWrite(c) \/ ClerkDies(c)
    \/ \E v \in InviteIds : InviteExpires(v)
    \/ \E i \in AccountIds :
        \/ \E m \in Emails \cup {None} : SetEmail(i, m)
        \/ SetActive(i) \/ SetInactive(i) \/ DeleteAccount(i) \/ Records(i)

RosterSpec == RosterInit /\ [][RosterNext]_rosterVars

-----------------------------------------------------------------------------
(* Properties *)

\* Two registrations for one employee code do not both succeed: an account is
\* linked once, until its e-mail is taken off again.
LinkedOnce == \A i \in AccountIds : linked[i] <= 1

\* An invite is not used up by an acceptance that failed half-way: one that is
\* marked accepted has given somebody an account (which may have been deleted,
\* but not an account that never was).
InviteNeverWasted ==
    \A v \in Invites : invite[v].accepted =>
        \/ \E i \in Accounts : account[i].from = v
        \/ Cardinality(Accounts) < opened

\* Creations that overlap pass the plan's limit by at most the other callers;
\* everything above that came by a path that does not look at the plan.
WithinPlan ==
    Cardinality(ActiveHere) <= MaxWorkers + Cardinality(Clerks) - 1 + unchecked
=============================================================================
