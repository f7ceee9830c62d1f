------------------------------- MODULE Lockout -------------------------------
(* The login history of one account and the lockout computed from it         *)
(* (src/auth/auth.service.ts: e-mail, administrator and PIN login, and the   *)
(* tablet's PIN gate; customer-ops: unlockAccount).  An attempt looks at the *)
(* history, then checks the secret, then records its outcome.                *)
EXTENDS Rows, Integers, FiniteSets

CONSTANTS
    Entrants,    \* concurrent attempts
    MaxAttempts, \* bound: attempts ever recorded
    MaxLockTime, \* bound on the clock
    MaxFailed,   \* MAX_FAILED_ATTEMPTS
    LockoutTime  \* LOCKOUT_DURATION_MS

ASSUME LockoutAssumption ==
    /\ {MaxFailed, LockoutTime} \subseteq Nat \ {0}
    /\ {MaxAttempts, MaxLockTime} \subseteq Nat
    /\ IsFiniteSet(Entrants)

VARIABLES
    lockClock,
    attempt,   \* rows of the login history, in the order of creation
    recorded,  \* rows created so far
    trying     \* what each attempt is about to record, or None

lockoutVars == <<lockClock, attempt, recorded, trying>>

AttemptIds == 1..MaxAttempts

Outcome == [ok : BOOLEAN]

ASSUME AttemptRowAssumption == None \notin Outcome /\ None \notin [at : Nat, ok : BOOLEAN]

\* The history since the cutoff; the latest n of some of it.
Window == {i \in Present(attempt) : attempt[i].at >= lockClock - LockoutTime}

LatestOf(W, n) == {i \in W : Cardinality({j \in W : j > i}) < n}

AllFailed(W) == \A i \in W : ~attempt[i].ok

\* Mutant: the account locks one failure late.
LockedLate ==
    LET recent == LatestOf(Window, MaxFailed + 1)
    IN  Cardinality(recent) > MaxFailed /\ AllFailed(recent)

\* checkAccountLocked: the latest MaxFailed attempts of the window all failed.
Locked ==
    LET recent == LatestOf(Window, MaxFailed)
    IN  Cardinality(recent) >= MaxFailed /\ AllFailed(recent)

\* A locked caller is turned away without a record.  Otherwise the attempt
\* fails on an inactive account, a role that may not use this entrance, or a
\* wrong secret; the PIN gate tries the secrets of all administrators.
Try(c) ==
    /\ trying[c] = None
    /\ ~Locked
    /\ \E ok \in BOOLEAN : trying' = [trying EXCEPT ![c] = [ok |-> ok]]
    /\ UNCHANGED <<lockClock, attempt, recorded>>

\* recordLoginHistory swallows its own failure.
Record(c) ==
    /\ trying[c] # None
    /\ \/ UNCHANGED <<attempt, recorded>>
       \/ /\ recorded < MaxAttempts
          /\ attempt' = [attempt EXCEPT ![recorded + 1] = [at |-> lockClock, ok |-> trying[c].ok]]
          /\ recorded' = recorded + 1
    /\ trying' = [trying EXCEPT ![c] = None]
    /\ UNCHANGED lockClock

\* unlockAccount: the failures of the window are deleted, successes kept.
UnlockAccount ==
    /\ ~\A i \in Window : attempt[i].ok
    /\ attempt' = [i \in AttemptIds |->
                     IF i \in Window /\ ~attempt[i].ok THEN None ELSE attempt[i]]
    /\ UNCHANGED <<lockClock, recorded, trying>>

\* getLockedWorkers: the operator's list of locked accounts.
ListedAsLocked ==
    LET bucket == LatestOf(Window, MaxFailed)
    IN  Cardinality(bucket) >= MaxFailed /\ AllFailed(bucket)

LockTick ==
    /\ lockClock < MaxLockTime
    /\ lockClock' = lockClock + 1
    /\ UNCHANGED <<attempt, recorded, trying>>

LockoutInit ==
    /\ lockClock = 0
    /\ attempt = [i \in AttemptIds |-> None]
    /\ recorded = 0
    /\ trying = [c \in Entrants |-> None]

LockoutNext ==
    \/ LockTick \/ UnlockAccount
    \/ \E c \in Entrants : Try(c) \/ Record(c)

LockoutSpec == LockoutInit /\ [][LockoutNext]_lockoutVars

-----------------------------------------------------------------------------
(* Property *)

\* The failures of the window after its last success.
Since == {i \in Window : \A j \in Window : j >= i => ~attempt[j].ok}

\* The lockout counts before it records, so attempts that overlap pass it; but
\* the failures of one window after its last success never outnumber the limit
\* by more than the other callers.  An attempt is turned away, and the operator's
\* list has the account, exactly if they reach the limit.
FailuresBounded ==
    /\ Cardinality(Since) <= MaxFailed + Cardinality(Entrants) - 1
    /\ Locked <=> Cardinality(Since) >= MaxFailed
    /\ ListedAsLocked <=> Cardinality(Since) >= MaxFailed
=============================================================================
