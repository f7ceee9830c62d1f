------------------------------- MODULE Tokens -------------------------------
(* The refresh tokens of one account, their rotation and revocation          *)
(* (src/auth/auth.service.ts, and the token part of the retention purge).    *)
(*                                                                           *)
(* A login or a refresh is an element of Callers; a refresh reads, and       *)
(* writes in a later step, with nothing locked in between.  A device may     *)
(* present a refresh token it has presented before: it lost the answer, or   *)
(* two of its screens refresh at once.                                       *)
EXTENDS Rows, Integers, FiniteSets

CONSTANTS
    Callers,     \* concurrent calls for this account
    MaxBegins,   \* bound: calls begun
    MaxTokens,   \* bound: refresh tokens ever issued
    MaxResets,   \* bound: password resets
    MaxTokenTime, \* bound on the clock
    Grace,       \* GRACE_MS: a token revoked no longer ago is accepted again
    Life,        \* refresh token lifetime
    KeepRevoked  \* the purge keeps revoked tokens this long

ASSUME TokensAssumption ==
    /\ {MaxBegins, MaxTokens, MaxResets, MaxTokenTime, Grace, Life, KeepRevoked} \subseteq Nat
    /\ IsFiniteSet(Callers)

VARIABLES
    clock,
    active,   \* worker.status is ACTIVE
    epoch,    \* password resets so far (at most MaxResets)
    token,    \* refresh token rows; their number stands for the token
    issued,   \* tokens issued so far
    begins,   \* calls begun so far
    call,     \* what each caller is doing
    budget,   \* per family: tokens of it that may be live
    outlived  \* calls of the latest reset's moment that it could not stop

tokenVars == <<clock, active, epoch, token, issued, begins, call, budget, outlived>>

TokenIds == 1..MaxTokens

\* A family is named by its first token; epoch is that of the password its
\* family was begun with.
TokenRow == [family : TokenIds, revokedAt : Nat \cup {None}, expiresAt : Nat, epoch : Nat]

ASSUME TokenRowAssumption == None \notin TokenRow

Stored == Present(token)

LiveIn(f) == {t \in Stored : token[t].family = f /\ token[t].revokedAt = None}

NoCall == [pc |-> "idle", on |-> None, family |-> None, epoch |-> 0]

CallIdle(c) == call[c].pc = "idle"

BeginCall(c) == CallIdle(c) /\ begins < MaxBegins /\ begins' = begins + 1

Turn(c, pc) == call' = [call EXCEPT ![c].pc = pc]

Over(c) == call' = [call EXCEPT ![c] = NoCall]

-----------------------------------------------------------------------------
(* Refresh tokens *)

\* A login whose secret was right (Lockout) goes on to its token.
Login(c) ==
    /\ BeginCall(c)
    /\ active
    /\ call' = [call EXCEPT ![c] = [pc |-> "create", on |-> None, family |-> None, epoch |-> epoch]]
    /\ UNCHANGED <<clock, active, epoch, token, issued, budget, outlived>>

\* Mutant: the new token starts a family of its own.
FamilyOfLost(c) == issued + 1

FamilyOf(c) == IF call[c].family = None THEN issued + 1 ELSE call[c].family

\* generateToken
CreateToken(c) ==
    /\ call[c].pc = "create"
    /\ issued < MaxTokens
    /\ LET f == FamilyOf(c) IN
       /\ token' = [token EXCEPT ![issued + 1] =
                        [family |-> f, revokedAt |-> None, expiresAt |-> clock + Life,
                         epoch |-> call[c].epoch]]
       /\ budget' = [budget EXCEPT ![f] = IF call[c].family = None THEN 1 ELSE @]
    /\ issued' = issued + 1
    /\ Over(c)
    /\ UNCHANGED <<clock, active, epoch, begins, outlived>>

\* Refreshes that will still give family f a token, without those of c.
Coming(f, c) ==
    {d \in Callers \ {c} : call[d].family = f /\ call[d].pc \in {"rotate", "look", "create"}}

\* refreshAccessToken reads the row: rotated, given once more within the grace
\* period, or taken for a replay.  A second call on a token that is in use, and
\* one on a token revoked of late, may make a live token more.
RefreshRead(c) ==
    /\ BeginCall(c)
    /\ \E t \in Stored :
        LET r == token[t]
            spent == r.revokedAt # None
            recent == spent /\ clock - r.revokedAt <= Grace
            inUse == \E d \in Callers : call[d].on = t /\ call[d].pc = "rotate"
        IN  /\ call' = [call EXCEPT ![c] =
                            [pc |-> IF recent THEN "look"
                                    ELSE IF spent THEN "burn"
                                    ELSE IF r.expiresAt <= clock THEN "expire" ELSE "rotate",
                             on |-> t, family |-> r.family, epoch |-> r.epoch]]
            /\ budget' = [budget EXCEPT ![r.family] =
                            IF recent \/ (inUse /\ ~spent /\ r.expiresAt > clock)
                            THEN @ + 1 ELSE @]
    /\ UNCHANGED <<clock, active, epoch, token, issued, outlived>>

Revoked(t) == [token[t] EXCEPT !.revokedAt = clock]

\* The presented token is revoked; if a reset has removed its row the update
\* fails, and the call with it.
RefreshRevoke(c) ==
    /\ call[c].pc \in {"rotate", "expire"}
    /\ LET t == call[c].on IN
       IF token[t] # None
       THEN /\ token' = [token EXCEPT ![t] = Revoked(t)]
            /\ IF call[c].pc = "rotate" THEN Turn(c, "look") ELSE Over(c)
       ELSE UNCHANGED token /\ Over(c)
    /\ UNCHANGED <<clock, active, epoch, issued, budget, begins, outlived>>

\* The account is looked at after that, and must be active.
RefreshLook(c) ==
    /\ call[c].pc = "look"
    /\ IF active THEN Turn(c, "create") ELSE Over(c)
    /\ UNCHANGED <<clock, active, epoch, token, issued, budget, begins, outlived>>

\* A replay: every live token of the family is revoked in one statement.
RefreshBurn(c) ==
    /\ call[c].pc = "burn"
    /\ LET f == call[c].family IN
       /\ token' = [t \in TokenIds |-> IF t \in LiveIn(f) THEN Revoked(t) ELSE token[t]]
       /\ budget' = [budget EXCEPT ![f] = Cardinality(Coming(f, c))]
    /\ Over(c)
    /\ UNCHANGED <<clock, active, epoch, issued, begins, outlived>>

\* The retention purge.
PurgeTokens ==
    /\ token' = [t \in TokenIds |->
                    IF t \in Stored
                       /\ \/ token[t].expiresAt < clock
                          \/ token[t].revokedAt # None /\ token[t].revokedAt < clock - KeepRevoked
                    THEN None ELSE token[t]]
    /\ token' # token
    /\ UNCHANGED <<clock, active, epoch, issued, call, budget, begins, outlived>>

-----------------------------------------------------------------------------
(* The account *)

\* Mutant: only the spent tokens are deleted.
SignedOutSpent(t) == token[t] # None /\ token[t].revokedAt # None

SignedOut(t) == TRUE

\* resetPassword's transaction: the password and all tokens.
ResetPassword ==
    /\ epoch < MaxResets
    /\ epoch' = epoch + 1
    /\ token' = [t \in TokenIds |-> IF SignedOut(t) THEN None ELSE token[t]]
    /\ outlived' = Cardinality({c \in Callers : call[c].pc \in {"look", "create"}})
    /\ UNCHANGED <<clock, active, issued, call, budget, begins>>

\* deleteAccount, or an administrator's change of status.
SetStatus ==
    /\ active' = ~active
    /\ UNCHANGED <<clock, epoch, token, issued, call, budget, begins, outlived>>

\* The call fails or its instance dies.
CallDies(c) ==
    /\ ~CallIdle(c)
    /\ Over(c)
    /\ UNCHANGED <<clock, active, epoch, token, issued, budget, begins, outlived>>

TokenTick ==
    /\ clock < MaxTokenTime
    /\ clock' = clock + 1
    /\ UNCHANGED <<active, epoch, token, issued, call, budget, begins, outlived>>

TokensInit ==
    /\ clock = 0
    /\ active = TRUE
    /\ epoch = 0
    /\ token = [t \in TokenIds |-> None]
    /\ issued = 0
    /\ begins = 0
    /\ call = [c \in Callers |-> NoCall]
    /\ budget = [t \in TokenIds |-> 0]
    /\ outlived = 0

TokensNext ==
    \/ TokenTick \/ SetStatus \/ ResetPassword \/ PurgeTokens
    \/ \E c \in Callers :
        \/ Login(c) \/ CreateToken(c)
        \/ RefreshRead(c) \/ RefreshRevoke(c) \/ RefreshLook(c) \/ RefreshBurn(c)
        \/ CallDies(c)

TokensSpec == TokensInit /\ [][TokensNext]_tokenVars

-----------------------------------------------------------------------------
(* Properties *)

\* A rotation leaves one live token where there was one.  A family has more
\* only by calls that presented a token already in use or just revoked, one
\* each; and once a replay has been seen, only what was under way then, and
\* what the grace period still admits, can be live.
FamilyBudget ==
    \A f \in TokenIds : Cardinality(LiveIn(f)) <= budget[f]

\* A password reset ends the families begun with an earlier password, but for
\* one family per call that had nothing left to ask of the tokens then: a
\* refresh that had only read its token fails, and the purge, the grace period
\* or a second rotation brings none back.
ResetEndsTokens ==
    Cardinality({token[t].family : t \in {s \in Stored : token[s].epoch < epoch}}) <= outlived
=============================================================================
