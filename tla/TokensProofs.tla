---------------------------- MODULE TokensProofs ----------------------------
(***************************************************************************)
(* Proofs about refresh tokens and the lockout, for any number of callers, *)
(* tokens, resets and attempts and any times: no family has more live      *)
(* tokens than its budget, a password reset ends the families begun before *)
(* it, and failures that overlap pass the lockout only by their number.    *)
(***************************************************************************)
EXTENDS Tokens, Lockout, Counting

CallRow == [pc : {"idle", "create", "look", "rotate", "expire", "burn"},
            on : TokenIds \cup {None}, family : TokenIds \cup {None}, epoch : Nat]

TokensType ==
    /\ clock \in Nat /\ epoch \in Nat /\ begins \in Nat /\ outlived \in Nat
    /\ active \in BOOLEAN
    /\ issued \in 0..MaxTokens
    /\ token \in [TokenIds -> TokenRow \cup {None}]
    /\ call \in [Callers -> CallRow]
    /\ budget \in [TokenIds -> Nat]

\* What a call knows of its token stays true while the row is there: the
\* number of a token is never given again.
CallFits(c) ==
    /\ call[c].pc = "idle" => call[c].family = None
    /\ call[c].pc \in {"look", "rotate", "expire", "burn"} =>
          call[c].family # None /\ call[c].on # None /\ call[c].on <= issued
    /\ call[c].family # None => call[c].family <= issued
    /\ call[c].epoch <= epoch
    /\ call[c].pc = "rotate" /\ token[call[c].on] # None =>
          /\ token[call[c].on].family = call[c].family
          /\ token[call[c].on].epoch = call[c].epoch

CallsFit == \A c \in Callers : CallFits(c)

RowFits(t) ==
    token[t] # None => t <= issued /\ token[t].family <= issued /\ token[t].epoch <= epoch

RowsFit == \A t \in TokenIds : RowFits(t)

\* Inductive.
TokensInv == TokensType /\ CallsFit /\ RowsFit

-----------------------------------------------------------------------------
(* What each action does to calls, tokens and budgets *)

\* At most c moves.
OnlyCall(c) ==
    /\ call' \in [Callers -> CallRow]
    /\ \A d \in Callers : d # c => call'[d] = call[d]

\* The parameters are numbers, and no number of a token is a NULL.
LEMMA TokenNumbers ==
    /\ MaxTokens \in Nat /\ MaxResets \in Nat /\ Life \in Nat /\ Grace \in Nat
    /\ TokenIds \subseteq Nat /\ None \notin TokenIds
    /\ IsFiniteSet(TokenIds) /\ IsFiniteSet(Callers)
    /\ \A S \in SUBSET TokenIds : IsFiniteSet(S)
    /\ \A S \in SUBSET Callers : IsFiniteSet(S)
<1>1. MaxTokens \in Nat /\ MaxResets \in Nat /\ Life \in Nat /\ Grace \in Nat
  BY TokensAssumption
<1>2. TokenIds \subseteq Nat /\ None \notin TokenIds
  BY <1>1, NullAssumption DEF TokenIds
<1>3. IsFiniteSet(TokenIds)
  BY <1>1, FS_Interval DEF TokenIds
<1> QED
  BY <1>1, <1>2, <1>3, TokensAssumption, FS_Subset

\* A refresh takes its token's family and epoch with it; what may make a live
\* token more is paid for.
LEMMA ReadEffect ==
    ASSUME TokensInv, NEW c \in Callers, RefreshRead(c)
    PROVE  \E t \in Stored, pc \in {"look", "burn", "expire", "rotate"} :
              /\ call[c].pc = "idle"
              /\ OnlyCall(c)
              /\ call'[c] = [pc |-> pc, on |-> t, family |-> token[t].family,
                             epoch |-> token[t].epoch]
              /\ \/ budget' = [budget EXCEPT ![token[t].family] = @ + 1]
                 \/ /\ budget' = budget
                    /\ pc # "look"
                    /\ pc = "rotate" => /\ t \in LiveIn(token[t].family)
                                        /\ \A d \in Callers : call[d].on = t => call[d].pc # "rotate"
              /\ begins' = begins + 1
              /\ UNCHANGED <<clock, active, epoch, token, issued, outlived>>
<1> DEFINE spent(t) == token[t].revokedAt # None
           recent(t) == spent(t) /\ clock - token[t].revokedAt <= Grace
           inUse(t) == \E d \in Callers : call[d].on = t /\ call[d].pc = "rotate"
           pcOf(t) == IF recent(t) THEN "look"
                      ELSE IF spent(t) THEN "burn"
                      ELSE IF token[t].expiresAt <= clock THEN "expire" ELSE "rotate"
           more(t) == recent(t) \/ (inUse(t) /\ ~spent(t) /\ token[t].expiresAt > clock)
<1>1. PICK t \in Stored :
         /\ call' = [call EXCEPT ![c] = [pc |-> pcOf(t), on |-> t, family |-> token[t].family,
                                         epoch |-> token[t].epoch]]
         /\ budget' = [budget EXCEPT ![token[t].family] = IF more(t) THEN @ + 1 ELSE @]
  BY DEF RefreshRead
<1>2. token[t] \in TokenRow /\ token[t] # None /\ t \in TokenIds
  BY <1>1 DEF TokensInv, TokensType, Stored, Present
<1>3. /\ token[t].family \in TokenIds /\ token[t].expiresAt \in Nat
      /\ token[t].revokedAt \in Nat \cup {None} /\ clock \in Nat
  BY <1>2 DEF TokenRow, TokensInv, TokensType
<1>4. pcOf(t) \in {"look", "burn", "expire", "rotate"}
  OBVIOUS
<1>5. pcOf(t) = "look" => more(t)
  OBVIOUS
<1>6. pcOf(t) = "rotate" => ~spent(t) /\ ~(token[t].expiresAt <= clock)
  OBVIOUS
<1>7. pcOf(t) = "rotate" /\ ~more(t) => ~inUse(t)
  BY <1>3, <1>6
<1>8. ~spent(t) => t \in LiveIn(token[t].family)
  BY <1>1 DEF LiveIn
<1>9. \/ budget' = [budget EXCEPT ![token[t].family] = @ + 1]
      \/ budget' = budget /\ ~more(t)
  <2>1. budget \in [TokenIds -> Nat]
    BY DEF TokensInv, TokensType
  <2> HIDE DEF more
  <2> QED
    BY <1>1, <1>3, <2>1
<1> HIDE DEF spent, recent, inUse, pcOf, more
<1>11. /\ call[c].pc = "idle" /\ begins' = begins + 1
       /\ UNCHANGED <<clock, active, epoch, token, issued, outlived>>
  BY DEF RefreshRead, BeginCall, CallIdle
<1>12. pcOf(t) = "rotate" /\ ~more(t) =>
          /\ t \in LiveIn(token[t].family)
          /\ \A d \in Callers : call[d].on = t => call[d].pc # "rotate"
  BY <1>6, <1>7, <1>8 DEF inUse
<1>13. /\ OnlyCall(c)
       /\ call'[c] = [pc |-> pcOf(t), on |-> t, family |-> token[t].family,
                      epoch |-> token[t].epoch]
  <2> DEFINE r == [pc |-> pcOf(t), on |-> t, family |-> token[t].family,
                   epoch |-> token[t].epoch]
  <2>1. r \in CallRow
    <3>1. token[t].family \in TokenIds /\ token[t].epoch \in Nat
      BY <1>2 DEF TokenRow
    <3> QED
      BY <1>2, <1>4, <3>1 DEF CallRow
  <2>2. call' = [call EXCEPT ![c] = r] /\ call \in [Callers -> CallRow]
    BY <1>1 DEF TokensInv, TokensType
  <2> HIDE DEF r
  <2>3. OnlyCall(c) /\ call'[c] = r
    BY <2>1, <2>2 DEF OnlyCall
  <2> QED
    BY <2>3 DEF r
<1> WITNESS t \in Stored, pcOf(t) \in {"look", "burn", "expire", "rotate"}
<1> QED
  BY <1>5, <1>9, <1>11, <1>12, <1>13

\* Revoking the presented token, with what the call does next.
LEMMA RevokeEffect ==
    ASSUME TokensInv, NEW c \in Callers, RefreshRevoke(c)
    PROVE  /\ call[c].on \in TokenIds
           /\ OnlyCall(c)
           /\ UNCHANGED <<clock, active, epoch, issued, budget, begins, outlived>>
           /\ token' \in [TokenIds -> TokenRow \cup {None}]
           /\ \A u \in TokenIds : u # call[c].on => token'[u] = token[u]
           /\ \/ /\ token[call[c].on] # None
                 /\ token'[call[c].on] \in TokenRow
                 /\ token'[call[c].on].family = token[call[c].on].family
                 /\ token'[call[c].on].epoch = token[call[c].on].epoch
                 /\ token'[call[c].on].revokedAt # None
                 /\ \/ /\ call[c].pc = "rotate" /\ call'[c].pc = "look"
                       /\ call'[c].on = call[c].on /\ call'[c].family = call[c].family
                       /\ call'[c].epoch = call[c].epoch
                    \/ call[c].pc = "expire" /\ call'[c] = NoCall
              \/ /\ token[call[c].on] = None /\ token' = token
                 /\ call'[c] = NoCall
<1> DEFINE t == call[c].on
<1>1. /\ call \in [Callers -> CallRow] /\ clock \in Nat /\ clock # None
      /\ token \in [TokenIds -> TokenRow \cup {None}]
  BY NullAssumption DEF TokensInv, TokensType
<1>2. t \in TokenIds /\ call[c].pc \in {"rotate", "expire"}
  BY <1>1 DEF RefreshRevoke, TokensInv, CallsFit, CallFits, CallRow
<1>3. UNCHANGED <<clock, active, epoch, issued, budget, begins, outlived>>
  BY DEF RefreshRevoke
<1>4. NoCall \in CallRow
  BY DEF NoCall, CallRow
<1>5. CASE token[t] # None
  <2>1. token[t] \in TokenRow
    BY <1>1, <1>2, <1>5
  <2>2. /\ Revoked(t) \in TokenRow /\ Revoked(t).revokedAt # None
        /\ Revoked(t).family = token[t].family /\ Revoked(t).epoch = token[t].epoch
    BY <1>1, <2>1 DEF Revoked, TokenRow
  <2>3. token' = [token EXCEPT ![t] = Revoked(t)]
    BY <1>5 DEF RefreshRevoke
  <2>4. CASE call[c].pc = "rotate"
    <3>1. call' = [call EXCEPT ![c].pc = "look"]
      BY <1>5, <2>4 DEF RefreshRevoke, Turn
    <3>2. /\ OnlyCall(c) /\ call'[c].pc = "look" /\ call'[c].on = call[c].on
          /\ call'[c].family = call[c].family /\ call'[c].epoch = call[c].epoch
      BY <1>1, <3>1 DEF OnlyCall, CallRow
    <3> HIDE DEF t
    <3> QED
      BY <1>1, <1>2, <1>3, <1>5, <2>2, <2>3, <2>4, <3>2 DEF t
  <2>5. CASE call[c].pc = "expire"
    <3>1. call' = [call EXCEPT ![c] = NoCall]
      BY <1>5, <2>5 DEF RefreshRevoke, Over
    <3>2. OnlyCall(c) /\ call'[c] = NoCall
      BY <1>1, <1>4, <3>1 DEF OnlyCall
    <3> QED
      BY <1>1, <1>2, <1>3, <1>5, <2>2, <2>3, <2>5, <3>2
  <2> QED
    BY <1>2, <2>4, <2>5
<1>6. CASE token[t] = None
  <2>1. token' = token /\ call' = [call EXCEPT ![c] = NoCall]
    BY <1>6 DEF RefreshRevoke, Over
  <2>2. OnlyCall(c) /\ call'[c] = NoCall
    BY <1>1, <1>4, <2>1 DEF OnlyCall
  <2> QED
    BY <1>1, <1>2, <1>3, <1>6, <2>1, <2>2
<1> QED
  BY <1>5, <1>6

\* A token comes, with a number not used before: it starts a family, or
\* belongs to that of the token it was given for.
LEMMA CreateEffect ==
    ASSUME TokensInv, NEW c \in Callers, CreateToken(c)
    PROVE  /\ call[c].pc = "create" /\ OnlyCall(c) /\ call'[c] = NoCall
           /\ issued' = issued + 1 /\ issued + 1 \in TokenIds /\ token[issued + 1] = None
           /\ FamilyOf(c) \in TokenIds
           /\ \/ call[c].family = None /\ FamilyOf(c) = issued + 1
              \/ call[c].family # None /\ FamilyOf(c) = call[c].family /\ FamilyOf(c) <= issued
           /\ token' \in [TokenIds -> TokenRow \cup {None}]
           /\ \A u \in TokenIds : u # issued + 1 => token'[u] = token[u]
           /\ token'[issued + 1].family = FamilyOf(c)
           /\ token'[issued + 1].epoch = call[c].epoch
           /\ budget' = [budget EXCEPT ![FamilyOf(c)] = IF call[c].family = None THEN 1 ELSE @]
           /\ UNCHANGED <<clock, active, epoch, begins, outlived>>
<1> DEFINE r == [family |-> FamilyOf(c), revokedAt |-> None, expiresAt |-> clock + Life,
                 epoch |-> call[c].epoch]
<1>1. /\ call \in [Callers -> CallRow] /\ issued \in Nat /\ issued < MaxTokens /\ clock \in Nat
      /\ token \in [TokenIds -> TokenRow \cup {None}]
  BY TokenNumbers DEF CreateToken, TokensInv, TokensType
<1>2. issued + 1 \in TokenIds
  BY <1>1, TokenNumbers DEF TokenIds
<1>3. token[issued + 1] = None
  BY <1>1, <1>2 DEF TokensInv, RowsFit, RowFits
<1>4. \/ call[c].family = None /\ FamilyOf(c) = issued + 1
      \/ call[c].family # None /\ FamilyOf(c) = call[c].family /\ FamilyOf(c) <= issued
  BY DEF FamilyOf, TokensInv, CallsFit, CallFits
<1>5. FamilyOf(c) \in TokenIds
  BY <1>1, <1>2, <1>4 DEF CallRow
<1>6. r \in TokenRow
  BY <1>1, <1>5, TokenNumbers DEF TokenRow, CallRow
<1>7. token' = [token EXCEPT ![issued + 1] = r]
  BY DEF CreateToken
<1>8. r.family = FamilyOf(c) /\ r.epoch = call[c].epoch
  OBVIOUS
<1>9. OnlyCall(c) /\ call'[c] = NoCall /\ call[c].pc = "create"
  <2>1. call' = [call EXCEPT ![c] = NoCall] /\ NoCall \in CallRow
    BY DEF CreateToken, Over, NoCall, CallRow
  <2> QED
    BY <1>1, <2>1 DEF OnlyCall, CreateToken
<1> HIDE DEF r
<1>10. /\ token' \in [TokenIds -> TokenRow \cup {None}]
       /\ \A u \in TokenIds : u # issued + 1 => token'[u] = token[u]
       /\ token'[issued + 1].family = FamilyOf(c)
       /\ token'[issued + 1].epoch = call[c].epoch
  BY <1>1, <1>2, <1>6, <1>7, <1>8
<1> QED
  BY <1>2, <1>3, <1>4, <1>5, <1>9, <1>10 DEF CreateToken

-----------------------------------------------------------------------------
(* What calls know of their tokens *)

Onwards ==
    /\ issued' \in 0..MaxTokens /\ issued <= issued'
    /\ epoch' \in Nat /\ epoch <= epoch'

\* Rows go, or keep their family and password.
RowsKept ==
    \A t \in TokenIds : t <= issued /\ token'[t] # None =>
        /\ token[t] # None
        /\ token'[t].family = token[t].family /\ token'[t].epoch = token[t].epoch

LEMMA CallFitsOn ==
    ASSUME TokensInv, NEW d \in Callers, call'[d] = call[d], Onwards, RowsKept
    PROVE  CallFits(d)'
<1>1. /\ call[d].family \in TokenIds \cup {None} /\ call[d].on \in TokenIds \cup {None}
      /\ call[d].epoch \in Nat
  BY DEF TokensInv, TokensType, CallRow
<1>2. issued \in Nat /\ issued' \in Nat /\ epoch \in Nat /\ epoch' \in Nat
  BY TokenNumbers DEF TokensInv, TokensType, Onwards
<1>3. /\ call[d].family # None => call[d].family \in Nat
      /\ call[d].on # None => call[d].on \in Nat /\ call[d].on \in TokenIds
  BY <1>1, TokenNumbers
<1>4. CallFits(d)
  BY DEF TokensInv, CallsFit
<1>5. \A n \in Nat : n <= issued => n <= issued'
  BY <1>2 DEF Onwards
<1>6. call[d].epoch <= epoch'
  BY <1>1, <1>2, <1>4 DEF CallFits, Onwards
<1>7. call[d].family # None => call[d].family <= issued'
  BY <1>3, <1>4, <1>5 DEF CallFits
<1>8. call[d].pc \in {"look", "rotate", "expire", "burn"} => call[d].on <= issued'
  BY <1>3, <1>4, <1>5 DEF CallFits
<1>9. call[d].pc = "rotate" /\ token'[call[d].on] # None =>
          /\ token'[call[d].on].family = call[d].family
          /\ token'[call[d].on].epoch = call[d].epoch
  BY <1>3, <1>4 DEF CallFits, RowsKept
<1> QED
  BY <1>4, <1>6, <1>7, <1>8, <1>9 DEF CallFits

LEMMA OneCall ==
    ASSUME TokensInv, NEW c \in Callers, OnlyCall(c), CallFits(c)', Onwards, RowsKept
    PROVE  CallsFit'
<1>1. ASSUME NEW d \in Callers PROVE CallFits(d)'
  <2>1. CASE d = c
    BY <2>1
  <2>2. CASE d # c
    BY <2>2, CallFitsOn DEF OnlyCall
  <2> QED
    BY <2>1, <2>2
<1> QED
  BY <1>1 DEF CallsFit

\* No call moves.
LEMMA CallsStay ==
    ASSUME TokensInv, call' = call, Onwards, RowsKept
    PROVE  CallsFit'
<1>1. \A d \in Callers : CallFits(d)'
  BY CallFitsOn
<1> QED
  BY <1>1 DEF CallsFit

\* A row that was there fits on.
LEMMA RowFitsOn ==
    ASSUME TokensInv, Onwards, RowsKept, NEW t \in TokenIds, token[t] # None
    PROVE  RowFits(t)'
<1>1. token[t] \in TokenRow /\ t \in Nat
  BY TokenNumbers DEF TokensInv, TokensType
<1>2. token[t].family \in Nat /\ token[t].epoch \in Nat
  BY <1>1, TokenNumbers DEF TokenRow
<1>3. t <= issued /\ token[t].family <= issued /\ token[t].epoch <= epoch
  BY DEF TokensInv, RowsFit, RowFits
<1>4. issued \in Nat /\ issued' \in Nat /\ epoch \in Nat /\ epoch' \in Nat
  BY TokenNumbers DEF TokensInv, TokensType, Onwards
<1>5. t <= issued' /\ token[t].family <= issued' /\ token[t].epoch <= epoch'
  BY <1>1, <1>2, <1>3, <1>4 DEF Onwards
<1> QED
  BY <1>3, <1>5 DEF RowFits, RowsKept

\* No row comes.
LEMMA RowsStay ==
    ASSUME TokensInv, Onwards, RowsKept,
           \A t \in TokenIds : token'[t] # None => token[t] # None
    PROVE  RowsFit'
<1>1. ASSUME NEW t \in TokenIds PROVE RowFits(t)'
  <2>1. CASE token[t] # None
    BY <2>1, RowFitsOn
  <2>2. CASE token[t] = None
    BY <2>2 DEF RowFits
  <2> QED
    BY <2>1, <2>2
<1> QED
  BY <1>1 DEF RowsFit

\* Nothing but calls moves: the form of Login, RefreshRead, RefreshLook and
\* CallDies.
LEMMA CallMoves ==
    ASSUME TokensInv, NEW c \in Callers, OnlyCall(c), CallFits(c)',
           UNCHANGED <<clock, active, epoch, token, issued, outlived>>,
           begins' \in Nat, budget' \in [TokenIds -> Nat]
    PROVE  TokensInv'
<1>1. Onwards
  BY TokenNumbers DEF TokensInv, TokensType, Onwards
<1>2. RowsKept /\ \A t \in TokenIds : token'[t] # None => token[t] # None
  BY DEF RowsKept
<1>3. CallsFit' /\ RowsFit'
  BY <1>1, <1>2, OneCall, RowsStay
<1>4. TokensType'
  BY DEF TokensInv, TokensType, OnlyCall
<1> QED
  BY <1>3, <1>4 DEF TokensInv

LEMMA NoCallFits ==
    /\ NoCall \in CallRow /\ NoCall.pc = "idle"
    /\ NoCall.family = None /\ NoCall.epoch = 0
BY DEF NoCall, CallRow

\* A call that is over asks for nothing.
LEMMA OverFits ==
    ASSUME TokensInv, NEW c \in Callers, call' = [call EXCEPT ![c] = NoCall],
           epoch' \in Nat
    PROVE  OnlyCall(c) /\ CallFits(c)' /\ call'[c] = NoCall
<1>1. call \in [Callers -> CallRow]
  BY DEF TokensInv, TokensType
<1>2. call'[c] = NoCall /\ OnlyCall(c)
  BY <1>1, NoCallFits DEF OnlyCall
<1> QED
  BY <1>2, NoCallFits DEF CallFits

LEMMA LoginEffect ==
    ASSUME TokensInv, NEW c \in Callers, Login(c)
    PROVE  /\ call[c].pc = "idle" /\ call[c].family = None
           /\ OnlyCall(c)
           /\ call'[c] = [pc |-> "create", on |-> None, family |-> None, epoch |-> epoch]
           /\ begins' = begins + 1
           /\ UNCHANGED <<clock, active, epoch, token, issued, budget, outlived>>
<1>1. call \in [Callers -> CallRow] /\ epoch \in Nat
  BY DEF TokensInv, TokensType
<1>2. [pc |-> "create", on |-> None, family |-> None, epoch |-> epoch] \in CallRow
  BY <1>1 DEF CallRow
<1>3. OnlyCall(c)
      /\ call'[c] = [pc |-> "create", on |-> None, family |-> None, epoch |-> epoch]
  BY <1>1, <1>2 DEF Login, OnlyCall
<1> QED
  BY <1>3 DEF Login, BeginCall, CallIdle, TokensInv, CallsFit, CallFits

\* The next step of a refresh whose account is active, or its end.
LEMMA LookEffect ==
    ASSUME TokensInv, NEW c \in Callers, RefreshLook(c)
    PROVE  /\ call[c].pc = "look"
           /\ OnlyCall(c)
           /\ \/ /\ call'[c].pc = "create" /\ call'[c].on = call[c].on
                 /\ call'[c].family = call[c].family /\ call'[c].epoch = call[c].epoch
              \/ call'[c] = NoCall
           /\ UNCHANGED <<clock, active, epoch, token, issued, budget, begins, outlived>>
<1>1. call \in [Callers -> CallRow]
  BY DEF TokensInv, TokensType
<1>2. CASE Turn(c, "create")
  <2>1. OnlyCall(c) /\ call'[c] = [call[c] EXCEPT !.pc = "create"]
    BY <1>1, <1>2 DEF Turn, OnlyCall, CallRow
  <2> QED
    BY <1>1, <2>1 DEF RefreshLook, CallRow
<1>3. CASE Over(c)
  BY <1>1, <1>3, NoCallFits DEF RefreshLook, Over, OnlyCall
<1> QED
  BY <1>2, <1>3 DEF RefreshLook

LEMMA InitTokensInv == TokensInit => TokensInv
<1> SUFFICES ASSUME TokensInit PROVE TokensInv
  OBVIOUS
<1>1. TokensType
  BY NoCallFits, TokenNumbers DEF TokensInit, TokensType
<1>2. CallsFit
  BY NoCallFits DEF TokensInit, CallsFit, CallFits
<1>3. RowsFit
  BY DEF TokensInit, RowsFit, RowFits
<1> QED
  BY <1>1, <1>2, <1>3 DEF TokensInv

LEMMA NextTokensInv == TokensInv /\ [TokensNext]_tokenVars => TokensInv'
<1> SUFFICES ASSUME TokensInv, [TokensNext]_tokenVars PROVE TokensInv'
  OBVIOUS
<1>0. /\ clock \in Nat /\ epoch \in Nat /\ begins \in Nat /\ outlived \in Nat
      /\ active \in BOOLEAN /\ issued \in 0..MaxTokens /\ issued \in Nat
      /\ token \in [TokenIds -> TokenRow \cup {None}]
      /\ call \in [Callers -> CallRow] /\ budget \in [TokenIds -> Nat]
  BY TokenNumbers DEF TokensInv, TokensType
<1>1. CASE UNCHANGED tokenVars
  BY <1>1 DEF TokensInv, TokensType, CallsFit, CallFits, RowsFit, RowFits, tokenVars
<1>2. CASE TokenTick \/ SetStatus
  <2>1. UNCHANGED <<epoch, token, issued, call, budget, begins, outlived>>
    BY <1>2 DEF TokenTick, SetStatus
  <2>2. clock' \in Nat
    BY <1>0, <1>2 DEF TokenTick, SetStatus
  <2>3. active' \in BOOLEAN
    <3>1. active' = active \/ active' = ~active
      BY <1>2 DEF TokenTick, SetStatus
    <3> QED
      BY <1>0, <3>1
  <2> QED
    BY <2>1, <2>2, <2>3 DEF TokensInv, TokensType, CallsFit, CallFits, RowsFit, RowFits
<1>3. CASE ResetPassword
  <2>1. /\ token' = [t \in TokenIds |-> None] /\ epoch' = epoch + 1
        /\ UNCHANGED <<clock, active, issued, call, budget, begins>>
    BY <1>3 DEF ResetPassword, SignedOut
  <2>2. outlived' \in Nat
    <3>1. IsFiniteSet({c \in Callers : call[c].pc \in {"look", "create"}})
      BY TokenNumbers
    <3> QED
      BY <1>3, <3>1, FS_CardinalityType DEF ResetPassword
  <2>3. \A t \in TokenIds : token'[t] = None
    BY <2>1
  <2>4. Onwards
    BY <1>0, <2>1 DEF Onwards
  <2>5. CallsFit' /\ RowsFit'
    BY <2>1, <2>3, <2>4, CallsStay, RowsStay DEF RowsKept
  <2> QED
    BY <1>0, <2>1, <2>2, <2>5 DEF TokensInv, TokensType
<1>4. CASE PurgeTokens
  <2>1. UNCHANGED <<clock, active, epoch, issued, call, budget, begins, outlived>>
    BY <1>4 DEF PurgeTokens
  <2>2. \A t \in TokenIds : token'[t] \in {token[t], None}
    BY <1>4 DEF PurgeTokens
  <2>3. token' \in [TokenIds -> TokenRow \cup {None}]
    BY <1>0, <1>4 DEF PurgeTokens
  <2>4. Onwards
    BY <1>0, <2>1 DEF Onwards
  <2>5. CallsFit' /\ RowsFit'
    BY <2>1, <2>2, <2>4, CallsStay, RowsStay DEF RowsKept
  <2> QED
    BY <1>0, <2>1, <2>3, <2>5 DEF TokensInv, TokensType
<1>5. ASSUME NEW c \in Callers, Login(c) PROVE TokensInv'
  <2>1. /\ OnlyCall(c) /\ begins' = begins + 1
        /\ call'[c] = [pc |-> "create", on |-> None, family |-> None, epoch |-> epoch]
        /\ UNCHANGED <<clock, active, epoch, token, issued, budget, outlived>>
    BY <1>5, LoginEffect
  <2>2. CallFits(c)'
    BY <1>0, <2>1 DEF CallFits
  <2> QED
    BY <1>0, <2>1, <2>2, CallMoves
<1>6. ASSUME NEW c \in Callers, CreateToken(c) PROVE TokensInv'
  <2>1. /\ OnlyCall(c) /\ call'[c] = NoCall
        /\ issued' = issued + 1 /\ issued + 1 \in TokenIds /\ token[issued + 1] = None
        /\ FamilyOf(c) \in TokenIds
        /\ (FamilyOf(c) = issued + 1 \/ FamilyOf(c) <= issued)
        /\ token' \in [TokenIds -> TokenRow \cup {None}]
        /\ \A u \in TokenIds : u # issued + 1 => token'[u] = token[u]
        /\ token'[issued + 1].family = FamilyOf(c)
        /\ token'[issued + 1].epoch = call[c].epoch
        /\ budget' = [budget EXCEPT ![FamilyOf(c)] = IF call[c].family = None THEN 1 ELSE @]
        /\ UNCHANGED <<clock, active, epoch, begins, outlived>>
    BY <1>6, CreateEffect
  <2>2. Onwards
    BY <1>0, <2>1 DEF Onwards, TokenIds
  <2>3. RowsKept
    <3>1. \A t \in TokenIds : t <= issued => t # issued + 1
      BY <1>0
    <3> QED
      BY <2>1, <3>1 DEF RowsKept
  <2>4. CallFits(c)'
    BY <1>0, <2>1, NoCallFits DEF CallFits
  <2>5. CallsFit'
    BY <2>1, <2>2, <2>3, <2>4, OneCall
  <2>6. call[c].epoch <= epoch
    BY DEF TokensInv, CallsFit, CallFits
  <2>8. ASSUME NEW t \in TokenIds PROVE RowFits(t)'
    <3>1. CASE t = issued + 1
      <4>0. FamilyOf(c) \in Nat
        BY <2>1, TokenNumbers
      <4>1. FamilyOf(c) <= issued + 1
        <5>1. FamilyOf(c) = issued + 1 \/ FamilyOf(c) <= issued
          BY <2>1
        <5> HIDE DEF FamilyOf
        <5> QED
          BY <1>0, <4>0, <5>1
      <4>2. token'[t].family <= issued' /\ token'[t].epoch <= epoch' /\ t <= issued'
        BY <1>0, <2>1, <2>6, <3>1, <4>0, <4>1
      <4> QED
        BY <4>2 DEF RowFits
    <3>2. CASE t # issued + 1 /\ token[t] # None
      BY <2>2, <2>3, <3>2, RowFitsOn
    <3>3. CASE t # issued + 1 /\ token[t] = None
      BY <2>1, <3>3 DEF RowFits
    <3> QED
      BY <3>1, <3>2, <3>3
  <2>9. RowsFit'
    BY <2>8 DEF RowsFit
  <2>10. budget' \in [TokenIds -> Nat]
    BY <1>0, <2>1
  <2> QED
    BY <1>0, <2>1, <2>2, <2>5, <2>9, <2>10 DEF TokensInv, TokensType, OnlyCall, Onwards
<1>7. ASSUME NEW c \in Callers, RefreshRead(c) PROVE TokensInv'
  <2>1. PICK t \in Stored, pc \in {"look", "burn", "expire", "rotate"} :
              /\ OnlyCall(c)
              /\ call'[c] = [pc |-> pc, on |-> t, family |-> token[t].family,
                             epoch |-> token[t].epoch]
              /\ \/ budget' = [budget EXCEPT ![token[t].family] = @ + 1]
                 \/ budget' = budget
              /\ begins' = begins + 1
              /\ UNCHANGED <<clock, active, epoch, token, issued, outlived>>
    BY <1>7, ReadEffect
  <2>2. t \in TokenIds /\ token[t] # None /\ token[t] \in TokenRow
    BY <1>0 DEF Stored, Present
  <2>3. token[t].family \in TokenIds /\ token[t].epoch \in Nat
    BY <2>2 DEF TokenRow
  <2>4. t <= issued /\ token[t].family <= issued /\ token[t].epoch <= epoch
    BY <2>2 DEF TokensInv, RowsFit, RowFits
  <2>5. t # None /\ token[t].family # None
    BY <2>2, <2>3, TokenNumbers
  <2>6. /\ call'[c].pc # "idle" /\ call'[c].on = t
        /\ call'[c].family = token[t].family /\ call'[c].epoch = token[t].epoch
    BY <2>1
  <2>7. CallFits(c)'
    BY <2>1, <2>4, <2>5, <2>6 DEF CallFits
  <2>8. budget' \in [TokenIds -> Nat]
    BY <1>0, <2>1, <2>3
  <2> QED
    BY <1>0, <2>1, <2>7, <2>8, CallMoves
<1>8. ASSUME NEW c \in Callers, RefreshRevoke(c) PROVE TokensInv'
  <2>1. /\ OnlyCall(c)
        /\ UNCHANGED <<clock, active, epoch, issued, budget, begins, outlived>>
        /\ token' \in [TokenIds -> TokenRow \cup {None}]
    BY <1>8, RevokeEffect
  <2>2. Onwards
    BY <1>0, <2>1 DEF Onwards
  <2>3. RowsKept /\ \A t \in TokenIds : token'[t] # None => token[t] # None
    BY <1>8, RevokeEffect DEF RowsKept
  <2>4. CallFits(c)'
    <3>1. CASE call'[c] = NoCall
      BY <1>0, <2>1, <3>1, NoCallFits DEF CallFits
    <3>2. CASE call'[c] # NoCall
      <4>1. /\ call[c].pc = "rotate" /\ call'[c].pc = "look" /\ call'[c].on = call[c].on
            /\ call'[c].family = call[c].family /\ call'[c].epoch = call[c].epoch
        BY <1>8, <3>2, RevokeEffect
      <4>2. CallFits(c)
        BY DEF TokensInv, CallsFit
      <4> QED
        BY <2>1, <4>1, <4>2 DEF CallFits
    <3> QED
      BY <3>1, <3>2
  <2>5. CallsFit' /\ RowsFit'
    BY <2>1, <2>2, <2>3, <2>4, OneCall, RowsStay
  <2> QED
    BY <1>0, <2>1, <2>5 DEF TokensInv, TokensType, OnlyCall
<1>9. ASSUME NEW c \in Callers, RefreshLook(c) PROVE TokensInv'
  <2>1. /\ call[c].pc = "look" /\ OnlyCall(c)
        /\ \/ /\ call'[c].pc = "create"
              /\ call'[c].family = call[c].family /\ call'[c].epoch = call[c].epoch
           \/ call'[c] = NoCall
        /\ UNCHANGED <<clock, active, epoch, token, issued, budget, begins, outlived>>
    BY <1>9, LookEffect
  <2>2. CallFits(c)
    BY DEF TokensInv, CallsFit
  <2>3. CallFits(c)'
    BY <1>0, <2>1, <2>2, NoCallFits DEF CallFits
  <2> QED
    BY <1>0, <2>1, <2>3, CallMoves
<1>10. ASSUME NEW c \in Callers, RefreshBurn(c) PROVE TokensInv'
  <2> DEFINE f == call[c].family
  <2>1. /\ token' = [t \in TokenIds |-> IF t \in LiveIn(f) THEN Revoked(t) ELSE token[t]]
        /\ budget' = [budget EXCEPT ![f] = Cardinality(Coming(f, c))]
        /\ call' = [call EXCEPT ![c] = NoCall]
        /\ UNCHANGED <<clock, active, epoch, issued, begins, outlived>>
    BY <1>10 DEF RefreshBurn, Over
  <2>2. ASSUME NEW t \in TokenIds, t \in LiveIn(f)
        PROVE  /\ token[t] # None /\ Revoked(t) \in TokenRow
               /\ Revoked(t).family = token[t].family /\ Revoked(t).epoch = token[t].epoch
    <3>1. token[t] \in TokenRow /\ token[t] # None
      BY <1>0, <2>2 DEF LiveIn, Stored, Present
    <3> QED
      BY <1>0, <3>1 DEF Revoked, TokenRow
  <2>3. \A t \in TokenIds : token'[t] = IF t \in LiveIn(f) THEN Revoked(t) ELSE token[t]
    BY <2>1
  <2>4. token' \in [TokenIds -> TokenRow \cup {None}]
    <3> DEFINE row(t) == IF t \in LiveIn(f) THEN Revoked(t) ELSE token[t]
    <3>1. \A t \in TokenIds : row(t) \in TokenRow \cup {None}
      BY <1>0, <2>2
    <3>2. token' = [t \in TokenIds |-> row(t)]
      BY <2>1
    <3> HIDE DEF row
    <3> QED
      BY <3>1, <3>2
  <2>5. Cardinality(Coming(f, c)) \in Nat
    <3>1. Coming(f, c) \subseteq Callers
      BY DEF Coming
    <3> QED
      BY <3>1, TokenNumbers, FS_CardinalityType
  <2>6. budget' \in [TokenIds -> Nat]
    BY <1>0, <2>1, <2>5
  <2>7. RowsKept /\ \A t \in TokenIds : token'[t] # None => token[t] # None
    BY <2>2, <2>3 DEF RowsKept
  <2> HIDE DEF f
  <2>8. Onwards
    BY <1>0, <2>1 DEF Onwards
  <2>9. OnlyCall(c) /\ CallFits(c)'
    BY <1>0, <2>1, OverFits
  <2>10. CallsFit' /\ RowsFit'
    BY <2>7, <2>8, <2>9, OneCall, RowsStay
  <2> QED
    BY <1>0, <2>1, <2>4, <2>6, <2>9, <2>10 DEF TokensInv, TokensType, OnlyCall
<1>11. ASSUME NEW c \in Callers, CallDies(c) PROVE TokensInv'
  <2>1. /\ call' = [call EXCEPT ![c] = NoCall]
        /\ UNCHANGED <<clock, active, epoch, token, issued, budget, begins, outlived>>
    BY <1>11 DEF CallDies, Over
  <2>2. OnlyCall(c) /\ CallFits(c)'
    BY <1>0, <2>1, OverFits
  <2> QED
    BY <1>0, <2>1, <2>2, CallMoves
<1> QED
  BY <1>1, <1>2, <1>3, <1>4, <1>5, <1>6, <1>7, <1>8, <1>9, <1>10, <1>11 DEF TokensNext

\* Rows and calls have their types, and calls know their tokens.
LEMMA TokensAlways == TokensSpec => []TokensInv
<1> QED
  BY InitTokensInv, NextTokensInv, PTL DEF TokensSpec

-----------------------------------------------------------------------------
(* FamilyBudget *)

\* Refreshes that will still give family f a token.
Claims(f) == {d \in Callers : call[d].family = f /\ call[d].pc \in {"rotate", "look", "create"}}

\* Live tokens that no refresh is about to revoke.
Unclaimed(f) ==
    {t \in LiveIn(f) : \A d \in Callers : call[d].on = t => call[d].pc # "rotate"}

\* A live token that is being rotated is there on behalf of its rotation: the
\* budget has room for every token that is or will be live.  (FamilyBudget
\* alone is not inductive: it says nothing of the tokens to come.)
BudgetFits(f) == Cardinality(Claims(f)) + Cardinality(Unclaimed(f)) <= budget[f]

BudgetsFit == \A f \in TokenIds : BudgetFits(f)

LEMMA ClaimsFinite ==
    ASSUME TokensInv, NEW f
    PROVE  /\ Claims(f) \subseteq Callers /\ IsFiniteSet(Claims(f))
           /\ LiveIn(f) \subseteq TokenIds /\ IsFiniteSet(LiveIn(f))
           /\ Unclaimed(f) \subseteq LiveIn(f) /\ IsFiniteSet(Unclaimed(f))
<1>1. Claims(f) \subseteq Callers /\ Unclaimed(f) \subseteq LiveIn(f)
  BY DEF Claims, Unclaimed
<1>2. LiveIn(f) \subseteq TokenIds
  BY DEF LiveIn, Stored, Present, TokensInv, TokensType
<1>3. Unclaimed(f) \subseteq TokenIds
  BY <1>1, <1>2
<1> QED
  BY <1>1, <1>2, <1>3, TokenNumbers

\* The ways in which a step may change the two sets and the budget: c is the
\* call that moves, t the token that comes or is taken.
LEMMA BudgetStep ==
    ASSUME TokensInv, NEW f \in TokenIds, BudgetFits(f), NEW c, NEW t,
           \/ /\ Claims(f)' \subseteq Claims(f) /\ Unclaimed(f)' \subseteq Unclaimed(f)
              /\ budget'[f] = budget[f]
           \/ /\ c \in Claims(f) /\ Claims(f)' \subseteq Claims(f) \ {c}
              /\ Unclaimed(f)' \subseteq Unclaimed(f) \cup {t} /\ budget'[f] = budget[f]
           \/ /\ t \in Unclaimed(f) /\ Claims(f)' \subseteq Claims(f) \cup {c}
              /\ Unclaimed(f)' \subseteq Unclaimed(f) \ {t} /\ budget'[f] = budget[f]
           \/ /\ Claims(f)' \subseteq Claims(f) \cup {c}
              /\ Unclaimed(f)' \subseteq Unclaimed(f) /\ budget'[f] = budget[f] + 1
           \/ /\ Claims(f)' = {} /\ Unclaimed(f)' \subseteq {t} /\ budget'[f] = 1
           \/ /\ Claims(f)' \subseteq Claims(f) /\ Unclaimed(f)' = {}
              /\ budget'[f] = Cardinality(Claims(f)')
    PROVE  BudgetFits(f)'
<1>1. IsFiniteSet(Claims(f)) /\ IsFiniteSet(Unclaimed(f))
  BY ClaimsFinite
<1>2. budget[f] \in Nat
  BY DEF TokensInv, TokensType
<1> DEFINE C == Claims(f)
           U == Unclaimed(f)
           CC == Claims(f)'
           UU == Unclaimed(f)'
           b == budget[f]
           bb == budget'[f]
<1>3. Cardinality(C) + Cardinality(U) <= b
  BY DEF BudgetFits
<1> HIDE DEF C, U, CC, UU, b, bb
<1>4. IsFiniteSet(C) /\ IsFiniteSet(U) /\ b \in Nat
  BY <1>1, <1>2 DEF C, U, b
<1>5. \/ CC \subseteq C /\ UU \subseteq U /\ bb = b
      \/ c \in C /\ CC \subseteq C \ {c} /\ UU \subseteq U \cup {t} /\ bb = b
      \/ t \in U /\ CC \subseteq C \cup {c} /\ UU \subseteq U \ {t} /\ bb = b
      \/ CC \subseteq C \cup {c} /\ UU \subseteq U /\ bb = b + 1
      \/ CC = {} /\ UU \subseteq {t} /\ bb = 1
      \/ CC \subseteq C /\ UU = {} /\ bb = Cardinality(CC)
  BY DEF C, U, CC, UU, b, bb
<1>6. Cardinality(CC) + Cardinality(UU) <= bb
  <2>1. CASE CC \subseteq C /\ UU \subseteq U /\ bb = b
    <3>1. /\ Cardinality(CC) \in Nat /\ Cardinality(C) \in Nat
          /\ Cardinality(CC) <= Cardinality(C)
      BY <1>4, <2>1, CountPart
    <3>2. /\ Cardinality(UU) \in Nat /\ Cardinality(U) \in Nat
          /\ Cardinality(UU) <= Cardinality(U)
      BY <1>4, <2>1, CountPart
    <3> QED
      BY <1>3, <1>4, <2>1, <3>1, <3>2
  <2>2. CASE c \in C /\ CC \subseteq C \ {c} /\ UU \subseteq U \cup {t} /\ bb = b
    <3>1. /\ Cardinality(CC) \in Nat /\ Cardinality(C) \in Nat
          /\ Cardinality(CC) + 1 <= Cardinality(C)
      BY <1>4, <2>2, CountLoss
    <3>2. /\ Cardinality(UU) \in Nat /\ Cardinality(U) \in Nat
          /\ Cardinality(UU) <= Cardinality(U) + 1
      BY <1>4, <2>2, CountGain
    <3> QED
      BY <1>3, <1>4, <2>2, <3>1, <3>2
  <2>3. CASE t \in U /\ CC \subseteq C \cup {c} /\ UU \subseteq U \ {t} /\ bb = b
    <3>1. /\ Cardinality(CC) \in Nat /\ Cardinality(C) \in Nat
          /\ Cardinality(CC) <= Cardinality(C) + 1
      BY <1>4, <2>3, CountGain
    <3>2. /\ Cardinality(UU) \in Nat /\ Cardinality(U) \in Nat
          /\ Cardinality(UU) + 1 <= Cardinality(U)
      BY <1>4, <2>3, CountLoss
    <3> QED
      BY <1>3, <1>4, <2>3, <3>1, <3>2
  <2>4. CASE CC \subseteq C \cup {c} /\ UU \subseteq U /\ bb = b + 1
    <3>1. /\ Cardinality(CC) \in Nat /\ Cardinality(C) \in Nat
          /\ Cardinality(CC) <= Cardinality(C) + 1
      BY <1>4, <2>4, CountGain
    <3>2. /\ Cardinality(UU) \in Nat /\ Cardinality(U) \in Nat
          /\ Cardinality(UU) <= Cardinality(U)
      BY <1>4, <2>4, CountPart
    <3> QED
      BY <1>3, <1>4, <2>4, <3>1, <3>2
  <2>5. CASE CC = {} /\ UU \subseteq {t} /\ bb = 1
    <3>1. IsFiniteSet({t}) /\ Cardinality({t}) = 1 /\ Cardinality({}) = 0
      BY FS_Singleton, FS_EmptySet
    <3>2. Cardinality(UU) \in Nat /\ Cardinality(UU) <= 1
      BY <1>4, <2>5, <3>1, CountPart
    <3> QED
      BY <1>4, <2>5, <3>1, <3>2
  <2>6. CASE CC \subseteq C /\ UU = {} /\ bb = Cardinality(CC)
    <3>1. Cardinality(CC) \in Nat
      BY <1>4, <2>6, CountPart
    <3> QED
      BY <1>4, <2>6, <3>1, FS_EmptySet
  <2> QED
    BY <1>5, <2>1, <2>2, <2>3, <2>4, <2>5, <2>6
<1> QED
  BY <1>6 DEF CC, UU, bb, BudgetFits

\* Only the call that moves can enter or leave the claims.
LEMMA ClaimsMove ==
    ASSUME NEW c \in Callers, OnlyCall(c), NEW f
    PROVE  /\ Claims(f)' \subseteq Claims(f) \cup {c}
           /\ c \in Claims(f)' <=> call'[c].family = f /\ call'[c].pc \in {"rotate", "look", "create"}
           /\ c \in Claims(f) <=> call[c].family = f /\ call[c].pc \in {"rotate", "look", "create"}
           /\ c \notin Claims(f)' => Claims(f)' \subseteq Claims(f) \ {c}
           /\ c \in Claims(f) => Claims(f)' \subseteq Claims(f)
BY DEF Claims, OnlyCall

\* While no token changes, a live token becomes unclaimed only when the call
\* that was to rotate it goes.
LEMMA UnclaimedMove ==
    ASSUME TokensInv, NEW c \in Callers, OnlyCall(c), NEW f, token' = token
    PROVE  /\ Unclaimed(f)' \subseteq Unclaimed(f) \cup {call[c].on}
           /\ call[c].pc # "rotate" => Unclaimed(f)' \subseteq Unclaimed(f)
           /\ call'[c].pc = "rotate" => call'[c].on \notin Unclaimed(f)'
           /\ call[c].pc = "rotate" /\ call[c].family # f => Unclaimed(f)' \subseteq Unclaimed(f)
<1>1. LiveIn(f)' = LiveIn(f)
  BY DEF LiveIn, Stored, Present
<1>2. \A d \in Callers : d # c => call'[d] = call[d]
  BY DEF OnlyCall
<1>3. ASSUME NEW t \in Unclaimed(f)', t \notin Unclaimed(f)
      PROVE  t \in LiveIn(f) /\ call[c].on = t /\ call[c].pc = "rotate"
  BY <1>1, <1>2, <1>3 DEF Unclaimed
<1>4. ASSUME NEW t \in LiveIn(f), call[c].on = t, call[c].pc = "rotate"
      PROVE  call[c].family = f
  BY <1>4 DEF LiveIn, Stored, Present, TokensInv, CallsFit, CallFits
<1>5. call'[c].pc = "rotate" => call'[c].on \notin Unclaimed(f)'
  BY DEF Unclaimed
<1> QED
  BY <1>3, <1>4, <1>5

LEMMA NextBudgets == TokensInv /\ BudgetsFit /\ [TokensNext]_tokenVars => BudgetsFit'
<1> SUFFICES ASSUME TokensInv, BudgetsFit, [TokensNext]_tokenVars, NEW f \in TokenIds
             PROVE  BudgetFits(f)'
  BY DEF BudgetsFit
<1>0. /\ token \in [TokenIds -> TokenRow \cup {None}]
      /\ call \in [Callers -> CallRow] /\ budget \in [TokenIds -> Nat]
      /\ None \notin TokenIds
  BY TokenNumbers DEF TokensInv, TokensType
<1>b. BudgetFits(f)
  BY DEF BudgetsFit
<1>1. CASE UNCHANGED tokenVars \/ TokenTick \/ SetStatus
  <2>1. UNCHANGED <<token, call, budget>>
    BY <1>1 DEF tokenVars, TokenTick, SetStatus
  <2> QED
    BY <1>b, <2>1 DEF BudgetFits, Claims, Unclaimed, LiveIn, Stored, Present
<1>2. CASE ResetPassword \/ PurgeTokens
  <2>1. UNCHANGED <<call, budget>>
    BY <1>2 DEF ResetPassword, PurgeTokens
  <2>2. \A t \in TokenIds : token'[t] \in {token[t], None}
    BY <1>2 DEF ResetPassword, PurgeTokens, SignedOut
  <2>3. DOMAIN token = TokenIds /\ DOMAIN token' = TokenIds
    BY <1>0, <1>2 DEF ResetPassword, PurgeTokens
  <2>4. LiveIn(f)' \subseteq LiveIn(f)
    BY <2>2, <2>3 DEF LiveIn, Stored, Present
  <2>5. Claims(f)' \subseteq Claims(f) /\ Unclaimed(f)' \subseteq Unclaimed(f)
    BY <2>1, <2>4 DEF Claims, Unclaimed
  <2> QED
    BY <1>b, <2>1, <2>5, BudgetStep
<1>3. ASSUME NEW c \in Callers, Login(c) PROVE BudgetFits(f)'
  <2>1. /\ OnlyCall(c) /\ call[c].pc = "idle" /\ call'[c].family = None
        /\ token' = token /\ budget' = budget
    BY <1>3, LoginEffect
  <2>2. c \notin Claims(f)'
    BY <1>0, <2>1, ClaimsMove
  <2>3. Claims(f)' \subseteq Claims(f) /\ Unclaimed(f)' \subseteq Unclaimed(f)
    BY <2>1, <2>2, ClaimsMove, UnclaimedMove
  <2> QED
    BY <1>b, <2>1, <2>3, BudgetStep
<1>4. ASSUME NEW c \in Callers, CreateToken(c) PROVE BudgetFits(f)'
  <2> DEFINE t == issued + 1
  <2>1. /\ call[c].pc = "create" /\ OnlyCall(c) /\ call'[c] = NoCall
        /\ t \in TokenIds /\ token[t] = None
        /\ FamilyOf(c) \in TokenIds
        /\ \/ call[c].family = None /\ FamilyOf(c) = t
           \/ call[c].family # None /\ FamilyOf(c) = call[c].family
        /\ token' \in [TokenIds -> TokenRow \cup {None}]
        /\ \A u \in TokenIds : u # t => token'[u] = token[u]
        /\ token'[t].family = FamilyOf(c)
        /\ budget' = [budget EXCEPT ![FamilyOf(c)] = IF call[c].family = None THEN 1 ELSE @]
    BY <1>4, CreateEffect
  <2>2. DOMAIN token = TokenIds /\ DOMAIN token' = TokenIds
    BY <1>0, <2>1
  <2>i. issued \in Nat /\ issued' = issued + 1
    BY <1>4, TokenNumbers, CreateEffect DEF TokensInv, TokensType
  <2> HIDE DEF t
  <2>3. \A g : LiveIn(g)' \subseteq LiveIn(g) \cup (IF g = FamilyOf(c) THEN {t} ELSE {})
    BY <2>1, <2>2 DEF LiveIn, Stored, Present
  <2>4. \A d \in Callers : call'[d].pc = "rotate" <=> call[d].pc = "rotate"
    BY <2>1, NoCallFits DEF OnlyCall
  <2>5. \A d \in Callers : call[d].pc = "rotate" => call'[d] = call[d]
    BY <2>1 DEF OnlyCall
  <2>6. \A g : Unclaimed(g)' \subseteq Unclaimed(g) \cup (IF g = FamilyOf(c) THEN {t} ELSE {})
    BY <2>3, <2>4, <2>5 DEF Unclaimed
  <2>7. Claims(f)' \subseteq Claims(f) \ {c}
    BY <2>1, NoCallFits, ClaimsMove
  <2>8. CASE f # FamilyOf(c)
    <3>1. budget'[f] = budget[f]
      BY <1>0, <2>1, <2>8
    <3>2. Unclaimed(f)' \subseteq Unclaimed(f)
      BY <2>6, <2>8
    <3> QED
      BY <1>b, <2>7, <3>1, <3>2, BudgetStep
  <2>9. CASE f = FamilyOf(c) /\ call[c].family # None
    <3>1. budget'[f] = budget[f]
      BY <1>0, <2>1, <2>9
    <3>2. Unclaimed(f)' \subseteq Unclaimed(f) \cup {t} /\ c \in Claims(f)
      BY <2>1, <2>6, <2>9 DEF Claims
    <3> QED
      BY <1>b, <2>7, <3>1, <3>2, BudgetStep
  <2>10. CASE f = FamilyOf(c) /\ call[c].family = None
    <3>1. budget'[f] = 1 /\ f = issued + 1
      BY <1>0, <2>1, <2>10 DEF t
    <3>2. \A d \in Callers : call[d].family # f
      <4>1. \A d \in Callers : call[d].family # None => call[d].family <= issued
        BY DEF TokensInv, CallsFit, CallFits
      <4> QED
        BY <1>0, <2>i, <3>1, <4>1
    <3>3. Claims(f) = {}
      BY <3>2 DEF Claims
    <3>4. LiveIn(f) = {}
      <4>1. \A u \in TokenIds : token[u] # None => token[u].family <= issued
        BY DEF TokensInv, RowsFit, RowFits
      <4>2. \A u \in TokenIds : token[u] # None => token[u].family # f
        BY <2>i, <3>1, <4>1
      <4> QED
        BY <2>2, <4>2 DEF LiveIn, Stored, Present
    <3>5. Unclaimed(f)' \subseteq {t} /\ Claims(f)' = {}
      BY <2>6, <2>7, <3>3, <3>4 DEF Unclaimed
    <3> QED
      BY <1>b, <3>1, <3>5, BudgetStep
  <2> QED
    BY <2>8, <2>9, <2>10
<1>5. ASSUME NEW c \in Callers, RefreshRead(c) PROVE BudgetFits(f)'
  <2>1. PICK t \in Stored, pc \in {"look", "burn", "expire", "rotate"} :
          /\ call[c].pc = "idle"
          /\ OnlyCall(c)
          /\ call'[c] = [pc |-> pc, on |-> t, family |-> token[t].family,
                         epoch |-> token[t].epoch]
          /\ \/ budget' = [budget EXCEPT ![token[t].family] = @ + 1]
             \/ /\ budget' = budget
                /\ pc # "look"
                /\ pc = "rotate" => /\ t \in LiveIn(token[t].family)
                                    /\ \A d \in Callers : call[d].on = t => call[d].pc # "rotate"
          /\ token' = token
    BY <1>5, ReadEffect
  <2>2. call'[c].pc = pc /\ call'[c].on = t /\ call'[c].family = token[t].family
    BY <2>1
  <2>3. Unclaimed(f)' \subseteq Unclaimed(f)
    BY <2>1, UnclaimedMove
  <2>4. token[t].family \in TokenIds
    BY <1>0 DEF Stored, Present, TokenRow
  <2>5. CASE f # token[t].family
    <3>1. Claims(f)' \subseteq Claims(f)
      BY <2>1, <2>2, <2>5, ClaimsMove
    <3>2. budget'[f] = budget[f]
      BY <1>0, <2>1, <2>4, <2>5
    <3> QED
      BY <1>b, <2>3, <3>1, <3>2, BudgetStep
  <2>6. CASE f = token[t].family /\ budget' = [budget EXCEPT ![token[t].family] = @ + 1]
    <3>1. Claims(f)' \subseteq Claims(f) \cup {c}
      BY <2>1, ClaimsMove
    <3>2. budget'[f] = budget[f] + 1
      BY <1>0, <2>6
    <3> QED
      BY <1>b, <2>3, <3>1, <3>2, BudgetStep
  <2>7. CASE f = token[t].family /\ budget' = budget /\ pc \in {"burn", "expire"}
    <3>1. Claims(f)' \subseteq Claims(f)
      BY <2>1, <2>2, <2>7, ClaimsMove
    <3> QED
      BY <1>b, <2>3, <2>7, <3>1, BudgetStep
  <2>8. CASE /\ f = token[t].family /\ budget' = budget /\ pc = "rotate"
             /\ t \in LiveIn(token[t].family)
             /\ \A d \in Callers : call[d].on = t => call[d].pc # "rotate"
    <3>1. Claims(f)' \subseteq Claims(f) \cup {c}
      BY <2>1, ClaimsMove
    <3>2. t \in Unclaimed(f) /\ t \notin Unclaimed(f)'
      BY <2>1, <2>2, <2>8, UnclaimedMove DEF Unclaimed
    <3> QED
      BY <1>b, <2>3, <2>8, <3>1, <3>2, BudgetStep
  <2> QED
    BY <2>1, <2>5, <2>6, <2>7, <2>8
<1>6. ASSUME NEW c \in Callers, RefreshRevoke(c) PROVE BudgetFits(f)'
  <2> DEFINE t == call[c].on
  <2>1. /\ t \in TokenIds /\ OnlyCall(c) /\ budget' = budget
        /\ token' \in [TokenIds -> TokenRow \cup {None}]
        /\ \A u \in TokenIds : u # t => token'[u] = token[u]
        /\ token'[t] # None => token'[t].revokedAt # None
        /\ \/ /\ call[c].pc = "rotate" /\ call'[c].pc = "look"
              /\ call'[c].on = t /\ call'[c].family = call[c].family
           \/ call'[c] = NoCall
    BY <1>6, RevokeEffect
  <2>2. DOMAIN token = TokenIds /\ DOMAIN token' = TokenIds
    BY <1>0, <2>1
  <2> HIDE DEF t
  <2>3. LiveIn(f)' \subseteq LiveIn(f) \ {t}
    BY <2>1, <2>2 DEF LiveIn, Stored, Present
  <2>4. \A d \in Callers : d # c => call'[d] = call[d]
    BY <2>1 DEF OnlyCall
  <2>5. \A u \in LiveIn(f)' : \A d \in Callers :
           call[d].on = u /\ call[d].pc = "rotate" => call'[d] = call[d]
    BY <2>3, <2>4 DEF t
  <2>6. Unclaimed(f)' \subseteq Unclaimed(f)
    BY <2>3, <2>5 DEF Unclaimed
  <2>7. Claims(f)' \subseteq Claims(f)
    <3>1. CASE call'[c] = NoCall
      BY <2>1, <3>1, NoCallFits, ClaimsMove
    <3>2. CASE call'[c] # NoCall
      BY <2>1, <3>2, ClaimsMove
    <3> QED
      BY <3>1, <3>2
  <2> QED
    BY <1>b, <2>1, <2>6, <2>7, BudgetStep
<1>7. ASSUME NEW c \in Callers, RefreshLook(c) PROVE BudgetFits(f)'
  <2>1. /\ call[c].pc = "look" /\ OnlyCall(c)
        /\ \/ call'[c].pc = "create" /\ call'[c].family = call[c].family
           \/ call'[c] = NoCall
        /\ token' = token /\ budget' = budget
    BY <1>7, LookEffect
  <2>2. Unclaimed(f)' \subseteq Unclaimed(f)
    BY <2>1, UnclaimedMove
  <2>3. Claims(f)' \subseteq Claims(f)
    BY <2>1, NoCallFits, ClaimsMove
  <2> QED
    BY <1>b, <2>1, <2>2, <2>3, BudgetStep
<1>8. ASSUME NEW c \in Callers, RefreshBurn(c) PROVE BudgetFits(f)'
  <2> DEFINE g == call[c].family
  <2>1. /\ token' = [t \in TokenIds |-> IF t \in LiveIn(g) THEN Revoked(t) ELSE token[t]]
        /\ budget' = [budget EXCEPT ![g] = Cardinality(Coming(g, c))]
        /\ call' = [call EXCEPT ![c] = NoCall] /\ epoch' = epoch
        /\ call[c].pc = "burn"
    BY <1>8 DEF RefreshBurn, Over
  <2>2. OnlyCall(c) /\ call'[c] = NoCall
    <3>1. epoch' \in Nat
      BY <2>1 DEF TokensInv, TokensType
    <3> QED
      BY <2>1, <3>1, OverFits
  <2>3. g \in TokenIds
    BY <1>0, <2>1 DEF CallRow, TokensInv, CallsFit, CallFits
  <2>4. Claims(f)' \subseteq Claims(f)
    BY <2>2, NoCallFits, ClaimsMove
  <2>5. \A t \in LiveIn(g) : Revoked(t).revokedAt # None
    <3>1. clock # None
      BY NullAssumption DEF TokensInv, TokensType
    <3>2. \A t \in LiveIn(g) : token[t] \in TokenRow
      BY <1>0 DEF LiveIn, Stored, Present
    <3> QED
      BY <3>1, <3>2 DEF Revoked, TokenRow
  <2> HIDE DEF g
  <2>6. DOMAIN token = TokenIds /\ DOMAIN token' = TokenIds
    BY <1>0, <2>1
  <2>7. \A t \in TokenIds : token'[t] = IF t \in LiveIn(g) THEN Revoked(t) ELSE token[t]
    BY <2>1
  <2>8. CASE f = g
    <3>1. LiveIn(f)' = {}
      <4>1. ASSUME NEW t \in LiveIn(f)' PROVE FALSE
        <5>1. t \in TokenIds /\ token'[t].revokedAt = None /\ token'[t].family = g /\ token'[t] # None
          BY <2>6, <2>8, <4>1 DEF LiveIn, Stored, Present
        <5>2. t \notin LiveIn(g)
          BY <2>5, <2>7, <5>1
        <5>3. token'[t] = token[t]
          BY <2>7, <5>1, <5>2
        <5> QED
          BY <2>6, <5>1, <5>2, <5>3 DEF LiveIn, Stored, Present
      <4> QED
        BY <4>1
    <3>2. Unclaimed(f)' = {}
      BY <3>1 DEF Unclaimed
    <3>3. Coming(g, c) = Claims(f)'
      BY <2>2, <2>8, NoCallFits DEF Coming, Claims, OnlyCall
    <3>4. budget'[f] = Cardinality(Claims(f)')
      BY <1>0, <2>1, <2>3, <2>8, <3>3
    <3> QED
      BY <1>b, <2>4, <3>2, <3>4, BudgetStep
  <2>9. CASE f # g
    <3>1. budget'[f] = budget[f]
      BY <1>0, <2>1, <2>9
    <3>2. \A t \in LiveIn(g) : Revoked(t).family = g
      <4>1. \A t \in LiveIn(g) : token[t] \in TokenRow /\ token[t].family = g
        BY <1>0 DEF LiveIn, Stored, Present
      <4> QED
        BY <4>1 DEF Revoked, TokenRow
    <3>3. LiveIn(f)' \subseteq LiveIn(f)
      BY <2>6, <2>7, <2>9, <3>2 DEF LiveIn, Stored, Present
    <3>4. \A d \in Callers : call[d].pc = "rotate" => call'[d] = call[d]
      BY <2>1, <2>2 DEF OnlyCall
    <3>5. Unclaimed(f)' \subseteq Unclaimed(f)
      BY <3>3, <3>4 DEF Unclaimed
    <3> QED
      BY <1>b, <2>4, <3>1, <3>5, BudgetStep
  <2> QED
    BY <2>8, <2>9
<1>9. ASSUME NEW c \in Callers, CallDies(c) PROVE BudgetFits(f)'
  <2>1. /\ call' = [call EXCEPT ![c] = NoCall]
        /\ token' = token /\ budget' = budget /\ epoch' = epoch
    BY <1>9 DEF CallDies, Over
  <2>2. OnlyCall(c) /\ call'[c] = NoCall
    <3>1. epoch' \in Nat
      BY <2>1 DEF TokensInv, TokensType
    <3> QED
      BY <2>1, <3>1, OverFits
  <2>3. Claims(f)' \subseteq Claims(f) \ {c}
    BY <2>2, NoCallFits, ClaimsMove
  <2>4. CASE call[c].pc = "rotate" /\ call[c].family = f
    <3>1. c \in Claims(f)
      BY <2>4 DEF Claims
    <3>2. Unclaimed(f)' \subseteq Unclaimed(f) \cup {call[c].on}
      BY <2>1, <2>2, UnclaimedMove
    <3> QED
      BY <1>b, <2>1, <2>3, <3>1, <3>2, BudgetStep
  <2>5. CASE ~(call[c].pc = "rotate" /\ call[c].family = f)
    <3>1. Unclaimed(f)' \subseteq Unclaimed(f)
      BY <2>1, <2>2, <2>5, UnclaimedMove
    <3> QED
      BY <1>b, <2>1, <2>3, <3>1, BudgetStep
  <2> QED
    BY <2>4, <2>5
<1> QED
  BY <1>1, <1>2, <1>3, <1>4, <1>5, <1>6, <1>7, <1>8, <1>9 DEF TokensNext

\* The live tokens of a family are the unclaimed ones and those that a
\* rotation is about to revoke, each by a rotation of its own.
LEMMA BudgetsSuffice == TokensInv /\ BudgetsFit => FamilyBudget
<1> SUFFICES ASSUME TokensInv, BudgetsFit, NEW f \in TokenIds
             PROVE  Cardinality(LiveIn(f)) <= budget[f]
  BY DEF FamilyBudget
<1> DEFINE R == {d \in Claims(f) : call[d].pc = "rotate"}
           on == [d \in R |-> call[d].on]
           Held == LiveIn(f) \ Unclaimed(f)
           V == TokenIds \cup {None}
<1>1. /\ IsFiniteSet(Claims(f)) /\ IsFiniteSet(Unclaimed(f)) /\ IsFiniteSet(LiveIn(f))
      /\ Unclaimed(f) \subseteq LiveIn(f) /\ LiveIn(f) \subseteq TokenIds
  BY ClaimsFinite
<1>2. \A t \in Held : \E d \in R : on[d] = t
  <2>1. ASSUME NEW t \in LiveIn(f), t \notin Unclaimed(f)
        PROVE  \E d \in R : call[d].on = t
    <3>1. PICK d \in Callers : call[d].on = t /\ call[d].pc = "rotate"
      BY <2>1 DEF Unclaimed
    <3>2. call[d].family = f
      BY <2>1, <3>1 DEF LiveIn, Stored, Present, TokensInv, CallsFit, CallFits
    <3> QED
      BY <3>1, <3>2 DEF Claims
  <2> QED
    BY <2>1
<1>3. on \in [R -> V]
  BY DEF Claims, TokensInv, TokensType, CallRow
<1>4. R \subseteq Claims(f)
  OBVIOUS
<1> HIDE DEF R, on, Held, V
<1>5. IsFiniteSet(R) /\ Cardinality(R) \in Nat /\ Cardinality(Claims(f)) \in Nat
      /\ Cardinality(R) <= Cardinality(Claims(f))
  BY <1>1, <1>4, CountPart
<1>6. Cardinality(Held) \in Nat /\ Cardinality(Held) <= Cardinality(R)
  BY <1>2, <1>3, <1>5, CountImage
<1>7. /\ Cardinality(Unclaimed(f)) \in Nat
      /\ Cardinality(LiveIn(f)) =
            Cardinality(Unclaimed(f)) + Cardinality(Held)
  BY <1>1, CountRest DEF Held
<1>8. Cardinality(Claims(f)) + Cardinality(Unclaimed(f)) <= budget[f] /\ budget[f] \in Nat
  BY DEF BudgetsFit, BudgetFits, TokensInv, TokensType
<1> QED
  BY <1>5, <1>6, <1>7, <1>8

\* No family of refresh tokens ever has more live tokens than the rotations,
\* the double uses and the grace period account for (refreshAccessToken,
\* generateToken).
THEOREM FamiliesKeepTheirBudget == TokensSpec => []FamilyBudget
<1>1. TokensInit => BudgetsFit
  <2> SUFFICES ASSUME TokensInit, NEW f \in TokenIds PROVE BudgetFits(f)
    BY DEF BudgetsFit
  <2>1. Claims(f) = {}
    BY NoCallFits DEF TokensInit, Claims
  <2>2. Unclaimed(f) = {}
    BY DEF TokensInit, Unclaimed, LiveIn, Stored, Present
  <2>3. budget[f] = 0
    BY DEF TokensInit
  <2> QED
    BY <2>1, <2>2, <2>3, FS_EmptySet DEF BudgetFits
<1> QED
  BY <1>1, TokensAlways, NextBudgets, BudgetsSuffice, PTL DEF TokensSpec

-----------------------------------------------------------------------------
(* ResetEndsTokens *)

\* Families of an earlier password, in the table or about to come back to it.
OldRow(t) == token[t] # None /\ token[t].epoch < epoch

OldCall(c) == call[c].pc \in {"look", "create"} /\ call[c].epoch < epoch

OldFamilies ==
    {f \in TokenIds : \/ \E t \in TokenIds : OldRow(t) /\ token[t].family = f
                      \/ \E c \in Callers : OldCall(c) /\ call[c].family = f}

\* Logins with an earlier password that have still to get their token.
OldLogins == {c \in Callers : OldCall(c) /\ call[c].family = None}

\* A login that comes late turns from an old login into an old family.
\* (ResetEndsTokens alone is not inductive: it says nothing of calls.)
ResetHolds == Cardinality(OldFamilies) + Cardinality(OldLogins) <= outlived

LEMMA OldFinite ==
    ASSUME TokensInv
    PROVE  /\ IsFiniteSet(OldFamilies) /\ IsFiniteSet(OldLogins)
           /\ Cardinality(OldFamilies) \in Nat /\ Cardinality(OldLogins) \in Nat
           /\ outlived \in Nat
<1>1. OldFamilies \subseteq TokenIds /\ OldLogins \subseteq Callers
  BY DEF OldFamilies, OldLogins
<1>2. outlived \in Nat
  BY DEF TokensInv, TokensType
<1> QED
  BY <1>1, <1>2, TokenNumbers, FS_CardinalityType

\* Nothing old comes: most steps.
LEMMA ResetStays ==
    ASSUME TokensInv, ResetHolds, outlived' = outlived,
           OldFamilies' \subseteq OldFamilies, OldLogins' \subseteq OldLogins
    PROVE  ResetHolds'
<1>1. /\ Cardinality(OldFamilies') \in Nat /\ Cardinality(OldFamilies) \in Nat
      /\ Cardinality(OldFamilies') <= Cardinality(OldFamilies)
  BY OldFinite, CountPart
<1>2. /\ Cardinality(OldLogins') \in Nat /\ Cardinality(OldLogins) \in Nat
      /\ Cardinality(OldLogins') <= Cardinality(OldLogins)
  BY OldFinite, CountPart
<1> QED
  BY <1>1, <1>2, OldFinite DEF ResetHolds

\* Old rows and old calls of a step were old before, of the same family.
LEMMA OldOnes ==
    ASSUME TokensInv,
           \A t \in TokenIds : OldRow(t)' =>
              \/ OldRow(t) /\ token'[t].family = token[t].family
              \/ \E d \in Callers : OldCall(d) /\ call[d].family = token'[t].family,
           \A d \in Callers : OldCall(d)' =>
              \/ OldCall(d) /\ call'[d].family = call[d].family
              \/ /\ call'[d].family # None
                 /\ \E t \in TokenIds : OldRow(t) /\ call'[d].family = token[t].family
    PROVE  OldFamilies' \subseteq OldFamilies /\ OldLogins' \subseteq OldLogins
BY DEF OldFamilies, OldLogins

LEMMA NextResetHolds == TokensInv /\ ResetHolds /\ [TokensNext]_tokenVars => ResetHolds'
<1> SUFFICES ASSUME TokensInv, ResetHolds, [TokensNext]_tokenVars PROVE ResetHolds'
  OBVIOUS
<1>0. /\ token \in [TokenIds -> TokenRow \cup {None}]
      /\ call \in [Callers -> CallRow] /\ epoch \in Nat
      /\ None \notin TokenIds
  BY TokenNumbers DEF TokensInv, TokensType
<1>1. CASE UNCHANGED tokenVars \/ TokenTick \/ SetStatus
  <2>1. UNCHANGED <<token, call, epoch, outlived>>
    BY <1>1 DEF tokenVars, TokenTick, SetStatus
  <2> QED
    BY <2>1 DEF ResetHolds, OldFamilies, OldLogins, OldRow, OldCall
<1>2. CASE ResetPassword
  <2> DEFINE L == {c \in Callers : call[c].pc \in {"look", "create"}}
             N == {c \in L : call[c].family = None}
             R == L \ N
             family == [c \in R |-> call[c].family]
             V == TokenIds \cup {None}
             F == OldFamilies'
  <2>1. /\ token' = [t \in TokenIds |-> None] /\ epoch' = epoch + 1 /\ call' = call
        /\ outlived' = Cardinality(L)
    BY <1>2 DEF ResetPassword, SignedOut
  <2>2. L \subseteq Callers /\ IsFiniteSet(L) /\ N \subseteq L
    BY TokenNumbers
  <2>3. OldLogins' \subseteq N
    BY <2>1 DEF OldLogins, OldCall
  <2>4. \A f \in F : \E c \in R : family[c] = f
    <3>1. \A t \in TokenIds : ~OldRow(t)'
      BY <2>1 DEF OldRow
    <3>2. ASSUME NEW f \in F PROVE \E c \in R : family[c] = f
      <4>1. PICK c \in Callers : OldCall(c)' /\ call'[c].family = f /\ f \in TokenIds
        BY <3>1, <3>2 DEF OldFamilies
      <4>2. c \in R /\ call[c].family = f
        BY <1>0, <2>1, <4>1 DEF OldCall
      <4> QED
        BY <4>2
    <3> QED
      BY <3>2
  <2>5. family \in [R -> V]
    BY <1>0 DEF CallRow
  <2> HIDE DEF L, N, R, family, V, F
  <2>6. /\ IsFiniteSet(N) /\ IsFiniteSet(L \ N) /\ Cardinality(N) \in Nat
        /\ Cardinality(L \ N) \in Nat
        /\ Cardinality(L) = Cardinality(N) + Cardinality(L \ N)
    BY <2>2, CountRest
  <2>7. IsFiniteSet(R) /\ Cardinality(R) = Cardinality(L \ N) /\ Cardinality(R) \in Nat
    BY <2>6 DEF R
  <2>8. Cardinality(F) \in Nat /\ Cardinality(F) <= Cardinality(R)
    BY <2>4, <2>5, <2>7, CountImage
  <2>9. Cardinality(OldLogins') \in Nat /\ Cardinality(OldLogins') <= Cardinality(N)
    BY <2>3, <2>6, CountPart
  <2> QED
    BY <2>1, <2>6, <2>7, <2>8, <2>9 DEF ResetHolds, F
<1>3. CASE PurgeTokens
  <2>1. UNCHANGED <<call, epoch, outlived>>
    BY <1>3 DEF PurgeTokens
  <2>2. \A t \in TokenIds : token'[t] \in {token[t], None}
    BY <1>3 DEF PurgeTokens
  <2>3. OldFamilies' \subseteq OldFamilies /\ OldLogins' \subseteq OldLogins
    BY <2>1, <2>2, OldOnes DEF OldRow, OldCall
  <2> QED
    BY <2>1, <2>3, ResetStays
<1>4. ASSUME NEW c \in Callers, Login(c) PROVE ResetHolds'
  <2>1. /\ OnlyCall(c) /\ call'[c].epoch = epoch
        /\ UNCHANGED <<token, epoch, outlived>>
    BY <1>4, LoginEffect
  <2>2. \A t \in TokenIds : OldRow(t)' => OldRow(t) /\ token'[t].family = token[t].family
    BY <2>1 DEF OldRow
  <2>3. \A d \in Callers : OldCall(d)' => OldCall(d) /\ call'[d].family = call[d].family
    BY <1>0, <2>1 DEF OldCall, OnlyCall
  <2>4. OldFamilies' \subseteq OldFamilies /\ OldLogins' \subseteq OldLogins
    BY <2>2, <2>3, OldOnes
  <2> QED
    BY <2>1, <2>4, ResetStays
<1>5. ASSUME NEW c \in Callers, CreateToken(c) PROVE ResetHolds'
  <2> DEFINE t == issued + 1
  <2>1. /\ call[c].pc = "create" /\ OnlyCall(c) /\ call'[c] = NoCall
        /\ t \in TokenIds /\ token[t] = None
        /\ FamilyOf(c) \in TokenIds
        /\ \/ call[c].family = None /\ FamilyOf(c) = t
           \/ call[c].family # None /\ FamilyOf(c) = call[c].family
        /\ \A u \in TokenIds : u # t => token'[u] = token[u]
        /\ token'[t].family = FamilyOf(c)
        /\ token'[t].epoch = call[c].epoch
        /\ UNCHANGED <<epoch, outlived>>
    BY <1>5, CreateEffect
  <2> HIDE DEF t
  <2>2. \A u \in TokenIds : OldRow(u)' =>
           \/ OldRow(u) /\ token'[u].family = token[u].family
           \/ u = t /\ OldCall(c)
    BY <2>1 DEF OldRow, OldCall
  <2>3. \A d \in Callers : OldCall(d)' => d # c /\ OldCall(d) /\ call'[d].family = call[d].family
    BY <2>1, NoCallFits DEF OldCall, OnlyCall
  <2>4. CASE call[c].family # None \/ ~OldCall(c)
    <3>1. \A u \in TokenIds : OldRow(u)' =>
              \/ OldRow(u) /\ token'[u].family = token[u].family
              \/ \E d \in Callers : OldCall(d) /\ call[d].family = token'[u].family
      BY <2>1, <2>2, <2>4
    <3>2. OldFamilies' \subseteq OldFamilies /\ OldLogins' \subseteq OldLogins
      BY <2>3, <3>1, OldOnes
    <3> QED
      BY <2>1, <3>2, ResetStays
  <2>5. CASE call[c].family = None /\ OldCall(c)
    <3>1. c \in OldLogins
      BY <2>5 DEF OldLogins
    <3>2. OldLogins' \subseteq OldLogins \ {c}
      BY <2>3 DEF OldLogins
    <3>3. OldFamilies' \subseteq OldFamilies \cup {t}
      <4>1. ASSUME NEW f \in OldFamilies', f # t PROVE f \in OldFamilies
        <5>1. f \in TokenIds
          BY DEF OldFamilies
        <5>2. CASE \E u \in TokenIds : OldRow(u)' /\ token'[u].family = f
          BY <2>1, <2>2, <2>5, <4>1, <5>1, <5>2 DEF OldFamilies
        <5>3. CASE \E d \in Callers : OldCall(d)' /\ call'[d].family = f
          BY <2>3, <5>1, <5>3 DEF OldFamilies
        <5> QED
          BY <5>2, <5>3 DEF OldFamilies
      <4> QED
        BY <4>1
    <3>4. /\ Cardinality(OldLogins') \in Nat /\ Cardinality(OldLogins) \in Nat
          /\ Cardinality(OldLogins') + 1 <= Cardinality(OldLogins)
      BY <3>1, <3>2, OldFinite, CountLoss
    <3>5. /\ Cardinality(OldFamilies') \in Nat /\ Cardinality(OldFamilies) \in Nat
          /\ Cardinality(OldFamilies') <= Cardinality(OldFamilies) + 1
      BY <3>3, OldFinite, CountGain
    <3> QED
      BY <2>1, <3>4, <3>5, OldFinite DEF ResetHolds
  <2> QED
    BY <2>4, <2>5
<1>6. ASSUME NEW c \in Callers, RefreshRead(c) PROVE ResetHolds'
  <2>1. PICK t \in Stored, pc \in {"look", "burn", "expire", "rotate"} :
          /\ OnlyCall(c)
          /\ call'[c] = [pc |-> pc, on |-> t, family |-> token[t].family,
                         epoch |-> token[t].epoch]
          /\ UNCHANGED <<token, epoch, outlived>>
    BY <1>6, ReadEffect
  <2>2. call'[c].family = token[t].family /\ call'[c].epoch = token[t].epoch
    BY <2>1
  <2>3. t \in TokenIds /\ token[t] # None /\ token[t].family # None
    BY <1>0 DEF Stored, Present, TokenRow
  <2>4. \A u \in TokenIds : OldRow(u)' => OldRow(u) /\ token'[u].family = token[u].family
    BY <2>1 DEF OldRow
  <2>5. \A d \in Callers : OldCall(d)' =>
           \/ OldCall(d) /\ call'[d].family = call[d].family
           \/ /\ call'[d].family # None
              /\ \E u \in TokenIds : OldRow(u) /\ call'[d].family = token[u].family
    BY <2>1, <2>2, <2>3 DEF OldCall, OldRow, OnlyCall
  <2>6. OldFamilies' \subseteq OldFamilies /\ OldLogins' \subseteq OldLogins
    BY <2>4, <2>5, OldOnes
  <2> QED
    BY <2>1, <2>6, ResetStays
<1>7. ASSUME NEW c \in Callers, RefreshRevoke(c) PROVE ResetHolds'
  <2> DEFINE t == call[c].on
  <2>1. /\ t \in TokenIds /\ OnlyCall(c) /\ UNCHANGED <<epoch, outlived>>
        /\ \A u \in TokenIds : u # t => token'[u] = token[u]
        /\ token'[t] # None =>
              /\ token[t] # None /\ token'[t].family = token[t].family
              /\ token'[t].epoch = token[t].epoch
        /\ \/ /\ call[c].pc = "rotate" /\ call'[c].pc = "look" /\ token[t] # None
              /\ call'[c].family = call[c].family /\ call'[c].epoch = call[c].epoch
           \/ call'[c] = NoCall
    BY <1>7, RevokeEffect
  <2>2. \A u \in TokenIds : OldRow(u)' => OldRow(u) /\ token'[u].family = token[u].family
    BY <2>1 DEF OldRow
  <2>3. call[c].pc = "rotate" /\ token[t] # None =>
           /\ token[t].family = call[c].family /\ token[t].epoch = call[c].epoch
           /\ call[c].family # None
    BY DEF TokensInv, CallsFit, CallFits
  <2> HIDE DEF t
  <2>4. \A d \in Callers : OldCall(d)' =>
           \/ OldCall(d) /\ call'[d].family = call[d].family
           \/ /\ call'[d].family # None
              /\ \E u \in TokenIds : OldRow(u) /\ call'[d].family = token[u].family
    BY <2>1, <2>3, NoCallFits DEF OldCall, OldRow, OnlyCall
  <2>5. OldFamilies' \subseteq OldFamilies /\ OldLogins' \subseteq OldLogins
    BY <2>2, <2>4, OldOnes
  <2> QED
    BY <2>1, <2>5, ResetStays
<1>8. ASSUME NEW c \in Callers, RefreshLook(c) PROVE ResetHolds'
  <2>1. /\ call[c].pc = "look" /\ OnlyCall(c)
        /\ \/ call'[c].family = call[c].family /\ call'[c].epoch = call[c].epoch
           \/ call'[c] = NoCall
        /\ UNCHANGED <<token, epoch, outlived>>
    BY <1>8, LookEffect
  <2>2. \A u \in TokenIds : OldRow(u)' => OldRow(u) /\ token'[u].family = token[u].family
    BY <2>1 DEF OldRow
  <2>3. \A d \in Callers : OldCall(d)' => OldCall(d) /\ call'[d].family = call[d].family
    BY <2>1, NoCallFits DEF OldCall, OnlyCall
  <2>4. OldFamilies' \subseteq OldFamilies /\ OldLogins' \subseteq OldLogins
    BY <2>2, <2>3, OldOnes
  <2> QED
    BY <2>1, <2>4, ResetStays
<1>9. ASSUME NEW c \in Callers, RefreshBurn(c) PROVE ResetHolds'
  <2> DEFINE g == call[c].family
  <2>1. /\ token' = [t \in TokenIds |-> IF t \in LiveIn(g) THEN Revoked(t) ELSE token[t]]
        /\ call' = [call EXCEPT ![c] = NoCall] /\ epoch' = epoch /\ outlived' = outlived
    BY <1>9 DEF RefreshBurn, Over
  <2>2. ASSUME NEW t \in LiveIn(g)
        PROVE  token[t] # None /\ Revoked(t).family = token[t].family
               /\ Revoked(t).epoch = token[t].epoch
    <3>1. token[t] \in TokenRow /\ token[t] # None
      BY <1>0 DEF LiveIn, Stored, Present
    <3> QED
      BY <3>1 DEF Revoked, TokenRow
  <2> HIDE DEF g
  <2>3. \A t \in TokenIds : token'[t] = IF t \in LiveIn(g) THEN Revoked(t) ELSE token[t]
    BY <2>1
  <2>4. \A u \in TokenIds : OldRow(u)' => OldRow(u) /\ token'[u].family = token[u].family
    BY <2>1, <2>2, <2>3 DEF OldRow
  <2>5. OnlyCall(c) /\ call'[c] = NoCall
    BY <1>0, <2>1, OverFits
  <2>6. \A d \in Callers : OldCall(d)' => OldCall(d) /\ call'[d].family = call[d].family
    BY <2>1, <2>5, NoCallFits DEF OldCall, OnlyCall
  <2>7. OldFamilies' \subseteq OldFamilies /\ OldLogins' \subseteq OldLogins
    BY <2>4, <2>6, OldOnes
  <2> QED
    BY <2>1, <2>7, ResetStays
<1>10. ASSUME NEW c \in Callers, CallDies(c) PROVE ResetHolds'
  <2>1. /\ call' = [call EXCEPT ![c] = NoCall] /\ UNCHANGED <<token, epoch, outlived>>
    BY <1>10 DEF CallDies, Over
  <2>2. OnlyCall(c) /\ call'[c] = NoCall
    BY <1>0, <2>1, OverFits
  <2>3. \A u \in TokenIds : OldRow(u)' => OldRow(u) /\ token'[u].family = token[u].family
    BY <2>1 DEF OldRow
  <2>4. \A d \in Callers : OldCall(d)' => OldCall(d) /\ call'[d].family = call[d].family
    BY <2>1, <2>2, NoCallFits DEF OldCall, OnlyCall
  <2>5. OldFamilies' \subseteq OldFamilies /\ OldLogins' \subseteq OldLogins
    BY <2>3, <2>4, OldOnes
  <2> QED
    BY <2>1, <2>5, ResetStays
<1> QED
  BY <1>1, <1>2, <1>3, <1>4, <1>5, <1>6, <1>7, <1>8, <1>9, <1>10 DEF TokensNext

LEMMA ResetSuffices == TokensInv /\ ResetHolds => ResetEndsTokens
<1> SUFFICES ASSUME TokensInv, ResetHolds PROVE ResetEndsTokens
  OBVIOUS
<1> DEFINE K == {token[t].family : t \in {s \in Stored : token[s].epoch < epoch}}
<1>1. K \subseteq OldFamilies
  <2>1. ASSUME NEW t \in Stored, token[t].epoch < epoch PROVE token[t].family \in OldFamilies
    <3>1. t \in TokenIds /\ OldRow(t) /\ token[t].family \in TokenIds
      BY <2>1 DEF Stored, Present, OldRow, TokensInv, TokensType, TokenRow
    <3> QED
      BY <3>1 DEF OldFamilies
  <2> QED
    BY <2>1
<1> HIDE DEF K
<1>2. /\ Cardinality(K) \in Nat /\ Cardinality(K) <= Cardinality(OldFamilies)
      /\ Cardinality(OldFamilies) \in Nat
  BY <1>1, OldFinite, CountPart
<1>3. Cardinality(K) <= outlived
  BY <1>2, OldFinite DEF ResetHolds
<1> QED
  BY <1>3 DEF K, ResetEndsTokens

\* A password reset ends every family of tokens begun with an earlier
\* password, but for one per call that was past asking (resetPassword).
THEOREM ResetsEndTokens == TokensSpec => []ResetEndsTokens
<1>1. TokensInit => ResetHolds
  <2> SUFFICES ASSUME TokensInit PROVE ResetHolds
    OBVIOUS
  <2>1. \A c \in Callers : ~OldCall(c)
    BY NoCallFits DEF TokensInit, OldCall
  <2>2. \A t \in TokenIds : ~OldRow(t)
    BY DEF TokensInit, OldRow
  <2>3. OldFamilies = {} /\ OldLogins = {} /\ outlived = 0
    BY <2>1, <2>2 DEF OldFamilies, OldLogins, TokensInit
  <2> QED
    BY <2>3, FS_EmptySet DEF ResetHolds
<1> QED
  BY <1>1, TokensAlways, NextResetHolds, ResetSuffices, PTL DEF TokensSpec

-----------------------------------------------------------------------------
(* The lockout *)

AttemptRow == [at : Nat, ok : BOOLEAN]

Busy == {c \in Entrants : trying[c] # None}

LockoutType ==
    /\ lockClock \in Nat /\ recorded \in Nat
    /\ attempt \in [AttemptIds -> AttemptRow \cup {None}]
    /\ trying \in [Entrants -> Outcome \cup {None}]

\* Inductive: the history is in the order of time, and the failures since the last
\* success, with the attempts that have passed the lockout and not recorded yet,
\* are at most the limit and all callers but one.
LockoutInv ==
    /\ LockoutType
    /\ \A i \in AttemptIds : i > recorded => attempt[i] = None
    /\ \A i \in Present(attempt) : attempt[i].at <= lockClock
    /\ \A i, j \in Present(attempt) : i < j => attempt[i].at <= attempt[j].at
    /\ Cardinality(Since) + Cardinality(Busy) <= MaxFailed + Cardinality(Entrants) - 1

LEMMA LockoutNumbers ==
    /\ MaxFailed \in Nat /\ MaxFailed >= 1 /\ LockoutTime \in Nat /\ LockoutTime >= 1
    /\ MaxAttempts \in Nat /\ IsFiniteSet(Entrants) /\ Cardinality(Entrants) \in Nat
BY LockoutAssumption, FS_CardinalityType

LEMMA LockoutSets ==
    ASSUME LockoutType
    PROVE  /\ Present(attempt) \subseteq AttemptIds /\ AttemptIds \subseteq Int
           /\ \A i \in Present(attempt) : attempt[i] \in AttemptRow
           /\ Window \subseteq Present(attempt) /\ Since \subseteq Window
           /\ IsFiniteSet(Window) /\ IsFiniteSet(Since) /\ IsFiniteSet(Busy)
           /\ Cardinality(Window) \in Nat /\ Cardinality(Since) \in Nat /\ Cardinality(Busy) \in Nat
           /\ Cardinality(Since) <= Cardinality(Window)
           /\ Cardinality(Busy) <= Cardinality(Entrants)
<1>1. /\ Present(attempt) \subseteq AttemptIds /\ AttemptIds \subseteq Int
      /\ \A i \in Present(attempt) : attempt[i] \in AttemptRow
      /\ Window \subseteq Present(attempt) /\ Since \subseteq Window /\ Busy \subseteq Entrants
  BY DEF LockoutType, Present, Window, Since, Busy, AttemptIds
<1>2. IsFiniteSet(AttemptIds)
  BY LockoutNumbers, FS_Interval DEF AttemptIds
<1>3. IsFiniteSet(Window) /\ IsFiniteSet(Since) /\ Cardinality(Since) <= Cardinality(Window)
  BY <1>1, <1>2, FS_Subset
<1>4. IsFiniteSet(Busy) /\ Cardinality(Busy) <= Cardinality(Entrants)
  BY <1>1, LockoutNumbers, FS_Subset
<1> QED
  BY <1>1, <1>3, <1>4, FS_CardinalityType

\* The latest of the window have all failed exactly if enough have since the last
\* success.
LEMMA LatestFail ==
    ASSUME LockoutType
    PROVE  Cardinality(LatestOf(Window, MaxFailed)) >= MaxFailed
             /\ AllFailed(LatestOf(Window, MaxFailed))
           <=> Cardinality(Since) >= MaxFailed
<1> DEFINE After(i) == {j \in Window : j > i}
           T == LatestOf(Window, MaxFailed)
<1>1. /\ IsFiniteSet(Window) /\ Window \subseteq Int /\ Since \subseteq Window
      /\ Cardinality(Window) \in Nat /\ Cardinality(Since) \in Nat
      /\ Cardinality(Since) <= Cardinality(Window)
      /\ IsFiniteSet(Since) /\ MaxFailed \in Nat
  BY LockoutSets, LockoutNumbers
<1>2. T = {i \in Window : Cardinality(After(i)) < MaxFailed} /\ T \subseteq Window
  BY DEF LatestOf
<1>3. ASSUME NEW i \in Window
      PROVE  IsFiniteSet(After(i)) /\ Cardinality(After(i)) \in Nat
  BY <1>1, FS_Subset, FS_CardinalityType
<1>4. ASSUME Cardinality(T) >= MaxFailed, AllFailed(T) PROVE Cardinality(Since) >= MaxFailed
  <2>1. ASSUME NEW i \in T, NEW j \in Window, j >= i PROVE ~attempt[j].ok
    <3>1. After(j) \subseteq After(i)
      <4>1. \A k \in Window : k \in Int
        BY <1>1
      <4> QED
        BY <1>2, <2>1, <4>1
    <3>2. Cardinality(After(j)) <= Cardinality(After(i))
      BY <1>2, <1>3, <3>1, FS_Subset
    <3>3. j \in T
      <4>1. PICK a \in Nat, b \in Nat : a = Cardinality(After(j)) /\ b = Cardinality(After(i))
        BY <1>2, <1>3
      <4>2. b < MaxFailed /\ a <= b
        BY <1>2, <3>2, <4>1
      <4>3. a < MaxFailed
        BY <1>1, <4>1, <4>2
      <4> QED
        BY <1>2, <4>1, <4>3
    <3> QED
      BY <1>4, <3>3 DEF AllFailed
  <2>2. T \subseteq Since
    BY <1>2, <2>1 DEF Since
  <2>3. Cardinality(T) \in Nat /\ Cardinality(T) <= Cardinality(Since)
    BY <1>1, <2>2, CountPart
  <2> QED
    BY <1>1, <1>4, <2>3
<1>5. ASSUME Cardinality(Since) >= MaxFailed PROVE Cardinality(T) >= MaxFailed /\ AllFailed(T)
  <2>1. Cardinality(T) = MaxFailed
    <3>1. MaxFailed <= Cardinality(Window)
      BY <1>1, <1>5
    <3> QED
      BY <1>1, <1>2, <3>1, CountLatest
  <2>2. ASSUME NEW i \in T, attempt[i].ok PROVE FALSE
    <3>1. Since \subseteq After(i)
      <4> SUFFICES ASSUME NEW s \in Since PROVE s > i /\ s \in Window
        OBVIOUS
      <4>1. s \in Window /\ s \in Int /\ i \in Window /\ i \in Int
        BY <1>1, <1>2
      <4>2. ~(i >= s)
        BY <2>2, <4>1 DEF Since
      <4> QED
        BY <4>1, <4>2
    <3>2. Cardinality(Since) <= Cardinality(After(i))
      BY <1>2, <1>3, <3>1, FS_Subset
    <3>3. PICK a \in Nat, b \in Nat : a = Cardinality(Since) /\ b = Cardinality(After(i))
      BY <1>1, <1>2, <1>3
    <3>4. b < MaxFailed /\ a <= b /\ a >= MaxFailed
      BY <1>2, <1>5, <3>2, <3>3
    <3> QED
      BY <1>1, <3>3, <3>4
  <2> QED
    BY <1>1, <2>1, <2>2 DEF AllFailed
<1> QED
  BY <1>4, <1>5

LEMMA InitLockoutInv == LockoutInit => LockoutInv
<1> SUFFICES ASSUME LockoutInit PROVE LockoutInv
  OBVIOUS
<1>1. LockoutType /\ Present(attempt) = {}
  BY DEF LockoutInit, LockoutType, Present
<1>2. Since = {} /\ Busy = {}
  BY <1>1 DEF LockoutInit, Since, Window, Busy
<1>3. Cardinality(Since) = 0 /\ Cardinality(Busy) = 0
  BY <1>2, FS_EmptySet
<1> QED
  BY <1>1, <1>3, LockoutNumbers DEF LockoutInv, LockoutInit

LEMMA NextLockoutInv == LockoutInv /\ [LockoutNext]_lockoutVars => LockoutInv'
<1> SUFFICES ASSUME LockoutInv, [LockoutNext]_lockoutVars PROVE LockoutInv'
  OBVIOUS
<1>0. /\ LockoutType
      /\ Present(attempt) \subseteq AttemptIds /\ AttemptIds \subseteq Int
      /\ \A i \in Present(attempt) : attempt[i] \in AttemptRow
      /\ Window \subseteq Present(attempt) /\ Since \subseteq Window
      /\ IsFiniteSet(Since) /\ IsFiniteSet(Busy)
      /\ Cardinality(Since) \in Nat /\ Cardinality(Busy) \in Nat
      /\ Cardinality(Busy) <= Cardinality(Entrants)
      /\ Cardinality(Since) + Cardinality(Busy) <= MaxFailed + Cardinality(Entrants) - 1
  BY LockoutSets DEF LockoutInv
<1>1. CASE LockTick
  <2>1. lockClock' = lockClock + 1 /\ UNCHANGED <<attempt, recorded, trying>>
    BY <1>1 DEF LockTick
  <2>2. Window' \subseteq Window
    BY <1>0, <2>1, LockoutNumbers DEF Window, LockoutType, AttemptRow
  <2>3. ASSUME NEW i \in Since' PROVE i \in Since
    <3>1. i \in Window' /\ i \in Window
      BY <2>2 DEF Since
    <3>2. ASSUME NEW j \in Window, j >= i PROVE ~attempt[j].ok
      <4>1. attempt[i].at <= attempt[j].at /\ attempt[i].at \in Nat /\ attempt[j].at \in Nat
        <5>1. /\ i \in Present(attempt) /\ j \in Present(attempt) /\ i \in Int /\ j \in Int
              /\ attempt[i].at \in Nat /\ attempt[j].at \in Nat
          BY <1>0, <3>1, <3>2 DEF AttemptRow
        <5>2. i = j \/ i < j
          BY <3>2, <5>1
        <5> QED
          BY <5>1, <5>2 DEF LockoutInv
      <4>2. j \in Window'
        BY <1>0, <2>1, <3>1, <3>2, <4>1, LockoutNumbers DEF Window, LockoutType
      <4> QED
        BY <2>1, <2>3, <3>2, <4>2 DEF Since
    <3> QED
      BY <3>1, <3>2 DEF Since
  <2>4. Cardinality(Since') \in Nat /\ Cardinality(Since') <= Cardinality(Since)
    BY <1>0, <2>3, CountPart
  <2>5. Busy' = Busy
    BY <2>1 DEF Busy
  <2>6. LockoutType'
    BY <1>0, <2>1 DEF LockoutType
  <2>7. \A i \in Present(attempt)' : attempt'[i].at <= lockClock'
    BY <1>0, <2>1 DEF LockoutInv, LockoutType, AttemptRow
  <2> QED
    BY <1>0, <2>1, <2>4, <2>5, <2>6, <2>7, LockoutNumbers DEF LockoutInv
<1>2. CASE UnlockAccount
  <2>1. /\ attempt' = [i \in AttemptIds |->
                         IF i \in Window /\ ~attempt[i].ok THEN None ELSE attempt[i]]
        /\ UNCHANGED <<lockClock, recorded, trying>>
    BY <1>2 DEF UnlockAccount
  <2>2. /\ Present(attempt)' \subseteq Present(attempt)
        /\ \A i \in Present(attempt)' : attempt'[i] = attempt[i]
    BY <1>0, <2>1 DEF Present, LockoutType
  <2>3. Since' = {}
    <3> SUFFICES ASSUME NEW i \in Since' PROVE FALSE
      OBVIOUS
    <3>1. i \in Window' /\ i \in Present(attempt)' /\ i \in Int
      BY <1>0, <2>2 DEF Since, Window
    <3>2. ~attempt'[i].ok
      BY <3>1 DEF Since
    <3>3. i \in Window /\ ~attempt[i].ok /\ i \in AttemptIds
      BY <1>0, <2>1, <2>2, <3>1, <3>2 DEF Window
    <3>4. attempt'[i] = None
      BY <2>1, <3>3
    <3> QED
      BY <3>1, <3>4 DEF Present
  <2>4. Cardinality(Since') = 0 /\ Busy' = Busy
    BY <2>1, <2>3, FS_EmptySet DEF Busy
  <2>5. LockoutType' /\ \A i \in AttemptIds : i > recorded' => attempt'[i] = None
    BY <1>0, <2>1 DEF LockoutType, LockoutInv
  <2> QED
    BY <1>0, <2>1, <2>2, <2>4, <2>5, LockoutNumbers DEF LockoutInv
<1>3. ASSUME NEW c \in Entrants, Try(c) PROVE LockoutInv'
  <2>1. PICK ok \in BOOLEAN : trying' = [trying EXCEPT ![c] = [ok |-> ok]]
    BY <1>3 DEF Try
  <2>2. ~Locked /\ UNCHANGED <<lockClock, attempt, recorded>>
    BY <1>3 DEF Try
  <2>3. Cardinality(Since) < MaxFailed
    BY <1>0, <2>2, LatestFail, LockoutNumbers DEF Locked
  <2>4. LockoutType'
    BY <1>0, <2>1, <2>2 DEF LockoutType, Outcome
  <2>5. Busy' \subseteq Entrants
    BY DEF Busy
  <2>6. Cardinality(Busy') \in Nat /\ Cardinality(Busy') <= Cardinality(Entrants)
    BY <2>5, CountPart, LockoutNumbers
  <2>7. Since' = Since
    BY <2>2 DEF Since, Window
  <2> QED
    BY <1>0, <2>2, <2>3, <2>4, <2>6, <2>7, LockoutNumbers DEF LockoutInv
<1>4. ASSUME NEW c \in Entrants, Record(c) PROVE LockoutInv'
  <2>1. trying[c] # None /\ trying' = [trying EXCEPT ![c] = None] /\ lockClock' = lockClock
    BY <1>4 DEF Record
  <2>2. Busy' \subseteq Busy \ {c} /\ c \in Busy
    BY <1>0, <2>1 DEF Busy, LockoutType
  <2>3. Cardinality(Busy') \in Nat /\ Cardinality(Busy') + 1 <= Cardinality(Busy)
    BY <1>0, <2>2, CountLoss
  <2>4. trying' \in [Entrants -> Outcome \cup {None}]
    BY <1>0, <2>1 DEF LockoutType
  <2>5. CASE UNCHANGED <<attempt, recorded>>
    <3>1. Since' = Since
      BY <2>1, <2>5 DEF Since, Window
    <3> QED
      BY <1>0, <2>1, <2>3, <2>4, <2>5, <3>1, LockoutNumbers DEF LockoutInv, LockoutType
  <2>6. CASE /\ recorded < MaxAttempts
             /\ attempt' = [attempt EXCEPT ![recorded + 1] = [at |-> lockClock, ok |-> trying[c].ok]]
             /\ recorded' = recorded + 1
    <3>1. PICK n, row : n = recorded + 1 /\ row = [at |-> lockClock, ok |-> trying[c].ok]
      OBVIOUS
    <3>2. n \in AttemptIds
      BY <1>0, <2>6, <3>1, LockoutNumbers DEF LockoutType, AttemptIds
    <3>3. row \in AttemptRow /\ row # None /\ row.at = lockClock
      <4>1. trying[c].ok \in BOOLEAN
        BY <1>0, <2>1 DEF LockoutType, Outcome
      <4> QED
        BY <1>0, <3>1, <4>1, AttemptRowAssumption DEF LockoutType, AttemptRow
    <3>4. /\ attempt' \in [AttemptIds -> AttemptRow \cup {None}]
          /\ attempt'[n] = row
          /\ \A i \in AttemptIds \ {n} : attempt'[i] = attempt[i]
      BY <1>0, <2>6, <3>1, <3>2, <3>3 DEF LockoutType
    <3>5. /\ Present(attempt') = Present(attempt) \cup {n}
          /\ \A i \in Present(attempt) : i \in AttemptIds /\ i < n /\ attempt'[i] = attempt[i]
                                         /\ attempt[i].at \in Nat
      <4>1. ASSUME NEW i \in Present(attempt) PROVE i \in AttemptIds /\ i < n
        <5>1. i \in AttemptIds /\ i \in Int /\ attempt[i] # None
          BY <1>0 DEF Present
        <5>2. ~(i > recorded)
          BY <5>1 DEF LockoutInv
        <5> QED
          BY <1>0, <3>1, <5>1, <5>2 DEF LockoutType
      <4>2. n \in Int
        BY <1>0, <3>2
      <4> QED
        <5>1. DOMAIN attempt = AttemptIds /\ DOMAIN attempt' = AttemptIds
          BY <1>0, <3>4 DEF LockoutType
        <5>2. ASSUME NEW i \in Present(attempt)
              PROVE  attempt'[i] = attempt[i] /\ attempt[i].at \in Nat
          <6>1. i \in AttemptIds /\ i \in Int /\ i < n /\ attempt[i] \in AttemptRow
            BY <1>0, <4>1
          <6>2. i # n
            BY <4>2, <6>1
          <6> QED
            BY <3>4, <6>1, <6>2 DEF AttemptRow
        <5>3. \A i \in AttemptIds : attempt'[i] # None <=> i = n \/ attempt[i] # None
          BY <3>2, <3>3, <3>4
        <5>4. Present(attempt') = Present(attempt) \cup {n}
          BY <3>2, <5>1, <5>3 DEF Present
        <5> QED
          BY <4>1, <5>2, <5>4
    <3>6. n \in Int /\ lockClock \in Nat /\ recorded' = n
      BY <1>0, <2>6, <3>1, <3>2 DEF LockoutType
    <3>7. Since' \subseteq Since \cup {n}
      <4>1. Window' = Window \cup {n}
        BY <2>1, <3>3, <3>4, <3>5, <3>6, LockoutNumbers DEF Window
      <4>2. ASSUME NEW i \in Since', i # n PROVE i \in Since
        <5>1. i \in Window
          BY <4>1, <4>2 DEF Since
        <5>2. \A j \in Window : attempt'[j] = attempt[j]
          BY <1>0, <3>5
        <5> QED
          BY <4>1, <4>2, <5>1, <5>2 DEF Since
      <4> QED
        BY <4>2
    <3>8. Cardinality(Since') \in Nat /\ Cardinality(Since') <= Cardinality(Since) + 1
      BY <1>0, <3>7, CountGain
    <3>9. \A i \in AttemptIds : i > recorded' => attempt'[i] = None
      <4> SUFFICES ASSUME NEW i \in AttemptIds, i > recorded' PROVE attempt'[i] = None
        OBVIOUS
      <4>1. i \in Int /\ recorded \in Nat
        BY <1>0 DEF LockoutType
      <4>2. i > recorded /\ i # n
        BY <2>6, <3>1, <4>1
      <4> QED
        BY <3>4, <4>2 DEF LockoutInv
    <3>10. \A i \in Present(attempt') : attempt'[i].at <= lockClock'
      BY <2>1, <3>3, <3>4, <3>5, <3>6 DEF LockoutInv
    <3>11. \A i, j \in Present(attempt') : i < j => attempt'[i].at <= attempt'[j].at
      <4> SUFFICES ASSUME NEW i \in Present(attempt'), NEW j \in Present(attempt'), i < j
                   PROVE  attempt'[i].at <= attempt'[j].at
        OBVIOUS
      <4>1. i \in Present(attempt)
        <5>1. j = n \/ (j \in Present(attempt) /\ j < n)
          BY <3>5
        <5>2. i = n \/ i \in Present(attempt)
          BY <3>5
        <5>3. j \in Int
          BY <1>0, <3>6, <5>1
        <5> QED
          BY <3>6, <5>1, <5>2, <5>3
      <4>2. CASE j = n
        BY <3>3, <3>4, <3>5, <4>1, <4>2 DEF LockoutInv
      <4>3. CASE j \in Present(attempt)
        BY <3>5, <4>1, <4>3 DEF LockoutInv
      <4> QED
        BY <3>5, <4>2, <4>3
    <3>12. LockoutType'
      BY <1>0, <2>1, <2>4, <3>4, <3>6, <3>2 DEF LockoutType, AttemptIds
    <3> QED
      BY <1>0, <2>3, <3>8, <3>9, <3>10, <3>11, <3>12, LockoutNumbers DEF LockoutInv
  <2> QED
    BY <1>4, <2>5, <2>6 DEF Record
<1>5. CASE UNCHANGED lockoutVars
  BY <1>5 DEF lockoutVars, LockoutInv, LockoutType, Since, Window, Busy
<1> QED
  BY <1>1, <1>2, <1>3, <1>4, <1>5 DEF LockoutNext

LEMMA LockoutAlways == LockoutSpec => []LockoutInv
BY InitLockoutInv, NextLockoutInv, PTL DEF LockoutSpec

\* However many attempts overlap, the failures of one window since its last success
\* exceed the limit by at most the other callers, and an attempt is refused, and the
\* account listed as locked, exactly if they reach it (auth.service.ts:
\* checkAccountLocked; customer-ops.service.ts: unlockAccount, getLockedWorkers).
THEOREM LockoutsHold == LockoutSpec => []FailuresBounded
<1>1. LockoutInv => FailuresBounded
  <2> SUFFICES ASSUME LockoutInv PROVE FailuresBounded
    OBVIOUS
  <2>1. /\ Cardinality(Since) \in Nat /\ Cardinality(Busy) \in Nat
        /\ Cardinality(Since) + Cardinality(Busy) <= MaxFailed + Cardinality(Entrants) - 1
    BY LockoutSets DEF LockoutInv
  <2>2. Cardinality(Since) <= MaxFailed + Cardinality(Entrants) - 1
    BY <2>1, LockoutNumbers
  <2>3. /\ Locked <=> Cardinality(Since) >= MaxFailed
        /\ ListedAsLocked <=> Cardinality(Since) >= MaxFailed
    BY LatestFail DEF Locked, ListedAsLocked, LockoutInv
  <2> QED
    BY <2>2, <2>3 DEF FailuresBounded
<1> QED
  BY <1>1, LockoutAlways, PTL
=============================================================================
