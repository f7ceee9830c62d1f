-------------------------------- MODULE Codes --------------------------------
(* Verification codes of one e-mail address (src/auth/auth.service.ts:       *)
(* sendVerificationCode, verifyEmail, and the consumption of a code by a     *)
(* password reset).  A request first clears the address and then stores its  *)
(* own code and mails it; a consumption reads the newest code and later      *)
(* deletes all codes of the address.                                         *)
EXTENDS Rows, Integers

CONSTANTS
    Askers,      \* concurrent calls for the address
    MaxCodes,    \* bound: codes ever made
    MaxCodeTime, \* bound on the clock
    CodeLife     \* ten minutes

ASSUME CodesAssumption == {MaxCodes, MaxCodeTime, CodeLife} \subseteq Nat

VARIABLES
    codeClock,
    code,       \* stored codes, in the order of createdAt: None or the expiry
    made,       \* codes made so far
    asker,      \* what each call is doing, and with which code
    delivered,  \* codes whose mail was accepted
    cleared,    \* codes removed by a later request, a consumption or expiry
    used        \* codes that were accepted

codesVars == <<codeClock, code, made, asker, delivered, cleared, used>>

CodeIds == 1..MaxCodes

Kept == Present(code)

NoAsk == [pc |-> "idle", code |-> None]

Ask(a, pc, c) == asker' = [asker EXCEPT ![a] = [pc |-> pc, code |-> c]]

Asked(a) == asker' = [asker EXCEPT ![a] = NoAsk]

\* deleteMany({ where: { email } })
ClearAddress ==
    /\ code' = [c \in CodeIds |-> None]
    /\ cleared' = cleared \cup Kept

SendClear(a) ==
    /\ asker[a] = NoAsk
    /\ ClearAddress
    /\ Ask(a, "store", None)
    /\ UNCHANGED <<codeClock, made, delivered, used>>

SendStore(a) ==
    /\ asker[a].pc = "store"
    /\ made < MaxCodes
    /\ made' = made + 1
    /\ code' = [code EXCEPT ![made + 1] = codeClock + CodeLife]
    /\ Ask(a, "mail", made + 1)
    /\ UNCHANGED <<codeClock, delivered, cleared, used>>

\* Mutant: a request whose mail failed clears the address.
UnsentAll(c) == CodeIds

Unsent(c) == {c}

\* The mail is accepted, or the call removes its own code again; that may fail
\* as well, and is swallowed.
SendMail(a) ==
    /\ asker[a].pc = "mail"
    /\ LET c == asker[a].code IN
       \/ delivered' = delivered \cup {c} /\ UNCHANGED code
       \/ /\ code' = [d \in CodeIds |-> IF d \in Unsent(c) THEN None ELSE code[d]]
          /\ UNCHANGED delivered
       \/ UNCHANGED <<code, delivered>>
    /\ Asked(a)
    /\ UNCHANGED <<codeClock, made, cleared, used>>

\* verifyEmail, consumeVerificationCode: only the newest code counts.  A wrong
\* code changes nothing.
ConsumeRead(a) ==
    /\ asker[a] = NoAsk
    /\ \E c \in Kept :
        /\ \A d \in Kept : d <= c
        /\ \/ codeClock > code[c] /\ Ask(a, "drop", c)
           \/ codeClock <= code[c] /\ c \in delivered /\ Ask(a, "consume", c)
    /\ UNCHANGED <<codeClock, code, made, delivered, cleared, used>>

\* Mutant: an accepted code stays.
TakesKeeping == UNCHANGED <<code, cleared>>

Takes == ClearAddress

\* The address is cleared; then the caller goes on with the accepted code.
ConsumeClear(a) ==
    /\ asker[a].pc \in {"drop", "consume"}
    /\ Takes
    /\ used' = IF asker[a].pc = "consume" THEN used \cup {asker[a].code} ELSE used
    /\ Asked(a)
    /\ UNCHANGED <<codeClock, made, delivered>>

\* The retention purge.
PurgeCodes ==
    /\ \E c \in Kept : code[c] < codeClock
    /\ code' = [c \in CodeIds |-> IF c \in Kept /\ code[c] < codeClock THEN None ELSE code[c]]
    /\ cleared' = cleared \cup {c \in Kept : code[c] < codeClock}
    /\ UNCHANGED <<codeClock, made, asker, delivered, used>>

AskerDies(a) ==
    /\ asker[a] # NoAsk
    /\ Asked(a)
    /\ UNCHANGED <<codeClock, code, made, delivered, cleared, used>>

CodeTick ==
    /\ codeClock < MaxCodeTime
    /\ codeClock' = codeClock + 1
    /\ UNCHANGED <<code, made, asker, delivered, cleared, used>>

CodesInit ==
    /\ codeClock = 0
    /\ code = [c \in CodeIds |-> None]
    /\ made = 0
    /\ asker = [a \in Askers |-> NoAsk]
    /\ delivered = {}
    /\ cleared = {}
    /\ used = {}

CodesNext ==
    \/ CodeTick \/ PurgeCodes
    \/ \E a \in Askers :
        SendClear(a) \/ SendStore(a) \/ SendMail(a) \/ ConsumeRead(a) \/ ConsumeClear(a)
        \/ AskerDies(a)

CodesSpec == CodesInit /\ [][CodesNext]_codesVars

-----------------------------------------------------------------------------
(* Properties *)

\* "동시 재요청으로 발급된 다른 코드는 삭제하지 않는다": a code that reached its
\* reader stays until a later request, a consumption or its expiry clears the
\* address; the failed mail of another request never takes it away.
DeliveredCodeStands == \A c \in delivered \ cleared : code[c] # None

\* A code that was accepted is never found valid again: only calls that read it
\* before the first of them cleared the address are accepted with it.
CodeServesOnce ==
    [][\A a \in Askers :
        asker[a] = NoAsk /\ asker'[a].pc = "consume" => asker'[a].code \notin used]_codesVars
=============================================================================
