--------------------------- MODULE AccountsProofs ---------------------------
(***************************************************************************)
(* Proofs about verification codes, the accounts of a site, the mails of   *)
(* the daily jobs and the views of the operator, for any number of calls,  *)
(* codes, accounts, invites, centres, items and reports.                   *)
(***************************************************************************)
EXTENDS Codes, Roster, Notices, Console, Counting, WellFoundedInduction, SequenceTheorems

-----------------------------------------------------------------------------
(* Verification codes *)

AskRow == [pc : {"idle", "store", "mail", "drop", "consume"}, code : CodeIds \cup {None}]

CodesType ==
    /\ codeClock \in Nat
    /\ made \in 0..MaxCodes
    /\ code \in [CodeIds -> Nat \cup {None}]
    /\ asker \in [Askers -> AskRow]
    /\ delivered \subseteq 1..made /\ cleared \subseteq CodeIds /\ used \subseteq 1..made

\* Numbers above made have not been used.
CodesFresh == \A c \in CodeIds : c > made => code[c] = None

\* A request whose mail is under way has a code of its own, which nobody has
\* read yet and which has not gone but by being cleared.
Mails(a) == asker[a].pc = "mail"

MailFits(a) ==
    Mails(a) =>
        /\ asker[a].code \in 1..made /\ asker[a].code \notin delivered
        /\ code[asker[a].code] = None => asker[a].code \in cleared
        /\ \A b \in Askers : b # a /\ Mails(b) => asker[b].code # asker[a].code

TakesFit == \A a \in Askers : asker[a].pc = "consume" => asker[a].code \in 1..made

\* Inductive.
CodesInv ==
    /\ CodesType /\ CodesFresh /\ TakesFit
    /\ \A a \in Askers : MailFits(a)
    /\ DeliveredCodeStands
    /\ \A c \in used : code[c] = None

LEMMA CodeNumbers ==
    /\ MaxCodes \in Nat /\ CodeLife \in Nat /\ CodeIds \subseteq Nat /\ None \notin CodeIds
    /\ None \notin Nat
BY CodesAssumption, NullAssumption DEF CodeIds

LEMMA InitCodesInv == CodesInit => CodesInv
BY CodeNumbers DEF CodesInit, CodesInv, CodesType, AskRow, CodesFresh, TakesFit, MailFits, Mails,
   DeliveredCodeStands, NoAsk, CodeIds

\* One asker moves.
Moves(a) ==
    /\ asker' \in [Askers -> AskRow]
    /\ \A b \in Askers : b # a => asker'[b] = asker[b]

LEMMA AskMoves ==
    ASSUME CodesInv, NEW a \in Askers, NEW c \in CodeIds \cup {None},
           NEW pc \in {"idle", "store", "mail", "drop", "consume"}, Ask(a, pc, c)
    PROVE  Moves(a) /\ asker'[a].pc = pc /\ asker'[a].code = c
BY DEF CodesInv, CodesType, AskRow, Moves, Ask

LEMMA AskedMoves ==
    ASSUME CodesInv, NEW a \in Askers, Asked(a)
    PROVE  Moves(a) /\ asker'[a].pc = "idle"
BY DEF CodesInv, CodesType, AskRow, Moves, Asked, NoAsk

\* The address is cleared: what the invariant says of stored codes holds.
LEMMA Clears ==
    ASSUME CodesInv, NEW a \in Askers, Moves(a), asker'[a].pc \in {"idle", "store"},
           ClearAddress, UNCHANGED <<codeClock, made, delivered>>,
           used' \subseteq 1..made
    PROVE  CodesInv'
<1>0. /\ made \in 0..MaxCodes /\ made \in Nat /\ codeClock \in Nat
      /\ code \in [CodeIds -> Nat \cup {None}]
      /\ delivered \subseteq 1..made /\ cleared \subseteq CodeIds
  BY CodeNumbers DEF CodesInv, CodesType
<1>1. \A c \in 1..made : c \in CodeIds
  BY <1>0, CodeNumbers DEF CodeIds
<1>2. /\ code' \in [CodeIds -> Nat \cup {None}]
      /\ \A c \in CodeIds : code'[c] = None
      /\ cleared' \subseteq CodeIds /\ cleared \subseteq cleared'
      /\ \A c \in CodeIds : code[c] # None => c \in cleared'
  BY <1>0 DEF ClearAddress, Kept, Present
<1>3. CodesType' /\ CodesFresh'
  BY <1>0, <1>2 DEF CodesType, CodesFresh, Moves, AskRow
<1>4. TakesFit'
  BY DEF CodesInv, TakesFit, Moves
<1>5. ASSUME NEW b \in Askers PROVE MailFits(b)'
  <2>1. CASE b = a
    BY <2>1 DEF MailFits, Mails
  <2>2. CASE b # a
    <3>1. MailFits(b) /\ asker'[b] = asker[b]
      BY <2>2 DEF CodesInv, Moves
    <3>2. \A d \in Askers : Mails(d)' => Mails(d) /\ asker'[d] = asker[d]
      BY DEF Moves, Mails
    <3> QED
      BY <1>1, <1>2, <3>1, <3>2 DEF MailFits, Mails
  <2> QED
    BY <2>1, <2>2
<1>6. DeliveredCodeStands'
  BY <1>0, <1>1, <1>2 DEF CodesInv, DeliveredCodeStands
<1>7. \A c \in used' : code'[c] = None
  BY <1>1, <1>2
<1> QED
  BY <1>3, <1>4, <1>5, <1>6, <1>7 DEF CodesInv

LEMMA NextCodesInv == CodesInv /\ [CodesNext]_codesVars => CodesInv'
<1> SUFFICES ASSUME CodesInv, [CodesNext]_codesVars PROVE CodesInv'
  OBVIOUS
<1> USE CodeNumbers
<1>0. /\ codeClock \in Nat /\ made \in 0..MaxCodes /\ made \in Nat
      /\ code \in [CodeIds -> Nat \cup {None}]
      /\ asker \in [Askers -> AskRow]
      /\ delivered \subseteq 1..made /\ cleared \subseteq CodeIds /\ used \subseteq 1..made
  BY DEF CodesInv, CodesType
<1>1. CASE UNCHANGED codesVars
  BY <1>1 DEF CodesInv, CodesType, CodesFresh, TakesFit, MailFits, Mails,
     DeliveredCodeStands, codesVars
<1>2. CASE CodeTick
  <2>1. UNCHANGED <<code, made, asker, delivered, cleared, used>> /\ codeClock' \in Nat
    BY <1>0, <1>2 DEF CodeTick
  <2> QED
    BY <2>1 DEF CodesInv, CodesType, CodesFresh, TakesFit, MailFits, Mails, DeliveredCodeStands
<1>3. CASE PurgeCodes
  <2>1. UNCHANGED <<codeClock, made, asker, delivered, used>>
    BY <1>3 DEF PurgeCodes
  <2>2. code' \in [CodeIds -> Nat \cup {None}] /\ cleared' \subseteq CodeIds
    BY <1>0, <1>3 DEF PurgeCodes, Kept, Present
  <2>3. /\ \A c \in CodeIds : code[c] = None => code'[c] = None
        /\ \A c \in CodeIds : code'[c] = None => code[c] = None \/ c \in cleared'
        /\ cleared \subseteq cleared'
    BY <1>0, <1>3 DEF PurgeCodes, Kept, Present
  <2> QED
    BY <1>0, <2>1, <2>2, <2>3 DEF CodesInv, CodesType, CodesFresh, TakesFit, MailFits, Mails,
       DeliveredCodeStands, CodeIds
<1>4. ASSUME NEW a \in Askers, SendClear(a) PROVE CodesInv'
  <2>1. ClearAddress /\ Ask(a, "store", None) /\ UNCHANGED <<codeClock, made, delivered, used>>
    BY <1>4 DEF SendClear
  <2>2. Moves(a) /\ asker'[a].pc = "store"
    BY <2>1, AskMoves
  <2> QED
    BY <1>0, <2>1, <2>2, Clears
<1>5. ASSUME NEW a \in Askers, SendStore(a) PROVE CodesInv'
  <2> DEFINE n == made + 1
  <2>1. /\ n \in CodeIds /\ made' = n
        /\ code' = [code EXCEPT ![n] = codeClock + CodeLife]
        /\ UNCHANGED <<codeClock, delivered, cleared, used>>
    BY <1>0, <1>5 DEF SendStore, CodeIds
  <2>2. /\ asker' \in [Askers -> AskRow]
        /\ asker'[a].pc = "mail" /\ asker'[a].code = n
        /\ \A b \in Askers : b # a => asker'[b] = asker[b]
    <3>1. Ask(a, "mail", n)
      BY <1>5 DEF SendStore
    <3> HIDE DEF n
    <3> QED
      BY <2>1, <3>1, AskMoves DEF Moves
  <2>3. /\ code' \in [CodeIds -> Nat \cup {None}]
        /\ code'[n] # None
        /\ \A c \in CodeIds : c # n => code'[c] = code[c]
    BY <1>0, <2>1
  <2>4. 1..made \subseteq 1..n /\ n \notin 1..made /\ n \in 1..n /\ n \in 0..MaxCodes
    BY <1>0, <2>1 DEF CodeIds
  <2>5. \A c \in 1..made : c \in CodeIds
    BY <1>0 DEF CodeIds
  <2>6. CodesType'
    BY <1>0, <2>1, <2>2, <2>3, <2>4 DEF CodesType
  <2>7. CodesFresh'
    BY <1>0, <2>1, <2>3 DEF CodesInv, CodesFresh
  <2> HIDE DEF n
  <2>8. TakesFit'
    BY <2>1, <2>2, <2>4 DEF CodesInv, TakesFit
  <2>9. \A b \in Askers : MailFits(b)'
    BY <1>0, <2>1, <2>2, <2>3, <2>4, <2>5 DEF CodesInv, MailFits, Mails
  <2>10. DeliveredCodeStands' /\ \A c \in used' : code'[c] = None
    BY <1>0, <2>1, <2>3, <2>4, <2>5 DEF CodesInv, DeliveredCodeStands
  <2> QED
    BY <2>6, <2>7, <2>8, <2>9, <2>10 DEF CodesInv
<1>6. ASSUME NEW a \in Askers, SendMail(a) PROVE CodesInv'
  <2> DEFINE c == asker[a].code
  <2>1. /\ UNCHANGED <<codeClock, made, cleared, used>> /\ Mails(a)
        /\ \/ delivered' = delivered \cup {c} /\ code' = code
           \/ /\ code' = [d \in CodeIds |-> IF d = c THEN None ELSE code[d]]
              /\ delivered' = delivered
           \/ code' = code /\ delivered' = delivered
    BY <1>6 DEF SendMail, Mails, Unsent
  <2>2. /\ asker' \in [Askers -> AskRow]
        /\ asker'[a].pc = "idle"
        /\ \A b \in Askers : b # a => asker'[b] = asker[b]
    <3>1. Asked(a)
      BY <1>6 DEF SendMail
    <3> QED
      BY <3>1, AskedMoves DEF Moves
  <2>3. /\ c \in 1..made /\ c \notin delivered
        /\ code[c] = None => c \in cleared
        /\ \A b \in Askers : b # a /\ Mails(b) => asker[b].code # c
    BY <2>1 DEF CodesInv, MailFits
  <2>4. \A d \in 1..made : d \in CodeIds
    BY <1>0 DEF CodeIds
  <2> HIDE DEF c
  <2>5. /\ code' \in [CodeIds -> Nat \cup {None}]
        /\ \A d \in CodeIds : code[d] = None => code'[d] = None
        /\ \A d \in CodeIds : d # c => code'[d] = code[d]
    BY <1>0, <2>1
  <2>6. CodesType' /\ CodesFresh' /\ TakesFit'
    BY <1>0, <2>1, <2>2, <2>3, <2>5 DEF CodesInv, CodesType, CodesFresh, TakesFit
  <2>7. ASSUME NEW b \in Askers PROVE MailFits(b)'
    <3>1. CASE b = a
      BY <2>2, <3>1 DEF MailFits, Mails
    <3>2. CASE b # a
      <4>1. Mails(b)' <=> Mails(b)
        BY <2>2, <3>2 DEF Mails
      <4>2. Mails(b) => asker[b].code # c /\ asker[b].code \in 1..made
        BY <2>3, <3>2 DEF CodesInv, MailFits
      <4>3. MailFits(b)
        BY DEF CodesInv
      <4> QED
        BY <2>1, <2>2, <2>4, <2>5, <3>2, <4>1, <4>2, <4>3 DEF MailFits, Mails
    <3> QED
      BY <3>1, <3>2
  <2>8. DeliveredCodeStands'
    BY <1>0, <2>1, <2>3, <2>4, <2>5 DEF CodesInv, DeliveredCodeStands
  <2>9. \A d \in used' : code'[d] = None
    BY <1>0, <2>1, <2>4, <2>5 DEF CodesInv
  <2> QED
    BY <2>6, <2>7, <2>8, <2>9 DEF CodesInv
<1>7. ASSUME NEW a \in Askers, ConsumeRead(a) PROVE CodesInv'
  <2>1. PICK c \in Kept, pc \in {"drop", "consume"} : Ask(a, pc, c)
    BY <1>7 DEF ConsumeRead
  <2>2. UNCHANGED <<codeClock, code, made, delivered, cleared, used>>
    BY <1>7 DEF ConsumeRead
  <2>3. c \in CodeIds /\ code[c] # None
    BY <1>0 DEF Kept, Present
  <2>4. c \in 1..made
    BY <1>0, <2>3 DEF CodesInv, CodesFresh, CodeIds
  <2>5. /\ asker' \in [Askers -> AskRow]
        /\ asker'[a].pc # "mail" /\ asker'[a].code = c
        /\ \A b \in Askers : b # a => asker'[b] = asker[b]
    BY <2>1, <2>3, AskMoves DEF Moves
  <2> QED
    BY <2>2, <2>4, <2>5 DEF CodesInv, CodesType, CodesFresh, TakesFit, MailFits, Mails,
       DeliveredCodeStands
<1>8. ASSUME NEW a \in Askers, ConsumeClear(a) PROVE CodesInv'
  <2>1. /\ ClearAddress /\ Asked(a) /\ UNCHANGED <<codeClock, made, delivered>>
        /\ used' = IF asker[a].pc = "consume" THEN used \cup {asker[a].code} ELSE used
    BY <1>8 DEF ConsumeClear, Takes
  <2>2. Moves(a) /\ asker'[a].pc = "idle"
    BY <2>1, AskedMoves
  <2>3. used' \subseteq 1..made
    BY <1>0, <2>1 DEF CodesInv, TakesFit
  <2> QED
    BY <1>0, <2>1, <2>2, <2>3, Clears
<1>9. ASSUME NEW a \in Askers, AskerDies(a) PROVE CodesInv'
  <2>1. UNCHANGED <<codeClock, code, made, delivered, cleared, used>>
    BY <1>9 DEF AskerDies
  <2>2. /\ asker' \in [Askers -> AskRow]
        /\ asker'[a].pc = "idle"
        /\ \A b \in Askers : b # a => asker'[b] = asker[b]
    <3>1. Asked(a)
      BY <1>9 DEF AskerDies
    <3> QED
      BY <3>1, AskedMoves DEF Moves
  <2> QED
    BY <2>1, <2>2 DEF CodesInv, CodesType, CodesFresh, TakesFit, MailFits, Mails,
       DeliveredCodeStands
<1> QED
  BY <1>1, <1>2, <1>3, <1>4, <1>5, <1>6, <1>7, <1>8, <1>9 DEF CodesNext

LEMMA CodesAlways == CodesSpec => []CodesInv
<1> QED
  BY InitCodesInv, NextCodesInv, PTL DEF CodesSpec

\* A code that reached its reader stays until it is replaced, consumed or past
\* its time, whatever the mails of other requests do (sendVerificationCode).
THEOREM DeliveredCodesStand == CodesSpec => []DeliveredCodeStands
<1>1. CodesInv => DeliveredCodeStands
  BY DEF CodesInv
<1> QED
  BY <1>1, CodesAlways, PTL

\* No call that begins after a code was accepted is accepted with it
\* (consumeVerificationCode).
THEOREM CodesServeOnce == CodesSpec => CodeServesOnce
<1>1. CodesInv /\ [CodesNext]_codesVars =>
        [\A a \in Askers :
            asker[a] = NoAsk /\ asker'[a].pc = "consume" => asker'[a].code \notin used]_codesVars
  <2> SUFFICES ASSUME CodesInv, [CodesNext]_codesVars, ~UNCHANGED codesVars,
                      NEW a \in Askers, asker[a] = NoAsk, asker'[a].pc = "consume"
               PROVE  asker'[a].code \notin used
    OBVIOUS
  <2>0. asker \in [Askers -> AskRow]
        /\ NoAsk.pc = "idle" /\ asker[a].pc = "idle"
    BY DEF CodesInv, CodesType, AskRow, NoAsk
  <2>1. CASE CodeTick \/ PurgeCodes
    BY <2>0, <2>1 DEF CodeTick, PurgeCodes
  <2>2. ASSUME NEW b \in Askers,
               \/ SendClear(b) \/ SendStore(b) \/ SendMail(b) \/ ConsumeClear(b) \/ AskerDies(b)
        PROVE  asker'[a].pc # "consume"
    <3>1. \E pc \in {"idle", "store", "mail"} :
            \E c : asker' = [asker EXCEPT ![b] = [pc |-> pc, code |-> c]]
      BY <2>2 DEF SendClear, SendStore, SendMail, ConsumeClear, AskerDies, Ask, Asked, NoAsk
    <3> QED
      BY <2>0, <3>1
  <2>3. ASSUME NEW b \in Askers, ConsumeRead(b) PROVE asker'[a].code \notin used
    <3>1. PICK c \in Kept, pc \in {"drop", "consume"} : asker' = [asker EXCEPT ![b] = [pc |-> pc, code |-> c]]
      BY <2>3 DEF ConsumeRead, Ask
    <3>2. c \notin used
      BY DEF CodesInv, Kept, Present
    <3>3. b = a /\ asker'[a].code = c
      BY <2>0, <3>1
    <3> QED
      BY <3>2, <3>3
  <2> QED
    BY <2>1, <2>2, <2>3 DEF CodesNext
<1> QED
  BY <1>1, CodesAlways, PTL DEF CodesSpec, CodeServesOnce

-----------------------------------------------------------------------------
(* The accounts of a site *)

Job == [op : {"idle", "register", "link", "clear", "invite", "create", "mark", "hire",
              "clean", "delete"},
        email : Emails \cup {None}, on : AccountIds \cup InviteIds \cup EmpCodes \cup {None}]

RosterType ==
    /\ account \in [AccountIds -> AccountRow \cup {None}]
    /\ opened \in 0..MaxAccounts
    /\ invite \in [InviteIds -> InviteRow \cup {None}]
    /\ invited \in 0..MaxInvites
    /\ begun \in Nat /\ unchecked \in Nat
    /\ clerk \in [Clerks -> Job]
    /\ linked \in [AccountIds -> Nat]

\* What a call has taken up belongs to it.
JobFits(c) ==
    /\ clerk[c].op = "hire" => clerk[c].on \in EmpCodes \cup {None}
    /\ clerk[c].op = "link" => clerk[c].email # None /\ clerk[c].on \in AccountIds
    /\ clerk[c].op \in {"register", "clear", "invite"} => clerk[c].email # None
    /\ clerk[c].op \in {"create", "mark"} => clerk[c].email # None /\ clerk[c].on \in InviteIds
    /\ clerk[c].op \in {"clean", "delete"} => clerk[c].on \in AccountIds

JobsFit == \A c \in Clerks : JobFits(c)

RosterFresh ==
    \A i \in AccountIds : i > opened => account[i] = None /\ linked[i] = 0

LinksFit ==
    \A i \in AccountIds :
        /\ linked[i] <= 1
        /\ linked[i] # 0 => account[i] = None \/ account[i].email # None

\* An invite that is or will be marked has given somebody an account.
Fulfilled(v) ==
    \/ \E i \in AccountIds : account[i] # None /\ account[i].from = v
    \/ Cardinality(Accounts) < opened

InvitesFit ==
    /\ Cardinality(Accounts) <= opened
    /\ \A c \in Clerks : clerk[c].op = "mark" => Fulfilled(clerk[c].on)
    /\ \A v \in InviteIds : invite[v] # None /\ invite[v].accepted => Fulfilled(v)

Hiring == {c \in Clerks : clerk[c].op = "hire"}

PlanFits ==
    Cardinality(ActiveHere) + Cardinality(Hiring)
        <= MaxWorkers + Cardinality(Clerks) - 1 + unchecked

\* Inductive.
RosterInv == RosterType /\ JobsFit /\ RosterFresh /\ LinksFit /\ InvitesFit /\ PlanFits

LEMMA RosterNumbers ==
    /\ MaxAccounts \in Nat \ {0} /\ MaxInvites \in Nat /\ MaxWorkers \in Nat \ {0}
    /\ AccountIds \subseteq Nat /\ InviteIds \subseteq Nat
    /\ IsFiniteSet(AccountIds) /\ IsFiniteSet(Clerks)
    /\ None \notin AccountIds /\ None \notin InviteIds /\ None \notin Emails
    /\ None \notin AccountRow /\ None \notin InviteRow
    /\ Cardinality(Clerks) \in Nat \ {0}
<1>1. MaxAccounts \in Nat \ {0} /\ MaxInvites \in Nat /\ MaxWorkers \in Nat \ {0}
  BY RosterAssumption
<1>2. /\ AccountIds \subseteq Nat /\ InviteIds \subseteq Nat
      /\ None \notin AccountIds /\ None \notin InviteIds
  BY <1>1, NullAssumption DEF AccountIds, InviteIds
<1>3. IsFiniteSet(AccountIds)
  BY <1>1, FS_Interval DEF AccountIds
<1>4. Cardinality(Clerks) \in Nat \ {0}
  BY RosterAssumption, FS_CardinalityType, FS_EmptySet
<1> QED
  BY <1>1, <1>2, <1>3, <1>4, RosterAssumption, RosterRowAssumption

LEMMA RosterSets ==
    ASSUME RosterType
    PROVE  /\ Accounts = {i \in AccountIds : account[i] # None}
           /\ ActiveHere = {i \in AccountIds : account[i] # None /\ account[i].active}
           /\ Invites = {v \in InviteIds : invite[v] # None}
           /\ IsFiniteSet(Accounts) /\ IsFiniteSet(ActiveHere) /\ IsFiniteSet(Hiring)
           /\ Cardinality(Accounts) \in Nat /\ Cardinality(ActiveHere) \in Nat
           /\ Cardinality(Hiring) \in Nat /\ opened \in Nat /\ unchecked \in Nat
<1>1. /\ Accounts = {i \in AccountIds : account[i] # None}
      /\ Invites = {v \in InviteIds : invite[v] # None}
  BY DEF RosterType, Accounts, Invites, Present
<1>2. ActiveHere = {i \in AccountIds : account[i] # None /\ account[i].active}
  BY <1>1 DEF ActiveHere
<1>3. Accounts \subseteq AccountIds /\ ActiveHere \subseteq AccountIds /\ Hiring \subseteq Clerks
  BY <1>1, <1>2 DEF Hiring
<1>4. IsFiniteSet(Accounts) /\ IsFiniteSet(ActiveHere) /\ IsFiniteSet(Hiring)
  BY <1>3, RosterNumbers, FS_Subset
<1>5. opened \in Nat /\ unchecked \in Nat
  BY RosterNumbers DEF RosterType
<1> QED
  BY <1>1, <1>2, <1>4, <1>5, FS_CardinalityType

\* One call moves.
OneClerk(c) ==
    /\ clerk' \in [Clerks -> Job]
    /\ \A d \in Clerks : d # c => clerk'[d] = clerk[d]

LEMMA TakeMoves ==
    ASSUME RosterType, NEW c \in Clerks, NEW m \in Emails \cup {None},
           NEW on \in AccountIds \cup InviteIds \cup EmpCodes \cup {None},
           NEW op \in {"idle", "register", "link", "clear", "invite", "create", "mark", "hire",
                       "clean", "delete"},
           Take(c, op, m, on)
    PROVE  /\ OneClerk(c) /\ clerk'[c].op = op /\ clerk'[c].email = m /\ clerk'[c].on = on
BY DEF RosterType, Job, OneClerk, Take

LEMMA LeaveMoves ==
    ASSUME RosterType, NEW c \in Clerks, Leave(c)
    PROVE  OneClerk(c) /\ clerk'[c].op = "idle"
BY DEF RosterType, Job, OneClerk, Leave, NoWork

\* What the calls are doing: each step of a call leads to one that fits.
LEMMA ClerkSteps ==
    ASSUME RosterType, JobsFit, [RosterNext]_rosterVars
    PROVE  \/ clerk' = clerk
           \/ \E c \in Clerks :
                /\ OneClerk(c) /\ JobFits(c)'
                /\ \/ CreateRead(c, clerk'[c].on) /\ clerk'[c].op = "hire"
                   \/ AcceptCreate(c) /\ clerk'[c].op = "mark" /\ clerk'[c].on = clerk[c].on
                   \/ clerk'[c].op \notin {"hire", "mark"}
<1> USE RosterNumbers
<1>1. CASE UNCHANGED rosterVars
  BY <1>1 DEF rosterVars
<1>2. CASE \/ \E v \in InviteIds : InviteExpires(v)
           \/ \E i \in AccountIds :
                \/ \E m \in Emails \cup {None} : SetEmail(i, m)
                \/ SetActive(i) \/ SetInactive(i) \/ DeleteAccount(i) \/ Records(i)
  BY <1>2 DEF InviteExpires, SetEmail, SetActive, SetInactive, DeleteAccount, Records
<1> DEFINE Goal(c) == /\ OneClerk(c) /\ JobFits(c)'
                      /\ \/ CreateRead(c, clerk'[c].on) /\ clerk'[c].op = "hire"
                         \/ AcceptCreate(c) /\ clerk'[c].op = "mark" /\ clerk'[c].on = clerk[c].on
                         \/ clerk'[c].op \notin {"hire", "mark"}
<1>3. ASSUME NEW c \in Clerks, Leave(c) PROVE Goal(c)
  BY <1>3, LeaveMoves DEF JobFits
<1>4. ASSUME NEW c \in Clerks, NEW m \in Emails,
             RegisterRead(c, m) \/ LinkRead(c, m) \/ InviteRead(c, m)
      PROVE  Goal(c)
  <2>1. CASE RegisterRead(c, m)
    <3>1. Take(c, "register", m, None)
      BY <2>1 DEF RegisterRead
    <3>2. OneClerk(c) /\ clerk'[c].op = "register" /\ clerk'[c].email = m
      BY <3>1, TakeMoves
    <3> QED
      BY <3>2 DEF JobFits
  <2>2. CASE LinkRead(c, m)
    <3>1. PICK i \in Accounts : Take(c, "link", m, i)
      BY <2>2 DEF LinkRead
    <3>2. i \in AccountIds
      BY RosterSets
    <3>3. OneClerk(c) /\ clerk'[c].op = "link" /\ clerk'[c].email = m /\ clerk'[c].on = i
      BY <3>1, <3>2, TakeMoves
    <3> QED
      BY <3>2, <3>3 DEF JobFits
  <2>3. CASE InviteRead(c, m)
    <3>1. Take(c, "clear", m, None)
      BY <2>3 DEF InviteRead
    <3>2. OneClerk(c) /\ clerk'[c].op = "clear" /\ clerk'[c].email = m
      BY <3>1, TakeMoves
    <3> QED
      BY <3>2 DEF JobFits
  <2> QED
    BY <1>4, <2>1, <2>2, <2>3
<1>5. ASSUME NEW c \in Clerks, NEW k \in EmpCodes \cup {None}, CreateRead(c, k)
      PROVE  Goal(c)
  <2>1. Take(c, "hire", None, k)
    BY <1>5 DEF CreateRead
  <2>2. OneClerk(c) /\ clerk'[c].op = "hire" /\ clerk'[c].on = k
    BY <2>1, TakeMoves
  <2> QED
    BY <1>5, <2>2 DEF JobFits
<1>6. ASSUME NEW c \in Clerks, RegisterCreate(c) \/ LinkWrite(c) \/ InviteStore(c) \/ CreateWrite(c)
                               \/ DeleteWrite(c) \/ ClerkDies(c)
      PROVE  Goal(c)
  <2>1. Leave(c)
    BY <1>6 DEF RegisterCreate, LinkWrite, InviteStore, CreateWrite, DeleteWrite, ClerkDies
  <2> QED
    BY <2>1, <1>3
<1>7. ASSUME NEW c \in Clerks, InviteClear(c) PROVE Goal(c)
  <2>1. Take(c, "invite", clerk[c].email, None) /\ clerk[c].op = "clear"
    BY <1>7 DEF InviteClear
  <2>2. clerk[c].email \in Emails
    BY <2>1 DEF RosterType, JobsFit, JobFits, Job
  <2>3. OneClerk(c) /\ clerk'[c].op = "invite" /\ clerk'[c].email = clerk[c].email
    BY <2>1, <2>2, TakeMoves
  <2> QED
    BY <2>2, <2>3 DEF JobFits
<1>8. ASSUME NEW c \in Clerks, AcceptRead(c) PROVE Goal(c)
  <2>1. PICK v \in Invites : Take(c, "create", invite[v].email, v)
    BY <1>8 DEF AcceptRead, FirstStep
  <2>2. v \in InviteIds /\ invite[v] \in InviteRow
    BY RosterSets DEF RosterType
  <2>3. invite[v].email \in Emails
    BY <2>2 DEF InviteRow
  <2>4. /\ OneClerk(c) /\ clerk'[c].op = "create" /\ clerk'[c].email = invite[v].email
        /\ clerk'[c].on = v
    BY <2>1, <2>2, <2>3, TakeMoves
  <2> QED
    BY <2>2, <2>3, <2>4 DEF JobFits
<1>9. ASSUME NEW c \in Clerks, AcceptCreate(c) PROVE Goal(c)
  <2>1. Take(c, "mark", clerk[c].email, clerk[c].on) \/ Leave(c)
    BY <1>9 DEF AcceptCreate, FirstStep
  <2>2. clerk[c].op = "create" /\ clerk[c].email \in Emails /\ clerk[c].on \in InviteIds
    BY <1>9 DEF AcceptCreate, RosterType, JobsFit, JobFits, Job
  <2>3. CASE Take(c, "mark", clerk[c].email, clerk[c].on)
    <3>1. PICK m, v : m = clerk[c].email /\ v = clerk[c].on
      OBVIOUS
    <3>2. Take(c, "mark", m, v) /\ m \in Emails /\ v \in InviteIds
      BY <2>2, <2>3, <3>1
    <3>3. OneClerk(c) /\ clerk'[c].op = "mark" /\ clerk'[c].email = m /\ clerk'[c].on = v
      BY <3>2, TakeMoves
    <3> QED
      BY <1>9, <2>2, <3>1, <3>3 DEF JobFits
  <2> QED
    BY <1>3, <2>1, <2>3
<1>10. ASSUME NEW c \in Clerks, AcceptMark(c) PROVE Goal(c)
  <2>1. Leave(c)
    BY <1>10 DEF AcceptMark, FirstStep
  <2> QED
    BY <2>1, <1>3
<1>11. ASSUME NEW c \in Clerks, DeleteRead(c) PROVE Goal(c)
  <2>1. PICK i \in Accounts : Take(c, "clean", None, i)
    BY <1>11 DEF DeleteRead
  <2>2. i \in AccountIds
    BY RosterSets
  <2>3. OneClerk(c) /\ clerk'[c].op = "clean" /\ clerk'[c].on = i
    BY <2>1, <2>2, TakeMoves
  <2> QED
    BY <2>2, <2>3 DEF JobFits
<1>12. ASSUME NEW c \in Clerks, DeleteClean(c) PROVE Goal(c)
  <2>1. PICK i : i = clerk[c].on
    OBVIOUS
  <2>2. Take(c, "delete", None, i) /\ clerk[c].op = "clean"
    BY <1>12, <2>1 DEF DeleteClean
  <2>3. i \in AccountIds
    BY <2>1, <2>2 DEF JobsFit, JobFits
  <2>4. OneClerk(c) /\ clerk'[c].op = "delete" /\ clerk'[c].on = i
    BY <2>2, <2>3, TakeMoves
  <2> QED
    BY <2>3, <2>4 DEF JobFits
<1> HIDE DEF Goal
<1>13. RosterNext => \/ \E c \in Clerks : Goal(c)
                     \/ \E v \in InviteIds : InviteExpires(v)
                     \/ \E i \in AccountIds :
                          \/ \E m \in Emails \cup {None} : SetEmail(i, m)
                          \/ SetActive(i) \/ SetInactive(i) \/ DeleteAccount(i) \/ Records(i)
  BY <1>4, <1>5, <1>6, <1>7, <1>8, <1>9, <1>10, <1>11, <1>12 DEF RosterNext
<1> QED
  BY <1>1, <1>2, <1>13 DEF Goal

LEMMA NextJobsFit ==
    ASSUME RosterType, JobsFit, [RosterNext]_rosterVars
    PROVE  clerk' \in [Clerks -> Job] /\ JobsFit'
<1>1. CASE clerk' = clerk
  BY <1>1 DEF RosterType, JobsFit, JobFits
<1>2. CASE clerk' # clerk
  <2>1. PICK c \in Clerks : OneClerk(c) /\ JobFits(c)'
    BY <1>2, ClerkSteps
  <2>2. ASSUME NEW d \in Clerks PROVE JobFits(d)'
    <3>1. CASE d # c
      <4>1. clerk'[d] = clerk[d] /\ JobFits(d)
        BY <2>1, <3>1 DEF OneClerk, JobsFit
      <4> QED
        BY <4>1 DEF JobFits
    <3> QED
      BY <2>1, <3>1
  <2> QED
    BY <2>1, <2>2 DEF OneClerk, JobsFit
<1> QED
  BY <1>1, <1>2

\* What a step does to the accounts: nothing, an account opened, one changed
\* (but not where it came from), or one removed; an e-mail put on or taken off
\* is counted.
AccountSame == UNCHANGED <<account, opened, linked>>

AccountOpens ==
    \E r \in AccountRow :
        /\ opened + 1 \in AccountIds /\ account[opened + 1] = None
        /\ account' = [account EXCEPT ![opened + 1] = r]
        /\ opened' = opened + 1 /\ linked' = linked

AccountChanges ==
    \E i \in AccountIds, r \in AccountRow :
        /\ account[i] # None /\ account' = [account EXCEPT ![i] = r]
        /\ r.from = account[i].from /\ opened' = opened
        /\ \/ linked' = linked /\ (r.email = account[i].email \/ r.email # None)
           \/ linked' = [linked EXCEPT ![i] = 0]
           \/ account[i].email = None /\ r.email # None /\ linked' = [linked EXCEPT ![i] = @ + 1]

AccountGoes ==
    \E i \in AccountIds :
        /\ account[i] # None /\ account' = [account EXCEPT ![i] = None]
        /\ opened' = opened /\ linked' = linked

LEMMA OpenStep ==
    ASSUME RosterType, RosterFresh, NEW r \in AccountRow, Open(r), linked' = linked
    PROVE  AccountOpens
<1>1. opened + 1 \in AccountIds /\ opened + 1 > opened
  BY RosterNumbers DEF RosterType, Open, AccountIds
<1> QED
  BY <1>1 DEF RosterFresh, Open, AccountOpens

LEMMA FreshRow ==
    ASSUME NEW m \in Emails \cup {None}, NEW k \in EmpCodes \cup {None},
           NEW v \in InviteIds \cup {None}
    PROVE  Fresh(m, k, v) \in AccountRow /\ Fresh(m, k, v).from = v
BY DEF Fresh, AccountRow

LEMMA AccountSteps ==
    ASSUME RosterType, JobsFit, RosterFresh, [RosterNext]_rosterVars
    PROVE  AccountSame \/ AccountOpens \/ AccountChanges \/ AccountGoes
<1> USE RosterNumbers
<1>0. /\ Accounts = {i \in AccountIds : account[i] # None}
      /\ \A i \in Accounts : i \in AccountIds /\ account[i] # None /\ account[i] \in AccountRow
  BY RosterSets DEF RosterType
<1>1. CASE UNCHANGED rosterVars
  BY <1>1 DEF rosterVars, AccountSame
<1>2. CASE \E v \in InviteIds : InviteExpires(v)
  BY <1>2 DEF InviteExpires, AccountSame
<1>3. ASSUME NEW c \in Clerks,
             \/ \E m \in Emails : RegisterRead(c, m) \/ LinkRead(c, m) \/ InviteRead(c, m)
             \/ \E k \in EmpCodes \cup {None} : CreateRead(c, k)
             \/ InviteClear(c) \/ InviteStore(c) \/ AcceptRead(c) \/ AcceptMark(c)
             \/ DeleteRead(c) \/ ClerkDies(c)
      PROVE  AccountSame
  BY <1>3 DEF RegisterRead, LinkRead, InviteRead, CreateRead, InviteClear, InviteStore, AcceptRead,
     AcceptMark, DeleteRead, ClerkDies, AccountSame
<1>4. ASSUME NEW c \in Clerks, RegisterCreate(c) PROVE AccountSame \/ AccountOpens
  <2>2. clerk[c].email \in Emails
    BY <1>4 DEF RegisterCreate, RosterType, JobsFit, JobFits, Job
  <2>3. \/ Open(Fresh(clerk[c].email, None, None))
        \/ UNCHANGED <<account, opened>>
    BY <1>4 DEF RegisterCreate
  <2>4. linked' = linked
    BY <1>4 DEF RegisterCreate
  <2>5. Fresh(clerk[c].email, None, None) \in AccountRow
    BY <2>2, FreshRow
  <2> QED
    BY <2>3, <2>4, <2>5, OpenStep DEF AccountSame
<1>5. ASSUME NEW c \in Clerks, AcceptCreate(c) PROVE AccountSame \/ AccountOpens
  <2>2. clerk[c].email \in Emails /\ clerk[c].on \in InviteIds
    BY <1>5 DEF AcceptCreate, RosterType, JobsFit, JobFits, Job
  <2>3. \/ Open(Fresh(clerk[c].email, None, clerk[c].on))
        \/ UNCHANGED <<account, opened>>
    BY <1>5 DEF AcceptCreate
  <2>4. linked' = linked
    BY <1>5 DEF AcceptCreate
  <2>5. Fresh(clerk[c].email, None, clerk[c].on) \in AccountRow
    BY <2>2, FreshRow
  <2> QED
    BY <2>3, <2>4, <2>5, OpenStep DEF AccountSame
<1>6. ASSUME NEW c \in Clerks, CreateWrite(c) PROVE AccountSame \/ AccountOpens
  <2>2. clerk[c].on \in EmpCodes \cup {None}
    BY <1>6 DEF CreateWrite, JobsFit, JobFits
  <2>3. \/ Open(Fresh(None, clerk[c].on, None))
        \/ UNCHANGED <<account, opened>>
    BY <1>6 DEF CreateWrite
  <2>4. linked' = linked
    BY <1>6 DEF CreateWrite
  <2>5. Fresh(None, clerk[c].on, None) \in AccountRow
    BY <2>2, FreshRow
  <2> QED
    BY <2>3, <2>4, <2>5, OpenStep DEF AccountSame
<1>7. ASSUME NEW c \in Clerks, LinkWrite(c) PROVE AccountSame \/ AccountChanges
  <2> DEFINE i == clerk[c].on
             r == [account[i] EXCEPT !.email = clerk[c].email]
  <2>1. i \in AccountIds /\ clerk[c].email \in Emails
    BY <1>7 DEF LinkWrite, RosterType, JobsFit, JobFits, Job
  <2>2. CASE StillUnlinked(i) /\ EmailFree(clerk[c].email)
    <3>1. account[i] \in AccountRow /\ account[i] # None /\ account[i].email = None
      <4>1. account[i] # None /\ account[i].email = None
        BY <2>2 DEF StillUnlinked
      <4>2. account[i] \in AccountRow \cup {None}
        BY <2>1 DEF RosterType
      <4> QED
        BY <4>1, <4>2
    <3>2. r \in AccountRow /\ r.from = account[i].from /\ r.email = clerk[c].email
      BY <2>1, <3>1 DEF AccountRow
    <3>3. account' = [account EXCEPT ![i] = r] /\ linked' = [linked EXCEPT ![i] = @ + 1]
          /\ opened' = opened
      BY <1>7, <2>1, <2>2 DEF LinkWrite, RosterType
    <3>4. r.email # None
      BY <2>1, <3>2
    <3> HIDE DEF r, i
    <3> QED
      BY <2>1, <3>1, <3>2, <3>3, <3>4 DEF AccountChanges
  <2>3. CASE ~(StillUnlinked(i) /\ EmailFree(clerk[c].email))
    BY <1>7, <2>3 DEF LinkWrite, AccountSame
  <2> QED
    BY <2>2, <2>3
<1>8. ASSUME NEW c \in Clerks, DeleteClean(c) PROVE AccountSame \/ AccountChanges
  <2> DEFINE i == clerk[c].on
             r == [account[i] EXCEPT !.trail = FALSE]
  <2>1. CASE i \in Accounts
    <3>1. i \in AccountIds /\ account[i] \in AccountRow /\ account[i] # None
      BY <1>0, <2>1
    <3>2. r \in AccountRow /\ r.from = account[i].from /\ r.email = account[i].email
      BY <3>1 DEF AccountRow
    <3>3. account' = [account EXCEPT ![i] = r] /\ linked' = linked /\ opened' = opened
      BY <1>8, <2>1, <3>1 DEF DeleteClean, RosterType
    <3> HIDE DEF r, i
    <3> QED
      BY <3>1, <3>2, <3>3 DEF AccountChanges
  <2>2. CASE i \notin Accounts
    BY <1>8, <2>2 DEF DeleteClean, AccountSame
  <2> QED
    BY <2>1, <2>2
<1>9. ASSUME NEW c \in Clerks, DeleteWrite(c) PROVE AccountSame \/ AccountGoes
  <2> DEFINE i == clerk[c].on
  <2>1. CASE i \in Accounts /\ account[i].records = "none"
    BY <1>0, <1>9, <2>1 DEF DeleteWrite, AccountGoes
  <2>2. CASE ~(i \in Accounts /\ account[i].records = "none")
    BY <1>9, <2>2 DEF DeleteWrite, AccountSame
  <2> QED
    BY <2>1, <2>2
<1>10. ASSUME NEW i \in AccountIds, NEW m \in Emails \cup {None}, SetEmail(i, m)
       PROVE  AccountChanges
  <2> DEFINE r == [account[i] EXCEPT !.email = m]
  <2>1. account[i] \in AccountRow /\ account[i] # None
    BY <1>0, <1>10 DEF SetEmail
  <2>2. r \in AccountRow /\ r.from = account[i].from /\ r.email = m
    BY <2>1 DEF AccountRow
  <2>3. /\ account' = [account EXCEPT ![i] = r] /\ opened' = opened
        /\ linked' = IF m = None THEN [linked EXCEPT ![i] = 0] ELSE linked
    BY <1>10 DEF SetEmail, RosterType
  <2> HIDE DEF r
  <2> QED
    BY <2>1, <2>2, <2>3 DEF AccountChanges
<1>11. ASSUME NEW i \in AccountIds, SetActive(i) \/ SetInactive(i) PROVE AccountChanges
  <2>1. PICK b \in BOOLEAN : /\ account' = [account EXCEPT ![i].active = b]
                             /\ opened' = opened /\ linked' = linked /\ i \in Accounts
    BY <1>11 DEF SetActive, SetInactive, ActiveHere
  <2> DEFINE r == [account[i] EXCEPT !.active = b]
  <2>2. account[i] \in AccountRow /\ account[i] # None
    BY <1>0, <2>1
  <2>3. r \in AccountRow /\ r.from = account[i].from /\ r.email = account[i].email
    BY <2>2 DEF AccountRow
  <2>4. account' = [account EXCEPT ![i] = r]
    BY <2>1 DEF RosterType
  <2> HIDE DEF r
  <2> QED
    BY <2>1, <2>2, <2>3, <2>4 DEF AccountChanges
<1>12. ASSUME NEW i \in AccountIds, DeleteAccount(i) PROVE AccountChanges
  <2> DEFINE r == [account[i] EXCEPT !.active = FALSE, !.email = None]
  <2>1. account[i] \in AccountRow /\ account[i] # None
    BY <1>0, <1>12 DEF DeleteAccount, ActiveHere
  <2>2. r \in AccountRow /\ r.from = account[i].from
    BY <2>1 DEF AccountRow
  <2>3. /\ account' = [account EXCEPT ![i] = r] /\ opened' = opened
        /\ linked' = [linked EXCEPT ![i] = 0]
    BY <1>12 DEF DeleteAccount, RosterType
  <2> HIDE DEF r
  <2> QED
    BY <2>1, <2>2, <2>3 DEF AccountChanges
<1>13. ASSUME NEW i \in AccountIds, Records(i) PROVE AccountChanges
  <2>1. PICK w \in {"work", "settled"} :
           /\ account' = [account EXCEPT ![i].records = w]
           /\ opened' = opened /\ linked' = linked /\ i \in Accounts
    BY <1>13 DEF Records, ActiveHere
  <2> DEFINE r == [account[i] EXCEPT !.records = w]
  <2>2. account[i] \in AccountRow /\ account[i] # None
    BY <1>0, <2>1
  <2>3. r \in AccountRow /\ r.from = account[i].from /\ r.email = account[i].email
    BY <2>2 DEF AccountRow
  <2>4. account' = [account EXCEPT ![i] = r]
    BY <2>1 DEF RosterType
  <2> HIDE DEF r
  <2> QED
    BY <2>1, <2>2, <2>3, <2>4 DEF AccountChanges
<1> QED
  BY <1>1, <1>2, <1>3, <1>4, <1>5, <1>6, <1>7, <1>8, <1>9, <1>10, <1>11, <1>12, <1>13
     DEF RosterNext

LEMMA NextAccounts ==
    ASSUME RosterType, JobsFit, RosterFresh, LinksFit, [RosterNext]_rosterVars
    PROVE  /\ account' \in [AccountIds -> AccountRow \cup {None}]
           /\ opened' \in 0..MaxAccounts /\ linked' \in [AccountIds -> Nat]
           /\ RosterFresh' /\ LinksFit'
<1>0. /\ account \in [AccountIds -> AccountRow \cup {None}]
      /\ opened \in 0..MaxAccounts /\ opened \in Nat /\ linked \in [AccountIds -> Nat]
      /\ AccountIds = 1..MaxAccounts /\ MaxAccounts \in Nat /\ None \notin AccountRow
  BY RosterNumbers DEF RosterType, AccountIds
<1>1. CASE AccountSame
  BY <1>0, <1>1 DEF AccountSame, RosterFresh, LinksFit
<1>2. CASE AccountOpens
  <2>1. PICK r \in AccountRow :
          /\ opened + 1 \in AccountIds /\ account[opened + 1] = None
          /\ account' = [account EXCEPT ![opened + 1] = r]
          /\ opened' = opened + 1 /\ linked' = linked
    BY <1>2 DEF AccountOpens
  <2> DEFINE n == opened + 1
  <2>2. n > opened /\ linked[n] = 0 /\ opened' = n
    BY <1>0, <2>1 DEF RosterFresh
  <2>3. \A i \in AccountIds : i > n => i > opened
    BY <1>0
  <2>4. /\ account' \in [AccountIds -> AccountRow \cup {None}]
        /\ \A i \in AccountIds : i # n => account'[i] = account[i]
    BY <1>0, <2>1
  <2>5. opened' \in 0..MaxAccounts
    BY <1>0, <2>1
  <2> HIDE DEF n
  <2>6. RosterFresh'
    <3>1. \A i \in AccountIds : i > n => i # n
      BY <1>0, <2>2
    <3> QED
      BY <2>1, <2>2, <2>3, <2>4, <3>1 DEF RosterFresh
  <2>7. LinksFit'
    BY <1>0, <2>1, <2>2, <2>4 DEF LinksFit
  <2> QED
    BY <1>0, <2>1, <2>4, <2>5, <2>6, <2>7
<1>3. CASE AccountChanges
  <2>1. PICK i \in AccountIds, r \in AccountRow :
          /\ account[i] # None /\ account' = [account EXCEPT ![i] = r]
          /\ opened' = opened
          /\ \/ linked' = linked /\ (r.email = account[i].email \/ r.email # None)
             \/ linked' = [linked EXCEPT ![i] = 0]
             \/ account[i].email = None /\ r.email # None /\ linked' = [linked EXCEPT ![i] = @ + 1]
    BY <1>3 DEF AccountChanges
  <2>2. /\ account' \in [AccountIds -> AccountRow \cup {None}] /\ account'[i] = r
        /\ \A j \in AccountIds : j # i => account'[j] = account[j]
    BY <1>0, <2>1
  <2>3. /\ linked' \in [AccountIds -> Nat]
        /\ \A j \in AccountIds : j # i => linked'[j] = linked[j]
        /\ \/ linked'[i] = linked[i] /\ (r.email = account[i].email \/ r.email # None)
           \/ linked'[i] = 0
           \/ account[i].email = None /\ r.email # None /\ linked'[i] = linked[i] + 1
    BY <1>0, <2>1
  <2>4. ~(i > opened)
    BY <2>1 DEF RosterFresh
  <2>5. account[i].email = None => linked[i] = 0
    BY <2>1 DEF LinksFit
  <2>6. LinksFit'
    <3>1. ASSUME NEW j \in AccountIds
          PROVE  linked'[j] <= 1 /\ (linked'[j] # 0 => account'[j] = None \/ account'[j].email # None)
      <4>1. CASE j = i
        BY <1>0, <2>1, <2>2, <2>3, <2>5, <4>1 DEF LinksFit
      <4>2. CASE j # i
        BY <2>2, <2>3, <4>2 DEF LinksFit
      <4> QED
        BY <4>1, <4>2
    <3> QED
      BY <3>1 DEF LinksFit
  <2>7. RosterFresh'
    BY <2>1, <2>2, <2>3, <2>4 DEF RosterFresh
  <2> QED
    BY <1>0, <2>1, <2>2, <2>3, <2>6, <2>7
<1>4. CASE AccountGoes
  <2>1. PICK i \in AccountIds :
          /\ account[i] # None /\ account' = [account EXCEPT ![i] = None]
          /\ opened' = opened /\ linked' = linked
    BY <1>4 DEF AccountGoes
  <2>2. /\ account' \in [AccountIds -> AccountRow \cup {None}] /\ account'[i] = None
        /\ \A j \in AccountIds : j # i => account'[j] = account[j]
    BY <1>0, <2>1
  <2>3. LinksFit' /\ RosterFresh'
    BY <2>1, <2>2 DEF LinksFit, RosterFresh
  <2> QED
    BY <1>0, <2>1, <2>2, <2>3
<1> QED
  BY <1>1, <1>2, <1>3, <1>4, AccountSteps

\* What has been given stays given, or has been taken away again, which the
\* number of accounts shows.
LEMMA FulfilledStays ==
    ASSUME RosterType, JobsFit, RosterFresh, LinksFit, InvitesFit, [RosterNext]_rosterVars
    PROVE  /\ Cardinality(Accounts') <= opened'
           /\ \A v \in InviteIds : Fulfilled(v) => Fulfilled(v)'
<1>0. /\ account \in [AccountIds -> AccountRow \cup {None}] /\ opened \in Nat
      /\ account' \in [AccountIds -> AccountRow \cup {None}] /\ None \notin AccountRow
      /\ Accounts = {j \in AccountIds : account[j] # None}
      /\ Accounts' = {j \in AccountIds : account'[j] # None}
      /\ IsFiniteSet(Accounts) /\ Cardinality(Accounts) \in Nat
      /\ Cardinality(Accounts) <= opened
  <2>1. account' \in [AccountIds -> AccountRow \cup {None}]
    BY NextAccounts
  <2>2. Accounts' = {j \in AccountIds : account'[j] # None}
    BY <2>1 DEF Accounts, Present
  <2> QED
    BY <2>1, <2>2, RosterSets, RosterNumbers DEF RosterType, InvitesFit
<1>1. CASE AccountSame
  BY <1>0, <1>1 DEF AccountSame, Fulfilled
<1>2. CASE AccountOpens
  <2>1. PICK r \in AccountRow :
          /\ opened + 1 \in AccountIds /\ account[opened + 1] = None
          /\ account' = [account EXCEPT ![opened + 1] = r] /\ opened' = opened + 1
    BY <1>2 DEF AccountOpens
  <2> DEFINE n == opened + 1
  <2>2. /\ account'[n] # None /\ n \in AccountIds
        /\ \A j \in AccountIds : j # n => account'[j] = account[j]
    BY <1>0, <2>1
  <2> HIDE DEF n
  <2>3. Accounts' = Accounts \cup {n} /\ n \notin Accounts
    BY <1>0, <2>1, <2>2 DEF n
  <2>4. Cardinality(Accounts') = Cardinality(Accounts) + 1
    BY <1>0, <2>3, CountNew
  <2>5. \A v \in InviteIds : (\E j \in AccountIds : account[j] # None /\ account[j].from = v)
           => \E j \in AccountIds : account'[j] # None /\ account'[j].from = v
    BY <2>1, <2>2 DEF n
  <2>6. /\ Cardinality(Accounts') <= opened'
        /\ Cardinality(Accounts) < opened => Cardinality(Accounts') < opened'
    <3>1. opened' = opened + 1
      BY <2>1
    <3> QED
      BY <1>0, <2>4, <3>1
  <2> QED
    BY <2>5, <2>6 DEF Fulfilled
<1>3. CASE AccountChanges
  <2>1. PICK i \in AccountIds, r \in AccountRow :
          /\ account[i] # None /\ account' = [account EXCEPT ![i] = r]
          /\ r.from = account[i].from /\ opened' = opened
    BY <1>3 DEF AccountChanges
  <2>2. /\ account'[i] = r /\ r # None
        /\ \A j \in AccountIds : j # i => account'[j] = account[j]
    BY <1>0, <2>1
  <2>3. Accounts' = Accounts
    BY <1>0, <2>1, <2>2
  <2>4. \A v \in InviteIds : (\E j \in AccountIds : account[j] # None /\ account[j].from = v)
           => \E j \in AccountIds : account'[j] # None /\ account'[j].from = v
    BY <2>1, <2>2
  <2> QED
    BY <1>0, <2>1, <2>3, <2>4 DEF Fulfilled
<1>4. CASE AccountGoes
  <2>1. PICK i \in AccountIds :
          /\ account[i] # None /\ account' = [account EXCEPT ![i] = None]
          /\ opened' = opened
    BY <1>4 DEF AccountGoes
  <2>2. i \in Accounts /\ Accounts' \subseteq Accounts \ {i}
    BY <1>0, <2>1
  <2>3. Cardinality(Accounts') \in Nat /\ Cardinality(Accounts') + 1 <= Cardinality(Accounts)
    BY <1>0, <2>2, CountLoss
  <2>4. Cardinality(Accounts') < opened'
    BY <1>0, <2>1, <2>3
  <2>5. Cardinality(Accounts') <= opened'
    <3>1. opened' \in Nat
      BY <1>0, <2>1
    <3> QED
      BY <2>3, <2>4, <3>1
  <2> QED
    BY <2>4, <2>5 DEF Fulfilled
<1> QED
  BY <1>1, <1>2, <1>3, <1>4, AccountSteps

\* What a step does to the invites: a mark is made only by a call that is to
\* make it.
InviteMarks ==
    \E c \in Clerks :
        /\ clerk[c].op = "mark" /\ clerk[c].on \in InviteIds
        /\ \A v \in InviteIds : v # clerk[c].on => invite'[v] = invite[v]

LEMMA InviteSteps ==
    ASSUME RosterType, JobsFit, [RosterNext]_rosterVars
    PROVE  /\ invite' \in [InviteIds -> InviteRow \cup {None}] /\ invited' \in 0..MaxInvites
           /\ \/ InviteMarks
              \/ \A v \in InviteIds : invite'[v] # None /\ invite'[v].accepted =>
                    invite[v] # None /\ invite[v].accepted
<1> USE RosterNumbers
<1>0. /\ invite \in [InviteIds -> InviteRow \cup {None}] /\ invited \in 0..MaxInvites
      /\ InviteIds = 1..MaxInvites /\ MaxInvites \in Nat
      /\ Invites = {v \in InviteIds : invite[v] # None}
  BY RosterSets DEF RosterType, InviteIds
<1>1. CASE UNCHANGED <<invite, invited>>
  BY <1>0, <1>1
<1>2. ASSUME NEW v \in InviteIds, InviteExpires(v)
      PROVE  /\ invite' \in [InviteIds -> InviteRow \cup {None}] /\ invited' \in 0..MaxInvites
             /\ \A w \in InviteIds : invite'[w] # None /\ invite'[w].accepted =>
                    invite[w] # None /\ invite[w].accepted
  <2> DEFINE r == [invite[v] EXCEPT !.expired = TRUE]
  <2>1. invite[v] \in InviteRow /\ invite[v] # None
    BY <1>0, <1>2 DEF InviteExpires
  <2>2. r \in InviteRow /\ r.accepted = invite[v].accepted
    BY <2>1 DEF InviteRow
  <2>3. invite' = [invite EXCEPT ![v] = r] /\ invited' = invited
    BY <1>0, <1>2 DEF InviteExpires
  <2> HIDE DEF r
  <2>4. \A w \in InviteIds : invite'[w] = IF w = v THEN r ELSE invite[w]
    BY <1>0, <2>3
  <2>5. invite' \in [InviteIds -> InviteRow \cup {None}] /\ invited' \in 0..MaxInvites
    BY <1>0, <2>2, <2>3
  <2> QED
    BY <2>1, <2>2, <2>4, <2>5
<1>3. ASSUME NEW c \in Clerks, InviteClear(c)
      PROVE  /\ invite' \in [InviteIds -> InviteRow \cup {None}] /\ invited' \in 0..MaxInvites
             /\ \A w \in InviteIds : invite'[w] # None /\ invite'[w].accepted =>
                    invite[w] # None /\ invite[w].accepted
  <2> DEFINE gone(v) == v \in Invites /\ invite[v].email = clerk[c].email /\ ~invite[v].accepted
  <2>1. invite' = [v \in InviteIds |-> IF gone(v) THEN None ELSE invite[v]] /\ invited' = invited
    BY <1>3 DEF InviteClear
  <2> HIDE DEF gone
  <2> QED
    BY <1>0, <2>1
<1>4. ASSUME NEW c \in Clerks, InviteStore(c)
      PROVE  /\ invite' \in [InviteIds -> InviteRow \cup {None}] /\ invited' \in 0..MaxInvites
             /\ \A w \in InviteIds : invite'[w] # None /\ invite'[w].accepted =>
                    invite[w] # None /\ invite[w].accepted
  <2> DEFINE r == [email |-> clerk[c].email, accepted |-> FALSE, expired |-> FALSE]
  <2>1. clerk[c].email \in Emails
    BY <1>4 DEF InviteStore, RosterType, JobsFit, JobFits, Job
  <2>2. r \in InviteRow /\ ~r.accepted
    BY <2>1 DEF InviteRow
  <2>3. invite' = [invite EXCEPT ![invited + 1] = r] /\ invited' \in 0..MaxInvites
    BY <1>0, <1>4 DEF InviteStore
  <2> HIDE DEF r
  <2>4. \A w \in InviteIds : invite'[w] = IF w = invited + 1 THEN r ELSE invite[w]
    BY <1>0, <2>3
  <2>5. invite' \in [InviteIds -> InviteRow \cup {None}]
    BY <1>0, <2>2, <2>3
  <2> QED
    BY <2>2, <2>3, <2>4, <2>5
<1>5. ASSUME NEW c \in Clerks, AcceptMark(c)
      PROVE  /\ invite' \in [InviteIds -> InviteRow \cup {None}] /\ invited' \in 0..MaxInvites
             /\ InviteMarks
  <2> DEFINE v == clerk[c].on
             r == [invite[v] EXCEPT !.accepted = TRUE]
  <2>1. v \in InviteIds /\ clerk[c].op = "mark"
    BY <1>5 DEF AcceptMark, JobsFit, JobFits
  <2>2. invite' = (IF invite[v] # None THEN [invite EXCEPT ![v] = r] ELSE invite) /\ invited' = invited
    BY <1>0, <1>5 DEF AcceptMark
  <2>3. invite[v] # None => r \in InviteRow
    <3>1. invite[v] \in InviteRow \cup {None}
      BY <1>0, <2>1
    <3> QED
      BY <3>1 DEF InviteRow
  <2> HIDE DEF r, v
  <2>4. invite' \in [InviteIds -> InviteRow \cup {None}] /\ invited' \in 0..MaxInvites
        /\ \A w \in InviteIds : w # v => invite'[w] = invite[w]
    BY <1>0, <2>1, <2>2, <2>3
  <2> QED
    BY <2>1, <2>4 DEF InviteMarks, v
<1>6. ASSUME NEW c \in Clerks,
             \/ \E m \in Emails : RegisterRead(c, m) \/ LinkRead(c, m) \/ InviteRead(c, m)
             \/ \E k \in EmpCodes \cup {None} : CreateRead(c, k)
             \/ RegisterCreate(c) \/ LinkWrite(c) \/ AcceptRead(c) \/ AcceptCreate(c)
             \/ CreateWrite(c) \/ DeleteRead(c) \/ DeleteClean(c) \/ DeleteWrite(c) \/ ClerkDies(c)
      PROVE  UNCHANGED <<invite, invited>>
  BY <1>6 DEF RegisterRead, LinkRead, InviteRead, CreateRead, RegisterCreate, LinkWrite,
     AcceptRead, AcceptCreate, CreateWrite, DeleteRead, DeleteClean, DeleteWrite, ClerkDies
<1>7. CASE \E i \in AccountIds :
              \/ \E m \in Emails \cup {None} : SetEmail(i, m)
              \/ SetActive(i) \/ SetInactive(i) \/ DeleteAccount(i) \/ Records(i)
  BY <1>1, <1>7 DEF SetEmail, SetActive, SetInactive, DeleteAccount, Records
<1>8. CASE UNCHANGED rosterVars
  BY <1>1, <1>8 DEF rosterVars
<1> QED
  BY <1>1, <1>2, <1>3, <1>4, <1>5, <1>6, <1>7, <1>8 DEF RosterNext

LEMMA NextInvitesFit ==
    ASSUME RosterType, JobsFit, RosterFresh, LinksFit, InvitesFit, [RosterNext]_rosterVars
    PROVE  InvitesFit'
<1>1. /\ Cardinality(Accounts') <= opened'
      /\ \A v \in InviteIds : Fulfilled(v) => Fulfilled(v)'
  BY FulfilledStays
<1>2. ASSUME NEW c \in Clerks, clerk'[c].op = "mark"
      PROVE  \E v \in InviteIds : v = clerk'[c].on /\ Fulfilled(v)'
  <2>1. CASE clerk'[c] = clerk[c]
    <3>1. clerk[c].on \in InviteIds /\ Fulfilled(clerk[c].on)
      BY <1>2, <2>1 DEF JobsFit, JobFits, InvitesFit
    <3>2. PICK v \in InviteIds : v = clerk[c].on /\ Fulfilled(v)
      BY <3>1
    <3> QED
      BY <1>1, <2>1, <3>2
  <2>2. CASE clerk'[c] # clerk[c]
    <3>1. PICK d \in Clerks :
             /\ OneClerk(d)
             /\ \/ clerk'[d].op = "hire"
                \/ AcceptCreate(d) /\ clerk'[d].op = "mark" /\ clerk'[d].on = clerk[d].on
                \/ clerk'[d].op \notin {"hire", "mark"}
      BY <2>2, ClerkSteps
    <3>2. d = c /\ AcceptCreate(c) /\ clerk'[c].on = clerk[c].on
      BY <1>2, <2>2, <3>1 DEF OneClerk
    <3>3. clerk[c].on \in InviteIds /\ clerk[c].email \in Emails
      BY <3>2 DEF AcceptCreate, RosterType, JobsFit, JobFits, Job
    <3>4. PICK v \in InviteIds : v = clerk[c].on
      BY <3>3
    <3>5. Open(Fresh(clerk[c].email, None, v))
      <4>1. ~Leave(c)
        BY <1>2, LeaveMoves
      <4> QED
        BY <3>2, <3>4, <4>1 DEF AcceptCreate
    <3> DEFINE r == Fresh(clerk[c].email, None, v)
    <3>6. r \in AccountRow /\ r.from = v
      BY <3>3, FreshRow
    <3> HIDE DEF r
    <3>7. /\ account' = [account EXCEPT ![opened + 1] = r] /\ opened + 1 \in AccountIds
      BY <3>5, RosterNumbers DEF Open, r, RosterType, AccountIds
    <3>8. account'[opened + 1] = r /\ r # None
      BY <3>6, <3>7, RosterNumbers DEF RosterType
    <3>9. \E i \in AccountIds : account'[i] # None /\ account'[i].from = v
      BY <3>6, <3>7, <3>8
    <3>10. Fulfilled(v)'
      BY <3>9 DEF Fulfilled
    <3> QED
      BY <3>2, <3>4, <3>10
  <2> QED
    BY <2>1, <2>2
<1>3. ASSUME NEW v \in InviteIds, invite'[v] # None, invite'[v].accepted PROVE Fulfilled(v)'
  <2>1. CASE invite[v] # None /\ invite[v].accepted
    BY <1>1, <2>1 DEF InvitesFit
  <2>2. CASE ~(invite[v] # None /\ invite[v].accepted)
    <3>1. InviteMarks
      BY <1>3, <2>2, InviteSteps
    <3>2. PICK c \in Clerks : /\ clerk[c].op = "mark"
                              /\ \A w \in InviteIds : w # clerk[c].on => invite'[w] = invite[w]
      BY <3>1 DEF InviteMarks
    <3>3. v = clerk[c].on
      BY <1>3, <2>2, <3>2
    <3>4. Fulfilled(clerk[c].on)
      BY <3>2 DEF InvitesFit
    <3>5. Fulfilled(v)
      BY <3>3, <3>4
    <3> QED
      BY <1>1, <3>5
  <2> QED
    BY <2>1, <2>2
<1>4. \A c \in Clerks : clerk'[c].op = "mark" => Fulfilled(clerk[c].on)'
  <2> SUFFICES ASSUME NEW c \in Clerks, clerk'[c].op = "mark" PROVE Fulfilled(clerk[c].on)'
    OBVIOUS
  <2>1. PICK v \in InviteIds : v = clerk'[c].on /\ Fulfilled(v)'
    BY <1>2
  <2> QED
    BY <2>1 DEF Fulfilled
<1> QED
  BY <1>1, <1>3, <1>4 DEF InvitesFit

\* What a step may do to the places taken and the places asked for.
PlanStep ==
    \/ ActiveHere' \subseteq ActiveHere /\ Hiring' \subseteq Hiring /\ unchecked' = unchecked
    \/ \E i : /\ ActiveHere' \subseteq ActiveHere \cup {i} /\ Hiring' \subseteq Hiring
              /\ unchecked' = unchecked + 1
    \/ \E i : \E c \in Hiring :
              /\ ActiveHere' \subseteq ActiveHere \cup {i} /\ Hiring' \subseteq Hiring \ {c}
              /\ unchecked' = unchecked
    \/ \E c \in Clerks \ Hiring :
              /\ ActiveHere' \subseteq ActiveHere /\ Hiring' \subseteq Hiring \cup {c}
              /\ unchecked' = unchecked /\ HasRoom

LEMMA HiringMove ==
    ASSUME NEW c \in Clerks, OneClerk(c)
    PROVE  /\ Hiring' \subseteq Hiring \cup {c}
           /\ clerk'[c].op # "hire" => Hiring' \subseteq Hiring \ {c}
BY DEF OneClerk, Hiring

LEMMA PlanSteps ==
    ASSUME RosterType, JobsFit, RosterFresh, LinksFit, [RosterNext]_rosterVars
    PROVE  PlanStep
<1>0. /\ account \in [AccountIds -> AccountRow \cup {None}]
      /\ ActiveHere = {j \in AccountIds : account[j] # None /\ account[j].active}
      /\ ActiveHere' = {j \in AccountIds : account'[j] # None /\ account'[j].active}
  <2>1. account' \in [AccountIds -> AccountRow \cup {None}]
    BY NextAccounts
  <2>2. ActiveHere' = {j \in AccountIds : account'[j] # None /\ account'[j].active}
    BY <2>1 DEF ActiveHere, Accounts, Present
  <2> QED
    BY <2>2, RosterSets DEF RosterType
<1>1. CASE UNCHANGED <<account, clerk, unchecked>>
  BY <1>0, <1>1 DEF Hiring, PlanStep
<1>2. CASE UNCHANGED rosterVars \/ \E v \in InviteIds : InviteExpires(v)
  BY <1>1, <1>2 DEF rosterVars, InviteExpires
<1>3. ASSUME NEW i \in AccountIds,
             \/ \E m \in Emails \cup {None} : SetEmail(i, m)
             \/ SetInactive(i) \/ DeleteAccount(i) \/ Records(i)
      PROVE  PlanStep
  <2>1. UNCHANGED <<clerk, unchecked>>
    BY <1>3 DEF SetEmail, SetInactive, DeleteAccount, Records
  <2>2. \A j \in AccountIds : j # i => account'[j] = account[j]
    BY <1>0, <1>3 DEF SetEmail, SetInactive, DeleteAccount, Records
  <2>3. i \in AccountIds /\ account[i] # None /\ account[i] \in AccountRow
    BY <1>0, <1>3, RosterSets DEF SetEmail, SetInactive, DeleteAccount, Records, ActiveHere
  <2>4. account'[i].active => account[i].active
    <3>1. CASE \E m \in Emails \cup {None} : SetEmail(i, m)
      <4>1. PICK m : account' = [account EXCEPT ![i].email = m]
        BY <3>1 DEF SetEmail
      <4> QED
        BY <1>0, <2>3, <4>1 DEF AccountRow
    <3>2. CASE SetInactive(i) \/ DeleteAccount(i) \/ Records(i)
      <4>1. account[i].active
        BY <1>0, <3>2 DEF SetInactive, DeleteAccount, Records
      <4> QED
        BY <4>1
    <3> QED
      BY <1>3, <3>1, <3>2
  <2>5. ActiveHere' \subseteq ActiveHere /\ Hiring' = Hiring
    BY <1>0, <2>1, <2>2, <2>3, <2>4 DEF Hiring
  <2> QED
    BY <2>1, <2>5 DEF PlanStep
<1>4. ASSUME NEW i \in AccountIds, SetActive(i) PROVE PlanStep
  <2>1. clerk' = clerk /\ unchecked' = unchecked + 1
    BY <1>4 DEF SetActive, Unlimited
  <2>2. \A j \in AccountIds : j # i => account'[j] = account[j]
    BY <1>0, <1>4 DEF SetActive
  <2>3. ActiveHere' \subseteq ActiveHere \cup {i} /\ Hiring' = Hiring
    BY <1>0, <2>1, <2>2 DEF Hiring
  <2> QED
    BY <2>1, <2>3 DEF PlanStep
<1>5. ASSUME NEW c \in Clerks,
             \/ \E m \in Emails : RegisterRead(c, m) \/ LinkRead(c, m) \/ InviteRead(c, m)
             \/ InviteClear(c) \/ InviteStore(c) \/ AcceptRead(c) \/ AcceptMark(c)
             \/ DeleteRead(c) \/ ClerkDies(c) \/ LinkWrite(c) \/ DeleteClean(c) \/ DeleteWrite(c)
      PROVE  UNCHANGED unchecked /\ \A j \in AccountIds :
                account'[j] # None /\ account'[j].active => account[j] # None /\ account[j].active
  <2>1. unchecked' = unchecked
    BY <1>5 DEF RegisterRead, LinkRead, InviteRead, InviteClear, InviteStore, AcceptRead,
       AcceptMark, DeleteRead, ClerkDies, LinkWrite, DeleteClean, DeleteWrite
  <2>2. CASE LinkWrite(c)
    <3> DEFINE k == clerk[c].on
    <3>1. \/ account' = [account EXCEPT ![k].email = clerk[c].email] /\ account[k] # None
          \/ account' = account
      BY <2>2 DEF LinkWrite, StillUnlinked
    <3> HIDE DEF k
    <3>2. ASSUME NEW j \in AccountIds, account'[j] # None, account'[j].active
          PROVE  account[j] # None /\ account[j].active
      <4>1. CASE j = k /\ account[k] # None /\ account' = [account EXCEPT ![k].email = clerk[c].email]
        <5>1. account[j] \in AccountRow
          BY <1>0, <4>1
        <5> QED
          BY <1>0, <3>2, <4>1, <5>1 DEF AccountRow
      <4>2. CASE account'[j] = account[j]
        BY <3>2, <4>2
      <4> QED
        BY <1>0, <3>1, <4>1, <4>2
    <3> QED
      BY <2>1, <3>2
  <2>3. CASE DeleteClean(c)
    <3> DEFINE k == clerk[c].on
    <3>1. \/ account' = [account EXCEPT ![k].trail = FALSE] /\ account[k] # None
          \/ account' = account
      BY <2>3 DEF DeleteClean, Accounts, Present
    <3> HIDE DEF k
    <3>2. ASSUME NEW j \in AccountIds, account'[j] # None, account'[j].active
          PROVE  account[j] # None /\ account[j].active
      <4>1. CASE j = k /\ account[k] # None /\ account' = [account EXCEPT ![k].trail = FALSE]
        <5>1. account[j] \in AccountRow
          BY <1>0, <4>1
        <5> QED
          BY <1>0, <3>2, <4>1, <5>1 DEF AccountRow
      <4>2. CASE account'[j] = account[j]
        BY <3>2, <4>2
      <4> QED
        BY <1>0, <3>1, <4>1, <4>2
    <3> QED
      BY <2>1, <3>2
  <2>4. CASE DeleteWrite(c)
    <3>1. \A j \in AccountIds : account'[j] \in {account[j], None}
      BY <1>0, <2>4 DEF DeleteWrite
    <3> QED
      BY <2>1, <3>1
  <2>5. CASE \/ \E m \in Emails : RegisterRead(c, m) \/ LinkRead(c, m) \/ InviteRead(c, m)
             \/ InviteClear(c) \/ InviteStore(c) \/ AcceptRead(c) \/ AcceptMark(c)
             \/ DeleteRead(c) \/ ClerkDies(c)
    <3>1. account' = account
      BY <2>5 DEF RegisterRead, LinkRead, InviteRead, InviteClear, InviteStore, AcceptRead,
         AcceptMark, DeleteRead, ClerkDies
    <3> QED
      BY <2>1, <3>1
  <2> QED
    BY <1>5, <2>2, <2>3, <2>4, <2>5
<1>6. ASSUME NEW c \in Clerks,
             \/ \E m \in Emails : RegisterRead(c, m) \/ LinkRead(c, m) \/ InviteRead(c, m)
             \/ InviteClear(c) \/ InviteStore(c) \/ AcceptRead(c) \/ AcceptMark(c)
             \/ DeleteRead(c) \/ ClerkDies(c) \/ LinkWrite(c) \/ DeleteClean(c) \/ DeleteWrite(c)
      PROVE  Hiring' \subseteq Hiring
  <2>1. \E op, m, on : op # "hire" /\ clerk' = [clerk EXCEPT ![c] = [op |-> op, email |-> m, on |-> on]]
    BY <1>6 DEF RegisterRead, LinkRead, InviteRead, InviteClear, InviteStore, AcceptRead,
       AcceptMark, DeleteRead, ClerkDies, LinkWrite, DeleteClean, DeleteWrite,
       Take, Leave, NoWork, FirstStep
  <2> QED
    BY <2>1 DEF Hiring, RosterType
<1>7. ASSUME NEW c \in Clerks,
             \/ \E m \in Emails : RegisterRead(c, m) \/ LinkRead(c, m) \/ InviteRead(c, m)
             \/ InviteClear(c) \/ InviteStore(c) \/ AcceptRead(c) \/ AcceptMark(c)
             \/ DeleteRead(c) \/ ClerkDies(c) \/ LinkWrite(c) \/ DeleteClean(c) \/ DeleteWrite(c)
      PROVE  PlanStep
  <2>1. ActiveHere' \subseteq ActiveHere /\ unchecked' = unchecked
    BY <1>0, <1>5, <1>7
  <2>2. Hiring' \subseteq Hiring
    BY <1>6, <1>7
  <2> QED
    BY <2>1, <2>2 DEF PlanStep
<1>8. ASSUME NEW c \in Clerks, RegisterCreate(c) \/ AcceptCreate(c) PROVE PlanStep
  <2>1. Hiring' \subseteq Hiring
    <3>1. \E op, m, on : op # "hire" /\ clerk' = [clerk EXCEPT ![c] = [op |-> op, email |-> m, on |-> on]]
      BY <1>8 DEF RegisterCreate, AcceptCreate, Take, Leave, NoWork, FirstStep
    <3> QED
      BY <3>1 DEF Hiring, RosterType
  <2>2. \/ UNCHANGED <<account, unchecked>>
        \/ unchecked' = unchecked + 1 /\ \E r : account' = [account EXCEPT ![opened + 1] = r]
    BY <1>8 DEF RegisterCreate, AcceptCreate, Open, Unlimited
  <2>3. CASE UNCHANGED <<account, unchecked>>
    BY <1>0, <2>1, <2>3 DEF PlanStep
  <2>4. CASE unchecked' = unchecked + 1 /\ \E r : account' = [account EXCEPT ![opened + 1] = r]
    <3>1. ActiveHere' \subseteq ActiveHere \cup {opened + 1}
      BY <1>0, <2>4
    <3> QED
      BY <2>1, <2>4, <3>1 DEF PlanStep
  <2> QED
    BY <2>2, <2>3, <2>4
<1>9. ASSUME NEW c \in Clerks, CreateWrite(c) PROVE PlanStep
  <2>1. c \in Hiring /\ Leave(c) /\ unchecked' = unchecked
    BY <1>9 DEF CreateWrite, Hiring
  <2>2. Hiring' \subseteq Hiring \ {c}
    BY <2>1, LeaveMoves, HiringMove
  <2>3. account' = account \/ \E r : account' = [account EXCEPT ![opened + 1] = r]
    BY <1>9 DEF CreateWrite, Open
  <2>4. ActiveHere' \subseteq ActiveHere \cup {opened + 1}
    BY <1>0, <2>3
  <2> QED
    BY <2>1, <2>2, <2>4 DEF PlanStep
<1>10. ASSUME NEW c \in Clerks, NEW k \in EmpCodes \cup {None}, CreateRead(c, k) PROVE PlanStep
  <2>1. /\ clerk[c] = NoWork /\ HasRoom /\ UNCHANGED <<account, unchecked>>
        /\ clerk' = [clerk EXCEPT ![c] = [op |-> "hire", email |-> None, on |-> k]]
    BY <1>10 DEF CreateRead, Begin, Take
  <2>2. c \notin Hiring
    BY <2>1 DEF Hiring, NoWork
  <2>3. Hiring' \subseteq Hiring \cup {c}
    BY <2>1 DEF Hiring, RosterType
  <2> QED
    BY <1>0, <2>1, <2>2, <2>3 DEF PlanStep
<1> QED
  BY <1>2, <1>3, <1>4, <1>7, <1>8, <1>9, <1>10 DEF RosterNext

\* A call that finds room adds to places asked for, of which there are fewer
\* than calls; all other ways in are counted.
LEMMA NextPlanFits ==
    ASSUME RosterType, RosterType', PlanFits, PlanStep
    PROVE  PlanFits'
<1> DEFINE A == ActiveHere
           H == Hiring
           AA == ActiveHere'
           HH == Hiring'
           N == Cardinality(Clerks)
<1>0. /\ IsFiniteSet(A) /\ IsFiniteSet(H) /\ Cardinality(A) \in Nat /\ Cardinality(H) \in Nat
      /\ unchecked \in Nat /\ MaxWorkers \in Nat /\ N \in Nat \ {0}
      /\ H \subseteq Clerks /\ IsFiniteSet(Clerks)
      /\ Cardinality(A) + Cardinality(H) <= MaxWorkers + N - 1 + unchecked
  BY RosterSets, RosterNumbers DEF PlanFits, Hiring
<1>a. PlanFits' <=> Cardinality(AA) + Cardinality(HH) <= MaxWorkers + N - 1 + unchecked'
  BY DEF PlanFits
<1>b. HasRoom => Cardinality(A) < MaxWorkers
  BY DEF HasRoom
<1>c. \/ AA \subseteq A /\ HH \subseteq H /\ unchecked' = unchecked
      \/ \E i : AA \subseteq A \cup {i} /\ HH \subseteq H /\ unchecked' = unchecked + 1
      \/ \E i : \E c \in H : AA \subseteq A \cup {i} /\ HH \subseteq H \ {c} /\ unchecked' = unchecked
      \/ \E c \in Clerks \ H :
            AA \subseteq A /\ HH \subseteq H \cup {c} /\ unchecked' = unchecked /\ HasRoom
  BY DEF PlanStep
<1> HIDE DEF A, H, AA, HH, N
<1>1. CASE AA \subseteq A /\ HH \subseteq H /\ unchecked' = unchecked
  <2>1. Cardinality(AA) \in Nat /\ Cardinality(AA) <= Cardinality(A)
    BY <1>0, <1>1, CountPart
  <2>2. Cardinality(HH) \in Nat /\ Cardinality(HH) <= Cardinality(H)
    BY <1>0, <1>1, CountPart
  <2> QED
    BY <1>0, <1>a, <1>1, <2>1, <2>2
<1>2. ASSUME NEW i, AA \subseteq A \cup {i}, HH \subseteq H, unchecked' = unchecked + 1
      PROVE  PlanFits'
  <2>1. Cardinality(AA) \in Nat /\ Cardinality(AA) <= Cardinality(A) + 1
    BY <1>0, <1>2, CountGain
  <2>2. Cardinality(HH) \in Nat /\ Cardinality(HH) <= Cardinality(H)
    BY <1>0, <1>2, CountPart
  <2> QED
    BY <1>0, <1>a, <1>2, <2>1, <2>2
<1>3. ASSUME NEW i, NEW c \in H, AA \subseteq A \cup {i}, HH \subseteq H \ {c}, unchecked' = unchecked
      PROVE  PlanFits'
  <2>1. Cardinality(AA) \in Nat /\ Cardinality(AA) <= Cardinality(A) + 1
    BY <1>0, <1>3, CountGain
  <2>2. Cardinality(HH) \in Nat /\ Cardinality(HH) + 1 <= Cardinality(H)
    BY <1>0, <1>3, CountLoss
  <2> QED
    BY <1>0, <1>a, <1>3, <2>1, <2>2
<1>4. ASSUME NEW c \in Clerks \ H, AA \subseteq A, HH \subseteq H \cup {c}, unchecked' = unchecked,
             HasRoom
      PROVE  PlanFits'
  <2>1. Cardinality(AA) \in Nat /\ Cardinality(AA) <= Cardinality(A)
    BY <1>0, <1>4, CountPart
  <2>2. HH \subseteq Clerks
    BY <1>0, <1>4
  <2>3. Cardinality(HH) \in Nat /\ Cardinality(HH) <= N
    BY <1>0, <2>2, CountPart DEF N
  <2> QED
    BY <1>0, <1>a, <1>b, <1>4, <2>1, <2>3
<1> QED
  BY <1>c, <1>1, <1>2, <1>3, <1>4

LEMMA NextRosterInv == RosterInv /\ [RosterNext]_rosterVars => RosterInv'
<1> SUFFICES ASSUME RosterInv, [RosterNext]_rosterVars PROVE RosterInv'
  OBVIOUS
<1>0. RosterType /\ JobsFit /\ RosterFresh /\ LinksFit /\ InvitesFit /\ PlanFits
  BY DEF RosterInv
<1>1. clerk' \in [Clerks -> Job] /\ JobsFit'
  BY <1>0, NextJobsFit
<1>2. /\ account' \in [AccountIds -> AccountRow \cup {None}]
      /\ opened' \in 0..MaxAccounts /\ linked' \in [AccountIds -> Nat]
      /\ RosterFresh' /\ LinksFit'
  BY <1>0, NextAccounts
<1>3. invite' \in [InviteIds -> InviteRow \cup {None}] /\ invited' \in 0..MaxInvites
  BY <1>0, InviteSteps
<1>4. PlanStep
  BY <1>0, PlanSteps
<1>5. unchecked' \in Nat
  BY <1>0, <1>4 DEF PlanStep, RosterType
<1>6. begun' \in Nat
  <2>1. begun' = begun \/ begun' = begun + 1
    BY DEF RosterNext, rosterVars, RegisterRead, LinkRead, InviteRead, CreateRead, RegisterCreate,
       LinkWrite, InviteClear, InviteStore, AcceptRead, AcceptCreate, AcceptMark, CreateWrite,
       DeleteRead, DeleteClean, DeleteWrite, ClerkDies, InviteExpires, SetEmail, SetActive,
       SetInactive, DeleteAccount, Records, Begin
  <2> QED
    BY <1>0, <2>1 DEF RosterType
<1>7. RosterType'
  BY <1>1, <1>2, <1>3, <1>5, <1>6 DEF RosterType
<1>8. InvitesFit'
  BY <1>0, NextInvitesFit
<1>9. PlanFits'
  BY <1>0, <1>4, <1>7, NextPlanFits
<1> QED
  BY <1>1, <1>2, <1>7, <1>8, <1>9 DEF RosterInv

LEMMA InitRosterInv == RosterInit => RosterInv
<1> SUFFICES ASSUME RosterInit PROVE RosterInv
  OBVIOUS
<1> USE RosterNumbers
<1> DEFINE r == Fresh(None, CHOOSE k \in EmpCodes : TRUE, None)
<1>1. r \in AccountRow /\ r # None
  <2> DEFINE k0 == CHOOSE k \in EmpCodes : TRUE
  <2>1. k0 \in EmpCodes
    BY RosterAssumption
  <2> HIDE DEF k0
  <2>2. Fresh(None, k0, None) \in AccountRow
    BY <2>1, FreshRow
  <2>3. r = Fresh(None, k0, None)
    BY DEF k0
  <2> QED
    BY <2>2, <2>3
<1>2. /\ account = [i \in AccountIds |-> IF i = 1 THEN r ELSE None] /\ opened = 1
      /\ invite = [v \in InviteIds |-> None] /\ invited = 0 /\ begun = 0 /\ unchecked = 0
      /\ clerk = [c \in Clerks |-> NoWork] /\ linked = [i \in AccountIds |-> 0]
  BY DEF RosterInit
<1> HIDE DEF r
<1>3. NoWork \in Job /\ NoWork.op = "idle"
  BY DEF NoWork, Job
<1>4. 1 \in AccountIds
  BY DEF AccountIds
<1>5. RosterType
  BY <1>1, <1>2, <1>3 DEF RosterType
<1>6. JobsFit
  BY <1>2, <1>3 DEF JobsFit, JobFits
<1>7. RosterFresh /\ LinksFit
  BY <1>2 DEF RosterFresh, LinksFit
<1>8. Accounts = {1} /\ ActiveHere \subseteq {1} /\ Hiring = {}
  BY <1>1, <1>2, <1>3, <1>4, <1>5, RosterSets DEF Hiring
<1>9. /\ Cardinality(Accounts) = 1 /\ Cardinality(ActiveHere) \in Nat /\ Cardinality(ActiveHere) <= 1
      /\ Cardinality(Hiring) = 0
  <2>1. IsFiniteSet({1}) /\ Cardinality({1}) = 1
    BY FS_Singleton
  <2> QED
    BY <1>8, <2>1, CountPart, FS_EmptySet
<1>10. InvitesFit
  BY <1>2, <1>3, <1>9 DEF InvitesFit
<1>11. PlanFits
  BY <1>2, <1>9 DEF PlanFits
<1> QED
  BY <1>5, <1>6, <1>7, <1>10, <1>11 DEF RosterInv

LEMMA RosterAlways == RosterSpec => []RosterInv
<1> QED
  BY InitRosterInv, NextRosterInv, PTL DEF RosterSpec

\* Two registrations for one employee code never both link the account
\* (register's conditional update).
THEOREM LinksHappenOnce == RosterSpec => []LinkedOnce
<1>1. RosterInv => LinkedOnce
  BY DEF RosterInv, LinksFit, LinkedOnce
<1> QED
  BY <1>1, RosterAlways, PTL

\* An invite that is used up has made an account (acceptAdminInvite).
THEOREM InvitesAreNeverWasted == RosterSpec => []InviteNeverWasted
<1>1. RosterInv => InviteNeverWasted
  <2> SUFFICES ASSUME RosterInv, NEW v \in Invites, invite[v].accepted
               PROVE  (\E i \in Accounts : account[i].from = v) \/ Cardinality(Accounts) < opened
    BY DEF InviteNeverWasted
  <2>1. /\ Accounts = {i \in AccountIds : account[i] # None}
        /\ Invites = {w \in InviteIds : invite[w] # None}
    BY RosterSets DEF RosterInv
  <2>2. Fulfilled(v)
    BY <2>1 DEF RosterInv, InvitesFit
  <2> QED
    BY <2>1, <2>2 DEF Fulfilled
<1> QED
  BY <1>1, RosterAlways, PTL

\* Creations that overlap pass the plan's limit by at most the other callers
\* (canAddWorker before create).
THEOREM PlansHold == RosterSpec => []WithinPlan
<1>1. RosterInv => WithinPlan
  <2> SUFFICES ASSUME RosterInv PROVE WithinPlan
    OBVIOUS
  <2>1. /\ Cardinality(ActiveHere) \in Nat /\ Cardinality(Hiring) \in Nat /\ unchecked \in Nat
        /\ Cardinality(Clerks) \in Nat /\ MaxWorkers \in Nat
    BY RosterSets, RosterNumbers DEF RosterInv
  <2> QED
    BY <2>1 DEF RosterInv, PlanFits, WithinPlan
<1> QED
  BY <1>1, RosterAlways, PTL

-----------------------------------------------------------------------------
(* The mails of the daily jobs *)

Steps == {"status", "stuck", "address", "digest", "forecast"}

Deliveries == {"sent", "failed", "unconfigured"}

PassJob == [pc : {"idle", "rollup", "done", "dead"} \cup Steps, kind : Kinds \cup {None},
            list : SUBSET Centres, left : SUBSET Centres, first : Centres \cup {None},
            stuck : Deliveries \cup {"-", "none", "nobody"}, found : SUBSET Items]

Mailed == [kind : {"stuck", "digest", "forecast", "rollup"}, on : Centres \cup {None},
           to : Centres \cup {None}, items : SUBSET Items, more : Nat]

Reported == [on : Centres, stuck : Deliveries \cup {"-", "none", "nobody", "failed", "excluded"},
             digest : Deliveries \cup {"none", "nobody", "failed", "excluded", "unasked"}]

NoticeType ==
    /\ DOMAIN item = Items
    /\ job \in PassJob /\ mails \in Seq(Mailed) /\ rows \in Seq(Reported)

Untouched == {i \in Items : <<"item", i>> \notin touched}

Due(n) == {i \in Untouched : Stuck(i) /\ Home(i) = n}

\* A mail names stuck work of its centre only, and counts what it does not name.
Named(m, n) ==
    /\ mails[m].items \cap Untouched \subseteq Due(n)
    /\ mails[m].more \in Nat /\ Cardinality(Due(n) \ mails[m].items) <= mails[m].more
    /\ mails[m].more = 0 \/ Cardinality(mails[m].items) = MailRows

\* The outcome told for the stuck work of a centre is what its mail says.
StuckTold(n, outcome) ==
    /\ (outcome = "sent") <=> (Sent("stuck", n) # {})
    /\ \A m \in Sent("stuck", n) : Named(m, n)
    /\ outcome = "none" => Due(n) = {}

\* A centre has its row, once it has left the list; until then it has no mail,
\* but for the one of stuck work of the centre whose turn it is.
RowsTell ==
    /\ job.list = job.left \cup {rows[k].on : k \in 1..Len(rows)}
    /\ \A k, l \in 1..Len(rows) : rows[k].on = rows[l].on => k = l
    /\ \A k \in 1..Len(rows) :
        /\ rows[k].on \notin job.left
        /\ StuckTold(rows[k].on, rows[k].stuck)
        /\ (rows[k].digest = "sent") <=> SummarySent(rows[k].on)

OneMail ==
    \A kind \in {"stuck", "digest", "forecast"}, n \in Centres :
        \A m, o \in Sent(kind, n) : m = o

NoMailYet ==
    \A n \in job.left :
        /\ Sent("digest", n) = {} /\ Sent("forecast", n) = {}
        /\ Sent("stuck", n) # {} => n = c0 /\ job.pc = "digest"

Stage ==
    /\ job.pc \in Steps => job.left # {} /\ job.kind \in Kinds
    /\ job.pc \in {"rollup", "done"} => job.left = {}
    /\ job.pc = "status" => job.stuck = "-"
    /\ job.pc \in {"stuck", "address"} => job.kind = "evening"
    /\ job.pc = "forecast" => job.kind = "forecast" /\ job.stuck = "-"
    /\ job.pc = "digest" => job.kind # "forecast" /\ StuckTold(c0, job.stuck)
    /\ job.pc = "address" => job.found \cap Untouched = Due(c0)

\* Inductive: what the report says so far, and what the pass knows of the centre
\* whose turn it is.
NoticesInv ==
    /\ NoticeType
    /\ job.pc = "idle" => mails = <<>> /\ rows = <<>> /\ job = NoJob
    /\ job.pc \notin {"idle", "dead"} => RowsTell /\ OneMail /\ NoMailYet /\ Stage

LEMMA OldestIs ==
    ASSUME NEW S \in SUBSET Centres, S # {}
    PROVE  Oldest(S) \in S
<1>1. S \subseteq Nat
  BY NoticesAssumption DEF Centres
<1>2. PICK n \in S : \A m \in S : ~ (<<m, n>> \in OpToRel(<, Nat))
  BY <1>1, WFMin, NatLessThanWellFounded
<1>3. \A m \in S : ~ (m < n)
  BY <1>1, <1>2 DEF OpToRel
<1>4. \A m \in S : n <= m
  BY <1>1, <1>3
<1> QED
  BY <1>4 DEF Oldest

LEMMA NoneIsNoCentre == None \notin Centres /\ Centres \subseteq Int /\ 0 \notin Centres
BY NoticesAssumption, NullAssumption DEF Centres

\* Which mails are counted does not change as others are sent.
LEMMA SentSame ==
    ASSUME mails' = mails, NEW kind, NEW n PROVE Sent(kind, n)' = Sent(kind, n)
BY DEF Sent

LEMMA SentMore ==
    ASSUME NoticeType, NEW r \in Mailed, mails' = Append(mails, r), NEW kind, NEW n
    PROVE  /\ Sent(kind, n)' = IF r.kind = kind /\ r.on = n
                               THEN Sent(kind, n) \cup {Len(mails) + 1} ELSE Sent(kind, n)
           /\ \A m \in Sent(kind, n) : mails'[m] = mails[m] /\ m # Len(mails) + 1
           /\ mails'[Len(mails) + 1] = r
           /\ mails' \in Seq(Mailed)
<1>1. mails \in Seq(Mailed) /\ Len(mails) \in Nat
  BY DEF NoticeType
<1>2. /\ mails' \in Seq(Mailed) /\ Len(mails') = Len(mails) + 1
      /\ mails'[Len(mails) + 1] = r
      /\ \A m \in 1..Len(mails) : mails'[m] = mails[m]
  BY <1>1
<1>3. /\ 1..Len(mails') = 1..Len(mails) \cup {Len(mails) + 1}
      /\ Len(mails) + 1 \notin 1..Len(mails)
  BY <1>1, <1>2
<1> QED
  BY <1>2, <1>3 DEF Sent

\* What was told stays true as long as the rows it is about do: an item that moves
\* is not accounted for any more.
LEMMA TellsOn ==
    ASSUME NEW n, NEW outcome, StuckTold(n, outcome),
           Sent("stuck", n)' = Sent("stuck", n),
           \A m \in Sent("stuck", n) : mails'[m] = mails[m],
           Untouched' \subseteq Untouched, Due(n)' = Due(n) \cap Untouched'
    PROVE  StuckTold(n, outcome)'
<1>1. ASSUME NEW m \in Sent("stuck", n) PROVE Named(m, n)'
  <2>1. PICK R, Q : R = Due(n) \ mails[m].items /\ Q = Due(n)' \ mails[m].items
    OBVIOUS
  <2>2. Q \subseteq R /\ R \subseteq Items
    BY <2>1 DEF Due, Untouched
  <2>3. /\ Cardinality(R) \in Nat /\ Cardinality(Q) \in Nat
        /\ Cardinality(Q) <= Cardinality(R)
    BY <2>2, NoticesAssumption, CountPart
  <2>4. Named(m, n) /\ mails'[m] = mails[m]
    BY <1>1 DEF StuckTold
  <2> QED
    BY <2>1, <2>3, <2>4 DEF Named
<1>2. ASSUME NEW m \in Sent("stuck", n)' PROVE Named(m, n)'
  BY <1>1
<1> QED
  BY <1>2 DEF StuckTold

LEMMA SummarySame ==
    ASSUME job'.kind = job.kind, NEW q,
           Sent("digest", q)' = Sent("digest", q), Sent("forecast", q)' = Sent("forecast", q)
    PROVE  SummarySent(q)' <=> SummarySent(q)
BY DEF SummarySent

\* The items stand still while the pass takes a step.
LEMMA StillDue ==
    ASSUME UNCHANGED <<item, touched>>, job'.first = job.first, NEW n
    PROVE  Untouched' = Untouched /\ Due(n)' = Due(n) /\ Due(n) \subseteq Untouched
BY DEF Untouched, Due, Stuck, Home

\* Only centre n gets a mail.
MailsGo(n) ==
    /\ mails' \in Seq(Mailed)
    /\ \A kind \in {"stuck", "digest", "forecast"}, q \in Centres \ {n} :
        Sent(kind, q)' = Sent(kind, q) /\ \A m \in Sent(kind, q) : mails'[m] = mails[m]

\* A step of the pass that writes no row: it sends nothing, or the mail of stuck
\* work.
Onward(n) ==
    /\ UNCHANGED <<item, touched, rows>>
    /\ job' \in PassJob /\ job'.pc # "idle"
    /\ job'.left = job.left /\ job'.kind = job.kind /\ job'.first = job.first
    /\ job'.list = job.list
    /\ MailsGo(n)
    /\ \/ n = None /\ (job.pc = "digest" => job'.pc = "digest")
       \/ /\ n = c0 /\ job.left # {} /\ job'.pc = "digest"
          /\ Sent("digest", n)' = {} /\ Sent("forecast", n)' = {}
          /\ \A m, o \in Sent("stuck", n)' : m = o

LEMMA OnwardKeeps ==
    ASSUME NoticesInv, job.pc \notin {"idle", "dead"}, NEW n, Onward(n), Stage'
    PROVE  NoticesInv'
<1> USE DEF Onward
<1>0. NoticeType /\ RowsTell /\ OneMail /\ NoMailYet
  BY DEF NoticesInv
<1>1. n = None \/ (n \in job.left /\ n \in Centres /\ job'.pc = "digest")
  BY <1>0, OldestIs DEF c0, NoticeType, PassJob
<1>2. ASSUME NEW k \in 1..Len(rows)
      PROVE  rows[k].on \in Centres \ {n} /\ rows[k].on \notin job.left
  <2>1. rows \in Seq(Reported)
    BY <1>0 DEF NoticeType
  <2>2. rows[k] \in Reported
    BY <2>1, <1>2
  <2>3. rows[k].on \in Centres
    BY <2>2 DEF Reported
  <2>4. rows[k].on \notin job.left
    BY <1>0, <1>2 DEF RowsTell
  <2> QED
    BY <1>1, <2>3, <2>4, NoneIsNoCentre
<1>3. RowsTell'
  <2>1. ASSUME NEW k \in 1..Len(rows), NEW q, NEW outcome, q = rows[k].on, outcome = rows[k].stuck
        PROVE  /\ StuckTold(q, outcome)'
               /\ ((rows[k].digest = "sent") <=> SummarySent(q)')
    <3>1. q \in Centres \ {n} /\ StuckTold(q, outcome)
      BY <1>0, <1>2, <2>1 DEF RowsTell
    <3>2. Untouched' = Untouched /\ Due(q)' = Due(q) /\ Due(q) \subseteq Untouched
      BY StillDue
    <3>3. StuckTold(q, outcome)'
      BY <3>1, <3>2, TellsOn DEF MailsGo
    <3>4. Sent("digest", q)' = Sent("digest", q) /\ Sent("forecast", q)' = Sent("forecast", q)
      BY <3>1 DEF MailsGo
    <3>6. SummarySent(q)' <=> SummarySent(q)
      BY <3>4, SummarySame
    <3>5. ((rows[k].digest = "sent") <=> SummarySent(q))
      BY <1>0, <2>1 DEF RowsTell
    <3> QED
      BY <3>3, <3>5, <3>6
  <2>2. ASSUME NEW k \in 1..Len(rows')
        PROVE  /\ StuckTold(rows[k].on, rows[k].stuck)'
               /\ ((rows'[k].digest = "sent") <=> SummarySent(rows[k].on)')
    <3>1. PICK q, outcome : q = rows[k].on /\ outcome = rows[k].stuck
      OBVIOUS
    <3>2. /\ StuckTold(q, outcome)'
          /\ ((rows[k].digest = "sent") <=> SummarySent(q)')
      BY <2>1, <3>1
    <3> QED
      BY <3>1, <3>2 DEF StuckTold, Named, SummarySent, Sent, Due
  <2> QED
    BY <1>0, <2>2 DEF RowsTell
<1>4. OneMail'
  <2>1. ASSUME NEW kind \in {"stuck", "digest", "forecast"}, NEW q \in Centres
        PROVE  \A m, o \in Sent(kind, q)' : m = o
    <3>1. CASE q # n
      BY <1>0, <3>1 DEF OneMail, MailsGo
    <3>2. CASE q = n
      BY <1>1, <3>2, NoneIsNoCentre
    <3> QED
      BY <3>1, <3>2
  <2> QED
    BY <2>1 DEF OneMail
<1>5. NoMailYet'
  <2>1. c0' = c0
    BY DEF c0
  <2>2. ASSUME NEW q \in job.left
        PROVE  /\ Sent("digest", q)' = {} /\ Sent("forecast", q)' = {}
               /\ Sent("stuck", q)' # {} => q = c0 /\ job'.pc = "digest"
    <3>1. q \in Centres
      BY <1>0 DEF NoticeType, PassJob
    <3>2. CASE q # n
      BY <1>0, <1>1, <3>1, <3>2 DEF NoMailYet, MailsGo
    <3>3. CASE q = n
      BY <1>1, <3>1, <3>3, NoneIsNoCentre
    <3> QED
      BY <3>2, <3>3
  <2> QED
    BY <2>1, <2>2 DEF NoMailYet
<1> QED
  BY <1>0, <1>3, <1>4, <1>5 DEF NoticesInv, NoticeType, MailsGo

\* The row of the centre whose turn it is, with or without a mail to it.
LEMMA RowKeeps ==
    ASSUME NoticesInv, job.pc \in Steps, UNCHANGED <<item, touched>>,
           NEW n, n = c0, NEW stuck, NEW digest, Row(stuck, digest),
           [on |-> n, stuck |-> stuck, digest |-> digest] \in Reported,
           MailsGo(n),
           StuckTold(n, stuck)',
           ((digest = "sent") <=> SummarySent(n)'),
           \A kind \in {"stuck", "digest", "forecast"} : \A m, o \in Sent(kind, n)' : m = o
    PROVE  NoticesInv'
<1>0. NoticeType /\ RowsTell /\ OneMail /\ NoMailYet /\ job.left # {} /\ job.kind \in Kinds
  BY DEF NoticesInv, Stage, Steps
<1>1. n \in job.left /\ n \in Centres
  BY <1>0, OldestIs DEF c0, NoticeType, PassJob
<1>2. PICK row : row = [on |-> n, stuck |-> stuck, digest |-> digest]
  OBVIOUS
<1>3. /\ row \in Reported /\ row.on = n /\ row.stuck = stuck /\ row.digest = digest
      /\ rows \in Seq(Reported) /\ Len(rows) \in Nat
      /\ rows' = Append(rows, row)
  BY <1>0, <1>2 DEF Row, NoticeType
<1>4. /\ rows' \in Seq(Reported) /\ Len(rows') = Len(rows) + 1 /\ rows'[Len(rows) + 1] = row
      /\ \A k \in 1..Len(rows) : rows'[k] = rows[k]
      /\ 1..Len(rows') = 1..Len(rows) \cup {Len(rows) + 1}
  BY <1>3
<1>5. /\ job' \in PassJob /\ job'.left = job.left \ {n} /\ job'.kind = job.kind /\ job'.list = job.list
      /\ job'.first = job.first /\ job'.stuck = "-"
      /\ job'.pc = IF job.left = {n} THEN "rollup" ELSE "status"
  BY <1>0 DEF Row, NoticeType, PassJob, Steps
<1>6. ASSUME NEW k \in 1..Len(rows) PROVE rows[k].on \notin job.left /\ rows[k].on # n
  BY <1>0, <1>1, <1>6 DEF RowsTell
<1>7. ASSUME NEW k \in 1..Len(rows')
      PROVE  /\ rows'[k].on \notin job'.left
             /\ \A l \in 1..Len(rows') : rows'[k].on = rows'[l].on => k = l
  <2>1. CASE k = Len(rows) + 1
    BY <1>3, <1>4, <1>5, <1>6, <2>1
  <2>2. CASE k \in 1..Len(rows)
    BY <1>0, <1>3, <1>4, <1>5, <1>6, <2>2 DEF RowsTell
  <2> QED
    BY <1>4, <2>1, <2>2
<1>8. ASSUME NEW k \in 1..Len(rows'), NEW q, NEW outcome, q = rows'[k].on, outcome = rows'[k].stuck
      PROVE  /\ StuckTold(q, outcome)'
             /\ ((rows'[k].digest = "sent") <=> SummarySent(q)')
  <2>1. CASE k = Len(rows) + 1
    <3>1. q = n /\ outcome = stuck /\ rows'[k].digest = digest
      BY <1>3, <1>4, <1>8, <2>1
    <3> QED
      BY <1>5, <3>1
  <2>2. CASE k \in 1..Len(rows)
    <3>1. q = rows[k].on /\ outcome = rows[k].stuck /\ q # n /\ rows'[k] = rows[k]
      BY <1>4, <1>6, <1>8, <2>2
    <3>2. StuckTold(q, outcome)
      BY <1>0, <2>2, <3>1 DEF RowsTell
    <3>3. Untouched' = Untouched /\ Due(q)' = Due(q) /\ Due(q) \subseteq Untouched
      BY <1>5, StillDue
    <3>7. rows[k] \in Reported
      BY <1>3, <2>2
    <3>8. q \in Centres \ {n}
      BY <3>1, <3>7 DEF Reported
    <3>4. StuckTold(q, outcome)'
      BY <3>2, <3>3, <3>8, TellsOn DEF MailsGo
    <3>9. Sent("digest", q)' = Sent("digest", q) /\ Sent("forecast", q)' = Sent("forecast", q)
      BY <3>8 DEF MailsGo
    <3>5. SummarySent(q)' <=> SummarySent(q)
      BY <1>5, <3>9, SummarySame
    <3>6. ((rows[k].digest = "sent") <=> SummarySent(q))
      BY <1>0, <2>2, <3>1 DEF RowsTell
    <3> QED
      BY <1>5, <3>1, <3>4, <3>5, <3>6
  <2> QED
    BY <1>4, <2>1, <2>2
<1>9. RowsTell'
  <2>1. ASSUME NEW k \in 1..Len(rows')
        PROVE  /\ StuckTold(rows[k].on, rows[k].stuck)'
               /\ ((rows'[k].digest = "sent") <=> SummarySent(rows[k].on)')
    <3>1. PICK q, outcome : q = rows'[k].on /\ outcome = rows'[k].stuck
      OBVIOUS
    <3>2. /\ StuckTold(q, outcome)'
          /\ ((rows'[k].digest = "sent") <=> SummarySent(q)')
      BY <1>8, <3>1
    <3> QED
      BY <3>1, <3>2 DEF StuckTold, Named, SummarySent, Sent, Due
  <2>2. job'.list = job'.left \cup {rows'[k].on : k \in 1..Len(rows')}
    <3>1. job.list = job.left \cup {rows[k].on : k \in 1..Len(rows)}
      BY <1>0 DEF RowsTell
    <3>2. {rows'[k].on : k \in 1..Len(rows')} = {rows[k].on : k \in 1..Len(rows)} \cup {n}
      BY <1>3, <1>4
    <3>3. job.list = job'.left \cup {rows'[k].on : k \in 1..Len(rows')}
      BY <1>1, <1>5, <3>1, <3>2
    <3> QED
      BY <1>5, <3>3
  <2> QED
    BY <1>7, <2>1, <2>2 DEF RowsTell
<1>10. OneMail'
  <2>1. ASSUME NEW kind \in {"stuck", "digest", "forecast"}, NEW q \in Centres, q # n
        PROVE  \A m, o \in Sent(kind, q)' : m = o
    BY <1>0, <2>1 DEF OneMail, MailsGo
  <2> QED
    BY <2>1 DEF OneMail
<1>11. NoMailYet'
  <2>1. ASSUME NEW q \in job.left, q # n
        PROVE  Sent("digest", q)' = {} /\ Sent("forecast", q)' = {} /\ Sent("stuck", q)' = {}
    <3>1. q \in Centres
      BY <1>0 DEF NoticeType, PassJob
    <3> QED
      BY <1>0, <2>1, <3>1 DEF NoMailYet, MailsGo
  <2> QED
    BY <1>5, <2>1 DEF NoMailYet
<1>12. Stage'
  BY <1>0, <1>1, <1>5 DEF Stage, Steps
<1> QED
  BY <1>4, <1>5, <1>9, <1>10, <1>11, <1>12 DEF NoticesInv, NoticeType, MailsGo

\* What the pass knows while it is at a centre.
LEMMA AtTurn ==
    ASSUME NoticesInv, job.pc \in Steps
    PROVE  /\ NoticeType /\ RowsTell /\ OneMail /\ NoMailYet /\ Stage
           /\ job.left # {} /\ job.kind \in Kinds
           /\ c0 \in job.left /\ c0 \in Centres /\ c0 # None
           /\ Sent("digest", c0) = {} /\ Sent("forecast", c0) = {}
           /\ job.pc # "digest" => Sent("stuck", c0) = {}
<1>1. NoticeType /\ RowsTell /\ OneMail /\ NoMailYet /\ Stage
  BY DEF NoticesInv, Steps
<1>2. job.left # {} /\ job.kind \in Kinds
  BY <1>1 DEF Stage
<1>3. job.left \in SUBSET Centres
  BY <1>1 DEF NoticeType, PassJob
<1>4. c0 \in job.left
  BY <1>2, <1>3, OldestIs DEF c0
<1>5. c0 \in Centres /\ c0 # None
  BY <1>3, <1>4, NoneIsNoCentre
<1> QED
  BY <1>1, <1>2, <1>4, <1>5 DEF NoMailYet

\* Before its mail, the centre is told anything but of a mail, or of nothing found.
LEMMA Quiet ==
    ASSUME NEW n, NEW outcome, Sent("stuck", n) = {}, outcome \notin {"sent", "none"}
    PROVE  StuckTold(n, outcome)
BY DEF StuckTold

LEMMA NoMails ==
    ASSUME mails' = mails, NoticeType, NEW n PROVE MailsGo(n)
<1>1. mails' \in Seq(Mailed)
  BY DEF NoticeType
<1> QED
  BY <1>1, SentSame DEF MailsGo

LEMMA RowSilent ==
    ASSUME NoticesInv, job.pc \in Steps, UNCHANGED <<item, touched, mails>>,
           NEW n, n = c0, NEW stuck, NEW digest, Row(stuck, digest),
           [on |-> n, stuck |-> stuck, digest |-> digest] \in Reported,
           StuckTold(n, stuck), digest # "sent"
    PROVE  NoticesInv'
<1>1. /\ NoticeType /\ OneMail /\ n \in Centres
      /\ Sent("digest", n) = {} /\ Sent("forecast", n) = {}
  BY AtTurn
<1>2. MailsGo(n)
  BY <1>1, NoMails
<1>3. job'.first = job.first
  BY <1>1 DEF Row, NoticeType, PassJob
<1>4. Untouched' = Untouched /\ Due(n)' = Due(n) /\ Due(n) \subseteq Untouched
  BY <1>3, StillDue
<1>5. \A kind : Sent(kind, n)' = Sent(kind, n)
  BY SentSame
<1>6. StuckTold(n, stuck)'
  BY <1>4, <1>5, TellsOn
<1>7. \A kind \in {"stuck", "digest", "forecast"} : \A m, o \in Sent(kind, n)' : m = o
  BY <1>1, <1>5 DEF OneMail
<1>8. Sent("digest", n)' = {} /\ Sent("forecast", n)' = {}
  BY <1>1, <1>5
<1>9. ~(SummarySent(n)')
  BY <1>8 DEF SummarySent
<1> QED
  BY <1>2, <1>6, <1>7, <1>9, RowKeeps

LEMMA RowSends ==
    ASSUME NoticesInv, job.pc \in Steps, UNCHANGED <<item, touched>>,
           NEW n, n = c0, NEW stuck, NEW outcome \in Deliveries, Row(stuck, outcome),
           [on |-> n, stuck |-> stuck, digest |-> outcome] \in Reported,
           StuckTold(n, stuck),
           NEW kind, kind = IF job.kind = "forecast" THEN "forecast" ELSE "digest",
           NEW to \in {n, None}, Mail(kind, outcome, n, to, {}, 0)
    PROVE  NoticesInv'
<1>1. /\ NoticeType /\ OneMail /\ n \in Centres /\ n # None
      /\ Sent("digest", n) = {} /\ Sent("forecast", n) = {}
  BY AtTurn
<1>2. CASE outcome # "sent"
  BY <1>2, RowSilent DEF Mail
<1>3. CASE outcome = "sent"
  <2>1. PICK r : r = [kind |-> kind, on |-> n, to |-> to, items |-> {}, more |-> 0]
    OBVIOUS
  <2>11. kind \in {"digest", "forecast"} /\ 0 \in Nat /\ {} \in SUBSET Items
    OBVIOUS
  <2>12. r \in Mailed
    BY <1>1, <2>1, <2>11 DEF Mailed
  <2>2. r \in Mailed /\ r.kind = kind /\ r.on = n /\ mails' = Append(mails, r)
    BY <1>3, <2>1, <2>12 DEF Mail
  <2>3. ASSUME NEW k, NEW q
        PROVE  /\ Sent(k, q)' = IF kind = k /\ n = q THEN Sent(k, q) \cup {Len(mails) + 1} ELSE Sent(k, q)
               /\ \A m \in Sent(k, q) : mails'[m] = mails[m] /\ m # Len(mails) + 1
               /\ mails' \in Seq(Mailed)
    <3>1. NoticeType /\ r \in Mailed /\ mails' = Append(mails, r)
      BY <1>1, <2>2
    <3>2. Sent(k, q)' = IF r.kind = k /\ r.on = q THEN Sent(k, q) \cup {Len(mails) + 1} ELSE Sent(k, q)
      BY <3>1, SentMore
    <3>3. \A m \in Sent(k, q) : mails'[m] = mails[m] /\ m # Len(mails) + 1
      BY <3>1, SentMore
    <3>4. mails' \in Seq(Mailed)
      BY <3>1, SentMore
    <3> QED
      BY <2>2, <3>2, <3>3, <3>4
  <2>4. MailsGo(n)
    BY <2>3, NoneIsNoCentre DEF MailsGo
  <2>5. job'.first = job.first
    BY <1>1 DEF Row, NoticeType, PassJob
  <2>6. Untouched' = Untouched /\ Due(n)' = Due(n) /\ Due(n) \subseteq Untouched
    BY <2>5, StillDue
  <2>7. Sent("stuck", n)' = Sent("stuck", n) /\ \A m \in Sent("stuck", n) : mails'[m] = mails[m]
    BY <2>3
  <2>8. StuckTold(n, stuck)'
    BY <2>6, <2>7, TellsOn
  <2>9. \A k \in {"stuck", "digest", "forecast"} : \A m, o \in Sent(k, n)' : m = o
    <3>1. ASSUME NEW k \in {"digest", "forecast"} PROVE \A m, o \in Sent(k, n)' : m = o
      BY <1>1, <2>3
    <3>2. \A m, o \in Sent("stuck", n)' : m = o
      BY <1>1, <2>7 DEF OneMail
    <3> QED
      BY <3>1, <3>2
  <2>13. job'.kind = job.kind
    BY <1>1 DEF Row, NoticeType, PassJob
  <2>10. ((outcome = "sent") <=> SummarySent(n)')
    BY <1>3, <2>3, <2>13 DEF SummarySent
  <2> QED
    BY <2>4, <2>8, <2>9, <2>10, RowKeeps
<1> QED
  BY <1>2, <1>3

\* The mail of stuck work names the items that began first.
StuckMail(named) ==
    /\ Shows(job.found, named)
    /\ mails' = Append(mails, [kind |-> "stuck", on |-> c0, to |-> c0, items |-> named,
                               more |-> Cardinality(job.found \ named)])

\* It is sent, or none is.
LEMMA AddressKeeps ==
    ASSUME NoticesInv, job.pc \in {"stuck", "address"}, UNCHANGED <<item, touched, rows>>,
           NEW outcome \in Deliveries \cup {"none", "nobody"}, ToDigest(outcome),
           \/ mails' = mails /\ StuckTold(c0, outcome)
           \/ /\ outcome = "sent" /\ job.pc = "address"
              /\ \E named \in SUBSET job.found : StuckMail(named)
    PROVE  NoticesInv'
<1>0. PICK n : n = c0
  OBVIOUS
<1>1. /\ NoticeType /\ Stage /\ n \in Centres /\ n # None /\ job.kind = "evening"
      /\ job.left # {} /\ job \in PassJob
      /\ Sent("digest", n) = {} /\ Sent("forecast", n) = {} /\ Sent("stuck", n) = {}
  BY <1>0, AtTurn DEF Steps, Stage, NoticeType
<1>2. /\ job' \in PassJob /\ job'.pc = "digest" /\ job'.left = job.left /\ job'.kind = job.kind
      /\ job'.first = job.first /\ job'.stuck = outcome /\ job'.list = job.list
  BY <1>1 DEF ToDigest, PassJob, Steps
<1>3. c0' = n
  BY <1>0, <1>2 DEF c0
<1>4. Untouched' = Untouched /\ Due(n)' = Due(n) /\ Due(n) \subseteq Untouched
  BY <1>2, StillDue
<1>5. ASSUME StuckTold(n, outcome)' PROVE Stage'
  <2>1. PICK told \in BOOLEAN : told = (StuckTold(n, outcome)')
    BY DEF StuckTold
  <2>2. StuckTold(c0, job.stuck)'
    BY <1>2, <1>3, <1>5 DEF StuckTold, Named, Due, Home, Sent
  <2> QED
    BY <1>1, <1>2, <2>2 DEF Stage, Steps
<1>6. CASE mails' = mails /\ StuckTold(c0, outcome)
  <2>1. Sent("stuck", n)' = Sent("stuck", n)
    BY <1>6, SentSame
  <2>2. StuckTold(n, outcome)'
    BY <1>0, <1>4, <1>6, <2>1, TellsOn
  <2>3. MailsGo(None)
    BY <1>1, <1>6, NoMails
  <2>4. Onward(None)
    BY <1>2, <2>3 DEF Onward
  <2> QED
    BY <1>1, <1>5, <2>2, <2>4, OnwardKeeps
<1>7. CASE /\ outcome = "sent" /\ job.pc = "address"
           /\ \E named \in SUBSET job.found : StuckMail(named)
  <2>11. PICK named \in SUBSET job.found : StuckMail(named)
    BY <1>7
  <2>12. PICK found, rest : found = job.found /\ rest = Cardinality(found \ named)
    OBVIOUS
  <2>13. /\ found \subseteq Items /\ IsFiniteSet(found) /\ rest \in Nat
         /\ rest = 0 \/ Cardinality(named) = MailRows
    <3>1. found \subseteq Items /\ IsFiniteSet(found)
      BY <1>1, <2>12, NoticesAssumption, FS_Subset DEF PassJob
    <3>2. /\ IsFiniteSet(found \ named) /\ rest \in Nat /\ IsFiniteSet(named)
      BY <2>12, <3>1, CountPart
    <3>3. CASE Cardinality(named) = MailRows
      BY <3>1, <3>2, <3>3
    <3>4. CASE Cardinality(named) # MailRows
      <4>1. Cardinality(named) = Cardinality(found)
        BY <2>11, <2>12, <3>4 DEF StuckMail, Shows
      <4>2. named = found
        BY <2>12, <3>1, <4>1, FS_Subset
      <4>3. rest = 0
        BY <2>12, <4>2, FS_EmptySet
      <4> QED
        BY <3>1, <3>2, <4>3
    <3> QED
      BY <3>3, <3>4
  <2>1. PICK r : r = [kind |-> "stuck", on |-> n, to |-> n, items |-> named, more |-> rest]
    OBVIOUS
  <2>2. /\ r \in Mailed /\ r.kind = "stuck" /\ r.on = n /\ r.items = named /\ r.more = rest
        /\ mails' = Append(mails, r)
    <3>1. named \subseteq Items
      BY <2>12, <2>13
    <3>2. mails' = Append(mails, r)
      BY <1>0, <2>1, <2>11, <2>12 DEF StuckMail
    <3> QED
      BY <1>1, <2>1, <2>13, <3>1, <3>2 DEF Mailed
  <2>3. ASSUME NEW k, NEW q
        PROVE  /\ Sent(k, q)' = IF k = "stuck" /\ q = n THEN Sent(k, q) \cup {Len(mails) + 1} ELSE Sent(k, q)
               /\ \A m \in Sent(k, q) : mails'[m] = mails[m] /\ m # Len(mails) + 1
               /\ mails' \in Seq(Mailed) /\ mails'[Len(mails) + 1] = r
    <3>1. NoticeType /\ r \in Mailed /\ mails' = Append(mails, r)
      BY <1>1, <2>2
    <3>2. Sent(k, q)' = IF r.kind = k /\ r.on = q THEN Sent(k, q) \cup {Len(mails) + 1} ELSE Sent(k, q)
      BY <3>1, SentMore
    <3>3. \A m \in Sent(k, q) : mails'[m] = mails[m] /\ m # Len(mails) + 1
      BY <3>1, SentMore
    <3>4. mails' \in Seq(Mailed) /\ mails'[Len(mails) + 1] = r
      BY <3>1, SentMore
    <3> QED
      BY <2>2, <3>2, <3>3, <3>4
  <2>4. MailsGo(n)
    BY <2>3 DEF MailsGo
  <2>5. Sent("stuck", n)' = {Len(mails) + 1}
    BY <1>1, <2>3
  <2>6. Sent("digest", n)' = {} /\ Sent("forecast", n)' = {}
    BY <1>1, <2>3
  <2>7. Onward(n)
    BY <1>0, <1>1, <1>2, <2>4, <2>5, <2>6 DEF Onward
  <2>8. job.found \cap Untouched = Due(n)
    BY <1>0, <1>1, <1>7 DEF Stage
  <2>9. PICK m, d : m = Len(mails) + 1 /\ d = Due(n)
    OBVIOUS
  <2>14. Named(m, n)'
    <3>1. mails'[m] = r /\ Due(n)' = d /\ d = found \cap Untouched /\ Untouched' = Untouched
      BY <1>4, <2>3, <2>8, <2>9, <2>12
    <3>2. named \cap Untouched \subseteq d /\ d \ named \subseteq found \ named
      BY <2>12, <3>1
    <3>3. Cardinality(d \ named) <= rest
      <4>1. PICK R, Q : R = found \ named /\ Q = d \ named
        OBVIOUS
      <4>2. IsFiniteSet(R) /\ Q \subseteq R
        BY <2>13, <3>2, <4>1, FS_Subset
      <4>3. Cardinality(Q) <= Cardinality(R)
        BY <4>2, CountPart
      <4> QED
        BY <2>12, <4>1, <4>3
    <3> QED
      BY <2>2, <2>13, <3>1, <3>2, <3>3 DEF Named
  <2>15. ASSUME NEW o \in Sent("stuck", n)' PROVE Named(o, n)'
    BY <2>5, <2>9, <2>14
  <2>10. StuckTold(n, outcome)'
    BY <1>7, <2>5, <2>15 DEF StuckTold
  <2> QED
    BY <1>1, <1>5, <2>7, <2>10, OnwardKeeps
<1> QED
  BY <1>6, <1>7

LEMMA NoticesInitially == NoticesInit => NoticesInv
<1> SUFFICES ASSUME NoticesInit PROVE NoticesInv
  OBVIOUS
<1>1. DOMAIN item = Items /\ job = NoJob /\ mails = <<>> /\ rows = <<>>
  BY DEF NoticesInit, NoticesFrom, FirstItems
<1>2. job \in PassJob /\ job.pc = "idle"
  BY <1>1 DEF NoJob, PassJob
<1> QED
  BY <1>1, <1>2 DEF NoticesInv, NoticeType

LEMMA StartPassKeeps ==
    ASSUME NoticesInv, NEW kind \in Kinds, StartPass(kind) PROVE NoticesInv'
<1>1. PICK list : list = listTopLevelActiveSites
  OBVIOUS
<1>2. list \subseteq Centres
  BY <1>1 DEF listTopLevelActiveSites
<1>3. PICK f : f = IF list = {} THEN None ELSE Oldest(list)
  OBVIOUS
<1>4. f \in Centres \cup {None}
  BY <1>2, <1>3, OldestIs
<1>5. job' = [pc |-> IF list = {} THEN "done" ELSE "status", kind |-> kind, list |-> list,
              left |-> list, first |-> f, stuck |-> "-", found |-> {}]
  BY <1>1, <1>3 DEF StartPass, NoJob
<1>6. job' \in PassJob
  BY <1>2, <1>4, <1>5 DEF PassJob, Steps
<1>8. mails' = <<>> /\ rows' = <<>> /\ DOMAIN item' = Items
  BY DEF StartPass, NoticesInv, NoticeType
<1>9. NoticeType'
  BY <1>6, <1>8 DEF NoticeType
<1>10. \A k, n : Sent(k, n)' = {}
  BY <1>8 DEF Sent
<1>13. {rows'[k].on : k \in 1..Len(rows')} = {}
  BY <1>8
<1>11. RowsTell' /\ OneMail' /\ NoMailYet'
  BY <1>5, <1>8, <1>10, <1>13 DEF RowsTell, OneMail, NoMailYet
<1>12. Stage'
  BY <1>5 DEF Stage, Steps
<1> QED
  BY <1>5, <1>9, <1>11, <1>12 DEF NoticesInv

LEMMA CheckStatusKeeps == ASSUME NoticesInv, CheckStatus PROVE NoticesInv'
<1>0. job.pc = "status" /\ job.pc \in Steps
  BY DEF CheckStatus, Steps
<1>1. PICK n : n = c0
  OBVIOUS
<1>2. /\ NoticeType /\ n \in Centres /\ Sent("stuck", n) = {} /\ job.left # {}
      /\ job \in PassJob /\ job.stuck = "-" /\ job.kind \in Kinds
  BY <1>0, <1>1, AtTurn DEF NoticeType, Stage, PassJob
<1>3. CASE isCustomerNotifiable(centre[c0].status)
  <2>1. PICK pc : pc = CASE job.kind = "evening" -> "stuck"
                         [] job.kind = "weekly" -> "digest"
                         [] OTHER -> "forecast"
    OBVIOUS
  <2>2. job' = [job EXCEPT !.pc = pc] /\ UNCHANGED <<item, touched, rows, mails>>
    BY <1>3, <2>1 DEF CheckStatus
  <2>3. /\ pc \in {"stuck", "digest", "forecast"}
        /\ pc = "stuck" => job.kind = "evening"
        /\ pc = "digest" => job.kind = "weekly"
        /\ pc = "forecast" => job.kind = "forecast"
    BY <1>2, <2>1 DEF Kinds
  <2>4. /\ job' \in PassJob /\ job'.pc = pc /\ job'.left = job.left /\ job'.kind = job.kind
        /\ job'.first = job.first /\ job'.stuck = job.stuck /\ job'.list = job.list
    BY <1>2, <2>2, <2>3 DEF PassJob, Steps
  <2>5. MailsGo(None)
    BY <1>2, <2>2, NoMails
  <2>6. Onward(None)
    BY <1>0, <2>2, <2>3, <2>4, <2>5 DEF Onward
  <2>7. Sent("stuck", n)' = {} /\ c0' = n
    BY <1>1, <1>2, <2>2, <2>4, SentSame DEF c0
  <2>8. StuckTold(n, "-")'
    BY <2>7 DEF StuckTold
  <2>9. StuckTold(c0, job.stuck)'
    BY <1>2, <2>4, <2>7, <2>8 DEF StuckTold, Named, Due, Home, Sent
  <2>10. Stage'
    BY <1>2, <2>3, <2>4, <2>9 DEF Stage, Steps, Kinds
  <2> QED
    BY <1>0, <2>6, <2>10, OnwardKeeps
<1>4. CASE ~isCustomerNotifiable(centre[c0].status)
  <2>1. PICK stuck : stuck = IF job.kind = "evening" THEN "excluded" ELSE "-"
    OBVIOUS
  <2>2. Row(stuck, "excluded") /\ UNCHANGED <<item, touched, mails>>
    BY <1>4, <2>1 DEF CheckStatus
  <2>3. StuckTold(n, stuck)
    BY <1>2, <2>1, Quiet
  <2>4. [on |-> n, stuck |-> stuck, digest |-> "excluded"] \in Reported
    BY <1>2, <2>1 DEF Reported
  <2> QED
    BY <1>0, <1>1, <2>2, <2>3, <2>4, RowSilent
<1> QED
  BY <1>3, <1>4

LEMMA StatusFailsKeeps == ASSUME NoticesInv, StatusFails PROVE NoticesInv'
<1>0. job.pc = "status" /\ job.pc \in Steps
  BY DEF StatusFails, Steps
<1>1. PICK n : n = c0
  OBVIOUS
<1>2. n \in Centres /\ Sent("stuck", n) = {}
  BY <1>0, <1>1, AtTurn
<1>3. PICK stuck : stuck = IF job.kind = "evening" THEN "failed" ELSE "-"
  OBVIOUS
<1>4. Row(stuck, "failed") /\ UNCHANGED <<item, touched, mails>>
  BY <1>3 DEF StatusFails
<1>5. StuckTold(n, stuck)
  BY <1>2, <1>3, Quiet
<1>6. [on |-> n, stuck |-> stuck, digest |-> "failed"] \in Reported
  BY <1>2, <1>3 DEF Reported
<1> QED
  BY <1>0, <1>1, <1>4, <1>5, <1>6, RowSilent

LEMMA StuckFailsKeeps == ASSUME NoticesInv, StuckFails PROVE NoticesInv'
<1>1. /\ job.pc = "stuck" /\ ToDigest("failed") /\ UNCHANGED <<item, touched, rows, mails>>
      /\ job.pc \in Steps
  BY DEF StuckFails, Steps
<1>2. Sent("stuck", c0) = {}
  BY <1>1, AtTurn
<1>3. StuckTold(c0, "failed")
  BY <1>2, Quiet
<1>4. "failed" \in Deliveries \cup {"none", "nobody"}
  BY DEF Deliveries
<1> QED
  BY <1>1, <1>3, <1>4, AddressKeeps

\* What is found is the stuck work whose home is the centre, the first one
\* including that of starters without a place.
LEMMA FoundIsDue ==
    ASSUME NEW n \in Centres
    PROVE  {i \in workScopeFor(n, n = job.first) : Stuck(i)} \cap Untouched = Due(n)
<1>1. n # None
  BY NoneIsNoCentre
<1> QED
  BY <1>1 DEF workScopeFor, Untouched, Due, Home

LEMMA FindStuckKeeps == ASSUME NoticesInv, FindStuck PROVE NoticesInv'
<1>0. PICK n : n = c0
  OBVIOUS
<1>1. /\ job.pc = "stuck" /\ job.pc \in Steps /\ UNCHANGED <<item, touched, rows, mails>>
  BY DEF FindStuck, Steps
<1>2. /\ NoticeType /\ Stage /\ n \in Centres /\ Sent("stuck", n) = {} /\ job \in PassJob
      /\ job.left # {} /\ job.kind = "evening"
  BY <1>0, <1>1, AtTurn DEF NoticeType, Stage
<1>3. PICK found : found = {i \in workScopeFor(n, n = job.first) : Stuck(i)}
  OBVIOUS
<1>4. found \cap Untouched = Due(n) /\ found \subseteq Items
  BY <1>2, <1>3, FoundIsDue DEF workScopeFor
<1>5. IF found = {} THEN ToDigest("none") ELSE job' = [job EXCEPT !.pc = "address", !.found = found]
  BY <1>0, <1>3 DEF FindStuck
<1>6. CASE found = {}
  <2>1. StuckTold(n, "none")
    BY <1>2, <1>4, <1>6 DEF StuckTold
  <2>2. "none" \in Deliveries \cup {"none", "nobody"}
    OBVIOUS
  <2> QED
    BY <1>0, <1>1, <1>5, <1>6, <2>1, <2>2, AddressKeeps
<1>7. CASE found # {}
  <2>1. /\ job' \in PassJob /\ job'.pc = "address" /\ job'.left = job.left /\ job'.kind = job.kind
        /\ job'.first = job.first /\ job'.found = found /\ job'.list = job.list
    BY <1>2, <1>4, <1>5, <1>7 DEF PassJob, Steps
  <2>2. MailsGo(None)
    BY <1>1, <1>2, NoMails
  <2>3. Onward(None)
    BY <1>1, <2>1, <2>2 DEF Onward
  <2>4. Untouched' = Untouched /\ Due(n)' = Due(n)
    BY <1>1, <2>1, StillDue
  <2>5. c0' = n
    BY <1>0, <2>1 DEF c0
  <2>6. (job.found \cap Untouched)' = Due(n)'
    BY <1>4, <2>1, <2>4
  <2>7. (job.found \cap Untouched = Due(c0))'
    BY <2>5, <2>6 DEF Due, Home
  <2>8. Stage'
    BY <1>2, <2>1, <2>7 DEF Stage, Steps, Kinds
  <2> QED
    BY <1>1, <2>3, <2>8, OnwardKeeps
<1> QED
  BY <1>6, <1>7

LEMMA AnnounceStuckKeeps == ASSUME NoticesInv, AnnounceStuck PROVE NoticesInv'
<1>1. job.pc = "address" /\ job.pc \in Steps /\ UNCHANGED <<item, touched, rows>>
  BY DEF AnnounceStuck, Steps
<1>2. Sent("stuck", c0) = {}
  BY <1>1, AtTurn
<1>3. \/ \E outcome \in Outcomes, named \in SUBSET job.found :
            /\ Shows(job.found, named)
            /\ Mail("stuck", outcome, c0, c0, named, Cardinality(job.found \ named))
            /\ ToDigest(outcome)
      \/ ToDigest("nobody") /\ mails' = mails
  BY DEF AnnounceStuck
<1>4. ASSUME NEW outcome \in Outcomes, NEW named \in SUBSET job.found, Shows(job.found, named),
             Mail("stuck", outcome, c0, c0, named, Cardinality(job.found \ named)),
             ToDigest(outcome)
      PROVE  NoticesInv'
  <2>1. outcome \in Deliveries
    BY DEF Outcomes, Deliveries
  <2>2. CASE outcome = "sent"
    <3>1. StuckMail(named)
      BY <1>4, <2>2 DEF StuckMail, Mail
    <3> QED
      BY <1>1, <1>4, <2>1, <2>2, <3>1, AddressKeeps
  <2>3. CASE outcome # "sent"
    <3>1. outcome # "none"
      BY <2>1 DEF Deliveries
    <3>2. StuckTold(c0, outcome) /\ mails' = mails
      BY <1>2, <1>4, <2>3, <3>1, Quiet DEF Mail
    <3> QED
      BY <1>1, <1>4, <2>1, <3>2, AddressKeeps
  <2> QED
    BY <2>2, <2>3
<1>5. CASE ToDigest("nobody") /\ mails' = mails
  <2>1. StuckTold(c0, "nobody")
    BY <1>2, Quiet
  <2> QED
    BY <1>1, <1>5, <2>1, AddressKeeps
<1> QED
  BY <1>3, <1>4, <1>5

LEMMA DigestFailsKeeps == ASSUME NoticesInv, DigestFails PROVE NoticesInv'
<1>0. PICK n, stuck : n = c0 /\ stuck = job.stuck
  OBVIOUS
<1>1. job.pc = "digest" /\ job.pc \in Steps /\ Row(stuck, "failed") /\ UNCHANGED <<item, touched, mails>>
  BY <1>0 DEF DigestFails, Steps
<1>2. n \in Centres /\ StuckTold(n, stuck) /\ stuck \in Deliveries \cup {"-", "none", "nobody"}
  BY <1>0, <1>1, AtTurn DEF Stage, NoticeType, PassJob
<1>3. [on |-> n, stuck |-> stuck, digest |-> "failed"] \in Reported
  BY <1>2 DEF Reported
<1> QED
  BY <1>0, <1>1, <1>2, <1>3, RowSilent

LEMMA SendDigestKeeps == ASSUME NoticesInv, SendDigest PROVE NoticesInv'
<1>0. PICK n, stuck : n = c0 /\ stuck = job.stuck
  OBVIOUS
<1>1. job.pc = "digest" /\ job.pc \in Steps /\ UNCHANGED <<item, touched>>
  BY DEF SendDigest, Steps
<1>2. /\ n \in Centres /\ StuckTold(n, stuck) /\ stuck \in Deliveries \cup {"-", "none", "nobody"}
      /\ job.kind # "forecast"
  BY <1>0, <1>1, AtTurn DEF Stage, NoticeType, PassJob
<1>3. \/ \E word \in {"unasked", "none", "nobody"} : Row(stuck, word) /\ mails' = mails
      \/ \E outcome \in Outcomes : Mail("digest", outcome, n, n, {}, 0) /\ Row(stuck, outcome)
  BY <1>0, Zenon DEF SendDigest
<1>4. ASSUME NEW word \in {"unasked", "none", "nobody"}, Row(stuck, word), mails' = mails
      PROVE  NoticesInv'
  <2>1. [on |-> n, stuck |-> stuck, digest |-> word] \in Reported
    BY <1>2 DEF Reported
  <2> QED
    BY <1>0, <1>1, <1>2, <1>4, <2>1, RowSilent
<1>5. ASSUME NEW outcome \in Outcomes, Mail("digest", outcome, n, n, {}, 0), Row(stuck, outcome)
      PROVE  NoticesInv'
  <2>1. outcome \in Deliveries
    BY DEF Outcomes, Deliveries
  <2>2. [on |-> n, stuck |-> stuck, digest |-> outcome] \in Reported
    BY <1>2, <2>1 DEF Reported
  <2> QED
    BY <1>0, <1>1, <1>2, <1>5, <2>1, <2>2, RowSends
<1> QED
  BY <1>3, <1>4, <1>5

LEMMA ForecastKeeps == ASSUME NoticesInv, Forecast PROVE NoticesInv'
<1>0. PICK n : n = c0
  OBVIOUS
<1>1. job.pc = "forecast" /\ job.pc \in Steps /\ UNCHANGED <<item, touched>>
  BY DEF Forecast, Steps
<1>2. /\ n \in Centres /\ Sent("stuck", n) = {} /\ job.kind = "forecast"
  BY <1>0, <1>1, AtTurn DEF Stage
<1>3. StuckTold(n, "-")
  BY <1>2, Quiet
<1>4. \/ \E word \in {"failed", "none"} : Row("-", word) /\ mails' = mails
      \/ \E outcome \in Outcomes, to \in {n, None} :
            Mail("forecast", outcome, n, to, {}, 0) /\ Row("-", outcome)
  BY <1>0 DEF Forecast
<1>5. ASSUME NEW word \in {"failed", "none"}, Row("-", word), mails' = mails
      PROVE  NoticesInv'
  <2>1. [on |-> n, stuck |-> "-", digest |-> word] \in Reported
    BY <1>2 DEF Reported
  <2> QED
    BY <1>0, <1>1, <1>3, <1>5, <2>1, RowSilent
<1>6. ASSUME NEW outcome \in Outcomes, NEW to \in {n, None},
             Mail("forecast", outcome, n, to, {}, 0), Row("-", outcome)
      PROVE  NoticesInv'
  <2>1. outcome \in Deliveries
    BY DEF Outcomes, Deliveries
  <2>2. [on |-> n, stuck |-> "-", digest |-> outcome] \in Reported
    BY <1>2, <2>1 DEF Reported
  <2> QED
    BY <1>0, <1>1, <1>2, <1>3, <1>6, <2>1, <2>2, RowSends
<1> QED
  BY <1>4, <1>5, <1>6

\* The mail to the operator is nobody's.
LEMMA RollupKeeps == ASSUME NoticesInv, Rollup PROVE NoticesInv'
<1>1. job.pc = "rollup" /\ UNCHANGED <<item, touched, rows>>
  BY DEF Rollup
<1>2. NoticeType /\ job \in PassJob /\ job.left = {}
  BY <1>1 DEF NoticesInv, NoticeType, Stage
<1>3. /\ job' \in PassJob /\ job'.pc = "done" /\ job'.left = job.left /\ job'.kind = job.kind
      /\ job'.first = job.first /\ job'.list = job.list
  BY <1>2 DEF Rollup, PassJob, Steps
<1>4. MailsGo(None)
  <2>1. CASE mails' = mails
    BY <1>2, <2>1, NoMails
  <2>2. CASE mails' = Append(mails, [kind |-> "rollup", on |-> None, to |-> None,
                                         items |-> {}, more |-> 0])
    <3>1. PICK r : r = [kind |-> "rollup", on |-> None, to |-> None,
                                         items |-> {}, more |-> 0]
      OBVIOUS
    <3>2. NoticeType /\ r \in Mailed /\ r.kind = "rollup" /\ mails' = Append(mails, r)
      BY <1>2, <2>2, <3>1 DEF Mailed
    <3>5. r.on = None
      BY <3>1
    <3>3. ASSUME NEW k \in {"stuck", "digest", "forecast"}, NEW q \in Centres
          PROVE  Sent(k, q)' = Sent(k, q) /\ \A m \in Sent(k, q) : mails'[m] = mails[m]
      <4>1. Sent(k, q)' = IF r.kind = k /\ r.on = q THEN Sent(k, q) \cup {Len(mails) + 1} ELSE Sent(k, q)
        BY <3>2, SentMore
      <4>2. \A m \in Sent(k, q) : mails'[m] = mails[m] /\ m # Len(mails) + 1
        BY <3>2, SentMore
      <4> QED
        BY <3>2, <4>1, <4>2
    <3>4. mails' \in Seq(Mailed)
      BY <3>2, SentMore
    <3> QED
      BY <3>3, <3>4 DEF MailsGo
  <2> QED
    BY <2>1, <2>2 DEF Rollup, Mail
<1>5. Onward(None)
  BY <1>1, <1>3, <1>4 DEF Onward
<1>7. job'.left = {}
  BY <1>2, <1>3
<1>6. Stage'
  BY <1>3, <1>7 DEF Stage, Steps
<1> QED
  BY <1>1, <1>5, <1>6, OnwardKeeps

LEMMA JobDiesKeeps == ASSUME NoticesInv, JobDies PROVE NoticesInv'
<1>1. job' = [job EXCEPT !.pc = "dead"] /\ UNCHANGED <<item, mails, rows>> /\ NoticeType
  BY DEF JobDies, NoticesInv
<1>2. job' \in PassJob /\ job'.pc = "dead"
  BY <1>1 DEF NoticeType, PassJob
<1> QED
  BY <1>1, <1>2 DEF NoticesInv, NoticeType

\* Of the items that moved nothing is told, and the others have not changed.
LEMMA OfficeKeeps ==
    ASSUME NoticesInv, NEW x, Office(x), DOMAIN item' = Items,
           \A i \in Items : <<"item", i>> # x => item'[i] = item[i]
    PROVE  NoticesInv'
<1>1. /\ UNCHANGED <<job, mails, rows>> /\ NoticeType
      /\ job.pc = "idle" \/ touched' = touched \cup {x}
  BY DEF Office, NoticesInv
<1>2. NoticeType'
  BY <1>1 DEF NoticeType
<1>3. CASE job.pc \in {"idle", "dead"}
  BY <1>1, <1>2, <1>3 DEF NoticesInv
<1>4. CASE job.pc \notin {"idle", "dead"}
  <2>1. RowsTell /\ OneMail /\ NoMailYet /\ Stage /\ touched' = touched \cup {x}
    BY <1>1, <1>4 DEF NoticesInv
  <2>2. Untouched' \subseteq Untouched
    BY <2>1 DEF Untouched
  <2>3. ASSUME NEW i \in Untouched' PROVE i \in Untouched /\ item'[i] = item[i]
    BY <2>1, <2>2 DEF Untouched
  <2>4. ASSUME NEW n PROVE Due(n)' = Due(n) \cap Untouched'
    BY <1>1, <2>2, <2>3 DEF Due, Stuck, Home
  <2>5. \A k, n : Sent(k, n)' = Sent(k, n)
    BY <1>1, SentSame
  <2>6. ASSUME NEW n, NEW outcome, StuckTold(n, outcome) PROVE StuckTold(n, outcome)'
    BY <1>1, <2>2, <2>4, <2>5, <2>6, TellsOn
  <2>7. RowsTell'
    <3>1. ASSUME NEW k \in 1..Len(rows) PROVE StuckTold(rows[k].on, rows[k].stuck)'
      <4>1. PICK n, outcome : n = rows[k].on /\ outcome = rows[k].stuck
        OBVIOUS
      <4>2. StuckTold(n, outcome)
        BY <2>1, <4>1 DEF RowsTell
      <4>3. StuckTold(n, outcome)'
        BY <2>6, <4>2
      <4> QED
        BY <1>1, <4>1, <4>3 DEF StuckTold, Named, SummarySent, Sent, Due, Home
    <3>2. ASSUME NEW k \in 1..Len(rows)
          PROVE  (rows[k].digest = "sent") <=> SummarySent(rows[k].on)'
      <4>1. PICK n : n = rows[k].on
        OBVIOUS
      <4>2. SummarySent(n)' <=> SummarySent(n)
        BY <1>1, <2>5, SummarySame
      <4>3. (rows[k].digest = "sent") <=> SummarySent(n)
        BY <2>1, <4>1 DEF RowsTell
      <4> QED
        BY <1>1, <4>1, <4>2, <4>3 DEF SummarySent, Sent
    <3>3. RowsTell /\ rows' = rows /\ job' = job
      BY <1>1, <2>1
    <3> QED
      BY <3>1, <3>2, <3>3 DEF RowsTell
  <2>8. OneMail' /\ NoMailYet'
    BY <1>1, <2>1 DEF OneMail, NoMailYet, Sent, c0
  <2>9. Stage'
    <3>7. /\ job'.pc \in {"rollup", "done"} => job'.left = {}
          /\ job'.pc \in Steps => job'.left # {} /\ job'.kind \in Kinds
      BY <1>1, <2>1 DEF Stage
    <3>1. PICK n, stuck : n = c0 /\ stuck = job.stuck
      OBVIOUS
    <3>2. c0' = n /\ job'.stuck = stuck
      BY <1>1, <3>1 DEF c0
    <3>3. job.pc = "digest" => StuckTold(n, stuck)'
      BY <2>1, <2>6, <3>1 DEF Stage
    <3>4. job'.pc = "digest" => StuckTold(c0, job.stuck)'
      BY <1>1, <3>1, <3>3 DEF StuckTold, Named, SummarySent, Sent, Due, Home, c0
    <3>5. job.pc = "address" => job.found \cap Untouched' = Due(n)'
      BY <2>1, <2>2, <2>4, <3>1 DEF Stage
    <3>6. job'.pc = "address" => (job.found \cap Untouched = Due(c0))'
      BY <1>1, <3>1, <3>5 DEF Due, Home, c0
    <3> QED
      BY <1>1, <2>1, <3>4, <3>6, <3>7 DEF Stage, Steps
  <2> QED
    BY <1>1, <1>2, <1>4, <2>7, <2>8, <2>9 DEF NoticesInv
<1> QED
  BY <1>3, <1>4

LEMMA NoticesKept == NoticesInv /\ [NoticesNext]_noticeVars => NoticesInv'
<1> SUFFICES ASSUME NoticesInv, [NoticesNext]_noticeVars PROVE NoticesInv'
  OBVIOUS
<1>0. DOMAIN item = Items
  BY DEF NoticesInv, NoticeType
<1>1. ASSUME NEW kind \in Kinds, StartPass(kind) PROVE NoticesInv'
  BY <1>1, StartPassKeeps
<1>2. CASE \/ StatusFails \/ CheckStatus \/ StuckFails \/ FindStuck \/ AnnounceStuck
           \/ DigestFails \/ SendDigest \/ Forecast \/ Rollup \/ JobDies
  BY <1>2, StatusFailsKeeps, CheckStatusKeeps, StuckFailsKeeps, FindStuckKeeps,
     AnnounceStuckKeeps, DigestFailsKeeps, SendDigestKeeps, ForecastKeeps, RollupKeeps,
     JobDiesKeeps
<1>3. ASSUME NEW i \in Items, ItemMoves(i) \/ StarterMoves(i) PROVE NoticesInv'
  <2>1. PICK x : x = <<"item", i>>
    OBVIOUS
  <2>2. Office(x)
    BY <1>3, <2>1 DEF ItemMoves, StarterMoves
  <2>3. DOMAIN item' = Items /\ \A j \in Items : j # i => item'[j] = item[j]
    BY <1>0, <1>3 DEF ItemMoves, StarterMoves
  <2>4. \A j \in Items : <<"item", j>> # x => item'[j] = item[j]
    BY <2>1, <2>3
  <2> QED
    BY <2>2, <2>3, <2>4, OfficeKeeps
<1>4. ASSUME NEW n \in Centres, CentreChanges(n) PROVE NoticesInv'
  <2>1. PICK x : x = <<"centre", n>>
    OBVIOUS
  <2>2. Office(x) /\ item' = item
    BY <1>4, <2>1 DEF CentreChanges
  <2> QED
    BY <1>0, <2>2, OfficeKeeps
<1>5. CASE UNCHANGED noticeVars
  <2>1. UNCHANGED <<item, job, mails, rows, touched>>
    BY <1>5 DEF noticeVars
  <2>2. NoticeType' = NoticeType
    BY <2>1 DEF NoticeType
  <2>3. RowsTell => RowsTell'
    <3>1. SUFFICES ASSUME RowsTell, NEW k \in 1..Len(rows), NEW n, NEW outcome,
                          n = rows[k].on, outcome = rows[k].stuck
                   PROVE  /\ StuckTold(rows[k].on, rows[k].stuck)'
                          /\ (rows[k].digest = "sent") <=> SummarySent(rows[k].on)'
      BY <2>1 DEF RowsTell
    <3>2. StuckTold(n, outcome)' = StuckTold(n, outcome)
      BY <2>1 DEF StuckTold, Named, Sent, Due, Untouched, Stuck, Home
    <3>3. SummarySent(n)' = SummarySent(n)
      BY <2>1 DEF SummarySent, Sent
    <3>4. /\ StuckTold(n, outcome)
          /\ (rows[k].digest = "sent") <=> SummarySent(n)
      BY <3>1 DEF RowsTell
    <3> QED
      BY <2>1, <3>1, <3>2, <3>3, <3>4 DEF StuckTold, Named, SummarySent, Sent, Due, Home
  <2>4. OneMail' = OneMail
    BY <2>1 DEF OneMail, Sent
  <2>5. NoMailYet' = NoMailYet
    BY <2>1 DEF NoMailYet, Sent, c0
  <2>6. Stage' = Stage
    BY <2>1, Zenon DEF Stage, StuckTold, Named, Sent, Due, Untouched, Stuck, Home, c0
  <2> QED
    BY <2>1, <2>2, <2>3, <2>4, <2>5, <2>6 DEF NoticesInv
<1> QED
  BY <1>1, <1>2, <1>3, <1>4, <1>5 DEF NoticesNext

LEMMA NoticesAlways == NoticesSpec => []NoticesInv
BY NoticesInitially, NoticesKept, PTL DEF NoticesSpec

\* A set whose members are all equal has at most one.
LEMMA AllEqualOne ==
    ASSUME NEW S, \A x, y \in S : x = y PROVE Cardinality(S) <= 1
<1>1. CASE S = {}
  BY <1>1, FS_EmptySet
<1>2. CASE S # {}
  <2>1. PICK x : S = {x}
    BY <1>2
  <2> QED
    BY <2>1, FS_Singleton
<1> QED
  BY <1>1, <1>2

LEMMA NoticesInvTells == NoticesInv => NoticesTell
<1> SUFFICES ASSUME NoticesInv, job.pc = "done" PROVE NoticesTell
  BY DEF NoticesTell
<1>1. NoticeType /\ RowsTell /\ OneMail /\ job.left = {}
  BY DEF NoticesInv, Stage
<1>2. ASSUME NEW n \in Centres
      PROVE  Cardinality({k \in 1..Len(rows) : rows[k].on = n}) = IF n \in job.list THEN 1 ELSE 0
  <2>1. PICK S : S = {k \in 1..Len(rows) : rows[k].on = n}
    OBVIOUS
  <2>2. \A x, y \in S : x = y
    BY <1>1, <2>1 DEF RowsTell
  <2>3. (n \in job.list) <=> (S # {})
    BY <1>1, <2>1 DEF RowsTell
  <2>4. CASE S = {}
    BY <2>1, <2>3, <2>4, FS_EmptySet
  <2>5. CASE S # {}
    <3>1. PICK x \in S : TRUE
      BY <2>5
    <3>2. S = {x}
      BY <2>2, <3>1
    <3> QED
      BY <2>1, <2>3, <2>5, <3>2, FS_Singleton
  <2> QED
    BY <2>4, <2>5
<1>3. ASSUME NEW k \in 1..Len(rows), NEW n, n = rows[k].on
      PROVE  /\ (rows[k].stuck = "sent") <=> (Sent("stuck", n) # {})
             /\ (rows[k].digest = "sent") <=> SummarySent(n)
             /\ \A kind \in {"stuck", "digest", "forecast"} : Cardinality(Sent(kind, n)) <= 1
             /\ rows[k].stuck = "none" => Due(n) = {}
             /\ \A m \in Sent("stuck", n) : Named(m, n)
  <2>1. rows[k] \in Reported
    BY <1>1 DEF NoticeType
  <2>2. n \in Centres
    BY <1>3, <2>1 DEF Reported
  <2>3. \A kind \in {"stuck", "digest", "forecast"} : Cardinality(Sent(kind, n)) <= 1
    BY <1>1, <2>2, AllEqualOne DEF OneMail
  <2>4. StuckTold(n, rows[k].stuck)
    BY <1>1, <1>3 DEF RowsTell
  <2>5. (rows[k].digest = "sent") <=> SummarySent(n)
    BY <1>1, <1>3 DEF RowsTell
  <2> QED
    BY <2>3, <2>4, <2>5 DEF StuckTold
<1> QED
  BY <1>2, <1>3 DEF NoticesTell, Named, Due, Untouched

\* Once a daily job is over, each centre of its list has one row of the report and one
\* mail of a kind at most, the row says that a mail of stuck work, and the summary or
\* the forecast, was sent exactly if it was, and stuck work that nobody touched is named
\* or counted in the mail of its own centre, and named in no other (runNoticeCycle,
\* runHeatForecastNotices, workScopeFor, renderStuckWorkHtml).
THEOREM NoticesTellTheTruth == NoticesSpec => []NoticesTell
BY NoticesAlways, NoticesInvTells, PTL

-----------------------------------------------------------------------------
(* The operator's views *)

\* The hour a time is in: the whole hours up to it, none of them later.
LEMMA HourBelow ==
    ASSUME NEW h \in Nat, h > 0, NEW t \in Nat
    PROVE  /\ (t % h) \in Nat /\ (t % h) < h
           /\ t = h * (t \div h) + (t % h) /\ (t \div h) \in Nat
<1>1. (t % h) \in Nat /\ (t % h) < h
  OBVIOUS
<1>2. t = h * (t \div h) + (t % h)
  OBVIOUS
<1>3. (t \div h) \in Nat
  OBVIOUS
<1> QED
  BY <1>1, <1>2, <1>3

LEMMA HourKeepsOrder ==
    ASSUME NEW h \in Nat, h > 0, NEW t \in Nat, NEW s \in Nat, (s % h) = 0, t >= s
    PROVE  t - (t % h) >= s
<1>1. PICK d \in Nat : t = h * d + (t % h) /\ d = t \div h
  BY HourBelow
<1>2. PICK k \in Nat : s = h * k
  BY HourBelow
<1>3. (t % h) \in Nat /\ (t % h) < h
  BY HourBelow
<1>4. d >= k
  BY <1>1, <1>2, <1>3
<1>5. h * d >= h * k
  BY <1>4
<1> QED
  BY <1>1, <1>2, <1>3, <1>5

LEMMA MinOfTwo == ASSUME NEW a \in Int, NEW b \in Int PROVE Min({a, b}) = IF a <= b THEN a ELSE b
<1>1. PICK m : m = IF a <= b THEN a ELSE b
  OBVIOUS
<1>2. m \in {a, b} /\ \A y \in {a, b} : m <= y
  BY <1>1
<1>3. \A x \in {a, b} : (\A y \in {a, b} : x <= y) => x = m
  BY <1>1
<1>4. Min({a, b}) = m
  BY <1>2, <1>3 DEF Min
<1> QED
  BY <1>1, <1>4

LEMMA MaxOfTwo == ASSUME NEW a \in Int, NEW b \in Int PROVE Max({a, b}) = IF a >= b THEN a ELSE b
<1>1. PICK m : m = IF a >= b THEN a ELSE b
  OBVIOUS
<1>2. m \in {a, b} /\ \A y \in {a, b} : m >= y
  BY <1>1
<1>3. \A x \in {a, b} : (\A y \in {a, b} : x >= y) => x = m
  BY <1>1
<1>4. Max({a, b}) = m
  BY <1>2, <1>3 DEF Max
<1> QED
  BY <1>1, <1>4

ChoreRow == [by : Staff, begun : Nat, status : {"ACTIVE", "PAUSED", "ENDED", "VOID"}]

\* Inductive: a report keeps the hour it was heard in, and no work begins after the
\* time of the views.
ConsoleInv ==
    /\ viewed \in Nat
    /\ IsFiniteSet(report)
    /\ \A r \in report : r.heard \in Nat /\ r.at = r.heard - (r.heard % AnHour)
    /\ chore \in Seq(ChoreRow)
    /\ \A i \in 1..Len(chore) : chore[i].begun <= viewed

\* A finite set in some order.
LEMMA InOrder ==
    ASSUME NEW S, IsFiniteSet(S) PROVE SetToSeq(S) \in Seq(S)
<1>1. Cardinality(S) \in Nat
  BY FS_CardinalityType
<1>2. PICK f : f \in [1..Cardinality(S) -> S] /\ IsInjective(f)
  <2>1. PICK f \in Bijection(1..Cardinality(S), S) : TRUE
    BY FS_CardinalityType DEF ExistsBijection
  <2> QED
    BY <2>1 DEF Bijection, Injection, IsInjective
<1>3. SetToSeq(S) \in [1..Cardinality(S) -> S]
  BY <1>2 DEF SetToSeq
<1> QED
  BY <1>1, <1>3

LEMMA ConsoleInitially == ConsoleInit => ConsoleInv
<1> SUFFICES ASSUME NEW time \in ViewTimes, NEW place \in [Staff -> Spots], NEW inUse \in BOOLEAN,
                    ConsoleFrom(SitesHere, time, place, inUse)
             PROVE  ConsoleInv
  BY DEF ConsoleInit
<1>1. viewed \in Nat
  BY ConsoleAssumption DEF ConsoleFrom
<1>2. (0 % AnHour) = 0
  BY ConsoleAssumption
<1>3. ASSUME NEW r \in report PROVE r.heard = 0 /\ r.at = 0
  BY DEF ConsoleFrom
<1>4. IsFiniteSet(report)
  <2>1. IsFiniteSet(SitesHere)
    <3>1. SiteCount \in Nat
      BY ConsoleAssumption
    <3> QED
      BY <3>1, FS_Interval DEF SitesHere
  <2>2. PICK V, T : V = [place : SitesHere, at : {0}, heard : {0}] /\ T = report
    OBVIOUS
  <2>3. PICK f : f = [n \in SitesHere |-> [place |-> n, at |-> 0, heard |-> 0]]
    OBVIOUS
  <2>4. f \in [SitesHere -> V]
    BY <2>2, <2>3
  <2>5. CASE report = {}
    BY <2>5, FS_EmptySet
  <2>6. CASE report # {}
    <3>1. \A r \in T : \E n \in SitesHere : f[n] = r
      BY <2>2, <2>3 DEF ConsoleFrom
    <3>2. IsFiniteSet(T)
      BY <2>1, <2>4, <3>1, CountImage
    <3> QED
      BY <2>2, <3>2
  <2> QED
    BY <2>5, <2>6
<1>5. chore \in Seq(ChoreRow) /\ \A i \in 1..Len(chore) : chore[i].begun = 0
  <2>1. CASE chore = <<>>
    BY <2>1
  <2>2. CASE chore # <<>>
    <3>1. PICK S : S = {[by |-> w, begun |-> 0, status |-> "ENDED"] : w \in Staff}
      OBVIOUS
    <3>2. S \subseteq ChoreRow /\ \A r \in S : r.begun = 0
      BY <3>1 DEF ChoreRow
    <3>3. PICK f : f = [w \in Staff |-> [by |-> w, begun |-> 0, status |-> "ENDED"]]
      OBVIOUS
    <3>4. f \in [Staff -> S]
      BY <3>1, <3>3
    <3>8. \A r \in S : \E w \in Staff : f[w] = r
      BY <3>1, <3>3
    <3>5. IsFiniteSet(S)
      <4>1. IsFiniteSet(Staff)
        BY ConsoleAssumption
      <4>2. f \in Surjection(Staff, S)
        BY <3>4, <3>8 DEF Surjection
      <4> QED
        BY <4>1, <4>2, FS_Surjection
    <3>6. chore = SetToSeq(S)
      BY <2>2, <3>1 DEF ConsoleFrom
    <3>7. chore \in Seq(S)
      BY <3>5, <3>6, InOrder
    <3> QED
      BY <3>2, <3>7
  <2> QED
    BY <2>1, <2>2
<1> QED
  BY <1>1, <1>2, <1>3, <1>4, <1>5 DEF ConsoleInv

LEMMA ConsoleKept == ConsoleInv /\ [ConsoleNext]_consoleVars => ConsoleInv'
<1> SUFFICES ASSUME ConsoleInv, [ConsoleNext]_consoleVars PROVE ConsoleInv'
  OBVIOUS
<1>1. ASSUME NEW spot \in Spots, NEW at \in Reports, AddReport(spot, at) PROVE ConsoleInv'
  <2>1. at \in Nat
    BY ConsoleAssumption
  <2>2. PICK r : r = [place |-> spot, at |-> at - (at % AnHour), heard |-> at]
    OBVIOUS
  <2>3. r.heard = at /\ r.at = at - (at % AnHour)
    BY <2>2
  <2>4. report' = report \cup {r} /\ viewed' = viewed /\ chore' = chore
    BY <1>1, <2>2 DEF AddReport, Enter
  <2>5. IsFiniteSet(report \cup {r})
    BY FS_AddElement DEF ConsoleInv
  <2> QED
    BY <2>1, <2>3, <2>4, <2>5 DEF ConsoleInv
<1>2. ASSUME NEW w \in Staff, NEW t \in Beginnings, AddChore(w, t) PROVE ConsoleInv'
  <2>1. t \in Nat /\ t <= viewed
    BY <1>2, ConsoleAssumption DEF AddChore
  <2>2. PICK s \in {"ACTIVE", "PAUSED", "ENDED", "VOID"} :
            chore' = Append(chore, [by |-> w, begun |-> t, status |-> s])
    BY <1>2 DEF AddChore
  <2>3. PICK r : r = [by |-> w, begun |-> t, status |-> s]
    OBVIOUS
  <2>4. r \in ChoreRow /\ r.begun = t /\ chore' = Append(chore, r)
    BY <2>1, <2>2, <2>3 DEF ChoreRow
  <2>5. chore \in Seq(ChoreRow) /\ \A i \in 1..Len(chore) : chore[i].begun <= viewed
    BY DEF ConsoleInv
  <2>6. chore' \in Seq(ChoreRow) /\ \A i \in 1..Len(chore') : chore'[i].begun <= viewed
    BY <2>1, <2>4, <2>5
  <2>7. UNCHANGED <<viewed, report>>
    BY <1>2 DEF AddChore, Enter
  <2> QED
    BY <2>6, <2>7 DEF ConsoleInv
<1>3. CASE UNCHANGED <<viewed, report, chore>>
  BY <1>3 DEF ConsoleInv
<1>4. \/ \E spot \in Spots, at \in Reports : AddReport(spot, at)
      \/ \E w \in Staff, t \in Beginnings : AddChore(w, t)
      \/ UNCHANGED <<viewed, report, chore>>
  BY DEF ConsoleNext, consoleVars, ChangeSite, AddTicket, Sort, MovePerson, Enter
<1> QED
  BY <1>1, <1>2, <1>3, <1>4

LEMMA ConsoleAlways == ConsoleSpec => []ConsoleInv
BY ConsoleInitially, ConsoleKept, PTL DEF ConsoleSpec

\* When the digest calls a tablet silent.
LEMMA SilentIs ==
    ASSUME NEW n
    PROVE  ("tablet" \in collectDigestIssues(n)) <=> (digestStatus(n) \notin Inactive /\ Unheard(n))
<1>1. PICK a, b, c, d, e : /\ a = (digestStatus(n) \in Inactive)
                           /\ b = ~site[n].placed
                           /\ c = (~(digestStatus(n) \in Inactive) /\ Unheard(n))
                           /\ d = (~(digestStatus(n) \in Inactive) /\ Workless(n))
                           /\ e = (~(digestStatus(n) \in Inactive)
                                    /\ Running(ChoresOf(digestScope(n)), DigestTime) # {})
  OBVIOUS
<1>2. PICK found : found = {<<"subscription", a>>, <<"coords", b>>, <<"tablet", c>>,
                            <<"no_work", d>>, <<"stuck", e>>}
  OBVIOUS
<1>3. collectDigestIssues(n) = {f[1] : f \in {x \in found : x[2]}}
  BY <1>1, <1>2, Zenon DEF collectDigestIssues
<1>4. \A f \in found : f[1] = "tablet" => f = <<"tablet", c>>
  BY <1>2
<1>5. <<"tablet", c>> \in found /\ <<"tablet", c>>[1] = "tablet" /\ <<"tablet", c>>[2] = c
  BY <1>2
<1>6. ("tablet" \in collectDigestIssues(n)) <=> c
  BY <1>3, <1>4, <1>5
<1> QED
  BY <1>1, <1>6

LEMMA CutoffIs ==
    ASSUME viewed \in Nat
    PROVE  /\ tabletCutoff \in Int /\ tabletCutoff >= Today + WorkStart
           /\ tabletCutoff > viewed - AnHour => tabletCutoff = Today + WorkStart
<1>1. /\ Today + WorkStart \in Int /\ Today + WorkStart + GraceTime \in Int /\ viewed - AnHour \in Int
  BY ConsoleAssumption
<1>2. PICK m \in Int : m = Min({Today + WorkStart + GraceTime, viewed - AnHour}) /\ m <= viewed - AnHour
  BY <1>1, MinOfTwo
<1>3. tabletCutoff = Max({m, Today + WorkStart})
  BY <1>2 DEF tabletCutoff
<1>4. tabletCutoff = IF m >= Today + WorkStart THEN m ELSE Today + WorkStart
  BY <1>1, <1>2, <1>3, MaxOfTwo
<1> QED
  BY <1>1, <1>2, <1>4

LEMMA ConsoleInvHears == ConsoleInv => TabletHeard
<1> SUFFICES ASSUME ConsoleInv, 2 * (viewed % AnHour) = AnHour, NEW n \in board
             PROVE  LET heard == {r.heard : r \in {x \in report : x.place \in digestScope(n)}}
                        start == Today + WorkStart
                        silent == "tablet" \in collectDigestIssues(n)
                    IN  /\ silent => \A t \in heard : t < start \/ 2 * (viewed - t) > AnHour
                        /\ viewed >= start /\ digestStatus(n) \notin Inactive /\ ~silent
                             => \E t \in heard : t >= start
  BY DEF TabletHeard
<1> DEFINE start == Today + WorkStart
<1>0. /\ viewed \in Nat /\ AnHour \in Nat /\ AnHour > 0 /\ Today \in Nat /\ start \in Nat
      /\ (start % AnHour) = 0 /\ start >= Today
  <2>1. viewed \in Nat
    BY DEF ConsoleInv
  <2> QED
    BY <2>1, ConsoleAssumption
<1>1. /\ tabletCutoff \in Int /\ tabletCutoff >= start
      /\ tabletCutoff > viewed - AnHour => tabletCutoff = start
  BY <1>0, CutoffIs
<1>2. ASSUME NEW r \in report
      PROVE  r.heard \in Nat /\ r.at \in Int /\ r.at <= r.heard
  <2>1. PICK t \in Nat : t = r.heard /\ r.at = t - (t % AnHour)
    BY DEF ConsoleInv
  <2> QED
    BY <1>0, <2>1, HourBelow
<1>3. ASSUME NEW r \in report, r.heard >= start, ~(2 * (viewed - r.heard) > AnHour)
      PROVE  r.at >= Today /\ ~(r.at < tabletCutoff)
  <2>1. PICK t \in Nat : t = r.heard /\ r.at = t - (t % AnHour)
    BY DEF ConsoleInv
  <2>2. r.at >= start /\ r.at \in Int
    BY <1>0, <1>2, <1>3, <2>1, HourKeepsOrder
  <2>3. PICK half \in Nat : half = viewed % AnHour /\ 2 * half = AnHour
    BY <1>0, HourBelow
  <2>4. PICK h \in Nat : h = viewed - half /\ (h % AnHour) = 0
    <3>1. PICK q \in Nat : viewed = AnHour * q + half
      BY <1>0, <2>3, HourBelow
    <3>2. ((AnHour * q) % AnHour) = 0
      BY <1>0, <3>1
    <3> QED
      BY <1>0, <2>3, <3>1, <3>2
  <2>5. t >= h
    <3>1. PICK v \in Nat : v = viewed
      BY <1>0
    <3>2. ~(2 * (v - t) > 2 * half)
      BY <1>3, <2>1, <2>3, <3>1
    <3>3. t >= v - half
      BY <3>2
    <3> QED
      BY <2>4, <3>1, <3>3
  <2>6. r.at >= h
    BY <1>0, <2>1, <2>4, <2>5, HourKeepsOrder
  <2>7. h > viewed - AnHour
    BY <1>0, <2>3, <2>4
  <2> QED
    BY <1>0, <1>1, <2>2, <2>4, <2>6, <2>7
<1>4. ASSUME "tablet" \in collectDigestIssues(n),
             NEW r \in report, r.place \in digestScope(n)
      PROVE  r.heard < start \/ 2 * (viewed - r.heard) > AnHour
  <2>1. r.at >= Today => r.at < tabletCutoff
    BY <1>4, SilentIs DEF Unheard
  <2> QED
    BY <1>0, <1>2, <1>3, <2>1
<1>5. ASSUME viewed >= start, digestStatus(n) \notin Inactive, "tablet" \notin collectDigestIssues(n)
      PROVE  \E r \in report : r.place \in digestScope(n) /\ r.heard >= start
  <2>1. PICK r \in report : r.place \in digestScope(n) /\ r.at >= Today /\ ~(r.at < tabletCutoff)
    BY <1>5, SilentIs DEF Unheard
  <2>2. r.heard >= start
    BY <1>0, <1>1, <1>2, <2>1
  <2> QED
    BY <2>1, <2>2
<1> QED
  BY <1>4, <1>5

\* The digest of half past calls no tablet silent that was heard from within the half
\* hour, and vouches only for one that was heard from since the start of work, for any
\* hour and any reports (collectDigestIssues).
THEOREM TabletsAreHeard == ConsoleSpec => []TabletHeard
BY ConsoleAlways, ConsoleInvHears, PTL

\* The items of the rows of some workers that began in a period and are not VOID, and
\* those of some rows of the comparison.
Began(workers, from, to) ==
    {i \in DOMAIN chore : /\ chore[i].by \in workers /\ chore[i].status # "VOID"
                          /\ chore[i].begun >= from /\ chore[i].begun <= to}

WorkersOf(keys) == UNION {workerKey(k) : k \in keys}

Summed(from, to) == MapThenSumSet(LAMBDA k : aggregate(k, from, to).count, periodRows)

LEMMA ChoresAre ==
    ASSUME ConsoleInv
    PROVE  /\ IsFiniteSet(DOMAIN chore)
           /\ \A i \in DOMAIN chore :
                /\ chore[i] \in ChoreRow /\ chore[i].by \in Staff /\ chore[i].begun \in Nat
                /\ chore[i].status \in {"ACTIVE", "PAUSED", "ENDED", "VOID"}
                /\ chore[i].begun <= viewed
<1>1. chore \in Seq(ChoreRow) /\ DOMAIN chore = 1..Len(chore) /\ Len(chore) \in Nat
  BY DEF ConsoleInv
<1>2. IsFiniteSet(1..Len(chore))
  BY <1>1, FS_Interval
<1>3. \A i \in DOMAIN chore : chore[i] \in ChoreRow /\ chore[i].begun <= viewed
  BY <1>1 DEF ConsoleInv
<1> QED
  BY <1>1, <1>2, <1>3 DEF ChoreRow

LEMMA CountIs ==
    ASSUME NEW k, NEW from, NEW to
    PROVE  aggregate(k, from, to).count = Cardinality(Began(workerKey(k), from, to))
<1>1. PICK T : T = Began(workerKey(k), from, to)
  OBVIOUS
<1>2. T = {i \in {j \in DOMAIN chore : /\ chore[j].by \in workerKey(k)
                                       /\ chore[j].begun >= from /\ chore[j].begun <= to} :
             chore[i].status # "VOID"}
  BY <1>1 DEF Began
<1>3. aggregate(k, from, to).count = Cardinality(T)
  BY <1>2 DEF aggregate
<1> QED
  BY <1>1, <1>3

\* A worker has one row at most.
LEMMA OneKey ==
    ASSUME NEW k, NEW l, NEW w, w \in workerKey(k), w \in workerKey(l) PROVE k = l
BY DEF workerKey

\* What some rows count, without the first of them.
LEMMA TakeRow ==
    ASSUME ConsoleInv, NEW from, NEW to, NEW s, NEW k \in s
    PROVE  /\ Cardinality(Began(WorkersOf(s), from, to))
                = aggregate(k, from, to).count + Cardinality(Began(WorkersOf(s \ {k}), from, to))
           /\ aggregate(k, from, to).count \in Nat
           /\ Cardinality(Began(WorkersOf(s \ {k}), from, to)) \in Nat
<1>1. PICK A, B, C : /\ A = Began(WorkersOf(s), from, to)
                     /\ B = Began(workerKey(k), from, to)
                     /\ C = Began(WorkersOf(s \ {k}), from, to)
  OBVIOUS
<1>2. B \subseteq A /\ A \subseteq DOMAIN chore
  BY <1>1 DEF Began, WorkersOf
<1>3. A \ B = C
  <2>1. \A w : w \in WorkersOf(s) <=> w \in workerKey(k) \/ w \in WorkersOf(s \ {k})
    BY DEF WorkersOf
  <2>2. \A w : ~(w \in workerKey(k) /\ w \in WorkersOf(s \ {k}))
    BY OneKey DEF WorkersOf
  <2> QED
    BY <1>1, <2>1, <2>2 DEF Began
<1>4. IsFiniteSet(A)
  BY <1>2, ChoresAre, CountPart
<1>5. /\ Cardinality(B) \in Nat /\ Cardinality(C) \in Nat
      /\ Cardinality(A) = Cardinality(B) + Cardinality(C)
  BY <1>2, <1>3, <1>4, CountRest
<1> QED
  BY <1>1, <1>5, CountIs

\* The sum over the rows is the number of their items.  The recursion of the sum has a
\* solution, these numbers, and no other.
LEMMA SumIsCount ==
    ASSUME ConsoleInv, NEW from, NEW to
    PROVE  Summed(from, to) = Cardinality(Began(WorkersOf(periodRows), from, to))
<1> DEFINE First(s) == CHOOSE x \in s : TRUE
           ItemsOf(s) == Cardinality(Began(WorkersOf(s), from, to))
           Own(k) == aggregate(k, from, to).count
           Step(f) == [s \in SUBSET periodRows |->
                         IF s = {} THEN 0 ELSE Own(First(s)) + f[s \ {First(s)}]]
<1>1. Summed(from, to) = (CHOOSE f : f = Step(f))[periodRows]
  BY Zenon DEF Summed, MapThenSumSet, MapThenFoldSet
<1>2. ItemsOf({}) = 0
  <2>1. Began(WorkersOf({}), from, to) = {}
    BY DEF Began, WorkersOf
  <2> QED
    BY <2>1, FS_EmptySet
<1>3. ASSUME NEW s, NEW k \in s
      PROVE  ItemsOf(s) = Own(k) + ItemsOf(s \ {k})
  <2>1. /\ Cardinality(Began(WorkersOf(s), from, to))
             = aggregate(k, from, to).count + Cardinality(Began(WorkersOf(s \ {k}), from, to))
        /\ aggregate(k, from, to).count \in Nat
        /\ Cardinality(Began(WorkersOf(s \ {k}), from, to)) \in Nat
    BY <1>3, TakeRow
  <2> QED
    BY <2>1
<1>4. \A s : s # {} => First(s) \in s
  OBVIOUS
<1>5. IsFiniteSet(periodRows)
  <2>1. IsFiniteSet(SitesHere)
    <3>1. SiteCount \in Nat
      BY ConsoleAssumption
    <3> QED
      BY <3>1, FS_Interval DEF SitesHere
  <2>2. IsFiniteSet(SitesHere \cup {None})
    BY <2>1, FS_AddElement
  <2>3. periodRows \subseteq SitesHere \cup {None}
    BY DEF periodRows, listed
  <2> QED
    BY <2>2, <2>3, FS_Subset
<1> HIDE DEF First, ItemsOf, Own
<1>6. PICK goal : goal = [s \in SUBSET periodRows |-> ItemsOf(s)]
  OBVIOUS
<1>7. \A s \in SUBSET periodRows : s # {} =>
        First(s) \in s /\ s \ {First(s)} \in SUBSET periodRows
  BY <1>4
<1>8. goal = Step(goal)
  <2>1. ASSUME NEW s \in SUBSET periodRows
        PROVE  ItemsOf(s) = IF s = {} THEN 0 ELSE Own(First(s)) + goal[s \ {First(s)}]
    <3>1. CASE s = {}
      BY <1>2, <3>1
    <3>2. CASE s # {}
      <4>1. PICK k : k = First(s) /\ k \in s /\ s \ {k} \in SUBSET periodRows
        BY <1>7, <3>2
      <4>2. goal[s \ {k}] = ItemsOf(s \ {k})
        BY <1>6, <4>1
      <4>3. ItemsOf(s) = Own(k) + ItemsOf(s \ {k})
        BY <1>3, <4>1
      <4> QED
        BY <3>2, <4>1, <4>2, <4>3
    <3> QED
      BY <3>1, <3>2
  <2> QED
    BY <1>6, <2>1
<1>9. PICK f : f = (CHOOSE g : g = Step(g)) /\ f = Step(f)
  <2>1. \E g : g = Step(g)
    BY <1>8
  <2> HIDE DEF Step
  <2>2. (CHOOSE g : g = Step(g)) = Step(CHOOSE g : g = Step(g))
    BY <2>1
  <2> QED
    BY <2>2
<1>10. /\ f[{}] = 0
       /\ \A s \in SUBSET periodRows : s # {} => f[s] = Own(First(s)) + f[s \ {First(s)}]
  <2>1. \A s \in SUBSET periodRows :
           f[s] = IF s = {} THEN 0 ELSE Own(First(s)) + f[s \ {First(s)}]
    BY <1>9
  <2> HIDE DEF Step
  <2> QED
    BY <2>1
<1> HIDE DEF Step
<1>11. PICK Good : Good = {s \in SUBSET periodRows : f[s] = ItemsOf(s)}
  OBVIOUS
<1>12. {} \in Good
  BY <1>2, <1>10, <1>11
<1>13. ASSUME NEW s \in SUBSET periodRows, s # {}
       PROVE  \E k \in s : s \ {k} \in Good => s \in Good
  <2>1. PICK k : k = First(s) /\ k \in s /\ s \ {k} \in SUBSET periodRows
    BY <1>7, <1>13
  <2>2. f[s] = Own(k) + f[s \ {k}] /\ ItemsOf(s) = Own(k) + ItemsOf(s \ {k})
    BY <1>3, <1>10, <1>13, <2>1
  <2>3. s \ {k} \in Good => s \in Good
    BY <1>11, <2>2
  <2> QED
    BY <2>1, <2>3
<1>14. periodRows \in Good
  BY <1>5, <1>12, <1>13, PartsOneByOne
<1>15. f[periodRows] = ItemsOf(periodRows)
  BY <1>11, <1>14
<1> QED
  BY <1>1, <1>9, <1>15 DEF ItemsOf

\* The items of the comparison: no master's, and of a listed site or none.
DueItems(from, to) == {i \in DOMAIN chore :
    /\ chore[i].status # "VOID" /\ chore[i].begun \in from..to
    /\ person[chore[i].by].role # "MASTER"
    /\ person[chore[i].by].place \in listed \cup {None}}

LEMMA RowsHoldDue ==
    ASSUME ConsoleInv, NEW from \in Int, NEW to \in Int
    PROVE  Summed(from, to) = Cardinality(DueItems(from, to)) /\ IsFiniteSet(DueItems(from, to))
<1>1. WorkersOf(periodRows) = Counted
  BY DEF WorkersOf, periodRows, workerKey, Counted
<1>2. \A i \in DOMAIN chore :
        chore[i].begun \in from..to <=> chore[i].begun >= from /\ chore[i].begun <= to
  BY ChoresAre
<1>3. Began(Counted, from, to) = DueItems(from, to)
  BY <1>2, ChoresAre DEF Began, DueItems, Counted
<1>4. Summed(from, to) = Cardinality(Began(WorkersOf(periodRows), from, to))
  BY SumIsCount
<1>5. DueItems(from, to) \subseteq DOMAIN chore
  BY DEF DueItems
<1>6. IsFiniteSet(DueItems(from, to))
  BY <1>5, ChoresAre, FS_Subset
<1> QED
  BY <1>1, <1>3, <1>4, <1>6

LEMMA PeriodsMeet ==
    ASSUME ConsoleInv, NEW m \in Nat
    PROVE  Summed(0, viewed) = Summed(0, m) + Summed(m + 1, viewed)
<1>0. viewed \in Nat /\ 0 \in Int /\ m \in Int /\ m + 1 \in Int /\ viewed \in Int
  BY DEF ConsoleInv
<1>1. PICK S, T, U : /\ S = DueItems(0, viewed) /\ T = DueItems(0, m)
                     /\ U = DueItems(m + 1, viewed)
  OBVIOUS
<1>2. /\ Summed(0, viewed) = Cardinality(S) /\ IsFiniteSet(S)
  BY <1>0, <1>1, RowsHoldDue
<1>3. Summed(0, m) = Cardinality(T)
  BY <1>0, <1>1, RowsHoldDue
<1>4. Summed(m + 1, viewed) = Cardinality(U)
  BY <1>0, <1>1, RowsHoldDue
<1>5. ASSUME NEW i \in DOMAIN chore
      PROVE  /\ chore[i].begun \in 0..m => chore[i].begun \in 0..viewed
             /\ chore[i].begun \in (m + 1)..viewed
                  <=> chore[i].begun \in 0..viewed /\ chore[i].begun \notin 0..m
  <2>1. PICK b \in Nat : b = chore[i].begun /\ b <= viewed
    BY ChoresAre
  <2> QED
    BY <1>0, <2>1
<1>6. T \subseteq S
  BY <1>1, <1>5 DEF DueItems
<1>7. U = S \ T
  BY <1>1, <1>5 DEF DueItems
<1> QED
  BY <1>2, <1>3, <1>4, <1>6, <1>7, CountTwo

\* What the dashboard shows of a centre and a status.
Shown(n, from, to, status) == {i \in shown(n, from, to) : chore[i].status = status}

LEMMA ShownIsFinite ==
    ASSUME ConsoleInv, NEW n, NEW from, NEW to
    PROVE  /\ IsFiniteSet(shown(n, from, to))
           /\ shown(n, from, to) \subseteq DOMAIN chore
<1>1. shown(n, from, to) \subseteq DOMAIN chore
  BY DEF shown, ChoresOf
<1> QED
  BY <1>1, ChoresAre, FS_Subset

\* And of what has not ended.
Unfinished(n, from, to) == {i \in shown(n, from, to) : chore[i].status \in {"ACTIVE", "PAUSED"}}

LEMMA CountsAre ==
    ASSUME ConsoleInv, NEW n, NEW from, NEW to
    PROVE  /\ counts(n, from, to).void = Cardinality(Shown(n, from, to, "VOID"))
           /\ counts(n, from, to).ended = Cardinality(Shown(n, from, to, "ENDED"))
           /\ counts(n, from, to).total = Cardinality(Unfinished(n, from, to))
                                          + Cardinality(Shown(n, from, to, "ENDED"))
                                          + Cardinality(Shown(n, from, to, "VOID"))
<1>1. PICK L, A, P : /\ L = Unfinished(n, from, to) /\ A = Shown(n, from, to, "ACTIVE")
                     /\ P = Shown(n, from, to, "PAUSED")
  OBVIOUS
<1>2. A \subseteq L /\ P = L \ A /\ L \subseteq shown(n, from, to)
  BY <1>1 DEF Shown, Unfinished
<1>3. IsFiniteSet(L)
  BY <1>2, ShownIsFinite, FS_Subset
<1>4. Cardinality(L) = Cardinality(A) + Cardinality(P)
  BY <1>2, <1>3, CountTwo
<1>5. /\ counts(n, from, to).void = Cardinality(Shown(n, from, to, "VOID"))
      /\ counts(n, from, to).ended = Cardinality(Shown(n, from, to, "ENDED"))
      /\ counts(n, from, to).total = Cardinality(A) + Cardinality(P)
                                     + Cardinality(Shown(n, from, to, "ENDED"))
                                     + Cardinality(Shown(n, from, to, "VOID"))
  BY <1>1 DEF counts, total, shownOf, Shown
<1> QED
  BY <1>1, <1>4, <1>5

LEMMA EndedIs ==
    ASSUME NEW k, NEW from, NEW to
    PROVE  aggregate(k, from, to).endedCount
             = Cardinality({i \in DOMAIN chore :
                 /\ chore[i].by \in workerKey(k) /\ chore[i].status = "ENDED"
                 /\ chore[i].begun >= from /\ chore[i].begun <= to})
<1>1. PICK T : T = {i \in DOMAIN chore :
                     /\ chore[i].by \in workerKey(k) /\ chore[i].status = "ENDED"
                     /\ chore[i].begun >= from /\ chore[i].begun <= to}
  OBVIOUS
<1>2. T = {i \in {j \in DOMAIN chore : /\ chore[j].by \in workerKey(k)
                                       /\ chore[j].begun >= from /\ chore[j].begun <= to} :
             chore[i].status = "ENDED"}
  BY <1>1
<1>3. aggregate(k, from, to).endedCount = Cardinality(T)
  BY <1>2 DEF aggregate
<1> QED
  BY <1>1, <1>3

\* The items of the masters of a centre, and of those without one.
Masters(n, kinds, m) == {i \in ChoresOf({n, None}) :
    /\ person[chore[i].by].role = "MASTER"
    /\ chore[i].status \in kinds /\ chore[i].begun <= m}

\* Somebody at a centre or at none is a master, or in the row of the place.
LEMMA WhoseRow ==
    ASSUME NEW n \in listed, NEW w \in Staff
    PROVE  /\ w \in workerKey(n) <=> person[w].place = n /\ person[w].role # "MASTER"
           /\ w \in workerKey(None) <=> person[w].place = None /\ person[w].role # "MASTER"
           /\ n # None
<1>1. n # None
  BY ConsoleAssumption, NullAssumption DEF listed, SitesHere
<1> QED
  BY <1>1 DEF workerKey, Counted

LEMMA CentreCounts ==
    ASSUME ConsoleInv, NEW n \in listed, NEW m \in Nat
    PROVE  /\ counts(n, 0, m).total - counts(n, 0, m).void
                = aggregate(n, 0, m).count + aggregate(None, 0, m).count
                  + Cardinality(Masters(n, {"ACTIVE", "PAUSED", "ENDED"}, m))
           /\ counts(n, 0, m).ended
                = aggregate(n, 0, m).endedCount + aggregate(None, 0, m).endedCount
                  + Cardinality(Masters(n, {"ENDED"}, m))
<1>0. PICK A, E, V : /\ A = Unfinished(n, 0, m) /\ E = Shown(n, 0, m, "ENDED")
                     /\ V = Shown(n, 0, m, "VOID")
  OBVIOUS
<1>1. /\ counts(n, 0, m).void = Cardinality(V) /\ counts(n, 0, m).ended = Cardinality(E)
      /\ counts(n, 0, m).total = Cardinality(A) + Cardinality(E) + Cardinality(V)
  BY <1>0, CountsAre
<1>2. A \subseteq shown(n, 0, m) /\ E \subseteq shown(n, 0, m) /\ V \subseteq shown(n, 0, m)
  BY <1>0 DEF Shown, Unfinished
<1>3. /\ IsFiniteSet(A) /\ IsFiniteSet(E) /\ IsFiniteSet(V)
      /\ Cardinality(A) \in Nat /\ Cardinality(E) \in Nat /\ Cardinality(V) \in Nat
  BY <1>2, ShownIsFinite, CountPart
<1>4. A \cap E = {}
  BY <1>0 DEF Shown, Unfinished
<1>5. PICK S : S = A \cup E
  OBVIOUS
<1>6. IsFiniteSet(S) /\ A \subseteq S /\ E = S \ A
  BY <1>3, <1>4, <1>5, FS_Union
<1>7. Cardinality(S) = Cardinality(A) + Cardinality(E)
  BY <1>6, CountTwo
<1>8. ASSUME NEW i \in DOMAIN chore
      PROVE  /\ i \in S <=> /\ person[chore[i].by].place \in {n, None}
                            /\ chore[i].begun <= m /\ chore[i].status # "VOID"
             /\ i \in E <=> /\ person[chore[i].by].place \in {n, None}
                            /\ chore[i].begun <= m /\ chore[i].status = "ENDED"
  <2>1. chore[i].begun >= 0 /\ chore[i].status \in {"ACTIVE", "PAUSED", "ENDED", "VOID"}
    BY ChoresAre
  <2> QED
    BY <1>0, <1>5, <2>1 DEF Shown, Unfinished, shown, ChoresOf
<1>9. S \subseteq DOMAIN chore /\ E \subseteq DOMAIN chore
  BY <1>2, <1>5, ShownIsFinite
<1>10. counts(n, 0, m).total - counts(n, 0, m).void
         = aggregate(n, 0, m).count + aggregate(None, 0, m).count
           + Cardinality(Masters(n, {"ACTIVE", "PAUSED", "ENDED"}, m))
  <2>1. PICK T, U, W : /\ T = Began(workerKey(n), 0, m) /\ U = Began(workerKey(None), 0, m)
                       /\ W = Masters(n, {"ACTIVE", "PAUSED", "ENDED"}, m)
    OBVIOUS
  <2>2. ASSUME NEW i \in DOMAIN chore
        PROVE  /\ i \in T <=> i \in S /\ person[chore[i].by].place = n
                              /\ person[chore[i].by].role # "MASTER"
               /\ i \in U <=> i \in S /\ person[chore[i].by].place = None
                              /\ person[chore[i].by].role # "MASTER"
               /\ i \in W <=> i \in S /\ person[chore[i].by].role = "MASTER"
               /\ i \in S => person[chore[i].by].place \in {n, None}
    <3>1. /\ chore[i].begun >= 0 /\ chore[i].status \in {"ACTIVE", "PAUSED", "ENDED", "VOID"}
          /\ chore[i].by \in Staff
      BY ChoresAre
    <3>2. i \in T <=> i \in S /\ person[chore[i].by].place = n
                      /\ person[chore[i].by].role # "MASTER"
      BY <1>8, <2>1, <3>1, WhoseRow DEF Began
    <3>3. i \in U <=> i \in S /\ person[chore[i].by].place = None
                      /\ person[chore[i].by].role # "MASTER"
      BY <1>8, <2>1, <3>1, WhoseRow DEF Began
    <3>4. i \in W <=> i \in S /\ person[chore[i].by].role = "MASTER"
      BY <1>8, <2>1, <3>1 DEF Masters, ChoresOf
    <3> QED
      BY <1>8, <3>2, <3>3, <3>4
  <2>3. T \subseteq DOMAIN chore /\ U \subseteq DOMAIN chore /\ W \subseteq DOMAIN chore
    BY <2>1 DEF Began, Masters, ChoresOf
  <2>4. IsFiniteSet(S) /\ Divided(S, T, U, W)
    <3>1. n # None /\ S \subseteq DOMAIN chore
      BY <1>9, ConsoleAssumption, NullAssumption DEF listed, SitesHere
    <3>2. T \subseteq S /\ U \subseteq S /\ T \cap U = {}
      BY <2>2, <2>3, <3>1
    <3>3. W = (S \ T) \ U
      <4>1. ASSUME NEW i \in DOMAIN chore PROVE i \in W <=> i \in S /\ i \notin T /\ i \notin U
        BY <2>2
      <4> QED
        BY <2>3, <3>1, <4>1
    <3> QED
      BY <1>3, <1>6, <3>2, <3>3 DEF Divided
  <2>5. /\ Cardinality(T) \in Nat /\ Cardinality(U) \in Nat /\ Cardinality(W) \in Nat
        /\ Cardinality(S) = Cardinality(T) + Cardinality(U) + Cardinality(W)
    BY <2>4, CountThree
  <2>6. /\ aggregate(n, 0, m).count = Cardinality(T)
        /\ aggregate(None, 0, m).count = Cardinality(U)
    BY <2>1, CountIs
  <2> QED
    BY <1>1, <1>3, <1>7, <2>1, <2>5, <2>6
<1>11. counts(n, 0, m).ended
         = aggregate(n, 0, m).endedCount + aggregate(None, 0, m).endedCount
           + Cardinality(Masters(n, {"ENDED"}, m))
  <2> DEFINE Ended(k) == {i \in DOMAIN chore :
                            /\ chore[i].by \in workerKey(k) /\ chore[i].status = "ENDED"
                            /\ chore[i].begun >= 0 /\ chore[i].begun <= m}
  <2>1. PICK T, U, W : T = Ended(n) /\ U = Ended(None) /\ W = Masters(n, {"ENDED"}, m)
    OBVIOUS
  <2>2. ASSUME NEW i \in DOMAIN chore
        PROVE  /\ i \in T <=> i \in E /\ person[chore[i].by].place = n
                              /\ person[chore[i].by].role # "MASTER"
               /\ i \in U <=> i \in E /\ person[chore[i].by].place = None
                              /\ person[chore[i].by].role # "MASTER"
               /\ i \in W <=> i \in E /\ person[chore[i].by].role = "MASTER"
               /\ i \in E => person[chore[i].by].place \in {n, None}
    <3>1. chore[i].begun >= 0 /\ chore[i].by \in Staff
      BY ChoresAre
    <3>2. i \in T <=> i \in E /\ person[chore[i].by].place = n
                      /\ person[chore[i].by].role # "MASTER"
      BY <1>8, <2>1, <3>1, WhoseRow
    <3>3. i \in U <=> i \in E /\ person[chore[i].by].place = None
                      /\ person[chore[i].by].role # "MASTER"
      BY <1>8, <2>1, <3>1, WhoseRow
    <3>4. i \in W <=> i \in E /\ person[chore[i].by].role = "MASTER"
      BY <1>8, <2>1, <3>1 DEF Masters, ChoresOf
    <3> QED
      BY <1>8, <3>2, <3>3, <3>4
  <2>3. T \subseteq DOMAIN chore /\ U \subseteq DOMAIN chore /\ W \subseteq DOMAIN chore
    BY <2>1 DEF Masters, ChoresOf
  <2>4. IsFiniteSet(E) /\ Divided(E, T, U, W)
    <3>1. n # None /\ E \subseteq DOMAIN chore
      BY <1>9, ConsoleAssumption, NullAssumption DEF listed, SitesHere
    <3>2. T \subseteq E /\ U \subseteq E /\ T \cap U = {}
      BY <2>2, <2>3, <3>1
    <3>3. W = (E \ T) \ U
      <4>1. ASSUME NEW i \in DOMAIN chore PROVE i \in W <=> i \in E /\ i \notin T /\ i \notin U
        BY <2>2
      <4> QED
        BY <2>3, <3>1, <4>1
    <3> QED
      BY <1>3, <1>6, <3>2, <3>3 DEF Divided
  <2>5. /\ Cardinality(T) \in Nat /\ Cardinality(U) \in Nat /\ Cardinality(W) \in Nat
        /\ Cardinality(E) = Cardinality(T) + Cardinality(U) + Cardinality(W)
    BY <2>4, CountThree
  <2>6. /\ aggregate(n, 0, m).endedCount = Cardinality(T)
        /\ aggregate(None, 0, m).endedCount = Cardinality(U)
    BY <2>1, EndedIs
  <2> QED
    BY <1>1, <2>1, <2>5, <2>6
<1> QED
  BY <1>10, <1>11

LEMMA MonthsMeet ==
    ASSUME ConsoleInv, NEW n
    PROVE  metrics(n).last30d + metrics(n).previous30d
             = counts(n, viewed - 2 * SpanTime, viewed).total
<1>0. viewed \in Nat /\ SpanTime \in Nat
  BY ConsoleAssumption DEF ConsoleInv
<1>1. PICK since \in Int, month \in Int :
          since = viewed - 2 * SpanTime /\ month = viewed - SpanTime /\ since <= month
  BY <1>0
<1>2. PICK S, R, P, A, E, V :
          /\ S = shown(n, since, viewed)
          /\ R = {i \in overviewChores(n) : chore[i].begun >= month /\ chore[i].begun < viewed + 1}
          /\ P = {i \in overviewChores(n) : chore[i].begun >= since /\ chore[i].begun < month}
          /\ A = Unfinished(n, since, viewed) /\ E = Shown(n, since, viewed, "ENDED")
          /\ V = Shown(n, since, viewed, "VOID")
  OBVIOUS
<1>3. metrics(n).last30d = Cardinality(R) /\ metrics(n).previous30d = Cardinality(P)
  BY <1>1, <1>2 DEF metrics
<1>4. counts(n, since, viewed).total = Cardinality(A) + Cardinality(E) + Cardinality(V)
  BY <1>2, CountsAre
<1>5. ASSUME NEW i \in DOMAIN chore
      PROVE  /\ i \in R <=> /\ i \in overviewChores(n) /\ chore[i].begun >= month
             /\ i \in P <=> i \in S /\ i \notin R
             /\ i \in R => i \in S
             /\ i \in V <=> i \in S /\ i \notin A /\ i \notin E
             /\ i \in A => i \in S /\ i \notin E
             /\ i \in E => i \in S
  <2>1. PICK b \in Nat : b = chore[i].begun /\ b <= viewed
    BY ChoresAre
  <2>2. chore[i].status \in {"ACTIVE", "PAUSED", "ENDED", "VOID"}
    BY ChoresAre
  <2>3. i \in S <=> i \in overviewChores(n) /\ b >= since
    BY <1>2, <2>1 DEF shown, overviewChores, ChoresOf
  <2>4. i \in R <=> i \in overviewChores(n) /\ b >= month
    BY <1>0, <1>2, <2>1
  <2>5. i \in P <=> i \in overviewChores(n) /\ b >= since /\ ~(b >= month)
    BY <1>1, <1>2, <2>1
  <2>6. b >= month => b >= since
    BY <1>1
  <2>7. i \in V <=> i \in S /\ i \notin A /\ i \notin E
    BY <1>2, <2>2 DEF Shown, Unfinished
  <2>8. (i \in A => i \in S /\ i \notin E) /\ (i \in E => i \in S)
    BY <1>2 DEF Shown, Unfinished
  <2> QED
    BY <2>1, <2>3, <2>4, <2>5, <2>6, <2>7, <2>8
<1>6. IsFiniteSet(S) /\ S \subseteq DOMAIN chore
  BY <1>2, ShownIsFinite
<1>7. R \subseteq DOMAIN chore /\ P \subseteq DOMAIN chore
  BY <1>2 DEF overviewChores, ChoresOf
<1>8. A \subseteq DOMAIN chore /\ E \subseteq DOMAIN chore /\ V \subseteq DOMAIN chore
  BY <1>2, <1>6 DEF Shown, Unfinished
<1>9. R \subseteq S
  BY <1>5, <1>7
<1>10. P = S \ R
  BY <1>5, <1>6, <1>7
<1>11. Divided(S, A, E, V)
  <2>1. A \subseteq S /\ E \subseteq S /\ A \cap E = {}
    BY <1>5, <1>8
  <2>2. V = (S \ A) \ E
    BY <1>5, <1>6, <1>8
  <2> QED
    BY <2>1, <2>2 DEF Divided
<1>12. Cardinality(S) = Cardinality(R) + Cardinality(P)
  BY <1>6, <1>9, <1>10, CountTwo
<1>13. /\ Cardinality(A) \in Nat /\ Cardinality(E) \in Nat /\ Cardinality(V) \in Nat
       /\ Cardinality(S) = Cardinality(A) + Cardinality(E) + Cardinality(V)
  BY <1>6, <1>11, CountThree
<1> QED
  BY <1>1, <1>3, <1>4, <1>12, <1>13

LEMMA ConsoleInvAddsUp == ConsoleInv => PeriodsAddUp
<1> SUFFICES ASSUME ConsoleInv PROVE PeriodsAddUp
  OBVIOUS
<1>1. ASSUME NEW m \in Beginnings
      PROVE  /\ Summed(0, m) = Cardinality(DueItems(0, m))
             /\ Summed(0, viewed) = Summed(0, m) + Summed(m + 1, viewed)
  <2>1. m \in Nat /\ m \in Int
    BY ConsoleAssumption
  <2>2. Summed(0, m) = Cardinality(DueItems(0, m))
    BY <2>1, RowsHoldDue
  <2>3. Summed(0, viewed) = Summed(0, m) + Summed(m + 1, viewed)
    BY <2>1, PeriodsMeet
  <2> QED
    BY <2>2, <2>3
<1>2. ASSUME NEW m \in Beginnings, NEW n \in listed
      PROVE  /\ counts(n, 0, m).total - counts(n, 0, m).void
                  = aggregate(n, 0, m).count + aggregate(None, 0, m).count
                    + Cardinality(Masters(n, {"ACTIVE", "PAUSED", "ENDED"}, m))
             /\ counts(n, 0, m).ended
                  = aggregate(n, 0, m).endedCount + aggregate(None, 0, m).endedCount
                    + Cardinality(Masters(n, {"ENDED"}, m))
  <2>1. m \in Nat
    BY ConsoleAssumption
  <2> QED
    BY <2>1, CentreCounts
<1>3. ASSUME NEW n \in listed
      PROVE  metrics(n).last30d + metrics(n).previous30d
               = counts(n, viewed - 2 * SpanTime, viewed).total
  BY MonthsMeet
<1> QED
  BY <1>1, <1>2, <1>3, Zenon DEF PeriodsAddUp, Summed, DueItems, Masters

\* The rows of the comparison count every item of the period once, two periods that
\* meet add up to the whole, and the dashboard, the comparison and the overview agree,
\* for any sites, workers and items (computePeriodAggregates, getStats,
\* buildSiteOverview).
THEOREM PeriodsAlwaysAddUp == ConsoleSpec => []PeriodsAddUp
BY ConsoleAlways, ConsoleInvAddsUp, PTL

\* What else the digest says of a centre.
LEMMA IssuesAre ==
    ASSUME NEW n
    PROVE  /\ ("subscription" \in collectDigestIssues(n)) <=> digestStatus(n) \in Inactive
           /\ ("coords" \in collectDigestIssues(n)) <=> ~site[n].placed
           /\ ("no_work" \in collectDigestIssues(n)) => Workless(n)
           /\ ("stuck" \in collectDigestIssues(n))
                 => Running(ChoresOf(digestScope(n)), DigestTime) # {}
<1>1. PICK a, b, c, d, e : /\ a = (digestStatus(n) \in Inactive)
                           /\ b = ~site[n].placed
                           /\ c = (~(digestStatus(n) \in Inactive) /\ Unheard(n))
                           /\ d = (~(digestStatus(n) \in Inactive) /\ Workless(n))
                           /\ e = (~(digestStatus(n) \in Inactive)
                                    /\ Running(ChoresOf(digestScope(n)), DigestTime) # {})
  OBVIOUS
<1>2. PICK found : found = {<<"subscription", a>>, <<"coords", b>>, <<"tablet", c>>,
                            <<"no_work", d>>, <<"stuck", e>>}
  OBVIOUS
<1>3. collectDigestIssues(n) = {f[1] : f \in {x \in found : x[2]}}
  BY <1>1, <1>2, Zenon DEF collectDigestIssues
<1>4. \A f \in found : /\ f[1] = "subscription" => f = <<"subscription", a>>
                       /\ f[1] = "coords" => f = <<"coords", b>>
                       /\ f[1] = "no_work" => f = <<"no_work", d>>
                       /\ f[1] = "stuck" => f = <<"stuck", e>>
  BY <1>2
<1>5. ("subscription" \in collectDigestIssues(n)) <=> a
  <2>1. <<"subscription", a>> \in found /\ <<"subscription", a>>[1] = "subscription"
        /\ <<"subscription", a>>[2] = a
    BY <1>2
  <2> QED
    BY <1>3, <1>4, <2>1
<1>6. ("coords" \in collectDigestIssues(n)) <=> b
  <2>1. <<"coords", b>> \in found /\ <<"coords", b>>[1] = "coords" /\ <<"coords", b>>[2] = b
    BY <1>2
  <2> QED
    BY <1>3, <1>4, <2>1
<1>7. "no_work" \in collectDigestIssues(n) => d
  BY <1>3, <1>4
<1>8. "stuck" \in collectDigestIssues(n) => e
  BY <1>3, <1>4
<1> QED
  BY <1>1, <1>5, <1>6, <1>7, <1>8

\* What the readiness check asks for.
LEMMA ReadyIs ==
    ASSUME NEW n
    PROVE  /\ ("coords" \in requiredOk(n)) <=> site[n].placed
           /\ ("tablet" \in requiredOk(n)) <=> \E r \in report : r.place = n
<1>1. PICK a, b, c, d : /\ a = site[n].placed
                        /\ b = (\E w \in Staff : /\ person[w].place = n /\ person[w].active
                                                 /\ person[w].role = "ADMIN")
                        /\ c = (sorted \cap {n, None} # {})
                        /\ d = (\E r \in report : r.place = n)
  OBVIOUS
<1>2. PICK found : found = {<<"coords", a>>, <<"admin", b>>, <<"classification", c>>,
                            <<"tablet", d>>}
  OBVIOUS
<1>3. requiredOk(n) = {f[1] : f \in {x \in found : x[2]}}
  BY <1>1, <1>2, Zenon DEF requiredOk
<1>4. \A f \in found : /\ f[1] = "coords" => f = <<"coords", a>>
                       /\ f[1] = "tablet" => f = <<"tablet", d>>
  BY <1>2
<1>5. ("coords" \in requiredOk(n)) <=> a
  <2>1. <<"coords", a>> \in found /\ <<"coords", a>>[1] = "coords" /\ <<"coords", a>>[2] = a
    BY <1>2
  <2> QED
    BY <1>3, <1>4, <2>1
<1>6. ("tablet" \in requiredOk(n)) <=> d
  <2>1. <<"tablet", d>> \in found /\ <<"tablet", d>>[1] = "tablet" /\ <<"tablet", d>>[2] = d
    BY <1>2
  <2> QED
    BY <1>3, <1>4, <2>1
<1> QED
  BY <1>1, <1>5, <1>6

\* Whatever runs too long for the digest, the dashboard or the comparison runs too
\* long for the overview.
LEMMA LongForAll ==
    ASSUME ConsoleInv, NEW n, NEW i \in DOMAIN chore, chore[i].status = "ACTIVE",
           person[chore[i].by].place \in {n, None},
           \/ chore[i].begun <= viewed - DigestTime
           \/ chore[i].begun <= viewed - AlertTime
           \/ chore[i].begun <= viewed - LongTime
    PROVE  longRunning(n)
<1>1. chore[i].begun \in Nat /\ viewed \in Nat
  BY ChoresAre DEF ConsoleInv
<1>2. /\ LongTime \in Nat /\ DigestTime \in Nat /\ AlertTime \in Nat
      /\ LongTime <= DigestTime /\ DigestTime <= AlertTime
  BY ConsoleAssumption
<1>3. chore[i].begun <= viewed - LongTime
  BY <1>1, <1>2
<1>4. i \in Running(overviewChores(n), LongTime)
  BY <1>3 DEF Running, overviewChores, ChoresOf
<1> QED
  BY <1>4 DEF longRunning

\* The latest of some times.
LEMMA LatestIs ==
    ASSUME NEW S, IsFiniteSet(S), S \subseteq Nat, S # {}
    PROVE  Max(S) \in S
<1> DEFINE HasMax(s) == s = {} \/ \E x \in s : \A y \in s : x >= y
<1>1. PICK Good : Good = {s \in SUBSET S : HasMax(s)}
  OBVIOUS
<1>2. ASSUME NEW s \in SUBSET S, s # {}
      PROVE  \E k \in s : s \ {k} \in Good => s \in Good
  <2>1. PICK k : k \in s
    BY <1>2
  <2>2. ASSUME s \ {k} \in Good PROVE HasMax(s)
    <3>1. \A y \in s : y \in Nat
      OBVIOUS
    <3>2. CASE s \ {k} = {}
      <4>1. \A y \in s : k >= y
        BY <2>1, <3>1, <3>2
      <4> QED
        BY <2>1, <4>1
    <3>3. CASE s \ {k} # {}
      <4>1. PICK x \in s \ {k} : \A y \in s \ {k} : x >= y
        BY <1>1, <2>2, <3>3
      <4>2. CASE x >= k
        <5>1. \A y \in s : x >= y
          BY <4>1, <4>2
        <5> QED
          BY <4>1, <5>1
      <4>3. CASE ~(x >= k)
        <5>1. \A y \in s : k >= y
          BY <2>1, <3>1, <4>1, <4>3
        <5> QED
          BY <2>1, <5>1
      <4> QED
        BY <4>2, <4>3
    <3> QED
      BY <3>2, <3>3
  <2>3. s \ {k} \in Good => s \in Good
    BY <1>1, <2>2
  <2> QED
    BY <2>1, <2>3
<1>3. {} \in Good
  BY <1>1
<1>4. S \in Good
  BY <1>2, <1>3, PartsOneByOne
<1>5. \E x \in S : \A y \in S : x >= y
  BY <1>1, <1>4
<1> QED
  BY <1>5 DEF Max

\* The board shows the latest report, if there is one.
LEMMA BoardHears ==
    ASSUME ConsoleInv, NEW n
    PROVE  (liveBoard(n).lastHeatReportAt = None) <=> ~(\E r \in report : r.place = n)
<1> DEFINE reports == {r.at : r \in {x \in report : x.place = n}}
<1>1. liveBoard(n).lastHeatReportAt = IF reports = {} THEN None ELSE Max(reports)
  BY DEF liveBoard
<1>2. ASSUME NEW r \in report PROVE r.at \in Nat
  <2>1. PICK t \in Nat : r.at = t - (t % AnHour)
    BY DEF ConsoleInv
  <2>2. AnHour \in Nat /\ AnHour > 0
    BY ConsoleAssumption
  <2>3. (t % AnHour) \in Nat /\ t = AnHour * (t \div AnHour) + (t % AnHour) /\ (t \div AnHour) \in Nat
    BY <2>1, <2>2, HourBelow
  <2>4. AnHour * (t \div AnHour) \in Nat
    BY <2>2, <2>3
  <2> QED
    BY <2>1, <2>3, <2>4
<1>3. IsFiniteSet(reports)
  <2>1. PICK f : f = [r \in report |-> r.at]
    OBVIOUS
  <2>2. f \in [report -> Nat]
    BY <1>2, <2>1
  <2>3. PICK T : T = reports
    OBVIOUS
  <2>4. \A t \in T : \E r \in report : f[r] = t
    BY <2>1, <2>3
  <2>5. IsFiniteSet(report)
    BY DEF ConsoleInv
  <2>6. IsFiniteSet(T)
    BY <2>2, <2>4, <2>5, CountImage
  <2> QED
    BY <2>3, <2>6
<1>4. reports \subseteq Nat
  BY <1>2
<1>5. reports = {} <=> ~(\E r \in report : r.place = n)
  OBVIOUS
<1> HIDE DEF reports
<1>6. reports # {} => Max(reports) \in Nat
  BY <1>3, <1>4, LatestIs
<1> QED
  BY <1>1, <1>5, <1>6, NullAssumption

\* The board's work of a day is on the dashboard; and nothing else is, but for the
\* work of those without a site.
LEMMA BoardOnDashboard ==
    ASSUME ConsoleInv, NEW n
    PROVE  LET today == counts(n, Today, viewed) IN
           /\ liveBoard(n).todayCount <= today.total - today.void
           /\ ChoresOf({None}) = {} => liveBoard(n).todayCount = today.total - today.void
<1>0. PICK A, E, V, B : /\ A = Unfinished(n, Today, viewed)
                        /\ E = Shown(n, Today, viewed, "ENDED")
                        /\ V = Shown(n, Today, viewed, "VOID")
                        /\ B = {i \in ChoresOf({n}) : chore[i].begun >= Today
                                                      /\ chore[i].status # "VOID"}
  OBVIOUS
<1>1. /\ counts(n, Today, viewed).void = Cardinality(V)
      /\ counts(n, Today, viewed).total = Cardinality(A) + Cardinality(E) + Cardinality(V)
  BY <1>0, CountsAre
<1>2. liveBoard(n).todayCount = Cardinality(B)
  BY <1>0 DEF liveBoard
<1>3. A \subseteq shown(n, Today, viewed) /\ E \subseteq shown(n, Today, viewed)
      /\ V \subseteq shown(n, Today, viewed)
  BY <1>0 DEF Shown, Unfinished
<1>4. /\ IsFiniteSet(A) /\ IsFiniteSet(E)
      /\ Cardinality(A) \in Nat /\ Cardinality(E) \in Nat /\ Cardinality(V) \in Nat
  BY <1>3, ShownIsFinite, CountPart
<1>5. PICK S : S = A \cup E
  OBVIOUS
<1>6. A \cap E = {}
  BY <1>0 DEF Shown, Unfinished
<1>7. IsFiniteSet(S) /\ A \subseteq S /\ E = S \ A
  BY <1>4, <1>5, <1>6, FS_Union
<1>8. Cardinality(S) = Cardinality(A) + Cardinality(E)
  BY <1>7, CountTwo
<1>9. ASSUME NEW i \in DOMAIN chore
      PROVE  /\ i \in S <=> /\ i \in ChoresOf({n, None})
                            /\ chore[i].begun >= Today /\ chore[i].status # "VOID"
             /\ i \in B <=> /\ i \in ChoresOf({n})
                            /\ chore[i].begun >= Today /\ chore[i].status # "VOID"
             /\ i \in ChoresOf({n, None}) <=> i \in ChoresOf({n}) \/ i \in ChoresOf({None})
  <2>1. chore[i].begun <= viewed /\ chore[i].status \in {"ACTIVE", "PAUSED", "ENDED", "VOID"}
    BY ChoresAre
  <2> QED
    BY <1>0, <1>5, <2>1 DEF Shown, Unfinished, shown, ChoresOf
<1>10. S \subseteq DOMAIN chore /\ B \subseteq DOMAIN chore
  BY <1>0, <1>3, <1>5, ShownIsFinite DEF ChoresOf
<1>11. B \subseteq S
  BY <1>9, <1>10
<1>12. /\ Cardinality(B) \in Nat /\ Cardinality(B) <= Cardinality(S)
  BY <1>7, <1>11, CountPart
<1>13. ChoresOf({None}) = {} => B = S
  BY <1>9, <1>10
<1> QED
  BY <1>1, <1>2, <1>4, <1>8, <1>12, <1>13

\* The last seven days of the overview.
LEMMA WeekIs ==
    ASSUME ConsoleInv, NEW n
    PROVE  /\ metrics(n).recent7dEnded <= metrics(n).recent7d
           /\ /\ \A i \in overviewChores(n) : chore[i].begun < viewed - IdleTime
              => metrics(n).recent7d = 0
<1>1. PICK R, E : /\ R = {i \in {j \in overviewChores(n) : chore[j].begun >= viewed - IdleTime
                                                          /\ chore[j].begun < viewed + 1} :
                            chore[i].status # "VOID"}
                  /\ E = {i \in R : chore[i].status = "ENDED"}
  OBVIOUS
<1>2. metrics(n).recent7d = Cardinality(R) /\ metrics(n).recent7dEnded = Cardinality(E)
  BY <1>1 DEF metrics
<1>3. R \subseteq DOMAIN chore /\ E \subseteq R
  BY <1>1 DEF overviewChores, ChoresOf
<1>4. IsFiniteSet(R)
  BY <1>3, ChoresAre, CountPart
<1>5. Cardinality(E) <= Cardinality(R)
  BY <1>3, <1>4, CountPart
<1>6. ASSUME \A i \in overviewChores(n) : chore[i].begun < viewed - IdleTime
      PROVE  R = {}
  <2>1. viewed \in Nat /\ IdleTime \in Nat
    BY ConsoleAssumption DEF ConsoleInv
  <2>2. ASSUME NEW i \in R PROVE FALSE
    <3>1. i \in overviewChores(n) /\ i \in DOMAIN chore /\ chore[i].begun >= viewed - IdleTime
      BY <1>1, <1>3
    <3>2. chore[i].begun \in Nat
      BY <3>1, ChoresAre
    <3> QED
      BY <1>6, <2>1, <3>1, <3>2
  <2> QED
    BY <2>2
<1> QED
  BY <1>2, <1>5, <1>6, FS_EmptySet

LEMMA ConsoleInvAgrees == ConsoleInv => DigestAgrees
<1> SUFFICES ASSUME ConsoleInv, NEW n \in board PROVE
        LET issues == collectDigestIssues(n) IN
        /\ \/ "stuck" \in issues
           \/ "subscription" \in issues /\ digestStatus(n) = site[n].status
           => health(n) = "AT_RISK"
        /\ ("coords" \in issues) <=> ~liveBoard(n).coordsSet
        /\ ("coords" \in issues) <=> "coords" \notin requiredOk(n)
        /\ "no_work" \in issues => liveBoard(n).todayCount = 0
        /\ (liveBoard(n).lastHeatReportAt = None) <=> "tablet" \notin requiredOk(n)
        /\ /\ "tablet" \notin requiredOk(n) /\ digestStatus(n) \notin Inactive
           /\ viewed >= Today + WorkStart
           /\ ~\E r \in report : r.place = None
           => "tablet" \in issues
        /\ aggregate(n, 0, viewed).stuckCount > 0 => longRunning(n)
        /\ stuckAlert(n, 0, viewed) => health(n) = "AT_RISK"
        /\ LET today == counts(n, Today, viewed) IN
           /\ liveBoard(n).todayCount <= today.total - today.void
           /\ ChoresOf({None}) = {} => liveBoard(n).todayCount = today.total - today.void
        /\ lowActivity(n) /\ (\A i \in overviewChores(n) : chore[i].begun # viewed - IdleTime)
             => metrics(n).recent7d = 0
        /\ metrics(n).recent7dEnded <= metrics(n).recent7d
  BY Zenon DEF DigestAgrees
<1>0. digestScope(n) \subseteq {n, None}
  BY DEF digestScope
<1>1. ASSUME NEW i \in Running(ChoresOf(digestScope(n)), DigestTime) PROVE longRunning(n)
  <2>1. /\ i \in DOMAIN chore /\ chore[i].status = "ACTIVE"
        /\ person[chore[i].by].place \in {n, None} /\ chore[i].begun <= viewed - DigestTime
    BY <1>0 DEF Running, ChoresOf
  <2> QED
    BY <2>1, LongForAll
<1>2. \/ "stuck" \in collectDigestIssues(n)
      \/ "subscription" \in collectDigestIssues(n) /\ digestStatus(n) = site[n].status
      => health(n) = "AT_RISK"
  <2>1. "stuck" \in collectDigestIssues(n) => longRunning(n)
    <3>1. "stuck" \in collectDigestIssues(n)
            => Running(ChoresOf(digestScope(n)), DigestTime) # {}
      BY IssuesAre
    <3> QED
      BY <1>1, <3>1
  <2>2. "subscription" \in collectDigestIssues(n) /\ digestStatus(n) = site[n].status => atRisk(n)
    <3>1. ("subscription" \in collectDigestIssues(n)) <=> digestStatus(n) \in Inactive
      BY IssuesAre
    <3> QED
      BY <3>1 DEF atRisk
  <2> QED
    BY <2>1, <2>2 DEF health
<1>3. /\ ("coords" \in collectDigestIssues(n)) <=> ~liveBoard(n).coordsSet
      /\ ("coords" \in collectDigestIssues(n)) <=> "coords" \notin requiredOk(n)
  <2>1. ("coords" \in collectDigestIssues(n)) <=> ~site[n].placed
    BY IssuesAre
  <2>2. ("coords" \in requiredOk(n)) <=> site[n].placed
    BY ReadyIs
  <2>3. liveBoard(n).coordsSet = site[n].placed
    BY DEF liveBoard
  <2> QED
    BY <2>1, <2>2, <2>3
<1>4. "no_work" \in collectDigestIssues(n) => liveBoard(n).todayCount = 0
  <2> SUFFICES ASSUME "no_work" \in collectDigestIssues(n) PROVE liveBoard(n).todayCount = 0
    OBVIOUS
  <2>1. Workless(n)
    BY IssuesAre
  <2>2. PICK B : B = {i \in ChoresOf({n}) : chore[i].begun >= Today /\ chore[i].status # "VOID"}
    OBVIOUS
  <2>3. ASSUME NEW i \in B PROVE FALSE
    <3>1. i \in ChoresOf(digestScope(n)) /\ i \in DOMAIN chore /\ chore[i].begun >= Today
      BY <2>2 DEF ChoresOf, digestScope
    <3>2. chore[i].begun < Today
      BY <2>1, <3>1 DEF Workless
    <3>3. chore[i].begun \in Nat /\ Today \in Nat
      BY <3>1, ChoresAre, ConsoleAssumption
    <3> QED
      BY <3>1, <3>2, <3>3
  <2>4. B = {}
    BY <2>3
  <2>5. liveBoard(n).todayCount = Cardinality(B)
    BY <2>2 DEF liveBoard
  <2> QED
    BY <2>4, <2>5, FS_EmptySet
<1>5. /\ (liveBoard(n).lastHeatReportAt = None) <=> "tablet" \notin requiredOk(n)
  <2>1. (liveBoard(n).lastHeatReportAt = None) <=> ~(\E r \in report : r.place = n)
    BY BoardHears
  <2>2. ("tablet" \in requiredOk(n)) <=> \E r \in report : r.place = n
    BY ReadyIs
  <2> QED
    BY <2>1, <2>2
<1>6. ASSUME "tablet" \notin requiredOk(n), digestStatus(n) \notin Inactive,
             viewed >= Today + WorkStart, ~\E r \in report : r.place = None
      PROVE  "tablet" \in collectDigestIssues(n)
  <2>1. ~ \E r \in report : r.place = n
    BY <1>6, ReadyIs
  <2>2. \A r \in report : r.place \notin digestScope(n)
    BY <1>0, <1>6, <2>1
  <2>3. Unheard(n)
    BY <1>6, <2>2 DEF Unheard
  <2> QED
    BY <1>6, <2>3, SilentIs
<1>7. aggregate(n, 0, viewed).stuckCount > 0 => longRunning(n)
  <2> SUFFICES ASSUME aggregate(n, 0, viewed).stuckCount > 0 PROVE longRunning(n)
    OBVIOUS
  <2>1. PICK I, R : /\ I = {i \in DOMAIN chore : /\ chore[i].by \in workerKey(n)
                                                 /\ chore[i].begun >= 0 /\ chore[i].begun <= viewed}
                    /\ R = Running(I, LongTime)
    OBVIOUS
  <2>2. aggregate(n, 0, viewed).stuckCount = Cardinality(R)
    BY <2>1 DEF aggregate
  <2>3. R # {}
    BY <2>2, FS_EmptySet
  <2>4. PICK i \in R : TRUE
    BY <2>3
  <2>5. /\ i \in DOMAIN chore /\ chore[i].status = "ACTIVE" /\ chore[i].begun <= viewed - LongTime
        /\ chore[i].by \in workerKey(n)
    BY <2>1, <2>4 DEF Running
  <2>6. person[chore[i].by].place \in {n, None}
    BY <2>5 DEF workerKey
  <2> QED
    BY <2>5, <2>6, LongForAll
<1>8. stuckAlert(n, 0, viewed) => health(n) = "AT_RISK"
  <2> SUFFICES ASSUME stuckAlert(n, 0, viewed) PROVE health(n) = "AT_RISK"
    OBVIOUS
  <2>1. PICK i \in Running(shown(n, 0, viewed), AlertTime) : TRUE
    BY DEF stuckAlert
  <2>2. /\ i \in DOMAIN chore /\ chore[i].status = "ACTIVE" /\ chore[i].begun <= viewed - AlertTime
        /\ person[chore[i].by].place \in {n, None}
    BY <2>1 DEF Running, shown, ChoresOf
  <2>3. longRunning(n)
    BY <2>2, LongForAll
  <2> QED
    BY <2>3 DEF health
<1>9. /\ liveBoard(n).todayCount <= counts(n, Today, viewed).total - counts(n, Today, viewed).void
      /\ ChoresOf({None}) = {} =>
           liveBoard(n).todayCount
             = counts(n, Today, viewed).total - counts(n, Today, viewed).void
  BY BoardOnDashboard
<1>10. ASSUME lowActivity(n), \A i \in overviewChores(n) : chore[i].begun # viewed - IdleTime
       PROVE  metrics(n).recent7d = 0
  <2>1. ASSUME NEW i \in overviewChores(n) PROVE chore[i].begun < viewed - IdleTime
    <3>1. i \in DOMAIN chore
      BY DEF overviewChores, ChoresOf
    <3>2. chore[i].begun \in Nat /\ viewed \in Nat /\ IdleTime \in Nat
      BY <3>1, ChoresAre, ConsoleAssumption DEF ConsoleInv
    <3>3. chore[i].begun <= viewed - IdleTime /\ chore[i].begun # viewed - IdleTime
      BY <1>10 DEF lowActivity
    <3> QED
      BY <3>2, <3>3
  <2> QED
    BY <2>1, WeekIs
<1>11. metrics(n).recent7dEnded <= metrics(n).recent7d
  BY WeekIs
<1> QED
  BY <1>2, <1>3, <1>4, <1>5, <1>6, <1>7, <1>8, <1>9, <1>10, <1>11, Zenon

-----------------------------------------------------------------------------
(* The list of actions *)

ActionRow == [site : SitesHere, severity : {"critical", "warning"},
              type : {"long_running", "subscription", "onboarding", "support", "adoption"}]

LEMMA InBoth ==
    ASSUME NEW V, NEW s \in Seq(V), NEW t \in Seq(V)
    PROVE  s \o t \in Seq(V) /\ \A x : x \in ToSet(s \o t) <=> x \in ToSet(s) \/ x \in ToSet(t)
<1>1. PICK m \in Nat, n \in Nat : m = Len(s) /\ n = Len(t)
  OBVIOUS
<1>2. PICK u : u = s \o t
  OBVIOUS
<1>3. /\ u \in Seq(V) /\ DOMAIN u = 1..(m + n) /\ DOMAIN s = 1..m /\ DOMAIN t = 1..n
      /\ \A i \in 1..(m + n) : u[i] = IF i <= m THEN s[i] ELSE t[i - m]
  BY <1>1, <1>2
<1>4. ASSUME NEW i \in DOMAIN u PROVE u[i] \in ToSet(s) \/ u[i] \in ToSet(t)
  <2>1. CASE i <= m
    BY <1>3, <2>1 DEF ToSet
  <2>2. CASE ~(i <= m)
    <3>1. i - m \in 1..n /\ u[i] = t[i - m]
      BY <1>1, <1>3, <2>2
    <3> QED
      BY <1>3, <3>1 DEF ToSet
  <2> QED
    BY <2>1, <2>2
<1>5. ASSUME NEW i \in DOMAIN s PROVE s[i] \in ToSet(u)
  <2>1. i \in DOMAIN u /\ u[i] = s[i]
    BY <1>1, <1>3
  <2> QED
    BY <2>1 DEF ToSet
<1>6. ASSUME NEW i \in DOMAIN t PROVE t[i] \in ToSet(u)
  <2>1. i + m \in DOMAIN u /\ ~(i + m <= m) /\ (i + m) - m = i
    BY <1>1, <1>3
  <2>2. u[i + m] = t[i]
    BY <1>3, <2>1
  <2> QED
    BY <2>1, <2>2 DEF ToSet
<1>7. ASSUME NEW x PROVE x \in ToSet(u) <=> x \in ToSet(s) \/ x \in ToSet(t)
  <2>1. x \in ToSet(u) => x \in ToSet(s) \/ x \in ToSet(t)
    <3>1. x \in ToSet(u) => \E i \in DOMAIN u : x = u[i]
      BY DEF ToSet
    <3> QED
      BY <1>4, <3>1
  <2>2. x \in ToSet(s) => x \in ToSet(u)
    <3>1. x \in ToSet(s) => \E i \in DOMAIN s : x = s[i]
      BY DEF ToSet
    <3> QED
      BY <1>5, <3>1
  <2>3. x \in ToSet(t) => x \in ToSet(u)
    <3>1. x \in ToSet(t) => \E i \in DOMAIN t : x = t[i]
      BY DEF ToSet
    <3> QED
      BY <1>6, <3>1
  <2> QED
    BY <2>1, <2>2, <2>3
<1> QED
  BY <1>2, <1>3, <1>7

\* The same, for a list that is named.
LEMMA JoinIs ==
    ASSUME NEW V, NEW s \in Seq(V), NEW t \in Seq(V), NEW u, u = s \o t
    PROVE  u \in Seq(V) /\ \A x : x \in ToSet(u) <=> x \in ToSet(s) \/ x \in ToSet(t)
BY InBoth

LEMMA ToldIs ==
    ASSUME NEW V, NEW r \in V, NEW holds \in BOOLEAN, NEW s, s = IF holds THEN <<r>> ELSE <<>>
    PROVE  s \in Seq(V) /\ \A x : x \in ToSet(s) <=> holds /\ x = r
<1>1. CASE holds
  <2>1. s = <<r>>
    BY <1>1
  <2>2. s \in Seq(V) /\ DOMAIN s = {1} /\ s[1] = r
    BY <2>1
  <2> QED
    BY <1>1, <2>2 DEF ToSet
<1>2. CASE ~holds
  <2>1. s = <<>> /\ s \in Seq(V) /\ DOMAIN s = {}
    BY <1>2
  <2> QED
    BY <1>2, <2>1 DEF ToSet
<1> QED
  BY <1>1, <1>2

\* The actions of a centre are there by the conditions that decide its health.
LEMMA SiteActionsAre ==
    ASSUME NEW n \in SitesHere
    PROVE  /\ siteActions(n) \in Seq(ActionRow)
           /\ \A a \in ToSet(siteActions(n)) : a.site = n /\ a \in ActionRow
           /\ (health(n) # "HEALTHY") <=> \E a \in ToSet(siteActions(n)) : TRUE
           /\ (health(n) = "AT_RISK")
                <=> \E a \in ToSet(siteActions(n)) : a.severity = "critical"
<1>1. PICK h1 \in BOOLEAN, h2 \in BOOLEAN, h3 \in BOOLEAN, h4 \in BOOLEAN, h5 \in BOOLEAN :
          /\ h1 <=> longRunning(n)
          /\ h2 <=> atRisk(n)
          /\ h3 <=> ~onboarded(n)
          /\ h4 <=> openCases(n) # {}
          /\ h5 <=> lowActivity(n)
  OBVIOUS
<1>2. PICK r1, r2, r3, r4, r5 :
          /\ r1 = [site |-> n, type |-> "long_running", severity |-> "critical"]
          /\ r2 = [site |-> n, type |-> "subscription", severity |-> "critical"]
          /\ r3 = [site |-> n, type |-> "onboarding", severity |-> "warning"]
          /\ r4 = [site |-> n, type |-> "support",
                   severity |-> IF p1Open(n) THEN "critical" ELSE "warning"]
          /\ r5 = [site |-> n, type |-> "adoption", severity |-> "warning"]
  OBVIOUS
<1>3. PICK s1, s2, s3, s4, s5 :
          /\ s1 = IF h1 THEN <<r1>> ELSE <<>>
          /\ s2 = IF h2 THEN <<r2>> ELSE <<>>
          /\ s3 = IF h3 THEN <<r3>> ELSE <<>>
          /\ s4 = IF h4 THEN <<r4>> ELSE <<>>
          /\ s5 = IF h5 THEN <<r5>> ELSE <<>>
  OBVIOUS
<1>4. siteActions(n) = s1 \o s2 \o s3 \o s4 \o s5
  BY <1>1, <1>2, <1>3 DEF siteActions
<1>5. /\ r1 \in ActionRow /\ r2 \in ActionRow /\ r3 \in ActionRow
      /\ r4 \in ActionRow /\ r5 \in ActionRow
  BY <1>2 DEF ActionRow
<1>6. s1 \in Seq(ActionRow) /\ \A x : x \in ToSet(s1) <=> h1 /\ x = r1
  BY <1>3, <1>5, ToldIs
<1>7. s2 \in Seq(ActionRow) /\ \A x : x \in ToSet(s2) <=> h2 /\ x = r2
  BY <1>3, <1>5, ToldIs
<1>8. s3 \in Seq(ActionRow) /\ \A x : x \in ToSet(s3) <=> h3 /\ x = r3
  BY <1>3, <1>5, ToldIs
<1>9. s4 \in Seq(ActionRow) /\ \A x : x \in ToSet(s4) <=> h4 /\ x = r4
  BY <1>3, <1>5, ToldIs
<1>10. s5 \in Seq(ActionRow) /\ \A x : x \in ToSet(s5) <=> h5 /\ x = r5
  BY <1>3, <1>5, ToldIs
<1>11. PICK t2, t3, t4, t5 : /\ t2 = s1 \o s2 /\ t3 = t2 \o s3
                             /\ t4 = t3 \o s4 /\ t5 = t4 \o s5
  OBVIOUS
<1>12. t2 \in Seq(ActionRow) /\ \A x : x \in ToSet(t2) <=> x \in ToSet(s1) \/ x \in ToSet(s2)
  BY <1>6, <1>7, <1>11, JoinIs
<1>13. t3 \in Seq(ActionRow) /\ \A x : x \in ToSet(t3) <=> x \in ToSet(t2) \/ x \in ToSet(s3)
  <2>1. t2 \in Seq(ActionRow) /\ s3 \in Seq(ActionRow) /\ t3 = t2 \o s3
    BY <1>8, <1>11, <1>12
  <2> QED
    BY <2>1, JoinIs
<1>14. t4 \in Seq(ActionRow) /\ \A x : x \in ToSet(t4) <=> x \in ToSet(t3) \/ x \in ToSet(s4)
  <2>1. t3 \in Seq(ActionRow) /\ s4 \in Seq(ActionRow) /\ t4 = t3 \o s4
    BY <1>9, <1>11, <1>13
  <2> QED
    BY <2>1, JoinIs
<1>15. t5 \in Seq(ActionRow) /\ \A x : x \in ToSet(t5) <=> x \in ToSet(t4) \/ x \in ToSet(s5)
  <2>1. t4 \in Seq(ActionRow) /\ s5 \in Seq(ActionRow) /\ t5 = t4 \o s5
    BY <1>10, <1>11, <1>14
  <2> QED
    BY <2>1, JoinIs
<1>16. siteActions(n) = t5
  BY <1>4, <1>11
<1>17. \A x : x \in ToSet(siteActions(n))
                <=> \/ h1 /\ x = r1
                    \/ h2 /\ x = r2
                    \/ h3 /\ x = r3
                    \/ h4 /\ x = r4
                    \/ h5 /\ x = r5
  BY <1>6, <1>7, <1>8, <1>9, <1>10, <1>12, <1>13, <1>14, <1>15, <1>16
<1>18. /\ r1.site = n /\ r2.site = n /\ r3.site = n /\ r4.site = n /\ r5.site = n
       /\ r1.severity = "critical" /\ r2.severity = "critical"
       /\ r3.severity # "critical" /\ r5.severity # "critical"
       /\ (r4.severity = "critical") <=> p1Open(n)
  BY <1>2
<1>19. p1Open(n) => openCases(n) # {}
  BY DEF p1Open
<1>20. /\ (health(n) # "HEALTHY") <=> (h1 \/ h2 \/ h3 \/ h4 \/ h5)
       /\ (health(n) = "AT_RISK") <=> (h1 \/ h2 \/ (h4 /\ p1Open(n)))
  BY <1>1, <1>19 DEF health
<1> QED
  BY <1>5, <1>15, <1>16, <1>17, <1>18, <1>20

\* What a list that is folded from parts contains.
LEMMA FoldRange ==
    ASSUME NEW S, IsFiniteSet(S), S \subseteq Nat, NEW R, NEW f, f[{}] = <<>>, NEW part,
           \A s \in SUBSET S : s # {} /\ f[s \ {Max(s)}] \in Seq(R) =>
              /\ f[s] \in Seq(R)
              /\ \A x : x \in ToSet(f[s]) <=> x \in ToSet(f[s \ {Max(s)}]) \/ x \in part[Max(s)]
    PROVE  f[S] \in Seq(R) /\ \A x : x \in ToSet(f[S]) <=> \E k \in S : x \in part[k]
<1> DEFINE Holds(s) == /\ f[s] \in Seq(R)
                       /\ \A x : x \in ToSet(f[s]) <=> \E k \in s : x \in part[k]
<1>1. PICK Good : Good = {s \in SUBSET S : Holds(s)}
  OBVIOUS
<1>2. {} \in Good
  <2>1. <<>> \in Seq(R) /\ DOMAIN <<>> = {}
    OBVIOUS
  <2>2. ToSet(<<>>) = {}
    BY <2>1 DEF ToSet
  <2> QED
    BY <1>1, <2>1, <2>2
<1>3. ASSUME NEW s \in SUBSET S, s # {}
      PROVE  \E k \in s : s \ {k} \in Good => s \in Good
  <2>1. Max(s) \in s
    <3>1. IsFiniteSet(s) /\ s \subseteq Nat
      BY FS_Subset
    <3> QED
      BY <1>3, <3>1, LatestIs
  <2>2. PICK k : k = Max(s) /\ k \in s
    BY <2>1
  <2>3. ASSUME s \ {k} \in Good PROVE s \in Good
    <3>1. /\ f[s \ {k}] \in Seq(R)
          /\ \A x : x \in ToSet(f[s \ {k}]) <=> \E j \in s \ {k} : x \in part[j]
      BY <1>1, <2>3
    <3>2. /\ f[s] \in Seq(R)
          /\ \A x : x \in ToSet(f[s]) <=> x \in ToSet(f[s \ {k}]) \/ x \in part[k]
      BY <1>3, <2>2, <3>1
    <3>3. \A x : x \in ToSet(f[s]) <=> \E j \in s : x \in part[j]
      BY <2>2, <3>1, <3>2
    <3> QED
      BY <1>1, <3>2, <3>3
  <2> QED
    BY <2>2, <2>3
<1>4. S \in Good
  BY <1>2, <1>3, PartsOneByOne
<1> QED
  BY <1>1, <1>4

LEMMA SitesAreFinite == IsFiniteSet(SitesHere) /\ SitesHere \subseteq Nat
<1>1. SiteCount \in Nat
  BY ConsoleAssumption
<1> QED
  BY <1>1, FS_Interval DEF SitesHere

\* The list of all actions is folded over the sites: every listed site's are in it.
LEMMA AllActionsAre ==
    /\ allActions \in Seq(ActionRow)
    /\ \A a : a \in ToSet(allActions) <=> \E n \in listed : a \in ToSet(siteActions(n))
<1> DEFINE Added(k, v) == IF k \in listed THEN siteActions(k) \o v ELSE v
           Step(f) == [s \in SUBSET SitesHere |->
                         IF s = {} THEN <<>> ELSE Added(Max(s), f[s \ {Max(s)}])]
           Rows == Seq(ActionRow)
<1>1. allActions = (CHOOSE f : f = Step(f))[SitesHere]
  <2> DEFINE sites == [n \in SitesHere |-> n]
  <2>1. allActions = (CHOOSE f : f = [s \in SUBSET DOMAIN sites |->
            IF s = {} THEN <<>>
            ELSE IF sites[Max(s)] \in listed
                 THEN siteActions(sites[Max(s)]) \o f[s \ {Max(s)}]
                 ELSE f[s \ {Max(s)}]])[DOMAIN sites]
    BY Zenon DEF allActions, FoldLeft, MapThenFoldSet
  <2>2. DOMAIN sites = SitesHere /\ \A n \in SitesHere : sites[n] = n
    OBVIOUS
  <2> HIDE DEF sites
  <2>3. \A s \in SUBSET SitesHere : s # {} => sites[Max(s)] = Max(s)
    <3>1. ASSUME NEW s \in SUBSET SitesHere, s # {} PROVE Max(s) \in SitesHere
      <4>1. IsFiniteSet(s) /\ s \subseteq Nat
        BY SitesAreFinite, FS_Subset
      <4> QED
        BY <3>1, <4>1, LatestIs
    <3> QED
      BY <2>2, <3>1
  <2>4. \A f : [s \in SUBSET DOMAIN sites |->
            IF s = {} THEN <<>>
            ELSE IF sites[Max(s)] \in listed
                 THEN siteActions(sites[Max(s)]) \o f[s \ {Max(s)}]
                 ELSE f[s \ {Max(s)}]] = Step(f)
    BY <2>2, <2>3
  <2> HIDE DEF Step
  <2> QED
    BY <2>1, <2>2, <2>4
<1>2. PICK pick : pick = [s \in SUBSET SitesHere |-> Max(s)]
  OBVIOUS
<1>3. ASSUME NEW s \in SUBSET SitesHere, s # {} PROVE pick[s] = Max(s) /\ Max(s) \in s
  <2>1. IsFiniteSet(s) /\ s \subseteq Nat
    BY SitesAreFinite, FS_Subset
  <2> QED
    BY <1>2, <1>3, <2>1, LatestIs
<1>4. ASSUME NEW k \in SitesHere, NEW v \in Rows
      PROVE  /\ Added(k, v) \in Rows
             /\ \A x : x \in ToSet(Added(k, v))
                         <=> x \in ToSet(v) \/ (k \in listed /\ x \in ToSet(siteActions(k)))
  <2>1. siteActions(k) \in Seq(ActionRow)
    BY SiteActionsAre
  <2>2. PICK t : t = siteActions(k) /\ t \in Seq(ActionRow)
    BY <2>1
  <2>3. t \o v \in Seq(ActionRow) /\ \A x : x \in ToSet(t \o v) <=> x \in ToSet(t) \/ x \in ToSet(v)
    BY <2>2, InBoth
  <2> QED
    BY <2>2, <2>3
<1>5. PICK h : h = [s \in SUBSET SitesHere |-> [v \in Rows |-> IF s = {} THEN v ELSE Added(Max(s), v)]]
  OBVIOUS
<1>6. h \in [SUBSET SitesHere -> [Rows -> Rows]]
  <2>1. ASSUME NEW s \in SUBSET SitesHere, NEW v \in Rows
        PROVE  (IF s = {} THEN v ELSE Added(Max(s), v)) \in Rows
    <3>1. CASE s = {}
      BY <3>1
    <3>2. CASE s # {}
      <4>1. Max(s) \in SitesHere
        BY <1>3, <3>2
      <4>2. Added(Max(s), v) \in Rows
        BY <1>4, <4>1
      <4> QED
        BY <3>2, <4>2
    <3> QED
      BY <3>1, <3>2
  <2> HIDE DEF Added, Rows
  <2> QED
    BY <1>5, <2>1
<1>7. <<>> \in Rows
  OBVIOUS
<1> HIDE DEF Added, Rows
<1>8. \E g \in [SUBSET SitesHere -> Rows] : \A s \in SUBSET SitesHere :
         g[s] = IF s = {} THEN <<>> ELSE h[s][g[s \ {pick[s]}]]
  <2>1. PICK base : base = <<>>
    OBVIOUS
  <2>2. FoldOver(SitesHere, Rows, base, pick, h)
    BY <1>3, <1>6, <1>7, <2>1 DEF FoldOver
  <2>3. PICK g : Folds(g, SitesHere, Rows, base, pick, h)
    BY <2>2, SitesAreFinite, FoldSolved
  <2> QED
    BY <2>1, <2>3 DEF Folds
<1>9. PICK goal \in [SUBSET SitesHere -> Rows] : \A s \in SUBSET SitesHere :
         goal[s] = IF s = {} THEN <<>> ELSE h[s][goal[s \ {pick[s]}]]
  BY <1>8
<1>10. goal = Step(goal)
  <2>1. ASSUME NEW s \in SUBSET SitesHere
        PROVE  goal[s] = IF s = {} THEN <<>> ELSE Added(Max(s), goal[s \ {Max(s)}])
    <3>1. CASE s = {}
      BY <1>9, <3>1
    <3>2. CASE s # {}
      <4>1. goal[s] = h[s][goal[s \ {Max(s)}]] /\ goal[s \ {Max(s)}] \in Rows
        BY <1>3, <1>9, <3>2
      <4> QED
        BY <1>5, <3>2, <4>1
    <3> QED
      BY <3>1, <3>2
  <2> QED
    BY <1>9, <2>1
<1>11. PICK f : f = (CHOOSE g : g = Step(g)) /\ f = Step(f)
  <2>1. \E g : g = Step(g)
    BY <1>10
  <2> HIDE DEF Step
  <2>2. (CHOOSE g : g = Step(g)) = Step(CHOOSE g : g = Step(g))
    BY <2>1
  <2> QED
    BY <2>2
<1>12. /\ f[{}] = <<>>
       /\ \A s \in SUBSET SitesHere : s # {} => f[s] = Added(Max(s), f[s \ {Max(s)}])
  <2>1. \A s \in SUBSET SitesHere :
           f[s] = IF s = {} THEN <<>> ELSE Added(Max(s), f[s \ {Max(s)}])
    BY <1>11
  <2> HIDE DEF Step
  <2> QED
    BY <2>1
<1> HIDE DEF Step
<1>13. PICK part : part = [k \in SitesHere |-> IF k \in listed THEN ToSet(siteActions(k)) ELSE {}]
  OBVIOUS
<1>14. \A s \in SUBSET SitesHere : s # {} /\ f[s \ {Max(s)}] \in Seq(ActionRow) =>
          /\ f[s] \in Seq(ActionRow)
          /\ \A x : x \in ToSet(f[s]) <=> x \in ToSet(f[s \ {Max(s)}]) \/ x \in part[Max(s)]
  <2> SUFFICES ASSUME NEW s \in SUBSET SitesHere, s # {}, f[s \ {Max(s)}] \in Seq(ActionRow)
               PROVE  /\ f[s] \in Seq(ActionRow)
                      /\ \A x : x \in ToSet(f[s])
                                  <=> x \in ToSet(f[s \ {Max(s)}]) \/ x \in part[Max(s)]
    OBVIOUS
  <2>1. PICK k : k = Max(s) /\ k \in SitesHere
    BY <1>3
  <2>2. PICK v : v = f[s \ {k}] /\ v \in Rows
    BY <2>1 DEF Rows
  <2>3. /\ Added(k, v) \in Rows
        /\ \A x : x \in ToSet(Added(k, v))
                    <=> x \in ToSet(v) \/ (k \in listed /\ x \in ToSet(siteActions(k)))
    BY <1>4, <2>1, <2>2
  <2>4. f[s] = Added(k, v)
    BY <1>12, <2>1, <2>2
  <2>5. \A x : x \in part[k] <=> (k \in listed /\ x \in ToSet(siteActions(k)))
    BY <1>13, <2>1
  <2> QED
    BY <2>1, <2>2, <2>3, <2>4, <2>5 DEF Rows
<1>15. f[SitesHere] \in Seq(ActionRow)
       /\ \A x : x \in ToSet(f[SitesHere]) <=> \E k \in SitesHere : x \in part[k]
  BY <1>12, <1>14, SitesAreFinite, FoldRange
<1>16. allActions = f[SitesHere]
  BY <1>1, <1>11
<1>17. listed \subseteq SitesHere
  BY DEF listed
<1> QED
  BY <1>13, <1>15, <1>16, <1>17

\* The rows of one severity, in the order they were collected.
LEMMA RankIs ==
    ASSUME NEW list \in Seq(ActionRow), NEW severity
    PROVE  /\ Rank(list, severity) \in Seq(ActionRow)
           /\ \A a : a \in ToSet(Rank(list, severity))
                       <=> a \in ToSet(list) /\ a.severity = severity
<1>1. PICK D : D = DOMAIN list
  OBVIOUS
<1> DEFINE Picked(k, v) == IF list[k].severity = severity THEN Append(v, list[k]) ELSE v
           Step(f) == [s \in SUBSET D |->
                         IF s = {} THEN <<>> ELSE Picked(Max(s), f[s \ {Max(s)}])]
           Lists == Seq(ActionRow)
<1>2. IsFiniteSet(D) /\ D \subseteq Nat /\ \A k \in D : list[k] \in ActionRow
  <2>1. PICK m \in Nat : D = 1..m
    BY <1>1
  <2>2. IsFiniteSet(1..m)
    BY <2>1, FS_Interval
  <2>3. \A k \in D : list[k] \in ActionRow
    BY <1>1
  <2> QED
    BY <2>1, <2>2, <2>3
<1>3. Rank(list, severity) = (CHOOSE f : f = Step(f))[D]
  <2>1. Rank(list, severity) = (CHOOSE f : f = [s \in SUBSET DOMAIN list |->
            IF s = {} THEN <<>>
            ELSE IF list[Max(s)].severity = severity
                 THEN Append(f[s \ {Max(s)}], list[Max(s)])
                 ELSE f[s \ {Max(s)}]])[DOMAIN list]
    BY Zenon DEF Rank, FoldLeft, MapThenFoldSet
  <2> QED
    BY <1>1, <2>1
<1>4. PICK pick : pick = [s \in SUBSET D |-> Max(s)]
  OBVIOUS
<1>5. ASSUME NEW s \in SUBSET D, s # {} PROVE pick[s] = Max(s) /\ Max(s) \in s
  <2>1. IsFiniteSet(s) /\ s \subseteq Nat
    BY <1>2, FS_Subset
  <2> QED
    BY <1>4, <1>5, <2>1, LatestIs
<1>6. ASSUME NEW k \in D, NEW v \in Lists
      PROVE  /\ Picked(k, v) \in Lists
             /\ \A x : x \in ToSet(Picked(k, v))
                         <=> x \in ToSet(v) \/ (list[k].severity = severity /\ x = list[k])
  <2>1. PICK r \in ActionRow : r = list[k]
    BY <1>2
  <2>2. PICK one : one = <<r>>
    OBVIOUS
  <2>3. one \in Seq(ActionRow) /\ DOMAIN one = {1} /\ one[1] = r
    BY <2>2
  <2>4. \A x : x \in ToSet(one) <=> x = r
    BY <2>3 DEF ToSet
  <2>5. PICK u : u = Append(v, r)
    OBVIOUS
  <2>6. u = v \o one
    BY <2>2, <2>5
  <2>7. u \in Seq(ActionRow) /\ \A x : x \in ToSet(u) <=> x \in ToSet(v) \/ x \in ToSet(one)
    BY <2>3, <2>6, JoinIs
  <2>8. Picked(k, v) = IF r.severity = severity THEN u ELSE v
    BY <2>1, <2>5
  <2> QED
    BY <2>1, <2>4, <2>7, <2>8
<1>7. PICK h : h = [s \in SUBSET D |-> [v \in Lists |-> IF s = {} THEN v ELSE Picked(Max(s), v)]]
  OBVIOUS
<1>8. h \in [SUBSET D -> [Lists -> Lists]]
  <2>1. ASSUME NEW s \in SUBSET D, NEW v \in Lists
        PROVE  (IF s = {} THEN v ELSE Picked(Max(s), v)) \in Lists
    <3>1. CASE s = {}
      BY <3>1
    <3>2. CASE s # {}
      <4>1. Max(s) \in D
        BY <1>5, <3>2
      <4>2. Picked(Max(s), v) \in Lists
        BY <1>6, <4>1
      <4> QED
        BY <3>2, <4>2
    <3> QED
      BY <3>1, <3>2
  <2> HIDE DEF Picked, Lists
  <2> QED
    BY <1>7, <2>1
<1>9. <<>> \in Lists
  OBVIOUS
<1> HIDE DEF Picked, Lists
<1>10. PICK goal \in [SUBSET D -> Lists] : \A s \in SUBSET D :
          goal[s] = IF s = {} THEN <<>> ELSE h[s][goal[s \ {pick[s]}]]
  <2>1. PICK base : base = <<>>
    OBVIOUS
  <2>2. FoldOver(D, Lists, base, pick, h)
    BY <1>5, <1>8, <1>9, <2>1 DEF FoldOver
  <2>3. PICK g : Folds(g, D, Lists, base, pick, h)
    BY <1>2, <2>2, FoldSolved
  <2> QED
    BY <2>1, <2>3 DEF Folds
<1>11. goal = Step(goal)
  <2>1. ASSUME NEW s \in SUBSET D
        PROVE  goal[s] = IF s = {} THEN <<>> ELSE Picked(Max(s), goal[s \ {Max(s)}])
    <3>1. CASE s = {}
      BY <1>10, <3>1
    <3>2. CASE s # {}
      <4>1. goal[s] = h[s][goal[s \ {Max(s)}]] /\ goal[s \ {Max(s)}] \in Lists
        BY <1>5, <1>10, <3>2
      <4> QED
        BY <1>7, <3>2, <4>1
    <3> QED
      BY <3>1, <3>2
  <2> QED
    BY <1>10, <2>1
<1>12. PICK f : f = (CHOOSE g : g = Step(g)) /\ f = Step(f)
  <2>1. \E g : g = Step(g)
    BY <1>11
  <2> HIDE DEF Step
  <2>2. (CHOOSE g : g = Step(g)) = Step(CHOOSE g : g = Step(g))
    BY <2>1
  <2> QED
    BY <2>2
<1>13. /\ f[{}] = <<>>
       /\ \A s \in SUBSET D : s # {} => f[s] = Picked(Max(s), f[s \ {Max(s)}])
  <2>1. \A s \in SUBSET D : f[s] = IF s = {} THEN <<>> ELSE Picked(Max(s), f[s \ {Max(s)}])
    BY <1>12
  <2> HIDE DEF Step
  <2> QED
    BY <2>1
<1> HIDE DEF Step
<1>14. PICK part : part = [k \in D |-> IF list[k].severity = severity THEN {list[k]} ELSE {}]
  OBVIOUS
<1>15. \A s \in SUBSET D : s # {} /\ f[s \ {Max(s)}] \in Seq(ActionRow) =>
          /\ f[s] \in Seq(ActionRow)
          /\ \A x : x \in ToSet(f[s]) <=> x \in ToSet(f[s \ {Max(s)}]) \/ x \in part[Max(s)]
  <2> SUFFICES ASSUME NEW s \in SUBSET D, s # {}, f[s \ {Max(s)}] \in Seq(ActionRow)
               PROVE  /\ f[s] \in Seq(ActionRow)
                      /\ \A x : x \in ToSet(f[s])
                                  <=> x \in ToSet(f[s \ {Max(s)}]) \/ x \in part[Max(s)]
    OBVIOUS
  <2>1. PICK k : k = Max(s) /\ k \in D
    BY <1>5
  <2>2. PICK v : v = f[s \ {k}] /\ v \in Lists
    BY <2>1 DEF Lists
  <2>3. /\ Picked(k, v) \in Lists
        /\ \A x : x \in ToSet(Picked(k, v))
                    <=> x \in ToSet(v) \/ (list[k].severity = severity /\ x = list[k])
    BY <1>6, <2>1, <2>2
  <2>4. f[s] = Picked(k, v)
    BY <1>13, <2>1, <2>2
  <2>5. \A x : x \in part[k] <=> (list[k].severity = severity /\ x = list[k])
    BY <1>14, <2>1
  <2> QED
    BY <2>1, <2>2, <2>3, <2>4, <2>5 DEF Lists
<1>16. f[D] \in Seq(ActionRow)
       /\ \A x : x \in ToSet(f[D]) <=> \E k \in D : x \in part[k]
  BY <1>2, <1>13, <1>15, FoldRange
<1>17. Rank(list, severity) = f[D]
  BY <1>3, <1>12
<1>18. ASSUME NEW x
       PROVE  (\E k \in D : x \in part[k]) <=> x \in ToSet(list) /\ x.severity = severity
  <2>1. x \in ToSet(list) <=> \E k \in D : x = list[k]
    BY <1>1 DEF ToSet
  <2> QED
    BY <1>14, <2>1
<1> QED
  BY <1>16, <1>17, <1>18

LEMMA PrefixIs ==
    ASSUME NEW V, NEW u \in Seq(V), NEW k \in Nat, k <= Len(u)
    PROVE  DOMAIN SubSeq(u, 1, k) = 1..k /\ \A i \in 1..k : SubSeq(u, 1, k)[i] = u[i]
OBVIOUS

\* What is shown: the critical ones first, and of the warnings as many as there is place for.
LEMMA ShownFirst ==
    ASSUME NEW V, NEW c \in Seq(V), NEW w \in Seq(V), NEW u, u = c \o w,
           NEW cut \in Nat, NEW end, end = Min({cut, Len(u)}),
           NEW kept, kept = SubSeq(u, 1, end)
    PROVE  \/ ToSet(c) \subseteq ToSet(kept)
           \/ \A k \in DOMAIN kept : kept[k] \in ToSet(c)
<1>1. PICK m \in Nat, n \in Nat : m = Len(c) /\ n = Len(w)
  OBVIOUS
<1>2. /\ u \in Seq(V) /\ Len(u) = m + n /\ DOMAIN c = 1..m
      /\ \A i \in 1..m : u[i] = c[i]
  BY <1>1
<1>3. end = IF cut <= m + n THEN cut ELSE m + n
  <2>1. PICK size \in Int : size = Len(u)
    BY <1>2
  <2>2. cut \in Int
    OBVIOUS
  <2>3. Min({cut, size}) = IF cut <= size THEN cut ELSE size
    BY <2>1, <2>2, MinOfTwo
  <2> QED
    BY <1>2, <2>1, <2>3
<1>4. PICK last \in Nat : last = end /\ last <= m + n
  BY <1>3
<1>5. kept = SubSeq(u, 1, last)
  BY <1>4
<1>6. DOMAIN kept = 1..last /\ \A i \in 1..last : kept[i] = u[i]
  <2>1. last <= Len(u)
    BY <1>2, <1>4
  <2> QED
    BY <1>2, <1>5, <2>1, PrefixIs
<1>7. CASE m <= last
  <2>1. ASSUME NEW i \in DOMAIN c PROVE c[i] \in ToSet(kept)
    <3>1. i \in DOMAIN kept /\ kept[i] = c[i]
      BY <1>2, <1>4, <1>6, <1>7
    <3> QED
      BY <3>1 DEF ToSet
  <2>2. ToSet(c) = {c[i] : i \in DOMAIN c}
    BY DEF ToSet
  <2> QED
    BY <2>1, <2>2
<1>8. CASE ~(m <= last)
  <2>1. ASSUME NEW k \in DOMAIN kept PROVE kept[k] \in ToSet(c)
    <3>1. k \in DOMAIN c /\ kept[k] = c[k]
      BY <1>2, <1>4, <1>6, <1>8
    <3> QED
      BY <3>1 DEF ToSet
  <2> QED
    BY <2>1
<1> QED
  BY <1>7, <1>8

\* The actions of a centre are collected by the conditions that decide its health, and what
\* is critical comes first.
LEMMA ActionsAlwaysAgree == ActionsAgree
<1> SUFFICES ASSUME NEW n \in listed
             PROVE  LET own == {a \in ToSet(allActions) : a.site = n}
                        critical == {a \in own : a.severity = "critical"}
                    IN  /\ (health(n) # "HEALTHY") <=> (own # {})
                        /\ (health(n) = "AT_RISK") <=> (critical # {})
                        /\ critical \subseteq ToSet(actions)
                           \/ \A k \in DOMAIN actions : actions[k].severity = "critical"
  BY DEF ActionsAgree
<1>1. PICK all \in Seq(ActionRow) : all = allActions
  BY AllActionsAre
<1>2. PICK c \in Seq(ActionRow), w \in Seq(ActionRow) :
          /\ c = Rank(all, "critical") /\ w = Rank(all, "warning")
          /\ \A a : a \in ToSet(c) <=> a \in ToSet(all) /\ a.severity = "critical"
  BY RankIs
<1>3. PICK u, end, kept :
          u = c \o w /\ end = Min({MaxActions, Len(u)}) /\ kept = SubSeq(u, 1, end)
  OBVIOUS
<1>15. MaxActions \in Nat
  BY ConsoleAssumption
<1>4. actions = kept
  BY <1>1, <1>2, <1>3 DEF actions, BySeverity
<1>5. \/ ToSet(c) \subseteq ToSet(kept)
      \/ \A k \in DOMAIN kept : kept[k] \in ToSet(c)
  BY <1>3, <1>15, ShownFirst
<1>6. n \in SitesHere /\ listed \subseteq SitesHere
  BY DEF listed
<1>7. \A a : a \in ToSet(all) /\ a.site = n <=> a \in ToSet(siteActions(n))
  <2>1. ASSUME NEW a PROVE a \in ToSet(all) <=> \E m \in listed : a \in ToSet(siteActions(m))
    BY <1>1, AllActionsAre
  <2>2. \A m \in listed : \A a \in ToSet(siteActions(m)) : a.site = m
    BY <1>6, SiteActionsAre
  <2> QED
    BY <2>1, <2>2
<1>8. /\ (health(n) # "HEALTHY") <=> \E a \in ToSet(siteActions(n)) : TRUE
      /\ (health(n) = "AT_RISK") <=> \E a \in ToSet(siteActions(n)) : a.severity = "critical"
  BY <1>6, SiteActionsAre
<1>9. PICK own, critical : /\ own = {a \in ToSet(all) : a.site = n}
                           /\ critical = {a \in own : a.severity = "critical"}
  OBVIOUS
<1>10. /\ \A a : a \in own <=> a \in ToSet(siteActions(n))
       /\ \A a : a \in critical <=> a \in ToSet(siteActions(n)) /\ a.severity = "critical"
  BY <1>7, <1>9
<1>11. (health(n) # "HEALTHY") <=> own # {}
  BY <1>8, <1>10
<1>12. (health(n) = "AT_RISK") <=> critical # {}
  BY <1>8, <1>10
<1>13. critical \subseteq ToSet(c) /\ \A a \in ToSet(c) : a.severity = "critical"
  BY <1>2, <1>9
<1>14. \/ critical \subseteq ToSet(kept)
       \/ \A k \in DOMAIN kept : kept[k].severity = "critical"
  BY <1>5, <1>13
<1> QED
  BY <1>1, <1>4, <1>9, <1>11, <1>12, <1>14

\* The digest, the live board, the readiness check, the overview, the comparison and
\* the dashboard tell the same of every centre on the board, and the list of actions of
\* every listed one, for any rows and any number of actions shown.
THEOREM ViewsAlwaysAgree == ConsoleSpec => []ViewsAgree
<1>1. ConsoleInv => ViewsAgree
  BY ConsoleInvAgrees, ActionsAlwaysAgree DEF ViewsAgree
<1> QED
  BY <1>1, ConsoleAlways, PTL
=============================================================================
