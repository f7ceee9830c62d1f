--------------------------- MODULE WorkItemsProofs ---------------------------
(***************************************************************************)
(* Proofs about the whole life of a work item: the office's and the        *)
(* tablet's calls keep what the field path relies on, only two of them can  *)
(* make an item end before it starts, and the audit trail explains the     *)
(* status of every item.                                                   *)
(***************************************************************************)
EXTENDS WorkItems, MobileEventsProofs

DeskType == [pc : {"idle", "read"}, job : OfficeCalls \cup {None}, seen : Row \cup {None}]

\* What an execution of an office call holds between its read and its write; an
\* edit was compared with what it read.
DeskOK ==
    \A d \in Desks : AtDesk(d, "read") =>
        /\ desk[d].job \in OfficeCalls /\ desk[d].seen \in Row
        /\ desk[d].job.op = "update" => NotReversed(desk[d].job, desk[d].seen)

\* Inductive: the field path's invariant, under the office's writes as well.
OfficeInv ==
    /\ LockInv
    /\ desk \in [Desks -> DeskType]
    /\ DeskOK
    /\ inspections \in [Items -> Nat]

-----------------------------------------------------------------------------
(* The rows and audit rows the calls write *)

LEMMA CallFields ==
    ASSUME NEW c \in OfficeCalls
    PROVE  /\ c.item \in Items
           /\ c.op \in {"update", "void", "forceEnd", "restore", "delete", "mobileVoid",
                        "mobileEdit", "inspect", "batchInspect", "manual"}
           /\ c.by \in Accounts /\ c.approver \in Accounts \cup {None}
           /\ c.startedAt \in Nat \cup {None} /\ c.endedAt \in Nat \cup {None}
           /\ c.memo \in Memos \cup {None} /\ c.starter \in Workers \cup {None}
           /\ c.crew \in (SUBSET Workers) \cup {None}
           /\ c.op = "mobileEdit" => c.approver \in Accounts
<1>1. c \in OfficeCall
  BY OfficeAssumption
<1> QED
  BY <1>1, OfficeAssumption DEF OfficeCall

Writes == {"update", "void", "forceEnd", "restore", "mobileVoid", "mobileEdit"}

\* An office write makes a row of a row, with the status its audit row stands
\* for; an end has an instant and somebody who ended it, an open item neither.
LEMMA OfficeRowEffect ==
    ASSUME NEW r \in Row, NEW s \in Row, NEW c \in OfficeCalls, c.op \in Writes,
           now \in Nat
    PROVE  LET n == OfficeRow(r, c, s) IN
           /\ n \in Row
           /\ c.op \in {"update", "mobileEdit"} =>
                 /\ n.status = r.status /\ n.endedBy = r.endedBy
                 /\ r.endedAt # None => n.endedAt # None
           /\ c.op \in {"void", "mobileVoid"} => n.status = "VOID"
           /\ c.op = "forceEnd" =>
                 n.status = "ENDED" /\ n.endedAt = now /\ n.endedBy = c.by
           /\ c.op = "restore" => n.status = "ACTIVE" /\ n.endedBy = None
<1>1. CASE c.op = "update"
  <2>1. /\ Given(c.startedAt, r.startedAt) \in Nat
        /\ Given(c.endedAt, r.endedAt) \in Nat \cup {None}
        /\ Given(c.memo, r.memo) \in Memos \cup {None}
        /\ r.endedAt # None => Given(c.endedAt, r.endedAt) # None
    BY CallFields, NoneAssumption DEF Given, Row
  <2>2. (IF c.memo = None THEN r.pauses ELSE <<>>) \in Seq(Pause)
    BY EmptySeq DEF Row
  <2>3. /\ EditRow(r, c) \in Row /\ EditRow(r, c).status = r.status
        /\ EditRow(r, c).endedBy = r.endedBy
        /\ EditRow(r, c).endedAt = Given(c.endedAt, r.endedAt)
    BY <2>1, <2>2 DEF EditRow, Row
  <2> QED
    BY <1>1, <2>1, <2>3 DEF OfficeRow
<1>2. CASE c.op \in {"void", "mobileVoid"}
  <2>1. VoidRow(r) \in Row /\ VoidRow(r).status = "VOID"
    BY DEF VoidRow, Row, Statuses
  <2> QED
    BY <1>2, <2>1 DEF OfficeRow
<1>3. CASE c.op = "forceEnd"
  <2>1. /\ ForceEndRow(r, c) \in Row /\ ForceEndRow(r, c).status = "ENDED"
        /\ ForceEndRow(r, c).endedAt = now /\ ForceEndRow(r, c).endedBy = c.by
    BY CallFields DEF ForceEndRow, Row, Statuses
  <2> QED
    BY <1>3, <2>1 DEF OfficeRow
<1>4. CASE c.op = "restore"
  <2>1. /\ RestoreRow(r) \in Row /\ RestoreRow(r).status = "ACTIVE"
        /\ RestoreRow(r).endedBy = None
    BY DEF RestoreRow, Row, Statuses
  <2> QED
    BY <1>4, <2>1 DEF OfficeRow
<1>5. CASE c.op = "mobileEdit"
  <2>1. NewStarter(c, s) \in Workers
    BY CallFields DEF NewStarter, Given, Row
  <2>2. NewCrew(c, s) \in SUBSET Workers
    <3>1. s.crew \in SUBSET Workers
      BY DEF Row
    <3>2. Given(c.crew, s.crew \ {s.starter}) \in SUBSET Workers
      BY <3>1, CallFields DEF Given
    <3> QED
      BY <2>1, <3>2 DEF NewCrew
  <2>3. Given(c.memo, r.memo) \in Memos \cup {None}
    BY CallFields DEF Given, Row
  <2>4. (IF c.memo = None THEN r.pauses ELSE s.pauses) \in Seq(Pause)
    BY DEF Row
  <2>5. /\ MobileEditRow(r, c, s) \in Row /\ MobileEditRow(r, c, s).status = r.status
        /\ MobileEditRow(r, c, s).endedBy = r.endedBy
        /\ MobileEditRow(r, c, s).endedAt = r.endedAt
    <3> DEFINE memo == Given(c.memo, r.memo)
               pauses == IF c.memo = None THEN r.pauses ELSE s.pauses
               starter == IF NewStarter(c, s) # s.starter THEN NewStarter(c, s) ELSE r.starter
               lead == IF Reassigns(c, s) THEN NewStarter(c, s) ELSE r.lead
               crew == IF Reassigns(c, s) THEN NewCrew(c, s) ELSE r.crew
    <3>1. starter \in Workers /\ lead \in Workers /\ crew \in SUBSET Workers
      BY <2>1, <2>2 DEF Row
    <3>2. MobileEditRow(r, c, s) =
             [r EXCEPT !.memo = memo, !.pauses = pauses, !.starter = starter,
                       !.lead = lead, !.crew = crew]
      BY DEF MobileEditRow
    <3> HIDE DEF memo, pauses, starter, lead, crew
    <3>3. memo \in Memos \cup {None} /\ pauses \in Seq(Pause)
      BY <2>3, <2>4 DEF memo, pauses
    <3> QED
      BY <3>1, <3>2, <3>3 DEF Row
  <2> QED
    BY <1>5, <2>5 DEF OfficeRow
<1> QED
  BY <1>1, <1>2, <1>3, <1>4, <1>5 DEF Writes

LEMMA OfficeMarkEffect ==
    ASSUME NEW s \in Row, NEW c \in OfficeCalls, c.op \in Writes
    PROVE  LET m == OfficeMark(c, s) IN
           /\ m \in AuditRow
           /\ c.op \in {"update", "mobileEdit"} => m.action = "EDIT"
           /\ c.op \in {"void", "mobileVoid"} => m.action = "VOID"
           /\ c.op = "forceEnd" => m.action = "END"
           /\ c.op = "restore" => m.action = "RESTORE"
<1>1. s.starter \in Accounts /\ c.by \in Accounts
      /\ (c.op = "mobileEdit" => c.approver \in Accounts)
  BY CallFields, AccountsAssumption DEF Row
<1>2. CASE c.op \in {"update", "mobileEdit"}
  BY <1>1, <1>2 DEF OfficeMark, AuditRow, AuditActions
<1>3. CASE c.op \in {"void", "mobileVoid"}
  BY <1>1, <1>3 DEF OfficeMark, AuditRow, AuditActions
<1>4. CASE c.op = "forceEnd"
  BY <1>1, <1>4 DEF OfficeMark, AuditRow, AuditActions
<1>5. CASE c.op = "restore"
  BY <1>1, <1>5 DEF OfficeMark, AuditRow, AuditActions
<1> QED
  BY <1>2, <1>3, <1>4, <1>5 DEF Writes

\* A manual registration makes an ended row.
LEMMA RegisterEffect ==
    ASSUME OfficeInv, NEW c \in OfficeCalls, Register(c)
    PROVE  \E i \in Items, r \in Row, a \in Accounts :
              /\ i \notin used /\ row[i] = None
              /\ r.status = "ENDED" /\ r.endedAt # None /\ r.endedBy # None
              /\ row' = [row EXCEPT ![i] = r]
              /\ used' = used \cup {i}
              /\ trail' = [trail EXCEPT ![i] =
                    <<[action |-> "MANUAL_CREATE", actor |-> a, event |-> None]>>]
<1> DEFINE r == [status |-> "ENDED", key |-> None, startedAt |-> c.startedAt,
                 endedAt |-> c.endedAt, endedBy |-> c.by, starter |-> c.starter,
                 lead |-> c.starter, crew |-> {c.starter} \cup c.crew,
                 memo |-> c.memo, pauses |-> <<>>]
<1>1. /\ c.startedAt \in Nat /\ c.endedAt \in Nat /\ c.by \in Accounts
      /\ c.starter \in Workers /\ c.crew \in SUBSET Workers /\ c.memo \in Memos
  BY CallFields, OfficeAssumption DEF Register
<1>2. {c.starter} \cup c.crew \in SUBSET Workers /\ <<>> \in Seq(Pause)
  BY <1>1, EmptySeq
<1>3. r \in Row
  BY <1>1, <1>2 DEF Row, Statuses
<1>4. r.status = "ENDED" /\ r.endedAt # None /\ r.endedBy # None
  BY <1>1, NoneAssumption
<1>5. PICK i \in Items \ used :
         /\ row' = [row EXCEPT ![i] = r]
         /\ used' = used \cup {i}
         /\ trail' = [trail EXCEPT ![i] =
               <<[action |-> "MANUAL_CREATE", actor |-> c.by, event |-> None]>>]
  BY DEF Register
<1>6. row[i] = None
  BY <1>5 DEF OfficeInv, LockInv, UnusedIsBlank
<1> HIDE DEF r
<1> QED
  BY <1>1, <1>3, <1>4, <1>5, <1>6

-----------------------------------------------------------------------------
(* OfficeInv is inductive *)

\* A write to a row that no field transaction has locked keeps LockInv.
LEMMA UnlockedWriteKeepsLockInv ==
    ASSUME LockInv, NEW i \in Items, NEW r \in Row \cup {None}, NEW s \in Seq(AuditRow),
           \A g \in Handlers : Doing(g, "locked") => Job(g).item # i,
           row' = [row EXCEPT ![i] = r], trail' = [trail EXCEPT ![i] = s],
           used' = used \cup {i}, UNCHANGED <<now, lock, handler>>
    PROVE  LockInv'
<1>1. TypeOK
  BY DEF LockInv
<1>2. TypeOK'
  BY <1>1 DEF TypeOK
<1>3. PhaseOK'
  BY DEF LockInv, PhaseOK, Doing, Job
<1>4. LockedReadIsCurrent'
  <2> SUFFICES ASSUME NEW g \in Handlers, Doing(g, "locked")
               PROVE  handler[g].seen = row'[Job(g).item]
    BY DEF LockedReadIsCurrent, Doing, Job
  <2>1. Job(g) \in Events /\ handler[g].seen = row[Job(g).item] /\ Job(g).item # i
    BY DEF LockInv, PhaseOK, LockedReadIsCurrent
  <2> QED
    BY <1>1, <2>1, EventFields DEF TypeOK
<1>5. UnusedIsBlank'
  BY <1>1 DEF LockInv, UnusedIsBlank, TypeOK
<1> QED
  BY <1>2, <1>3, <1>4, <1>5 DEF LockInv

\* A free row lock means that no field transaction has locked the row.
LEMMA LockableMeansFree ==
    ASSUME LockInv, NEW i \in Items, Lockable(i) \/ i \notin used
    PROVE  \A g \in Handlers : Doing(g, "locked") => Job(g).item # i
<1> SUFFICES ASSUME NEW g \in Handlers, Doing(g, "locked") PROVE Job(g).item # i
  OBVIOUS
<1>1. /\ lock[Job(g).item] = g /\ g # None
      /\ row[Job(g).item] \in Row /\ row[Job(g).item] # None
  BY NoneAssumption, RowAssumption DEF LockInv, PhaseOK, LockedReadIsCurrent
<1> QED
  BY <1>1 DEF Lockable, LockInv, UnusedIsBlank

\* What a desk is about to write to.
LEMMA ReadyFacts ==
    ASSUME OfficeInv, NEW d \in Desks, NEW ops, Ready(d, ops)
    PROVE  /\ desk[d].job \in OfficeCalls /\ desk[d].job.op \in ops
           /\ desk[d].job.item \in Items /\ desk[d].job.item \in used
           /\ desk[d].seen \in Row /\ row[desk[d].job.item] \in Row
           /\ \A g \in Handlers : Doing(g, "locked") => Job(g).item # desk[d].job.item
<1>1. desk[d].job \in OfficeCalls /\ desk[d].seen \in Row /\ desk[d].job.op \in ops
  BY DEF Ready, OfficeInv, DeskOK
<1>2. desk[d].job.item \in Items
  BY <1>1, CallFields
<1>3. row[desk[d].job.item] \in Row /\ desk[d].job.item \in used
  BY <1>2 DEF Ready, Exists, OfficeInv, LockInv, TypeOK, UnusedIsBlank
<1>4. Lockable(desk[d].job.item) /\ LockInv
  BY DEF Ready, OfficeInv
<1> QED
  BY <1>1, <1>2, <1>3, <1>4, LockableMeansFree

\* A call that is done leaves its desk idle.
LEMMA DoneKeepsDesks ==
    ASSUME desk \in [Desks -> DeskType], DeskOK, NEW d \in Desks, Done(d)
    PROVE  desk' \in [Desks -> DeskType] /\ DeskOK'
<1>1. Idle \in DeskType /\ Idle.pc = "idle"
  BY DEF Idle, DeskType
<1>2. desk' = [desk EXCEPT ![d] = Idle]
  BY DEF Done
<1> QED
  BY <1>1, <1>2 DEF DeskOK, AtDesk

\* A write, field by field: the row and audit row it leaves.
LEMMA WriteEffect ==
    ASSUME OfficeInv, NEW d \in Desks, Write(d)
    PROVE  \E c \in OfficeCalls, s \in Row :
              /\ c.op \in Writes /\ c.item \in used /\ row[c.item] \in Row
              /\ \A g \in Handlers : Doing(g, "locked") => Job(g).item # c.item
              /\ row' = [row EXCEPT ![c.item] = OfficeRow(row[c.item], c, s)]
              /\ trail' = [trail EXCEPT ![c.item] = Append(trail[c.item], OfficeMark(c, s))]
<1>1. Ready(d, Writes)
  BY DEF Write, Writes
<1>2. /\ row' = [row EXCEPT ![desk[d].job.item] =
                    OfficeRow(row[desk[d].job.item], desk[d].job, desk[d].seen)]
      /\ trail' = [trail EXCEPT ![desk[d].job.item] =
                    Append(trail[desk[d].job.item], OfficeMark(desk[d].job, desk[d].seen))]
  BY DEF Write
<1> QED
  BY <1>1, <1>2, ReadyFacts

LEMMA WriteKeepsOfficeInv ==
    ASSUME OfficeInv, NEW d \in Desks, Write(d)
    PROVE  OfficeInv'
<1>1. PICK c \in OfficeCalls, s \in Row :
         /\ c.op \in Writes /\ c.item \in used /\ row[c.item] \in Row
         /\ \A g \in Handlers : Doing(g, "locked") => Job(g).item # c.item
         /\ row' = [row EXCEPT ![c.item] = OfficeRow(row[c.item], c, s)]
         /\ trail' = [trail EXCEPT ![c.item] = Append(trail[c.item], OfficeMark(c, s))]
  BY WriteEffect
<1>2. LockInv /\ TypeOK /\ now \in Nat /\ c.item \in Items
  BY BoundsAssumption, CallFields DEF OfficeInv, LockInv, TypeOK
<1> DEFINE r == OfficeRow(row[c.item], c, s)
           t == Append(trail[c.item], OfficeMark(c, s))
<1>3. r \in Row
  BY <1>1, <1>2, OfficeRowEffect
<1>4. t \in Seq(AuditRow)
  <2>1. OfficeMark(c, s) \in AuditRow /\ trail[c.item] \in Seq(AuditRow)
    BY <1>1, <1>2, OfficeMarkEffect DEF TypeOK
  <2> QED
    BY <2>1, AppendProperties
<1>5. used' = used \cup {c.item} /\ UNCHANGED <<now, lock, handler, inspections>> /\ Done(d)
  BY <1>1 DEF Write
<1> HIDE DEF r, t
<1>6. row' = [row EXCEPT ![c.item] = r] /\ trail' = [trail EXCEPT ![c.item] = t]
  BY <1>1 DEF r, t
<1>7. LockInv'
  BY <1>1, <1>2, <1>3, <1>4, <1>5, <1>6, UnlockedWriteKeepsLockInv
<1> QED
  BY <1>5, <1>7, DoneKeepsDesks DEF OfficeInv

LEMMA DeleteKeepsOfficeInv ==
    ASSUME OfficeInv, NEW d \in Desks, Delete(d)
    PROVE  OfficeInv'
<1> DEFINE i == desk[d].job.item
<1>1. /\ i \in Items /\ i \in used
      /\ \A g \in Handlers : Doing(g, "locked") => Job(g).item # i
  BY ReadyFacts DEF Delete
<1>2. /\ row' = [row EXCEPT ![i] = None] /\ trail' = [trail EXCEPT ![i] = <<>>]
      /\ used' = used /\ UNCHANGED <<now, lock, handler, inspections>> /\ Done(d)
  BY DEF Delete
<1> HIDE DEF i
<1>3. <<>> \in Seq(AuditRow) /\ used' = used \cup {i} /\ LockInv
  BY <1>1, <1>2, EmptySeq DEF OfficeInv
<1>4. LockInv'
  BY <1>1, <1>2, <1>3, UnlockedWriteKeepsLockInv
<1> QED
  BY <1>2, <1>4, DoneKeepsDesks DEF OfficeInv

LEMMA RegisterKeepsOfficeInv ==
    ASSUME OfficeInv, NEW c \in OfficeCalls, Register(c)
    PROVE  OfficeInv'
<1>1. PICK i \in Items, r \in Row, a \in Accounts :
         /\ i \notin used
         /\ row' = [row EXCEPT ![i] = r]
         /\ used' = used \cup {i}
         /\ trail' = [trail EXCEPT ![i] =
               <<[action |-> "MANUAL_CREATE", actor |-> a, event |-> None]>>]
  BY RegisterEffect
<1>2. LockInv /\ UNCHANGED <<now, lock, handler, desk, inspections>>
  BY DEF OfficeInv, Register
<1>3. <<[action |-> "MANUAL_CREATE", actor |-> a, event |-> None]>> \in Seq(AuditRow)
  BY DEF AuditRow, AuditActions
<1>4. LockInv'
  BY <1>1, <1>2, <1>3, LockableMeansFree, UnlockedWriteKeepsLockInv
<1> QED
  BY <1>2, <1>4 DEF OfficeInv, DeskOK, AtDesk

LEMMA ReadKeepsOfficeInv ==
    ASSUME OfficeInv, NEW d \in Desks, NEW c \in OfficeCalls, Read(d, c)
    PROVE  OfficeInv'
<1> DEFINE x == [pc |-> "read", job |-> c, seen |-> row[c.item]]
<1>1. row[c.item] \in Row
  BY CallFields DEF Read, Exists, OfficeInv, LockInv, TypeOK
<1>2. x \in DeskType /\ desk' = [desk EXCEPT ![d] = x]
  BY <1>1 DEF DeskType, Read
<1>3. UNCHANGED vars /\ inspections' = inspections
  BY DEF Read, vars
<1>4. LockInv'
  BY <1>3, NextKeepsLockInv DEF OfficeInv
<1>5. DeskOK'
  <2>1. c.op = "update" => NotReversed(c, row[c.item])
    BY DEF Read, Allowed
  <2> QED
    BY <1>1, <1>2, <2>1 DEF OfficeInv, DeskOK, AtDesk
<1> QED
  BY <1>2, <1>3, <1>4, <1>5 DEF OfficeInv

\* An inspection record, or a call that comes to nothing.
LEMMA InspectKeepsOfficeInv ==
    ASSUME OfficeInv, NEW d \in Desks, Inspect(d) \/ DeskFails(d)
    PROVE  OfficeInv'
<1>1. UNCHANGED vars /\ Done(d)
  BY DEF Inspect, DeskFails, vars
<1>2. LockInv'
  BY <1>1, NextKeepsLockInv DEF OfficeInv
<1>3. inspections' \in [Items -> Nat]
  BY DEF Inspect, DeskFails, OfficeInv
<1> QED
  BY <1>1, <1>2, <1>3, DoneKeepsDesks DEF OfficeInv

LEMMA OfficeNextKeepsOfficeInv == OfficeInv /\ [OfficeNext]_officeVars => OfficeInv'
<1> SUFFICES ASSUME OfficeInv, [OfficeNext]_officeVars PROVE OfficeInv'
  OBVIOUS
<1>1. CASE FieldStep \/ UNCHANGED officeVars
  <2>1. [Next]_vars /\ UNCHANGED <<desk, inspections>>
    BY <1>1 DEF FieldStep, officeVars, vars
  <2>2. LockInv'
    BY <2>1, NextKeepsLockInv DEF OfficeInv
  <2> QED
    BY <2>1, <2>2 DEF OfficeInv, DeskOK, AtDesk
<1>2. ASSUME NEW c \in OfficeCalls, Register(c) PROVE OfficeInv'
  BY <1>2, RegisterKeepsOfficeInv
<1>3. ASSUME NEW d \in Desks, NEW c \in OfficeCalls, Read(d, c) PROVE OfficeInv'
  BY <1>3, ReadKeepsOfficeInv
<1>4. ASSUME NEW d \in Desks, Write(d) PROVE OfficeInv'
  BY <1>4, WriteKeepsOfficeInv
<1>5. ASSUME NEW d \in Desks, Delete(d) PROVE OfficeInv'
  BY <1>5, DeleteKeepsOfficeInv
<1>6. ASSUME NEW d \in Desks, Inspect(d) \/ DeskFails(d) PROVE OfficeInv'
  BY <1>6, InspectKeepsOfficeInv
<1> QED
  BY <1>1, <1>2, <1>3, <1>4, <1>5, <1>6 DEF OfficeNext

LEMMA OfficeInvAlways == OfficeSpec => []OfficeInv
<1>1. OfficeInit => OfficeInv
  <2> SUFFICES ASSUME OfficeInit PROVE OfficeInv
    OBVIOUS
  <2>1. LockInv
    BY InitLockInv DEF OfficeInit
  <2>2. Idle \in DeskType /\ Idle.pc = "idle"
    BY DEF Idle, DeskType
  <2> QED
    BY <2>1, <2>2 DEF OfficeInit, OfficeInv, DeskOK, AtDesk
<1> QED
  BY <1>1, OfficeNextKeepsOfficeInv, PTL DEF OfficeSpec

\* What a field transaction writes over is what it read, although the office
\* and the tablet's edit screen write to the same rows (their update waits for
\* the row lock).
THEOREM OfficeLeavesLockedReads == OfficeSpec => []LockedReadIsCurrent
<1>1. OfficeInv => LockedReadIsCurrent
  BY DEF OfficeInv, LockInv
<1> QED
  BY <1>1, OfficeInvAlways, PTL

-----------------------------------------------------------------------------
(* Starts and ends *)

\* A field call ends an item no earlier than it started.
LEMMA AppliedSpanIsForward ==
    ASSUME NEW r \in Row, NEW e \in Events, NEW t \in Nat,
           Resolves(e.at, Moments(r), t), Forward(r)
    PROVE  Forward(NextRow(r, r, e, t))
<1> DEFINE n == NextRow(r, r, e, t)
<1>1. n.startedAt = r.startedAt /\ e.action \in {"END", "PAUSE", "RESUME"}
  BY NextRowFields, EventFields
<1>2. CASE e.action = "END"
  <2>1. n.endedAt = t
    BY <1>2, NextRowFields
  <2>2. r.startedAt <= t
    BY DEF Resolves, Moments
  <2> HIDE DEF n
  <2> QED
    BY <1>1, <2>1, <2>2 DEF Forward, n
<1>3. CASE e.action \in {"PAUSE", "RESUME"}
  <2>1. n.endedAt = r.endedAt
    BY <1>3, NextRowFields
  <2> HIDE DEF n
  <2> QED
    BY <1>1, <2>1 DEF Forward, n
<1> QED
  BY <1>1, <1>2, <1>3

\* An office write turns the times round only on two grounds.
LEMMA OfficeSpanIsForward ==
    ASSUME NEW r \in Row, NEW s \in Row, NEW c \in OfficeCalls, c.op \in Writes,
           c.op = "update" => NotReversed(c, s), Forward(r), now \in Nat
    PROVE  \/ Forward(OfficeRow(r, c, s))
           \/ c.op = "update" /\ (s.startedAt # r.startedAt \/ s.endedAt # r.endedAt)
           \/ c.op = "forceEnd" /\ now < r.startedAt
<1>0. r.startedAt \in Nat
  BY DEF Row
<1>1. CASE c.op = "update"
  <2>1. SUFFICES ASSUME s.startedAt = r.startedAt, s.endedAt = r.endedAt
                 PROVE  Forward(OfficeRow(r, c, s))
    BY <1>1
  <2>2. /\ OfficeRow(r, c, s).startedAt = Given(c.startedAt, s.startedAt)
        /\ OfficeRow(r, c, s).endedAt = Given(c.endedAt, s.endedAt)
    BY <1>1, <2>1 DEF OfficeRow, EditRow, Row
  <2> QED
    BY <1>1, <2>2 DEF NotReversed, Forward
<1>2. CASE c.op \in {"void", "mobileVoid"}
  BY <1>2 DEF OfficeRow, VoidRow, Row, Forward
<1>3. CASE c.op = "forceEnd"
  <2>1. /\ OfficeRow(r, c, s).startedAt = r.startedAt
        /\ OfficeRow(r, c, s).endedAt = now
    BY <1>3 DEF OfficeRow, ForceEndRow, Row
  <2>2. CASE r.startedAt <= now
    BY <2>1, <2>2 DEF Forward
  <2>3. CASE now < r.startedAt
    BY <1>3, <2>3
  <2> QED
    BY <1>0, <2>2, <2>3
<1>4. CASE c.op = "restore"
  BY <1>4 DEF OfficeRow, RestoreRow, Row, Forward
<1>5. CASE c.op = "mobileEdit"
  BY <1>5 DEF OfficeRow, MobileEditRow, Row, Forward
<1> QED
  BY <1>1, <1>2, <1>3, <1>4, <1>5 DEF Writes

\* An item comes to end before it starts only by an edit that was compared with
\* other times than it writes over, or by a forced end of an item that starts
\* later (updateForAdmin, forceEnd, the event time of the field calls).
THEOREM SpansStayForward == OfficeSpec => SpanStaysForward
<1> DEFINE Turned(i) ==
        Exists(i) /\ row'[i] # None /\ Forward(row[i]) /\ ~Forward(row'[i])
           Turns(d, i) ==
        /\ AtDesk(d, "read") /\ desk[d].job.item = i /\ desk'[d] = Idle
        /\ \/ /\ desk[d].job.op = "update"
              /\ \/ desk[d].seen.startedAt # row[i].startedAt
                 \/ desk[d].seen.endedAt # row[i].endedAt
           \/ desk[d].job.op = "forceEnd" /\ now < row[i].startedAt
<1>1. ASSUME OfficeInv, [OfficeNext]_officeVars, NEW i \in Items, Turned(i)
      PROVE  \E d \in Desks : Turns(d, i)
  <2>1. LockInv /\ TypeOK /\ now \in Nat /\ row[i] \in Row
    BY <1>1, BoundsAssumption DEF OfficeInv, LockInv, TypeOK, Exists
  <2>2. CASE row' = row
    BY <1>1, <2>2
  <2>3. ASSUME NEW h \in Handlers, Insert(h) PROVE FALSE
    <3>1. PICK j \in Items, r \in Row : row[j] = None /\ row' = [row EXCEPT ![j] = r]
      BY <2>1, <2>3, InsertEffect
    <3> QED
      BY <1>1, <2>1, <3>1 DEF Exists, TypeOK
  <2>4. ASSUME NEW h \in Handlers, Apply(h) PROVE FALSE
    <3>1. PICK e \in Events, t \in Nat :
             /\ row[e.item] \in Row /\ Resolves(e.at, Moments(row[e.item]), t)
             /\ row' = [row EXCEPT ![e.item] = NextRow(row[e.item], row[e.item], e, t)]
      BY <2>1, <2>4, ApplyEffect
    <3>2. e.item = i /\ row'[i] = NextRow(row[i], row[i], e, t)
      BY <1>1, <2>1, <3>1 DEF TypeOK
    <3> QED
      BY <1>1, <2>1, <3>1, <3>2, AppliedSpanIsForward
  <2>5. ASSUME NEW c \in OfficeCalls, Register(c) PROVE FALSE
    <3>1. PICK j \in Items, r \in Row : row[j] = None /\ row' = [row EXCEPT ![j] = r]
      BY <1>1, <2>5, RegisterEffect
    <3> QED
      BY <1>1, <2>1, <3>1 DEF Exists, TypeOK
  <2>6. ASSUME NEW d \in Desks, Write(d) PROVE Turns(d, i)
    <3>1. PICK c, s : c = desk[d].job /\ s = desk[d].seen
      OBVIOUS
    <3>2. /\ c \in OfficeCalls /\ s \in Row /\ c.op \in Writes /\ row[c.item] \in Row
          /\ AtDesk(d, "read")
          /\ c.op = "update" => NotReversed(c, s)
      BY <1>1, <2>6, <3>1, ReadyFacts DEF Write, Writes, Ready, OfficeInv, DeskOK
    <3>3. /\ row' = [row EXCEPT ![c.item] = OfficeRow(row[c.item], c, s)]
          /\ desk' = [desk EXCEPT ![d] = Idle]
      BY <2>6, <3>1 DEF Write, Done
    <3>4. c.item = i /\ row'[i] = OfficeRow(row[i], c, s) /\ desk'[d] = Idle
      BY <1>1, <2>1, <3>3 DEF TypeOK, OfficeInv
    <3>5. PICK r \in Row : r = row[i]
      BY <2>1
    <3>6. Forward(r) /\ ~Forward(OfficeRow(r, c, s))
      BY <1>1, <3>4, <3>5
    <3>7. \/ c.op = "update" /\ (s.startedAt # r.startedAt \/ s.endedAt # r.endedAt)
          \/ c.op = "forceEnd" /\ now < r.startedAt
      BY <2>1, <3>2, <3>6, OfficeSpanIsForward
    <3> QED
      BY <3>1, <3>2, <3>4, <3>5, <3>7
  <2>7. ASSUME NEW d \in Desks, Delete(d) PROVE FALSE
    <3>1. PICK j \in Items : row' = [row EXCEPT ![j] = None]
      BY <1>1, <2>7, ReadyFacts DEF Delete
    <3> QED
      BY <1>1, <2>1, <3>1 DEF TypeOK
  <2>8. ASSUME FieldStep, row' # row PROVE FALSE
    BY <2>3, <2>4, <2>8, OnlyTwoStepsWrite DEF FieldStep
  <2>9. ASSUME NEW d \in Desks,
               (\E c \in OfficeCalls : Read(d, c)) \/ Inspect(d) \/ DeskFails(d)
        PROVE  row' = row
    BY <2>9 DEF Read, Inspect, DeskFails
  <2> QED
    BY <1>1, <2>2, <2>5, <2>6, <2>7, <2>8, <2>9 DEF OfficeNext, officeVars
<1>2. OfficeInv /\ [OfficeNext]_officeVars =>
        [\A i \in Items : Turned(i) => \E d \in Desks : Turns(d, i)]_officeVars
  BY <1>1
<1> QED
  BY <1>2, OfficeInvAlways, PTL DEF OfficeSpec, SpanStaysForward

-----------------------------------------------------------------------------
(* The audit trail and the status *)

\* The last audited action of the trail s other than an edit gave the status.
Explains(s, status) ==
    \E k \in DOMAIN s :
        /\ s[k].action # "EDIT"
        /\ status = StatusAfter(s[k].action)
        /\ \A j \in (k+1)..Len(s) : s[j].action = "EDIT"

LEMMA EditKeepsExplanation ==
    ASSUME NEW s \in Seq(AuditRow), NEW m \in AuditRow, NEW status,
           Explains(s, status), m.action = "EDIT"
    PROVE  Explains(Append(s, m), status)
<1> DEFINE n == Len(s)
           w == Append(s, m)
<1>1. PICK k \in 1..n : /\ s[k].action # "EDIT"
                        /\ status = StatusAfter(s[k].action)
                        /\ \A j \in (k+1)..n : s[j].action = "EDIT"
  BY LenProperties DEF Explains
<1>2. /\ n \in Nat /\ Len(w) = n + 1 /\ DOMAIN w = 1..(n + 1)
      /\ w[n + 1] = m /\ \A j \in 1..n : w[j] = s[j]
  BY AppendProperties, LenProperties
<1> HIDE DEF n, w
<1>3. ASSUME NEW j \in (k+1)..(n + 1) PROVE w[j].action = "EDIT"
  <2>1. CASE j = n + 1
    BY <1>2, <2>1
  <2>2. CASE j \in (k+1)..n
    BY <1>1, <1>2, <2>2
  <2> QED
    BY <1>2, <2>1, <2>2
<1>4. w[k].action # "EDIT" /\ status = StatusAfter(w[k].action) /\ k \in DOMAIN w
  BY <1>1, <1>2
<1> QED
  BY <1>2, <1>3, <1>4 DEF Explains, w

LEMMA ActionExplains ==
    ASSUME NEW s \in Seq(AuditRow), NEW m \in AuditRow, m.action # "EDIT"
    PROVE  Explains(Append(s, m), StatusAfter(m.action))
<1> DEFINE n == Len(s)
           w == Append(s, m)
<1>1. /\ n \in Nat /\ Len(w) = n + 1 /\ DOMAIN w = 1..(n + 1) /\ w[n + 1] = m
  BY AppendProperties, LenProperties
<1> HIDE DEF n, w
<1>2. n + 1 \in DOMAIN w /\ (n + 1 + 1)..(n + 1) = {}
  BY <1>1
<1> QED
  BY <1>1, <1>2 DEF Explains, w

LEMMA FirstActionExplains ==
    ASSUME NEW m \in AuditRow, m.action # "EDIT"
    PROVE  Explains(<<m>>, StatusAfter(m.action))
<1>1. Len(<<m>>) = 1 /\ DOMAIN <<m>> = {1} /\ <<m>>[1] = m /\ (1+1)..1 = {}
  OBVIOUS
<1> QED
  BY <1>1 DEF Explains

\* What the trail s tells of the row r.
Tells(r, s) ==
    /\ Explains(s, r.status)
    /\ r.status = "ENDED" => r.endedAt # None /\ r.endedBy # None
    /\ r.status \in {"ACTIVE", "PAUSED"} => r.endedBy = None

\* An applied event and its audit row agree.
LEMMA AppliedEventTells ==
    ASSUME NEW r \in Row, NEW e \in Events, NEW t \in Nat, NEW s \in Seq(AuditRow),
           Legal(e, r), Tells(r, s)
    PROVE  Tells(NextRow(r, r, e, t), Append(s, Mark(e)))
<1> DEFINE n == NextRow(r, r, e, t)
<1>1. /\ e.action \in {"END", "PAUSE", "RESUME"} /\ e.actor # None /\ t # None
      /\ Mark(e) \in AuditRow /\ Mark(e).action = e.action
  BY EventFields, NoneAssumption DEF Mark
<1>2. Explains(Append(s, Mark(e)), StatusAfter(e.action))
  BY <1>1, ActionExplains
<1>3. CASE e.action = "END"
  <2>1. n.status = "ENDED" /\ n.endedAt = t /\ n.endedBy = e.actor
    BY <1>3, NextRowFields
  <2>2. StatusAfter(e.action) = "ENDED"
    BY <1>3 DEF StatusAfter
  <2> HIDE DEF n
  <2> QED
    BY <1>1, <1>2, <2>1, <2>2 DEF Tells, n
<1>4. CASE e.action = "PAUSE"
  <2>1. n.status = "PAUSED" /\ n.endedBy = r.endedBy
    BY <1>4, NextRowFields
  <2>2. StatusAfter(e.action) = "PAUSED" /\ r.endedBy = None
    BY <1>4 DEF StatusAfter, Legal, Tells
  <2> HIDE DEF n
  <2> QED
    BY <1>2, <2>1, <2>2 DEF Tells, n
<1>5. CASE e.action = "RESUME"
  <2>1. n.status = "ACTIVE" /\ n.endedBy = r.endedBy
    BY <1>5, NextRowFields
  <2>2. StatusAfter(e.action) = "ACTIVE" /\ r.endedBy = None
    BY <1>5 DEF StatusAfter, Legal, Tells
  <2> HIDE DEF n
  <2> QED
    BY <1>2, <2>1, <2>2 DEF Tells, n
<1> QED
  BY <1>1, <1>3, <1>4, <1>5

\* An office write and its audit row agree, whatever row it was decided on.
LEMMA OfficeWriteTells ==
    ASSUME NEW r \in Row, NEW q \in Row, NEW c \in OfficeCalls, c.op \in Writes,
           now \in Nat, NEW s \in Seq(AuditRow), Tells(r, s)
    PROVE  Tells(OfficeRow(r, c, q), Append(s, OfficeMark(c, q)))
<1> DEFINE n == OfficeRow(r, c, q)
           m == OfficeMark(c, q)
<1>1. m \in AuditRow
  BY OfficeMarkEffect
<1>2. CASE c.op \in {"update", "mobileEdit"}
  <2>1. m.action = "EDIT"
    BY <1>2, OfficeMarkEffect
  <2>2. /\ n.status = r.status /\ n.endedBy = r.endedBy
        /\ r.endedAt # None => n.endedAt # None
    BY <1>2, OfficeRowEffect
  <2> HIDE DEF n, m
  <2>3. Explains(Append(s, m), r.status)
    BY <1>1, <2>1, EditKeepsExplanation DEF Tells
  <2> QED
    BY <2>2, <2>3 DEF Tells, n, m
<1>3. CASE c.op \in {"void", "mobileVoid"}
  <2>1. m.action = "VOID" /\ n.status = "VOID"
    BY <1>3, OfficeMarkEffect, OfficeRowEffect
  <2> HIDE DEF n, m
  <2>2. Explains(Append(s, m), "VOID")
    BY <1>1, <2>1, ActionExplains DEF StatusAfter
  <2> QED
    BY <2>1, <2>2 DEF Tells, n, m
<1>4. CASE c.op = "forceEnd"
  <2>1. m.action = "END"
    BY <1>4, OfficeMarkEffect
  <2>2. n.status = "ENDED" /\ n.endedAt = now /\ n.endedBy = c.by
    BY <1>4, OfficeRowEffect
  <2> HIDE DEF n, m
  <2>3. Explains(Append(s, m), "ENDED")
    BY <1>1, <2>1, ActionExplains DEF StatusAfter
  <2>4. now # None /\ c.by # None
    BY CallFields, NoneAssumption
  <2> QED
    BY <2>2, <2>3, <2>4 DEF Tells, n, m
<1>5. CASE c.op = "restore"
  <2>1. m.action = "RESTORE"
    BY <1>5, OfficeMarkEffect
  <2>2. n.status = "ACTIVE" /\ n.endedBy = None
    BY <1>5, OfficeRowEffect
  <2> HIDE DEF n, m
  <2>3. Explains(Append(s, m), "ACTIVE")
    BY <1>1, <2>1, ActionExplains DEF StatusAfter
  <2> QED
    BY <2>2, <2>3 DEF Tells, n, m
<1> QED
  BY <1>2, <1>3, <1>4, <1>5 DEF Writes

\* Writing one row and its trail keeps what the other trails tell.
LEMMA OneRowTold ==
    ASSUME LockInv, NEW i \in Items, NEW r, NEW s,
           \A j \in Items : Exists(j) => Tells(row[j], trail[j]),
           row' = [row EXCEPT ![i] = r], trail' = [trail EXCEPT ![i] = s],
           r # None => Tells(r, s)
    PROVE  \A j \in Items : row'[j] # None => Tells(row'[j], trail'[j])
<1>1. \A j \in Items : /\ row'[j] = IF j = i THEN r ELSE row[j]
                       /\ trail'[j] = IF j = i THEN s ELSE trail[j]
  BY DEF LockInv, TypeOK
<1> QED
  BY <1>1 DEF Exists

\* Whatever order field calls, office calls and tablet edits commit in, the
\* last audited action other than an edit gave the item its status, and the row
\* names the end of an ended item and none of an open one.
THEOREM TrailExplainsRow == OfficeSpec => []TrailTellsStatus
<1> DEFINE Told == \A i \in Items : Exists(i) => Tells(row[i], trail[i])
<1>1. OfficeInit => Told
  BY DEF OfficeInit, Init, Exists
<1>2. OfficeInv /\ Told /\ [OfficeNext]_officeVars => Told'
  <2> SUFFICES ASSUME OfficeInv, Told, [OfficeNext]_officeVars
               PROVE  \A i \in Items : row'[i] # None => Tells(row'[i], trail'[i])
    BY DEF Exists, Tells, Explains
  <2>1. LockInv /\ TypeOK /\ now \in Nat
    BY BoundsAssumption DEF OfficeInv, LockInv, TypeOK
  <2>2. CASE UNCHANGED <<row, trail>>
    BY <2>2 DEF Exists
  <2>3. ASSUME NEW h \in Handlers, Insert(h)
        PROVE  \A i \in Items : row'[i] # None => Tells(row'[i], trail'[i])
    <3>1. PICK i \in Items, r \in Row, a \in Accounts :
             /\ r.status = "ACTIVE" /\ r.endedBy = None
             /\ row' = [row EXCEPT ![i] = r]
             /\ trail' = [trail EXCEPT ![i] =
                             <<[action |-> "CREATE", actor |-> a, event |-> None]>>]
      BY <2>1, <2>3, InsertEffect
    <3> DEFINE m == [action |-> "CREATE", actor |-> a, event |-> None]
    <3>2. m \in AuditRow /\ m.action = "CREATE" /\ m.action # "EDIT"
      BY DEF AuditRow, AuditActions
    <3> HIDE DEF m
    <3>3. Explains(<<m>>, "ACTIVE")
      BY <3>2, FirstActionExplains DEF StatusAfter
    <3>4. Tells(r, <<m>>)
      BY <3>1, <3>3 DEF Tells
    <3> QED
      BY <2>1, <3>1, <3>4, OneRowTold DEF m
  <2>4. ASSUME NEW h \in Handlers, Apply(h)
        PROVE  \A i \in Items : row'[i] # None => Tells(row'[i], trail'[i])
    <3>1. PICK e \in Events, t \in Nat :
             /\ row[e.item] \in Row /\ Legal(e, row[e.item])
             /\ row' = [row EXCEPT ![e.item] = NextRow(row[e.item], row[e.item], e, t)]
             /\ trail' = [trail EXCEPT ![e.item] = Append(trail[e.item], Mark(e))]
      BY <2>1, <2>4, ApplyEffect
    <3>2. e.item \in Items /\ Exists(e.item) /\ trail[e.item] \in Seq(AuditRow)
      BY <2>1, <3>1, EventFields, RowAssumption DEF Exists, TypeOK
    <3>3. Tells(NextRow(row[e.item], row[e.item], e, t), Append(trail[e.item], Mark(e)))
      BY <3>1, <3>2, AppliedEventTells
    <3> QED
      BY <2>1, <3>1, <3>2, <3>3, OneRowTold
  <2>5. ASSUME NEW c \in OfficeCalls, Register(c)
        PROVE  \A i \in Items : row'[i] # None => Tells(row'[i], trail'[i])
    <3>1. PICK i \in Items, r \in Row, a \in Accounts :
             /\ r.status = "ENDED" /\ r.endedAt # None /\ r.endedBy # None
             /\ row' = [row EXCEPT ![i] = r]
             /\ trail' = [trail EXCEPT ![i] =
                   <<[action |-> "MANUAL_CREATE", actor |-> a, event |-> None]>>]
      BY <2>5, RegisterEffect
    <3> DEFINE m == [action |-> "MANUAL_CREATE", actor |-> a, event |-> None]
    <3>2. m \in AuditRow /\ m.action = "MANUAL_CREATE" /\ m.action # "EDIT"
      BY DEF AuditRow, AuditActions
    <3> HIDE DEF m
    <3>3. Explains(<<m>>, "ENDED")
      BY <3>2, FirstActionExplains DEF StatusAfter
    <3>4. Tells(r, <<m>>)
      BY <3>1, <3>3 DEF Tells
    <3> QED
      BY <2>1, <3>1, <3>4, OneRowTold DEF m
  <2>6. ASSUME NEW d \in Desks, Write(d)
        PROVE  \A i \in Items : row'[i] # None => Tells(row'[i], trail'[i])
    <3>1. PICK c \in OfficeCalls, s \in Row :
             /\ c.op \in Writes /\ row[c.item] \in Row
             /\ row' = [row EXCEPT ![c.item] = OfficeRow(row[c.item], c, s)]
             /\ trail' = [trail EXCEPT ![c.item] = Append(trail[c.item], OfficeMark(c, s))]
      BY <2>6, WriteEffect
    <3>2. c.item \in Items /\ Exists(c.item) /\ trail[c.item] \in Seq(AuditRow)
      BY <2>1, <3>1, CallFields, RowAssumption DEF Exists, TypeOK
    <3>3. Tells(OfficeRow(row[c.item], c, s), Append(trail[c.item], OfficeMark(c, s)))
      BY <2>1, <3>1, <3>2, OfficeWriteTells
    <3> QED
      BY <2>1, <3>1, <3>2, <3>3, OneRowTold
  <2>7. ASSUME NEW d \in Desks, Delete(d)
        PROVE  \A i \in Items : row'[i] # None => Tells(row'[i], trail'[i])
    <3>1. PICK i \in Items : /\ row' = [row EXCEPT ![i] = None]
                             /\ trail' = [trail EXCEPT ![i] = <<>>]
      BY <2>7, ReadyFacts DEF Delete
    <3> QED
      BY <2>1, <3>1, OneRowTold
  <2>8. ASSUME FieldStep, ~UNCHANGED <<row, trail>>
        PROVE  \E h \in Handlers : Insert(h) \/ Apply(h)
    BY <2>8, OnlyTwoStepsWrite DEF FieldStep
  <2>9. ASSUME NEW d \in Desks,
               (\E c \in OfficeCalls : Read(d, c)) \/ Inspect(d) \/ DeskFails(d)
        PROVE  UNCHANGED <<row, trail>>
    BY <2>9 DEF Read, Inspect, DeskFails
  <2>10. CASE UNCHANGED officeVars
    BY <2>2, <2>10 DEF officeVars
  <2> QED
    BY <2>2, <2>3, <2>4, <2>5, <2>6, <2>7, <2>8, <2>9, <2>10 DEF OfficeNext
<1>3. Told => TrailTellsStatus
  BY DEF Tells, Explains, TrailTellsStatus
<1> QED
  BY <1>1, <1>2, <1>3, OfficeInvAlways, PTL DEF OfficeSpec

=============================================================================
