------------------------- MODULE MobileEventsProofs -------------------------
(***************************************************************************)
(* Proofs about the field path, for any number of items, handlers, keys,   *)
(* accounts and calls and any bounds: locks, retries and final states; it  *)
(* implements the work ledger, the instants and pauses of a row are in     *)
(* order, and what a device was told is recorded.                          *)
(***************************************************************************)
EXTENDS MobileEvents, SequenceTheorems, TLAPS

\* What a request execution holds in each state it can be in.
PhaseOK ==
    \A h \in Handlers :
        /\ Doing(h, "inserting") => Job(h) \in Commands
        /\ Doing(h, "waiting") => Job(h) \in Events
        /\ Doing(h, "locked") =>
              /\ Job(h) \in Events
              /\ handler[h].seen \in Row
              /\ lock[Job(h).item] = h

\* An identity not yet given out has neither a row nor audit rows.
UnusedIsBlank == \A i \in Items \ used : row[i] = None /\ trail[i] = <<>>

\* Inductive: what a locked transaction read is current because no other
\* transaction holds its row and an insertion takes an unused identity.
LockInv == TypeOK /\ PhaseOK /\ UnusedIsBlank /\ LockedReadIsCurrent

-----------------------------------------------------------------------------
(* The instants and the rows the operators build *)

\* Every instant of a row is a time.
LEMMA MomentsAreTimes ==
    ASSUME NEW r \in Row
    PROVE  Moments(r) \subseteq Nat
<1>1. r.startedAt \in Nat
  BY DEF Row
<1>2. r.pauses \in Seq(Pause)
  BY DEF Row
<1>3. ASSUME NEW k \in DOMAIN r.pauses
      PROVE  /\ r.pauses[k].at \in Nat
             /\ r.pauses[k].until \in Nat \cup {None}
  <2>1. r.pauses[k] \in Pause
    BY <1>2, <1>3, ElementOfSeq, LenProperties
  <2> QED
    BY <2>1 DEF Pause
<1> QED
  BY <1>1, <1>3 DEF Moments

\* Whatever a call is recorded at is a time, whether or not the device sent one.
LEMMA ResolvedIsATime ==
    ASSUME NEW at \in Nat \cup {None}, NEW moments \in SUBSET Nat, NEW t,
           now \in Nat, Resolves(at, moments, t)
    PROVE  t \in Nat
BY DEF Resolves

\* Closing the last pause leaves a pause history.
LEMMA CloseLastType ==
    ASSUME NEW p \in Seq(Pause), NEW t \in Nat
    PROVE  CloseLast(p, t) \in Seq(Pause)
<1>1. CASE p # <<>> /\ p[Len(p)].until = None
  <2>1. Len(p) \in 1..Len(p)
    BY <1>1, EmptySeq, LenProperties
  <2>2. p[Len(p)] \in Pause
    BY <2>1, ElementOfSeq
  <2> DEFINE q == [p[Len(p)] EXCEPT !.until = t]
  <2>3. q \in Pause
    BY <2>2 DEF Pause
  <2>4. [p EXCEPT ![Len(p)] = q] \in Seq(Pause)
    BY <2>1, <2>3, ExceptSeq
  <2> QED
    BY <1>1, <2>4 DEF CloseLast
<1>2. CASE ~(p # <<>> /\ p[Len(p)].until = None)
  BY <1>2 DEF CloseLast
<1> QED
  BY <1>1, <1>2

\* The row after an end, a pause or a resume is a row and keeps its key.
LEMMA NextRowType ==
    ASSUME NEW r \in Row, NEW s \in Row, NEW e \in Events, NEW t \in Nat
    PROVE  /\ NextRow(r, s, e, t) \in Row
           /\ NextRow(r, s, e, t).key = r.key
<1>1. /\ e.action \in {"END", "PAUSE", "RESUME"}
      /\ e.actor \in Accounts
      /\ e.memo \in Memos \cup {None}
      /\ e.joins \subseteq Workers
  BY CallsAssumption, AccountsAssumption DEF Event
<1>2. s.pauses \in Seq(Pause) /\ s.memo \in Memos \cup {None}
  BY DEF Row
<1>3. CASE e.action = "END"
  <2>1. r.crew \cup e.joins \in SUBSET Workers
    BY <1>1 DEF Row
  <2>2. (IF e.memo = None THEN s.pauses ELSE <<>>) \in Seq(Pause)
    BY <1>2, EmptySeq
  <2>3. (IF e.memo = None THEN s.memo ELSE e.memo) \in Memos \cup {None}
    BY <1>1, <1>2
  <2>4. EndRow(r, s, e, t) \in Row
    BY <1>1, <2>1, <2>2, <2>3 DEF EndRow, Row, Statuses
  <2>5. EndRow(r, s, e, t).key = r.key
    BY DEF EndRow, Row
  <2> QED
    BY <1>3, <2>4, <2>5 DEF NextRow
<1>4. CASE e.action = "PAUSE"
  <2>1. [at |-> t, until |-> None] \in Pause
    BY DEF Pause
  <2>2. Append(s.pauses, [at |-> t, until |-> None]) \in Seq(Pause)
    BY <1>2, <2>1
  <2>3. PauseRow(r, s, e, t) \in Row /\ PauseRow(r, s, e, t).key = r.key
    BY <1>2, <2>2 DEF PauseRow, Row, Statuses
  <2> QED
    BY <1>4, <2>3 DEF NextRow
<1>5. CASE e.action = "RESUME"
  <2>1. CloseLast(s.pauses, t) \in Seq(Pause)
    BY <1>2, CloseLastType
  <2>2. ResumeRow(r, s, e, t) \in Row /\ ResumeRow(r, s, e, t).key = r.key
    BY <1>2, <2>1 DEF ResumeRow, Row, Statuses
  <2> QED
    BY <1>5, <2>2 DEF NextRow
<1> QED
  BY <1>1, <1>3, <1>4, <1>5

\* The row a create call makes is a row with the call's key.
LEMMA NewRowType ==
    ASSUME NEW c \in Commands, NEW t \in Nat
    PROVE  /\ NewRow(c, t) \in Row
           /\ NewRow(c, t).key = c.key
<1>1. c \in Command
  BY CallsAssumption
<1>2. <<>> \in Seq(Pause)
  BY EmptySeq
<1> QED
  BY <1>1, <1>2 DEF NewRow, Row, Command, Statuses
-----------------------------------------------------------------------------
(* The lock discipline *)

\* Idle is what an execution is between calls.
LEMMA IdleType == Idle \in HandlerType
BY DEF Idle, HandlerType, JobType

\* A step of h that leaves the database alone keeps LockInv if it leaves the
\* locks of others alone and what h holds next fits the state h goes to.
LEMMA QuietStep ==
    ASSUME LockInv, NEW h \in Handlers, NEW x \in HandlerType,
           now' = now, UNCHANGED <<row, used, trail>>,
           handler' = [handler EXCEPT ![h] = x],
           lock' \in [Items -> Handlers \cup {None}],
           \A i \in Items : lock[i] \notin {h, None} => lock'[i] = lock[i],
           x.pc = "inserting" => x.job \in Commands,
           x.pc = "waiting" => x.job \in Events,
           x.pc = "locked" => /\ x.job \in Events
                              /\ x.seen \in Row
                              /\ x.seen = row[x.job.item]
                              /\ lock'[x.job.item] = h
    PROVE  LockInv'
<1>1. TypeOK'
  BY DEF LockInv, TypeOK
<1>2. PhaseOK' /\ LockedReadIsCurrent'
  <2> SUFFICES ASSUME NEW g \in Handlers
               PROVE  /\ (Doing(g, "inserting") => Job(g) \in Commands)'
                      /\ (Doing(g, "waiting") => Job(g) \in Events)'
                      /\ (Doing(g, "locked") =>
                            /\ Job(g) \in Events
                            /\ handler[g].seen \in Row
                            /\ lock[Job(g).item] = g
                            /\ handler[g].seen = row[Job(g).item])'
    BY DEF PhaseOK, LockedReadIsCurrent
  <2>1. CASE g = h
    <3>1. handler'[g] = x
      BY <2>1 DEF LockInv, TypeOK
    <3> QED
      BY <2>1, <3>1 DEF Doing, Job
  <2>2. CASE g # h
    <3>1. handler'[g] = handler[g]
      BY <2>2 DEF LockInv, TypeOK
    <3>2. \A e \in Events : e.item \in Items
      BY CallsAssumption DEF Event
    <3>3. g # None
      BY NoneAssumption
    <3> QED
      BY <2>2, <3>1, <3>2, <3>3 DEF LockInv, PhaseOK, LockedReadIsCurrent, Doing, Job
  <2> QED
    BY <2>1, <2>2
<1>3. UnusedIsBlank'
  BY DEF LockInv, UnusedIsBlank
<1> QED
  BY <1>1, <1>2, <1>3 DEF LockInv

\* Giving back touches the locks of h only.
LEMMA GiveBackType ==
    ASSUME TypeOK, NEW h \in Handlers, GiveBack(h)
    PROVE  /\ lock' \in [Items -> Handlers \cup {None}]
           /\ \A i \in Items : lock'[i] = IF lock[i] = h THEN None ELSE lock[i]
BY DEF TypeOK, GiveBack

LEMMA FailKeepsLockInv ==
    ASSUME LockInv, NEW h \in Handlers, Fail(h), UNCHANGED <<now, row, used, trail>>
    PROVE  LockInv'
<1>1. TypeOK /\ GiveBack(h) /\ handler' = [handler EXCEPT ![h] = Idle]
  BY DEF LockInv, Fail
<1>2. Idle.pc = "idle"
  BY DEF Idle
<1> QED
  BY <1>1, <1>2, GiveBackType, IdleType, QuietStep

\* handler[h] with another pc, and with what it read forgotten.
LEMMA DoneType ==
    ASSUME TypeOK, NEW h \in Handlers
    PROVE  /\ [handler[h] EXCEPT !.pc = "done"] \in HandlerType
           /\ [handler[h] EXCEPT !.pc = "done"].pc = "done"
           /\ [handler[h] EXCEPT !.pc = "done", !.seen = None] \in HandlerType
           /\ [handler[h] EXCEPT !.pc = "done", !.seen = None].pc = "done"
<1>1. handler[h] \in HandlerType
  BY DEF TypeOK
<1> QED
  BY <1>1 DEF HandlerType

LEMMA EventFields ==
    ASSUME NEW e \in Events
    PROVE  /\ e.item \in Items
           /\ e.action \in {"END", "PAUSE", "RESUME"}
           /\ e.actor \in Accounts
           /\ e.id \in EventIds \cup {None}
           /\ e.at \in Nat \cup {None}
           /\ Mark(e) \in AuditRow
<1>1. e \in Event
  BY CallsAssumption
<1>2. /\ e.item \in Items
      /\ e.action \in {"END", "PAUSE", "RESUME"}
      /\ e.actor \in Accounts
      /\ e.id \in EventIds \cup {None}
      /\ e.at \in Nat \cup {None}
  BY <1>1, AccountsAssumption DEF Event
<1> QED
  BY <1>2 DEF Mark, AuditRow, AuditActions

-----------------------------------------------------------------------------
(* LockInv is inductive *)

LEMMA InitLockInv == Init => LockInv
<1> SUFFICES ASSUME Init PROVE LockInv
  OBVIOUS
<1>1. TypeOK
  BY IdleType, EmptySeq, BoundsAssumption DEF Init, TypeOK
<1>2. \A h \in Handlers : handler[h].pc = "idle"
  BY DEF Init, Idle
<1>3. PhaseOK /\ LockedReadIsCurrent
  BY <1>2 DEF PhaseOK, LockedReadIsCurrent, Doing
<1>4. UnusedIsBlank
  BY DEF Init, UnusedIsBlank
<1> QED
  BY <1>1, <1>3, <1>4 DEF LockInv

LEMMA TickKeepsLockInv == LockInv /\ Tick => LockInv'
BY BoundsAssumption DEF LockInv, TypeOK, PhaseOK, UnusedIsBlank, LockedReadIsCurrent,
                        Doing, Job, Exists, Tick

LEMMA LookupKeepsLockInv ==
    ASSUME LockInv, NEW h \in Handlers, NEW c \in Commands, LookupKey(h, c)
    PROVE  LockInv'
<1> DEFINE x(pc) == [handler[h] EXCEPT !.pc = pc, !.job = c]
<1>1. TypeOK /\ handler[h] \in HandlerType
  BY DEF LockInv, TypeOK
<1>2. \A pc \in {"done", "inserting"} :
          x(pc) \in HandlerType /\ x(pc).pc = pc /\ x(pc).job = c
  BY <1>1 DEF HandlerType, JobType
<1>3. lock' \in [Items -> Handlers \cup {None}] /\ \A i \in Items : lock'[i] = lock[i]
  BY <1>1 DEF LookupKey, TypeOK
<1>4. PICK pc \in {"done", "inserting"} : handler' = [handler EXCEPT ![h] = x(pc)]
  BY <1>1 DEF LookupKey, TypeOK
<1>5. now' = now /\ UNCHANGED <<row, used, trail>>
  BY DEF LookupKey
<1> HIDE DEF x
<1> QED
  BY <1>2, <1>3, <1>4, <1>5, QuietStep

LEMMA ArriveKeepsLockInv ==
    ASSUME LockInv, NEW h \in Handlers, NEW e \in Events, Arrive(h, e)
    PROVE  LockInv'
<1> DEFINE x == [handler[h] EXCEPT !.pc = "waiting", !.job = e]
<1>1. TypeOK /\ handler[h] \in HandlerType
  BY DEF LockInv, TypeOK
<1>2. x \in HandlerType /\ x.pc = "waiting" /\ x.job = e
  BY <1>1 DEF HandlerType, JobType
<1>3. lock' \in [Items -> Handlers \cup {None}] /\ \A i \in Items : lock'[i] = lock[i]
  BY <1>1 DEF Arrive, TypeOK
<1>4. handler' = [handler EXCEPT ![h] = x] /\ now' = now /\ UNCHANGED <<row, used, trail>>
  BY DEF Arrive
<1> HIDE DEF x
<1> QED
  BY <1>2, <1>3, <1>4, QuietStep

LEMMA LockKeepsLockInv ==
    ASSUME LockInv, NEW h \in Handlers, Lock(h)
    PROVE  LockInv'
<1> DEFINE i == Job(h).item
           x == [handler[h] EXCEPT !.pc = "locked", !.seen = row[i]]
<1>1. TypeOK /\ handler[h] \in HandlerType /\ handler[h].job \in Events
  BY DEF LockInv, TypeOK, PhaseOK, Lock, Doing, Job
<1>2. i \in Items /\ row[i] \in Row /\ lock[i] = None
  BY <1>1, EventFields DEF Lock, Exists, Lockable, TypeOK, Job
<1>3. x \in HandlerType /\ x.pc = "locked" /\ x.job = Job(h) /\ x.seen = row[i]
  BY <1>1, <1>2 DEF HandlerType, Job
<1>4. lock' = [lock EXCEPT ![i] = h]
  BY DEF Lock
<1>5. lock' \in [Items -> Handlers \cup {None}] /\ lock'[i] = h
  BY <1>1, <1>2, <1>4 DEF TypeOK
<1>6. \A j \in Items : lock[j] \notin {h, None} => lock'[j] = lock[j]
  BY <1>1, <1>2, <1>4 DEF TypeOK
<1>7. handler' = [handler EXCEPT ![h] = x] /\ now' = now /\ UNCHANGED <<row, used, trail>>
  BY DEF Lock
<1>8. x.job \in Events /\ i = x.job.item
  BY <1>1, <1>3 DEF Job
<1> HIDE DEF x, i
<1> QED
  BY <1>2, <1>3, <1>5, <1>6, <1>7, <1>8, QuietStep

\* An insertion takes an identity no locked transaction has: theirs have rows.
LEMMA InsertKeepsLockInv ==
    ASSUME LockInv, NEW h \in Handlers, Insert(h)
    PROVE  LockInv'
<1> DEFINE c == Job(h)
           mark == [action |-> "CREATE", actor |-> c.starter, event |-> None]
           x == [handler[h] EXCEPT !.pc = "done"]
<1>1. TypeOK /\ c \in Commands
  BY DEF LockInv, PhaseOK, Insert
<1>2. PICK i \in Items, t \in {now, c.at} :
          /\ i \notin used
          /\ Resolves(c.at, {}, t)
          /\ row' = [row EXCEPT ![i] = NewRow(c, t)]
          /\ used' = used \cup {i}
          /\ trail' = [trail EXCEPT ![i] = <<mark>>]
  BY DEF Insert
<1>3. c.at \in Nat \cup {None} /\ c.starter \in Workers
  BY <1>1, CallsAssumption DEF Command
<1>4. t \in Nat
  BY <1>1, <1>2, <1>3, ResolvedIsATime DEF TypeOK
<1>5. NewRow(c, t) \in Row
  BY <1>1, <1>4, NewRowType
<1>6. mark \in AuditRow
  BY <1>3, AccountsAssumption DEF AuditRow, AuditActions
<1>7. x \in HandlerType /\ x.pc = "done" /\ handler' = [handler EXCEPT ![h] = x]
  BY <1>1, DoneType DEF Insert
<1>8. now' = now /\ lock' = lock
  BY DEF Insert
<1> HIDE DEF c, mark, x
<1>9. TypeOK'
  <2>1. <<mark>> \in Seq(AuditRow)
    BY <1>6
  <2>2. row' \in [Items -> Row \cup {None}]
    BY <1>1, <1>2, <1>5 DEF TypeOK
  <2>3. trail' \in [Items -> Seq(AuditRow)]
    BY <1>1, <1>2, <2>1 DEF TypeOK
  <2> QED
    BY <1>1, <1>2, <1>7, <1>8, <2>2, <2>3 DEF TypeOK
<1>10. ASSUME NEW g \in Handlers, g # h
       PROVE  handler'[g] = handler[g]
  BY <1>1, <1>7, <1>10 DEF TypeOK
<1>11. handler'[h].pc = "done"
  BY <1>1, <1>7 DEF TypeOK
<1>12. PhaseOK'
  BY <1>8, <1>10, <1>11 DEF LockInv, PhaseOK, Doing, Job
<1>13. LockedReadIsCurrent'
  <2> SUFFICES ASSUME NEW g \in Handlers, Doing(g, "locked")'
               PROVE  handler'[g].seen = row'[handler'[g].job.item]
    BY DEF LockedReadIsCurrent, Job
  <2>1. g # h /\ handler'[g] = handler[g]
    BY <1>10, <1>11 DEF Doing
  <2>2. Job(g) \in Events /\ handler[g].seen \in Row /\ handler[g].seen = row[Job(g).item]
    BY <2>1 DEF LockInv, PhaseOK, LockedReadIsCurrent, Doing
  <2>3. Job(g).item \in Items /\ Job(g).item # i
    BY <1>2, <2>2, EventFields, RowAssumption DEF LockInv, UnusedIsBlank
  <2> QED
    BY <1>1, <1>2, <2>1, <2>2, <2>3 DEF TypeOK, Job
<1>14. UnusedIsBlank'
  BY <1>1, <1>2 DEF LockInv, UnusedIsBlank, TypeOK
<1> QED
  BY <1>9, <1>12, <1>13, <1>14 DEF LockInv

LEMMA ReplyKeepsLockInv ==
    ASSUME LockInv, NEW h \in Handlers,
           Reply(h) \/ InsertFails(h) \/ NotFound(h)
    PROVE  LockInv'
<1>1. TypeOK
  BY DEF LockInv
<1>2. /\ handler' = [handler EXCEPT ![h] = Idle] /\ Idle.pc = "idle"
      /\ now' = now /\ UNCHANGED <<row, used, trail>>
  BY DEF Reply, InsertFails, NotFound, Idle
<1>3. lock' \in [Items -> Handlers \cup {None}] /\ \A i \in Items : lock'[i] = lock[i]
  BY <1>1 DEF Reply, InsertFails, NotFound, TypeOK
<1> QED
  BY <1>2, <1>3, IdleType, QuietStep

LEMMA AcknowledgeKeepsLockInv ==
    ASSUME LockInv, NEW h \in Handlers, Acknowledge(h)
    PROVE  LockInv'
<1> DEFINE x == [handler[h] EXCEPT !.pc = "done", !.seen = None]
<1>1. TypeOK /\ GiveBack(h) /\ handler' = [handler EXCEPT ![h] = x]
      /\ now' = now /\ UNCHANGED <<row, used, trail>>
  BY DEF LockInv, Acknowledge, Succeed
<1>2. x \in HandlerType /\ x.pc = "done"
  BY <1>1, DoneType
<1> HIDE DEF x
<1> QED
  BY <1>1, <1>2, GiveBackType, QuietStep

\* The one step that rewrites a row: the row is locked by h, so nobody else
\* has read it under a lock.
LEMMA ApplyKeepsLockInv ==
    ASSUME LockInv, NEW h \in Handlers, Apply(h)
    PROVE  LockInv'
<1> DEFINE e == Job(h)
           s == handler[h].seen
           i == e.item
           x == [handler[h] EXCEPT !.pc = "done", !.seen = None]
<1>1. TypeOK /\ e \in Events /\ s \in Row /\ lock[i] = h /\ s = row[i]
  BY DEF LockInv, PhaseOK, LockedReadIsCurrent, Apply
<1>2. PICK t \in Moments(s) \cup {now, e.at} :
          /\ Resolves(e.at, Moments(s), t)
          /\ row' = [row EXCEPT ![i] = NextRow(@, s, e, t)]
  BY DEF Apply
<1>3. trail' = [trail EXCEPT ![i] = Append(@, Mark(e))] /\ now' = now /\ used' = used
  BY DEF Apply
<1>4. GiveBack(h) /\ handler' = [handler EXCEPT ![h] = x]
  BY DEF Apply, Succeed
<1>5. x \in HandlerType /\ x.pc = "done"
  BY <1>1, DoneType
<1>6. i \in Items /\ e.at \in Nat \cup {None} /\ Mark(e) \in AuditRow
  BY <1>1, EventFields
<1>7. t \in Nat
  <2> HIDE DEF e, s, i, x
  <2>1. Moments(s) \in SUBSET Nat
    BY <1>1, MomentsAreTimes
  <2>2. now \in Nat
    BY <1>1, BoundsAssumption DEF TypeOK
  <2> QED
    BY <1>2, <1>6, <2>1, <2>2, ResolvedIsATime
<1> HIDE DEF e, s, i, x
<1>8. NextRow(row[i], s, e, t) \in Row
  BY <1>1, <1>7, NextRowType
<1>9. TypeOK'
  <2>1. row' \in [Items -> Row \cup {None}]
    BY <1>1, <1>2, <1>6, <1>8 DEF TypeOK
  <2>2. Append(trail[i], Mark(e)) \in Seq(AuditRow)
    BY <1>1, <1>6 DEF TypeOK
  <2>3. trail' \in [Items -> Seq(AuditRow)]
    BY <1>1, <1>3, <1>6, <2>2 DEF TypeOK
  <2>4. lock' \in [Items -> Handlers \cup {None}]
    BY <1>1, <1>4, GiveBackType
  <2> QED
    BY <1>1, <1>3, <1>4, <1>5, <2>1, <2>3, <2>4 DEF TypeOK
<1>10. ASSUME NEW g \in Handlers, g # h
       PROVE  handler'[g] = handler[g]
  BY <1>1, <1>4, <1>10 DEF TypeOK
<1>11. handler'[h].pc = "done"
  BY <1>1, <1>4, <1>5 DEF TypeOK
<1>12. \A j \in Items : lock[j] # h => lock'[j] = lock[j]
  BY <1>1, <1>4, GiveBackType
<1>13. ASSUME NEW g \in Handlers, Doing(g, "locked")'
       PROVE  /\ g # h /\ handler'[g] = handler[g] /\ Doing(g, "locked")
              /\ Job(g) \in Events /\ Job(g).item \in Items /\ Job(g).item # i
              /\ lock'[Job(g).item] = g
  <2>1. g # h /\ handler'[g] = handler[g]
    BY <1>10, <1>11, <1>13 DEF Doing
  <2>2. Doing(g, "locked") /\ Job(g) \in Events /\ lock[Job(g).item] = g
    BY <1>13, <2>1 DEF Doing, LockInv, PhaseOK
  <2> QED
    BY <1>1, <1>12, <2>1, <2>2, EventFields
<1>14. PhaseOK'
  <2>1. \A g \in Handlers :
           /\ (Doing(g, "inserting") => Job(g) \in Commands)'
           /\ (Doing(g, "waiting") => Job(g) \in Events)'
    BY <1>10, <1>11 DEF LockInv, PhaseOK, Doing, Job
  <2>2. \A g \in Handlers : Doing(g, "locked")' =>
           /\ Job(g)' \in Events /\ handler'[g].seen \in Row /\ lock'[Job(g)'.item] = g
    BY <1>13 DEF LockInv, PhaseOK, Job
  <2> QED
    BY <2>1, <2>2 DEF PhaseOK
<1>15. LockedReadIsCurrent'
  <2>1. ASSUME NEW g \in Handlers, Doing(g, "locked")'
        PROVE  handler'[g].seen = row'[Job(g)'.item]
    <3>1. handler[g].seen = row[Job(g).item]
      BY <1>13, <2>1 DEF LockInv, LockedReadIsCurrent
    <3>2. row'[Job(g).item] = row[Job(g).item]
      BY <1>1, <1>2, <1>13, <2>1 DEF TypeOK
    <3> QED
      BY <1>13, <2>1, <3>1, <3>2 DEF Job
  <2> QED
    BY <2>1 DEF LockedReadIsCurrent
<1>16. UnusedIsBlank'
  <2>1. i \in used
    BY <1>1, <1>6, RowAssumption DEF LockInv, UnusedIsBlank
  <2> QED
    BY <1>1, <1>2, <1>3, <2>1 DEF LockInv, UnusedIsBlank, TypeOK
<1> QED
  BY <1>9, <1>14, <1>15, <1>16 DEF LockInv

LEMMA NextKeepsLockInv == LockInv /\ [Next]_vars => LockInv'
<1> SUFFICES ASSUME LockInv, [Next]_vars PROVE LockInv'
  OBVIOUS
<1>1. CASE Tick
  BY <1>1, TickKeepsLockInv
<1>2. ASSUME NEW h \in Handlers, NEW c \in Commands, LookupKey(h, c) PROVE LockInv'
  BY <1>2, LookupKeepsLockInv
<1>3. ASSUME NEW h \in Handlers, NEW e \in Events, Arrive(h, e) PROVE LockInv'
  BY <1>3, ArriveKeepsLockInv
<1>4. ASSUME NEW h \in Handlers, Lock(h) PROVE LockInv'
  BY <1>4, LockKeepsLockInv
<1>5. ASSUME NEW h \in Handlers, Insert(h) PROVE LockInv'
  BY <1>5, InsertKeepsLockInv
<1>6. ASSUME NEW h \in Handlers, Reply(h) \/ InsertFails(h) \/ NotFound(h) PROVE LockInv'
  BY <1>6, ReplyKeepsLockInv
<1>7. ASSUME NEW h \in Handlers, Acknowledge(h) PROVE LockInv'
  BY <1>7, AcknowledgeKeepsLockInv
<1>8. ASSUME NEW h \in Handlers, Apply(h) PROVE LockInv'
  BY <1>8, ApplyKeepsLockInv
<1>9. ASSUME NEW h \in Handlers, Refuse(h) \/ Abort(h) PROVE LockInv'
  <2>1. Fail(h) /\ UNCHANGED <<now, row, used, trail>>
    BY <1>9 DEF Refuse, Abort
  <2> QED
    BY <2>1, FailKeepsLockInv
<1>10. CASE UNCHANGED vars
  BY <1>10 DEF vars, LockInv, TypeOK, PhaseOK, UnusedIsBlank, LockedReadIsCurrent, Doing, Job
<1> QED
  BY <1>1, <1>2, <1>3, <1>4, <1>5, <1>6, <1>7, <1>8, <1>9, <1>10 DEF Next, Work

LEMMA LockInvAlways == Spec => []LockInv
BY InitLockInv, NextKeepsLockInv, PTL DEF Spec

\* Every reachable state is well typed.
THEOREM TypeCorrect == Spec => []TypeOK
<1>1. LockInv => TypeOK
  BY DEF LockInv
<1> QED
  BY <1>1, LockInvAlways, PTL

\* What an end, pause or resume writes over is what it read (withMobileEvent
\* locks the row before it reads it).
THEOREM LockedReadsAreCurrent == Spec => []LockedReadIsCurrent
<1>1. LockInv => LockedReadIsCurrent
  BY DEF LockInv
<1> QED
  BY <1>1, LockInvAlways, PTL

-----------------------------------------------------------------------------
(* What a step can do to rows and audit trails *)

\* Row and trail change in an insertion and in an applied event only.
LEMMA OnlyTwoStepsWrite ==
    ASSUME [Next]_vars
    PROVE  \/ UNCHANGED <<row, trail>>
           \/ \E h \in Handlers : Insert(h) \/ Apply(h)
BY DEF Next, Work, vars, Tick, LookupKey, Arrive, Lock, InsertFails, NotFound,
       Acknowledge, Refuse, Abort, Reply

\* An insertion fills an unused identity.
LEMMA InsertEffect ==
    ASSUME LockInv, NEW h \in Handlers, Insert(h)
    PROVE  \E i \in Items : \E r \in Row, a \in Accounts :
              /\ row[i] = None /\ trail[i] = <<>>
              /\ r.status = "ACTIVE" /\ r.pauses = <<>> /\ r.endedBy = None
              /\ r.key = Job(h).key /\ KeyFree(r.key)
              /\ row' = [row EXCEPT ![i] = r]
              /\ trail' = [trail EXCEPT ![i] =
                              <<[action |-> "CREATE", actor |-> a, event |-> None]>>]
<1> DEFINE c == Job(h)
<1>1. c \in Commands /\ TypeOK
  BY DEF LockInv, PhaseOK, Insert
<1>2. PICK i \in Items, t \in {now, c.at} :
          /\ i \notin used
          /\ Resolves(c.at, {}, t)
          /\ row' = [row EXCEPT ![i] = NewRow(c, t)]
          /\ trail' = [trail EXCEPT ![i] =
                          <<[action |-> "CREATE", actor |-> c.starter, event |-> None]>>]
  BY DEF Insert
<1>3. c.at \in Nat \cup {None} /\ c.starter \in Accounts /\ KeyFree(c.key)
  BY <1>1, CallsAssumption, AccountsAssumption DEF Command, Insert
<1>4. now \in Nat
  BY <1>1, BoundsAssumption DEF TypeOK
<1>5. t \in Nat
  BY <1>2, <1>3, <1>4, ResolvedIsATime
<1>6. /\ NewRow(c, t) \in Row /\ NewRow(c, t).key = c.key
      /\ NewRow(c, t).status = "ACTIVE" /\ NewRow(c, t).pauses = <<>>
      /\ NewRow(c, t).endedBy = None
  BY <1>1, <1>5, NewRowType DEF NewRow
<1>7. row[i] = None /\ trail[i] = <<>>
  BY <1>2 DEF LockInv, UnusedIsBlank
<1> HIDE DEF c
<1> QED
  BY <1>2, <1>3, <1>6, <1>7 DEF c

\* An applied event rewrites the row that is there now.
LEMMA ApplyEffect ==
    ASSUME LockInv, NEW h \in Handlers, Apply(h)
    PROVE  \E e \in Events, t \in Nat :
              /\ row[e.item] \in Row
              /\ Legal(e, row[e.item]) /\ ~AlreadyApplied(e)
              /\ Resolves(e.at, Moments(row[e.item]), t)
              /\ row' = [row EXCEPT ![e.item] = NextRow(row[e.item], row[e.item], e, t)]
              /\ trail' = [trail EXCEPT ![e.item] = Append(trail[e.item], Mark(e))]
<1> DEFINE e == Job(h)
           s == handler[h].seen
<1>1. TypeOK /\ e \in Events /\ s \in Row /\ s = row[e.item]
  BY DEF LockInv, PhaseOK, LockedReadIsCurrent, Apply
<1>2. PICK t \in Moments(s) \cup {now, e.at} :
          /\ Resolves(e.at, Moments(s), t)
          /\ row' = [row EXCEPT ![e.item] = NextRow(@, s, e, t)]
  BY DEF Apply
<1>3. trail' = [trail EXCEPT ![e.item] = Append(@, Mark(e))] /\ Legal(e, s)
      /\ ~AlreadyApplied(e)
  BY DEF Apply
<1> HIDE DEF e, s
<1>4. Moments(s) \in SUBSET Nat /\ e.at \in Nat \cup {None}
  BY <1>1, MomentsAreTimes, EventFields
<1>5. now \in Nat
  BY <1>1, BoundsAssumption DEF TypeOK
<1>6. t \in Nat
  BY <1>2, <1>4, <1>5, ResolvedIsATime
<1> QED
  BY <1>1, <1>2, <1>3, <1>6

-----------------------------------------------------------------------------
(* Retransmissions, keys and ended items *)

\* An event with an id leaves at most one audit row, whatever is resent,
\* overlaps or dies.
THEOREM EventsApplyOnce == Spec => []AppliedOnce
<1>1. Init => AppliedOnce
  BY DEF Init, AppliedOnce
<1>2. LockInv /\ AppliedOnce /\ [Next]_vars => AppliedOnce'
  <2> SUFFICES ASSUME LockInv, AppliedOnce, [Next]_vars PROVE AppliedOnce'
    OBVIOUS
  <2>1. TypeOK
    BY DEF LockInv
  <2>2. CASE UNCHANGED <<row, trail>>
    BY <2>2 DEF AppliedOnce
  <2>3. ASSUME NEW h \in Handlers, Insert(h) PROVE AppliedOnce'
    <3>1. PICK i \in Items, a \in Accounts :
             trail' = [trail EXCEPT ![i] =
                          <<[action |-> "CREATE", actor |-> a, event |-> None]>>]
      BY <2>3, InsertEffect
    <3> QED
      BY <2>1, <3>1 DEF AppliedOnce, TypeOK
  <2>4. ASSUME NEW h \in Handlers, Apply(h) PROVE AppliedOnce'
    <3>1. PICK e \in Events :
             /\ ~AlreadyApplied(e)
             /\ trail' = [trail EXCEPT ![e.item] = Append(trail[e.item], Mark(e))]
      BY <2>4, ApplyEffect
    <3>2. e.item \in Items /\ Mark(e) \in AuditRow /\ trail[e.item] \in Seq(AuditRow)
      BY <2>1, EventFields DEF TypeOK
    <3> DEFINE s == trail[e.item]
    <3>3. Mark(e).event # None => \A k \in 1..Len(s) : s[k] # Mark(e)
      BY <3>1, <3>2, LenProperties DEF AlreadyApplied, Recorded, Mark
    <3>4. \A i \in Items : i # e.item => trail'[i] = trail[i]
      BY <2>1, <3>1 DEF TypeOK
    <3>5. trail'[e.item] = Append(s, Mark(e))
      BY <2>1, <3>1, <3>2 DEF TypeOK
    <3>6. \A j, k \in 1..Len(s) : s[j] = s[k] /\ s[j].event # None => j = k
      BY <3>2, LenProperties DEF AppliedOnce
    <3> HIDE DEF s
    <3>7. s \in Seq(AuditRow)
      BY <3>2 DEF s
    <3>8. \A j, k \in DOMAIN Append(s, Mark(e)) :
              Append(s, Mark(e))[j] = Append(s, Mark(e))[k]
                /\ Append(s, Mark(e))[j].event # None => j = k
      BY <3>2, <3>3, <3>6, <3>7
    <3> QED
      BY <3>4, <3>5, <3>8 DEF AppliedOnce
  <2> QED
    BY <2>2, <2>3, <2>4, OnlyTwoStepsWrite
<1> QED
  BY <1>1, <1>2, LockInvAlways, PTL DEF Spec

\* A keyed create call makes one item, however often it is sent and whoever
\* else inserts between its look-up and its transaction.
THEOREM KeysOpenOneItem == Spec => []OneItemPerKey
<1>1. Init => OneItemPerKey
  BY DEF Init, OneItemPerKey, Exists
<1>2. LockInv /\ OneItemPerKey /\ [Next]_vars => OneItemPerKey'
  <2> SUFFICES ASSUME LockInv, OneItemPerKey, [Next]_vars PROVE OneItemPerKey'
    OBVIOUS
  <2>1. TypeOK
    BY DEF LockInv
  <2>2. CASE UNCHANGED <<row, trail>>
    BY <2>2 DEF OneItemPerKey, Exists
  <2>3. ASSUME NEW h \in Handlers, Insert(h) PROVE OneItemPerKey'
    <3>1. PICK i \in Items, r \in Row :
             row[i] = None /\ KeyFree(r.key) /\ row' = [row EXCEPT ![i] = r]
      BY <2>3, InsertEffect
    <3>2. r.key # None => \A j \in Items : Exists(j) => row[j].key # r.key
      BY <3>1 DEF KeyFree, KeyTaken
    <3> QED
      BY <2>1, <3>1, <3>2 DEF OneItemPerKey, Exists, TypeOK
  <2>4. ASSUME NEW h \in Handlers, Apply(h) PROVE OneItemPerKey'
    <3>1. PICK e \in Events, t \in Nat :
             /\ row[e.item] \in Row
             /\ row' = [row EXCEPT ![e.item] = NextRow(row[e.item], row[e.item], e, t)]
      BY <2>4, ApplyEffect
    <3>2. NextRow(row[e.item], row[e.item], e, t).key = row[e.item].key
      BY <3>1, NextRowType
    <3>3. row[e.item] # None
      BY <3>1, RowAssumption
    <3>4. \A i \in Items : Exists(i)' => Exists(i) /\ row'[i].key = row[i].key
      BY <2>1, <3>1, <3>2, <3>3 DEF TypeOK, Exists
    <3> QED
      BY <3>4 DEF OneItemPerKey
  <2> QED
    BY <2>2, <2>3, <2>4, OnlyTwoStepsWrite
<1> QED
  BY <1>1, <1>2, LockInvAlways, PTL DEF Spec

\* A late pause, a second end or a resent event never changes an ended item.
THEOREM EndedItemsStay == Spec => EndIsFinal
<1> DEFINE Stays == \A i \in Items :
                       Exists(i) /\ row[i].status = "ENDED" => row'[i] = row[i]
<1>1. LockInv /\ [Next]_vars => Stays
  <2> SUFFICES ASSUME LockInv, [Next]_vars PROVE Stays
    OBVIOUS
  <2>1. TypeOK
    BY DEF LockInv
  <2>2. CASE UNCHANGED <<row, trail>>
    BY <2>2
  <2>3. ASSUME NEW h \in Handlers, Insert(h) PROVE Stays
    <3>1. PICK i \in Items, r \in Row : row[i] = None /\ row' = [row EXCEPT ![i] = r]
      BY <2>3, InsertEffect
    <3> QED
      BY <2>1, <3>1 DEF Exists, TypeOK
  <2>4. ASSUME NEW h \in Handlers, Apply(h) PROVE Stays
    <3>1. PICK e \in Events, t \in Nat :
             /\ Legal(e, row[e.item])
             /\ row' = [row EXCEPT ![e.item] = NextRow(row[e.item], row[e.item], e, t)]
      BY <2>4, ApplyEffect
    <3>2. e.action \in {"END", "PAUSE", "RESUME"}
      BY EventFields
    <3>3. row[e.item].status # "ENDED"
      BY <3>1, <3>2 DEF Legal
    <3> QED
      BY <2>1, <3>1, <3>3 DEF TypeOK
  <2> QED
    BY <2>2, <2>3, <2>4, OnlyTwoStepsWrite
<1> QED
  BY <1>1, LockInvAlways, PTL DEF Spec, EndIsFinal

-----------------------------------------------------------------------------
(* What an applied event does to the pauses of a row *)

OpenPause(r) == r.pauses # <<>> /\ r.pauses[Len(r.pauses)].until = None

\* A pause is open while the row is PAUSED and closed while it is ACTIVE.
PausesFit(r) ==
    /\ r.status = "PAUSED" => OpenPause(r)
    /\ r.status = "ACTIVE" => ~OpenPause(r)

\* Closing the last pause changes the resume time of that pause only.
LEMMA CloseLastEffect ==
    ASSUME NEW p \in Seq(Pause), NEW t \in Nat, p # <<>>, p[Len(p)].until = None
    PROVE  LET q == CloseLast(p, t) IN
           /\ q \in Seq(Pause) /\ Len(q) = Len(p) /\ q # <<>>
           /\ Len(p) \in Nat /\ Len(p) >= 1
           /\ q[Len(p)].at = p[Len(p)].at /\ q[Len(p)].until = t
           /\ \A k \in 1..Len(p) : k # Len(p) => q[k] = p[k]
<1> DEFINE n == Len(p)
           x == [p[n] EXCEPT !.until = t]
<1>1. n \in Nat /\ n >= 1 /\ n \in 1..n
  BY EmptySeq, LenProperties
<1>2. p[n] \in Pause
  BY <1>1, ElementOfSeq
<1>3. x \in Pause /\ x.at = p[n].at /\ x.until = t
  BY <1>2 DEF Pause
<1>4. CloseLast(p, t) = [p EXCEPT ![n] = x]
  BY DEF CloseLast
<1> HIDE DEF x
<1>5. [p EXCEPT ![n] = x] \in Seq(Pause) /\ Len([p EXCEPT ![n] = x]) = n
  BY <1>1, <1>3, ExceptSeq
<1>6. /\ [p EXCEPT ![n] = x][n] = x
      /\ \A k \in 1..n : k # n => [p EXCEPT ![n] = x][k] = p[k]
  BY <1>1, LenProperties
<1>7. [p EXCEPT ![n] = x] # <<>>
  BY <1>1, <1>5, EmptySeq
<1> QED
  BY <1>1, <1>3, <1>4, <1>5, <1>6, <1>7

\* What each event writes, field by field.
LEMMA NextRowFields ==
    ASSUME NEW r \in Row, NEW e \in Events, NEW t \in Nat
    PROVE  LET n == NextRow(r, r, e, t) IN
           /\ n.startedAt = r.startedAt
           /\ e.action = "END" =>
                 /\ n.status = "ENDED" /\ n.endedAt = t /\ n.endedBy = e.actor
                 /\ n.pauses = IF e.memo = None THEN r.pauses ELSE <<>>
                 /\ n.memo = IF e.memo = None THEN r.memo ELSE e.memo
           /\ e.action = "PAUSE" =>
                 /\ n.status = "PAUSED" /\ n.memo = r.memo
                 /\ n.endedAt = r.endedAt /\ n.endedBy = r.endedBy
                 /\ n.pauses = Append(r.pauses, [at |-> t, until |-> None])
           /\ e.action = "RESUME" =>
                 /\ n.status = "ACTIVE" /\ n.memo = r.memo
                 /\ n.endedAt = r.endedAt /\ n.endedBy = r.endedBy
                 /\ n.pauses = CloseLast(r.pauses, t)
<1>1. e.action \in {"END", "PAUSE", "RESUME"}
  BY EventFields
<1>2. CASE e.action = "END"
  BY <1>2 DEF NextRow, EndRow, Row
<1>3. CASE e.action = "PAUSE"
  BY <1>3 DEF NextRow, PauseRow, Row
<1>4. CASE e.action = "RESUME"
  BY <1>4 DEF NextRow, ResumeRow, Row
<1> QED
  BY <1>1, <1>2, <1>3, <1>4

\* A legal event leaves the pauses fitting the status it sets.
LEMMA NextRowPausesFit ==
    ASSUME NEW r \in Row, NEW e \in Events, NEW t \in Nat, Legal(e, r), PausesFit(r)
    PROVE  PausesFit(NextRow(r, r, e, t))
<1> DEFINE n == NextRow(r, r, e, t)
<1>1. e.action \in {"END", "PAUSE", "RESUME"} /\ r.pauses \in Seq(Pause)
  BY EventFields DEF Row
<1>2. CASE e.action = "END"
  <2>1. n.status = "ENDED"
    BY <1>2, NextRowFields
  <2> QED
    BY <2>1 DEF PausesFit
<1>3. CASE e.action = "PAUSE"
  <2> DEFINE x == [at |-> t, until |-> None]
  <2>1. n.status = "PAUSED" /\ n.pauses = Append(r.pauses, x)
    BY <1>3, NextRowFields
  <2>2. x \in Pause /\ x.until = None
    BY DEF Pause
  <2> HIDE DEF n, x
  <2>3. /\ Append(r.pauses, x) # <<>>
        /\ Append(r.pauses, x)[Len(Append(r.pauses, x))] = x
    BY <1>1, <2>2, AppendProperties
  <2> QED
    BY <2>1, <2>2, <2>3 DEF PausesFit, OpenPause, n
<1>4. CASE e.action = "RESUME"
  <2>1. n.status = "ACTIVE" /\ n.pauses = CloseLast(r.pauses, t)
    BY <1>4, NextRowFields
  <2>2. OpenPause(r)
    BY <1>4 DEF Legal, PausesFit
  <2> HIDE DEF n
  <2>3. Len(n.pauses) = Len(r.pauses) /\ n.pauses[Len(r.pauses)].until = t /\ t # None
    BY <1>1, <2>1, <2>2, CloseLastEffect, NoneAssumption DEF OpenPause
  <2> QED
    BY <2>1, <2>3 DEF PausesFit, OpenPause, n
<1> QED
  BY <1>1, <1>2, <1>3, <1>4

\* On the field path an open pause means that the row is PAUSED, or was when
\* it ended: nothing but a resume closes one, and nothing but a pause opens one.
THEOREM OpenPausesArePauses == Spec => []OpenPauseMeansPaused
<1> DEFINE Fits == \A i \in Items : Exists(i) => PausesFit(row[i])
<1>1. Init => Fits
  BY DEF Init, Exists
<1>2. LockInv /\ Fits /\ [Next]_vars => Fits'
  <2> SUFFICES ASSUME LockInv, Fits, [Next]_vars PROVE Fits'
    OBVIOUS
  <2>1. TypeOK
    BY DEF LockInv
  <2>2. CASE UNCHANGED <<row, trail>>
    BY <2>2 DEF Exists
  <2>3. ASSUME NEW h \in Handlers, Insert(h) PROVE Fits'
    <3>1. PICK i \in Items, r \in Row :
             r.status = "ACTIVE" /\ r.pauses = <<>> /\ row' = [row EXCEPT ![i] = r]
      BY <2>3, InsertEffect
    <3>2. PausesFit(r)
      BY <3>1 DEF PausesFit, OpenPause
    <3>3. \A j \in Items : row'[j] = IF j = i THEN r ELSE row[j]
      BY <2>1, <3>1 DEF TypeOK
    <3> QED
      BY <3>2, <3>3 DEF Exists
  <2>4. ASSUME NEW h \in Handlers, Apply(h) PROVE Fits'
    <3>1. PICK e \in Events, t \in Nat :
             /\ row[e.item] \in Row /\ Legal(e, row[e.item])
             /\ row' = [row EXCEPT ![e.item] = NextRow(row[e.item], row[e.item], e, t)]
      BY <2>4, ApplyEffect
    <3> DEFINE r == row[e.item]
    <3>2. e.item \in Items /\ PausesFit(r)
      BY <3>1, EventFields, RowAssumption DEF Exists
    <3>3. PausesFit(NextRow(r, r, e, t))
      BY <3>1, <3>2, NextRowPausesFit
    <3>4. \A j \in Items : row'[j] = IF j = e.item THEN NextRow(r, r, e, t) ELSE row[j]
      BY <2>1, <3>1 DEF TypeOK
    <3> QED
      BY <3>3, <3>4 DEF Exists
  <2> QED
    BY <2>2, <2>3, <2>4, OnlyTwoStepsWrite
<1>3. Fits => OpenPauseMeansPaused
  BY DEF PausesFit, OpenPause, OpenPauseMeansPaused
<1> QED
  BY <1>1, <1>2, <1>3, LockInvAlways, PTL DEF Spec

-----------------------------------------------------------------------------
(* The instants of a row *)

\* The instants of the pauses of a row are among its moments.
LEMMA PauseMoments ==
    ASSUME NEW r \in Row, NEW k \in DOMAIN r.pauses
    PROVE  /\ r.pauses[k] \in Pause
           /\ r.startedAt \in Moments(r) /\ r.pauses[k].at \in Moments(r)
           /\ r.pauses[k].until # None => r.pauses[k].until \in Moments(r)
<1>1. r.pauses \in Seq(Pause)
  BY DEF Row
<1>2. r.pauses[k] \in Pause
  BY <1>1, ElementOfSeq, LenProperties
<1> QED
  BY <1>2 DEF Moments

\* The history with one more pause is in order, if the last one was closed and
\* nothing recorded is later than the new one.
LEMMA PauseKeepsOrder ==
    ASSUME NEW r \in Row, NEW n \in Row, NEW t \in Nat,
           MomentsInOrder(r), ~OpenPause(r), \A m \in Moments(r) : m <= t,
           n.startedAt = r.startedAt, n.status = "PAUSED",
           n.pauses = Append(r.pauses, [at |-> t, until |-> None])
    PROVE  MomentsInOrder(n)
<1> DEFINE p == r.pauses
           x == [at |-> t, until |-> None]
           q == n.pauses
           len == Len(p)
<1>1. p \in Seq(Pause) /\ x \in Pause /\ x.at = t /\ x.until = None
  BY DEF Row, Pause
<1>2. r.startedAt <= t
  BY DEF Moments
<1>3. \A k \in 1..len : /\ p[k] \in Pause /\ r.startedAt <= p[k].at /\ p[k].at <= t
                        /\ p[k].until # None => p[k].at <= p[k].until /\ p[k].until <= t
                        /\ k < len => p[k].until # None /\ p[k].until <= p[k+1].at
  BY <1>1, PauseMoments, LenProperties DEF MomentsInOrder
<1>4. len > 0 => p[len].until # None
  BY <1>1, EmptySeq, LenProperties DEF OpenPause
<1> HIDE DEF x, p
<1>5. /\ q = Append(p, x) /\ Len(q) = len + 1 /\ len \in Nat
      /\ DOMAIN q = 1..(len + 1)
      /\ q[len + 1] = x /\ \A k \in 1..len : q[k] = p[k]
  BY <1>1 DEF p, x
<1> HIDE DEF q, len
<1>6. ASSUME NEW k \in 1..(len + 1)
      PROVE  /\ n.startedAt <= q[k].at
             /\ q[k].until # None => q[k].at <= q[k].until
             /\ k < Len(q) => q[k].until # None /\ q[k].until <= q[k+1].at
  <2>1. CASE k = len + 1
    BY <1>1, <1>2, <1>5, <2>1
  <2>2. CASE k \in 1..len
    <3>1. q[k] = p[k] /\ n.startedAt <= q[k].at
          /\ (q[k].until # None => q[k].at <= q[k].until /\ q[k].until <= t)
      BY <1>3, <1>5, <2>2
    <3>2. CASE k = len
      BY <1>1, <1>4, <1>5, <2>2, <3>1, <3>2
    <3>3. CASE k < len
      <4>1. k + 1 \in 1..len /\ q[k+1] = p[k+1]
        BY <1>5, <2>2, <3>3
      <4> QED
        BY <1>3, <2>2, <3>1, <3>3, <4>1
    <3> QED
      BY <1>5, <2>2, <3>2, <3>3
  <2> QED
    BY <1>5, <2>1, <2>2
<1> QED
  BY <1>5, <1>6 DEF MomentsInOrder, q

\* So is the history whose last, open pause is closed at such an instant.
LEMMA ResumeKeepsOrder ==
    ASSUME NEW r \in Row, NEW n \in Row, NEW t \in Nat,
           MomentsInOrder(r), OpenPause(r), \A m \in Moments(r) : m <= t,
           n.startedAt = r.startedAt, n.status = "ACTIVE",
           n.pauses = CloseLast(r.pauses, t)
    PROVE  MomentsInOrder(n)
<1> DEFINE p == r.pauses
           q == n.pauses
           len == Len(p)
<1>1. p \in Seq(Pause) /\ DOMAIN p = 1..len
  BY LenProperties DEF Row
<1>2. \A k \in 1..len : /\ r.startedAt <= p[k].at /\ p[k].at <= t
                        /\ p[k].until # None => p[k].at <= p[k].until
                        /\ k < len => p[k].until # None /\ p[k].until <= p[k+1].at
  BY <1>1, PauseMoments DEF MomentsInOrder
<1>3. /\ q \in Seq(Pause) /\ Len(q) = len /\ len \in Nat /\ len >= 1
      /\ q[len].at = p[len].at /\ q[len].until = t
      /\ \A k \in 1..len : k # len => q[k] = p[k]
  BY <1>1, CloseLastEffect DEF OpenPause
<1>4. DOMAIN q = 1..len
  BY <1>3, LenProperties
<1> HIDE DEF p, q, len
<1>5. ASSUME NEW k \in 1..len
      PROVE  /\ n.startedAt <= q[k].at
             /\ q[k].until # None => q[k].at <= q[k].until
             /\ k < Len(q) => q[k].until # None /\ q[k].until <= q[k+1].at
  <2>1. CASE k = len
    BY <1>2, <1>3, <2>1
  <2>2. CASE k < len
    <3>1. q[k] = p[k] /\ k + 1 \in 1..len /\ q[k+1].at = p[k+1].at
      BY <1>3, <2>2
    <3> QED
      BY <1>2, <1>3, <2>2, <3>1
  <2> QED
    BY <1>3, <2>1, <2>2
<1> QED
  BY <1>4, <1>5 DEF MomentsInOrder, q

\* An end is not before anything the row records.
LEMMA EndKeepsOrder ==
    ASSUME NEW r \in Row, NEW n \in Row, NEW t \in Nat,
           MomentsInOrder(r), \A m \in Moments(r) : m <= t,
           n.startedAt = r.startedAt, n.endedAt = t,
           n.pauses \in {r.pauses, <<>>}
    PROVE  MomentsInOrder(n)
<1>1. Moments(n) \subseteq Moments(r)
  BY DEF Moments
<1>2. CASE n.pauses = <<>>
  BY <1>1, <1>2 DEF MomentsInOrder
<1>3. CASE n.pauses = r.pauses
  BY <1>1, <1>3 DEF MomentsInOrder
<1> QED
  BY <1>2, <1>3

\* A legal event keeps the instants of the row in order.
LEMMA NextRowKeepsOrder ==
    ASSUME NEW r \in Row, NEW e \in Events, NEW t \in Nat, Legal(e, r), PausesFit(r),
           MomentsInOrder(r), \A m \in Moments(r) : m <= t
    PROVE  MomentsInOrder(NextRow(r, r, e, t))
<1> DEFINE n == NextRow(r, r, e, t)
<1>1. e.action \in {"END", "PAUSE", "RESUME"} /\ n \in Row
  BY EventFields, NextRowType
<1>2. n.startedAt = r.startedAt
  BY NextRowFields
<1>3. CASE e.action = "END"
  <2>1. n.endedAt = t /\ n.pauses \in {r.pauses, <<>>}
    BY <1>3, NextRowFields
  <2> HIDE DEF n
  <2> QED
    BY <1>1, <1>2, <2>1, EndKeepsOrder DEF n
<1>4. CASE e.action = "PAUSE"
  <2>1. n.status = "PAUSED" /\ n.pauses = Append(r.pauses, [at |-> t, until |-> None])
    BY <1>4, NextRowFields
  <2>2. ~OpenPause(r)
    BY <1>4 DEF Legal, PausesFit
  <2> HIDE DEF n
  <2> QED
    BY <1>1, <1>2, <2>1, <2>2, PauseKeepsOrder DEF n
<1>5. CASE e.action = "RESUME"
  <2>1. n.status = "ACTIVE" /\ n.pauses = CloseLast(r.pauses, t)
    BY <1>5, NextRowFields
  <2>2. OpenPause(r)
    BY <1>5 DEF Legal, PausesFit
  <2> HIDE DEF n
  <2> QED
    BY <1>1, <1>2, <2>1, <2>2, ResumeKeepsOrder DEF n
<1> QED
  BY <1>1, <1>3, <1>4, <1>5

\* The instants of a row stay in the order the work went, although devices
\* stamp events themselves and send them late (resolveEventTime).
THEOREM TimesStayInOrder == Spec => []TimesInOrder
<1>1. Init => TimesInOrder
  BY DEF Init, Exists, TimesInOrder
<1>2. LockInv /\ OpenPauseMeansPaused /\ TimesInOrder /\ [Next]_vars => TimesInOrder'
  <2> SUFFICES ASSUME LockInv, OpenPauseMeansPaused, TimesInOrder, [Next]_vars
               PROVE  TimesInOrder'
    OBVIOUS
  <2>1. TypeOK
    BY DEF LockInv
  <2>2. CASE UNCHANGED <<row, trail>>
    BY <2>2 DEF TimesInOrder, Exists
  <2>3. ASSUME NEW h \in Handlers, Insert(h) PROVE TimesInOrder'
    <3>1. PICK i \in Items, r \in Row :
             r.status = "ACTIVE" /\ r.pauses = <<>> /\ row' = [row EXCEPT ![i] = r]
      BY <2>3, InsertEffect
    <3>2. MomentsInOrder(r)
      BY <3>1 DEF MomentsInOrder
    <3>3. \A j \in Items : row'[j] = IF j = i THEN r ELSE row[j]
      BY <2>1, <3>1 DEF TypeOK
    <3> QED
      BY <3>2, <3>3 DEF TimesInOrder, Exists
  <2>4. ASSUME NEW h \in Handlers, Apply(h) PROVE TimesInOrder'
    <3>1. PICK e \in Events, t \in Nat :
             /\ row[e.item] \in Row /\ Legal(e, row[e.item])
             /\ Resolves(e.at, Moments(row[e.item]), t)
             /\ row' = [row EXCEPT ![e.item] = NextRow(row[e.item], row[e.item], e, t)]
      BY <2>4, ApplyEffect
    <3> DEFINE r == row[e.item]
               n == NextRow(r, r, e, t)
    <3>2. e.item \in Items /\ e.action \in {"END", "PAUSE", "RESUME"} /\ Exists(e.item)
      BY <3>1, EventFields, RowAssumption DEF Exists
    <3>3. MomentsInOrder(r) /\ PausesFit(r) /\ n \in Row
      BY <3>1, <3>2, NextRowType
         DEF TimesInOrder, OpenPauseMeansPaused, PausesFit, OpenPause
    <3>4. \A m \in Moments(r) : m <= t
      BY <3>1 DEF Resolves
    <3>5. MomentsInOrder(n)
      BY <3>1, <3>3, <3>4, NextRowKeepsOrder
    <3>6. \A j \in Items : row'[j] = IF j = e.item THEN n ELSE row[j]
      BY <2>1, <3>1 DEF TypeOK
    <3> QED
      BY <3>5, <3>6 DEF TimesInOrder, Exists
  <2> QED
    BY <2>2, <2>3, <2>4, OnlyTwoStepsWrite
<1> QED
  BY <1>1, <1>2, LockInvAlways, OpenPausesArePauses, PTL DEF Spec

-----------------------------------------------------------------------------
(* Remarks and answers *)

\* No event changes a pause that is over.
LEMMA ClosedPausesStay ==
    ASSUME NEW p \in Seq(Pause), NEW t \in Nat, NEW k \in DOMAIN p, p[k].until # None,
           NEW q \in {p, CloseLast(p, t), Append(p, [at |-> t, until |-> None])}
    PROVE  k \in DOMAIN q /\ q[k] = p[k]
<1>1. Len(p) \in Nat /\ DOMAIN p = 1..Len(p)
  BY LenProperties
<1>2. CASE q = p
  BY <1>2
<1>3. CASE q = CloseLast(p, t)
  BY <1>1, <1>3 DEF CloseLast
<1>4. CASE q = Append(p, [at |-> t, until |-> None])
  <2>1. PICK x : x = [at |-> t, until |-> None]
    OBVIOUS
  <2>2. Len(q) = Len(p) + 1 /\ DOMAIN q = 1..Len(q) /\ q[k] = p[k]
    BY <1>1, <1>4, <2>1, AppendProperties
  <2> QED
    BY <1>1, <2>2
<1> QED
  BY <1>2, <1>3, <1>4

\* No field call loses a remark or a pause that is over, but for an end that brings a
\* remark of its own.
THEOREM NotesStay == Spec => NotesSurvive
<1> DEFINE Stays == \A i \in Items : Exists(i) =>
                      \/ Replaced(i)
                      \/ /\ row'[i].memo = row[i].memo
                         /\ \A k \in DOMAIN row[i].pauses :
                              row[i].pauses[k].until # None =>
                                  k \in DOMAIN row'[i].pauses /\ row'[i].pauses[k] = row[i].pauses[k]
<1>1. LockInv /\ [Next]_vars => Stays
  <2> SUFFICES ASSUME LockInv, [Next]_vars PROVE Stays
    OBVIOUS
  <2> DEFINE Kept(i) == /\ row'[i].memo = row[i].memo
                        /\ \A k \in DOMAIN row[i].pauses :
                              row[i].pauses[k].until # None =>
                                k \in DOMAIN row'[i].pauses /\ row'[i].pauses[k] = row[i].pauses[k]
  <2>1. TypeOK
    BY DEF LockInv
  <2>2. CASE UNCHANGED <<row, trail>>
    BY <2>2
  <2>3. ASSUME NEW h \in Handlers, Insert(h) PROVE Stays
    <3>1. PICK i \in Items, r \in Row : row[i] = None /\ row' = [row EXCEPT ![i] = r]
      BY <2>3, InsertEffect
    <3> QED
      BY <2>1, <3>1 DEF Exists, TypeOK
  <2>4. ASSUME NEW h \in Handlers, Apply(h) PROVE Stays
    <3>1. PICK e \in Events, t \in Nat :
             /\ row[e.item] \in Row
             /\ row' = [row EXCEPT ![e.item] = NextRow(row[e.item], row[e.item], e, t)]
             /\ trail' = [trail EXCEPT ![e.item] = Append(trail[e.item], Mark(e))]
      BY <2>4, ApplyEffect
    <3>2. PICK r \in Row : r = row[e.item]
      BY <3>1
    <3>3. PICK n : n = NextRow(r, r, e, t)
      OBVIOUS
    <3>4. e.action \in {"END", "PAUSE", "RESUME"} /\ e.item \in Items
      BY EventFields
    <3>5. /\ \A j \in Items : row'[j] = IF j = e.item THEN n ELSE row[j]
          /\ trail'[e.item] = Append(trail[e.item], Mark(e))
      BY <2>1, <3>1, <3>2, <3>3, <3>4 DEF TypeOK
    <3>6. \A j \in Items : j # e.item => Kept(j)
      BY <3>5
    <3>7. CASE e.action = "END" /\ e.memo # None
      <4>0. n.memo = e.memo
        BY <3>2, <3>3, <3>4, <3>7, NextRowFields
      <4>1. row'[e.item].memo = e.memo
        BY <3>4, <3>5, <4>0
      <4>2. Replaced(e.item)
        BY <3>5, <3>7, <4>1 DEF Replaced
      <4> QED
        BY <3>6, <4>2
    <3>8. CASE ~(e.action = "END" /\ e.memo # None)
      <4>1. /\ n.memo = r.memo
            /\ n.pauses \in {r.pauses, CloseLast(r.pauses, t),
                              Append(r.pauses, [at |-> t, until |-> None])}
        BY <3>2, <3>3, <3>4, <3>8, NextRowFields
      <4>2. r.pauses \in Seq(Pause)
        BY DEF Row
      <4>3. \A k \in DOMAIN r.pauses : r.pauses[k].until # None =>
              k \in DOMAIN n.pauses /\ n.pauses[k] = r.pauses[k]
        BY <4>1, <4>2, ClosedPausesStay
      <4>4. Kept(e.item)
        BY <3>2, <3>4, <3>5, <4>1, <4>3
      <4> QED
        BY <3>6, <4>4
    <3> QED
      BY <3>7, <3>8
  <2> QED
    BY <2>2, <2>3, <2>4, OnlyTwoStepsWrite
<1> QED
  BY <1>1, LockInvAlways, PTL DEF Spec, NotesSurvive

\* No call is both a create call and an event.
LEMMA CallsDiffer == Commands \cap Events = {}
<1>1. ASSUME NEW c \in Command, NEW e \in Event
      PROVE  c # e
  <2>1. "key" \in DOMAIN c /\ "key" \notin DOMAIN e
    BY DEF Command, Event
  <2> QED
    BY <2>1
<1> QED
  BY <1>1, CallsAssumption

\* What has been recorded stays: rows are never taken away, keep their keys,
\* and audit rows are only added.
LEMMA RecordsStay ==
    ASSUME LockInv, [Next]_vars
    PROVE  /\ \A k : KeyTaken(k) => KeyTaken(k)'
           /\ \A e \in Events : Recorded(e) => Recorded(e)'
<1>1. TypeOK
  BY DEF LockInv
<1>2. CASE UNCHANGED <<row, trail>>
  BY <1>2 DEF KeyTaken, Recorded, Exists
<1>3. ASSUME NEW h \in Handlers, Insert(h)
      PROVE  /\ \A k : KeyTaken(k) => KeyTaken(k)'
             /\ \A e \in Events : Recorded(e) => Recorded(e)'
  <2>1. PICK i \in Items, r \in Row, a \in Accounts :
           /\ row[i] = None /\ trail[i] = <<>>
           /\ row' = [row EXCEPT ![i] = r]
           /\ trail' = [trail EXCEPT ![i] =
                           <<[action |-> "CREATE", actor |-> a, event |-> None]>>]
    BY <1>3, InsertEffect
  <2>2. \A j \in Items : j # i => row'[j] = row[j] /\ trail'[j] = trail[j]
    BY <1>1, <2>1 DEF TypeOK
  <2>3. \A e \in Events : e.item \in Items /\ (Recorded(e) => e.item # i)
    BY <2>1, EventFields DEF Recorded
  <2> QED
    BY <2>1, <2>2, <2>3 DEF KeyTaken, Recorded, Exists, Mark
<1>4. ASSUME NEW h \in Handlers, Apply(h)
      PROVE  /\ \A k : KeyTaken(k) => KeyTaken(k)'
             /\ \A e \in Events : Recorded(e) => Recorded(e)'
  <2>1. PICK e \in Events, t \in Nat :
           /\ row[e.item] \in Row
           /\ row' = [row EXCEPT ![e.item] = NextRow(row[e.item], row[e.item], e, t)]
           /\ trail' = [trail EXCEPT ![e.item] = Append(trail[e.item], Mark(e))]
    BY <1>4, ApplyEffect
  <2> DEFINE n == NextRow(row[e.item], row[e.item], e, t)
  <2>2. n \in Row /\ n.key = row[e.item].key
    BY <2>1, NextRowType
  <2> HIDE DEF n
  <2>3. \A j \in Items : row'[j] = IF j = e.item THEN n ELSE row[j]
    BY <1>1, <2>1 DEF TypeOK, n
  <2>4. \A j \in Items : Exists(j) => Exists(j)' /\ row'[j].key = row[j].key
    BY <2>2, <2>3, RowAssumption DEF Exists
  <2>5. \A j \in Items : \A k \in DOMAIN trail[j] :
           k \in DOMAIN trail'[j] /\ trail'[j][k] = trail[j][k]
    <3>1. e.item \in Items /\ Mark(e) \in AuditRow
      BY EventFields
    <3>2. \A j \in Items : trail'[j] = IF j = e.item THEN Append(trail[j], Mark(e))
                                                     ELSE trail[j]
      BY <1>1, <2>1 DEF TypeOK
    <3>3. \A j \in Items : trail[j] \in Seq(AuditRow)
      BY <1>1 DEF TypeOK
    <3>4. ASSUME NEW s \in Seq(AuditRow), NEW k \in DOMAIN s
          PROVE  k \in DOMAIN Append(s, Mark(e)) /\ Append(s, Mark(e))[k] = s[k]
      BY <3>1, AppendProperties, LenProperties
    <3> QED
      BY <3>2, <3>3, <3>4
  <2>6. \A f \in Events : f.item \in Items
    BY EventFields
  <2> QED
    BY <2>4, <2>5, <2>6 DEF KeyTaken, Recorded, Mark
<1> QED
  BY <1>2, <1>3, <1>4, OnlyTwoStepsWrite

\* An answer in hand was in hand before, or its step has just recorded it.
LEMMA AnswersCome ==
    ASSUME LockInv, [Next]_vars, NEW g \in Handlers, Doing(g, "done")'
    PROVE  \/ Doing(g, "done") /\ handler'[g].job = handler[g].job
           \/ \E c \in Commands : handler'[g].job = c /\ (c.key # None => KeyTaken(c.key)')
           \/ \E e \in Events : handler'[g].job = e /\ (e.id # None => Recorded(e)')
<1> DEFINE Goal ==
              \/ Doing(g, "done") /\ handler'[g].job = handler[g].job
              \/ \E c \in Commands : handler'[g].job = c /\ (c.key # None => KeyTaken(c.key)')
              \/ \E e \in Events : handler'[g].job = e /\ (e.id # None => Recorded(e)')
<1>1. TypeOK /\ handler[g] \in HandlerType
  BY DEF LockInv, TypeOK
<1>2. CASE handler'[g] = handler[g]
  BY <1>2 DEF Doing, Job
<1>3. ASSUME NEW h \in Handlers, NEW c \in Commands, LookupKey(h, c), g = h PROVE Goal
  <2>0. handler'[h].pc = "done"
    BY <1>3 DEF Doing
  <2>1. KeyTaken(c.key) /\ handler' = [handler EXCEPT ![h].pc = "done", ![h].job = c]
    BY <1>1, <1>3, <2>0 DEF LookupKey, TypeOK, HandlerType
  <2>2. handler'[g].job = c
    BY <1>1, <1>3, <2>1 DEF TypeOK, HandlerType
  <2>3. KeyTaken(c.key)'
    BY <2>1, RecordsStay
  <2> QED
    BY <2>2, <2>3 DEF Job
<1>4. ASSUME NEW h \in Handlers, Insert(h), g = h PROVE Goal
  <2>1. PICK c \in Commands : c = Job(h)
    BY <1>4 DEF Insert, LockInv, PhaseOK
  <2>2. handler'[g].job = c
    BY <1>1, <1>4, <2>1 DEF Insert, TypeOK, HandlerType, Job
  <2>3. PICK i \in Items, r \in Row : r.key = c.key /\ row' = [row EXCEPT ![i] = r]
    BY <1>4, <2>1, InsertEffect
  <2>4. row'[i] = r /\ r # None
    BY <1>1, <2>3, RowAssumption DEF TypeOK
  <2>5. c.key # None => KeyTaken(c.key)'
    BY <2>3, <2>4 DEF KeyTaken, Exists
  <2> QED
    BY <2>2, <2>5
<1>5. ASSUME NEW h \in Handlers, Acknowledge(h), g = h PROVE Goal
  <2>1. PICK e \in Events : e = Job(h)
    BY <1>5 DEF Acknowledge, LockInv, PhaseOK
  <2>2. handler'[g].job = e /\ Recorded(e)
    BY <1>1, <1>5, <2>1
       DEF Acknowledge, Succeed, TypeOK, HandlerType, Job, AlreadyApplied
  <2>3. Recorded(e)'
    BY <2>2, RecordsStay
  <2> QED
    BY <2>2, <2>3
<1>6. ASSUME NEW h \in Handlers, Apply(h), g = h PROVE Goal
  <2>0. PICK e \in Events : e = Job(h)
    BY <1>6 DEF Apply, LockInv, PhaseOK
  <2>1. handler'[g].job = e
    BY <1>1, <1>6, <2>0 DEF Apply, Succeed, TypeOK, HandlerType, Job
  <2>2. trail' = [trail EXCEPT ![e.item] = Append(@, Mark(e))]
    BY <1>6, <2>0 DEF Apply
  <2>3. /\ trail'[e.item] = Append(trail[e.item], Mark(e))
        /\ trail[e.item] \in Seq(AuditRow) /\ Mark(e) \in AuditRow
    BY <1>1, <2>1, <2>2, EventFields DEF TypeOK
  <2>4. /\ Len(trail[e.item]) + 1 \in DOMAIN trail'[e.item]
        /\ trail'[e.item][Len(trail[e.item]) + 1] = Mark(e)
    BY <2>3, AppendProperties, LenProperties
  <2>5. \E k \in DOMAIN trail'[e.item] : trail'[e.item][k] = Mark(e)
    BY <2>4
  <2>6. Recorded(e)'
    BY <2>5 DEF Recorded, Mark
  <2> QED
    BY <2>1, <2>6
<1>7. ASSUME NEW h \in Handlers, g # h,
             \/ \E c \in Commands : LookupKey(h, c)
             \/ \E e \in Events : Arrive(h, e)
             \/ Lock(h) \/ Work(h) \/ Abort(h) \/ Reply(h)
      PROVE  handler'[g] = handler[g]
  BY <1>1, <1>7
     DEF TypeOK, LookupKey, Arrive, Lock, Work, Insert, InsertFails, NotFound,
         Acknowledge, Apply, Refuse, Abort, Reply, Succeed, Fail
<1>8. ASSUME NEW h \in Handlers, g = h,
             \/ \E e \in Events : Arrive(h, e)
             \/ Lock(h) \/ InsertFails(h) \/ NotFound(h) \/ Refuse(h)
             \/ Abort(h) \/ Reply(h)
      PROVE  FALSE
  <2>1. handler'[g].pc \in {"idle", "waiting", "locked"}
    BY <1>1, <1>8
       DEF TypeOK, HandlerType, Arrive, Lock, InsertFails, NotFound, Refuse,
           Abort, Reply, Fail, Idle
  <2> QED
    BY <2>1 DEF Doing
<1>9. CASE Tick \/ UNCHANGED vars
  BY <1>2, <1>9 DEF Tick, vars
<1> HIDE DEF Goal
<1>10. Goal
  BY <1>2, <1>3, <1>4, <1>5, <1>6, <1>7, <1>8, <1>9 DEF Next, Work, Goal
<1> QED
  BY <1>10 DEF Goal

\* A device that hears 200 may drop the call from its queue (the item of a
\* keyed create is there, and so is the audit row of a stamped event).
THEOREM AnswersAreRecorded == Spec => []AnswerIsRecorded
<1>1. Init => AnswerIsRecorded
  BY DEF Init, Idle, Doing, AnswerIsRecorded
<1>2. LockInv /\ AnswerIsRecorded /\ [Next]_vars => AnswerIsRecorded'
  <2> SUFFICES ASSUME LockInv, AnswerIsRecorded, [Next]_vars,
                      NEW g \in Handlers, Doing(g, "done")'
               PROVE  /\ (Job(g) \in Commands /\ Job(g).key # None => KeyTaken(Job(g).key))'
                      /\ (Job(g) \in Events /\ Job(g).id # None => Recorded(Job(g)))'
    BY DEF AnswerIsRecorded
  <2>1. CASE Doing(g, "done") /\ handler'[g].job = handler[g].job
    <3>1. /\ Job(g) \in Commands /\ Job(g).key # None => KeyTaken(Job(g).key)
          /\ Job(g) \in Events /\ Job(g).id # None => Recorded(Job(g))
      BY <2>1 DEF AnswerIsRecorded
    <3>2. /\ \A k : KeyTaken(k) => KeyTaken(k)'
          /\ \A e \in Events : Recorded(e) => Recorded(e)'
      BY RecordsStay
    <3> QED
      BY <2>1, <3>1, <3>2 DEF Job, KeyTaken, Recorded, Mark
  <2>2. ASSUME NEW c \in Commands, handler'[g].job = c, c.key # None => KeyTaken(c.key)'
        PROVE  /\ (Job(g) \in Commands /\ Job(g).key # None => KeyTaken(Job(g).key))'
               /\ (Job(g) \in Events /\ Job(g).id # None => Recorded(Job(g)))'
    BY <2>2, CallsDiffer DEF Job, KeyTaken
  <2>3. ASSUME NEW e \in Events, handler'[g].job = e, e.id # None => Recorded(e)'
        PROVE  /\ (Job(g) \in Commands /\ Job(g).key # None => KeyTaken(Job(g).key))'
               /\ (Job(g) \in Events /\ Job(g).id # None => Recorded(Job(g)))'
    BY <2>3, CallsDiffer DEF Job, Recorded, Mark
  <2> QED
    BY <2>1, <2>2, <2>3, AnswersCome
<1> QED
  BY <1>1, <1>2, LockInvAlways, PTL DEF Spec

-----------------------------------------------------------------------------
(* The refinement: the state the ledger sees, and a step of it for each step *)

Phase(i) == IF Exists(i) THEN row[i].status ELSE "NONE"
KeyOf(i) == IF Exists(i) THEN row[i].key ELSE None
Taken(i) == {m \in {trail[i][k] : k \in DOMAIN trail[i]} : m.event # None}

\* An insertion opens an item nobody else has the key of.
LEMMA InsertOpens ==
    ASSUME LockInv, NEW h \in Handlers, Insert(h)
    PROVE  \E i \in Items, k \in Keys \cup {None} : Ledger!Open(i, k)
<1>1. PICK i \in Items, r \in Row, a \in Accounts :
         /\ row[i] = None /\ trail[i] = <<>>
         /\ r.status = "ACTIVE" /\ KeyFree(r.key)
         /\ row' = [row EXCEPT ![i] = r]
         /\ trail' = [trail EXCEPT ![i] =
                         <<[action |-> "CREATE", actor |-> a, event |-> None]>>]
  BY InsertEffect
<1>2. TypeOK /\ r # None /\ r.key \in Keys \cup {None}
  BY RowAssumption DEF LockInv, Row
<1>3. \A j \in Items : row'[j] = IF j = i THEN r ELSE row[j]
  BY <1>1, <1>2 DEF TypeOK
<1>4. \A j \in Items : j # i => trail'[j] = trail[j]
  BY <1>1, <1>2 DEF TypeOK
<1>5. Phase(i) = "NONE" /\ (r.key # None => \A j \in Items : KeyOf(j) # r.key)
  BY <1>1, <1>2 DEF Phase, KeyOf, Exists, KeyFree, KeyTaken
<1>6. \A j \in Items : /\ Phase(j)' = IF j = i THEN "ACTIVE" ELSE Phase(j)
                       /\ KeyOf(j)' = IF j = i THEN r.key ELSE KeyOf(j)
  BY <1>1, <1>2, <1>3 DEF Phase, KeyOf, Exists
<1>7. \A j \in Items : Taken(j)' = Taken(j)
  <2>1. Taken(i) = {}
    BY <1>1 DEF Taken
  <2>2. trail'[i] = <<[action |-> "CREATE", actor |-> a, event |-> None]>>
    BY <1>1, <1>2 DEF TypeOK
  <2>3. Taken(i)' = {}
    BY <2>2 DEF Taken
  <2> QED
    BY <1>4, <2>1, <2>3 DEF Taken
<1>8. Ledger!Open(i, r.key)
  BY <1>5, <1>6, <1>7 DEF Ledger!Open, Phase, KeyOf, Taken
<1> QED
  BY <1>2, <1>8

\* An applied event takes the one step of the ledger its audit row stands for.
LEMMA ApplyTakes ==
    ASSUME LockInv, NEW h \in Handlers, Apply(h)
    PROVE  \E i \in Items, m \in Ledger!Marks : Ledger!Take(i, m)
<1>1. PICK e \in Events, t \in Nat :
         /\ row[e.item] \in Row
         /\ Legal(e, row[e.item]) /\ ~AlreadyApplied(e)
         /\ row' = [row EXCEPT ![e.item] = NextRow(row[e.item], row[e.item], e, t)]
         /\ trail' = [trail EXCEPT ![e.item] = Append(trail[e.item], Mark(e))]
  BY ApplyEffect
<1> DEFINE i == e.item
           m == Mark(e)
           n == NextRow(row[i], row[i], e, t)
<1>2. /\ i \in Items /\ m \in AuditRow
      /\ e.action \in {"END", "PAUSE", "RESUME"}
      /\ m.action = e.action /\ m.event = e.id
      /\ m \in Ledger!Marks
  BY EventFields DEF Mark, Ledger!Marks, Ledger!Actions
<1>3. row[i] # None /\ n # None /\ n.key = row[i].key /\ TypeOK
  BY <1>1, NextRowType, RowAssumption DEF LockInv
<1>4. Phase(i) \in Ledger!From(m.action) /\ n.status = Ledger!To(m.action)
  <2>1. Phase(i) = row[i].status
    BY <1>3 DEF Phase, Exists
  <2>2. CASE e.action = "END"
    <3>1. n.status = "ENDED" /\ row[i].status \in {"ACTIVE", "PAUSED"}
      BY <1>1, <2>2, NextRowFields DEF Legal
    <3> QED
      BY <1>2, <2>1, <2>2, <3>1 DEF Ledger!From, Ledger!To
  <2>3. CASE e.action = "PAUSE"
    <3>1. n.status = "PAUSED" /\ row[i].status = "ACTIVE"
      BY <1>1, <2>3, NextRowFields DEF Legal
    <3> QED
      BY <1>2, <2>1, <2>3, <3>1 DEF Ledger!From, Ledger!To
  <2>4. CASE e.action = "RESUME"
    <3>1. n.status = "ACTIVE" /\ row[i].status = "PAUSED"
      BY <1>1, <2>4, NextRowFields DEF Legal
    <3> QED
      BY <1>2, <2>1, <2>4, <3>1 DEF Ledger!From, Ledger!To
  <2> QED
    BY <1>2, <2>2, <2>3, <2>4
<1>5. m \notin Taken(i)
  BY <1>1, <1>2 DEF AlreadyApplied, Recorded, Taken
<1>6. \A j \in Items : row'[j] = IF j = i THEN n ELSE row[j]
  BY <1>1, <1>3 DEF TypeOK
<1>7. \A j \in Items : trail'[j] = IF j = i THEN Append(trail[i], m) ELSE trail[j]
  BY <1>1, <1>3 DEF TypeOK
<1>8. trail[i] \in Seq(AuditRow)
  BY <1>2, <1>3 DEF TypeOK
<1> HIDE DEF i, m, n
<1>9. \A j \in Items : /\ Phase(j)' = IF j = i THEN Ledger!To(m.action) ELSE Phase(j)
                       /\ KeyOf(j)' = KeyOf(j)
  BY <1>3, <1>4, <1>6 DEF Phase, KeyOf, Exists
<1>10. \A j \in Items : Taken(j)' =
          IF j = i THEN IF m.event = None THEN Taken(i) ELSE Taken(i) \cup {m}
                   ELSE Taken(j)
  <2> DEFINE s == trail[i]
             w == Append(s, m)
  <2>1. {w[k] : k \in DOMAIN w} = {s[k] : k \in DOMAIN s} \cup {m}
    <3>1. /\ DOMAIN w = 1..(Len(s) + 1) /\ DOMAIN s = 1..Len(s) /\ Len(s) \in Nat
          /\ w[Len(s) + 1] = m /\ \A k \in 1..Len(s) : w[k] = s[k]
      BY <1>2, <1>8, AppendProperties, LenProperties
    <3> HIDE DEF s, w
    <3>2. DOMAIN w = DOMAIN s \cup {Len(s) + 1}
      BY <3>1
    <3> QED
      BY <3>1, <3>2
  <2>2. trail'[i] = w
    BY <1>2, <1>7
  <2> HIDE DEF w
  <2>3. Taken(i)' = IF m.event = None THEN Taken(i) ELSE Taken(i) \cup {m}
    BY <2>1, <2>2 DEF Taken
  <2>4. \A j \in Items : j # i => Taken(j)' = Taken(j)
    BY <1>7 DEF Taken
  <2> QED
    BY <1>2, <2>3, <2>4
<1>11. Ledger!Take(i, m)
  BY <1>2, <1>4, <1>5, <1>9, <1>10 DEF Ledger!Take, Phase, KeyOf, Taken
<1> QED
  BY <1>2, <1>11

\* The create, end, pause and resume calls implement the ledger: each is one
\* atomic step of it or none, however the executions interleave or die.
THEOREM CallsImplementLedger == Spec => ImplementsLedger
<1>1. Init => Ledger!Init
  BY DEF Init, Exists, Ledger!Init
<1>2. LockInv /\ [Next]_vars => [Ledger!Next]_(Ledger!ledger)
  <2> SUFFICES ASSUME LockInv, [Next]_vars PROVE [Ledger!Next]_(Ledger!ledger)
    OBVIOUS
  <2>1. CASE UNCHANGED <<row, trail>>
    BY <2>1 DEF Ledger!ledger, Exists
  <2>2. ASSUME NEW h \in Handlers, Insert(h) PROVE Ledger!Next
    BY <2>2, InsertOpens DEF Ledger!Next
  <2>3. ASSUME NEW h \in Handlers, Apply(h) PROVE Ledger!Next
    BY <2>3, ApplyTakes DEF Ledger!Next
  <2> QED
    BY <2>1, <2>2, <2>3, OnlyTwoStepsWrite
<1> QED
  BY <1>1, <1>2, LockInvAlways, PTL DEF Spec, ImplementsLedger, Ledger!Spec

=============================================================================
