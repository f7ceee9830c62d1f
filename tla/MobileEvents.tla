---------------------------- MODULE MobileEvents ----------------------------
(***************************************************************************)
(* The field path of the work-item service: what a tablet or phone does to *)
(* a work item.  A create call is made idempotent by a key that is looked  *)
(* up outside the inserting transaction and backed by a unique index.  An  *)
(* end, pause or resume call is one database transaction that locks the    *)
(* row (SELECT ... FOR UPDATE), reads it, answers a retransmission from    *)
(* the audit trail, and otherwise applies the event and appends an audit   *)
(* row.  Devices resend, calls overlap and arrive in any order, device     *)
(* clocks are off, and a server instance may die between two steps.        *)
(*                                                                         *)
(* The network and the devices are the environment: any call of Commands   *)
(* and Events may arrive at any time, any number of times.                 *)
(***************************************************************************)
EXTENDS Integers, Sequences

CONSTANTS
    Items,      \* identities a work item can get (workItem.id, a uuid)
    Keys,       \* idempotency keys
    EventIds,   \* event ids a device stamps on an event
    Accounts,   \* everybody who can sign in
    Workers,    \* the field workers among them, all with status ACTIVE
    Admins,     \* accounts with role ADMIN
    Masters,    \* accounts with role MASTER
    Sites,
    SiteOf,     \* site of an account; None for an account with none (legacy)
    Memos,      \* remark texts
    Handlers,   \* request executions the server runs at once
    Commands,   \* the create calls devices make
    Events,     \* the end, pause and resume calls devices make
    None,       \* SQL NULL, an absent DTO field, no row
    Skew,       \* how far a device clock may run ahead (CLOCK_SKEW_MS)
    MaxAge,     \* how old a queued event may be (MAX_EVENT_AGE_MS)
    MaxTime,    \* bound on the server clock
    MaxTrail    \* bound on the audit rows of an item; no call arrives beyond

Command == [key : Keys \cup {None}, by : Accounts, starter : Workers,
            crew : SUBSET Workers, at : Nat \cup {None},
            memo : Memos \cup {None}]

Event == [item : Items, action : {"END", "PAUSE", "RESUME"},
          id : EventIds \cup {None}, by : Accounts, actor : Workers,
          at : Nat \cup {None}, memo : Memos \cup {None},
          joins : SUBSET Workers]

\* The environment's vocabulary is typed, and None is not a value of any
\* type: a NULL is never mistaken for a key, an account or a time.
ASSUME CallsAssumption ==
    /\ Commands \subseteq Command
    /\ Events \subseteq Event

ASSUME AccountsAssumption ==
    /\ Workers \subseteq Accounts
    /\ SiteOf \in [Accounts -> Sites \cup {None}]

ASSUME NoneAssumption ==
    None \notin Items \cup Keys \cup EventIds \cup Accounts \cup Sites
                \cup Memos \cup Handlers \cup Nat

ASSUME BoundsAssumption ==
    Skew \in Nat /\ MaxAge \in Nat /\ MaxTime \in Nat /\ MaxTrail \in Nat

VARIABLES
    now,        \* the server clock
    row,        \* work_items with their work_assignments
    used,       \* the identities given out so far (a uuid is never given twice)
    trail,      \* audit_logs of each item, oldest first
    lock,       \* the handler holding the item's row lock
    handler     \* what each request execution is doing

vars == <<now, row, used, trail, lock, handler>>

-----------------------------------------------------------------------------
(* Rows *)

Statuses == {"ACTIVE", "PAUSED", "ENDED", "VOID"}

Pause == [at : Nat, until : Nat \cup {None}]

\* notes is a text or a JSON object; what matters of it is the remark and the
\* pauseHistory array.  lead is the worker of the STARTER assignment.
Row == [status : Statuses, key : Keys \cup {None}, startedAt : Nat,
        endedAt : Nat \cup {None}, endedBy : Accounts \cup {None},
        starter : Workers, lead : Workers, crew : SUBSET Workers,
        memo : Memos \cup {None}, pauses : Seq(Pause)]

\* The absence of a row is not a row.
ASSUME RowAssumption == None \notin Row

AuditActions == {"CREATE", "END", "PAUSE", "RESUME",
                 "EDIT", "VOID", "RESTORE", "MANUAL_CREATE"}

AuditRow == [action : AuditActions, actor : Accounts, event : EventIds \cup {None}]

Exists(i) == row[i] # None

\* The instants a row records: when it started and each pause and resume.
Moments(r) ==
    {r.startedAt} \cup {r.pauses[k].at : k \in DOMAIN r.pauses}
                  \cup ({r.pauses[k].until : k \in DOMAIN r.pauses} \ {None})

\* Mutant: a device's time is not compared with what the row records.
ResolvesUnordered(at, moments, t) ==
    IF at = None
    THEN /\ t \in moments \cup {now}
         /\ \A m \in moments \cup {now} : m <= t
    ELSE t = at /\ at <= now + Skew /\ now <= at + MaxAge

\* t is the instant a call is recorded at: the server clock, never before
\* what the row already records; or the device's time if it is plausible and
\* not before what the row already records.
Resolves(at, moments, t) ==
    IF at = None
    THEN /\ t \in moments \cup {now}
         /\ \A m \in moments \cup {now} : m <= t
    ELSE /\ t = at
         /\ at <= now + Skew
         /\ now <= at + MaxAge
         /\ \A m \in moments : m <= at

Resolvable(at, moments) == \E t \in moments \cup {now, at} : Resolves(at, moments, t)

-----------------------------------------------------------------------------
(* Who may do what *)

SameSite(a, r) ==
    \/ a \in Masters
    \/ SiteOf[a] # None /\ SiteOf[r.starter] \in {None, SiteOf[a]}

Owns(a, r) == a \in Masters \cup Admins \cup {r.starter} \cup r.crew

MayTouch(a, r) == SameSite(a, r) /\ Owns(a, r)

\* Starter and participants belong to the caller's site, if the caller has one.
MayStart(c) ==
    \/ c.by \in Masters
    \/ SiteOf[c.by] = None
    \/ \A w \in {c.starter} \cup c.crew : SiteOf[w] \in {None, SiteOf[c.by]}

-----------------------------------------------------------------------------
(* A create call *)

Idle == [pc |-> "idle", job |-> None, seen |-> None]

Doing(h, pc) == handler[h].pc = pc

Job(h) == handler[h].job

KeyTaken(k) == k # None /\ \E i \in Items : Exists(i) /\ row[i].key = k

\* create, before its transaction: a known key is answered with the item it
\* stands for; an unknown one goes on to the insertion.  A call of another
\* site is refused at once and leaves no trace.
LookupKey(h, c) ==
    /\ Doing(h, "idle")
    /\ \/ /\ KeyTaken(c.key)
          /\ \E i \in Items :
                /\ Exists(i) /\ row[i].key = c.key
                /\ SameSite(c.by, row[i])
          /\ handler' = [handler EXCEPT ![h].pc = "done", ![h].job = c]
       \/ /\ ~KeyTaken(c.key)
          /\ MayStart(c)
          /\ handler' = [handler EXCEPT ![h].pc = "inserting", ![h].job = c]
    /\ UNCHANGED <<now, row, used, trail, lock>>

\* Mutant: no unique index on idempotencyKey.
KeyNeverClashes(k) == TRUE

\* The unique index on idempotencyKey.
KeyFree(k) == ~KeyTaken(k)

\* Mutant: the DTO's time is stored as it came.
NewRowUnresolved(c, t) ==
    [status |-> "ACTIVE", key |-> c.key, startedAt |-> c.at, endedAt |-> None,
     endedBy |-> None, starter |-> c.starter, lead |-> c.starter,
     crew |-> {c.starter} \cup c.crew, memo |-> c.memo, pauses |-> <<>>]

NewRow(c, t) ==
    [status |-> "ACTIVE", key |-> c.key, startedAt |-> t, endedAt |-> None,
     endedBy |-> None, starter |-> c.starter, lead |-> c.starter,
     crew |-> {c.starter} \cup c.crew, memo |-> c.memo, pauses |-> <<>>]

\* create's transaction: the row, its assignments and the CREATE audit row.
Insert(h) ==
    /\ Doing(h, "inserting")
    /\ LET c == Job(h) IN
       /\ KeyFree(c.key)
       /\ \E i \in Items, t \in {now, c.at} :
            /\ i \notin used
            /\ Resolves(c.at, {}, t)
            /\ row' = [row EXCEPT ![i] = NewRow(c, t)]
            /\ used' = used \cup {i}
            /\ trail' = [trail EXCEPT ![i] =
                            <<[action |-> "CREATE", actor |-> c.starter, event |-> None]>>]
    /\ handler' = [handler EXCEPT ![h].pc = "done"]
    /\ UNCHANGED <<now, lock>>

\* The transaction rolls back: the key is taken by now, or the device's time
\* is not plausible.
InsertFails(h) ==
    /\ Doing(h, "inserting")
    /\ ~KeyFree(Job(h).key) \/ ~Resolvable(Job(h).at, {})
    /\ handler' = [handler EXCEPT ![h] = Idle]
    /\ UNCHANGED <<now, row, used, trail, lock>>

-----------------------------------------------------------------------------
(* An end, pause or resume call *)

\* The audit row the transaction of e leaves: what a retransmission finds.
Mark(e) == [action |-> e.action, actor |-> e.actor, event |-> e.id]

Recorded(e) == \E k \in DOMAIN trail[e.item] : trail[e.item][k] = Mark(e)

\* Mutant: retransmissions are not recognised.
NeverApplied(e) == FALSE

\* Mutant: any earlier event of the same action passes for this one.
AppliedLookalike(e) ==
    e.id # None /\ \E k \in DOMAIN trail[e.item] : trail[e.item][k].action = e.action

AlreadyApplied(e) == e.id # None /\ Recorded(e)

Arrive(h, e) ==
    /\ Doing(h, "idle")
    /\ Len(trail[e.item]) < MaxTrail
    /\ handler' = [handler EXCEPT ![h].pc = "waiting", ![h].job = e]
    /\ UNCHANGED <<now, row, used, trail, lock>>

\* Mutant: the row is read without FOR UPDATE.
NotLocked(i) == TRUE

Lockable(i) == lock[i] = None

\* SELECT ... FOR UPDATE, then the read of the row and its assignments.
Lock(h) ==
    /\ Doing(h, "waiting")
    /\ LET i == Job(h).item IN
       /\ Exists(i)
       /\ Lockable(i)
       /\ lock' = [lock EXCEPT ![i] = h]
       /\ handler' = [handler EXCEPT ![h].pc = "locked", ![h].seen = row[i]]
    /\ UNCHANGED <<now, row, used, trail>>

NotFound(h) ==
    /\ Doing(h, "waiting")
    /\ ~Exists(Job(h).item)
    /\ handler' = [handler EXCEPT ![h] = Idle]
    /\ UNCHANGED <<now, row, used, trail, lock>>

\* Mutant: a pause is taken in any status but PAUSED.
LegalLatePause(e, s) ==
    CASE e.action = "END"    -> s.status \in {"ACTIVE", "PAUSED"}
      [] e.action = "PAUSE"  -> s.status # "PAUSED"
      [] e.action = "RESUME" -> s.status = "PAUSED"

\* The statuses each action requires of the row it read.
Legal(e, s) ==
    CASE e.action = "END"    -> s.status \in {"ACTIVE", "PAUSED"}
      [] e.action = "PAUSE"  -> s.status = "ACTIVE"
      [] e.action = "RESUME" -> s.status = "PAUSED"

\* Mutant: an end without notes clears them.
EndRowClears(r, s, e, t) ==
    [r EXCEPT !.status = "ENDED", !.endedAt = t, !.endedBy = e.actor,
              !.memo = e.memo, !.pauses = IF e.memo = None THEN s.pauses ELSE <<>>,
              !.crew = @ \cup e.joins]

\* applyEnd.  A remark sent with the call replaces notes as a whole, and the
\* pause history with it.
EndRow(r, s, e, t) ==
    [r EXCEPT !.status = "ENDED", !.endedAt = t, !.endedBy = e.actor,
              !.memo = IF e.memo = None THEN s.memo ELSE e.memo,
              !.pauses = IF e.memo = None THEN s.pauses ELSE <<>>,
              !.crew = @ \cup e.joins]

\* applyPause.  Any other content of notes is kept.
PauseRow(r, s, e, t) ==
    [r EXCEPT !.status = "PAUSED", !.memo = s.memo,
              !.pauses = Append(s.pauses, [at |-> t, until |-> None])]

\* Mutant: the first entry gets the resumedAt.
CloseFirst(p, t) ==
    IF p # <<>> /\ p[1].until = None THEN [p EXCEPT ![1].until = t] ELSE p

\* The last entry gets its resumedAt, unless it has one.
CloseLast(p, t) ==
    IF p # <<>> /\ p[Len(p)].until = None
    THEN [p EXCEPT ![Len(p)].until = t]
    ELSE p

\* applyResume.
ResumeRow(r, s, e, t) ==
    [r EXCEPT !.status = "ACTIVE", !.memo = s.memo, !.pauses = CloseLast(s.pauses, t)]

NextRow(r, s, e, t) ==
    CASE e.action = "END"    -> EndRow(r, s, e, t)
      [] e.action = "PAUSE"  -> PauseRow(r, s, e, t)
      [] e.action = "RESUME" -> ResumeRow(r, s, e, t)

\* Mutant: the lock outlives its transaction.
GiveBackNever(h) == UNCHANGED lock

\* The end of a transaction: a lock it held is given back.
GiveBack(h) == lock' = [i \in Items |-> IF lock[i] = h THEN None ELSE lock[i]]

Succeed(h) ==
    /\ handler' = [handler EXCEPT ![h].pc = "done", ![h].seen = None]
    /\ GiveBack(h)

Fail(h) ==
    /\ handler' = [handler EXCEPT ![h] = Idle]
    /\ GiveBack(h)

\* A retransmission is answered and changes nothing.
Acknowledge(h) ==
    /\ Doing(h, "locked")
    /\ MayTouch(Job(h).by, handler[h].seen)
    /\ AlreadyApplied(Job(h))
    /\ Succeed(h)
    /\ UNCHANGED <<now, row, used, trail>>

Apply(h) ==
    /\ Doing(h, "locked")
    /\ LET e == Job(h)
           s == handler[h].seen
           i == e.item
       IN  /\ MayTouch(e.by, s)
           /\ ~AlreadyApplied(e)
           /\ Legal(e, s)
           /\ \E t \in Moments(s) \cup {now, e.at} :
                /\ Resolves(e.at, Moments(s), t)
                /\ row' = [row EXCEPT ![i] = NextRow(@, s, e, t)]
           /\ trail' = [trail EXCEPT ![i] = Append(@, Mark(e))]
    /\ Succeed(h)
    /\ UNCHANGED <<now, used>>

\* 400 or 403: nothing is written.
Refuse(h) ==
    /\ Doing(h, "locked")
    /\ LET e == Job(h)
           s == handler[h].seen
       IN  \/ ~MayTouch(e.by, s)
           \/ ~AlreadyApplied(e) /\ (~Legal(e, s) \/ ~Resolvable(e.at, Moments(s)))
    /\ Fail(h)
    /\ UNCHANGED <<now, row, used, trail>>

-----------------------------------------------------------------------------

Busy(h) == handler[h].pc \in {"inserting", "waiting", "locked"}

\* The instance dies or its transaction times out: the database rolls back.
Abort(h) ==
    /\ Busy(h)
    /\ Fail(h)
    /\ UNCHANGED <<now, row, used, trail>>

\* The answer leaves; whether it reaches the device is not known.
Reply(h) ==
    /\ Doing(h, "done")
    /\ handler' = [handler EXCEPT ![h] = Idle]
    /\ UNCHANGED <<now, row, used, trail, lock>>

Tick ==
    /\ now < MaxTime
    /\ now' = now + 1
    /\ UNCHANGED <<row, used, trail, lock, handler>>

Init ==
    /\ now = 0
    /\ row = [i \in Items |-> None]
    /\ used = {}
    /\ trail = [i \in Items |-> <<>>]
    /\ lock = [i \in Items |-> None]
    /\ handler = [h \in Handlers |-> Idle]

\* The server's steps on a call it has taken.
Work(h) ==
    \/ Insert(h) \/ InsertFails(h)
    \/ NotFound(h) \/ Acknowledge(h) \/ Apply(h) \/ Refuse(h)

Next ==
    \/ Tick
    \/ \E h \in Handlers :
          \/ \E c \in Commands : LookupKey(h, c)
          \/ \E e \in Events : Arrive(h, e)
          \/ Lock(h)
          \/ Work(h)
          \/ Abort(h)
          \/ Reply(h)

Spec == Init /\ [][Next]_vars

\* A row lock queues its waiters, so a waiting transaction gets it in the end;
\* a step the server has in hand is carried out.
FairSpec ==
    /\ Spec
    /\ \A h \in Handlers : SF_vars(Lock(h)) /\ WF_vars(Work(h))

-----------------------------------------------------------------------------
(* What must hold *)

JobType == Commands \cup Events \cup {None}

HandlerType ==
    [pc : {"idle", "inserting", "waiting", "locked", "done"},
     job : JobType, seen : Row \cup {None}]

TypeOK ==
    /\ now \in 0..MaxTime
    /\ row \in [Items -> Row \cup {None}]
    /\ used \subseteq Items
    /\ trail \in [Items -> Seq(AuditRow)]
    /\ lock \in [Items -> Handlers \cup {None}]
    /\ handler \in [Handlers -> HandlerType]

\* An event with an id leaves at most one audit row, so at most one effect,
\* however often the device resends it and however many instances handle a
\* copy at once (withMobileEvent's look-up in the audit trail).
AppliedOnce ==
    \A i \in Items : \A j, k \in DOMAIN trail[i] :
        trail[i][j] = trail[i][k] /\ trail[i][j].event # None => j = k

\* A device that hears 200 may drop the call from its queue: the item of a
\* keyed create exists and the audit row of a stamped event is there.
AnswerIsRecorded ==
    \A h \in Handlers : Doing(h, "done") =>
        /\ Job(h) \in Commands /\ Job(h).key # None => KeyTaken(Job(h).key)
        /\ Job(h) \in Events /\ Job(h).id # None => Recorded(Job(h))

\* What a mobile transaction read under its lock is what it writes over.
LockedReadIsCurrent ==
    \A h \in Handlers : Doing(h, "locked") => handler[h].seen = row[Job(h).item]

\* A create call resent or handled twice at once makes one item.
OneItemPerKey ==
    \A i, j \in Items :
        Exists(i) /\ Exists(j) /\ row[i].key = row[j].key /\ row[i].key # None => i = j

\* The instants of a row are in the order the work went: the start, then each
\* pause and its resume, then the end.
MomentsInOrder(r) ==
    LET p == r.pauses IN
    /\ \A k \in DOMAIN p :
          /\ r.startedAt <= p[k].at
          /\ p[k].until # None => p[k].at <= p[k].until
          /\ k < Len(p) => p[k].until # None /\ p[k].until <= p[k+1].at
    /\ r.status = "ENDED" => \A m \in Moments(r) : m <= r.endedAt

TimesInOrder == \A i \in Items : Exists(i) => MomentsInOrder(row[i])

\* The time accounting takes an open pause for a pause that still runs: on the
\* field path a row has one exactly while it is PAUSED, or was when it ended.
OpenPauseMeansPaused ==
    \A i \in Items : Exists(i) =>
        LET p == row[i].pauses
            open == p # <<>> /\ p[Len(p)].until = None
        IN  /\ row[i].status = "PAUSED" => open
            /\ row[i].status = "ACTIVE" => ~open

\* Neither a late pause nor a resent event changes an ended item.
EndIsFinal ==
    [][\A i \in Items : Exists(i) /\ row[i].status = "ENDED" => row'[i] = row[i]]_vars

\* The call that brings an ended item another remark is audited with it.
Replaced(i) ==
    \E e \in Events :
        /\ e.item = i /\ e.action = "END" /\ e.memo # None
        /\ row'[i].memo = e.memo
        /\ trail'[i] = Append(trail[i], Mark(e))

\* What is in the notes of an item, its remark and the pauses that are over,
\* survives every create, pause, resume and end, in whatever order and however
\* often they arrive, although each rewrites the whole column from what it
\* read; only an end call that brings a remark of its own replaces them.
NotesSurvive ==
    [][\A i \in Items : Exists(i) =>
        \/ Replaced(i)
        \/ /\ row'[i].memo = row[i].memo
           /\ \A k \in DOMAIN row[i].pauses :
                row[i].pauses[k].until # None =>
                    k \in DOMAIN row'[i].pauses /\ row'[i].pauses[k] = row[i].pauses[k]]_vars

\* The calls implement the ledger: each is one atomic step of it, or none.
Ledger == INSTANCE WorkLedger WITH
    phase <- [i \in Items |-> IF Exists(i) THEN row[i].status ELSE "NONE"],
    key   <- [i \in Items |-> IF Exists(i) THEN row[i].key ELSE None],
    taken <- [i \in Items |-> {m \in {trail[i][k] : k \in DOMAIN trail[i]} : m.event # None}]

ImplementsLedger == Ledger!Spec

\* A call that waits for a row is answered, or its instance died: a lock is
\* given back on every way out of a transaction.
WaitingEnds == \A h \in Handlers : Doing(h, "waiting") ~> ~Busy(h)

=============================================================================
