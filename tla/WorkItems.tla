------------------------------ MODULE WorkItems ------------------------------
(***************************************************************************)
(* The whole life of a work item: the field path of MobileEvents and,      *)
(* beside it, the calls of the office and of the tablet's edit screen.     *)
(* Unlike an end, pause or resume, each of these reads the row outside any *)
(* transaction, checks what it read, and writes later: the write waits for *)
(* the row lock of a field transaction but does not look at the row again. *)
(* A bulk force-end or void is a series of single ones.                    *)
(***************************************************************************)
EXTENDS MobileEvents

CONSTANTS
    Desks,          \* executions of these calls the server runs at once
    OfficeCalls,    \* the calls made
    MaxInspections  \* bound on the inspection records of an item

\* A field of a call is None when the body does not have it.  approver is who
\* entered the PIN for a tablet edit, which does not go without one.
OfficeCall ==
    [op : {"update", "void", "forceEnd", "restore", "delete", "mobileVoid",
           "mobileEdit", "inspect", "batchInspect", "manual"},
     item : Items, by : Accounts, approver : Accounts \cup {None},
     startedAt : Nat \cup {None}, endedAt : Nat \cup {None},
     memo : Memos \cup {None}, starter : Workers \cup {None},
     crew : (SUBSET Workers) \cup {None}]

ASSUME OfficeAssumption ==
    /\ OfficeCalls \subseteq OfficeCall
    /\ \A c \in OfficeCalls : c.op = "manual" =>
          /\ c.startedAt # None /\ c.endedAt # None /\ c.starter # None
          /\ c.crew # None /\ c.memo # None
    /\ \A c \in OfficeCalls : c.op = "mobileEdit" => c.approver # None
    /\ MaxInspections \in Nat

VARIABLES
    desk,           \* what each of these executions is doing
    inspections     \* how many inspection records refer to an item

officeVars == <<now, row, used, trail, lock, handler, desk, inspections>>

-----------------------------------------------------------------------------
(* What a call requires of the row it read *)

Given(x, default) == IF x = None THEN default ELSE x

InScope(w, site) == site = None \/ SiteOf[w] \in {None, site}

\* A master edits in the site of the item.
Scope(c, s) == IF c.by \in Masters THEN SiteOf[s.starter] ELSE SiteOf[c.by]

\* Roles of the routes: ADMIN and MASTER manage, a SUPERVISOR oversees.
Manages(a) == a \in Admins \cup Masters
Oversees(a) == a \notin Workers

\* validateCreateTargets for a manual registration.
Registrable(c) ==
    /\ Manages(c.by)
    /\ c.by \notin Masters => SiteOf[c.by] # None
    /\ LET site == IF c.by \in Masters THEN SiteOf[c.starter] ELSE SiteOf[c.by]
       IN  \A w \in {c.starter} \cup c.crew : InScope(w, site)
    /\ c.startedAt <= c.endedAt /\ c.endedAt <= now

\* Mutant: an edit of one time is not compared with the other one.
NotReversedAlone(c, s) ==
    c.startedAt # None /\ c.endedAt # None => c.startedAt <= c.endedAt

\* The times of the row after the edit, judged by the snapshot.
NotReversed(c, s) ==
    LET end == Given(c.endedAt, s.endedAt)
    IN  end # None => Given(c.startedAt, s.startedAt) <= end

NewStarter(c, s) == Given(c.starter, s.starter)

Reassigns(c, s) == NewStarter(c, s) # s.starter \/ c.crew # None

NewCrew(c, s) == {NewStarter(c, s)} \cup Given(c.crew, s.crew \ {s.starter})

\* updateFromMobile: something changes, and whoever is new belongs to the site.
Editable(c, s) ==
    /\ c.by \in Workers => Owns(c.by, s)
    /\ Oversees(c.approver)
    /\ s.status # "VOID"
    /\ c.memo # None \/ c.starter # None \/ c.crew # None
    /\ Reassigns(c, s) =>
          \A w \in NewCrew(c, s) \ ({s.starter} \cup s.crew) : InScope(w, Scope(c, s))

\* n is the number of inspection records found.
Allowed(c, s, n) ==
    CASE c.op = "update"     -> /\ Manages(c.by) /\ SameSite(c.by, s)
                                /\ s.status # "VOID" /\ NotReversed(c, s)
      [] c.op = "void"       -> Oversees(c.by) /\ SameSite(c.by, s) /\ s.status # "VOID"
      [] c.op = "forceEnd"   -> /\ Oversees(c.by) /\ SameSite(c.by, s)
                                /\ s.status \in {"ACTIVE", "PAUSED"}
      [] c.op = "restore"    -> /\ SameSite(c.by, s) /\ (c.by \in Workers => Owns(c.by, s))
                                /\ s.status = "ENDED"
      [] c.op = "delete"     -> Manages(c.by) /\ SameSite(c.by, s)
      [] c.op = "mobileVoid" -> Owns(c.by, s) /\ s.status # "VOID"
      [] c.op = "mobileEdit" -> SameSite(c.by, s) /\ Editable(c, s)
      [] c.op = "inspect"    -> /\ Oversees(c.by) /\ SameSite(c.by, s)
                                /\ c.by \in Masters => SiteOf[s.starter] # None
                                /\ s.status = "ENDED"
      [] c.op = "batchInspect" -> /\ Oversees(c.by) /\ SameSite(c.by, s)
                                  /\ s.status = "ENDED" /\ n = 0

-----------------------------------------------------------------------------
(* What it writes: r is the row at that moment, s the row it read *)

\* Only what the body has is written; a remark replaces notes as a whole.
EditRow(r, c) ==
    [r EXCEPT !.startedAt = Given(c.startedAt, @), !.endedAt = Given(c.endedAt, @),
              !.memo = Given(c.memo, @),
              !.pauses = IF c.memo = None THEN @ ELSE <<>>]

VoidRow(r) == [r EXCEPT !.status = "VOID"]

ForceEndRow(r, c) ==
    [r EXCEPT !.status = "ENDED", !.endedAt = now, !.endedBy = c.by]

RestoreRow(r) == [r EXCEPT !.status = "ACTIVE", !.endedAt = None, !.endedBy = None]

\* Mutant: the whole snapshot is written back.
MobileEditRowStale(r, c, s) ==
    [s EXCEPT !.memo = Given(c.memo, @), !.starter = NewStarter(c, s),
              !.lead = NewStarter(c, s), !.crew = NewCrew(c, s)]

\* The remark is merged into the notes that were read; starter and
\* assignments are rebuilt from the assignments that were read.
MobileEditRow(r, c, s) ==
    [r EXCEPT !.memo = Given(c.memo, @),
              !.pauses = IF c.memo = None THEN @ ELSE s.pauses,
              !.starter = IF NewStarter(c, s) # s.starter THEN NewStarter(c, s) ELSE @,
              !.lead = IF Reassigns(c, s) THEN NewStarter(c, s) ELSE @,
              !.crew = IF Reassigns(c, s) THEN NewCrew(c, s) ELSE @]

OfficeRow(r, c, s) ==
    CASE c.op = "update"                 -> EditRow(r, c)
      [] c.op \in {"void", "mobileVoid"} -> VoidRow(r)
      [] c.op = "forceEnd"               -> ForceEndRow(r, c)
      [] c.op = "restore"                -> RestoreRow(r)
      [] c.op = "mobileEdit"             -> MobileEditRow(r, c, s)

\* A tablet's void is recorded under the worker who started the item.
OfficeMark(c, s) ==
    [action |-> CASE c.op \in {"update", "mobileEdit"} -> "EDIT"
                  [] c.op \in {"void", "mobileVoid"}   -> "VOID"
                  [] c.op = "forceEnd"                 -> "END"
                  [] c.op = "restore"                  -> "RESTORE",
     actor |-> CASE c.op = "mobileVoid" -> s.starter
                 [] c.op = "mobileEdit" -> IF InScope(c.approver, Scope(c, s))
                                              \/ c.approver \in Masters
                                           THEN c.approver ELSE c.by
                 [] OTHER               -> c.by,
     event |-> None]

-----------------------------------------------------------------------------

AtDesk(d, pc) == desk[d].pc = pc

\* The reads and checks before the transaction; a refused call leaves no trace.
Read(d, c) ==
    /\ AtDesk(d, "idle")
    /\ c.op # "manual"
    /\ Exists(c.item)
    /\ Len(trail[c.item]) < MaxTrail
    /\ Allowed(c, row[c.item], inspections[c.item])
    /\ desk' = [desk EXCEPT ![d] = [pc |-> "read", job |-> c, seen |-> row[c.item]]]
    /\ UNCHANGED <<now, row, used, trail, lock, handler, inspections>>

Ready(d, ops) ==
    /\ AtDesk(d, "read")
    /\ desk[d].job.op \in ops
    /\ Exists(desk[d].job.item)
    /\ Lockable(desk[d].job.item)

Done(d) == desk' = [desk EXCEPT ![d] = Idle]

\* The update and its audit row.
Write(d) ==
    /\ Ready(d, {"update", "void", "forceEnd", "restore", "mobileVoid", "mobileEdit"})
    /\ LET c == desk[d].job
           s == desk[d].seen
       IN  /\ row' = [row EXCEPT ![c.item] = OfficeRow(@, c, s)]
           /\ trail' = [trail EXCEPT ![c.item] = Append(@, OfficeMark(c, s))]
    /\ Done(d)
    /\ UNCHANGED <<now, used, lock, handler, inspections>>

\* deleteWorkItem asks inspection_records for a column they do not have
\* (workItemId; it is sourceWorkItemId) and swallows the error, so a record
\* still refers to the item and the foreign key refuses the delete.
Blocked(i) == inspections[i] > 0

Delete(d) ==
    /\ Ready(d, {"delete"})
    /\ LET i == desk[d].job.item IN
       /\ ~Blocked(i)
       /\ row' = [row EXCEPT ![i] = None]
       /\ trail' = [trail EXCEPT ![i] = <<>>]
    /\ Done(d)
    /\ UNCHANGED <<now, used, lock, handler, inspections>>

Inspect(d) ==
    /\ Ready(d, {"inspect", "batchInspect"})
    /\ LET i == desk[d].job.item IN
       /\ inspections[i] < MaxInspections
       /\ inspections' = [inspections EXCEPT ![i] = @ + 1]
    /\ Done(d)
    /\ UNCHANGED <<now, row, used, trail, lock, handler>>

\* The row is gone, the foreign key refuses, the instance dies, a time-out.
DeskFails(d) ==
    /\ AtDesk(d, "read")
    /\ Done(d)
    /\ UNCHANGED <<now, row, used, trail, lock, handler, inspections>>

\* createManualForAdmin: a finished work, registered afterwards.
Register(c) ==
    /\ c.op = "manual"
    /\ Registrable(c)
    /\ \E i \in Items \ used :
          /\ row' = [row EXCEPT ![i] =
                [status |-> "ENDED", key |-> None, startedAt |-> c.startedAt,
                 endedAt |-> c.endedAt, endedBy |-> c.by, starter |-> c.starter,
                 lead |-> c.starter, crew |-> {c.starter} \cup c.crew,
                 memo |-> c.memo, pauses |-> <<>>]]
          /\ used' = used \cup {i}
          /\ trail' = [trail EXCEPT ![i] =
                <<[action |-> "MANUAL_CREATE", actor |-> c.by, event |-> None]>>]
    /\ UNCHANGED <<now, lock, handler, desk, inspections>>

OfficeInit ==
    /\ Init
    /\ desk = [d \in Desks |-> Idle]
    /\ inspections = [i \in Items |-> 0]

FieldStep == Next /\ UNCHANGED <<desk, inspections>>

OfficeNext ==
    \/ FieldStep
    \/ \E c \in OfficeCalls : Register(c)
    \/ \E d \in Desks :
          \/ \E c \in OfficeCalls : Read(d, c)
          \/ Write(d)
          \/ Delete(d)
          \/ Inspect(d)
          \/ DeskFails(d)

OfficeSpec == OfficeInit /\ [][OfficeNext]_officeVars

-----------------------------------------------------------------------------
(* What must hold *)

StatusAfter(action) ==
    CASE action \in {"CREATE", "RESUME", "RESTORE"} -> "ACTIVE"
      [] action = "PAUSE"                           -> "PAUSED"
      [] action \in {"END", "MANUAL_CREATE"}        -> "ENDED"
      [] action = "VOID"                            -> "VOID"

\* The audit trail explains the row: whatever order field calls, office calls
\* and tablet edits commit in, the status is the one that the last audited
\* action other than an edit gave it, and the row names an end and who ended it
\* when it is ENDED, and nobody when it is open.
TrailTellsStatus ==
    \A i \in Items : Exists(i) =>
        /\ \E k \in DOMAIN trail[i] :
            /\ trail[i][k].action # "EDIT"
            /\ row[i].status = StatusAfter(trail[i][k].action)
            /\ \A j \in (k+1)..Len(trail[i]) : trail[i][j].action = "EDIT"
        /\ row[i].status = "ENDED" => row[i].endedAt # None /\ row[i].endedBy # None
        /\ row[i].status \in {"ACTIVE", "PAUSED"} => row[i].endedBy = None

Forward(r) == r.endedAt # None => r.startedAt <= r.endedAt

\* "단일 필드 수정도 기존 값과 비교 (역전 방지)": an edit of one time is compared with
\* the other one as the edit read it, field calls with what is recorded.  So an
\* item comes to end before it starts in two ways only: by an edit whose item got
\* other times between its read and its write, and by a forced end, which takes
\* the server's time as it is, of an item that starts later (a fast device's, or
\* one the office postponed).
SpanStaysForward ==
    [][\A i \in Items :
          Exists(i) /\ row'[i] # None /\ Forward(row[i]) /\ ~Forward(row'[i]) =>
             \E d \in Desks :
                /\ AtDesk(d, "read") /\ desk[d].job.item = i /\ desk'[d] = Idle
                /\ \/ /\ desk[d].job.op = "update"
                      /\ \/ desk[d].seen.startedAt # row[i].startedAt
                         \/ desk[d].seen.endedAt # row[i].endedAt
                   \/ desk[d].job.op = "forceEnd" /\ now < row[i].startedAt]_officeVars

\* "무효화된 작업은 수정할 수 없습니다": a voided item is not modified.
VoidIsFinal ==
    [][\A i \in Items :
          Exists(i) /\ row[i].status = "VOID" /\ row'[i] # None => row'[i] = row[i]]_officeVars

\* A tablet edit keeps the pause history: "중간마감 이력이면 이력을 보존".
PausesSurviveEdits ==
    [][\A d \in Desks :
          AtDesk(d, "read") /\ desk[d].job.op = "mobileEdit" /\ desk'[d] = Idle
              => LET i == desk[d].job.item
                 IN  Exists(i) => row'[i].pauses = row[i].pauses]_officeVars

\* Net work time leaves out the time an item is PAUSED, so an ACTIVE item has
\* no pause that still runs.
ActiveTimeCounts ==
    \A i \in Items : Exists(i) /\ row[i].status = "ACTIVE" =>
        LET p == row[i].pauses IN p = <<>> \/ p[Len(p)].until # None
=============================================================================
