------------------------------ MODULE Backups -------------------------------
(* The watch over the database backups: reports of the nightly job, the      *)
(* heartbeat stage of the subscription check (src/cron/cron.controller.ts,   *)
(* src/common/utils/backup-heartbeat.ts), and the requests of operators for  *)
(* a backup or a restore of one site                                         *)
(* (src/data-protection/data-protection.service.ts).                         *)
EXTENDS Rows, Integers

CONSTANTS
    Watchers,     \* concurrent executions
    Requests,     \* the kinds: a manual backup and a restore
    StaleAfter,   \* BACKUP_STALE_HOURS, in half days
    MaxHalfDay,   \* bound: half days of the calendar, from 0
    MaxTold,      \* bound: reports that are received
    MaxSent       \* bound: mails of a day, and rows of one kind of request

ASSUME BackupsAssumption ==
    /\ {StaleAfter, MaxHalfDay, MaxTold, MaxSent} \subseteq Nat
    \* a request is not a day
    /\ Requests \cap Nat = {}

VARIABLES
    halfDay,     \* the clock
    lastBackup,  \* completion of the latest successful backup, or None
    told,        \* reports received so far
    alertDays,   \* the days on which BACKUP_STALE_ALERT rows were created
    sent,        \* per day, warnings mailed; per kind of request, rows waiting
    excused,     \* the deeds that a missing or later row let through again
    watcher      \* what each execution is doing

backupVars == <<halfDay, lastBackup, told, alertDays, sent, excused, watcher>>

Day(t) == t \div 2

Days == 0..Day(MaxHalfDay)

Deeds == Days \cup Requests

Unoccupied == [pc |-> "idle", deed |-> None]

Occupied(w, pc, deed) == watcher' = [watcher EXCEPT ![w] = [pc |-> pc, deed |-> deed]]

LetGo(w) == watcher' = [watcher EXCEPT ![w] = Unoccupied]

Excuse(deed) == excused' = excused \cup {deed}

-----------------------------------------------------------------------------
(* Reports and the heartbeat *)

\* The job that ran the backup says when it ended, a day ago or now.
Report(ok, at) ==
    /\ told < MaxTold
    /\ at \in {halfDay, halfDay - 2} \cap Nat
    /\ told' = told + 1
    /\ lastBackup' = IF ok /\ (lastBackup = None \/ at > lastBackup) THEN at ELSE lastBackup
    /\ UNCHANGED <<halfDay, alertDays, sent, excused, watcher>>

Stale == lastBackup # None => halfDay - lastBackup > StaleAfter

\* now is taken once: the look-up and the mail are of its day.
Heartbeat(w) ==
    /\ watcher[w] = Unoccupied
    /\ Stale
    /\ Occupied(w, "stale", Day(halfDay))
    /\ UNCHANGED <<halfDay, lastBackup, told, alertDays, sent, excused>>

\* Mutant: the look-up starts from the day after.
WarnedLater(day) == \E d \in alertDays : d > day

\* createdAt >= kstDayStart(now): of the day, or of a later one.
Warned(day) == \E d \in alertDays : d >= day

\* What another execution is about to do, or to record, cannot be found.
Unseen(w, deed) == \E v \in Watchers \ {w} :
    watcher[v].pc \in {"clear", "mailed"} /\ watcher[v].deed = deed

LookUp(w, found) ==
    LET deed == watcher[w].deed IN
    IF found THEN LetGo(w) /\ UNCHANGED excused
    ELSE /\ Occupied(w, "clear", deed)
         /\ IF Unseen(w, deed) THEN Excuse(deed) ELSE UNCHANGED excused

LookUpAlert(w) ==
    /\ watcher[w].pc = "stale"
    /\ LookUp(w, Warned(watcher[w].deed))
    /\ UNCHANGED <<halfDay, lastBackup, told, alertDays, sent>>

\* sendMail does not throw; a warning that could not be sent leaves no record.
Warn(w, ok) ==
    /\ watcher[w].pc = "clear" /\ watcher[w].deed \notin Requests
    /\ sent[watcher[w].deed] < MaxSent
    /\ IF ok
       THEN /\ Occupied(w, "mailed", watcher[w].deed)
            /\ sent' = [sent EXCEPT ![watcher[w].deed] = @ + 1]
       ELSE LetGo(w) /\ UNCHANGED sent
    /\ UNCHANGED <<halfDay, lastBackup, told, alertDays, excused>>

\* The row carries the time of its insertion, not now.  Without a MASTER, or
\* when the insertion fails, there is none.
Record(w, ok) ==
    /\ watcher[w].pc = "mailed"
    /\ IF ok THEN alertDays' = alertDays \cup {Day(halfDay)} /\ UNCHANGED excused
       ELSE Excuse(watcher[w].deed) /\ UNCHANGED alertDays
    /\ LetGo(w)
    /\ UNCHANGED <<halfDay, lastBackup, told, sent>>

-----------------------------------------------------------------------------
(* Requests *)

\* A row that waits refuses a further request; nothing in this repository moves
\* it on.
AskRead(w, request) ==
    /\ watcher[w] = Unoccupied
    /\ sent[request] = 0
    /\ Occupied(w, "clear", request)
    /\ IF Unseen(w, request) THEN Excuse(request) ELSE UNCHANGED excused
    /\ UNCHANGED <<halfDay, lastBackup, told, alertDays, sent>>

AskStore(w) ==
    /\ watcher[w].pc = "clear" /\ watcher[w].deed \in Requests
    /\ sent[watcher[w].deed] < MaxSent
    /\ sent' = [sent EXCEPT ![watcher[w].deed] = @ + 1]
    /\ LetGo(w)
    /\ UNCHANGED <<halfDay, lastBackup, told, alertDays, excused>>

-----------------------------------------------------------------------------

\* The instance dies; if its mail is out, nobody will know.
WatcherDies(w) ==
    /\ watcher[w] # Unoccupied
    /\ IF watcher[w].pc = "mailed" THEN Excuse(watcher[w].deed) ELSE UNCHANGED excused
    /\ LetGo(w)
    /\ UNCHANGED <<halfDay, lastBackup, told, alertDays, sent>>

BackupTick ==
    /\ halfDay < MaxHalfDay
    /\ halfDay' = halfDay + 1
    /\ UNCHANGED <<lastBackup, told, alertDays, sent, excused, watcher>>

BackupsInit ==
    /\ halfDay = 0
    /\ lastBackup = None
    /\ told = 0
    /\ alertDays = {}
    /\ sent = [d \in Deeds |-> 0]
    /\ excused = {}
    /\ watcher = [w \in Watchers |-> Unoccupied]

BackupsNext ==
    \/ \E ok \in BOOLEAN, at \in 0..MaxHalfDay : Report(ok, at)
    \/ \E w \in Watchers :
        \/ Heartbeat(w) \/ LookUpAlert(w) \/ AskStore(w) \/ WatcherDies(w)
        \/ \E ok \in BOOLEAN : Warn(w, ok) \/ Record(w, ok)
        \/ \E request \in Requests : AskRead(w, request)
    \/ BackupTick

BackupsSpec == BackupsInit /\ [][BackupsNext]_backupVars

-----------------------------------------------------------------------------
(* Property *)

\* "하루 1회": one warning a day, and one request of a kind waiting.  A second one
\* needs an execution that looked while another was between its look-up and its
\* row, or a warning that left no row; a row written after midnight still counts
\* for the day before.
DoneOnce == \A deed \in Deeds : sent[deed] > 1 => deed \in excused
=============================================================================
