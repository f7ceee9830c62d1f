------------------------------- MODULE Billing -------------------------------
(* The subscription of one root site and its invoices                        *)
(* (src/subscriptions, src/invoices, the billing jobs of src/cron).          *)
(*                                                                           *)
(* Every request execution first reads and decides, then writes: nothing is  *)
(* locked in between and, but for checkOverdue, no write repeats the         *)
(* condition it was decided on.  An execution is an element of Execs; several *)
(* run at once, and each keeps what it has read.                             *)
EXTENDS Integers, Sequences, FiniteSetsExt

CONSTANTS
    Execs,      \* concurrent request executions
    MaxSubs,    \* bound: subscription rows ever created
    MaxCalls,   \* bound: executions ever begun
    LastDay,    \* bound: the calendar ends here
    TrialDays,  \* 14 days
    TermDays,   \* 30 days
    MonthDays,  \* a calendar month
    DueDays,    \* from the first of the month to the 15th
    GraceDays,  \* SUSPENDED_GRACE_DAYS
    NoticeDays, \* days before its end on which a row of a status is announced
    Retries,    \* attempts of an idempotent job
    None

Statuses == {"TRIAL", "ACTIVE", "PAST_DUE", "SUSPENDED", "CANCELLED", "EXPIRED"}

ASSUME CalendarAssumption ==
    /\ {TrialDays, TermDays, MonthDays, Retries} \subseteq Nat \ {0}
    /\ {MaxSubs, MaxCalls, LastDay, DueDays, GraceDays} \subseteq Nat
    /\ NoticeDays \in [{"TRIAL", "ACTIVE", "PAST_DUE"} -> SUBSET Nat]

\* What an execution may be doing.
Ops == {"START", "GRANT", "GRANTED", "ACTIVATE", "CANCEL", "PLAN", "TRANSITION", "CONSULT",
        "DEMOTE", "OVERDUES", "GENERATE", "ISSUE", "PAY", "VOID"}

ASSUME NoneAssumption == None \notin Int /\ None \notin Statuses /\ None \notin Ops

VARIABLES
    today,      \* the day
    sub,        \* subscriptions, numbered in the order of createdAt
    born,       \* how many have been created
    invoice,    \* invoices, by month and subscription: their number names both
    exec,       \* what each request execution is doing
    calls,      \* executions begun
    trials      \* startTrial calls that were granted, and the site's first trial

billingVars == <<today, sub, born, invoice, exec, calls, trials>>

-----------------------------------------------------------------------------
(* Rows *)

SubIds == 1..MaxSubs

SubRow == [status : Statuses, trialEnds : Nat \cup {None}, periodEnd : Nat]

MonthOf(day) == day \div MonthDays

Keys == (0..MonthOf(LastDay)) \X SubIds

DueDate(k) == k[1] * MonthDays + DueDays

\* issues and overdueMails count the times a row became ISSUED and the overdue
\* notices sent for it.
InvoiceRow == [status : {"DRAFT", "ISSUED", "PAID", "OVERDUE", "CANCELLED"},
               issues : Nat, overdueMails : Nat]

Subs == {i \in SubIds : sub[i] # None}

Invoices == {k \in Keys : invoice[k] # None}

ASSUME BillingRowAssumption == None \notin SubRow /\ None \notin InvoiceRow

\* findFirst({ where: { siteId }, orderBy: { createdAt: 'desc' } })
Latest == IF Subs = {} THEN None ELSE Max(Subs)

Billed(i) == \E k \in Invoices : k[2] = i

-----------------------------------------------------------------------------
(* The status machine *)

VALID_TRANSITIONS ==
    [s \in Statuses |->
        CASE s = "TRIAL"     -> {"ACTIVE", "CANCELLED", "EXPIRED"}
          [] s = "ACTIVE"    -> {"PAST_DUE", "CANCELLED"}
          [] s = "PAST_DUE"  -> {"ACTIVE", "SUSPENDED"}
          [] s = "SUSPENDED" -> {"ACTIVE", "CANCELLED"}
          [] OTHER           -> {}]

\* What makes a row due for an automatic transition.
Lapsed(r, to) ==
    CASE to = "EXPIRED"   -> r.status = "TRIAL" /\ r.trialEnds # None /\ r.trialEnds < today
      [] to = "PAST_DUE"  -> r.status = "ACTIVE" /\ r.periodEnd < today
      [] to = "SUSPENDED" -> r.status = "PAST_DUE" /\ r.periodEnd + GraceDays < today

AutoTargets == {"EXPIRED", "PAST_DUE", "SUSPENDED"}

-----------------------------------------------------------------------------
(* Executions *)

NoEnds == [i \in SubIds |-> None]

\* op: what is being done; on: the row; to: the status to write; end: the
\* period the row was read with; read: the row as its status was looked up;
\* todo: rows or invoices a scan has still to treat; ends: the periods of the
\* rows it listed; stage and tries: position and attempt of the daily job, 0
\* outside it; mails: end-of-term notices the job has sent.
Idle == [pc |-> "idle", op |-> None, on |-> None, to |-> None, end |-> None, read |-> None,
         todo |-> {}, ends |-> NoEnds, stage |-> 0, tries |-> 0, mails |-> 0]

Free(e) == exec[e].pc = "idle" /\ calls < MaxCalls

Begin == calls' = calls + 1

Deciding(e, op) == exec[e].pc = "decided" /\ exec[e].op = op

\* e has read what op asks for and is about to write.
Decide(e, op, on, to, end) ==
    exec' = [exec EXCEPT ![e].pc = "decided", ![e].op = op, ![e].on = on,
                         ![e].to = to, ![e].end = end]

\* A scan goes on with the rest of its list, any other call is over.
Done(e) ==
    exec' = [exec EXCEPT ![e] =
                IF exec[e].pc = "decided" /\ exec[e].op = "DEMOTE"
                THEN [@ EXCEPT !.pc = "scanning", !.on = None, !.end = None, !.read = None]
                ELSE Idle]

\* x has looked up row i, which it knows to end then, and is about to write.
Looked(x, i, end) ==
    [x EXCEPT !.pc = "decided", !.on = i, !.end = end, !.read = sub[i]]

Create(row) ==
    /\ born < MaxSubs
    /\ born' = born + 1
    /\ sub' = [sub EXCEPT ![born + 1] = row]

TrialRow == [status |-> "TRIAL", trialEnds |-> today + TrialDays,
             periodEnd |-> today + TrialDays]

PaidRow == [status |-> "ACTIVE", trialEnds |-> None,
            periodEnd |-> today + TermDays]

-----------------------------------------------------------------------------
(* Trials *)

Running == \E i \in Subs : sub[i].status \in {"ACTIVE", "TRIAL"}

\* startTrial's one-trial rule looks at what became of the earlier row.
TriedBefore ==
    \E i \in Subs : sub[i].status \in {"EXPIRED", "CANCELLED"} /\ sub[i].trialEnds # None

MayStartTrial == ~Running /\ ~TriedBefore

StartTrialRead(e) ==
    /\ Free(e)
    /\ Begin
    /\ MayStartTrial
    /\ Decide(e, "START", None, None, None)
    /\ UNCHANGED <<today, sub, born, invoice, trials>>

StartTrial(e) ==
    /\ Deciding(e, "START")
    /\ Create(TrialRow)
    /\ trials' = trials + 1
    /\ Done(e)
    /\ UNCHANGED <<today, invoice, calls>>

GrantTrialRead(e) ==
    /\ Free(e)
    /\ Begin
    /\ ~Running
    /\ Decide(e, "GRANT", None, None, None)
    /\ UNCHANGED <<today, sub, born, invoice, trials>>

\* grantTrial first deletes the rows that are over, in a statement of its own;
\* it fails if an invoice refers to one of them.
GrantTrialClear(e) ==
    /\ Deciding(e, "GRANT")
    /\ LET over == {i \in Subs : sub[i].status \in {"EXPIRED", "CANCELLED", "SUSPENDED"}} IN
       /\ \A i \in over : ~Billed(i)
       /\ sub' = [i \in SubIds |-> IF i \in over THEN None ELSE sub[i]]
    /\ Decide(e, "GRANTED", None, None, None)
    /\ UNCHANGED <<today, born, invoice, trials, calls>>

GrantTrial(e) ==
    /\ Deciding(e, "GRANTED")
    /\ Create(TrialRow)
    /\ Done(e)
    /\ UNCHANGED <<today, invoice, trials, calls>>

-----------------------------------------------------------------------------
(* Operator calls on the latest row *)

ActivateRead(e) ==
    /\ Free(e)
    /\ Begin
    /\ Latest # None
    /\ sub[Latest].status # "ACTIVE"
    /\ Decide(e, "ACTIVATE", Latest, "ACTIVE", None)
    /\ UNCHANGED <<today, sub, born, invoice, trials>>

\* An update of a row that is gone fails, and so does the call.
Activate(e) ==
    /\ Deciding(e, "ACTIVATE")
    /\ LET i == exec[e].on IN
       /\ sub[i] # None
       /\ sub' = [sub EXCEPT ![i].status = "ACTIVE",
                             ![i].periodEnd = today + TermDays]
    /\ Done(e)
    /\ UNCHANGED <<today, born, invoice, trials, calls>>

CancelRead(e) ==
    /\ Free(e)
    /\ Begin
    /\ Latest # None
    /\ sub[Latest].status # "CANCELLED"
    /\ Decide(e, "CANCEL", Latest, "CANCELLED", None)
    /\ UNCHANGED <<today, sub, born, invoice, trials>>

Cancel(e) ==
    /\ Deciding(e, "CANCEL")
    /\ LET i == exec[e].on IN
       /\ sub[i] # None
       /\ sub' = [sub EXCEPT ![i].status = "CANCELLED"]
    /\ Done(e)
    /\ UNCHANGED <<today, born, invoice, trials, calls>>

ChangePlanRead(e) ==
    /\ Free(e)
    /\ Begin
    /\ Decide(e, "PLAN", Latest, "ACTIVE", None)
    /\ UNCHANGED <<today, sub, born, invoice, trials>>

\* changePlan to a paid plan: the latest row is rewritten, trial end and all,
\* or a first one is created.
ChangePlan(e) ==
    /\ Deciding(e, "PLAN")
    /\ LET i == exec[e].on IN
       \/ /\ i = None
          /\ Create(PaidRow)
       \/ /\ i # None
          /\ sub[i] # None
          /\ sub' = [sub EXCEPT ![i] = PaidRow]
          /\ UNCHANGED born
    /\ Done(e)
    /\ UNCHANGED <<today, invoice, trials, calls>>

\* changePlan to FREE: one statement deletes every row, or none if an invoice
\* refers to one.
DropToFree ==
    /\ Subs # {}
    /\ \A i \in Subs : ~Billed(i)
    /\ sub' = [i \in SubIds |-> None]
    /\ UNCHANGED <<today, born, invoice, exec, trials, calls>>

\* transitionStatus, asked for by an operator: any row, any allowed target.
TransitionRead(e) ==
    /\ Free(e)
    /\ Begin
    /\ \E i \in Subs :
        \E to \in VALID_TRANSITIONS[sub[i].status] :
            Decide(e, "TRANSITION", i, to, None)
    /\ UNCHANGED <<today, sub, born, invoice, trials>>

Transition(e) ==
    /\ Deciding(e, "TRANSITION")
    /\ LET i == exec[e].on IN
       /\ sub[i] # None
       /\ sub' = [sub EXCEPT ![i].status = exec[e].to]
    /\ Done(e)
    /\ UNCHANGED <<today, born, invoice, trials, calls>>

\* checkSubscriptionStatus: whoever looks at the latest row moves it on.
Consult(e) ==
    /\ Free(e)
    /\ Begin
    /\ Latest # None
    /\ \E to \in AutoTargets :
        /\ Lapsed(sub[Latest], to)
        /\ to \in VALID_TRANSITIONS[sub[Latest].status]
        /\ exec' = [exec EXCEPT ![e] = Looked([@ EXCEPT !.op = "CONSULT", !.to = to],
                                              Latest, sub[Latest].periodEnd)]
    /\ UNCHANGED <<today, sub, born, invoice, trials>>

ConsultWrite(e) ==
    /\ Deciding(e, "CONSULT")
    /\ LET i == exec[e].on IN
       /\ sub[i] # None
       /\ sub' = [sub EXCEPT ![i].status = exec[e].to]
    /\ Done(e)
    /\ UNCHANGED <<today, born, invoice, trials, calls>>

-----------------------------------------------------------------------------
(* Scans *)

\* checkTrialExpirations, checkActivePastDue and checkPastDueSuspensions: the
\* list is read once.
Scan(e, to) ==
    LET list == {i \in Subs : Lapsed(sub[i], to)} IN
    exec' = [exec EXCEPT ![e].pc = "scanning", ![e].op = "DEMOTE", ![e].to = to,
                         ![e].todo = list,
                         ![e].ends = [i \in SubIds |-> IF i \in list THEN sub[i].periodEnd
                                                                     ELSE None]]

\* An operator's check-expirations runs two of them.
CheckExpirations(e) ==
    /\ Free(e)
    /\ Begin
    /\ \E to \in {"EXPIRED", "SUSPENDED"} : Scan(e, to)
    /\ UNCHANGED <<today, sub, born, invoice, trials>>

\* Mutant: the status is not looked up again.
StillAllowedUnasked(i, to) == sub[i] # None

StillAllowed(i, to) == sub[i] # None /\ to \in VALID_TRANSITIONS[sub[i].status]

\* transitionStatus for the next row: it is read again, and left alone if its
\* status no longer allows the transition.  The dates are not looked at again.
NextRow(e) ==
    /\ exec[e].pc = "scanning"
    /\ exec[e].op = "DEMOTE"
    /\ \E i \in exec[e].todo :
        LET rest == [exec[e] EXCEPT !.todo = @ \ {i}] IN
        exec' = [exec EXCEPT ![e] = IF StillAllowed(i, exec[e].to)
                                    THEN Looked(rest, i, exec[e].ends[i])
                                    ELSE rest]
    /\ UNCHANGED <<today, sub, born, invoice, trials, calls>>

Demote(e) ==
    /\ Deciding(e, "DEMOTE")
    /\ LET i == exec[e].on IN
       sub' = IF sub[i] # None THEN [sub EXCEPT ![i].status = exec[e].to] ELSE sub
    /\ Done(e)
    /\ UNCHANGED <<today, born, invoice, trials, calls>>

\* Mutant: the overdue scan does not repeat its condition.
StillIssuedForgotten(k) == TRUE

\* updateMany({ where: { id, status: 'ISSUED' } })
StillIssued(k) == invoice[k].status = "ISSUED"

\* checkOverdue treats the next invoice of its list: status and notice.
MarkOverdue(e) ==
    /\ exec[e].pc = "scanning"
    /\ exec[e].op = "OVERDUES"
    /\ \E k \in exec[e].todo :
        /\ invoice' = IF StillIssued(k)
                      THEN [invoice EXCEPT ![k].status = "OVERDUE", ![k].overdueMails = @ + 1]
                      ELSE invoice
        /\ exec' = [exec EXCEPT ![e].todo = @ \ {k}]
    /\ UNCHANGED <<today, sub, born, trials, calls>>

-----------------------------------------------------------------------------
(* The daily job *)

\* subscription-check, in order: the scans' targets, then invoices and mail.
Stages == <<"EXPIRED", "PAST_DUE", "SUSPENDED", "OVERDUES", "NOTIFY">>

Start(e, n, tries, mails) ==
    exec' = [exec EXCEPT ![e] = [Idle EXCEPT !.pc = "entering", !.stage = n,
                                             !.tries = tries, !.mails = mails]]

SubscriptionCheck(e) ==
    /\ Free(e)
    /\ Begin
    /\ Start(e, 1, 1, 0)
    /\ UNCHANGED <<today, sub, born, invoice, trials>>

\* The stage reads its list.
EnterStage(e) ==
    /\ exec[e].pc = "entering"
    /\ LET s == Stages[exec[e].stage] IN
       \/ s \in AutoTargets /\ Scan(e, s)
       \/ /\ s = "OVERDUES"
          /\ exec' = [exec EXCEPT ![e].pc = "scanning", ![e].op = "OVERDUES",
                        ![e].todo = {k \in Invoices : StillIssued(k) /\ DueDate(k) < today}]
    /\ UNCHANGED <<today, sub, born, invoice, trials, calls>>

\* Reading the list fails: runCronJob starts the whole job again, a few times.
StageFails(e) ==
    /\ exec[e].pc = "entering"
    /\ Stages[exec[e].stage] # "NOTIFY"
    /\ IF exec[e].tries < Retries
       THEN Start(e, 1, exec[e].tries + 1, exec[e].mails)
       ELSE exec' = [exec EXCEPT ![e] = Idle]
    /\ UNCHANGED <<today, sub, born, invoice, trials, calls>>

\* The end of a list; the job enters its next stage.
ScanEnds(e) ==
    /\ exec[e].pc = "scanning"
    /\ exec[e].todo = {}
    /\ IF exec[e].stage \in 1..(Len(Stages) - 1)
       THEN Start(e, exec[e].stage + 1, exec[e].tries, exec[e].mails)
       ELSE exec' = [exec EXCEPT ![e] = Idle]
    /\ UNCHANGED <<today, sub, born, invoice, trials, calls>>

\* The day a row is announced by.
EndOf(r) ==
    CASE r.status = "TRIAL"    -> r.trialEnds
      [] r.status = "ACTIVE"   -> r.periodEnd
      [] r.status = "PAST_DUE" -> r.periodEnd + GraceDays

Announced(r) ==
    /\ EndOf(r) # None
    /\ EndOf(r) - today \in NoticeDays[r.status]

\* notifyUpcomingExpirations: one mail for the site, about its latest row that
\* still runs.  It never throws; the mail may fail.
Notify(e) ==
    /\ exec[e].pc = "entering"
    /\ Stages[exec[e].stage] = "NOTIFY"
    /\ LET live == {i \in Subs : sub[i].status \in {"TRIAL", "ACTIVE", "PAST_DUE"}}
           due  == {j \in live : j = Max(live) /\ Announced(sub[j])}
       IN  \E sent \in 0..Cardinality(due) :
            LET mails == exec[e].mails + sent IN
            IF exec[e].stage = Len(Stages)
            THEN exec' = [exec EXCEPT ![e] = [Idle EXCEPT !.mails = mails]]
            ELSE Start(e, exec[e].stage + 1, exec[e].tries, mails)
    /\ UNCHANGED <<today, sub, born, invoice, trials, calls>>

-----------------------------------------------------------------------------
(* Invoices *)

\* generateMonthlyInvoices lists the ACTIVE rows, on the first of the month or
\* by hand; on is the month.
GenerateRead(e) ==
    /\ Free(e)
    /\ Begin
    /\ exec' = [exec EXCEPT ![e].pc = "scanning", ![e].op = "GENERATE",
                            ![e].on = MonthOf(today),
                            ![e].todo = {i \in Subs : sub[i].status = "ACTIVE"}]
    /\ UNCHANGED <<today, sub, born, invoice, trials>>

\* A number that exists is skipped, before the insertion or by the index; a
\* row that is gone fails the insertion.
Generate(e) ==
    /\ exec[e].pc = "scanning"
    /\ exec[e].op = "GENERATE"
    /\ \E i \in exec[e].todo :
        LET k == <<exec[e].on, i>> IN
        /\ invoice' = IF invoice[k] = None /\ sub[i] # None
                      THEN [invoice EXCEPT ![k] = [status |-> "ISSUED", issues |-> 1,
                                                   overdueMails |-> 0]]
                      ELSE invoice
        /\ exec' = [exec EXCEPT ![e].todo = @ \ {i}]
    /\ UNCHANGED <<today, sub, born, trials, calls>>

IssueRead(e) ==
    /\ Free(e)
    /\ Begin
    /\ \E k \in Invoices :
        /\ invoice[k].status = "DRAFT"
        /\ Decide(e, "ISSUE", k, None, None)
    /\ UNCHANGED <<today, sub, born, invoice, trials>>

Issue(e) ==
    /\ Deciding(e, "ISSUE")
    /\ LET k == exec[e].on IN
       /\ invoice' = [invoice EXCEPT ![k].status = "ISSUED", ![k].issues = @ + 1]
    /\ Done(e)
    /\ UNCHANGED <<today, sub, born, trials, calls>>

Payable(k) == invoice[k].status \notin {"PAID", "CANCELLED"}

PayRead(e) ==
    /\ Free(e)
    /\ Begin
    /\ \E k \in Invoices :
        /\ Payable(k)
        /\ Decide(e, "PAY", k, None, sub[k[2]].periodEnd)
    /\ UNCHANGED <<today, sub, born, invoice, trials>>

PaidUp(r, end) ==
    [r EXCEPT !.status = "ACTIVE", !.periodEnd = end + MonthDays]

\* markPaid's transaction: the invoice and its subscription.
Pay(e) ==
    /\ Deciding(e, "PAY")
    /\ LET k == exec[e].on
           i == k[2]
       IN  /\ invoice' = [invoice EXCEPT ![k].status = "PAID"]
           /\ sub' = [sub EXCEPT ![i] = PaidUp(@, exec[e].end)]
    /\ Done(e)
    /\ UNCHANGED <<today, born, trials, calls>>

Voidable(k) == invoice[k].status # "PAID"

VoidRead(e) ==
    /\ Free(e)
    /\ Begin
    /\ \E k \in Invoices :
        /\ Voidable(k)
        /\ Decide(e, "VOID", k, None, None)
    /\ UNCHANGED <<today, sub, born, invoice, trials>>

\* cancel
Void(e) ==
    /\ Deciding(e, "VOID")
    /\ LET k == exec[e].on IN
       /\ invoice' = [invoice EXCEPT ![k].status = "CANCELLED"]
    /\ Done(e)
    /\ UNCHANGED <<today, sub, born, trials, calls>>

-----------------------------------------------------------------------------

\* A call fails, or its instance dies, between its read and its write.
Fail(e) ==
    /\ exec[e].pc = "decided"
    /\ exec' = [exec EXCEPT ![e] = Idle]
    /\ UNCHANGED <<today, sub, born, invoice, trials, calls>>

Tick ==
    /\ today < LastDay
    /\ today' = today + 1
    /\ UNCHANGED <<sub, born, invoice, exec, trials, calls>>

\* A root site is created with a trial, unless the plan is missing; an invoice
\* of an earlier release may still be a DRAFT.
Init ==
    /\ today = 0
    /\ \/ born = 0 /\ sub = [i \in SubIds |-> None] /\ trials = 0
          /\ invoice = [k \in Keys |-> None]
       \/ born = 1 /\ sub = [i \in SubIds |-> IF i = 1 THEN TrialRow ELSE None] /\ trials = 1
          /\ invoice = [k \in Keys |-> None]
       \/ born = 1 /\ sub = [i \in SubIds |-> IF i = 1 THEN PaidRow ELSE None] /\ trials = 0
          /\ invoice = [k \in Keys |-> IF k = <<0, 1>>
                            THEN [status |-> "DRAFT", issues |-> 0, overdueMails |-> 0]
                            ELSE None]
    /\ exec = [e \in Execs |-> Idle]
    /\ calls = 0

TrialStep(e) == StartTrialRead(e) \/ StartTrial(e) \/ GrantTrialRead(e)
                \/ GrantTrialClear(e) \/ GrantTrial(e)

OperatorStep(e) == ActivateRead(e) \/ Activate(e) \/ CancelRead(e) \/ Cancel(e)
                   \/ ChangePlanRead(e) \/ ChangePlan(e) \/ TransitionRead(e)
                   \/ Transition(e) \/ Consult(e) \/ ConsultWrite(e)

JobStep(e) == CheckExpirations(e) \/ NextRow(e) \/ Demote(e) \/ MarkOverdue(e)
              \/ SubscriptionCheck(e) \/ EnterStage(e) \/ StageFails(e)
              \/ ScanEnds(e) \/ Notify(e)

InvoiceStep(e) == GenerateRead(e) \/ Generate(e) \/ IssueRead(e) \/ Issue(e)
                  \/ PayRead(e) \/ Pay(e) \/ VoidRead(e) \/ Void(e)

Next ==
    \/ Tick
    \/ DropToFree
    \/ \E e \in Execs :
        TrialStep(e) \/ OperatorStep(e) \/ JobStep(e) \/ InvoiceStep(e) \/ Fail(e)

Spec == Init /\ [][Next]_billingVars

-----------------------------------------------------------------------------
(* Properties *)

\* e takes a status away without being asked to by a person.
Demotes(e) ==
    /\ exec[e].pc = "decided" /\ exec[e].op \in {"DEMOTE", "CONSULT"}
    /\ exec'[e] # exec[e] /\ sub' # sub

\* What transitionStatus, asked by the three scans and by consultations, does
\* secure although it writes unconditionally: a trial is expired on a day after
\* its end and out of TRIAL, whatever lists the scans carry and whoever pays,
\* activates or changes plans meanwhile, unless the row was written between its
\* last look-up and the demotion; so are the others past due and suspended,
\* unless the period, which only the list was read for, was prolonged since.
DemotedOnTime ==
    [][\A e \in Execs : Demotes(e) =>
        LET r  == sub[exec[e].on]
            to == exec[e].to
        IN  \/ r # exec[e].read
            \/ to = "EXPIRED" /\ r.status = "TRIAL" /\ r.trialEnds < today
            \/ /\ to = "PAST_DUE" /\ r.status = "ACTIVE"
               /\ r.periodEnd < today \/ r.periodEnd # exec[e].end
            \/ /\ to = "SUSPENDED" /\ r.status = "PAST_DUE"
               /\ r.periodEnd + GraceDays < today \/ r.periodEnd # exec[e].end]_billingVars

\* Nobody is told twice: checkOverdue claims that a customer is told once of an
\* overdue invoice, and there is no more than one notice per issue, however many
\* jobs, retries of a job, payments and cancellations run at once;
\* subscription-check is retried as a whole, yet one run sends the site at most
\* one end-of-term notice.
ToldOnce ==
    /\ \A k \in Invoices : invoice[k].overdueMails <= invoice[k].issues
    /\ \A e \in Execs : exec[e].mails <= 1

\* "결제 완료된 인보이스는 취소할 수 없습니다": a paid invoice is not cancelled, nor
\* otherwise taken for unpaid again.
PaidStays ==
    [][\A k \in Invoices : invoice[k].status = "PAID" => invoice'[k].status = "PAID"]_billingVars

\* "무료 체험은 사업장당 1회만 가능합니다": a site gets one trial of its own.
TrialOncePerSite == trials <= 1
=============================================================================
