---------------------------- MODULE BillingProofs ----------------------------
(* Proofs about the subscription and its invoices, for any number of         *)
(* concurrent executions, rows, days and retries.                            *)
EXTENDS Billing, FiniteSetTheorems, WellFoundedInduction, TLAPS

-----------------------------------------------------------------------------
(* The invariant, and what a step may do *)

Objects == SubIds \cup Keys \cup Nat \cup {None}

ExecRow == [pc : {"idle", "decided", "scanning", "entering"}, op : Ops \cup {None},
            on : Objects, to : Statuses \cup {None}, end : Nat \cup {None},
            read : SubRow \cup {None}, todo : SUBSET (SubIds \cup Keys),
            ends : [SubIds -> Nat \cup {None}], stage : 0..5, tries : Nat, mails : 0..1]

\* Row i, listed with a period up to end, is due to be demoted to that status:
\* if it is still on trial, its trial is over.
Due(i, to, end) ==
    /\ i \in SubIds /\ i <= born
    /\ to = "EXPIRED" /\ sub[i] # None /\ sub[i].status = "TRIAL"
          => sub[i].trialEnds \in Nat /\ sub[i].trialEnds < today
    /\ to = "PAST_DUE" => end \in Nat /\ end < today
    /\ to = "SUSPENDED" => end \in Nat /\ end + GraceDays < today

\* The row, as it was looked up, was due to be demoted.
WasDue(x) ==
    /\ x.read \in SubRow /\ x.to \in VALID_TRANSITIONS[x.read.status]
    /\ x.to = "EXPIRED" => x.read.trialEnds \in Nat /\ x.read.trialEnds < today
    /\ x.to = "PAST_DUE" => x.end \in Nat /\ x.end < today
    /\ x.to = "SUSPENDED" => x.end \in Nat /\ x.end + GraceDays < today

\* What an execution carries can still be written: a demotion has its target and
\* rows that were due, an overdue list holds invoices, a payment has its invoice
\* and its period; and a job that goes on has sent no mail yet.
Fits(x) ==
    /\ x \in ExecRow
    /\ x.op \in {"DEMOTE", "CONSULT"} => x.to \in AutoTargets
    /\ x.op = "DEMOTE" => \A i \in x.todo : Due(i, x.to, x.ends[i])
    /\ x.pc = "decided" /\ x.op \in {"DEMOTE", "CONSULT"} => WasDue(x)
    /\ x.op = "TRANSITION" => x.to \in Statuses \ {"TRIAL"}
    /\ x.op = "OVERDUES" => x.todo \subseteq Invoices
    /\ x.op \in {"ISSUE", "PAY", "VOID"} => x.on \in Invoices
    /\ x.op = "PAY" => x.end \in Nat
    /\ x.pc = "entering" => x.stage # 0
    /\ x.stage # 0 => x.mails = 0

\* There is a notice to spare as long as the invoice is issued.
Counted(v) ==
    /\ v.overdueMails <= v.issues
    /\ v.status = "ISSUED" => v.overdueMails < v.issues

\* Inductive: types, what the executions carry, whose the invoices are, and how
\* many notices they had.
BillingInv ==
    /\ today \in Nat /\ born \in Nat
    /\ sub \in [SubIds -> SubRow \cup {None}]
    /\ \A i \in Subs : i <= born
    /\ invoice \in [Keys -> InvoiceRow \cup {None}]
    /\ exec \in [Execs -> ExecRow]
    /\ \A e \in Execs : Fits(exec[e])
    /\ \A k \in Invoices : sub[k[2]] # None
    /\ \A k \in Invoices : Counted(invoice[k])

\* What a step may do to a subscription: nobody goes back on trial,
RowMoves(i) ==
    \/ sub'[i] = sub[i]
    \/ sub'[i] = None /\ ~Billed(i)
    \/ /\ sub'[i] \in SubRow /\ i <= born'
       /\ sub'[i].status = "TRIAL" => born < i

\* to an invoice,
InvoiceMoves(k) ==
    \/ invoice'[k] = invoice[k]
    \/ /\ invoice'[k] \in InvoiceRow
       /\ Counted(invoice'[k])
       /\ invoice[k] = None => sub[k[2]] # None /\ sub' = sub

\* and to the executions.
ExecMoves(e) == \E x : Fits(x) /\ exec' = [exec EXCEPT ![e] = x]

Moves ==
    /\ today' \in Nat /\ today <= today' /\ born' \in Nat /\ born <= born'
    /\ exec' = exec \/ \E e \in Execs : ExecMoves(e)
    /\ sub' = [i \in SubIds |-> sub'[i]]
    /\ invoice' = [k \in Keys |-> invoice'[k]]
    /\ \A i \in SubIds : RowMoves(i)
    /\ \A k \in Keys : InvoiceMoves(k)

LEMMA InvoicesStay == BillingInv /\ Moves => Invoices \subseteq Invoices'
BY BillingRowAssumption DEF BillingInv, Moves, InvoiceMoves, Invoices

LEMMA DueStays ==
    ASSUME BillingInv, Moves, NEW i, NEW to, NEW end, Due(i, to, end)
    PROVE  Due(i, to, end)'
<1>1. i \in SubIds /\ i \in Int /\ i <= born /\ i <= born'
  BY DEF Due, Moves, BillingInv, SubIds
<1>2. ASSUME to = "EXPIRED", sub'[i] # None, sub'[i].status = "TRIAL"
      PROVE  sub'[i].trialEnds \in Nat /\ sub'[i].trialEnds < today'
  <2>1. born \in Nat /\ ~ (born < i)
    BY <1>1 DEF BillingInv
  <2>2. sub'[i] = sub[i]
    BY <1>1, <1>2, <2>1 DEF Moves, RowMoves
  <2>3. sub[i].trialEnds \in Nat /\ sub[i].trialEnds < today
    BY <1>2, <2>2 DEF Due
  <2> QED
    BY <2>2, <2>3 DEF Moves, BillingInv
<1>3. \A n \in Nat : n < today => n < today'
  BY DEF Moves, BillingInv
<1>4. \A n \in Nat : n + GraceDays < today => n + GraceDays < today'
  BY CalendarAssumption DEF Moves, BillingInv
<1> QED
  BY <1>1, <1>2, <1>3, <1>4 DEF Due

LEMMA WasDueStays ==
    ASSUME BillingInv, Moves, NEW x, WasDue(x)
    PROVE  WasDue(x)'
<1>1. \A n \in Nat : n < today => n < today'
  BY DEF Moves, BillingInv
<1>2. \A n \in Nat : n + GraceDays < today => n + GraceDays < today'
  BY CalendarAssumption DEF Moves, BillingInv
<1> QED
  BY <1>1, <1>2 DEF WasDue

LEMMA MovesKeep == BillingInv /\ Moves => BillingInv'
<1> SUFFICES ASSUME BillingInv, Moves PROVE BillingInv'
  OBVIOUS
<1>0. /\ None \notin SubRow /\ None \notin InvoiceRow
      /\ \A k \in Keys : k[2] \in SubIds
      /\ Invoices \subseteq Keys /\ Subs \subseteq SubIds
  BY BillingRowAssumption DEF Keys, Invoices, Subs
<1>1. today' \in Nat /\ born' \in Nat
  BY DEF Moves
<1>2. sub' \in [SubIds -> SubRow \cup {None}]
  <2>1. ASSUME NEW i \in SubIds PROVE sub'[i] \in SubRow \cup {None}
    BY DEF BillingInv, Moves, RowMoves
  <2> QED
    BY <2>1 DEF Moves
<1>3. invoice' \in [Keys -> InvoiceRow \cup {None}]
  <2>1. ASSUME NEW k \in Keys PROVE invoice'[k] \in InvoiceRow \cup {None}
    BY DEF BillingInv, Moves, InvoiceMoves
  <2> QED
    BY <2>1 DEF Moves
<1>4. \A x : Fits(x) => x \in ExecRow /\ Fits(x)'
  BY InvoicesStay, DueStays, WasDueStays DEF Fits
<1>5. exec' \in [Execs -> ExecRow] /\ \A e \in Execs : Fits(exec[e])'
  <2>1. CASE exec' = exec
    BY <1>4, <2>1 DEF BillingInv
  <2>2. ASSUME NEW e \in Execs, NEW x, Fits(x), exec' = [exec EXCEPT ![e] = x]
        PROVE  exec' \in [Execs -> ExecRow] /\ \A d \in Execs : Fits(exec[d])'
    <3>1. exec' \in [Execs -> ExecRow] /\ \A d \in Execs : exec'[d] = x \/ exec'[d] = exec[d]
      BY <1>4, <2>2 DEF BillingInv
    <3>2. ASSUME NEW d \in Execs PROVE Fits(exec[d])'
      <4>1. PICK y : y = exec'[d] /\ Fits(y)
        BY <2>2, <3>1 DEF BillingInv
      <4>2. Fits(y)'
        BY <1>4, <4>1
      <4> QED
        BY <4>1, <4>2 DEF Fits
    <3> QED
      BY <3>1, <3>2
  <2> QED
    BY <2>1, <2>2 DEF Moves, ExecMoves
<1>6. ASSUME NEW k \in Invoices' PROVE sub'[k[2]] # None
  <2>1. k \in Keys /\ k[2] \in SubIds
    BY <1>0 DEF Invoices
  <2>2. CASE k \in Invoices
    <3>1. sub[k[2]] # None /\ Billed(k[2])
      BY <2>2 DEF BillingInv, Billed
    <3> QED
      BY <1>0, <2>1, <3>1 DEF Moves, RowMoves
  <2>3. CASE k \notin Invoices
    BY <2>1, <2>3 DEF Moves, InvoiceMoves, Invoices
  <2> QED
    BY <2>2, <2>3
<1>7. ASSUME NEW k \in Invoices' PROVE Counted(invoice[k])'
  <2>1. k \in Keys
    BY DEF Invoices
  <2>2. CASE invoice'[k] = invoice[k]
    BY <2>1, <2>2 DEF BillingInv, Invoices, Counted
  <2>3. CASE invoice'[k] # invoice[k]
    BY <2>1, <2>3 DEF Moves, InvoiceMoves, Counted
  <2> QED
    BY <2>2, <2>3
<1>8. ASSUME NEW i \in Subs' PROVE i <= born'
  <2>1. i \in SubIds /\ sub'[i] # None /\ i \in Int
    BY DEF Subs, SubIds
  <2>2. CASE sub'[i] = sub[i]
    <3>1. i <= born
      BY <2>1, <2>2 DEF Subs, BillingInv
    <3> QED
      BY <2>1, <3>1 DEF Moves, BillingInv
  <2> QED
    BY <2>1, <2>2 DEF Moves, RowMoves
<1> QED
  BY <1>1, <1>2, <1>3, <1>5, <1>6, <1>7, <1>8 DEF BillingInv

-----------------------------------------------------------------------------
(* Steps *)

LEMMA NoEndsType == NoEnds \in [SubIds -> Nat \cup {None}]
BY DEF NoEnds

LEMMA IdleFits == Fits(Idle)
<1>1. Idle \in ExecRow
  <2>1. PICK x : x = [pc |-> "idle", op |-> None, on |-> None, to |-> None, end |-> None,
                      read |-> None, todo |-> {}, ends |-> NoEnds, stage |-> 0,
                      tries |-> 0, mails |-> 0]
    OBVIOUS
  <2>2. x \in ExecRow
    BY <2>1, NoEndsType DEF ExecRow, Objects
  <2> QED
    BY <2>1, <2>2 DEF Idle
<1> QED
  BY <1>1, NoneAssumption DEF Fits, Idle, Ops

LEMMA Decides ==
    ASSUME BillingInv, NEW e \in Execs, NEW op \in Ops, NEW on \in Objects,
           NEW to \in Statuses \cup {None}, NEW end \in Nat \cup {None},
           Decide(e, op, on, to, end), exec[e].pc # "entering",
           op \notin {"DEMOTE", "CONSULT", "OVERDUES"},
           op = "TRANSITION" => to \in Statuses \ {"TRIAL"},
           op \in {"ISSUE", "PAY", "VOID"} => on \in Invoices,
           op = "PAY" => end \in Nat
    PROVE  ExecMoves(e)
<1>1. exec \in [Execs -> ExecRow]
  BY DEF BillingInv
<1>2. PICK y \in ExecRow : y = exec[e] /\ Fits(y)
  BY DEF BillingInv
<1>3. PICK x : x = [y EXCEPT !.pc = "decided", !.op = op, !.on = on, !.to = to, !.end = end]
  OBVIOUS
<1>4. x = [pc |-> "decided", op |-> op, on |-> on, to |-> to, end |-> end, read |-> y.read,
           todo |-> y.todo, ends |-> y.ends, stage |-> y.stage, tries |-> y.tries,
           mails |-> y.mails]
  BY <1>3 DEF ExecRow
<1>5. exec' = [exec EXCEPT ![e] = [exec[e] EXCEPT !.pc = "decided", !.op = op, !.on = on,
                                                  !.to = to, !.end = end]]
  BY <1>1 DEF Decide, ExecRow
<1>6. x \in ExecRow
  BY <1>4 DEF ExecRow
<1>7. Fits(x)
  BY <1>2, <1>4, <1>6 DEF Fits
<1> QED
  BY <1>2, <1>3, <1>5, <1>7 DEF ExecMoves

LEMMA Ends ==
    ASSUME BillingInv, NEW e \in Execs, Done(e)
    PROVE  ExecMoves(e)
<1>1. CASE exec[e].pc = "decided" /\ exec[e].op = "DEMOTE"
  <2>1. PICK y \in ExecRow : y = exec[e] /\ Fits(y)
    BY DEF BillingInv
  <2>2. PICK x : x = [y EXCEPT !.pc = "scanning", !.on = None, !.end = None, !.read = None]
    OBVIOUS
  <2>3. x = [pc |-> "scanning", op |-> y.op, on |-> None, to |-> y.to, end |-> None,
             read |-> None, todo |-> y.todo, ends |-> y.ends, stage |-> y.stage,
             tries |-> y.tries, mails |-> y.mails]
    BY <2>2 DEF ExecRow
  <2>4. exec' = [exec EXCEPT ![e] = [exec[e] EXCEPT !.pc = "scanning", !.on = None,
                                                    !.end = None, !.read = None]]
    BY <1>1 DEF Done
  <2>5. x \in ExecRow
    BY <2>3 DEF ExecRow, Objects
  <2>6. Fits(x)
    BY <1>1, <2>1, <2>3, <2>5 DEF Fits
  <2> QED
    BY <2>1, <2>2, <2>4, <2>6 DEF ExecMoves
<1>2. CASE ~(exec[e].pc = "decided" /\ exec[e].op = "DEMOTE")
  BY <1>2, IdleFits DEF Done, ExecMoves
<1> QED
  BY <1>1, <1>2

LEMMA Starts ==
    ASSUME BillingInv, NEW e \in Execs, NEW n \in 1..5, NEW tries \in Nat, Start(e, n, tries, 0)
    PROVE  ExecMoves(e)
<1>1. PICK y : y = Idle
  OBVIOUS
<1>2. PICK x : x = [y EXCEPT !.pc = "entering", !.stage = n, !.tries = tries, !.mails = 0]
  OBVIOUS
<1>3. x = [pc |-> "entering", op |-> None, on |-> None, to |-> None, end |-> None,
           read |-> None, todo |-> {}, ends |-> NoEnds, stage |-> n, tries |-> tries,
           mails |-> 0]
  BY <1>1, <1>2 DEF Idle
<1>4. x \in ExecRow
  BY <1>3, NoEndsType DEF ExecRow, Objects
<1>5. Fits(x)
  BY <1>3, <1>4, NoneAssumption DEF Fits, Ops
<1> QED
  BY <1>1, <1>2, <1>5 DEF ExecMoves, Start

LEMMA Scans ==
    ASSUME BillingInv, NEW e \in Execs, NEW to \in AutoTargets, Scan(e, to)
    PROVE  ExecMoves(e)
<1>1. exec \in [Execs -> ExecRow]
  BY DEF BillingInv
<1>2. PICK y \in ExecRow : y = exec[e] /\ Fits(y)
  BY DEF BillingInv
<1>3. PICK todo : todo = {i \in Subs : Lapsed(sub[i], to)}
  OBVIOUS
<1>4. PICK ends : ends = [i \in SubIds |-> IF i \in todo THEN sub[i].periodEnd ELSE None]
  OBVIOUS
<1>5. todo \subseteq SubIds /\ \A i \in todo : sub[i] \in SubRow /\ ends[i] = sub[i].periodEnd
  BY <1>3, <1>4 DEF Subs, BillingInv
<1>6. ends \in [SubIds -> Nat \cup {None}]
  BY <1>4, <1>5 DEF SubRow
<1>7. PICK x : x = [y EXCEPT !.pc = "scanning", !.op = "DEMOTE", !.to = to, !.todo = todo,
                             !.ends = ends]
  OBVIOUS
<1>8. x = [pc |-> "scanning", op |-> "DEMOTE", on |-> y.on, to |-> to, end |-> y.end,
           read |-> y.read, todo |-> todo, ends |-> ends, stage |-> y.stage, tries |-> y.tries,
           mails |-> y.mails]
  BY <1>7 DEF ExecRow
<1>9. exec' = [exec EXCEPT ![e] = [exec[e] EXCEPT !.pc = "scanning", !.op = "DEMOTE",
                                                  !.to = to, !.todo = todo, !.ends = ends]]
  BY <1>1, <1>3, <1>4 DEF Scan, ExecRow
<1>10. x \in ExecRow
  BY <1>5, <1>6, <1>8 DEF ExecRow, Ops, Statuses, AutoTargets
<1>11. ASSUME NEW i \in todo PROVE Due(i, to, ends[i])
  <2>1. i \in SubIds /\ i <= born /\ sub[i] \in SubRow /\ Lapsed(sub[i], to)
    BY <1>3, <1>5 DEF BillingInv
  <2> QED
    BY <1>5, <2>1 DEF Due, Lapsed, SubRow, AutoTargets
<1>12. Fits(x)
  BY <1>2, <1>8, <1>10, <1>11 DEF Fits
<1> QED
  BY <1>2, <1>7, <1>9, <1>12 DEF ExecMoves

\* Looking a row up that is due, or was when it was listed.
LEMMA Looks ==
    ASSUME BillingInv, NEW e \in Execs, NEW y \in ExecRow, NEW i, NEW end,
           y.op \in {"DEMOTE", "CONSULT"}, y.to \in AutoTargets,
           y.op = "DEMOTE" => \A j \in y.todo : Due(j, y.to, y.ends[j]),
           y.stage # 0 => y.mails = 0,
           Due(i, y.to, end), end \in Nat \cup {None}, StillAllowed(i, y.to)
    PROVE  Fits(Looked(y, i, end))
<1>1. sub[i] \in SubRow
  BY DEF Due, StillAllowed, BillingInv
<1>2. PICK r \in SubRow : r = sub[i]
  BY <1>1
<1>3. PICK x : x = [y EXCEPT !.pc = "decided", !.on = i, !.end = end, !.read = r]
  OBVIOUS
<1>4. x = [pc |-> "decided", op |-> y.op, on |-> i, to |-> y.to, end |-> end, read |-> r,
           todo |-> y.todo, ends |-> y.ends, stage |-> y.stage, tries |-> y.tries,
           mails |-> y.mails]
  BY <1>3 DEF ExecRow
<1>5. x \in ExecRow
  BY <1>4 DEF ExecRow, Objects, Due
<1>6. r.status = "TRIAL" \/ y.to # "EXPIRED"
  BY <1>2 DEF StillAllowed, VALID_TRANSITIONS, SubRow
<1>7. WasDue(x)
  BY <1>2, <1>4, <1>6 DEF WasDue, Due, StillAllowed
<1>8. Fits(x)
  BY <1>4, <1>5, <1>7 DEF Fits
<1> QED
  BY <1>2, <1>3, <1>8 DEF Looked

\* A step of one execution that writes neither row nor invoice.
LEMMA OnlyMoves ==
    ASSUME BillingInv, NEW e \in Execs, ExecMoves(e),
           UNCHANGED <<today, sub, born, invoice>>
    PROVE  Moves
<1>1. /\ today \in Nat /\ born \in Nat
      /\ sub = [i \in SubIds |-> sub[i]] /\ invoice = [k \in Keys |-> invoice[k]]
  BY DEF BillingInv
<1> QED
  BY <1>1 DEF Moves, RowMoves, InvoiceMoves

\* A step that writes one subscription and no invoice.
LEMMA RowWritten ==
    ASSUME BillingInv, NEW e \in Execs, ExecMoves(e), UNCHANGED <<today, invoice>>,
           born' \in Nat, born <= born',
           NEW i, NEW r, sub' = [sub EXCEPT ![i] = r],
           i \in SubIds => r \in SubRow /\ i <= born' /\ (r.status = "TRIAL" => born < i)
    PROVE  Moves
<1>1. /\ today \in Nat /\ sub = [j \in SubIds |-> sub[j]] /\ invoice = [k \in Keys |-> invoice[k]]
  BY DEF BillingInv
<1>2. ASSUME NEW j \in SubIds PROVE RowMoves(j)
  <2>1. sub'[j] = sub[j] \/ (j = i /\ sub'[j] = r)
    BY <1>1
  <2> QED
    BY <2>1 DEF RowMoves, Subs
<1>3. \A k \in Keys : InvoiceMoves(k)
  BY DEF InvoiceMoves
<1>4. sub' = [j \in SubIds |-> sub'[j]]
  BY <1>1
<1> QED
  BY <1>1, <1>2, <1>3, <1>4 DEF Moves

\* A step that writes one invoice and no subscription.
LEMMA InvoiceWritten ==
    ASSUME BillingInv, NEW e \in Execs, ExecMoves(e), UNCHANGED <<today, sub, born>>,
           NEW k, NEW v \in InvoiceRow, invoice' = [invoice EXCEPT ![k] = v],
           Counted(v), k \in Keys /\ invoice[k] = None => sub[k[2]] # None
    PROVE  Moves
<1>1. /\ today \in Nat /\ born \in Nat
      /\ sub = [j \in SubIds |-> sub[j]] /\ invoice = [j \in Keys |-> invoice[j]]
  BY DEF BillingInv
<1>2. ASSUME NEW j \in Keys PROVE InvoiceMoves(j)
  <2>1. invoice'[j] = invoice[j] \/ (j = k /\ invoice'[j] = v)
    BY <1>1
  <2> QED
    BY <2>1 DEF InvoiceMoves, Invoices
<1>3. \A i \in SubIds : RowMoves(i)
  BY DEF RowMoves
<1>4. invoice' = [j \in Keys |-> invoice'[j]]
  BY <1>1
<1> QED
  BY <1>1, <1>2, <1>3, <1>4 DEF Moves

\* Nothing leads back to a trial.
LEMMA NeverOnTrialAgain ==
    ASSUME NEW s \in Statuses, NEW to \in VALID_TRANSITIONS[s]
    PROVE  to \in Statuses \ {"TRIAL"}
BY DEF Statuses, VALID_TRANSITIONS

\* A step that writes the status of a subscription.
LEMMA StatusWritten ==
    ASSUME BillingInv, NEW e \in Execs, ExecMoves(e), UNCHANGED <<today, invoice, born>>,
           NEW i, NEW to \in Statuses \ {"TRIAL"}, sub[i] # None,
           sub' = [sub EXCEPT ![i].status = to]
    PROVE  Moves
<1>1. sub \in [SubIds -> SubRow \cup {None}] /\ today \in Nat /\ born \in Nat
  BY DEF BillingInv
<1>b. born' \in Nat /\ born <= born'
  BY <1>1
<1>2. CASE i \notin SubIds
  <2>1. sub' = [sub EXCEPT ![i] = None]
    BY <1>1, <1>2
  <2> QED
    BY <1>b, <1>2, <2>1, RowWritten
<1>3. CASE i \in SubIds
  <2>1. PICK y \in SubRow : y = sub[i]
    BY <1>1, <1>3
  <2>2. PICK r : r = [y EXCEPT !.status = to]
    OBVIOUS
  <2>3. r = [status |-> to, trialEnds |-> y.trialEnds, periodEnd |-> y.periodEnd]
    BY <2>2 DEF SubRow
  <2>4. sub' = [sub EXCEPT ![i] = [sub[i] EXCEPT !.status = to]]
    BY <1>1, <1>3, <2>1 DEF SubRow
  <2>5. r \in SubRow /\ i <= born' /\ r.status # "TRIAL"
    BY <1>3, <2>3 DEF SubRow, Subs, BillingInv
  <2>6. sub' = [sub EXCEPT ![i] = r]
    BY <2>1, <2>2, <2>4
  <2> QED
    BY <1>b, <2>5, <2>6, RowWritten
<1> QED
  BY <1>2, <1>3

LEMMA LatestIsASub == Latest \in Objects /\ (Latest # None => Latest \in Subs)
<1>1. CASE Subs = {}
  BY <1>1 DEF Latest, Objects
<1>2. CASE Subs # {}
  <2>1. MaxSubs \in Nat /\ \A i \in Subs : i \in 1..MaxSubs
    BY CalendarAssumption DEF Subs, SubIds
  <2>2. PICK T : T = {MaxSubs - i : i \in Subs}
    OBVIOUS
  <2>3. T \subseteq Nat /\ T # {}
    BY <1>2, <2>1, <2>2
  <2>4. PICK x \in T : \A y \in T : ~ (<<y, x>> \in OpToRel(<, Nat))
    BY <2>3, WFMin, NatLessThanWellFounded
  <2>5. \A y \in T : ~ (y < x)
    BY <2>3, <2>4 DEF OpToRel
  <2>6. PICK i \in Subs : x = MaxSubs - i
    BY <2>2, <2>4
  <2>7. \A j \in Subs : i >= j
    BY <2>1, <2>2, <2>5, <2>6
  <2>8. Max(Subs) \in Subs
    BY <2>7 DEF Max
  <2> QED
    BY <1>2, <2>8 DEF Latest, Objects, Subs
<1> QED
  BY <1>1, <1>2

LEMMA TrialStepMoves ==
    ASSUME BillingInv, NEW e \in Execs, TrialStep(e)
    PROVE  Moves
<1>0. /\ today \in Nat /\ born \in Nat
      /\ sub \in [SubIds -> SubRow \cup {None}] /\ exec[e] \in ExecRow
      /\ None \in Objects /\ None \in Statuses \cup {None} /\ None \in Nat \cup {None}
      /\ {"START", "GRANT", "GRANTED"} \subseteq Ops
  BY DEF BillingInv, Objects, Ops
<1>1. TrialRow \in SubRow
  BY <1>0, CalendarAssumption DEF TrialRow, SubRow, Statuses
<1>3. CASE StartTrialRead(e)
  <2>1. ExecMoves(e)
    BY <1>0, <1>3, Decides DEF StartTrialRead, Free
  <2> QED
    BY <1>3, <2>1, OnlyMoves DEF StartTrialRead
<1>4. CASE GrantTrialRead(e)
  <2>1. ExecMoves(e)
    BY <1>0, <1>4, Decides DEF GrantTrialRead, Free
  <2> QED
    BY <1>4, <2>1, OnlyMoves DEF GrantTrialRead
<1>5. CASE StartTrial(e) \/ GrantTrial(e)
  <2>1. ExecMoves(e)
    BY <1>5, Ends DEF StartTrial, GrantTrial
  <2>2. /\ born' = born + 1 /\ born < MaxSubs /\ UNCHANGED <<today, invoice>>
        /\ sub' = [sub EXCEPT ![born + 1] = TrialRow]
    BY <1>5 DEF StartTrial, GrantTrial, Create
  <2>3. born' \in Nat /\ born <= born' /\ born + 1 <= born' /\ born < born + 1
    BY <1>0, <2>2
  <2> QED
    BY <1>1, <2>1, <2>2, <2>3, RowWritten
<1>6. CASE GrantTrialClear(e)
  <2>1. ExecMoves(e)
    BY <1>0, <1>6, Decides DEF GrantTrialClear, Deciding
  <2>2. PICK over : /\ \A i \in over : ~Billed(i)
                    /\ sub' = [i \in SubIds |-> IF i \in over THEN None ELSE sub[i]]
    BY <1>6 DEF GrantTrialClear
  <2>3. \A i \in SubIds : RowMoves(i)
    BY <2>2 DEF RowMoves
  <2>4. UNCHANGED <<today, born, invoice>>
    BY <1>6 DEF GrantTrialClear
  <2>5. sub' = [i \in SubIds |-> sub'[i]]
    BY <2>2
  <2>6. \A k \in Keys : InvoiceMoves(k)
    BY <2>4 DEF InvoiceMoves
  <2>7. invoice = [k \in Keys |-> invoice[k]]
    BY DEF BillingInv
  <2> QED
    BY <1>0, <2>1, <2>3, <2>4, <2>5, <2>6, <2>7 DEF Moves
<1> QED
  BY <1>3, <1>4, <1>5, <1>6 DEF TrialStep

LEMMA OperatorReadMoves ==
    ASSUME BillingInv, NEW e \in Execs,
           \/ ActivateRead(e) \/ CancelRead(e) \/ ChangePlanRead(e)
           \/ TransitionRead(e) \/ Consult(e)
    PROVE  Moves
<1>0. /\ None \in Nat \cup {None} /\ Latest \in Objects
      /\ {"ACTIVATE", "CANCEL", "PLAN", "TRANSITION", "CONSULT"} \subseteq Ops
      /\ {"ACTIVE", "CANCELLED"} \subseteq Statuses \cup {None}
      /\ AutoTargets \subseteq Statuses
  BY LatestIsASub DEF Ops, Statuses, AutoTargets
<1>1. exec[e].pc = "idle" /\ UNCHANGED <<today, sub, born, invoice>>
  BY DEF ActivateRead, CancelRead, ChangePlanRead, TransitionRead, Consult, Free
<1>2. CASE ActivateRead(e)
  <2>1. ExecMoves(e)
    BY <1>0, <1>1, <1>2, Decides DEF ActivateRead
  <2> QED
    BY <1>1, <2>1, OnlyMoves
<1>3. CASE CancelRead(e)
  <2>1. ExecMoves(e)
    BY <1>0, <1>1, <1>3, Decides DEF CancelRead
  <2> QED
    BY <1>1, <2>1, OnlyMoves
<1>4. CASE ChangePlanRead(e)
  <2>1. ExecMoves(e)
    BY <1>0, <1>1, <1>4, Decides DEF ChangePlanRead
  <2> QED
    BY <1>1, <2>1, OnlyMoves
<1>5. CASE TransitionRead(e)
  <2>1. PICK i \in Subs : \E to \in VALID_TRANSITIONS[sub[i].status] :
            Decide(e, "TRANSITION", i, to, None)
    BY <1>5 DEF TransitionRead
  <2>2. PICK to \in VALID_TRANSITIONS[sub[i].status] : Decide(e, "TRANSITION", i, to, None)
    BY <2>1
  <2>3. i \in Objects /\ sub[i].status \in Statuses
    BY DEF Subs, Objects, BillingInv, SubRow
  <2>4. to \in Statuses \ {"TRIAL"}
    BY <2>3, NeverOnTrialAgain
  <2>5. ExecMoves(e)
    BY <1>0, <1>1, <2>2, <2>3, <2>4, Decides
  <2> QED
    BY <1>1, <2>5, OnlyMoves
<1>6. CASE Consult(e)
  <2>1. PICK to \in AutoTargets :
          /\ Latest # None /\ Lapsed(sub[Latest], to)
          /\ to \in VALID_TRANSITIONS[sub[Latest].status]
          /\ exec' = [exec EXCEPT ![e] = Looked([@ EXCEPT !.op = "CONSULT", !.to = to],
                                                Latest, sub[Latest].periodEnd)]
    BY <1>6 DEF Consult
  <2>2. PICK i \in Subs : i = Latest
    BY <2>1, LatestIsASub
  <2>3. i \in SubIds /\ i <= born /\ sub[i] \in SubRow /\ StillAllowed(i, to)
    BY <2>1, <2>2 DEF Subs, BillingInv, StillAllowed
  <2>4. PICK end \in Nat : end = sub[i].periodEnd
    BY <2>3 DEF SubRow
  <2>5. Due(i, to, end)
    BY <2>1, <2>2, <2>3, <2>4 DEF Due, Lapsed, SubRow, AutoTargets
  <2>6. PICK y \in ExecRow : y = exec[e] /\ Fits(y)
    BY DEF BillingInv
  <2>7. PICK z : z = [y EXCEPT !.op = "CONSULT", !.to = to]
    OBVIOUS
  <2>8. z = [pc |-> y.pc, op |-> "CONSULT", on |-> y.on, to |-> to, end |-> y.end,
             read |-> y.read, todo |-> y.todo, ends |-> y.ends, stage |-> y.stage,
             tries |-> y.tries, mails |-> y.mails]
    BY <2>7 DEF ExecRow
  <2>9. z \in ExecRow /\ (z.stage # 0 => z.mails = 0)
    BY <1>0, <2>6, <2>8 DEF ExecRow, Fits
  <2>10. Fits(Looked(z, i, end))
    BY <2>3, <2>4, <2>5, <2>8, <2>9, Looks
  <2>11. exec' = [exec EXCEPT ![e] = Looked(z, i, end)]
    BY <2>1, <2>2, <2>4, <2>6, <2>7
  <2>12. ExecMoves(e)
    BY <2>10, <2>11 DEF ExecMoves
  <2> QED
    BY <1>1, <2>12, OnlyMoves
<1> QED
  BY <1>2, <1>3, <1>4, <1>5, <1>6

LEMMA OperatorWriteMoves ==
    ASSUME BillingInv, NEW e \in Execs,
           \/ Activate(e) \/ Cancel(e) \/ ChangePlan(e) \/ Transition(e) \/ ConsultWrite(e)
    PROVE  Moves
<1>0. /\ today \in Nat /\ born \in Nat
      /\ sub \in [SubIds -> SubRow \cup {None}] /\ exec[e] \in ExecRow /\ Fits(exec[e])
  BY DEF BillingInv
<1>1. ExecMoves(e) /\ UNCHANGED <<today, invoice>>
  BY Ends DEF Activate, Cancel, ChangePlan, Transition, ConsultWrite
<1>s. {"ACTIVE", "CANCELLED"} \cup AutoTargets \subseteq Statuses \ {"TRIAL"}
  BY DEF Statuses, AutoTargets
<1>3. CASE Activate(e)
  <2>1. PICK i : /\ i = exec[e].on /\ sub[i] # None /\ UNCHANGED born
                 /\ sub' = [sub EXCEPT ![i].status = "ACTIVE",
                                       ![i].periodEnd = today + TermDays]
    BY <1>3 DEF Activate
  <2>2. CASE i \notin SubIds
    <3>1. sub' = [sub EXCEPT ![i] = None]
      BY <1>0, <2>1, <2>2
    <3>2. born' \in Nat /\ born <= born'
      BY <1>0, <2>1
    <3> QED
      BY <1>1, <2>2, <3>1, <3>2, RowWritten
  <2>3. CASE i \in SubIds
    <3>1. PICK y \in SubRow : y = sub[i]
      BY <1>0, <2>1, <2>3
    <3>2. PICK end \in Nat : end = today + TermDays
      BY <1>0, CalendarAssumption
    <3>3. PICK r : r = [y EXCEPT !.status = "ACTIVE", !.periodEnd = end]
      OBVIOUS
    <3>4. r = [status |-> "ACTIVE", trialEnds |-> y.trialEnds, periodEnd |-> end]
      BY <3>3 DEF SubRow
    <3>5. sub' = [sub EXCEPT ![i] = [sub[i] EXCEPT !.status = "ACTIVE",
                                                   !.periodEnd = end]]
      BY <1>0, <2>1, <2>3, <3>1, <3>2 DEF SubRow
    <3>6. r \in SubRow /\ r.status # "TRIAL"
      BY <1>s, <3>4 DEF SubRow
    <3>7. sub' = [sub EXCEPT ![i] = r]
      BY <3>1, <3>3, <3>5
    <3>8. born' \in Nat /\ born <= born' /\ i <= born'
      BY <1>0, <2>1, <2>3 DEF Subs, BillingInv
    <3> QED
      BY <1>1, <3>6, <3>7, <3>8, RowWritten
  <2> QED
    BY <2>2, <2>3
<1>4. CASE Cancel(e)
  <2>1. PICK i : /\ i = exec[e].on /\ sub[i] # None /\ UNCHANGED born
                 /\ sub' = [sub EXCEPT ![i].status = "CANCELLED"]
    BY <1>4 DEF Cancel
  <2> QED
    BY <1>1, <1>s, <2>1, StatusWritten
<1>5. CASE ChangePlan(e)
  <2>1. PaidRow \in SubRow /\ PaidRow.status # "TRIAL"
    BY <1>0, <1>s, CalendarAssumption DEF PaidRow, SubRow
  <2>2. PICK i : /\ sub' = [sub EXCEPT ![i] = PaidRow]
                 /\ \/ sub[i] # None /\ born' = born
                    \/ i = born + 1 /\ born' = born + 1
    <3>1. CASE exec[e].on = None
      BY <1>5, <3>1 DEF ChangePlan, Create
    <3>2. CASE exec[e].on # None
      BY <1>5, <3>2 DEF ChangePlan
    <3> QED
      BY <3>1, <3>2
  <2>3. born' \in Nat /\ born <= born' /\ (i \in SubIds => i <= born')
    BY <1>0, <2>2 DEF Subs, BillingInv
  <2> QED
    BY <1>1, <2>1, <2>2, <2>3, RowWritten
<1>6. CASE Transition(e)
  <2>1. PICK i : /\ i = exec[e].on /\ sub[i] # None /\ UNCHANGED born
                 /\ sub' = [sub EXCEPT ![i].status = exec[e].to]
    BY <1>6 DEF Transition
  <2>2. exec[e].to \in Statuses \ {"TRIAL"}
    BY <1>0, <1>6 DEF Transition, Deciding, Fits
  <2> QED
    BY <1>1, <2>1, <2>2, StatusWritten
<1>7. CASE ConsultWrite(e)
  <2>1. PICK i : /\ i = exec[e].on /\ sub[i] # None /\ UNCHANGED born
                 /\ sub' = [sub EXCEPT ![i].status = exec[e].to]
    BY <1>7 DEF ConsultWrite
  <2>2. exec[e].to \in Statuses \ {"TRIAL"}
    BY <1>0, <1>7, <1>s DEF ConsultWrite, Deciding, Fits
  <2> QED
    BY <1>1, <2>1, <2>2, StatusWritten
<1> QED
  BY <1>3, <1>4, <1>5, <1>6, <1>7

LEMMA StagesAre ==
    /\ Len(Stages) = 5
    /\ \A n \in 1..4 : Stages[n] # "NOTIFY"
    /\ \A n \in 1..5 : Stages[n] \in AutoTargets \/ n \in {4, 5}
BY DEF Stages, AutoTargets

\* A list gets shorter.
LEMMA OneLess ==
    ASSUME BillingInv, NEW e \in Execs, NEW i, exec' = [exec EXCEPT ![e].todo = @ \ {i}]
    PROVE  ExecMoves(e)
<1>1. exec \in [Execs -> ExecRow]
  BY DEF BillingInv
<1>2. PICK y \in ExecRow : y = exec[e] /\ Fits(y)
  BY DEF BillingInv
<1>3. PICK rest : rest = y.todo \ {i}
  OBVIOUS
<1>4. rest \subseteq y.todo /\ y.todo \in SUBSET (SubIds \cup Keys)
  BY <1>3 DEF ExecRow
<1>5. PICK x : x = [y EXCEPT !.todo = rest]
  OBVIOUS
<1>6. x = [pc |-> y.pc, op |-> y.op, on |-> y.on, to |-> y.to, end |-> y.end, read |-> y.read,
           todo |-> rest, ends |-> y.ends, stage |-> y.stage, tries |-> y.tries,
           mails |-> y.mails]
  BY <1>5 DEF ExecRow
<1>7. x \in ExecRow
  BY <1>4, <1>6 DEF ExecRow
<1>8. Fits(x)
  BY <1>2, <1>4, <1>6, <1>7 DEF Fits, WasDue
<1>9. exec' = [exec EXCEPT ![e] = [exec[e] EXCEPT !.todo = rest]]
  BY <1>1, <1>2, <1>3 DEF ExecRow
<1> QED
  BY <1>2, <1>5, <1>8, <1>9 DEF ExecMoves

LEMMA NextRowMoves ==
    ASSUME BillingInv, NEW e \in Execs, NextRow(e)
    PROVE  Moves
<1>1. exec \in [Execs -> ExecRow]
  BY DEF BillingInv
<1>2. PICK y \in ExecRow : y = exec[e] /\ Fits(y)
  BY DEF BillingInv
<1>3. PICK i \in y.todo :
        LET rest == [y EXCEPT !.todo = @ \ {i}] IN
        exec' = [exec EXCEPT ![e] = IF StillAllowed(i, y.to) THEN Looked(rest, i, y.ends[i])
                                                             ELSE rest]
  BY <1>2 DEF NextRow
<1>4. PICK left : left = y.todo \ {i}
  OBVIOUS
<1>5. left \subseteq y.todo /\ y.todo \in SUBSET (SubIds \cup Keys)
  BY <1>3, <1>4 DEF ExecRow
<1>6. PICK rest : rest = [y EXCEPT !.todo = left]
  OBVIOUS
<1>7. rest = [pc |-> y.pc, op |-> y.op, on |-> y.on, to |-> y.to, end |-> y.end,
              read |-> y.read, todo |-> left, ends |-> y.ends, stage |-> y.stage,
              tries |-> y.tries, mails |-> y.mails]
  BY <1>6 DEF ExecRow
<1>8. /\ y.op = "DEMOTE" /\ y.pc = "scanning" /\ UNCHANGED <<today, sub, born, invoice>>
      /\ y.to \in AutoTargets /\ \A j \in y.todo : Due(j, y.to, y.ends[j])
  BY <1>2 DEF NextRow, Fits
<1>9. rest \in ExecRow
  BY <1>5, <1>7 DEF ExecRow
<1>10. Fits(rest)
  BY <1>2, <1>5, <1>7, <1>8, <1>9 DEF Fits
<1>11. PICK end : end = y.ends[i]
  OBVIOUS
<1>12. ASSUME StillAllowed(i, y.to) PROVE Fits(Looked(rest, i, end))
  <2>1. Due(i, y.to, end) /\ end \in Nat \cup {None}
    BY <1>3, <1>8, <1>11 DEF Due, ExecRow
  <2>2. rest.stage # 0 => rest.mails = 0
    BY <1>2, <1>7 DEF Fits
  <2> QED
    BY <1>5, <1>7, <1>8, <1>9, <1>12, <2>1, <2>2, Looks
<1>13. \/ StillAllowed(i, y.to) /\ exec' = [exec EXCEPT ![e] = Looked(rest, i, end)]
       \/ exec' = [exec EXCEPT ![e] = rest]
  BY <1>3, <1>4, <1>6, <1>11
<1>14. ExecMoves(e)
  BY <1>10, <1>12, <1>13 DEF ExecMoves
<1> QED
  BY <1>8, <1>14, OnlyMoves

LEMMA DemoteMoves ==
    ASSUME BillingInv, NEW e \in Execs, Demote(e)
    PROVE  Moves
<1>1. ExecMoves(e) /\ UNCHANGED <<today, born, invoice>>
  BY Ends DEF Demote
<1>2. exec[e].to \in Statuses \ {"TRIAL"}
  BY DEF Demote, Deciding, BillingInv, Fits, AutoTargets, Statuses
<1>3. PICK i : i = exec[e].on
  OBVIOUS
<1>4. CASE sub[i] # None
  <2>1. sub' = [sub EXCEPT ![i].status = exec[e].to]
    BY <1>3, <1>4 DEF Demote
  <2> QED
    BY <1>1, <1>2, <1>4, <2>1, StatusWritten
<1>5. CASE sub[i] = None
  BY <1>1, <1>3, <1>5, OnlyMoves DEF Demote
<1> QED
  BY <1>4, <1>5

LEMMA MarkOverdueMoves ==
    ASSUME BillingInv, NEW e \in Execs, MarkOverdue(e)
    PROVE  Moves
<1>1. PICK k \in exec[e].todo :
        /\ invoice' = IF StillIssued(k)
                      THEN [invoice EXCEPT ![k].status = "OVERDUE", ![k].overdueMails = @ + 1]
                      ELSE invoice
        /\ exec' = [exec EXCEPT ![e].todo = @ \ {k}]
  BY DEF MarkOverdue
<1>2. ExecMoves(e)
  BY <1>1, OneLess
<1>3. UNCHANGED <<today, sub, born>>
  BY DEF MarkOverdue
<1>4. CASE ~StillIssued(k)
  BY <1>1, <1>2, <1>3, <1>4, OnlyMoves
<1>5. CASE StillIssued(k)
  <2>0. invoice \in [Keys -> InvoiceRow \cup {None}]
    BY DEF BillingInv
  <2>1. k \in Invoices /\ k \in Keys
    BY <1>1 DEF BillingInv, Fits, MarkOverdue, Invoices
  <2>2. PICK y \in InvoiceRow : y = invoice[k] /\ Counted(y) /\ y.status = "ISSUED"
    BY <1>5, <2>0, <2>1 DEF BillingInv, Invoices, StillIssued
  <2>3. PICK n \in Nat : n = y.overdueMails + 1 /\ n <= y.issues
    BY <2>2 DEF Counted, InvoiceRow
  <2>4. PICK v : v = [y EXCEPT !.status = "OVERDUE", !.overdueMails = n]
    OBVIOUS
  <2>5. v = [status |-> "OVERDUE", issues |-> y.issues, overdueMails |-> n]
    BY <2>4 DEF InvoiceRow
  <2>6. v \in InvoiceRow /\ Counted(v)
    BY <2>3, <2>5 DEF InvoiceRow, Counted
  <2>7. invoice' = [invoice EXCEPT ![k] = v]
    <3>1. invoice' = [invoice EXCEPT ![k] = [invoice[k] EXCEPT !.status = "OVERDUE",
                                                              !.overdueMails = n]]
      BY <1>1, <1>5, <2>0, <2>1, <2>2, <2>3 DEF InvoiceRow
    <3> QED
      BY <2>2, <2>4, <3>1
  <2>8. invoice[k] # None
    BY <2>1 DEF Invoices
  <2> QED
    BY <1>2, <1>3, <2>0, <2>6, <2>7, <2>8, InvoiceWritten
<1> QED
  BY <1>4, <1>5

LEMMA JobMoves ==
    ASSUME BillingInv, NEW e \in Execs,
           \/ CheckExpirations(e) \/ SubscriptionCheck(e) \/ EnterStage(e) \/ StageFails(e)
           \/ ScanEnds(e) \/ Notify(e) \/ Fail(e)
    PROVE  Moves
<1>0. exec \in [Execs -> ExecRow] /\ exec[e] \in ExecRow /\ Fits(exec[e])
  BY DEF BillingInv
<1>1. UNCHANGED <<today, sub, born, invoice>>
  BY DEF CheckExpirations, SubscriptionCheck, EnterStage, StageFails, ScanEnds, Notify, Fail
<1>2. CASE CheckExpirations(e)
  <2>1. PICK to \in AutoTargets : Scan(e, to)
    BY <1>2 DEF CheckExpirations, AutoTargets
  <2> QED
    BY <1>1, <2>1, Scans, OnlyMoves
<1>3. CASE SubscriptionCheck(e)
  BY <1>1, <1>3, Starts, OnlyMoves DEF SubscriptionCheck
<1>4. CASE EnterStage(e)
  <2>1. CASE \E to \in AutoTargets : Scan(e, to)
    BY <1>1, <2>1, Scans, OnlyMoves
  <2>2. CASE exec' = [exec EXCEPT ![e].pc = "scanning", ![e].op = "OVERDUES",
                        ![e].todo = {k \in Invoices : StillIssued(k) /\ DueDate(k) < today}]
    <3>1. PICK y \in ExecRow : y = exec[e] /\ Fits(y)
      BY <1>0
    <3>2. PICK todo : todo = {k \in Invoices : StillIssued(k) /\ DueDate(k) < today}
      OBVIOUS
    <3>3. todo \subseteq Invoices /\ Invoices \subseteq Keys
      BY <3>2 DEF Invoices
    <3>4. PICK x : x = [y EXCEPT !.pc = "scanning", !.op = "OVERDUES", !.todo = todo]
      OBVIOUS
    <3>5. x = [pc |-> "scanning", op |-> "OVERDUES", on |-> y.on, to |-> y.to, end |-> y.end,
               read |-> y.read, todo |-> todo, ends |-> y.ends, stage |-> y.stage,
               tries |-> y.tries, mails |-> y.mails]
      BY <3>4 DEF ExecRow
    <3>6. exec' = [exec EXCEPT ![e] = [exec[e] EXCEPT !.pc = "scanning", !.op = "OVERDUES",
                                                      !.todo = todo]]
      BY <1>0, <2>2, <3>2 DEF ExecRow
    <3>7. x \in ExecRow
      BY <3>3, <3>5 DEF ExecRow, Ops
    <3>8. Fits(x)
      BY <3>1, <3>3, <3>5, <3>7 DEF Fits
    <3>9. ExecMoves(e)
      BY <3>1, <3>4, <3>6, <3>8 DEF ExecMoves
    <3> QED
      BY <1>1, <3>9, OnlyMoves
  <2> QED
    BY <1>4, <2>1, <2>2 DEF EnterStage
<1>5. CASE StageFails(e)
  <2>1. CASE exec' = [exec EXCEPT ![e] = Idle]
    BY <1>1, <2>1, IdleFits, OnlyMoves DEF ExecMoves
  <2>2. CASE Start(e, 1, exec[e].tries + 1, exec[e].mails)
    <3>1. exec[e].tries + 1 \in Nat /\ exec[e].mails = 0
      BY <1>0, <1>5 DEF ExecRow, StageFails, Fits
    <3> QED
      BY <1>1, <2>2, <3>1, Starts, OnlyMoves
  <2> QED
    BY <1>5, <2>1, <2>2 DEF StageFails
<1>6. CASE ScanEnds(e)
  <2>1. CASE exec' = [exec EXCEPT ![e] = Idle]
    BY <1>1, <2>1, IdleFits, OnlyMoves DEF ExecMoves
  <2>2. CASE /\ exec[e].stage \in 1..(Len(Stages) - 1)
             /\ Start(e, exec[e].stage + 1, exec[e].tries, exec[e].mails)
    <3>1. exec[e].tries \in Nat /\ exec[e].stage + 1 \in 1..5 /\ exec[e].mails = 0
      BY <1>0, <2>2, StagesAre DEF ExecRow, Fits
    <3> QED
      BY <1>1, <2>2, <3>1, Starts, OnlyMoves
  <2> QED
    BY <1>6, <2>1, <2>2 DEF ScanEnds
<1>7. CASE Notify(e)
  <2>1. /\ exec[e].stage = 5 /\ exec[e].mails = 0
    <3>1. exec[e].stage \in 1..5 /\ exec[e].mails = 0
      BY <1>0, <1>7 DEF ExecRow, Fits, Notify
    <3>2. Stages[exec[e].stage] = "NOTIFY"
      BY <1>7 DEF Notify
    <3> QED
      BY <3>1, <3>2, StagesAre
  <2> DEFINE live == {i \in Subs : sub[i].status \in {"TRIAL", "ACTIVE", "PAST_DUE"}}
             due  == {j \in live : j = Max(live) /\ Announced(sub[j])}
  <2>2. PICK sent \in 0..Cardinality(due) :
            exec' = [exec EXCEPT ![e] = [Idle EXCEPT !.mails = exec[e].mails + sent]]
    <3>1. \E sent \in 0..Cardinality(due) :
            LET mails == exec[e].mails + sent IN
            IF exec[e].stage = Len(Stages)
            THEN exec' = [exec EXCEPT ![e] = [Idle EXCEPT !.mails = mails]]
            ELSE Start(e, exec[e].stage + 1, exec[e].tries, mails)
      BY <1>7 DEF Notify
    <3> HIDE DEF due
    <3> QED
      BY <2>1, <3>1, StagesAre
  <2>3. sent \in 0..1
    <3>1. IsFiniteSet({Max(live)}) /\ Cardinality({Max(live)}) = 1 /\ due \subseteq {Max(live)}
      BY FS_Singleton
    <3>2. Cardinality(due) \in Nat /\ Cardinality(due) <= 1
      BY <3>1, FS_Subset, FS_CardinalityType
    <3> HIDE DEF due
    <3> QED
      BY <2>2, <3>2
  <2> HIDE DEF due
  <2>4. PICK y : y = Idle
    OBVIOUS
  <2>5. PICK n \in 0..1 : n = exec[e].mails + sent
    BY <2>1, <2>3
  <2>6. PICK x : x = [y EXCEPT !.mails = n]
    OBVIOUS
  <2>7. x = [pc |-> "idle", op |-> None, on |-> None, to |-> None, end |-> None,
             read |-> None, todo |-> {}, ends |-> NoEnds, stage |-> 0, tries |-> 0,
             mails |-> n]
    BY <2>4, <2>6 DEF Idle
  <2>8. x \in ExecRow
    BY <2>7, NoEndsType DEF ExecRow, Objects
  <2>9. Fits(x)
    BY <2>7, <2>8, NoneAssumption DEF Fits, Ops
  <2>10. exec' = [exec EXCEPT ![e] = x]
    BY <2>2, <2>4, <2>5, <2>6
  <2> QED
    BY <1>1, <2>9, <2>10, OnlyMoves DEF ExecMoves
<1>8. CASE Fail(e)
  BY <1>1, <1>8, IdleFits, OnlyMoves DEF Fail, ExecMoves
<1> QED
  BY <1>2, <1>3, <1>4, <1>5, <1>6, <1>7, <1>8

LEMMA InvoiceReadMoves ==
    ASSUME BillingInv, NEW e \in Execs,
           GenerateRead(e) \/ IssueRead(e) \/ PayRead(e) \/ VoidRead(e)
    PROVE  Moves
<1>0. /\ None \in Nat \cup {None} /\ None \in Statuses \cup {None}
      /\ Invoices \subseteq Objects /\ {"ISSUE", "PAY", "VOID", "GENERATE"} \subseteq Ops
  BY DEF Invoices, Objects, Ops
<1>1. /\ exec[e].pc = "idle" /\ UNCHANGED <<today, sub, born, invoice>>
      /\ exec \in [Execs -> ExecRow] /\ today \in Nat
  BY DEF GenerateRead, IssueRead, PayRead, VoidRead, Free, BillingInv
<1>2. CASE GenerateRead(e)
  <2>1. PICK y \in ExecRow : y = exec[e] /\ Fits(y) /\ y.pc = "idle"
    BY <1>1 DEF BillingInv
  <2>2. PICK todo : todo = {i \in Subs : sub[i].status = "ACTIVE"}
    OBVIOUS
  <2>3. PICK month : month = MonthOf(today)
    OBVIOUS
  <2>4. month \in Nat
    <3>1. \A n \in Nat, d \in Nat \ {0} : n \div d \in Nat
      OBVIOUS
    <3> QED
      BY <1>1, <2>3, <3>1, CalendarAssumption DEF MonthOf
  <2>5. todo \subseteq SubIds /\ month \in Objects
    BY <2>2, <2>4 DEF Subs, Objects
  <2>6. PICK x : x = [y EXCEPT !.pc = "scanning", !.op = "GENERATE", !.on = month, !.todo = todo]
    OBVIOUS
  <2>7. x = [pc |-> "scanning", op |-> "GENERATE", on |-> month, to |-> y.to, end |-> y.end,
             read |-> y.read, todo |-> todo, ends |-> y.ends, stage |-> y.stage,
             tries |-> y.tries, mails |-> y.mails]
    BY <2>6 DEF ExecRow
  <2>8. exec' = [exec EXCEPT ![e] = [exec[e] EXCEPT !.pc = "scanning", !.op = "GENERATE",
                                                    !.on = month, !.todo = todo]]
    BY <1>1, <1>2, <2>2, <2>3 DEF GenerateRead, ExecRow
  <2>9. x \in ExecRow
    BY <2>5, <2>7, <1>0 DEF ExecRow
  <2>10. Fits(x)
    BY <2>1, <2>7, <2>9 DEF Fits
  <2>11. ExecMoves(e)
    BY <2>1, <2>6, <2>8, <2>10 DEF ExecMoves
  <2> QED
    BY <1>1, <2>11, OnlyMoves
<1>3. CASE IssueRead(e)
  <2>1. PICK k \in Invoices : Decide(e, "ISSUE", k, None, None)
    BY <1>3 DEF IssueRead
  <2>2. ExecMoves(e)
    BY <1>0, <1>1, <2>1, Decides
  <2> QED
    BY <1>1, <2>2, OnlyMoves
<1>4. CASE PayRead(e)
  <2>1. PICK k \in Invoices : Decide(e, "PAY", k, None, sub[k[2]].periodEnd)
    BY <1>4 DEF PayRead
  <2>2. sub[k[2]].periodEnd \in Nat
    <3>1. k[2] \in SubIds /\ sub[k[2]] # None
      BY DEF BillingInv, Invoices, Keys
    <3>2. sub[k[2]] \in SubRow
      BY <3>1 DEF BillingInv
    <3> QED
      BY <3>2 DEF SubRow
  <2>3. ExecMoves(e)
    BY <1>0, <1>1, <2>1, <2>2, Decides
  <2> QED
    BY <1>1, <2>3, OnlyMoves
<1>5. CASE VoidRead(e)
  <2>1. PICK k \in Invoices : Decide(e, "VOID", k, None, None)
    BY <1>5 DEF VoidRead
  <2>2. ExecMoves(e)
    BY <1>0, <1>1, <2>1, Decides
  <2> QED
    BY <1>1, <2>2, OnlyMoves
<1> QED
  BY <1>2, <1>3, <1>4, <1>5

LEMMA GenerateMoves ==
    ASSUME BillingInv, NEW e \in Execs, Generate(e)
    PROVE  Moves
<1>1. PICK i \in exec[e].todo :
        LET k == <<exec[e].on, i>> IN
        /\ invoice' = IF invoice[k] = None /\ sub[i] # None
                      THEN [invoice EXCEPT ![k] = [status |-> "ISSUED", issues |-> 1,
                                                   overdueMails |-> 0]]
                      ELSE invoice
        /\ exec' = [exec EXCEPT ![e].todo = @ \ {i}]
  BY DEF Generate
<1>2. ExecMoves(e) /\ UNCHANGED <<today, sub, born>>
  BY <1>1, OneLess DEF Generate, BillingInv
<1>3. PICK k : k = <<exec[e].on, i>>
  OBVIOUS
<1>4. PICK v : v = [status |-> "ISSUED", issues |-> 1, overdueMails |-> 0]
  OBVIOUS
<1>5. v \in InvoiceRow /\ Counted(v)
  BY <1>4 DEF InvoiceRow, Counted
<1>6. CASE invoice[k] = None /\ sub[i] # None
  <2>1. invoice' = [invoice EXCEPT ![k] = v]
    BY <1>1, <1>3, <1>4, <1>6
  <2>2. k \notin Invoices /\ sub[k[2]] # None
    <3>1. k[2] = i
      BY <1>3
    <3> QED
      BY <1>6, <3>1 DEF Invoices
  <2> QED
    BY <1>2, <1>5, <2>1, <2>2, InvoiceWritten
<1>7. CASE ~(invoice[k] = None /\ sub[i] # None)
  BY <1>1, <1>2, <1>3, <1>7, OnlyMoves
<1> QED
  BY <1>6, <1>7

LEMMA IssueMoves ==
    ASSUME BillingInv, NEW e \in Execs, Issue(e)
    PROVE  Moves
<1>0. invoice \in [Keys -> InvoiceRow \cup {None}]
  BY DEF BillingInv
<1>1. PICK k : /\ k = exec[e].on
               /\ invoice' = [invoice EXCEPT ![k].status = "ISSUED", ![k].issues = @ + 1]
  BY DEF Issue
<1>2. ExecMoves(e) /\ UNCHANGED <<today, sub, born>>
  BY Ends DEF Issue
<1>4. k \in Invoices
  BY <1>1 DEF BillingInv, Fits, Issue, Deciding
<1>5. PICK y \in InvoiceRow : y = invoice[k] /\ Counted(y)
  BY <1>0, <1>4 DEF BillingInv, Invoices
<1>6. PICK n \in Nat : n = y.issues + 1 /\ y.overdueMails < n
  BY <1>5 DEF InvoiceRow, Counted
<1>7. PICK v : v = [y EXCEPT !.status = "ISSUED", !.issues = n]
  OBVIOUS
<1>8. v = [status |-> "ISSUED", issues |-> n, overdueMails |-> y.overdueMails]
  BY <1>7 DEF InvoiceRow
<1>9. v \in InvoiceRow /\ Counted(v)
  BY <1>5, <1>6, <1>8 DEF InvoiceRow, Counted
<1>10. invoice' = [invoice EXCEPT ![k] = v]
  <2>1. invoice' = [invoice EXCEPT ![k] = [invoice[k] EXCEPT !.status = "ISSUED", !.issues = n]]
    BY <1>0, <1>1, <1>4, <1>5, <1>6 DEF InvoiceRow, Invoices
  <2> QED
    BY <1>5, <1>7, <2>1
<1>11. invoice[k] # None
  BY <1>4 DEF Invoices
<1> QED
  BY <1>2, <1>9, <1>10, <1>11, InvoiceWritten

LEMMA VoidMoves ==
    ASSUME BillingInv, NEW e \in Execs, Void(e)
    PROVE  Moves
<1>0. invoice \in [Keys -> InvoiceRow \cup {None}]
  BY DEF BillingInv
<1>1. PICK k : /\ k = exec[e].on
               /\ invoice' = [invoice EXCEPT ![k].status = "CANCELLED"]
  BY DEF Void
<1>2. ExecMoves(e) /\ UNCHANGED <<today, sub, born>>
  BY Ends DEF Void
<1>4. k \in Invoices
  BY <1>1 DEF BillingInv, Fits, Void, Deciding
<1>5. PICK y \in InvoiceRow : y = invoice[k] /\ Counted(y)
  BY <1>0, <1>4 DEF BillingInv, Invoices
<1>6. PICK v : v = [y EXCEPT !.status = "CANCELLED"]
  OBVIOUS
<1>7. v = [status |-> "CANCELLED", issues |-> y.issues, overdueMails |-> y.overdueMails]
  BY <1>6 DEF InvoiceRow
<1>8. v \in InvoiceRow /\ Counted(v)
  BY <1>5, <1>7 DEF InvoiceRow, Counted
<1>9. invoice' = [invoice EXCEPT ![k] = v]
  BY <1>1, <1>5, <1>6
<1>10. invoice[k] # None
  BY <1>4 DEF Invoices
<1> QED
  BY <1>2, <1>8, <1>9, <1>10, InvoiceWritten

\* markPaid writes the invoice and its subscription.
LEMMA PayMoves ==
    ASSUME BillingInv, NEW e \in Execs, Pay(e)
    PROVE  Moves
<1>0. /\ invoice \in [Keys -> InvoiceRow \cup {None}] /\ today \in Nat
      /\ sub \in [SubIds -> SubRow \cup {None}] /\ born \in Nat
  BY DEF BillingInv
<1>1. PICK k, i : /\ k = exec[e].on /\ i = k[2]
                  /\ invoice' = [invoice EXCEPT ![k].status = "PAID"]
                  /\ sub' = [sub EXCEPT ![i] = PaidUp(@, exec[e].end)]
  BY DEF Pay
<1>2. ExecMoves(e) /\ UNCHANGED <<today, born>>
  BY Ends DEF Pay
<1>4. k \in Invoices /\ k \in Keys /\ i \in SubIds /\ exec[e].end \in Nat
  BY <1>1 DEF BillingInv, Fits, Pay, Deciding, Invoices, Keys
<1>5. PICK y \in InvoiceRow : y = invoice[k] /\ Counted(y)
  BY <1>0, <1>4 DEF BillingInv, Invoices
<1>6. PICK v : v = [y EXCEPT !.status = "PAID"]
  OBVIOUS
<1>7. v = [status |-> "PAID", issues |-> y.issues, overdueMails |-> y.overdueMails]
  BY <1>6 DEF InvoiceRow
<1>8. v \in InvoiceRow /\ Counted(v)
  BY <1>5, <1>7 DEF InvoiceRow, Counted
<1>9. invoice' = [invoice EXCEPT ![k] = v]
  BY <1>1, <1>5, <1>6
<1>10. PICK r \in SubRow : r = sub[i] /\ i <= born
  BY <1>0, <1>1, <1>4 DEF BillingInv, Subs
<1>11. PICK end \in Nat : end = exec[e].end + MonthDays
  BY <1>4, CalendarAssumption
<1>12. PICK w : w = [r EXCEPT !.status = "ACTIVE", !.periodEnd = end]
  OBVIOUS
<1>13. w = [status |-> "ACTIVE", trialEnds |-> r.trialEnds, periodEnd |-> end]
  BY <1>12 DEF SubRow
<1>14. w \in SubRow /\ w.status # "TRIAL"
  BY <1>13 DEF SubRow, Statuses
<1>15. sub' = [sub EXCEPT ![i] = w]
  <2>1. sub' = [sub EXCEPT ![i] = PaidUp(sub[i], exec[e].end)]
    BY <1>1
  <2>2. PaidUp(r, exec[e].end) = w
    BY <1>11, <1>12 DEF PaidUp
  <2> QED
    BY <1>10, <2>1, <2>2
<1>16. ASSUME NEW j \in SubIds PROVE RowMoves(j)
  <2>1. sub'[j] = sub[j] \/ (j = i /\ sub'[j] = w)
    BY <1>0, <1>15
  <2> QED
    BY <1>2, <1>10, <1>14, <2>1 DEF RowMoves
<1>17. ASSUME NEW j \in Keys PROVE InvoiceMoves(j)
  <2>1. invoice'[j] = invoice[j] \/ (j = k /\ invoice'[j] = v)
    BY <1>0, <1>9
  <2> QED
    BY <1>4, <1>8, <2>1 DEF InvoiceMoves, Invoices
<1>18. sub' = [j \in SubIds |-> sub'[j]] /\ invoice' = [j \in Keys |-> invoice'[j]]
  BY <1>0, <1>9, <1>15
<1> QED
  BY <1>0, <1>2, <1>16, <1>17, <1>18 DEF Moves

LEMMA TickMoves == BillingInv /\ Tick => Moves
<1> SUFFICES ASSUME BillingInv, Tick PROVE Moves
  OBVIOUS
<1>1. today' \in Nat /\ today <= today'
  BY DEF BillingInv, Tick
<1>2. UNCHANGED <<sub, born, invoice, exec>>
  BY DEF Tick
<1>3. /\ sub = [i \in SubIds |-> sub[i]] /\ invoice = [k \in Keys |-> invoice[k]]
      /\ born \in Nat
  BY DEF BillingInv
<1> QED
  BY <1>1, <1>2, <1>3 DEF Moves, RowMoves, InvoiceMoves

LEMMA DropToFreeMoves == BillingInv /\ DropToFree => Moves
<1> SUFFICES ASSUME BillingInv, DropToFree PROVE Moves
  OBVIOUS
<1>1. /\ sub' = [i \in SubIds |-> None] /\ \A i \in Subs : ~Billed(i)
      /\ UNCHANGED <<today, born, invoice, exec>>
  BY DEF DropToFree
<1>2. /\ invoice = [k \in Keys |-> invoice[k]] /\ today \in Nat
      /\ born \in Nat
  BY DEF BillingInv
<1>3. \A i \in SubIds : RowMoves(i)
  BY <1>1 DEF RowMoves, Subs
<1>4. \A k \in Keys : InvoiceMoves(k)
  BY <1>1 DEF InvoiceMoves
<1> QED
  BY <1>1, <1>2, <1>3, <1>4 DEF Moves

LEMMA StepsMove == BillingInv /\ [Next]_billingVars => Moves
<1> SUFFICES ASSUME BillingInv, [Next]_billingVars PROVE Moves
  OBVIOUS
<1>1. CASE UNCHANGED billingVars
  <2>1. UNCHANGED <<today, sub, born, invoice, exec>>
    BY <1>1 DEF billingVars
  <2>2. /\ sub = [i \in SubIds |-> sub[i]] /\ invoice = [k \in Keys |-> invoice[k]]
        /\ today \in Nat /\ born \in Nat
    BY DEF BillingInv
  <2> QED
    BY <2>1, <2>2 DEF Moves, RowMoves, InvoiceMoves
<1>2. CASE Tick \/ DropToFree
  BY <1>2, TickMoves, DropToFreeMoves
<1>3. ASSUME NEW e \in Execs, TrialStep(e) PROVE Moves
  BY <1>3, TrialStepMoves
<1>4. ASSUME NEW e \in Execs, OperatorStep(e) PROVE Moves
  BY <1>4, OperatorReadMoves, OperatorWriteMoves DEF OperatorStep
<1>5. ASSUME NEW e \in Execs, JobStep(e) \/ Fail(e) PROVE Moves
  BY <1>5, JobMoves, NextRowMoves, DemoteMoves, MarkOverdueMoves DEF JobStep
<1>6. ASSUME NEW e \in Execs, InvoiceStep(e) PROVE Moves
  BY <1>6, InvoiceReadMoves, GenerateMoves, IssueMoves, PayMoves, VoidMoves DEF InvoiceStep
<1> QED
  BY <1>1, <1>2, <1>3, <1>4, <1>5, <1>6 DEF Next

LEMMA InitBillingInv == Init => BillingInv
<1> SUFFICES ASSUME Init PROVE BillingInv
  OBVIOUS
<1>1. today = 0 /\ exec = [e \in Execs |-> Idle]
  BY DEF Init
<1>2. TrialRow \in SubRow /\ PaidRow \in SubRow
  <2>1. today + TrialDays \in Nat /\ today + TermDays \in Nat
    BY <1>1, CalendarAssumption
  <2> QED
    BY <2>1 DEF TrialRow, PaidRow, SubRow, Statuses
<1>3. exec \in [Execs -> ExecRow] /\ \A e \in Execs : Fits(exec[e])
  <2>1. Idle \in ExecRow
    BY IdleFits DEF Fits
  <2> QED
    BY <1>1, <2>1, IdleFits
<1>4. None \notin SubRow /\ None \notin InvoiceRow
  BY BillingRowAssumption
<1>5. sub \in [SubIds -> SubRow \cup {None}] /\ \A i \in Subs : i <= born
  <2>1. CASE sub = [i \in SubIds |-> None]
    BY <2>1 DEF Subs
  <2>2. ASSUME NEW row \in SubRow, born = 1,
               sub = [i \in SubIds |-> IF i = 1 THEN row ELSE None]
        PROVE  <1>5
    BY <2>2 DEF Subs
  <2> QED
    BY <1>2, <2>1, <2>2 DEF Init
<1>6. /\ invoice \in [Keys -> InvoiceRow \cup {None}]
      /\ \A k \in Invoices : Counted(invoice[k])
  <2>1. CASE invoice = [k \in Keys |-> None]
    BY <2>1 DEF Invoices
  <2>2. ASSUME NEW v, v = [status |-> "DRAFT", issues |-> 0, overdueMails |-> 0],
               invoice = [k \in Keys |-> IF k = <<0, 1>> THEN v ELSE None]
        PROVE  <1>6
    <3>1. v \in InvoiceRow /\ Counted(v)
      BY <2>2 DEF InvoiceRow, Counted
    <3> QED
      BY <2>2, <3>1 DEF Invoices
  <2> QED
    BY <2>1, <2>2 DEF Init
<1>7. ASSUME NEW k \in Invoices PROVE sub[k[2]] # None
  <2>1. k \in Keys /\ invoice[k] # None
    BY DEF Invoices
  <2>2. /\ k = <<0, 1>> /\ sub = [i \in SubIds |-> IF i = 1 THEN PaidRow ELSE None]
    BY <2>1 DEF Init
  <2>3. k[2] = 1 /\ 1 \in SubIds
    BY <2>1, <2>2 DEF Keys
  <2> QED
    BY <1>2, <1>4, <2>2, <2>3
<1>8. today \in Nat /\ born \in Nat
  <2>1. born = 0 \/ born = 1
    BY Zenon DEF Init
  <2> QED
    BY <1>1, <2>1
<1> QED
  BY <1>1, <1>3, <1>5, <1>6, <1>7, <1>8 DEF BillingInv

LEMMA BillingAlways == Spec => []BillingInv
<1>1. BillingInv /\ [Next]_billingVars => BillingInv'
  BY StepsMove, MovesKeep
<1> QED
  BY <1>1, InitBillingInv, PTL DEF Spec

\* A call that has looked a row up carries what made it due, so that nothing but
\* a write of the row since that look-up, or of its period since the list, makes
\* an automatic demotion untimely (transitionStatus, checkSubscriptionStatus and
\* the three scans).
THEOREM DemotionsAreOnTime == Spec => DemotedOnTime
<1> DEFINE OnTime(e) ==
        Demotes(e) =>
        LET r  == sub[exec[e].on]
            to == exec[e].to
        IN  \/ r # exec[e].read
            \/ to = "EXPIRED" /\ r.status = "TRIAL" /\ r.trialEnds < today
            \/ /\ to = "PAST_DUE" /\ r.status = "ACTIVE"
               /\ r.periodEnd < today \/ r.periodEnd # exec[e].end
            \/ /\ to = "SUSPENDED" /\ r.status = "PAST_DUE"
               /\ r.periodEnd + GraceDays < today \/ r.periodEnd # exec[e].end
<1>1. ASSUME BillingInv, NEW e \in Execs PROVE OnTime(e)
  <2> SUFFICES ASSUME Demotes(e), sub[exec[e].on] = exec[e].read PROVE OnTime(e)
    OBVIOUS
  <2>0. PICK x : x = exec[e]
    OBVIOUS
  <2>1. x \in ExecRow /\ WasDue(x) /\ x.to \in AutoTargets
    <3>1. Fits(x) /\ x.pc = "decided" /\ x.op \in {"DEMOTE", "CONSULT"}
      BY <1>1, <2>0 DEF BillingInv, Demotes
    <3> QED
      BY <3>1 DEF Fits
  <2>2. PICK r \in SubRow : r = x.read /\ x.to \in VALID_TRANSITIONS[r.status]
    BY <2>1 DEF WasDue
  <2>3. r.status \in Statuses
    BY DEF SubRow
  <2>4. /\ x.to = "EXPIRED" => r.status = "TRIAL"
        /\ x.to = "PAST_DUE" => r.status = "ACTIVE"
        /\ x.to = "SUSPENDED" => r.status = "PAST_DUE"
    BY <2>2, <2>3 DEF VALID_TRANSITIONS, Statuses
  <2>5. CASE x.to = "EXPIRED"
    BY <2>0, <2>1, <2>2, <2>4, <2>5 DEF WasDue
  <2>6. CASE x.to = "PAST_DUE"
    BY <2>0, <2>1, <2>2, <2>4, <2>6 DEF WasDue
  <2>7. CASE x.to = "SUSPENDED"
    BY <2>0, <2>1, <2>2, <2>4, <2>7 DEF WasDue
  <2> QED
    BY <2>1, <2>5, <2>6, <2>7 DEF AutoTargets
<1>2. BillingInv => [\A e \in Execs : OnTime(e)]_billingVars
  BY <1>1
<1> QED
  BY <1>2, BillingAlways, PTL DEF DemotedOnTime

\* There is at most one overdue notice for each time an invoice is issued, and
\* one end-of-term mail of a daily job (checkOverdue, notifyUpcomingExpirations).
THEOREM NobodyIsToldTwice == Spec => []ToldOnce
<1>1. BillingInv => ToldOnce
  <2> SUFFICES ASSUME BillingInv PROVE ToldOnce
    OBVIOUS
  <2>1. \A k \in Invoices : invoice[k].overdueMails <= invoice[k].issues
    BY DEF BillingInv, Counted
  <2>2. \A e \in Execs : exec[e].mails <= 1
    BY DEF BillingInv, ExecRow
  <2> QED
    BY <2>1, <2>2 DEF ToldOnce
<1> QED
  BY <1>1, BillingAlways, PTL
=============================================================================
