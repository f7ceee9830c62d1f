------------------------------ MODULE Notices -------------------------------
(* The mails of the daily jobs (src/cron, runNoticeCycle; src/heat-alerts,   *)
(* runHeatForecastNotices): one pass over the active centres, oldest first,  *)
(* a step per query and per mail.  A failure inside a centre ends only what  *)
(* it belongs to; the offices go on working between the steps.               *)
EXTENDS Rows, Integers, Sequences, FiniteSets

CONSTANTS
    CentreCount, \* top-level sites
    Items,       \* work items
    MailRows,    \* STUCK_MAIL_MAX_ROWS: items a mail names
    Statuses,    \* of subscriptions; "NONE": the centre has none
    MaxOffice    \* bound: changes by the offices

ASSUME NoticesAssumption ==
    {CentreCount, MailRows, MaxOffice} \subseteq Nat /\ IsFiniteSet(Items)

\* In the order of their creation.
Centres == 1..CentreCount

VARIABLES
    keyed,   \* the mail service has its key
    centre,  \* rows of sites with their subscription and settings
    item,    \* [at, status, old]: where its starter is placed, and whether it
             \* began a day ago
    changes, \* changes so far
    job,     \* what the pass is doing
    mails,   \* mails the service accepted: [kind, on, to, items, more]: about centre on,
             \* or the pass (None), and to it, or to the operator (None); naming some
             \* items, and telling how many more there are
    rows,    \* of the closing report: one per centre, [on, stuck, digest]
    touched  \* items and centres changed since the pass began

noticeVars == <<keyed, centre, item, changes, job, mails, rows, touched>>

\* A starter may be placed in a centre, in a sub-site (0), or nowhere.
Places == Centres \cup {0, None}

NoJob == [pc |-> "idle", kind |-> None, list |-> {}, left |-> {}, first |-> None,
          stuck |-> "-", found |-> {}]

Kinds == {"evening", "weekly", "forecast"}

Oldest(S) == CHOOSE n \in S : \A m \in S : n <= m

\* The centre whose turn it is.
c0 == Oldest(job.left)

-----------------------------------------------------------------------------
(* Helpers *)

listTopLevelActiveSites == {n \in Centres : centre[n].active}

\* CUSTOMER_EXCLUDED_SUBSCRIPTION_STATUSES
isCustomerNotifiable(status) == status \notin {"EXPIRED", "SUSPENDED", "CANCELLED"}

\* Mutant: the items of starters without a place belong to every centre.
workScopeWide(n, includeNull) == {i \in Items : item[i].at \in {n, None}}

\* Items of starters without a place belong to the first centre only.
workScopeFor(n, includeNull) ==
    {i \in Items : item[i].at = n \/ (includeNull /\ item[i].at = None)}

\* Running, or paused and begun more than a day ago.
Stuck(i) == item[i].status = "ACTIVE" \/ (item[i].status = "PAUSED" /\ item[i].old)

\* Addresses of the settings, those of verified administrators if there are none
\* or the settings cannot be read, or nobody.
resolveRecipients(n, settingsRead, staffRead) ==
    \/ settingsRead /\ centre[n].addressed
    \/ staffRead /\ centre[n].verified

\* Whether the plan has the feature, or the trial is past, is left open.
hasReportsEntitlement(n) == centre[n].status \in {"NONE", "ACTIVE", "TRIAL"}

\* There is a mail for an active centre with the feature and activity (of work or
\* of heat records) in the period.
buildSummaryMail(n, busy) == centre[n].active /\ hasReportsEntitlement(n) /\ busy

\* sendMail never throws.
Outcomes == IF keyed THEN {"sent", "failed"} ELSE {"unconfigured"}

Mail(kind, outcome, on, to, items, more) ==
    mails' = IF outcome = "sent"
             THEN Append(mails, [kind |-> kind, on |-> on, to |-> to, items |-> items,
                                 more |-> more])
             ELSE mails

\* renderStuckWorkHtml: the rows of the mail, those that began first.
Shows(found, named) ==
    /\ Cardinality(named) = IF Cardinality(found) <= MailRows THEN Cardinality(found) ELSE MailRows
    /\ \A i \in named, j \in found \ named : item[j].old => item[i].old

\* The row of the centre, and on to the next one.
Row(stuck, digest) ==
    /\ rows' = Append(rows, [on |-> c0, stuck |-> stuck, digest |-> digest])
    /\ job' = [job EXCEPT !.pc = IF job.left = {c0} THEN "rollup" ELSE "status",
                          !.left = @ \ {c0}, !.stuck = "-", !.found = {}]

-----------------------------------------------------------------------------
(* The pass *)

\* The forecast is refused at once without a mail key.
StartPass(kind) ==
    /\ job.pc = "idle"
    /\ kind = "forecast" => keyed
    /\ LET list == listTopLevelActiveSites IN
       job' = [NoJob EXCEPT !.pc = IF list = {} THEN "done" ELSE "status",
                            !.kind = kind, !.list = list, !.left = list,
                            !.first = IF list = {} THEN None ELSE Oldest(list)]
    /\ UNCHANGED <<keyed, centre, item, changes, mails, rows, touched>>

StatusFails ==
    /\ job.pc = "status"
    /\ Row(IF job.kind = "evening" THEN "failed" ELSE "-", "failed")
    /\ UNCHANGED <<keyed, centre, item, changes, mails, touched>>

CheckStatus ==
    /\ job.pc = "status"
    /\ IF isCustomerNotifiable(centre[c0].status)
       THEN /\ job' = [job EXCEPT !.pc = CASE job.kind = "evening" -> "stuck"
                                           [] job.kind = "weekly" -> "digest"
                                           [] OTHER -> "forecast"]
            /\ UNCHANGED rows
       ELSE Row(IF job.kind = "evening" THEN "excluded" ELSE "-", "excluded")
    /\ UNCHANGED <<keyed, centre, item, changes, mails, touched>>

ToDigest(outcome) == job' = [job EXCEPT !.pc = "digest", !.stuck = outcome]

StuckFails ==
    /\ job.pc = "stuck"
    /\ ToDigest("failed")
    /\ UNCHANGED <<keyed, centre, item, changes, mails, rows, touched>>

\* notifyStuckWorkForSite: the items are read, ...
FindStuck ==
    /\ job.pc = "stuck"
    /\ LET found == {i \in workScopeFor(c0, c0 = job.first) : Stuck(i)} IN
       IF found = {} THEN ToDigest("none")
       ELSE job' = [job EXCEPT !.pc = "address", !.found = found]
    /\ UNCHANGED <<keyed, centre, item, changes, mails, rows, touched>>

\* ... then the recipients, and one mail names those that began first and counts
\* the rest of what was read.
AnnounceStuck ==
    /\ job.pc = "address"
    /\ \E settingsRead, staffRead \in BOOLEAN :
       IF resolveRecipients(c0, settingsRead, staffRead)
       THEN \E outcome \in Outcomes, named \in SUBSET job.found :
                /\ Shows(job.found, named)
                /\ Mail("stuck", outcome, c0, c0, named, Cardinality(job.found \ named))
                /\ ToDigest(outcome)
       ELSE ToDigest("nobody") /\ UNCHANGED mails
    /\ UNCHANGED <<keyed, centre, item, changes, rows, touched>>

DigestFails ==
    /\ job.pc = "digest"
    /\ Row(job.stuck, "failed")
    /\ UNCHANGED <<keyed, centre, item, changes, mails, touched>>

\* sendSummaryForSite for a centre that asked for it; the activity is left open.
SendDigest ==
    /\ job.pc = "digest"
    /\ \E busy, settingsRead, staffRead \in BOOLEAN :
       CASE ~centre[c0].wants -> Row(job.stuck, "unasked") /\ UNCHANGED mails
         [] centre[c0].wants /\ ~buildSummaryMail(c0, busy) ->
                Row(job.stuck, "none") /\ UNCHANGED mails
         [] OTHER ->
                IF resolveRecipients(c0, settingsRead, staffRead)
                THEN \E outcome \in Outcomes :
                        Mail("digest", outcome, c0, c0, {}, 0) /\ Row(job.stuck, outcome)
                ELSE Row(job.stuck, "nobody") /\ UNCHANGED mails
    /\ UNCHANGED <<keyed, centre, item, changes, touched>>

\* The forecast of a centre with coordinates, if its peak is a warning; heat
\* warnings that find nobody go to the operator.
Forecast ==
    /\ job.pc = "forecast"
    /\ \/ Row("-", "failed") /\ UNCHANGED mails
       \/ \E hot \in BOOLEAN :
          IF centre[c0].placed /\ hot
          THEN \E settingsRead, staffRead \in BOOLEAN, outcome \in Outcomes :
                /\ Mail("forecast", outcome, c0,
                        IF resolveRecipients(c0, settingsRead, staffRead) THEN c0 ELSE None,
                        {}, 0)
                /\ Row("-", outcome)
          ELSE Row("-", "none") /\ UNCHANGED mails
    /\ UNCHANGED <<keyed, centre, item, changes, touched>>

\* sendMasterRollup; the forecast has none.
Rollup ==
    /\ job.pc = "rollup"
    /\ IF job.kind = "forecast" THEN UNCHANGED mails
       ELSE \E outcome \in Outcomes : Mail("rollup", outcome, None, None, {}, 0)
    /\ job' = [job EXCEPT !.pc = "done"]
    /\ UNCHANGED <<keyed, centre, item, changes, rows, touched>>

\* The instance is stopped; the jobs are not repeated.
JobDies ==
    /\ job.pc \notin {"idle", "done", "dead"}
    /\ job' = [job EXCEPT !.pc = "dead"]
    /\ UNCHANGED <<keyed, centre, item, changes, mails, rows, touched>>

-----------------------------------------------------------------------------
(* The offices *)

Office(x) ==
    /\ job.pc \notin {"done", "dead"}
    /\ changes < MaxOffice
    /\ changes' = changes + 1
    /\ touched' = IF job.pc = "idle" THEN touched ELSE touched \cup {x}
    /\ UNCHANGED <<keyed, job, mails, rows>>

ItemMoves(i) ==
    /\ Office(<<"item", i>>)
    /\ \E status \in {"ACTIVE", "PAUSED", "ENDED"} \ {item[i].status} :
        item' = [item EXCEPT ![i].status = status]
    /\ UNCHANGED centre

StarterMoves(i) ==
    /\ Office(<<"item", i>>)
    /\ \E place \in Places \ {item[i].at} : item' = [item EXCEPT ![i].at = place]
    /\ UNCHANGED centre

CentreChanges(n) ==
    /\ Office(<<"centre", n>>)
    /\ \/ \E status \in Statuses \ {centre[n].status} : centre' = [centre EXCEPT ![n].status = status]
       \/ centre' = [centre EXCEPT ![n].active = ~@]
       \/ centre' = [centre EXCEPT ![n].addressed = ~@]
       \/ centre' = [centre EXCEPT ![n].wants = ~@]
       \/ centre' = [centre EXCEPT ![n].placed = ~@]
    /\ UNCHANGED item

FirstCentres ==
    [Centres -> [active : {TRUE}, status : Statuses, addressed : {TRUE},
                 verified : {TRUE}, wants : {TRUE}, placed : {TRUE}]]

FirstItems == [Items -> {r \in [at : Places, status : {"ACTIVE", "PAUSED"}, old : BOOLEAN] :
                           r.status = "ACTIVE" => r.old}]

NoticesFrom(key, centres, items) ==
    /\ keyed = key /\ centre = centres /\ item = items
    /\ changes = 0
    /\ job = NoJob
    /\ mails = <<>> /\ rows = <<>> /\ touched = {}

NoticesInit ==
    \E key \in BOOLEAN, centres \in FirstCentres, items \in FirstItems :
        NoticesFrom(key, centres, items)

NoticesNext ==
    \/ \E kind \in Kinds : StartPass(kind)
    \/ StatusFails \/ CheckStatus \/ StuckFails \/ FindStuck \/ AnnounceStuck
    \/ DigestFails \/ SendDigest \/ Forecast \/ Rollup \/ JobDies
    \/ \E i \in Items : ItemMoves(i) \/ StarterMoves(i)
    \/ \E n \in Centres : CentreChanges(n)

NoticesSpec == NoticesInit /\ [][NoticesNext]_noticeVars

-----------------------------------------------------------------------------
(* Property *)

\* The mails of a kind about a centre.
Sent(kind, n) == {m \in 1..Len(mails) : mails[m].kind = kind /\ mails[m].on = n}

\* The mail that a pass of this kind may send to every centre.
SummarySent(n) ==
    IF job.kind = "forecast" THEN Sent("forecast", n) # {} ELSE Sent("digest", n) # {}

\* The centre an item is announced by: its starter's, the first one for a
\* starter without a place.
Home(i) == IF item[i].at = None THEN job.first ELSE item[i].at

\* When a pass is over, its report has one row for each centre of its list, no
\* other, and tells what happened: the mail of stuck work, and the summary or the
\* forecast, went out about a centre exactly if the row says so, and never twice;
\* every item that was stuck all the time is in its own centre's mail, named or,
\* beyond the rows a mail has, counted, or else that row does not say there was
\* none; and no such item is named to another centre.
NoticesTell ==
    job.pc = "done" =>
        /\ \A n \in Centres : Cardinality({k \in 1..Len(rows) : rows[k].on = n})
                             = IF n \in job.list THEN 1 ELSE 0
        /\ \A k \in 1..Len(rows) :
            LET n == rows[k].on
                untouched == {i \in Items : <<"item", i>> \notin touched}
                due == {i \in untouched : Stuck(i) /\ Home(i) = n} IN
            /\ (rows[k].stuck = "sent") <=> (Sent("stuck", n) # {})
            /\ (rows[k].digest = "sent") <=> SummarySent(n)
            /\ \A kind \in {"stuck", "digest", "forecast"} : Cardinality(Sent(kind, n)) <= 1
            /\ rows[k].stuck = "none" => due = {}
            /\ \A m \in Sent("stuck", n) :
                /\ mails[m].items \cap untouched \subseteq due
                /\ Cardinality(due \ mails[m].items) <= mails[m].more
                /\ mails[m].more = 0 \/ Cardinality(mails[m].items) = MailRows
=============================================================================
