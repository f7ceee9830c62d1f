------------------------------- MODULE Scores -------------------------------
(* The month of one worker as createScoreRun adds it up, record by record,   *)
(* the score of each track, and the grade that pays                          *)
(* (src/incentives/incentives.service.ts, incentive-utils.ts).  Points are   *)
(* whole hundredths, as fix2 leaves them; a quotient is exact before fix2.   *)
EXTENDS Integers, Sequences

CONSTANTS
    Splits,                      \* the weights a policy may carry
    WorkingDays, MinDays,        \* workingDays and minDaysWorked of the policy
    Throughput, VolumeGoal,      \* baselines of OUTBOUND
    SessionGoal, QuantityGoal,   \* baselines of INBOUND_DOCK
    CheckGoal, CoverageGoal,     \* baselines of INSPECTION
    TeamGoal, ExceptionGoal,     \* baselines of MANAGER
    MaxEntries,                  \* bound: records of the month
    Sizes                        \* bound: CBM, hours or boxes of one record

Aspects == {"performance", "reliability", "teamwork"}

\* What createPolicyVersion asks of the weights; one of them may be negative.
AddUp(w) == w \in [Aspects -> Int] /\ w.performance + w.reliability + w.teamwork = 100

ASSUME ScoresAssumption ==
    /\ \A w \in Splits : AddUp(w)
    /\ {WorkingDays, MinDays, Throughput, VolumeGoal, SessionGoal, QuantityGoal, CheckGoal,
        CoverageGoal, TeamGoal, ExceptionGoal} \subseteq Nat \ {0}
    /\ MaxEntries \in Nat /\ Sizes \subseteq Nat

VARIABLES
    track,  \* the track of the policy and of the worker
    split,  \* the weights of the policy
    month,  \* the worker's statistics
    entries \* records added so far

scoreVars == <<track, split, month, entries>>

Tracks == {"OUTBOUND", "INBOUND_DOCK", "INSPECTION", "MANAGER"}

\* TRACK_NOMINAL_MAX
Nominal(t) ==
    [performance |-> 10000,
     reliability |-> CASE t = "INSPECTION" -> 6000 [] t = "MANAGER" -> 10000 [] OTHER -> 5000,
     teamwork |-> IF t = "INSPECTION" THEN 6000 ELSE 10000]

AtMost(max, n) == IF n > max THEN max ELSE n

AtLeast(min, n) == IF n < min THEN min ELSE n

\* fix2(n / d)
Fix2(n, d) == (2 * n + d) \div (2 * d)

\* fix2(clamp(n / d, 0, max)), and 0 when there is nothing to divide by.
Points(n, d, max) == IF d = 0 THEN 0 ELSE AtMost(max, AtLeast(0, Fix2(n, d)))

\* Mutant: more penalties than points leave a negative score.
NormalUncut(raw, max) == AtMost(10000, Fix2(10000 * raw, max))

\* normalizeCategory
Normal(raw, max) == Points(10000 * raw, max, 10000)

Attendance(s, max) == Points(max * s.days, WorkingDays, max)

\* Attendance less the voids and edits among the items.
Reliability(s, attend, void, maxVoid, edit, maxEdit) ==
    Attendance(s, attend) - Points(void * s.voids, s.items, maxVoid)
                          - Points(edit * s.edits, s.items, maxEdit)

\* The raw points of each track, before normalizeCategory.
RawOutbound(s) ==
    [performance |-> Points(2000 * s.items, s.days * Throughput, 4000)
                   + Points(1500 * s.volume * WorkingDays, s.hours * VolumeGoal, 3000)
                   + Points(1500 * s.volume, VolumeGoal, 3000),
     reliability |-> Reliability(s, 5000, 25000, 2500, 15000, 1500),
     teamwork |-> Points(5000 * s.team, s.items, 5000) + Points(6000 * s.team, s.items, 3000)
                + AtMost(2000, 50 * s.mates)]

\* Nothing approved is nothing wrong: the accuracy is full.
Accuracy(s) == IF s.approved = 0 THEN 2500
               ELSE Points(2500 * (s.approved - s.diff), s.approved, 2500)

RawInboundDock(s) ==
    [performance |-> Points(1250 * s.sessions, SessionGoal, 2500)
                   + Points(1250 * s.approved, QuantityGoal, 2500)
                   + Points(1250 * s.volume, VolumeGoal, 2500) + Accuracy(s),
     reliability |-> Reliability(s, 5000, 20000, 2500, 10000, 1500),
     teamwork |-> AtMost(6000, 200 * s.team)
                + (IF s.sessions > 0 /\ s.volume > 0 THEN 4000 ELSE 0)]

\* The rate of defects found, in percent of the boxes: 3 is best, up to 6 is
\* normal, up to 15 counts less and less.
Detection(s) ==
    LET q == s.checked
        found == 100 * s.defects
        off == IF found > 3 * q THEN found - 3 * q ELSE 3 * q - found
    IN CASE q = 0 -> 0
         [] q > 0 /\ found <= 6 * q -> Points(12000 * q - 1000 * off, 3 * q, 4000)
         [] q > 0 /\ found > 6 * q /\ found <= 15 * q ->
                Points(13500 * q + 1500 * (15 * q - found), 9 * q, 3000)
         [] q > 0 /\ found > 15 * q -> 1000

RawInspection(s) ==
    [performance |-> Points(1750 * s.checks, CheckGoal, 3500) + Detection(s)
                   + Points(1250 * s.checked, CoverageGoal, 2500),
     reliability |-> Reliability(s, 6000, 20000, 2000, 10000, 1000),
     teamwork |-> AtMost(6000, 200 * s.team)]

\* managedWorkerAvgScore, exceptionsHandled, teamTotalVoids, teamTotalItems:
\* initStats sets them, and nothing else does.
Managed == [score |-> 0, exceptions |-> 0, voids |-> 0, items |-> 0]

RawManager(s) ==
    [performance |-> Points(3500 * Managed.score, TeamGoal, 3500)
                   + Points(1750 * Managed.exceptions, ExceptionGoal, 3500) + Attendance(s, 3000),
     reliability |-> 5000 - Points(50000 * Managed.voids, Managed.items, 5000)
                   + Attendance(s, 2500) + 2500,
     teamwork |-> AtMost(6000, 300 * Managed.exceptions) + AtMost(4000, 400 * s.team)]

Raw(t, s) == CASE t = "OUTBOUND" -> RawOutbound(s)
               [] t = "INBOUND_DOCK" -> RawInboundDock(s)
               [] t = "INSPECTION" -> RawInspection(s)
               [] t = "MANAGER" -> RawManager(s)

\* performanceScore, reliabilityScore, teamworkScore
Categories(t, s) == [a \in Aspects |-> Normal(Raw(t, s)[a], Nominal(t)[a])]

\* Too few days exclude the worker.
Excluded(t, s) == t # "MANAGER" /\ s.days < MinDays

\* The totalScore of the entry; nothing clamps it.
Total(t, s) ==
    LET c == Categories(t, s)
    IN IF Excluded(t, s) THEN 0
       ELSE Fix2(c.performance * split.performance + c.reliability * split.reliability
                 + c.teamwork * split.teamwork, 100)

\* DEFAULT_PAYOUT_BANDS, of a policy that carries no payoutBands of its own.
Bands == <<[min |-> 9000, max |-> 10000, amount |-> 500000],
           [min |-> 8000, max |-> 8900, amount |-> 400000],
           [min |-> 7000, max |-> 7900, amount |-> 300000],
           [min |-> 6000, max |-> 6900, amount |-> 150000],
           [min |-> 0, max |-> 5900, amount |-> 0]>>

\* getGrade: the first band the score is in, and none is E, without pay.
Pay(score) ==
    LET in == {b \in DOMAIN Bands : Bands[b].min <= score /\ score <= Bands[b].max}
    IN IF in = {} THEN 0 ELSE Bands[CHOOSE b \in in : \A c \in in : b <= c].amount

-----------------------------------------------------------------------------
(* The records of the month *)

Add(more) ==
    /\ entries < MaxEntries
    /\ entries' = entries + 1
    /\ month' = [f \in DOMAIN month |-> month[f] + (IF f \in DOMAIN more THEN more[f] ELSE 0)]
    /\ UNCHANGED <<track, split>>

One(b) == IF b THEN 1 ELSE 0

\* An item that ended, with its volume and its hours less the pauses; the
\* others on it; whether it was voided before, or edited.
AddItem(volume, hours, newDay, mates, voided, edited) ==
    /\ month.days = 0 => newDay
    /\ Add([items |-> 1, volume |-> volume, hours |-> hours, days |-> One(newDay),
            team |-> One(mates > 0), mates |-> mates, voids |-> One(voided), edits |-> One(edited)])

\* An inspection record; its day does not count as a day of work.
AddCheck(checked, defects) ==
    /\ track = "INSPECTION"
    /\ defects <= checked
    /\ Add([checks |-> 1, checked |-> checked, defects |-> defects])

\* An inbound session the worker took part in.
AddSession(approved, quantity, diff) ==
    /\ track = "INBOUND_DOCK"
    /\ Add([sessions |-> 1, approved |-> IF approved THEN quantity ELSE 0,
            diff |-> IF approved THEN diff ELSE 0])

ScoresInit ==
    /\ track \in Tracks /\ split \in Splits
    /\ month = [f \in {"items", "volume", "hours", "days", "team", "mates", "voids", "edits",
                       "checks", "checked", "defects", "sessions", "approved", "diff"} |-> 0]
    /\ entries = 0

ScoresNext ==
    \/ \E volume, hours \in Sizes, newDay, voided, edited \in BOOLEAN, mates \in {0, 1} :
        AddItem(volume, hours, newDay, mates, voided, edited)
    \/ \E checked, defects \in Sizes : AddCheck(checked, defects)
    \/ \E approved \in BOOLEAN, quantity, diff \in Sizes : AddSession(approved, quantity, diff)

ScoresSpec == ScoresInit /\ [][ScoresNext]_scoreVars

-----------------------------------------------------------------------------
(* Properties *)

\* The scale of incentive-utils.ts 17-28: no month earns more raw points than
\* the nominal maximum of its track, so that normalisation cuts nothing off and
\* no score is negative; and whatever the weights are, as long as none is
\* negative, the total lies between the worst and the best category.
ScoresKeepScale ==
    LET c == Categories(track, month)
        total == Total(track, month)
    IN /\ \A a \in Aspects : Raw(track, month)[a] <= Nominal(track)[a] /\ c[a] >= 0
       /\ (\A a \in Aspects : split[a] >= 0) /\ ~Excluded(track, month)
          => \E low, high \in Aspects : c[low] <= total /\ total <= c[high]

\* "E등급 — 0~59 (지급 없음)": whoever has 60 to 100 points is paid.
OnlyLowScoresUnpaid == Total(track, month) \in 6000..10000 => Pay(Total(track, month)) > 0
=============================================================================
