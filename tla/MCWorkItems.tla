----------------------------- MODULE MCWorkItems -----------------------------
(* One work of worker w1, which w2 of no site joins.  The admin and the      *)
(* tablet's supervisor belong to w1's site, the stranger to another one.  The *)
(* field calls come without a device time; two desks edit beside them.        *)
EXTENDS WorkItems, TLC

CONSTANTS i1, i2, e1, w1, w2, admin, chief, master, stranger, s1, s2, m1, m2, d1, d2, h1

MCSiteOf ==
    [a \in {w1, w2, admin, chief, master, stranger} |->
        CASE a \in {w1, admin, chief} -> s1
          [] a \in {w2, master}       -> None
          [] a = stranger             -> s2]

MCCommands ==
    {[key |-> None, by |-> w1, starter |-> w1, crew |-> {}, at |-> None, memo |-> m1]}

Field(action, joins) ==
    [item |-> i1, action |-> action, id |-> e1, by |-> w1, actor |-> w1,
     at |-> None, memo |-> None, joins |-> joins]

MCEvents == {Field("PAUSE", {}), Field("RESUME", {}), Field("END", {w2})}

Office(op, by) ==
    [op |-> op, item |-> i1, by |-> by, approver |-> None, startedAt |-> None,
     endedAt |-> None, memo |-> None, starter |-> None, crew |-> None]

Retime  == [Office("update", admin) EXCEPT !.startedAt = 0, !.endedAt = 1, !.memo = m2]
Postpone == [Office("update", admin) EXCEPT !.startedAt = 1]
Extend  == [Office("update", admin) EXCEPT !.endedAt = 1]
Remark  == [Office("mobileEdit", w1) EXCEPT !.approver = chief, !.memo = m2]
Reassign == [Office("mobileEdit", w1) EXCEPT !.approver = chief, !.starter = w2]
Recrew  == [Office("mobileEdit", chief) EXCEPT !.approver = chief, !.crew = {w2}]
Manual  == [Office("manual", master) EXCEPT !.startedAt = 0, !.endedAt = 1, !.memo = m1,
                                            !.starter = w1, !.crew = {w2}]

MCOfficeCalls ==
    {Office("void", chief), Office("forceEnd", chief), Office("restore", admin),
     Office("delete", admin), Office("mobileVoid", w2), Office("inspect", master),
     Office("batchInspect", admin), Office("void", stranger),
     Retime, Postpone, Extend, Remark, Reassign, Recrew, Manual}

\* The calls each disagreement with the documentation needs.
RacingVoid  == {Office("void", admin), Office("forceEnd", chief)}
RacingEdit  == {Remark}
Restoring   == {Office("restore", admin), Office("void", admin)}

\* Desks are interchangeable: no call, row or bound names one.
DeskSymmetry == Permutations(Desks)
=============================================================================
