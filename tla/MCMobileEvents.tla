-------------------------- MODULE MCMobileEvents --------------------------
(* Worker w1 of site s1, worker w2 of no site (legacy) and a manager of     *)
(* site s2.  One item can be opened by a keyed call, resent with another    *)
(* device time, or by a keyless one; its events come stamped and unstamped, *)
(* with and without a device time, from its own crew and from the other     *)
(* site, each delivered any number of times to two handlers.                *)
EXTENDS MobileEvents, TLC

CONSTANTS i1, i2, k1, e1, w1, w2, boss, s1, s2, m1, m2, h1, h2

MCSiteOf ==
    [a \in {w1, w2, boss} |-> CASE a = w1 -> s1 [] a = w2 -> None [] a = boss -> s2]

Create(k, by, at) ==
    [key |-> k, by |-> by, starter |-> w1, crew |-> {w2}, at |-> at, memo |-> m1]

MCCommands == {Create(k1, w1, None), Create(k1, w1, 1), Create(k1, boss, None),
               Create(None, w1, None)}

Call(action, id, by, at, memo, joins) ==
    [item |-> i1, action |-> action, id |-> id, by |-> by, actor |-> w1,
     at |-> at, memo |-> memo, joins |-> joins]

MCEvents ==
    {Call(a, e1, w1, None, None, {}) : a \in {"PAUSE", "RESUME", "END"}}
    \cup {Call("PAUSE", None, w1, 1, None, {}), Call("RESUME", None, w1, 1, None, {}),
          Call("END", None, w1, 0, m2, {w2}),
          Call("PAUSE", e1, boss, None, None, {}), Call("RESUME", e1, w2, None, None, {})}

\* The calls of the liveness run: they contend for one item.
LiveCommands == {Create(None, w1, None)}
LiveEvents == {Call(a, e1, w1, None, None, {}) : a \in {"PAUSE", "RESUME", "END"}}

\* Handlers are interchangeable: no call, row or bound names one.
HandlerSymmetry == Permutations(Handlers)
=============================================================================
