----------------------------- MODULE WorkLedger -----------------------------
(***************************************************************************)
(* What the field path promises, without requests, locks or retries: an    *)
(* item is opened once per idempotency key, and every stamped event moves  *)
(* it at most once, along ACTIVE <-> PAUSED -> ENDED.                      *)
(***************************************************************************)
CONSTANTS Items, Keys, Accounts, EventIds, None

VARIABLES phase, key, taken

ledger == <<phase, key, taken>>

Actions == {"END", "PAUSE", "RESUME"}

\* What tells an event from another one of its item.
Marks == [action : Actions, actor : Accounts, event : EventIds \cup {None}]

From(action) ==
    CASE action = "END"    -> {"ACTIVE", "PAUSED"}
      [] action = "PAUSE"  -> {"ACTIVE"}
      [] action = "RESUME" -> {"PAUSED"}

To(action) ==
    CASE action = "END"    -> "ENDED"
      [] action = "PAUSE"  -> "PAUSED"
      [] action = "RESUME" -> "ACTIVE"

Init ==
    /\ phase = [i \in Items |-> "NONE"]
    /\ key = [i \in Items |-> None]
    /\ taken = [i \in Items |-> {}]

Open(i, k) ==
    /\ phase[i] = "NONE"
    /\ k # None => \A j \in Items : key[j] # k
    /\ phase' = [phase EXCEPT ![i] = "ACTIVE"]
    /\ key' = [key EXCEPT ![i] = k]
    /\ UNCHANGED taken

\* An event without an id cannot be told from the next one like it.
Take(i, m) ==
    /\ phase[i] \in From(m.action)
    /\ m \notin taken[i]
    /\ phase' = [phase EXCEPT ![i] = To(m.action)]
    /\ taken' = [taken EXCEPT ![i] = IF m.event = None THEN @ ELSE @ \cup {m}]
    /\ UNCHANGED key

Next ==
    \E i \in Items :
        \/ \E k \in Keys \cup {None} : Open(i, k)
        \/ \E m \in Marks : Take(i, m)

Spec == Init /\ [][Next]_ledger
=============================================================================
