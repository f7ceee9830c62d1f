------------------------------ MODULE MCBilling ------------------------------
(* One site with up to two subscription rows, two months of two days, and    *)
(* two executions at once.                                                   *)
EXTENDS Billing, TLC

CONSTANTS e1, e2

MCNoticeDays ==
    [s \in {"TRIAL", "ACTIVE", "PAST_DUE"} |-> IF s = "PAST_DUE" THEN {0} ELSE {1}]

\* Executions are interchangeable.
ExecSymmetry == Permutations(Execs)
=============================================================================
