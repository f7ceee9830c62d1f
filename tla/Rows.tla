-------------------------------- MODULE Rows --------------------------------
(* What the modules of the smaller services share: a table is a function    *)
(* from row numbers, given in the order of creation, to a row or None.      *)

EXTENDS Naturals

CONSTANT None  \* SQL NULL, and the row that is not there

\* A NULL is not a number.
ASSUME NullAssumption == None \notin Nat

\* The rows of a table.
Present(table) == {i \in DOMAIN table : table[i] # None}
=============================================================================
