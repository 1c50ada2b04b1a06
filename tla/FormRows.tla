------------------------------ MODULE FormRows ------------------------------
(***************************************************************************)
(* What the forms of the program have in common                            *)
(* (app/route_helpers/form_parsing.py): rows under indices, and a limit on *)
(* the indices that are read.                                              *)
(***************************************************************************)
EXTENDS Integers

CONSTANT MaxIndexedEntries   \* MAX_INDEXED_ENTRIES: indices are below it

ASSUME LimitAssumption == MaxIndexedEntries \in Nat \ {0}

TooMany(indices) == \E i \in indices : i >= MaxIndexedEntries
=============================================================================
