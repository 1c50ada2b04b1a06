----------------------------- MODULE RunLedger -----------------------------
(***************************************************************************)
(* What the store of saved runs promises its users, with no hash chain, no *)
(* lock and no transaction: a ledger of runs in the order they were saved. *)
(* A run enters at the end, leaves from anywhere, and in between only its  *)
(* annotation may be changed.  A stored body may also be edited behind the *)
(* program's back (the database is a local file).                          *)
(***************************************************************************)

CONSTANTS Ids,      \* run identifiers
          Contents  \* what a user sees of a run: its body and annotation

VARIABLES runs,     \* runs[i] is what is recorded under i, or None
          before    \* the pairs <<i, j>> where run i was saved before run j

CONSTANT None

vars == <<runs, before>>

Recorded == {i \in Ids : runs[i] # None}

Init ==
  /\ runs = [i \in Ids |-> None]
  /\ before = {}

(* A new run is the last of the ledger. *)
Append(i, c) ==
  /\ i \notin Recorded
  /\ runs' = [runs EXCEPT ![i] = c]
  /\ before' = before \cup (Recorded \X {i})

(* The runs that stay keep their order. *)
Remove(i) ==
  /\ i \in Recorded
  /\ runs' = [runs EXCEPT ![i] = None]
  /\ before' = {p \in before : i \notin {p[1], p[2]}}

(* An annotation, or an edit of the file. *)
Change(i, c) ==
  /\ i \in Recorded
  /\ runs' = [runs EXCEPT ![i] = c]
  /\ UNCHANGED before

Next ==
  \E i \in Ids :
    \/ Remove(i)
    \/ \E c \in Contents : Append(i, c) \/ Change(i, c)

Spec == Init /\ [][Next]_vars
=============================================================================
