----------------------------- MODULE MCRunStore -----------------------------
(***************************************************************************)
(* Bounds for RunStore.  The run checks liveness, so processes and ids are *)
(* not declared symmetric; what is asked is bounded instead.               *)
(***************************************************************************)
EXTENDS RunStore, FiniteSets, TLC

\* the runs edited or annotated, or about to be imported with an annotation
Touched == {i \in Saved(table) : table[i].body = Corrupt \/ table[i].notes # NoNotes}
  \cup {req[c].id : c \in {d \in Clients : pc[d] # "idle" /\ req[d].notes # NoNotes}}

(* No request or edit from outside makes a second such run.  What a process
   does once it was asked, and what fails, is not bounded by this. *)
MaxTouched == 1

MCNext ==
  \/ \E c \in Clients : Statement(c) \/ Crash(c)
  \/ /\ \/ \E c \in Clients : Request(c)
        \/ \E i \in Ids, b \in Bodies \cup {Corrupt} : Tamper(i, b)
     /\ Cardinality(Touched') <= MaxTouched

MCSpec == Init /\ [][MCNext]_vars /\ Fairness
=============================================================================
