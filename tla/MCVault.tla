------------------------------ MODULE MCVault ------------------------------
(* Bounds for Vault: files to restore of every kind.  One of them is under
   another password than the database. *)
EXTENDS Vault

CONSTANTS p1, p2, r1, r2, t1, t2

MCUploads == {[key |-> k, runs |-> {r2}, tables |-> TRUE] : k \in {Plain, Unreadable, p1}}
=============================================================================
