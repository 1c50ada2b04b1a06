---------------------------- MODULE MCRuleLoader ----------------------------
(* Bounds for RuleLoader: five rules, and fifteen references that may or may
   not be there.  They close rings of one to five rules, leave lists of up to
   three ready rules to insert into, and one names an id the pack lacks. *)
EXTENDS RuleLoader

MCMayRef == <<{Unknown, 2, 3}, {1, 3, 5}, {1, 2}, {1, 2, 3, 4, 5}, {1, 4}>>
=============================================================================
