---------------------------- MODULE MCPackServer ----------------------------
(***************************************************************************)
(* The year 2024, federal and of a state, with their standard packs, and   *)
(* of a state that ships none. Two questions are asked side by side: two        *)
(* processes that edit federal packs at once ("editors"), over rules of    *)
(* which one refers to the other, and one process that edits, serves and   *)
(* restarts ("server"), over a rule and the constant it looks up.          *)
(***************************************************************************)
EXTENDS PackServer, TLC

CONSTANTS p1, p2, fed, ny, ak, a, b, r, q, c

MCProcs == {p1, p2}
MCPlaces == {fed, ny, ak}
MCShipped == {fed, ny}
MCFederal == {fed}
MCYearOf == [pl \in {fed, ny, ak} |-> 2024]
MCPacks == {a, b}
MCRules == {r, q}
MCConsts == {c}
MCRefs == {<<r, q>>}
MCLookups == {<<q, c>>}
MCStdEntries == {r, q}

VARIABLE scope

MCInit == Init /\ scope \in {"editors", "server"}

(* The rules document of a request that is taken up stays within bounds.   *)
Within(p, entries) ==
  req'[p].doc \in {None, Torn} \/ req'[p].doc.entries \subseteq entries

Of(p, places) == req'[p].slot = None \/ req'[p].slot[1] \in places
OnlyFirst(p) == req'[p].slot # None => req'[p].slot[2] = 1

(* Both processes are up, and edit federal packs.                          *)
Editors == \E p \in Procs :
  \/ warm_caches(p)
  \/ (\A s \in Procs : Up(s)) /\ Edit(p) /\ Within(p, {r, q}) /\ Of(p, {fed})

(* One process; a state's year sees one custom pack at a time, an empty    *)
(* one.                                                                    *)
Server ==
  \/ Edit(p1) /\ Of(p1, {fed}) /\ Within(p1, {q, c})
  \/ Edit(p1) /\ Of(p1, {ny, ak}) /\ Within(p1, {}) /\ OnlyFirst(p1)
  \/ Serve(p1) \/ warm_caches(p1) \/ Dies(p1)

MCNext ==
  /\ UNCHANGED scope
  /\ \/ scope = "editors" /\ Editors
     \/ scope = "server" /\ Server

MCSpec == MCInit /\ [][MCNext]_<<vars, scope>>
Symmetry == Permutations({a, b})
=============================================================================
