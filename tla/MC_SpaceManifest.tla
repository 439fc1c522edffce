------------------------- MODULE MC_SpaceManifest -------------------------
(* Two request workers, two callers, two spaces, two apps. *)
EXTENDS SpaceManifest, TLC

CONSTANTS q1, q2, c1, c2, s1, s2, a1, a2

MCRequests == {q1, q2}
MCCallers == {c1, c2}
MCSpaces == {s1, s2}
MCApps == {a1, a2}
\* c1 may write into both spaces, c2 into s1 only
MCRoles == {<<c1, s1>>, <<c1, s2>>, <<c2, s1>>}
MCSymmetry == Permutations(MCRequests) \cup Permutations(MCApps)
=============================================================================
