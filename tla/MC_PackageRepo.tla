-------------------------- MODULE MC_PackageRepo --------------------------
(* Two spaces, two apps, three package GUIDs, one image, two seconds. *)
EXTENDS PackageRepo, TLC

CONSTANTS s1, s2, a1, a2, i1, u1

MCSpaces == {s1, s2}
MCApps == {a1, a2}
MCImages == {i1}
MCUsers == {u1}
\* every caller may act in every space
MCAllRoles == MCUsers \X MCSpaces
\* the caller holds a role in s1 only
MCRolesS1 == {<<u1, s1>>}
\* the response does not influence any later step, so states that differ
\* only in it need not be explored twice
MCView == <<pkgs, clock>>
MCSymmetry == Permutations(MCSpaces) \cup Permutations(MCApps)
=============================================================================
