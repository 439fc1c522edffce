------------------------- MODULE MC_ClientFactory -------------------------
(* Two concurrent request workers, two callers. *)
EXTENDS ClientFactory, TLC

CONSTANTS r1, r2, u1, u2

MCRequests == {r1, r2}
MCUsers == {u1, u2}
\* for the refinement run: one scheme word of each kind, one of them not in
\* lower case
MCSchemes == {"Bearer", "clientcert", "Basic"}
MCSymmetry == Permutations(MCRequests) \cup Permutations(MCUsers)
=============================================================================
