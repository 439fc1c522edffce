-------------------------- MODULE MC_DomainRepo --------------------------
(* Three domain GUIDs, two domain names, two seconds, up to three domains. *)
EXTENDS DomainRepo, TLC

CONSTANTS g1, g2, g3, n1, n2

MCDomainGUIDs == {g1, g2, g3}
MCDomainNames == {n1, n2}
\* the response does not influence any later step, and the properties read
\* it only on the step that produces it
MCView == <<domains, clock>>
MCSymmetry == Permutations(MCDomainGUIDs) \cup Permutations(MCDomainNames)
=============================================================================
