--------------------------- MODULE MCHashlineEdit ---------------------------
(* Two agents on a file of two lines with two texts: four contents, of      *)
(* which two are long, their second line being beyond the cap.  Every view  *)
(* has a tag of its own.                                                    *)
(* The formatter turns the content that is p everywhere into q everywhere.  *)
EXTENDS HashlineEdit, TLC

CONSTANTS a1, a2, p, q, cut

MCAgents  == {a1, a2}
MCLines   == {1, 2}
MCTexts   == {p, q}
MCBeyond  == {2}
MCLong    == {c \in [MCLines -> MCTexts] : c[2] = q}
Injective == [c \in [MCLines -> MCTexts \cup {cut}] |-> c]
Tidy      == [c \in [MCLines -> MCTexts] |->
                IF c = [l \in MCLines |-> p] THEN [l \in MCLines |-> q] ELSE c]
Symmetry  == Permutations(MCAgents)
=============================================================================
