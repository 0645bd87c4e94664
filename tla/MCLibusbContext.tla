--------------------------- MODULE MCLibusbContext ---------------------------
(* Instances of LibusbContext for TLC.                                     *)
EXTENDS LibusbContext, TLC

CONSTANTS x1, x2, x3, in, out, c1, c2, e1

AllIn == [x \in Transfer |-> in]
TwoOut == [x \in Transfer |-> IF x = x1 THEN in ELSE out]

\* x1 never times out.
MCTimeout == [x \in Transfer |-> IF x = x1 THEN 0 ELSE 1]
NoTimeout == [x \in Transfer |-> 0]

ClientSymmetry == Permutations(Client)
=============================================================================
