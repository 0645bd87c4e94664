-------------------------------- MODULE Arrays --------------------------------
(***************************************************************************)
(* Array.prototype.filter, chosen by what it promises: SelectSeq is        *)
(* recursive, and nothing could be proved about it.                        *)
(***************************************************************************)
EXTENDS Naturals, Sequences

\* f enumerates the indices I in their order.
InOrder(I, f) ==
  /\ {f[a] : a \in DOMAIN f} = I
  /\ \A a, b \in DOMAIN f : a < b => f[a] < f[b]

\* What is left of s, in its order, if only the items at I are kept.
Filter(s, I) ==
  LET order == CHOOSE f \in UNION {[1 .. n -> I] : n \in 0 .. Len(s)} : InOrder(I, f)
  IN [a \in DOMAIN order |-> s[order[a]]]
=============================================================================
