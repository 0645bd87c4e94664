---------------------- MODULE MCClientRequestProcessor ----------------------
(* Instances of ClientRequestProcessor for TLC.                            *)
EXTENDS ClientRequestProcessor, TLC

\* Sound for the safety runs: clients, threads and identifiers are
\* interchangeable there, the policy being the same for every client.
HandlerSymmetry ==
  Permutations(Handler) \union Permutations(Request)
    \union Permutations(Ctx) \union Permutations(Card)
=============================================================================
