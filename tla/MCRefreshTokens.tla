--------------------------- MODULE MCRefreshTokens --------------------------
(***************************************************************************)
(* Model-checking instances of RefreshTokens.  The generator's values and  *)
(* the request slots are interchangeable.                                  *)
(***************************************************************************)
EXTENDS RefreshTokens, TLC

Symmetry == Permutations(Tokens) \cup Permutations(Requests)
=============================================================================
