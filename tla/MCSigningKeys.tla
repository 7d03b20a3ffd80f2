--------------------------- MODULE MCSigningKeys ----------------------------
(***************************************************************************)
(* Model-checking instances of SigningKeys.  Generated keys, processes and *)
(* response slots are interchangeable.                                     *)
(***************************************************************************)
EXTENDS SigningKeys, TLC

Symmetry == Permutations(Kids) \cup Permutations(Servers) \cup Permutations(Slots)
=============================================================================
