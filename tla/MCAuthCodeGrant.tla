-------------------------- MODULE MCAuthCodeGrant ---------------------------
(***************************************************************************)
(* Model-checking instances of AuthCodeGrant.  Codes, sessions, users,     *)
(* redirect URIs and proof keys are interchangeable.                       *)
(***************************************************************************)
EXTENDS AuthCodeGrant, TLC

Symmetry ==
    Permutations(Codes) \cup Permutations(Sessions) \cup Permutations(Users)
        \cup Permutations(Uris) \cup Permutations(Proofs)
=============================================================================
