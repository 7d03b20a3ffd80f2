--------------------------- MODULE MCTlsCertificate ---------------------------
(***************************************************************************)
(* TlsCertificate with the names of compat mode, of subdomain mode, and of *)
(* one further domain.                                                     *)
(***************************************************************************)
EXTENDS TlsCertificate, TLC

CONSTANTS base, star, login, extra

MCNames == {base, star, login, extra}
MCWildcardOf == [name \in MCNames |-> IF name = login THEN star ELSE name]
MCConfigs == {{base, star}, {base, star, login}, {base, star, extra}}
Symmetry == Permutations(Processes) \union Permutations(Pairs)
=============================================================================
