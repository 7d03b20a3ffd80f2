---------------------------- MODULE MCDirectory -----------------------------
(***************************************************************************)
(* A small instance of Directory: one seeded and one other user and app,   *)
(* with the seeded user_principal_name and app_id_uri open to be taken.    *)
(***************************************************************************)
EXTENDS Directory

CONSTANTS alice, aliceUpn, team, spa, spaUri, l1

MCSeedUpn == [u \in {alice} |-> aliceUpn]
MCSeedMembers == {<<team, alice>>}
MCSeedUri == [a \in {spa} |-> spaUri]
MCSeedParts == {<<spa, l1>>}
=============================================================================
