-------------------------- MODULE AuthorizationCode --------------------------
(***************************************************************************)
(* What the authorization code grant promises for each code: it is issued  *)
(* for one signed-in user, one app and one redirect URI, and it is worth   *)
(* tokens at most once, for that user, app and URI.                        *)
(***************************************************************************)
CONSTANTS Codes, Users, Apps, Uris, Nothing

VARIABLES
    open,           \* what an unspent code is worth
    granted         \* what a code was redeemed for, if ever

vars == <<open, granted>>

Worth == [user : Users, app : Apps, uri : Uris]

Init ==
    /\ open = [c \in Codes |-> Nothing]
    /\ granted = [c \in Codes |-> Nothing]

Issue(c, w) ==
    /\ open[c] = Nothing
    /\ granted[c] = Nothing
    /\ open' = [open EXCEPT ![c] = w]
    /\ UNCHANGED granted

Redeem(c) ==
    /\ open[c] # Nothing
    /\ granted' = [granted EXCEPT ![c] = open[c]]
    /\ open' = [open EXCEPT ![c] = Nothing]

\* Codes that are spent without an answer, or wiped.
Void(C) ==
    /\ open' = [c \in Codes |-> IF c \in C THEN Nothing ELSE open[c]]
    /\ UNCHANGED granted

Next ==
    \/ \E c \in Codes, w \in Worth : Issue(c, w)
    \/ \E c \in Codes : Redeem(c)
    \/ \E C \in SUBSET Codes : Void(C)

Spec == Init /\ [][Next]_vars
=============================================================================
