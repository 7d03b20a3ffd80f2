---------------------------- MODULE RotationChain ----------------------------
(***************************************************************************)
(* What a refresh-token service promises: a sign-in opens a chain that has *)
(* at most one redeemable token; renewing spends that token and puts one   *)
(* that was never used before in its place; a chain that has ended stays   *)
(* ended.  Ending one chain leaves every other as it is.                   *)
(***************************************************************************)
CONSTANT Tokens

VARIABLES
    redeemable,     \* for each chain, named by its first token, what can be redeemed
    used            \* every token value that was ever handed out

Init ==
    /\ redeemable = [c \in Tokens |-> {}]
    /\ used = {}

Open(c) ==
    /\ c \notin used
    /\ used' = used \cup {c}
    /\ redeemable' = [redeemable EXCEPT ![c] = {c}]

Renew(c, t, n) ==
    /\ redeemable[c] = {t}
    /\ n \notin used
    /\ used' = used \cup {n}
    /\ redeemable' = [redeemable EXCEPT ![c] = {n}]

End(c) ==
    /\ redeemable' = [redeemable EXCEPT ![c] = {}]
    /\ UNCHANGED used

EndAll ==
    /\ redeemable' = [c \in Tokens |-> {}]
    /\ UNCHANGED used

Next ==
    \/ \E c \in Tokens : Open(c)
    \/ \E c, t, n \in Tokens : Renew(c, t, n)
    \/ \E c \in Tokens : End(c)
    \/ EndAll

Spec == Init /\ [][Next]_<<redeemable, used>>
=============================================================================
