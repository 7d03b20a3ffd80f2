------------------------- MODULE DeviceAuthorization -------------------------
(***************************************************************************)
(* What the device authorization grant promises for each device code: one  *)
(* decision at most, tokens at most once, only after an approval and only  *)
(* for the user who approved.                                              *)
(***************************************************************************)
CONSTANTS Codes, Users, NoUser

VARIABLES
    status,         \* "none", "pending", "approved", "denied" or "closed"
    approver,       \* who approved it, while it is approved
    granted         \* for whom tokens were minted, if ever

vars == <<status, approver, granted>>

Init ==
    /\ status = [c \in Codes |-> "none"]
    /\ approver = [c \in Codes |-> NoUser]
    /\ granted = [c \in Codes |-> NoUser]

Ask(c) ==
    /\ status[c] = "none"
    /\ status' = [status EXCEPT ![c] = "pending"]
    /\ UNCHANGED <<approver, granted>>

Approve(c, u) ==
    /\ status[c] = "pending"
    /\ status' = [status EXCEPT ![c] = "approved"]
    /\ approver' = [approver EXCEPT ![c] = u]
    /\ UNCHANGED granted

Deny(c) ==
    /\ status[c] = "pending"
    /\ status' = [status EXCEPT ![c] = "denied"]
    /\ UNCHANGED <<approver, granted>>

Redeem(c) ==
    /\ status[c] = "approved"
    /\ status' = [status EXCEPT ![c] = "closed"]
    /\ granted' = [granted EXCEPT ![c] = approver[c]]
    /\ approver' = [approver EXCEPT ![c] = NoUser]

\* Codes that expire, are reported denied or refused, or are wiped.
Close(C) ==
    /\ \A c \in C : status[c] # "none"
    /\ status' = [c \in Codes |-> IF c \in C THEN "closed" ELSE status[c]]
    /\ approver' = [c \in Codes |-> IF c \in C THEN NoUser ELSE approver[c]]
    /\ UNCHANGED granted

Next ==
    \/ \E c \in Codes : Ask(c) \/ Deny(c) \/ Redeem(c)
    \/ \E c \in Codes, u \in Users : Approve(c, u)
    \/ \E C \in SUBSET Codes : Close(C)

Spec == Init /\ [][Next]_vars
=============================================================================
