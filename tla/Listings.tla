------------------------------ MODULE Listings ------------------------------
(***************************************************************************)
(* One table of the directory, everybody who writes to it, and one reader  *)
(* that is observed: a portal tab that lists and edits it, or a Graph      *)
(* client that walks it.  To the reader that is observed the other one is  *)
(* one of the others: a reader changes nothing, and what a tab writes are  *)
(* rows created and deleted.                                               *)
(***************************************************************************)
EXTENDS PortalList, GraphPaging

VARIABLE reader     \* "tab" or "client"

vars == <<listing, portal, paging, reader>>

Init ==
    /\ reader \in {"tab", "client"}
    /\ ListingInit
    /\ PortalInit
    /\ PagingInit

Next ==
    /\ \/ /\ reader = "tab"
          /\ PortalStep \/ (OthersEdit /\ UNCHANGED idle)
          /\ Excuse
          /\ UNCHANGED paging
       \/ /\ reader = "client"
          /\ PagingStep \/ (OthersEdit /\ UNCHANGED <<walk, query, seen, twice, start>>)
          /\ Witness
          /\ UNCHANGED portal
    /\ UNCHANGED reader

Spec == Init /\ [][Next]_vars

TypeOK == reader \in {"tab", "client"} /\ ListingTypeOK /\ PortalTypeOK /\ PagingTypeOK

(* Every variable has its type, and the tab's view is the answer to its own query. *)
ListingSound == TypeOK /\ SettledViewIsOwnQuery
=============================================================================
