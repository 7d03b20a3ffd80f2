------------------------------- MODULE Listing -------------------------------
(***************************************************************************)
(* One table of the directory as its readers see it: rows in a fixed       *)
(* order, served in pages that are offsets into the rows there are when    *)
(* the page is read.  The order is (created_at, id): an id is drawn at     *)
(* random and created_at has a resolution of one second, and the members   *)
(* of a group are ordered by when the USER was created, so a new row can   *)
(* appear anywhere.  Rows are numbered by their place in that order.       *)
(*                                                                         *)
(* Two readers share it: the lists of the portal (PortalList) and a Graph  *)
(* client that follows @odata.nextLink (GraphPaging).  Everybody else who  *)
(* writes to the table is OthersCreate and OthersDelete here.              *)
(***************************************************************************)
EXTENDS Naturals, FiniteSets

CONSTANTS
    Rows,       \* numbers: the rows there can ever be, in the order of the table
    Texts,      \* what can be typed into a search box
    NoText,     \* the empty search box
    Hits,       \* [Texts -> SUBSET Rows]: what a search finds (LIKE over two columns)
    MaxWrites   \* bound: writes to the table, sent by anybody

ASSUME ListingAssumption ==
    /\ Rows \subseteq Nat
    /\ IsFiniteSet(Rows)
    /\ NoText \in Texts
    /\ Hits \in [Texts -> SUBSET Rows]
    /\ Hits[NoText] = Rows
    /\ MaxWrites \in Nat

VARIABLES
    status,     \* [Rows -> {"unborn", "live", "dead"}]: an id is never used twice
    writes      \* how many writes were sent

listing == <<status, writes>>

Live == {r \in Rows : status[r] = "live"}

(* The row's place, from 1, among the rows of S. *)
Position(S, r) == Cardinality({q \in S : q <= r})

(* ORDER BY created_at, id LIMIT top OFFSET skip. *)
Page(S, skip, top) == {r \in S : Position(S, r) > skip /\ Position(S, r) <= skip + top}

(* list({ skip, top, search }) and count(search) of the repositories, read by the list routes
   of the Admin API in one turn of the event loop. *)
Matches(text) == Live \cap Hits[text]

Insert(r) == status[r] = "unborn" /\ status' = [status EXCEPT ![r] = "live"]
Remove(r) == status[r] = "live" /\ status' = [status EXCEPT ![r] = "dead"]

OthersCreate(r) ==
    /\ writes < MaxWrites
    /\ Insert(r)
    /\ writes' = writes + 1

OthersDelete(r) ==
    /\ writes < MaxWrites
    /\ Remove(r)
    /\ writes' = writes + 1

OthersEdit == \E r \in Rows : OthersCreate(r) \/ OthersDelete(r)

ListingInit ==
    /\ status \in [Rows -> {"unborn", "live"}]
    /\ writes = 0

ListingTypeOK ==
    /\ status \in [Rows -> {"unborn", "live", "dead"}]
    /\ writes \in 0..MaxWrites
=============================================================================
