----------------------------- MODULE GraphPaging -----------------------------
(***************************************************************************)
(* A client of the Microsoft Graph endpoints reads a collection page by    *)
(* page: users, groups, the members of a group, the groups of a user.  The *)
(* server keeps nothing between two pages: a nextLink is the same query    *)
(* with $skiptoken, the offset at which the next page starts in whatever   *)
(* the collection is by then.                                              *)
(***************************************************************************)
EXTENDS Listing

CONSTANTS
    RawTops,        \* what a client puts into $top: numbers, or Junk
    RawTokens,      \* what it puts into $skiptoken before it has a nextLink
    Junk,           \* a query value that is no integer, or none at all
    DefaultTop,     \* DEFAULT_TOP
    MaxTop          \* MAX_TOP

ASSUME PagingAssumption ==
    /\ RawTops \subseteq Nat \cup {Junk}
    /\ RawTokens \subseteq Nat \cup {Junk}
    /\ Junk \notin Nat
    /\ DefaultTop \in Nat \ {0}
    /\ MaxTop \in Nat \ {0}

VARIABLES
    walk,       \* "idle", "asked", "walking", "done" or "refused"
    query,      \* [top, token]: the next request, the client's own or a nextLink
    seen,       \* the rows received so far
    twice,      \* those received more than once
    start,      \* history: the rows the first page was cut from, and its offset
    lost,       \* history: the rows deleted since
    came        \* history: the rows created since

paging == <<walk, query, seen, twice, start, lost, came>>

(* An integer from 1, at most MAX_TOP; anything else is the default. *)
ParseTop(raw) ==
    IF raw = Junk \/ raw = 0 THEN DefaultTop
    ELSE IF raw < MaxTop THEN raw ELSE MaxTop

ParseSkip(raw) == IF raw = Junk THEN 0 ELSE raw

\* Mutated: the offset grows by the default page size.
NextLink_Default(q) == [q EXCEPT !.token = ParseSkip(q.token) + DefaultTop]

(* buildNextLink keeps every parameter of the request and replaces $skiptoken. *)
NextLink(q) == [q EXCEPT !.token = ParseSkip(q.token) + ParseTop(q.top)]

HasMore(q, total) == ParseSkip(q.token) + ParseTop(q.top) < total

Ask(raw, token) ==
    /\ walk = "idle"
    /\ walk' = "asked"
    /\ query' = [top |-> raw, token |-> token]
    /\ UNCHANGED <<listing, seen, twice, start>>

(* sendCollection: the count and the page are read in one turn. *)
Serve ==
    /\ walk \in {"asked", "walking"}
    /\ LET page == Page(Live, ParseSkip(query.token), ParseTop(query.top))
           more == HasMore(query, Cardinality(Live))
       IN  /\ seen' = seen \cup page
           /\ twice' = twice \cup (seen \cap page)
           /\ walk' = IF more THEN "walking" ELSE "done"
           /\ query' = IF more THEN NextLink(query) ELSE query
    /\ start' = IF walk = "asked"
                THEN [rows |-> Live, skip |-> ParseSkip(query.token)] ELSE start
    /\ UNCHANGED listing

(* Instead of a page: 401 when the access token no longer verifies, 403 when /me is asked
   without a user, 404 when the group or user the collection hangs on is gone.  Each can
   come between any two pages. *)
Refuse ==
    /\ walk \in {"asked", "walking"}
    /\ walk' = "refused"
    /\ UNCHANGED <<listing, query, seen, twice, start>>

PagingStep ==
    \/ \E raw \in RawTops, token \in RawTokens : Ask(raw, token)
    \/ Serve
    \/ Refuse

(* What happened to the collection since the first page of a walk. *)
Witness ==
    LET before == IF walk = "walking" THEN Live ELSE Live'
    IN
    /\ lost' = lost \cup (before \ Live')
    /\ came' = came \cup (Live' \ before)

PagingInit ==
    /\ walk = "idle"
    /\ query = [top |-> Junk, token |-> Junk]
    /\ seen = {}
    /\ twice = {}
    /\ start = [rows |-> {}, skip |-> 0]
    /\ lost = {}
    /\ came = {}

PagingTypeOK ==
    /\ walk \in {"idle", "asked", "walking", "done", "refused"}
    /\ query \in [top : RawTops \cup {Junk}, token : Nat \cup {Junk}]
    /\ seen \subseteq Rows
    /\ twice \subseteq seen
    /\ start \in [rows : SUBSET Rows, skip : Nat]
    /\ lost \subseteq Rows
    /\ came \subseteq Rows

(* What following nextLinks to the end promises a client although the pages are offsets: a
   row that was there all the time is missed only because a row before it was deleted on the
   way, is received twice only because one before it was created on the way, and nothing is
   received that was not there at the start or created since.  (sendCollection and
   buildNextLink, whose offsets are the only memory of the walk.) *)
WalkErrsForCause ==
    walk = "done" =>
        /\ \A r \in (start.rows \cap Live) \ seen :
               \/ Position(start.rows, r) <= start.skip
               \/ \E d \in lost : d < r
        /\ \A r \in twice : \E c \in came : c < r
        /\ seen \subseteq start.rows \cup came
=============================================================================
