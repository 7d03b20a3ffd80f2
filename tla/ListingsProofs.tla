---------------------------- MODULE ListingsProofs -----------------------------
(***************************************************************************)
(* Proofs about Listings, for any table, any search and any page size.     *)
(***************************************************************************)
EXTENDS Listings, TLAPS, FiniteSetTheorems

\* The load in flight is for the query of now: whatever changes the query starts a load.
LoadIsOwnQuery == load # None => load.text = debounced /\ load.skip = skip

\* What the server has read for it shows this tab's own writes: being told of one starts a
\* load that has not been read yet.
LoadShowsOwnWrites ==
    load # None /\ load.of # None =>
        /\ gone \cap load.of = {}
        /\ \A r \in made \cap Hits[debounced] : r \in load.of \/ status[r] = "dead"

\* What this tab was told, or is about to be told, happened.
ToldIsTrue ==
    /\ \A r \in gone : status[r] = "dead"
    /\ \A r \in made : status[r] # "unborn"
    /\ delete # None /\ delete.answer = "ok" => status[delete.row] = "dead"
    /\ \A p \in posts : p.answer = "created" => p.row \in Rows /\ status[p.row] # "unborn"

\* A row that is gone stays gone, and one that was there is never unborn again.
RowsAge ==
    \A r \in Rows : /\ status[r] = "dead" => status'[r] = "dead"
                    /\ status[r] # "unborn" => status'[r] # "unborn"

ViewInv == SettledViewIsOwnQuery /\ OwnWritesShown /\ LoadIsOwnQuery /\ LoadShowsOwnWrites

IInv == TypeOK /\ ViewInv /\ ToldIsTrue

-----------------------------------------------------------------------------
\* A new load makes the view one that is loading, and has read nothing yet.
LEMMA LoadKeepsView ==
    ASSUME PortalTypeOK, NEW text \in Texts, NEW offset \in Nat, Load(text, offset),
           debounced' = text, skip' = offset, deleteBusy' <=> delete' # None
    PROVE  /\ ViewInv'
           /\ load' \in Loads /\ page' \in Loads \cup {None} /\ loading' = TRUE /\ error' = FALSE
           /\ disowned' \in [text : Texts, skip : Nat] \cup {None}
  <1>1. load' = [text |-> text, skip |-> offset, of |-> None] /\ load' \in Loads
    BY DEF Load, Loads
  <1>2. load' # None
    BY <1>1, PortalAssumption
  <1>3. page' \in Loads \cup {None} /\ loading' = TRUE /\ error' = FALSE
    BY DEF Load, PortalTypeOK
  <1>4. disowned' \in [text : Texts, skip : Nat] \cup {None}
    BY DEF Load, PortalTypeOK, Loads
  <1>5. ViewInv'
    BY <1>1, <1>2, <1>3
       DEF ViewInv, SettledViewIsOwnQuery, OwnWritesShown, LoadIsOwnQuery, LoadShowsOwnWrites
  <1>6. QED
    BY <1>1, <1>3, <1>4, <1>5

\* A step that leaves the query and the view alone keeps it, whatever happens to the rows.
LEMMA SameView ==
    ASSUME IInv, UNCHANGED <<view, debounced, skip, gone, made>>, RowsAge,
           deleteBusy' <=> delete' # None
    PROVE  ViewInv'
  <1>1. \A r \in made : r \in Rows
    BY DEF IInv, TypeOK, PortalTypeOK
  <1>2. QED
    BY <1>1
       DEF IInv, ViewInv, SettledViewIsOwnQuery, OwnWritesShown, LoadIsOwnQuery,
           LoadShowsOwnWrites, RowsAge, view

\* Rows age when they are inserted, removed or left alone.
LEMMA RowsDoAge ==
    ASSUME ListingTypeOK, UNCHANGED status \/ \E r \in Rows : Insert(r) \/ Remove(r)
    PROVE  RowsAge /\ status' \in [Rows -> {"unborn", "live", "dead"}]
  BY DEF ListingTypeOK, Insert, Remove, RowsAge

\* What was told stays true as rows age.
LEMMA StillTrue ==
    ASSUME IInv, RowsAge, UNCHANGED <<gone, made, delete, posts>>
    PROVE  ToldIsTrue'
  <1>1. (gone \cup made) \subseteq Rows /\ (delete # None => delete.row \in Rows)
    BY DEF IInv, TypeOK, PortalTypeOK, Deletes
  <1>2. QED
    BY <1>1 DEF IInv, ToldIsTrue, RowsAge

-----------------------------------------------------------------------------
\* What the user asks for starts a load of what is asked for.
LEMMA Query_IInv ==
    ASSUME IInv, Excuse, UNCHANGED <<paging, reader>>,
           \/ \E text \in Texts : SetSearch(text)
           \/ Debounce \/ NextPage \/ PrevPage \/ Retry
    PROVE  IInv'
  <1>1. UNCHANGED <<listing, dialog, saving, gone, made>>
    BY DEF SetSearch, Debounce, NextPage, PrevPage, Retry
  <1>2. /\ PortalTypeOK /\ ToldIsTrue'
        /\ excused' \in BOOLEAN
        /\ deleteBusy' <=> delete' # None
        /\ MaxTyping \in Nat /\ PageSize \in Nat
    BY <1>1, PortalAssumption
       DEF IInv, TypeOK, ViewInv, SettledViewIsOwnQuery, ToldIsTrue, listing, dialog, saving, Excuse
  <1>3. /\ search' \in Texts /\ debounced' \in Texts /\ skip' \in Nat /\ typed' \in 0..MaxTyping
        /\ Load(debounced', skip') \/ UNCHANGED <<view, debounced, skip>>
    <2>1. ASSUME NEW text \in Texts, SetSearch(text)
          PROVE  /\ search' = text /\ UNCHANGED debounced /\ skip' = 0 /\ typed' \in 0..MaxTyping
                 /\ Load(debounced', skip') \/ UNCHANGED <<view, debounced, skip>>
      BY <1>2, <2>1 DEF SetSearch, PortalTypeOK
    <2>2. CASE Debounce
      BY <1>2, <2>2 DEF Debounce, PortalTypeOK
    <2>3. CASE NextPage
      BY <1>2, <2>3 DEF NextPage, PortalTypeOK
    <2>4. CASE PrevPage
      BY <1>2, <2>4 DEF PrevPage, PortalTypeOK
    <2>5. CASE Retry
      BY <1>2, <2>5 DEF Retry, Reload, PortalTypeOK, asking
    <2>6. QED
      BY <1>2, <2>1, <2>2, <2>3, <2>4, <2>5 DEF PortalTypeOK
  <1>4. CASE Load(debounced', skip')
    <2>1. /\ ViewInv'
          /\ load' \in Loads /\ page' \in Loads \cup {None} /\ loading' = TRUE /\ error' = FALSE
          /\ disowned' \in [text : Texts, skip : Nat] \cup {None}
      BY <1>2, <1>3, <1>4, LoadKeepsView
    <2>2. PortalTypeOK'
      BY <1>1, <1>2, <1>3, <2>1 DEF PortalTypeOK, listing, dialog, saving
    <2>3. QED
      BY <1>1, <1>2, <2>1, <2>2
         DEF IInv, TypeOK, ListingTypeOK, PagingTypeOK, listing, paging
  <1>5. CASE UNCHANGED <<view, debounced, skip>>
    <2>1. PortalTypeOK'
      BY <1>1, <1>2, <1>3, <1>5 DEF PortalTypeOK, listing, dialog, saving, view
    <2>2. ViewInv'
      BY <1>1, <1>2, <1>5, SameView DEF listing, RowsAge
    <2>3. QED
      BY <1>1, <1>2, <2>1, <2>2
         DEF IInv, TypeOK, ListingTypeOK, PagingTypeOK, listing, paging
  <1>6. QED
    BY <1>3, <1>4, <1>5

\* What the server has read is on the screen until the next load, whatever arrives late.
LEMMA Answers_IInv ==
    ASSUME IInv, Excuse, UNCHANGED <<paging, reader>>,
           ServerReads \/ LoadArrives \/ LoadFails \/ DisownedArrives
    PROVE  IInv'
  <1>1. UNCHANGED <<listing, asking, dialog, saving, gone, made>>
    BY DEF ServerReads, LoadArrives, LoadFails, DisownedArrives
  <1>2. /\ PortalTypeOK /\ ToldIsTrue /\ ToldIsTrue'
        /\ excused' \in BOOLEAN
        /\ deleteBusy' <=> delete' # None
    BY <1>1
       DEF IInv, TypeOK, ViewInv, SettledViewIsOwnQuery, ToldIsTrue, listing, dialog, saving, Excuse
  <1>3. ASSUME PortalTypeOK', ViewInv'
        PROVE  IInv'
    BY <1>1, <1>2, <1>3 DEF IInv, TypeOK, ListingTypeOK, PagingTypeOK, listing, paging
  <1>4. CASE ServerReads
    <2> DEFINE read == Matches(load.text)
    <2>1. load \in Loads /\ load.text = debounced /\ load.skip = skip
      BY <1>2, <1>4 DEF ServerReads, PortalTypeOK, IInv, ViewInv, LoadIsOwnQuery
    <2>2. read \subseteq Rows
      BY DEF Matches, Live
    <2>3. load' \in Loads /\ load'.text = debounced /\ load'.skip = skip /\ load'.of = read
      BY <1>4, <2>1, <2>2 DEF ServerReads, Loads
    <2>4. gone \cap read = {} /\ \A r \in made \cap Hits[debounced] : r \in read \/ status[r] = "dead"
      <3>1. gone \subseteq Rows /\ made \subseteq Rows /\ status \in [Rows -> {"unborn", "live", "dead"}]
        BY <1>2 DEF PortalTypeOK, IInv, TypeOK, ListingTypeOK
      <3>2. QED
        BY <1>2, <2>1, <3>1 DEF ToldIsTrue, Matches, Live
    <2>5. PortalTypeOK'
      BY <1>1, <1>2, <1>4, <2>3 DEF PortalTypeOK, ServerReads, asking, dialog, saving
    <2> HIDE DEF read
    <2>6. load' # None /\ UNCHANGED <<page, loading, error, search, debounced, skip, gone, made, status>>
      BY <1>1, <1>4, <2>3, PortalAssumption DEF ServerReads, asking, listing
    <2>7. ViewInv'
      BY <1>2, <1>4, <2>3, <2>4, <2>6
         DEF ServerReads, IInv, ViewInv, SettledViewIsOwnQuery, OwnWritesShown, LoadIsOwnQuery,
             LoadShowsOwnWrites
    <2>8. QED
      BY <1>3, <2>5, <2>7
  <1>5. CASE LoadArrives
    <2>1. PortalTypeOK'
      BY <1>1, <1>2, <1>5 DEF PortalTypeOK, LoadArrives, asking, dialog, saving
    <2>2. ViewInv'
      BY <1>1, <1>2, <1>5
         DEF LoadArrives, IInv, ViewInv, SettledViewIsOwnQuery, OwnWritesShown, LoadIsOwnQuery,
             LoadShowsOwnWrites, asking, listing
    <2>3. QED
      BY <1>3, <2>1, <2>2
  <1>6. CASE LoadFails
    <2>1. PortalTypeOK'
      BY <1>1, <1>2, <1>6 DEF PortalTypeOK, LoadFails, asking, dialog, saving
    <2>2. ViewInv'
      BY <1>1, <1>2, <1>6
         DEF LoadFails, IInv, ViewInv, SettledViewIsOwnQuery, OwnWritesShown, LoadIsOwnQuery,
             LoadShowsOwnWrites, asking, listing
    <2>3. QED
      BY <1>3, <2>1, <2>2
  <1>7. CASE DisownedArrives
    <2>1. PortalTypeOK'
      BY <1>1, <1>2, <1>7 DEF PortalTypeOK, DisownedArrives, asking, dialog, saving
    <2>2. ViewInv'
      BY <1>1, <1>2, <1>7
         DEF DisownedArrives, IInv, ViewInv, SettledViewIsOwnQuery, OwnWritesShown,
             LoadIsOwnQuery, LoadShowsOwnWrites, asking, listing
    <2>3. QED
      BY <1>3, <2>1, <2>2
  <1>8. QED
    BY <1>4, <1>5, <1>6, <1>7

\* A delete is told once the row is dead, and telling it starts a load.
LEMMA Dialog_IInv ==
    ASSUME IInv, Excuse, UNCHANGED <<paging, reader>>,
           \/ \E r \in Rows : AskDelete(r)
           \/ CloseDialog \/ ConfirmDelete \/ ServerDeletes \/ DeleteSucceeds \/ DeleteFails
    PROVE  IInv'
  <1>1. /\ UNCHANGED <<asking, saving, made>>
        /\ PortalTypeOK /\ ListingTypeOK /\ PagingTypeOK' /\ reader' \in {"tab", "client"}
        /\ ToldIsTrue
        /\ deleteBusy <=> delete # None
        /\ excused' \in BOOLEAN
    BY DEF AskDelete, CloseDialog, ConfirmDelete, ServerDeletes, DeleteSucceeds, DeleteFails,
           IInv, TypeOK, ViewInv, SettledViewIsOwnQuery, Excuse, PagingTypeOK, paging
  <1>2. ASSUME UNCHANGED view, UNCHANGED gone, RowsAge, ListingTypeOK', ToldIsTrue',
               deleting' \in Rows \cup {None}, deleteBusy' \in BOOLEAN,
               delete' \in Deletes \cup {None}, deleteBusy' <=> delete' # None
        PROVE  IInv'
    <2>1. ViewInv'
      BY <1>1, <1>2, SameView DEF asking
    <2>2. PortalTypeOK'
      BY <1>1, <1>2 DEF PortalTypeOK, asking, saving, view
    <2>3. QED
      BY <1>1, <1>2, <2>1, <2>2 DEF IInv, TypeOK
  <1>3. CASE (\E r \in Rows : AskDelete(r)) \/ CloseDialog
    <2>1. /\ UNCHANGED <<listing, view, gone, deleteBusy, delete>>
          /\ deleting' \in Rows \cup {None}
      BY <1>3 DEF AskDelete, CloseDialog
    <2>2. RowsAge /\ ListingTypeOK' /\ ToldIsTrue'
      BY <1>1, <2>1 DEF RowsAge, ListingTypeOK, ToldIsTrue, listing, saving
    <2>3. QED
      BY <1>1, <1>2, <2>1, <2>2 DEF PortalTypeOK
  <1>4. CASE ConfirmDelete
    <2>1. deleting \in Rows
      BY <1>1, <1>4 DEF ConfirmDelete, PortalTypeOK
    <2>2. delete' = [row |-> deleting, answer |-> "none"] /\ delete' \in Deletes
      BY <1>4, <2>1 DEF ConfirmDelete, Deletes
    <2>3. delete' # None
      BY <2>2, PortalAssumption
    <2>4. RowsAge /\ ListingTypeOK' /\ ToldIsTrue'
      BY <1>1, <1>4, <2>2, ListingAssumption
         DEF ConfirmDelete, RowsAge, ListingTypeOK, ToldIsTrue, saving
    <2>5. QED
      BY <1>1, <1>2, <1>4, <2>2, <2>3, <2>4 DEF ConfirmDelete, PortalTypeOK
  <1>5. CASE ServerDeletes
    <2>1. delete \in Deletes /\ delete # None
      BY <1>1, <1>5 DEF ServerDeletes, PortalTypeOK
    <2>2. /\ delete' \in Deletes /\ delete'.row = delete.row
          /\ UNCHANGED status \/ Remove(delete.row)
          /\ delete'.answer = "ok" => Remove(delete.row)
      BY <1>5, <2>1 DEF ServerDeletes, Deletes
    <2>3. delete' # None /\ delete.row \in Rows
      BY <2>1, <2>2, PortalAssumption DEF Deletes
    <2>4. RowsAge /\ ListingTypeOK'
      BY <1>1, <1>5, <2>2, <2>3, RowsDoAge DEF ServerDeletes, ListingTypeOK
    <2>5. gone \subseteq Rows /\ made \subseteq Rows /\ status \in [Rows -> {"unborn", "live", "dead"}]
      BY <1>1 DEF PortalTypeOK, ListingTypeOK
    <2>6. ToldIsTrue'
      BY <1>1, <1>5, <2>2, <2>3, <2>4, <2>5 DEF ServerDeletes, ToldIsTrue, RowsAge, Remove, saving
    <2>7. QED
      BY <1>1, <1>2, <1>5, <2>1, <2>2, <2>3, <2>4, <2>6 DEF ServerDeletes, PortalTypeOK
  <1>6. CASE DeleteSucceeds
    <2>1. delete \in Deletes /\ delete # None /\ status[delete.row] = "dead" /\ delete.row \in Rows
      BY <1>1, <1>6 DEF DeleteSucceeds, PortalTypeOK, ToldIsTrue, Deletes
    <2>2. /\ Load(debounced, skip) /\ debounced \in Texts /\ skip \in Nat
          /\ debounced' = debounced /\ skip' = skip /\ (deleteBusy' <=> delete' # None)
      BY <1>1, <1>6 DEF DeleteSucceeds, Reload, PortalTypeOK, asking
    <2>3. /\ ViewInv'
          /\ load' \in Loads /\ page' \in Loads \cup {None} /\ loading' = TRUE /\ error' = FALSE
          /\ disowned' \in [text : Texts, skip : Nat] \cup {None}
      BY <1>1, <2>2, LoadKeepsView
    <2>4. PortalTypeOK'
      BY <1>1, <1>6, <2>1, <2>3 DEF DeleteSucceeds, PortalTypeOK, asking, saving
    <2>5. ListingTypeOK' /\ ToldIsTrue'
      BY <1>1, <1>6, <2>1 DEF DeleteSucceeds, ListingTypeOK, ToldIsTrue, listing, saving
    <2>6. QED
      BY <1>1, <2>3, <2>4, <2>5 DEF IInv, TypeOK
  <1>7. CASE DeleteFails
    <2>1. RowsAge /\ ListingTypeOK' /\ ToldIsTrue'
      BY <1>1, <1>7 DEF DeleteFails, RowsAge, ListingTypeOK, ToldIsTrue, listing, saving
    <2>2. QED
      BY <1>1, <1>2, <1>7, <2>1 DEF DeleteFails, PortalTypeOK
  <1>8. QED
    BY <1>3, <1>4, <1>5, <1>6, <1>7

\* A creation is told once the row is there, and telling it starts a load.
LEMMA Drawer_IInv ==
    ASSUME IInv, Excuse, UNCHANGED <<paging, reader>>,
           \/ \E d \in Rows \cup {New, Members} : OpenDrawer(d)
           \/ CloseDrawer \/ Submit
           \/ \E p \in posts : ServerSaves(p) \/ SaveSucceeds(p) \/ SaveFails(p)
    PROVE  IInv'
  <1>1. /\ UNCHANGED <<asking, dialog, gone>>
        /\ PortalTypeOK /\ ListingTypeOK /\ PagingTypeOK' /\ reader' \in {"tab", "client"}
        /\ ToldIsTrue
        /\ deleteBusy' <=> delete' # None
        /\ excused' \in BOOLEAN
    <2>1. UNCHANGED <<asking, dialog, gone>>
      BY DEF OpenDrawer, CloseDrawer, Submit, ServerSaves, SaveSucceeds, SaveFails
    <2>2. PagingTypeOK' /\ reader' \in {"tab", "client"}
      BY DEF IInv, TypeOK, PagingTypeOK, paging
    <2>3. QED
      BY <2>1, <2>2 DEF IInv, TypeOK, ViewInv, SettledViewIsOwnQuery, Excuse, dialog
  <1>2. ASSUME UNCHANGED view, UNCHANGED made, RowsAge, ListingTypeOK',
               drawer' \in Rows \cup {None, New, Members}, posts' \subseteq Saves,
               \A p \in posts' : p.answer = "created" => p.row \in Rows /\ status'[p.row] # "unborn"
        PROVE  IInv'
    <2>1. ViewInv'
      BY <1>1, <1>2, SameView DEF asking
    <2>2. PortalTypeOK'
      BY <1>1, <1>2 DEF PortalTypeOK, asking, dialog, view
    <2>3. ToldIsTrue'
      <3>1. gone \subseteq Rows /\ made \subseteq Rows /\ (delete # None => delete.row \in Rows)
        BY <1>1 DEF PortalTypeOK, Deletes
      <3>2. QED
        BY <1>1, <1>2, <3>1 DEF ToldIsTrue, RowsAge, dialog
    <2>4. QED
      BY <1>1, <1>2, <2>1, <2>2, <2>3 DEF IInv, TypeOK
  <1>3. ASSUME Reload, UNCHANGED listing, drawer' = None, posts' \subseteq Saves, made' \subseteq Rows,
               \A r \in made' : status[r] # "unborn",
               \A p \in posts' : p.answer = "created" => p.row \in Rows /\ status[p.row] # "unborn"
        PROVE  IInv'
    <2>1. /\ Load(debounced, skip) /\ debounced \in Texts /\ skip \in Nat
          /\ debounced' = debounced /\ skip' = skip
      BY <1>1, <1>3 DEF Reload, PortalTypeOK, asking
    <2>2. /\ ViewInv'
          /\ load' \in Loads /\ page' \in Loads \cup {None} /\ loading' = TRUE /\ error' = FALSE
          /\ disowned' \in [text : Texts, skip : Nat] \cup {None}
      BY <1>1, <2>1, LoadKeepsView
    <2>3. PortalTypeOK'
      BY <1>1, <1>3, <2>2 DEF PortalTypeOK, asking, dialog
    <2>4. ListingTypeOK' /\ ToldIsTrue'
      BY <1>1, <1>3 DEF ListingTypeOK, ToldIsTrue, listing, dialog
    <2>5. QED
      BY <1>1, <2>2, <2>3, <2>4 DEF IInv, TypeOK
  <1>4. ASSUME NEW ps \in SUBSET posts
        PROVE  /\ ps \subseteq Saves /\ Orphaned(ps) \subseteq Saves
               /\ \A p \in ps \cup Orphaned(ps) :
                     p.answer = "created" => p.row \in Rows /\ status[p.row] # "unborn"
    <2>1. /\ ps \subseteq Saves
          /\ \A p \in ps : p.answer = "created" => p.row \in Rows /\ status[p.row] # "unborn"
      BY <1>1 DEF PortalTypeOK, ToldIsTrue
    <2>2. ASSUME NEW q \in Orphaned(ps)
          PROVE  q \in Saves /\ (q.answer = "created" => q.row \in Rows /\ status[q.row] # "unborn")
      <3>1. PICK p \in ps : q = [p EXCEPT !.mine = FALSE]
        BY <2>2 DEF Orphaned
      <3>2. p \in Saves
        BY <2>1
      <3>3. q \in Saves /\ q.answer = p.answer /\ q.row = p.row
        BY <3>1, <3>2 DEF Saves
      <3>4. QED
        BY <2>1, <3>3
    <2>3. QED
      BY <2>1, <2>2
  <1>5. UNCHANGED listing => RowsAge /\ ListingTypeOK'
    BY <1>1 DEF listing, RowsAge, ListingTypeOK
  <1>6. CASE \E d \in Rows \cup {New, Members} : OpenDrawer(d)
    BY <1>2, <1>4, <1>5, <1>6 DEF OpenDrawer, listing
  <1>7. CASE CloseDrawer
    <2>1. CASE drawer = Members
      BY <1>1, <1>3, <1>4, <1>7, <2>1 DEF CloseDrawer, PortalTypeOK, ToldIsTrue
    <2>2. CASE drawer # Members
      BY <1>2, <1>4, <1>5, <1>7, <2>2 DEF CloseDrawer, listing
    <2>3. QED
      BY <2>1, <2>2
  <1>8. CASE Submit
    <2> DEFINE p == [id |-> writes, row |-> drawer, answer |-> "none", mine |-> TRUE]
    <2>1. p \in Saves /\ p.answer = "none"
      BY <1>1, <1>8, ListingAssumption DEF Submit, PortalTypeOK, ListingTypeOK, Saves
    <2>2. posts' = posts \cup {p} /\ UNCHANGED <<status, view, drawer, made>>
      BY <1>8 DEF Submit
    <2>3. RowsAge /\ ListingTypeOK'
      BY <1>1, <1>8, ListingAssumption DEF Submit, RowsAge, ListingTypeOK
    <2> HIDE DEF p
    <2>4. QED
      BY <1>1, <1>2, <1>4, <2>1, <2>2, <2>3 DEF PortalTypeOK
  <1>9. ASSUME NEW p \in posts, ServerSaves(p)
        PROVE  IInv'
    <2>1. p \in Saves /\ UNCHANGED <<writes, view, drawer, made>>
      BY <1>1, <1>9 DEF ServerSaves, PortalTypeOK
    <2>2. CASE p.row = New
      <3>1. PICK r \in Rows : /\ Insert(r)
                              /\ posts' = (posts \ {p}) \cup {[p EXCEPT !.row = r, !.answer = "created"]}
        BY <1>9, <2>2 DEF ServerSaves
      <3>2. RowsAge /\ ListingTypeOK'
        BY <1>1, <2>1, <3>1, RowsDoAge DEF ListingTypeOK
      <3>3. status'[r] = "live"
        BY <1>1, <3>1 DEF Insert, ListingTypeOK
      <3> DEFINE q == [p EXCEPT !.row = r, !.answer = "created"]
      <3>4. q \in Saves /\ q.row = r
        BY <2>1 DEF Saves
      <3>5. posts' = (posts \ {p}) \cup {q}
        BY <3>1
      <3> HIDE DEF q
      <3>6. QED
        BY <1>1, <1>2, <1>4, <2>1, <3>2, <3>3, <3>4, <3>5 DEF PortalTypeOK, RowsAge
    <2>3. CASE p.row # New
      <3> DEFINE q == [p EXCEPT !.answer = IF status[p.row] = "live" THEN "ok" ELSE "refused"]
      <3>1. posts' = (posts \ {p}) \cup {q} /\ UNCHANGED listing
        BY <1>9, <2>1, <2>3 DEF ServerSaves, listing
      <3>2. q \in Saves /\ q.answer # "created"
        BY <2>1 DEF Saves
      <3> HIDE DEF q
      <3>3. QED
        BY <1>1, <1>2, <1>4, <1>5, <2>1, <3>1, <3>2 DEF PortalTypeOK, listing
    <2>4. QED
      BY <2>2, <2>3
  <1>10. ASSUME NEW p \in posts, SaveSucceeds(p)
         PROVE  IInv'
    <2>1. /\ Reload /\ UNCHANGED listing /\ drawer' = None
          /\ posts' = Orphaned(posts \ {p})
          /\ made' = IF p.answer = "created" THEN made \cup {p.row} ELSE made
      BY <1>10 DEF SaveSucceeds
    <2>2. /\ \A r \in made' : status[r] # "unborn"
          /\ made' \subseteq Rows
      BY <1>1, <1>4, <2>1 DEF PortalTypeOK, ToldIsTrue
    <2>3. QED
      BY <1>3, <1>4, <2>1, <2>2
  <1>11. ASSUME NEW p \in posts, SaveFails(p)
         PROVE  IInv'
    BY <1>1, <1>2, <1>4, <1>5, <1>11 DEF SaveFails, PortalTypeOK, listing
  <1>12. QED
    BY <1>6, <1>7, <1>8, <1>9, <1>10, <1>11

-----------------------------------------------------------------------------
\* The offset and the page size of a request are numbers, whatever the client sent.
LEMMA ParsedTypes ==
    ASSUME PagingTypeOK
    PROVE  ParseSkip(query.token) \in Nat /\ ParseTop(query.top) \in Nat
  <1>1. ParseSkip(query.token) \in Nat
    BY DEF PagingTypeOK, ParseSkip
  <1>2. query.top \in Nat \cup {Junk}
    BY PagingAssumption DEF PagingTypeOK
  <1>3. CASE query.top = Junk \/ query.top = 0
    BY <1>1, <1>3, PagingAssumption DEF ParseTop
  <1>4. CASE query.top # Junk /\ query.top # 0
    BY <1>1, <1>2, <1>4, PagingAssumption DEF ParseTop
  <1>5. QED
    BY <1>3, <1>4

\* A nextLink asks for the same page size from where the page ended.
LEMMA NextLinkType ==
    ASSUME PagingTypeOK
    PROVE  /\ NextLink(query) \in [top : RawTops \cup {Junk}, token : Nat \cup {Junk}]
           /\ ParseSkip(NextLink(query).token) = ParseSkip(query.token) + ParseTop(query.top)
  <1> DEFINE next == ParseSkip(query.token) + ParseTop(query.top)
  <1>1. next \in Nat /\ next # Junk
    BY ParsedTypes, PagingAssumption
  <1> HIDE DEF next
  <1>2. /\ NextLink(query) = [query EXCEPT !.token = next]
        /\ query \in [top : RawTops \cup {Junk}, token : Nat \cup {Junk}]
    BY DEF NextLink, next, PagingTypeOK
  <1>3. /\ NextLink(query) \in [top : RawTops \cup {Junk}, token : Nat \cup {Junk}]
        /\ NextLink(query).token = next
    BY <1>1, <1>2
  <1>4. QED
    BY <1>1, <1>3 DEF ParseSkip, next

\* What others do to the table leaves a tab's queries and what it was told alone.
LEMMA Others_IInv ==
    ASSUME IInv, OthersEdit, UNCHANGED idle, excused' \in BOOLEAN, PagingTypeOK', UNCHANGED reader
    PROVE  IInv'
  <1>1. PICK r \in Rows : OthersCreate(r) \/ OthersDelete(r)
    BY DEF OthersEdit
  <1>2. ListingTypeOK' /\ RowsAge
    BY <1>1, RowsDoAge, ListingAssumption
       DEF IInv, TypeOK, ListingTypeOK, OthersCreate, OthersDelete
  <1>3. ViewInv' /\ ToldIsTrue'
    BY <1>2, SameView, StillTrue
       DEF idle, asking, dialog, saving, IInv, ViewInv, SettledViewIsOwnQuery
  <1>4. PortalTypeOK'
    BY DEF IInv, TypeOK, PortalTypeOK, idle, asking, view, dialog, saving
  <1>5. QED
    BY <1>2, <1>3, <1>4 DEF IInv, TypeOK

\* A client that walks the collection disturbs nothing.
LEMMA Client_IInv ==
    ASSUME IInv, PagingStep \/ (OthersEdit /\ UNCHANGED <<walk, query, seen, twice, start>>),
           Witness, UNCHANGED <<portal, reader>>
    PROVE  IInv'
  <1>1. Live \subseteq Rows /\ Live' \subseteq Rows
    BY DEF Live
  <1>2. lost' \subseteq Rows /\ came' \subseteq Rows
    BY <1>1 DEF Witness, IInv, TypeOK, PagingTypeOK
  <1>3. CASE OthersEdit /\ UNCHANGED <<walk, query, seen, twice, start>>
    BY <1>2, <1>3, Others_IInv DEF IInv, TypeOK, PagingTypeOK, PortalTypeOK, portal
  <1>4. CASE PagingStep
    <2>1. PagingTypeOK'
      <3>1. ASSUME NEW raw \in RawTops, NEW token \in RawTokens, Ask(raw, token)
            PROVE  PagingTypeOK'
        BY <1>2, <3>1, PagingAssumption DEF Ask, IInv, TypeOK, PagingTypeOK
      <3>2. CASE Serve
        <4>1. Page(Live, ParseSkip(query.token), ParseTop(query.top)) \subseteq Rows
          BY <1>1 DEF Page
        <4>2. seen' \subseteq Rows /\ twice' \subseteq seen' /\ walk' \in {"walking", "done"}
          BY <3>2, <4>1 DEF Serve, IInv, TypeOK, PagingTypeOK
        <4>3. query' \in [top : RawTops \cup {Junk}, token : Nat \cup {Junk}]
          BY <3>2, NextLinkType DEF Serve, IInv, TypeOK, PagingTypeOK
        <4>4. start' \in [rows : SUBSET Rows, skip : Nat]
          BY <1>1, <3>2 DEF Serve, IInv, TypeOK, PagingTypeOK, ParseSkip
        <4>5. QED
          BY <1>2, <4>2, <4>3, <4>4 DEF PagingTypeOK
      <3>3. CASE Refuse
        BY <1>2, <3>3 DEF Refuse, IInv, TypeOK, PagingTypeOK
      <3>4. QED
        BY <1>4, <3>1, <3>2, <3>3 DEF PagingStep
    <2>2. UNCHANGED listing
      BY <1>4 DEF PagingStep, Ask, Serve, Refuse
    <2>3. ListingTypeOK' /\ RowsAge
      BY <2>2 DEF IInv, TypeOK, ListingTypeOK, RowsAge, listing
    <2>4. ViewInv' /\ ToldIsTrue'
      BY <2>3, SameView, StillTrue
         DEF portal, idle, asking, dialog, saving, IInv, ViewInv, SettledViewIsOwnQuery
    <2>5. PortalTypeOK'
      BY DEF IInv, TypeOK, PortalTypeOK, portal, idle, asking, view, dialog, saving
    <2>6. QED
      BY <2>1, <2>3, <2>4, <2>5 DEF IInv, TypeOK
  <1>5. QED
    BY <1>3, <1>4

\* The invariant holds of any table, and every step of a tab, a client and others keeps it.
LEMMA Init_IInv == Init => IInv
  <1> SUFFICES ASSUME Init
               PROVE  IInv
    OBVIOUS
  <1>1. load \in Loads /\ load # None /\ load.text = debounced /\ load.skip = skip /\ load.of = None
    <2>1. load = [text |-> NoText, skip |-> 0, of |-> None] /\ debounced = NoText /\ skip = 0
      BY DEF Init, PortalInit
    <2>2. [text |-> NoText, skip |-> 0, of |-> None] \in Loads
      BY ListingAssumption DEF Loads
    <2>3. QED
      BY <2>1, <2>2, PortalAssumption
  <1>2. PortalTypeOK
    <2>1. {search, debounced} \subseteq Texts /\ skip \in Nat /\ typed \in 0..MaxTyping
      BY ListingAssumption, PortalAssumption DEF Init, PortalInit
    <2>2. {load, page} \subseteq Loads \cup {None}
      BY <1>1 DEF Init, PortalInit
    <2>3. loading = TRUE /\ error = FALSE /\ deleteBusy = FALSE /\ excused = FALSE
      BY DEF Init, PortalInit
    <2>4. {loading, error, deleteBusy, excused} \subseteq BOOLEAN
      BY <2>3
    <2>5. QED
      BY <2>1, <2>2, <2>4 DEF Init, PortalInit, PortalTypeOK
  <1>3. ListingTypeOK /\ PagingTypeOK /\ reader \in {"tab", "client"}
    BY ListingAssumption DEF Init, ListingInit, PagingInit, ListingTypeOK, PagingTypeOK
  <1>4. ViewInv /\ ToldIsTrue
    BY <1>1
       DEF Init, PortalInit, ViewInv, SettledViewIsOwnQuery, OwnWritesShown, LoadIsOwnQuery,
           LoadShowsOwnWrites, ToldIsTrue
  <1>5. QED
    BY <1>2, <1>3, <1>4 DEF IInv, TypeOK

LEMMA Next_IInv == IInv /\ [Next]_vars => IInv'
  <1> SUFFICES ASSUME IInv, [Next]_vars
               PROVE  IInv'
    OBVIOUS
  <1>1. ASSUME PortalStep, Excuse, UNCHANGED <<paging, reader>>
        PROVE  IInv'
    BY <1>1, Query_IInv, Answers_IInv, Dialog_IInv, Drawer_IInv DEF PortalStep
  <1>2. ASSUME OthersEdit, UNCHANGED idle, Excuse, UNCHANGED <<paging, reader>>
        PROVE  IInv'
    <2>1. excused' \in BOOLEAN
      BY <1>2 DEF Excuse
    <2>2. PagingTypeOK'
      BY <1>2 DEF IInv, TypeOK, PagingTypeOK, paging
    <2>3. QED
      BY <1>2, <2>1, <2>2, Others_IInv
  <1>3. CASE UNCHANGED vars
    BY <1>3
       DEF vars, listing, portal, idle, asking, view, dialog, saving, paging, IInv, TypeOK,
           ListingTypeOK, PortalTypeOK, PagingTypeOK, ViewInv, SettledViewIsOwnQuery,
           OwnWritesShown, LoadIsOwnQuery, LoadShowsOwnWrites, ToldIsTrue
  <1>4. QED
    BY <1>1, <1>2, <1>3, Client_IInv DEF Next

-----------------------------------------------------------------------------
\* When nothing is loading and no error is shown, a tab shows the answer to its own query,
\* in whatever order the answers came; and it is busy exactly while a request is out.
THEOREM SoundListing == Spec => []ListingSound
  <1>1. IInv => ListingSound
    BY DEF IInv, ViewInv, ListingSound
  <1>2. QED
    BY <1>1, Init_IInv, Next_IInv, PTL DEF Spec

\* A tab that has been told of a delete or a creation never settles on a list from before it.
THEOREM ShowsOwnWrites == Spec => []OwnWritesShown
  <1>1. IInv => OwnWritesShown
    BY DEF IInv, ViewInv
  <1>2. QED
    BY <1>1, Init_IInv, Next_IInv, PTL DEF Spec

-----------------------------------------------------------------------------
\* The places of a set of rows are numbers from 1, and each row has its own.
LEMMA Places ==
    ASSUME NEW S \in SUBSET Rows, NEW r \in S
    PROVE  /\ IsFiniteSet(S) /\ Cardinality(S) \in Nat
           /\ Position(S, r) \in 1..Cardinality(S)
           /\ \A q \in S : q < r => Position(S, q) < Position(S, r)
  <1>1. IsFiniteSet(S) /\ S \subseteq Nat
    BY ListingAssumption, FS_Subset
  <1> DEFINE upto(x) == {q \in S : q <= x}
  <1>2. \A x : IsFiniteSet(upto(x)) /\ Cardinality(upto(x)) \in Nat /\ Cardinality(upto(x)) <= Cardinality(S)
    <2> TAKE x
    <2>1. upto(x) \in SUBSET S
      OBVIOUS
    <2> HIDE DEF upto
    <2>2. QED
      BY <1>1, <2>1, FS_Subset, FS_CardinalityType
  <1>3. Cardinality(upto(r)) # 0
    <2>1. r \in upto(r)
      BY <1>1
    <2> HIDE DEF upto
    <2>2. QED
      BY <1>2, <2>1, FS_EmptySet
  <1>4. ASSUME NEW q \in S, q < r
        PROVE  Cardinality(upto(q)) < Cardinality(upto(r))
    <2>1. upto(q) \subseteq upto(r) /\ r \in upto(r) /\ r \notin upto(q)
      <3>1. q \in Nat /\ r \in Nat /\ \A x \in S : x \in Nat
        BY <1>1
      <3>2. \A x \in S : x <= q => x <= r
        BY <1>4, <3>1
      <3>3. r <= r /\ ~(r <= q)
        BY <1>4, <3>1
      <3>4. QED
        BY <3>2, <3>3
    <2> HIDE DEF upto
    <2>2. Cardinality(upto(q)) <= Cardinality(upto(r)) /\ Cardinality(upto(q)) # Cardinality(upto(r))
      BY <1>2, <2>1, FS_Subset
    <2>3. QED
      BY <1>2, <2>2
  <1>5. Cardinality(S) \in Nat
    BY <1>1, FS_CardinalityType
  <1>6. \A x : Position(S, x) = Cardinality(upto(x))
    BY DEF Position
  <1> HIDE DEF upto
  <1>7. QED
    BY <1>1, <1>2, <1>3, <1>4, <1>5, <1>6

\* Every place up to the last is some row's.
LEMMA EveryPlaceTaken ==
    ASSUME NEW S \in SUBSET Rows, NEW k \in 1..Cardinality(S)
    PROVE  \E r \in S : Position(S, r) = k
  <1> DEFINE n == Cardinality(S)
             place == [r \in S |-> Position(S, r)]
  <1>1. IsFiniteSet(S) /\ n \in Nat /\ S \subseteq Nat
    BY ListingAssumption, FS_Subset, FS_CardinalityType
  <1>2. place \in [S -> 1..n]
    BY Places
  <1>3. \A q, r \in S : q # r => place[q] # place[r]
    <2> TAKE q, r \in S
    <2>1. Position(S, q) \in Nat /\ Position(S, r) \in Nat
      BY <1>1, Places
    <2>2. q < r => Position(S, q) < Position(S, r)
      BY Places
    <2>3. r < q => Position(S, r) < Position(S, q)
      BY Places
    <2>4. QED
      BY <1>1, <2>1, <2>2, <2>3
  <1> HIDE DEF place
  <1>4. place \in Injection(S, 1..n)
    BY <1>2, <1>3 DEF Injection, IsInjective
  <1>5. IsFiniteSet(1..n) /\ Cardinality(1..n) = n
    BY <1>1, FS_Interval
  <1>6. place \in Surjection(S, 1..n)
    BY <1>4, <1>5, FS_Injection
  <1>7. QED
    BY <1>6 DEF Surjection, place

\* A page that starts before the end of what it is cut from has a row.
LEMMA PageHasRows ==
    ASSUME NEW S \in SUBSET Rows, NEW offset \in Nat, offset < Cardinality(S), NEW top \in Nat \ {0}
    PROVE  Page(S, offset, top) # {}
  <1>1. Cardinality(S) \in Nat
    BY ListingAssumption, FS_Subset, FS_CardinalityType
  <1>2. offset + 1 \in 1..Cardinality(S)
    BY <1>1
  <1>3. PICK r \in S : Position(S, r) = offset + 1
    BY <1>2, EveryPlaceTaken
  <1>4. QED
    BY <1>3 DEF Page

\* A row's place only grows with the set, and only by rows before it.
LEMMA PlaceGrows ==
    ASSUME NEW S \in SUBSET Rows, NEW T \in SUBSET S, NEW r \in Nat
    PROVE  /\ Position(S, r) \in Nat /\ Position(T, r) \in Nat
           /\ Position(T, r) <= Position(S, r)
           /\ (\A q \in S \ T : q > r) => Position(T, r) = Position(S, r)
  <1> DEFINE s == {q \in S : q <= r}
             t == {q \in T : q <= r}
  <1>1. S \subseteq Nat /\ IsFiniteSet(S)
    BY ListingAssumption, FS_Subset
  <1>2. s \in SUBSET S /\ t \in SUBSET s
    OBVIOUS
  <1>3. ASSUME \A q \in S \ T : q > r
        PROVE  s = t
    <2>1. \A q \in S : q <= r => q \in T
      BY <1>1, <1>3
    <2>2. QED
      BY <2>1
  <1>4. Position(S, r) = Cardinality(s) /\ Position(T, r) = Cardinality(t)
    BY DEF Position
  <1> HIDE DEF s, t
  <1>5. IsFiniteSet(s) /\ IsFiniteSet(t) /\ Cardinality(t) <= Cardinality(s)
    BY <1>1, <1>2, FS_Subset
  <1>6. QED
    BY <1>3, <1>4, <1>5, FS_CardinalityType

-----------------------------------------------------------------------------
\* What was read for a text is among the hits of that text.
PagesMatch ==
    /\ page # None => page.of # None /\ page.of \subseteq Hits[page.text]
    /\ load # None /\ load.of # None => load.of \subseteq Hits[load.text]

\* Without an excuse an offset was chosen under the search of now, and lies before the end of
\* the rows there are, of what the server has read and of what is on the screen.
NotBeyond ==
    reader = "tab" /\ ~excused /\ skip # 0 =>
        /\ search = debounced
        /\ skip < Cardinality(Matches(debounced))
        /\ load # None /\ load.of # None => skip < Cardinality(load.of)
        /\ ~loading /\ ~error => skip < Cardinality(page.of)

\* The reader that is not observed stays as it began.
Apart == IF reader = "tab" THEN walk = "idle" ELSE loading

BeyondInv == PagesMatch /\ NotBeyond /\ Apart

\* A larger set of matches is not smaller.
LEMMA MatchesGrow ==
    ASSUME NEW S \in SUBSET Rows, NEW T \in SUBSET S
    PROVE  Cardinality(T) \in Nat /\ Cardinality(S) \in Nat /\ Cardinality(T) <= Cardinality(S)
  <1>1. IsFiniteSet(S)
    BY ListingAssumption, FS_Subset
  <1>2. IsFiniteSet(T) /\ Cardinality(T) <= Cardinality(S)
    BY <1>1, FS_Subset
  <1>3. QED
    BY <1>1, <1>2, FS_CardinalityType

\* A step without an excuse leaves the matches there were.
LEMMA Unexcused ==
    ASSUME IInv, Excuse, ~excused', skip' # 0, debounced' = debounced
    PROVE  /\ ~excused
           /\ skip' > skip => page.text = search /\ page.text = debounced /\ page.of \subseteq Live
           /\ Cardinality(Matches(debounced)) \in Nat
           /\ Cardinality(Matches(debounced)') \in Nat
           /\ Cardinality(Matches(debounced)) <= Cardinality(Matches(debounced)')
  <1>1. ~excused /\ Matches(debounced) \subseteq Live'
    BY DEF Excuse
  <1>2. skip' > skip => page.text = search /\ page.text = debounced /\ page.of \subseteq Live
    BY DEF Excuse
  <1>3. Matches(debounced) \in SUBSET (Matches(debounced)') /\ Matches(debounced)' \in SUBSET Rows
    BY <1>1 DEF Matches, Live
  <1>4. QED
    BY <1>1, <1>2, <1>3, MatchesGrow

\* A step that keeps the query, and the view or starts a load, keeps the offset before the end.
LEMMA SameQuery ==
    ASSUME IInv, BeyondInv, Excuse, UNCHANGED <<search, debounced, skip, reader, walk>>,
           UNCHANGED <<page, loading, error, load>> \/ Load(debounced, skip)
    PROVE  BeyondInv'
  <1>1. CASE UNCHANGED <<page, loading, error, load>>
    BY <1>1, Unexcused DEF BeyondInv, PagesMatch, NotBeyond, Apart, IInv, TypeOK, PortalTypeOK
  <1>2. CASE Load(debounced, skip)
    <2>1. load'.of = None /\ loading' = TRUE /\ UNCHANGED page
      BY <1>2 DEF Load
    <2>2. QED
      BY <2>1, Unexcused DEF BeyondInv, PagesMatch, NotBeyond, Apart, IInv, TypeOK, PortalTypeOK
  <1>3. QED
    BY <1>1, <1>2

\* The offset moves only where the search of now has rows.
LEMMA Query_Beyond ==
    ASSUME IInv, BeyondInv, Excuse, UNCHANGED <<reader, walk>>,
           \/ \E text \in Texts : SetSearch(text)
           \/ Debounce \/ NextPage \/ PrevPage \/ Retry
    PROVE  BeyondInv'
  <1>1. skip \in Nat /\ PageSize \in Nat \ {0} /\ MaxTyping \in Nat
    BY PortalAssumption DEF IInv, TypeOK, PortalTypeOK
  <1>2. Apart' /\ PagesMatch'
    <2>1. UNCHANGED <<page, load, loading>> \/ (load'.of = None /\ loading' = TRUE /\ UNCHANGED page)
      BY DEF SetSearch, Debounce, NextPage, PrevPage, Retry, Reload, Load, view
    <2>2. QED
      BY <2>1 DEF BeyondInv, PagesMatch, Apart
  <1>3. ASSUME NEW text \in Texts, SetSearch(text)
        PROVE  NotBeyond'
    BY <1>3 DEF SetSearch, NotBeyond
  <1>4. ASSUME Debounce
        PROVE  NotBeyond'
    <2>1. skip' = skip /\ search # debounced /\ reader' = reader
      BY <1>4 DEF Debounce
    <2>2. skip' # 0 /\ ~excused' => ~excused
      BY DEF Excuse
    <2>3. reader = "tab" /\ ~excused' => skip' = 0
      BY <2>1, <2>2 DEF NotBeyond, BeyondInv
    <2>4. QED
      BY <2>1, <2>3 DEF NotBeyond
  <1>5. ASSUME NextPage
        PROVE  NotBeyond'
    <2> SUFFICES ASSUME reader = "tab", ~excused', skip' # 0
                 PROVE  /\ search' = debounced' /\ loading' = TRUE /\ load'.of = None
                        /\ skip' < Cardinality(Matches(debounced)')
      <3>1. loading' = TRUE /\ load'.of = None /\ reader' = reader
        BY <1>5 DEF NextPage, Load
      <3>2. QED
        BY <3>1 DEF NotBeyond
    <2>1. /\ skip' = skip + PageSize /\ skip' < Count /\ Count > 0
          /\ UNCHANGED <<listing, search, debounced>> /\ loading' = TRUE /\ load'.of = None
      BY <1>5 DEF NextPage, PagerShown, Load
    <2>2. page # None /\ page.of # None /\ Count = Cardinality(page.of)
      BY <2>1 DEF Count, BeyondInv, PagesMatch
    <2>3. page.text = search /\ page.text = debounced /\ page.of \subseteq Live
      BY <1>1, <2>1, Unexcused
    <2>4. page.of \in SUBSET Matches(debounced) /\ Matches(debounced) \in SUBSET Rows
      BY <2>2, <2>3 DEF BeyondInv, PagesMatch, Matches, Live
    <2>5. Cardinality(page.of) <= Cardinality(Matches(debounced))
          /\ Cardinality(page.of) \in Nat /\ Cardinality(Matches(debounced)) \in Nat
      BY <2>4, MatchesGrow
    <2>6. Matches(debounced)' = Matches(debounced)
      BY <2>1 DEF listing, Matches, Live
    <2>7. QED
      BY <1>1, <2>1, <2>2, <2>3, <2>5, <2>6
  <1>6. ASSUME PrevPage
        PROVE  NotBeyond'
    <2> SUFFICES ASSUME reader = "tab", ~excused', skip' # 0
                 PROVE  /\ search' = debounced' /\ loading' = TRUE /\ load'.of = None
                        /\ skip' < Cardinality(Matches(debounced)')
      <3>1. loading' = TRUE /\ load'.of = None /\ reader' = reader
        BY <1>6 DEF PrevPage, Load
      <3>2. QED
        BY <3>1 DEF NotBeyond
    <2>1. /\ skip' <= skip /\ skip # 0 /\ skip' \in Nat
          /\ UNCHANGED <<search, debounced>> /\ loading' = TRUE /\ load'.of = None
      BY <1>1, <1>6 DEF PrevPage, Load
    <2>2. ~excused /\ Cardinality(Matches(debounced)) <= Cardinality(Matches(debounced)')
          /\ Cardinality(Matches(debounced)) \in Nat /\ Cardinality(Matches(debounced)') \in Nat
      BY <2>1, Unexcused
    <2>3. search = debounced /\ skip < Cardinality(Matches(debounced))
      BY <2>1, <2>2 DEF BeyondInv, NotBeyond
    <2>4. QED
      BY <1>1, <2>1, <2>2, <2>3
  <1>7. CASE Retry
    BY <1>7, SameQuery DEF Retry, Reload, asking, BeyondInv
  <1>8. QED
    BY <1>2, <1>3, <1>4, <1>5, <1>6, <1>7 DEF BeyondInv

\* What is read and shown is cut from the rows there are.
LEMMA Answers_Beyond ==
    ASSUME IInv, BeyondInv, Excuse, UNCHANGED <<reader, walk>>, reader = "tab",
           ServerReads \/ LoadArrives \/ LoadFails \/ DisownedArrives
    PROVE  BeyondInv'
  <1>1. UNCHANGED <<search, debounced, skip, status>>
    BY DEF ServerReads, LoadArrives, LoadFails, DisownedArrives, asking, listing
  <1>2. load # None => load \in Loads /\ load.text = debounced /\ load.skip = skip
    BY DEF IInv, TypeOK, PortalTypeOK, ViewInv, LoadIsOwnQuery
  <1>3. Matches(debounced)' = Matches(debounced)
    BY <1>1 DEF Matches, Live
  <1>4. skip' # 0 /\ ~excused' => ~excused
    BY DEF Excuse
  <1>5. CASE ServerReads
    <2>1. load'.of = Matches(debounced) /\ load'.text = load.text /\ UNCHANGED <<page, loading, error>>
      BY <1>2, <1>5 DEF ServerReads, Loads
    <2>2. Matches(debounced) \subseteq Hits[load.text]
      BY <1>2, <1>5 DEF ServerReads, Matches
    <2>3. QED
      BY <1>1, <1>3, <1>4, <2>1, <2>2, <1>5 DEF BeyondInv, PagesMatch, NotBeyond, Apart
  <1>6. CASE LoadArrives
    <2>1. load # None /\ load.of # None /\ page' = load /\ load' = None /\ loading' = FALSE
      BY <1>6 DEF LoadArrives
    <2>2. PagesMatch'
      BY <2>1 DEF BeyondInv, PagesMatch
    <2>3. NotBeyond'
      BY <1>1, <1>3, <1>4, <2>1 DEF BeyondInv, NotBeyond
    <2>4. QED
      BY <2>2, <2>3 DEF BeyondInv, Apart
  <1>7. CASE LoadFails
    BY <1>1, <1>3, <1>4, <1>7 DEF LoadFails, BeyondInv, PagesMatch, NotBeyond, Apart
  <1>8. CASE DisownedArrives
    BY <1>1, <1>8, SameQuery DEF DisownedArrives
  <1>9. QED
    BY <1>5, <1>6, <1>7, <1>8

LEMMA Init_Beyond == Init => BeyondInv
  BY DEF Init, PortalInit, PagingInit, BeyondInv, PagesMatch, NotBeyond, Apart

LEMMA Next_Beyond == IInv /\ BeyondInv /\ [Next]_vars => BeyondInv'
  <1> SUFFICES ASSUME IInv, BeyondInv, [Next]_vars
               PROVE  BeyondInv'
    OBVIOUS
  <1>1. ASSUME PortalStep, Excuse, UNCHANGED <<paging, reader>>, reader = "tab"
        PROVE  BeyondInv'
    <2>1. UNCHANGED walk
      BY <1>1 DEF paging
    <2>2. CASE \/ \E text \in Texts : SetSearch(text)
               \/ Debounce \/ NextPage \/ PrevPage \/ Retry
      BY <1>1, <2>1, <2>2, Query_Beyond
    <2>3. CASE ServerReads \/ LoadArrives \/ LoadFails \/ DisownedArrives
      BY <1>1, <2>1, <2>3, Answers_Beyond
    <2>4. CASE \/ \E r \in Rows : AskDelete(r)
               \/ CloseDialog \/ ConfirmDelete \/ ServerDeletes \/ DeleteSucceeds \/ DeleteFails
      <3>1. /\ UNCHANGED <<search, debounced, skip>>
            /\ UNCHANGED <<page, loading, error, load>> \/ Load(debounced, skip)
        BY <2>4 DEF AskDelete, CloseDialog, ConfirmDelete, ServerDeletes, DeleteSucceeds,
                    DeleteFails, Reload, asking, view
      <3>2. QED
        BY <1>1, <2>1, <3>1, SameQuery
    <2>5. CASE \/ \E d \in Rows \cup {New, Members} : OpenDrawer(d)
               \/ CloseDrawer \/ Submit
               \/ \E p \in posts : ServerSaves(p) \/ SaveSucceeds(p) \/ SaveFails(p)
      <3>1. /\ UNCHANGED <<search, debounced, skip>>
            /\ UNCHANGED <<page, loading, error, load>> \/ Load(debounced, skip)
        BY <2>5 DEF OpenDrawer, CloseDrawer, Submit, ServerSaves, SaveSucceeds, SaveFails,
                    Reload, asking, view
      <3>2. QED
        BY <1>1, <2>1, <3>1, SameQuery
    <2>6. QED
      BY <1>1, <2>2, <2>3, <2>4, <2>5 DEF PortalStep
  <1>2. ASSUME OthersEdit, UNCHANGED idle, Excuse, UNCHANGED <<paging, reader>>
        PROVE  BeyondInv'
    BY <1>2, SameQuery DEF idle, asking, view, paging
  <1>3. ASSUME reader = "client", UNCHANGED <<portal, reader>>
        PROVE  BeyondInv'
    BY <1>3 DEF BeyondInv, PagesMatch, NotBeyond, Apart, portal, idle, view, asking
  <1>4. CASE UNCHANGED vars
    BY <1>4 DEF vars, listing, portal, idle, asking, view, paging, BeyondInv, PagesMatch,
                NotBeyond, Apart, Matches, Live
  <1>5. QED
    BY <1>1, <1>2, <1>3, <1>4 DEF Next

\* A page beyond the last row is shown only when rows went, or when Next was pressed on the
\* count of another search.
THEOREM BeyondForCause == Spec => []BeyondTheEndForCause
  <1>1. ASSUME IInv, BeyondInv, ~loading, ~error, page.of # {}, ~excused
        PROVE  Shown # {}
    <2>1. /\ page \in Loads /\ page # None /\ page.of # None /\ page.skip = skip /\ reader = "tab"
          /\ skip \in Nat
      BY <1>1 DEF IInv, TypeOK, PortalTypeOK, ViewInv, SettledViewIsOwnQuery, BeyondInv, Apart
    <2>2. page.of \in SUBSET Rows /\ IsFiniteSet(page.of)
      BY <2>1, ListingAssumption, FS_Subset DEF Loads
    <2>3. Cardinality(page.of) \in Nat /\ Cardinality(page.of) # 0
      BY <1>1, <2>2, FS_EmptySet, FS_CardinalityType
    <2>4. skip < Cardinality(page.of)
      BY <1>1, <2>1, <2>3 DEF BeyondInv, NotBeyond
    <2>5. QED
      BY <1>1, <2>1, <2>2, <2>4, PageHasRows, PortalAssumption DEF Shown
  <1>2. IInv /\ BeyondInv => BeyondTheEndForCause
    BY <1>1 DEF BeyondTheEndForCause
  <1>3. QED
    BY <1>2, Init_IInv, Next_IInv, Init_Beyond, Next_Beyond, PTL DEF Spec

-----------------------------------------------------------------------------
\* Before its first page a walk has received nothing, and what it received was there.
WalkHistory ==
    /\ walk = "idle" => start.rows = {}
    /\ walk \in {"idle", "asked"} => seen = {} /\ twice = {} /\ lost = {} /\ came = {}
    /\ \A r \in seen \cup start.rows : status[r] # "unborn"

\* Between two pages, from the offset k of the next one: what was there from the first page
\* on is still ahead unless a row before it went, and what is ahead was received already only
\* if a row before it came.
HasMissed(S, n, k) ==
    \A r \in (S \cap Live) \ seen :
        Position(S, r) <= n \/ (\E d \in lost : d < r) \/ Position(Live, r) > k
WillRepeat(k) == \A r \in seen \cap Live : Position(Live, r) > k => \E c \in came : c < r
Repeated == \A r \in twice : \E c \in came : c < r
NothingElse(S) == Live \cup seen \subseteq S \cup came

WalkSoFar ==
    walk = "walking" =>
        /\ HasMissed(start.rows, start.skip, ParseSkip(query.token))
        /\ WillRepeat(ParseSkip(query.token))
        /\ Repeated
        /\ NothingElse(start.rows)

WalkInv == WalkHistory /\ WalkSoFar /\ WalkErrsForCause

\* A page keeps a walk's account: what it leaves behind was received or is excused.
LEMMA Serve_Walk ==
    ASSUME IInv, WalkInv, Serve, Witness
    PROVE  WalkInv'
  <1> DEFINE k == ParseSkip(query.token)
             top == ParseTop(query.top)
             S == start'.rows
             n == start'.skip
             served == Page(Live, k, top)
  <1>1. /\ seen' = seen \cup served /\ twice' = twice \cup (seen \cap served)
        /\ walk' = IF HasMore(query, Cardinality(Live)) THEN "walking" ELSE "done"
        /\ HasMore(query, Cardinality(Live)) => query' = NextLink(query)
        /\ start' = IF walk = "asked" THEN [rows |-> Live, skip |-> k] ELSE start
        /\ walk = "asked" \/ walk = "walking"
    BY DEF Serve
  <1>2. UNCHANGED <<status, lost, came>> /\ Live' = Live
    BY DEF Serve, Witness, listing, Live
  <1>3. k \in Nat /\ top \in Nat /\ PagingTypeOK
    BY ParsedTypes DEF IInv, TypeOK
  <1>4. HasMissed(S, n, k) /\ WillRepeat(k) /\ Repeated /\ NothingElse(S)
    <2>1. CASE walk = "asked"
      <3>1. S = Live /\ n = k /\ seen = {} /\ twice = {}
        BY <1>1, <2>1 DEF WalkInv, WalkHistory
      <3>2. \A r \in Live : Position(Live, r) \in Nat
        <4> TAKE r \in Live
        <4>1. Live \in SUBSET Rows /\ r \in Nat
          BY ListingAssumption DEF Live
        <4>2. QED
          BY <4>1, PlaceGrows
      <3> HIDE DEF k, S, n
      <3>3. \A r \in Live : Position(Live, r) <= k \/ Position(Live, r) > k
        BY <1>3, <3>2
      <3>4. QED
        BY <3>1, <3>3 DEF HasMissed, WillRepeat, Repeated, NothingElse
    <2>2. CASE walk = "walking"
      BY <1>1, <2>2 DEF WalkInv, WalkSoFar
    <2>3. QED
      BY <1>1, <2>1, <2>2
  <1>5. \A r \in Live : /\ Position(Live, r) \in Nat /\ Cardinality(Live) \in Nat
                        /\ Position(Live, r) <= Cardinality(Live)
                        /\ Position(Live, r) > k /\ r \notin served => Position(Live, r) > k + top
    <2> TAKE r \in Live
    <2>1. Position(Live, r) \in 1..Cardinality(Live) /\ Cardinality(Live) \in Nat
      <3>1. Live \in SUBSET Rows
        BY DEF Live
      <3>2. QED
        BY <3>1, Places
    <2>2. QED
      BY <1>3, <2>1 DEF Page
  <1>6. served \subseteq Live /\ (\A r \in served : Position(Live, r) > k)
    BY DEF Page
  <1> HIDE DEF k, top, S, n, served
  <1>7. \A r \in (S \cap Live) \ seen' :
            Position(S, r) <= n \/ (\E d \in lost : d < r) \/ Position(Live, r) > k + top
    BY <1>1, <1>4, <1>5 DEF HasMissed
  <1>8. \A r \in seen' \cap Live : Position(Live, r) > k + top => \E c \in came : c < r
    <2> TAKE r \in seen' \cap Live
    <2> HAVE Position(Live, r) > k + top
    <2>1. r \notin served /\ Position(Live, r) > k
      BY <1>3, <1>5 DEF served, Page
    <2>2. QED
      BY <1>1, <1>4, <2>1 DEF WillRepeat
  <1>9. \A r \in twice' : \E c \in came : c < r
    BY <1>1, <1>4, <1>6 DEF WillRepeat, Repeated
  <1>10. Live \cup seen' \subseteq S \cup came
    BY <1>1, <1>4, <1>6 DEF NothingElse
  <1>11. WalkHistory'
    <2>1. \A r \in seen' \cup S : status[r] # "unborn"
      BY <1>1, <1>6 DEF WalkInv, WalkHistory, Live, S
    <2>2. QED
      BY <1>1, <1>2, <2>1 DEF WalkHistory, S
  <1>12. WalkSoFar'
    <2> SUFFICES ASSUME walk' = "walking"
                 PROVE  /\ HasMissed(start.rows, start.skip, ParseSkip(query.token))'
                        /\ WillRepeat(ParseSkip(query.token))'
                        /\ Repeated'
                        /\ NothingElse(start.rows)'
      BY DEF WalkSoFar
    <2>1. ParseSkip(query'.token) = k + top
      BY <1>1, <1>3, NextLinkType DEF k, top
    <2>2. QED
      BY <1>2, <1>7, <1>8, <1>9, <1>10, <2>1
         DEF HasMissed, WillRepeat, Repeated, NothingElse, S, n, Position
  <1>13. WalkErrsForCause'
    <2> SUFFICES ASSUME walk' = "done"
                 PROVE  /\ \A r \in (S \cap Live) \ seen' :
                               Position(S, r) <= n \/ \E d \in lost : d < r
                        /\ \A r \in twice' : \E c \in came : c < r
                        /\ seen' \subseteq S \cup came
      BY <1>2 DEF WalkErrsForCause, S, n, Position
    <2>1. ~(k + top < Cardinality(Live))
      BY <1>1 DEF HasMore, k, top
    <2>2. \A r \in Live : ~(Position(Live, r) > k + top)
      BY <1>3, <1>5, <2>1
    <2>3. QED
      BY <1>7, <1>9, <1>10, <2>2
  <1>14. QED
    BY <1>11, <1>12, <1>13 DEF WalkInv

\* A row that comes moves those after it back, and one that goes moves them ahead.
LEMMA Others_Walk ==
    ASSUME IInv, WalkInv, OthersEdit, UNCHANGED <<walk, query, seen, twice, start>>, Witness
    PROVE  WalkInv'
  <1>1. PICK e \in Rows : Insert(e) \/ Remove(e)
    BY DEF OthersEdit, OthersCreate, OthersDelete
  <1>2. status \in [Rows -> {"unborn", "live", "dead"}] /\ start \in [rows : SUBSET Rows, skip : Nat]
        /\ seen \subseteq Rows /\ Rows \subseteq Nat /\ ParseSkip(query.token) \in Nat
    BY ParsedTypes, ListingAssumption DEF IInv, TypeOK, ListingTypeOK, PagingTypeOK
  <1>3. /\ Insert(e) => Live' = Live \cup {e} /\ e \notin Live /\ status[e] = "unborn"
        /\ Remove(e) => Live' = Live \ {e} /\ e \in Live
        /\ RowsAge
    BY <1>1, <1>2 DEF Insert, Remove, Live, RowsAge
  <1>4. Live \in SUBSET Rows /\ Live' \in SUBSET Rows
    BY DEF Live
  <1>5. WalkHistory'
    BY <1>2, <1>3 DEF WalkInv, WalkHistory, Witness, RowsAge
  <1>6. /\ walk = "walking" => lost' = lost \cup (Live \ Live') /\ came' = came \cup (Live' \ Live)
        /\ walk # "walking" => lost' = lost /\ came' = came
    BY DEF Witness
  <1>7. \A r \in (start.rows \cup seen) \cap Live' : r \in Live
    BY <1>1, <1>3 DEF WalkInv, WalkHistory
  <1>8. WalkErrsForCause'
    <2> SUFFICES ASSUME walk = "done"
                 PROVE  /\ \A r \in (start.rows \cap Live') \ seen :
                               Position(start.rows, r) <= start.skip \/ \E d \in lost : d < r
                        /\ \A r \in twice : \E c \in came : c < r
                        /\ seen \subseteq start.rows \cup came
      BY <1>6 DEF WalkErrsForCause, Position
    <2>1. QED
      BY <1>7 DEF WalkInv, WalkErrsForCause
  <1>9. WalkSoFar'
    <2> DEFINE k == ParseSkip(query.token)
               S == start.rows
    <2> SUFFICES ASSUME walk = "walking"
                 PROVE  /\ \A r \in (S \cap Live') \ seen :
                               \/ Position(S, r) <= start.skip
                               \/ \E d \in lost' : d < r
                               \/ Position(Live', r) > k
                        /\ \A r \in seen \cap Live' : Position(Live', r) > k => \E c \in came' : c < r
                        /\ \A r \in twice : \E c \in came' : c < r
                        /\ Live' \cup seen \subseteq S \cup came'
      BY DEF WalkSoFar, HasMissed, WillRepeat, Repeated, NothingElse, Position
    <2>1. HasMissed(S, start.skip, k) /\ WillRepeat(k) /\ Repeated /\ NothingElse(S) /\ k \in Nat
      BY <1>2 DEF WalkInv, WalkSoFar
    <2>2. ASSUME NEW r \in (S \cup seen) \cap Live'
          PROVE  /\ Position(Live, r) \in Nat /\ Position(Live', r) \in Nat /\ r \in Live
                 /\ \/ Insert(e) /\ Position(Live, r) <= Position(Live', r)
                       /\ (Position(Live, r) = Position(Live', r) \/ e < r)
                    \/ Remove(e) /\ Position(Live', r) <= Position(Live, r)
                       /\ (Position(Live, r) = Position(Live', r) \/ e < r)
      <3>1. r \in Live /\ r \in Nat /\ e \in Nat /\ r \in Live'
        BY <1>2, <1>4, <1>7, <2>2
      <3>2. CASE Insert(e)
        <4>1. Live \in SUBSET Live' /\ Live' \ Live = {e} /\ e # r
          BY <1>3, <3>1, <3>2
        <4>2. /\ Position(Live, r) \in Nat /\ Position(Live', r) \in Nat
              /\ Position(Live, r) <= Position(Live', r)
              /\ e > r => Position(Live, r) = Position(Live', r)
          BY <1>4, <3>1, <4>1, PlaceGrows
        <4>3. e < r \/ e > r
          BY <3>1, <4>1
        <4>4. QED
          BY <3>1, <3>2, <4>2, <4>3
      <3>3. CASE Remove(e)
        <4>1. Live' \in SUBSET Live /\ Live \ Live' = {e} /\ e # r
          BY <1>3, <3>1, <3>3
        <4>2. /\ Position(Live, r) \in Nat /\ Position(Live', r) \in Nat
              /\ Position(Live', r) <= Position(Live, r)
              /\ e > r => Position(Live, r) = Position(Live', r)
          BY <1>4, <3>1, <4>1, PlaceGrows
        <4>3. e < r \/ e > r
          BY <3>1, <4>1
        <4>4. QED
          BY <3>1, <3>3, <4>2, <4>3
      <3>4. QED
        BY <1>1, <3>2, <3>3
    <2>3. /\ Insert(e) => e \in came' /\ lost' = lost
          /\ Remove(e) => e \in lost' /\ came' = came
          /\ lost \subseteq lost' /\ came \subseteq came'
      BY <1>3, <1>6
    <2> HIDE DEF k, S
    <2>4. ASSUME NEW r \in (S \cap Live') \ seen, ~(Position(S, r) <= start.skip),
                 ~(\E d \in lost' : d < r)
          PROVE  Position(Live', r) > k
      <3>1. r \in (S \cap Live) \ seen /\ Position(Live, r) > k
        BY <2>1, <2>2, <2>3, <2>4 DEF HasMissed
      <3>2. QED
        BY <2>1, <2>2, <2>3, <2>4, <3>1
    <2>5. ASSUME NEW r \in seen \cap Live', Position(Live', r) > k
          PROVE  \E c \in came' : c < r
      <3>1. r \in seen \cap Live
        BY <2>2
      <3>2. CASE Position(Live, r) > k
        BY <2>1, <2>3, <3>1, <3>2 DEF WillRepeat
      <3>3. CASE ~(Position(Live, r) > k)
        BY <2>1, <2>2, <2>3, <2>5, <3>3
      <3>4. QED
        BY <3>2, <3>3
    <2>6. \A r \in twice : \E c \in came' : c < r
      BY <2>1, <2>3 DEF Repeated
    <2>7. Live' \cup seen \subseteq S \cup came'
      BY <1>6, <2>1 DEF NothingElse
    <2>8. QED
      BY <2>4, <2>5, <2>6, <2>7
  <1>10. QED
    BY <1>5, <1>8, <1>9 DEF WalkInv

LEMMA Next_Walk == IInv /\ BeyondInv /\ WalkInv /\ [Next]_vars => WalkInv'
  <1> SUFFICES ASSUME IInv, BeyondInv, WalkInv, [Next]_vars
               PROVE  WalkInv'
    OBVIOUS
  <1>1. ASSUME reader = "tab", UNCHANGED paging
        PROVE  WalkInv'
    BY <1>1
       DEF paging, BeyondInv, Apart, WalkInv, WalkHistory, WalkSoFar, WalkErrsForCause
  <1>2. ASSUME PagingStep, Witness
        PROVE  WalkInv'
    <2>1. ASSUME NEW raw \in RawTops, NEW token \in RawTokens, Ask(raw, token)
          PROVE  WalkInv'
      BY <1>2, <2>1
         DEF Ask, Witness, listing, Live, WalkInv, WalkHistory, WalkSoFar, WalkErrsForCause
    <2>2. CASE Refuse
      BY <1>2, <2>2
         DEF Refuse, Witness, listing, Live, WalkInv, WalkHistory, WalkSoFar, WalkErrsForCause
    <2>3. QED
      BY <1>2, <2>1, <2>2, Serve_Walk DEF PagingStep
  <1>3. CASE UNCHANGED vars
    BY <1>3
       DEF vars, listing, paging, WalkInv, WalkHistory, WalkSoFar, WalkErrsForCause, HasMissed,
           WillRepeat, Repeated, NothingElse, Position, Live
  <1>4. QED
    BY <1>1, <1>2, <1>3, Others_Walk DEF Next

\* Following nextLinks to the end misses a row that was there all the time only because one
\* before it was deleted on the way, and repeats one only because one before it was created.
THEOREM WalkForCause == Spec => []WalkErrsForCause
  <1>1. Init => WalkInv
    BY DEF Init, PagingInit, WalkInv, WalkHistory, WalkSoFar, WalkErrsForCause
  <1>2. WalkInv => WalkErrsForCause
    BY DEF WalkInv
  <1>3. QED
    BY <1>1, <1>2, Init_IInv, Next_IInv, Init_Beyond, Next_Beyond, Next_Walk, PTL DEF Spec

=============================================================================
