----------------------------- MODULE PortalList -----------------------------
(***************************************************************************)
(* A list of the admin portal (Users, Groups, App registrations): one      *)
(* browser tab that shows one page of a search, with a dialog to delete a  *)
(* row and a drawer to create or edit one.                                 *)
(*                                                                         *)
(* Every change of the search, the offset or the reload counter starts a   *)
(* new load and disowns the one before it, whose answer still arrives.     *)
(* What the user clicks is read from the view on the screen, which may be  *)
(* that of an earlier query until the answer is there.                     *)
(***************************************************************************)
EXTENDS Listing

CONSTANTS
    PageSize,   \* PAGE_SIZE
    MaxTyping,  \* bound: changes of the search box
    None,       \* no page, no request, no row, no drawer
    New,        \* what the drawer that creates a row has for a row
    Members     \* the drawer with the members of a group

Loads == [text : Texts, skip : Nat, of : (SUBSET Rows) \cup {None}]

Saves == [id : Nat, row : Rows \cup {New}, mine : BOOLEAN,
          answer : {"none", "ok", "created", "refused"}]

Deletes == [row : Rows, answer : {"none", "ok", "refused"}]

ASSUME PortalAssumption ==
    /\ PageSize \in Nat \ {0}
    /\ MaxTyping \in Nat
    /\ {None, New, Members} \cap Rows = {}
    /\ None \notin Loads /\ None \notin Deletes /\ \A S \in SUBSET Rows : S # None
    /\ None \notin {New, Members} /\ New # Members

VARIABLES
    search,     \* the text in the box
    debounced,  \* the text the list is loaded for, 250 ms behind
    skip,       \* the offset
    page,       \* data: [text, skip, of] of the load that filled it, or None
    loading, error,
    load,       \* the load in flight: [text, skip, of], of = None before the server reads
    disowned,   \* the last cancelled load whose answer is still to come: [text, skip], or None
    deleting,   \* the row the delete dialog asks about, or None
    deleteBusy,
    delete,     \* the DELETE in flight: [row, answer], or None
    drawer,     \* None, New, Members or the row being edited
    posts,      \* saves in flight: [id, row, answer, mine]; mine: its drawer is still open
    typed,      \* how often the box was changed
    gone, made, \* history: rows whose delete, or creation, this tab was told of
    excused     \* history: see BeyondTheEndForCause

asking == <<search, debounced, skip, typed>>
view == <<page, loading, error, load, disowned>>
dialog == <<deleting, deleteBusy, delete>>
saving == <<drawer, posts>>
idle == <<asking, view, dialog, saving, gone, made>>
portal == <<idle, excused>>

(* The effect on [debounced, skip, nonce]: what is shown stays while the load is under way. *)
Load(text, offset) ==
    /\ loading' = TRUE
    /\ error' = FALSE
    /\ load' = [text |-> text, skip |-> offset, of |-> None]
    /\ disowned' = IF load = None THEN disowned ELSE [text |-> load.text, skip |-> load.skip]
    /\ UNCHANGED page

Reload == Load(debounced, skip)

Shown == IF page = None \/ loading \/ error THEN {} ELSE Page(page.of, page.skip, PageSize)
Count == IF page = None THEN 0 ELSE Cardinality(page.of)

(* The dialog and the drawer trap the focus and cover the list. *)
NoModal == deleting = None /\ drawer = None

(***************************************************************************)
(* The query.                                                              *)
(***************************************************************************)
\* Mutated: the offset stays.
SetSearch_KeepsOffset(text) ==
    /\ NoModal
    /\ text # search
    /\ typed < MaxTyping
    /\ typed' = typed + 1
    /\ search' = text
    /\ UNCHANGED <<listing, debounced, skip, view, dialog, saving, gone, made>>

SetSearch(text) ==
    /\ NoModal
    /\ text # search
    /\ typed < MaxTyping
    /\ typed' = typed + 1
    /\ search' = text
    /\ skip' = 0
    /\ IF skip = 0 THEN UNCHANGED view ELSE Load(debounced, 0)
    /\ UNCHANGED <<listing, debounced, dialog, saving, gone, made>>

(* 250 ms after the last change of the box. *)
Debounce ==
    /\ debounced # search
    /\ debounced' = search
    /\ Load(search, skip)
    /\ UNCHANGED <<listing, search, skip, typed, dialog, saving, gone, made>>

(* The pager: shown under a page that has rows to count, with the offset of now. *)
PagerShown == NoModal /\ ~error /\ Count > 0

NextPage ==
    /\ PagerShown
    /\ skip + PageSize < Count
    /\ skip' = skip + PageSize
    /\ Load(debounced, skip + PageSize)
    /\ UNCHANGED <<listing, search, debounced, typed, dialog, saving, gone, made>>

PrevPage ==
    /\ PagerShown
    /\ skip # 0
    /\ skip' = IF skip < PageSize THEN 0 ELSE skip - PageSize
    /\ Load(debounced, IF skip < PageSize THEN 0 ELSE skip - PageSize)
    /\ UNCHANGED <<listing, search, debounced, typed, dialog, saving, gone, made>>

Retry ==
    /\ NoModal
    /\ error
    /\ Reload
    /\ UNCHANGED <<listing, asking, dialog, saving, gone, made>>

(***************************************************************************)
(* The answers to the loads.                                               *)
(***************************************************************************)
ServerReads ==
    /\ load # None
    /\ load.of = None
    /\ load' = [load EXCEPT !.of = Matches(load.text)]
    /\ UNCHANGED <<listing, asking, page, loading, error, disowned, dialog, saving, gone, made>>

LoadArrives ==
    /\ load # None
    /\ load.of # None
    /\ page' = load
    /\ loading' = FALSE
    /\ load' = None
    /\ UNCHANGED <<listing, asking, error, disowned, dialog, saving, gone, made>>

LoadFails ==
    /\ load # None
    /\ error' = TRUE
    /\ loading' = FALSE
    /\ load' = None
    /\ UNCHANGED <<listing, asking, page, disowned, dialog, saving, gone, made>>

\* Mutated: the answer is taken all the same.
DisownedArrives_Taken ==
    /\ disowned # None
    /\ disowned' = None
    /\ page' = [text |-> disowned.text, skip |-> disowned.skip, of |-> Matches(disowned.text)]
    /\ loading' = FALSE
    /\ UNCHANGED <<listing, asking, error, load, dialog, saving, gone, made>>

(* The answer of a load that was cancelled: nothing is set. *)
DisownedArrives ==
    /\ disowned # None
    /\ disowned' = None
    /\ UNCHANGED <<listing, asking, page, loading, error, load, dialog, saving, gone,
                   made>>

(***************************************************************************)
(* Deleting a row.                                                         *)
(***************************************************************************)
AskDelete(r) ==
    /\ NoModal
    /\ r \in Shown
    /\ deleting' = r
    /\ UNCHANGED <<listing, asking, view, deleteBusy, delete, saving, gone, made>>

(* Cancel, Esc and a click beside the dialog work while the request is under way. *)
CloseDialog ==
    /\ deleting # None
    /\ deleting' = None
    /\ UNCHANGED <<listing, asking, view, deleteBusy, delete, saving, gone, made>>

ConfirmDelete ==
    /\ deleting # None
    /\ ~deleteBusy
    /\ writes < MaxWrites
    /\ writes' = writes + 1
    /\ deleteBusy' = TRUE
    /\ delete' = [row |-> deleting, answer |-> "none"]
    /\ UNCHANGED <<status, asking, view, deleting, saving, gone, made>>

(* 204, or 404 when somebody was faster. *)
ServerDeletes ==
    /\ delete # None
    /\ delete.answer = "none"
    /\ \/ Remove(delete.row) /\ delete' = [delete EXCEPT !.answer = "ok"]
       \/ status[delete.row] = "dead" /\ delete' = [delete EXCEPT !.answer = "refused"]
                                      /\ UNCHANGED status
    /\ UNCHANGED <<writes, asking, view, deleting, deleteBusy, saving, gone, made>>

\* Mutated: the list is not reloaded.
DeleteSucceeds_NoReload ==
    /\ delete # None
    /\ delete.answer = "ok"
    /\ deleting' = None
    /\ deleteBusy' = FALSE
    /\ delete' = None
    /\ gone' = gone \cup {delete.row}
    /\ UNCHANGED <<listing, asking, view, saving, made>>

(* setDeleting(null) closes the dialog that is open, if it is another row's too. *)
DeleteSucceeds ==
    /\ delete # None
    /\ delete.answer = "ok"
    /\ deleting' = None
    /\ deleteBusy' = FALSE
    /\ delete' = None
    /\ gone' = gone \cup {delete.row}
    /\ Reload
    /\ UNCHANGED <<listing, asking, saving, made>>

(* A refusal, or a request or an answer that is lost: nothing is reloaded. *)
DeleteFails ==
    /\ delete # None
    /\ deleteBusy' = FALSE
    /\ delete' = None
    /\ UNCHANGED <<listing, asking, view, deleting, saving, gone, made>>

(***************************************************************************)
(* The drawer: a new row, an edited row, or the members of a group.        *)
(***************************************************************************)
OpenDrawer(d) ==
    /\ NoModal
    /\ d # New => Shown # {}
    /\ d \in Rows => d \in Shown
    /\ drawer' = d
    /\ UNCHANGED <<listing, asking, view, dialog, posts, gone, made>>

Orphaned(ps) == {[p EXCEPT !.mine = FALSE] : p \in ps}

(* Closing does not call a save back; the members' drawer reloads the list. *)
CloseDrawer ==
    /\ drawer # None
    /\ drawer' = None
    /\ posts' = Orphaned(posts)
    /\ IF drawer = Members THEN Reload ELSE UNCHANGED view
    /\ UNCHANGED <<listing, asking, dialog, gone, made>>

(* The drawer's own busy flag is up exactly while a save of its own is under way. *)
Submit ==
    /\ drawer \notin {None, Members}
    /\ \A p \in posts : ~p.mine
    /\ writes < MaxWrites
    /\ writes' = writes + 1
    /\ posts' = posts \cup {[id |-> writes, row |-> drawer, answer |-> "none", mine |-> TRUE]}
    /\ UNCHANGED <<status, asking, view, dialog, drawer, gone, made>>

(* The row created becomes part of the answer; an edit finds its row or gets a 404. *)
ServerSaves(p) ==
    /\ p.answer = "none"
    /\ \/ /\ p.row = New
          /\ \E r \in Rows :
                 /\ Insert(r)
                 /\ posts' = (posts \ {p}) \cup {[p EXCEPT !.row = r, !.answer = "created"]}
       \/ /\ p.row # New
          /\ posts' = (posts \ {p}) \cup
                 {[p EXCEPT !.answer = IF status[p.row] = "live" THEN "ok" ELSE "refused"]}
          /\ UNCHANGED status
    /\ UNCHANGED <<writes, asking, view, dialog, drawer, gone, made>>

(* onSaved closes the drawer that is open, if it is another one too. *)
SaveSucceeds(p) ==
    /\ p.answer \in {"ok", "created"}
    /\ drawer' = None
    /\ posts' = Orphaned(posts \ {p})
    /\ made' = IF p.answer = "created" THEN made \cup {p.row} ELSE made
    /\ Reload
    /\ UNCHANGED <<listing, asking, dialog, gone>>

SaveFails(p) ==
    /\ posts' = posts \ {p}
    /\ UNCHANGED <<listing, asking, view, dialog, drawer, gone, made>>

PortalStep ==
    \/ \E text \in Texts : SetSearch(text)
    \/ Debounce
    \/ NextPage
    \/ PrevPage
    \/ Retry
    \/ ServerReads
    \/ LoadArrives
    \/ LoadFails
    \/ DisownedArrives
    \/ \E r \in Rows : AskDelete(r)
    \/ CloseDialog
    \/ ConfirmDelete
    \/ ServerDeletes
    \/ DeleteSucceeds
    \/ DeleteFails
    \/ \E d \in Rows \cup {New, Members} : OpenDrawer(d)
    \/ CloseDrawer
    \/ Submit
    \/ \E p \in posts : ServerSaves(p) \/ SaveSucceeds(p) \/ SaveFails(p)

(* Why a page may start beyond the end: Next was pressed under a page of another text than
   the one to be loaded, or one that counts rows that are gone; or a row of the list went
   since the list was last at its beginning. *)
Excuse ==
    excused' = /\ skip' # 0
               /\ \/ excused
                  \/ /\ skip' > skip
                     /\ page.text # search \/ page.text # debounced \/ ~(page.of \subseteq Live)
                  \/ ~(Matches(debounced) \subseteq Live')

PortalInit ==
    /\ search = NoText
    /\ debounced = NoText
    /\ skip = 0
    /\ page = None
    /\ loading = TRUE
    /\ error = FALSE
    /\ load = [text |-> NoText, skip |-> 0, of |-> None]
    /\ disowned = None
    /\ deleting = None
    /\ deleteBusy = FALSE
    /\ delete = None
    /\ drawer = None
    /\ posts = {}
    /\ typed = 0
    /\ gone = {}
    /\ made = {}
    /\ excused = FALSE

PortalTypeOK ==
    /\ {search, debounced} \subseteq Texts
    /\ skip \in Nat
    /\ {load, page} \subseteq Loads \cup {None}
    /\ disowned \in [text : Texts, skip : Nat] \cup {None}
    /\ {loading, error, deleteBusy, excused} \subseteq BOOLEAN
    /\ deleting \in Rows \cup {None}
    /\ delete \in Deletes \cup {None}
    /\ drawer \in Rows \cup {None, New, Members}
    /\ posts \subseteq Saves
    /\ typed \in 0..MaxTyping
    /\ gone \cup made \subseteq Rows

(* When nothing is loading and no error is shown, the rows on the screen are the answer to the
   query of now, however many queries were started and in which order their answers came; and
   a flag that says "busy" is up exactly while a request is out.  (The `cancelled` of
   usePagedList's effect; deleteBusy of the three routes.) *)
SettledViewIsOwnQuery ==
    /\ loading <=> load # None
    /\ deleteBusy <=> delete # None
    /\ ~loading /\ ~error =>
           page # None /\ page.of # None /\ page.text = debounced /\ page.skip = skip

(* After a delete or a creation this tab was told of, the list never again settles on a view
   from before it: the deleted row is not shown, and the created one is among the rows the
   page was cut from unless somebody has deleted it.  (The list.reload() after every
   acknowledged write, and the loads under way at that time.) *)
OwnWritesShown ==
    ~loading /\ ~error =>
        /\ gone \cap page.of = {}
        /\ \A r \in made \cap Hits[debounced] : r \in page.of \/ status[r] = "dead"

(* A page beyond the last row - "No users yet", although there are some - is shown only when
   rows went or when Next was pressed on the count of another search.  (skip is only reset by
   setSearch, not when the debounced text takes effect and not when the count shrinks.) *)
BeyondTheEndForCause ==
    ~loading /\ ~error /\ page.of # {} /\ Shown = {} => excused
=============================================================================
