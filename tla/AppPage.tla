------------------------------- MODULE AppPage -------------------------------
(***************************************************************************)
(* The portal's page of one app registration: one tab, the Admin API it    *)
(* talks to, and other administrators who edit the same app.               *)
(*                                                                         *)
(* The page loads the app once and again after every change it made.  It   *)
(* shows the data it has while it loads, and nothing but an error when a   *)
(* load fails: the section that was open is then unmounted, with what was  *)
(* typed into it, and mounted anew from the data when there is no error    *)
(* any more.  A section reads its fields from the data when it is mounted, *)
(* never later.  A request outlives the section, and the page, it came     *)
(* from.                                                                   *)
(***************************************************************************)
EXTENDS Naturals, FiniteSets

CONSTANTS
    FieldsOf,   \* [forms -> sets of fields]: what "basics" and "tokens" edit and save
    Choices,    \* [fields -> sets]: what can be typed or chosen
    BadLimit,   \* a group overage limit that is no positive integer
    Secrets, Scopes,    \* ids: client secrets; scopes, app roles and redirect URIs
    FirstItems, \* the items the app has at first
    Selections, \* what the token generator can be set to: user, kind and condition
    MaxWrites,  \* bound: writes to the app, sent by anybody
    None        \* no data, no request, nothing shown

Forms == DOMAIN FieldsOf
Fields == UNION {FieldsOf[s] : s \in Forms}
Items == Secrets \cup Scopes
Sections == Forms \cup {"secrets", "lists", "delete"}
Values == UNION {Choices[f] : f \in Fields}
Apps == [fields : [Fields -> Values], items : [Items -> {"unborn", "on", "off", "gone"}],
         ver : 0..MaxWrites]
FormStates(s) ==
    [values : [FieldsOf[s] -> Values], edited : SUBSET Fields, read : 0..MaxWrites]

ASSUME PageAssumption ==
    /\ Forms = {"basics", "tokens"}
    /\ FieldsOf["basics"] \cap FieldsOf["tokens"] = {}
    /\ Secrets \cap Scopes = {}
    /\ FirstItems \subseteq Secrets \cup Scopes
    /\ MaxWrites \in Nat
    /\ None \notin Items \cup Selections
    /\ \A s \in Forms : None \notin FormStates(s)

VARIABLES
    server,     \* [fields, items, ver], or None: the app as the directory has it
    stamp,      \* history: [Fields -> the ver that last changed the field]
    writes,     \* how many writes were sent
    here,       \* the tab shows this page
    section,    \* the section that is open
    app,        \* data: the app as last loaded, or None
    loading, error,
    load,       \* the GET in flight: [data], or None
    form,       \* what the form of the section holds: [values, edited, read], or None
    busy,       \* the busy flag of the section
    confirm,    \* the dialog of the delete section is open
    shown,      \* the secret whose dialog is open, or None
    selected, generated,    \* the token generator: what is chosen, for what the token is
    generating, \* what it was chosen when Generate was pressed, or None
    slipped,    \* history: the answer came after the choice had been changed
    calls,      \* writes in flight: [id, op, arg, answer, ver, mine, page]
    acked       \* history: the last ver of its own this page was told of

store == <<server, stamp>>
request == <<app, loading, error, load>>
dialogs == <<confirm, shown>>
generator == <<selected, generated, generating, slipped>>
local == <<form, busy, dialogs, generator>>
vars == <<store, writes, here, section, request, local, calls, acked>>

(* `loading && !app`, then `error || !app`: otherwise the section is on the screen. *)
Content == here /\ app # None /\ ~error

(* A modal dialog covers the page. *)
Reachable == Content /\ ~confirm /\ shown = None

\* Mutated: the fields start from a default, not from the data.
FreshForm_Default(s, d) ==
    IF s \in Forms /\ d # None
    THEN [values |-> [f \in FieldsOf[s] |-> CHOOSE v \in Choices[f] : v # BadLimit],
          edited |-> {}, read |-> d.ver]
    ELSE None

(* The initial state of a section's component, with data d. *)
FreshForm(s, d) ==
    IF s \in Forms /\ d # None
    THEN [values |-> [f \in FieldsOf[s] |-> d.fields[f]], edited |-> {}, read |-> d.ver]
    ELSE None

(* Section s is mounted with data d (or nothing is, if d is None): whatever the component
   before it held is lost, and the requests in cs are nobody's any more. *)
Mount(s, d, cs) ==
    /\ form' = FreshForm(s, d)
    /\ busy' = FALSE
    /\ confirm' = FALSE
    /\ shown' = None
    /\ selected' = None
    /\ generated' = None
    /\ generating' = None
    /\ slipped' = FALSE
    /\ calls' = {[c EXCEPT !.mine = FALSE] : c \in cs}

(* reload(): the effect clears the error at once, and with it the old data is back. *)
StartLoad ==
    /\ loading' = TRUE
    /\ error' = FALSE
    /\ load' = [data |-> None]
    /\ UNCHANGED app

(***************************************************************************)
(* The page.                                                               *)
(***************************************************************************)
Enter ==
    /\ ~here
    /\ here' = TRUE
    /\ section' = "basics"
    /\ app' = None
    /\ loading' = TRUE
    /\ error' = FALSE
    /\ load' = [data |-> None]
    /\ UNCHANGED <<store, writes, local, calls, acked>>

(* By a link or the browser's history: the whole page is unmounted. *)
LeaveWith(cs) ==
    /\ here' = FALSE
    /\ app' = None
    /\ load' = None
    /\ loading' = FALSE
    /\ error' = FALSE
    /\ acked' = 0
    /\ Mount(section, None, {[c EXCEPT !.page = FALSE] : c \in cs})
    /\ UNCHANGED section

Leave == here /\ LeaveWith(calls) /\ UNCHANGED <<store, writes>>

OpenSection(s) ==
    /\ Reachable
    /\ s # section
    /\ section' = s
    /\ Mount(s, app, calls)
    /\ UNCHANGED <<store, writes, here, request, acked>>

Retry ==
    /\ here
    /\ error
    /\ StartLoad
    /\ Mount(section, app, calls)
    /\ UNCHANGED <<store, writes, here, section, acked>>

ServerReads ==
    /\ load # None
    /\ load.data = None
    /\ server # None
    /\ load' = [data |-> server]
    /\ UNCHANGED <<store, writes, here, section, app, loading, error, local, calls, acked>>

\* Mutated: the sections give way to a skeleton during every load.
LoadArrives_Remounts ==
    /\ load # None
    /\ load.data # None
    /\ app' = load.data
    /\ loading' = FALSE
    /\ load' = None
    /\ Mount(section, load.data, calls)
    /\ UNCHANGED <<store, writes, here, section, error, acked>>

LoadArrives ==
    /\ load # None
    /\ load.data # None
    /\ app' = load.data
    /\ loading' = FALSE
    /\ load' = None
    /\ IF app = None THEN Mount(section, load.data, calls) ELSE UNCHANGED <<local, calls>>
    /\ UNCHANGED <<store, writes, here, section, error, acked>>

(* The app is gone, or the request or its answer is lost. *)
LoadFails ==
    /\ load # None
    /\ error' = TRUE
    /\ loading' = FALSE
    /\ load' = None
    /\ Mount(section, None, calls)
    /\ UNCHANGED <<store, writes, here, section, app, acked>>

(***************************************************************************)
(* What the user does in a section.  toggle and remove have no busy flag.  *)
(***************************************************************************)
Call(op, arg) ==
    /\ writes < MaxWrites
    /\ writes' = writes + 1
    /\ calls' = calls \cup {[id |-> writes, op |-> op, arg |-> arg, answer |-> "none",
                             ver |-> 0, mine |-> TRUE, page |-> TRUE]}

EditField(f, v) ==
    /\ Reachable
    /\ section \in Forms
    /\ f \in FieldsOf[section]
    /\ form.values[f] # v
    /\ form' = [form EXCEPT !.values[f] = v, !.edited = @ \cup {f}]
    /\ UNCHANGED <<store, writes, here, section, request, busy, dialogs, generator, calls, acked>>

(* BasicsForm asks for a difference to the data, TokenConfigCard for a limit that is blank or a
   positive integer. *)
Dirty == \E f \in FieldsOf[section] : form.values[f] # app.fields[f]
LimitIsValid == \A f \in FieldsOf[section] : form.values[f] # BadLimit

(* Every field of the form is sent, edited or not. *)
SaveForm ==
    /\ Reachable
    /\ section \in Forms
    /\ ~busy
    /\ section = "basics" => Dirty
    /\ LimitIsValid
    /\ busy' = TRUE
    /\ Call("save", form)
    /\ UNCHANGED <<store, here, section, request, form, dialogs, generator, acked>>

CreateSecret ==
    /\ Reachable
    /\ section = "secrets"
    /\ ~busy
    /\ busy' = TRUE
    /\ Call("create", Secrets)
    /\ UNCHANGED <<store, here, section, request, form, dialogs, generator, acked>>

(* The dialog can be closed only by its user. *)
CloseSecret ==
    /\ Content
    /\ shown # None
    /\ shown' = None
    /\ UNCHANGED <<store, writes, here, section, request, form, busy, confirm, generator, calls,
                   acked>>

AddItem ==
    /\ Reachable
    /\ section = "lists"
    /\ ~busy
    /\ busy' = TRUE
    /\ Call("add", Scopes)
    /\ UNCHANGED <<store, here, section, request, form, dialogs, generator, acked>>

Listed == {i \in IF section = "secrets" THEN Secrets ELSE Scopes : app.items[i] \in {"on", "off"}}

RemoveItem(i) ==
    /\ Reachable
    /\ section \in {"secrets", "lists"}
    /\ i \in Listed
    /\ Call("remove", i)
    /\ UNCHANGED <<store, here, section, request, local, acked>>

(* The opposite of what is on the screen is sent. *)
ToggleItem(i) ==
    /\ Reachable
    /\ section = "lists"
    /\ i \in Listed
    /\ Call(IF app.items[i] = "on" THEN "disable" ELSE "enable", i)
    /\ UNCHANGED <<store, here, section, request, local, acked>>

AskDeleteApp ==
    /\ Reachable
    /\ section = "delete"
    /\ confirm' = TRUE
    /\ UNCHANGED <<store, writes, here, section, request, form, busy, shown, generator, calls,
                   acked>>

CancelDeleteApp ==
    /\ Content
    /\ confirm
    /\ confirm' = FALSE
    /\ UNCHANGED <<store, writes, here, section, request, form, busy, shown, generator, calls,
                   acked>>

ConfirmDeleteApp ==
    /\ Content
    /\ confirm
    /\ ~busy
    /\ busy' = TRUE
    /\ Call("delete", None)
    /\ UNCHANGED <<store, here, section, request, form, dialogs, generator, acked>>

(* Every change of a choice takes the token away. *)
Select(x) ==
    /\ Reachable
    /\ section = "tokens"
    /\ x # selected
    /\ selected' = x
    /\ generated' = None
    /\ slipped' = FALSE
    /\ UNCHANGED <<store, writes, here, section, request, form, busy, dialogs, generating, calls,
                   acked>>

Generate ==
    /\ Reachable
    /\ section = "tokens"
    /\ selected # None
    /\ generating = None
    /\ generating' = selected
    /\ UNCHANGED <<store, writes, here, section, request, form, busy, dialogs, selected, generated,
                   slipped, calls, acked>>

(* A token for what was chosen when the button was pressed, or none when that fails. *)
GenerateAnswered ==
    /\ generating # None
    /\ generated' \in {generating, None}
    /\ slipped' = (generating # selected)
    /\ generating' = None
    /\ UNCHANGED <<store, writes, here, section, request, form, busy, dialogs, selected, calls,
                   acked>>

(***************************************************************************)
(* The server, for this page and for the others.                           *)
(***************************************************************************)
PutFields(values) ==
    /\ server' = [server EXCEPT !.fields = [f \in Fields |-> IF f \in DOMAIN values
                                                             THEN values[f] ELSE @[f]],
                                !.ver = @ + 1]
    /\ stamp' = [f \in Fields |-> IF f \in DOMAIN values /\ values[f] # server.fields[f]
                                  THEN server.ver + 1 ELSE stamp[f]]

PutItem(i, state) ==
    /\ server' = [server EXCEPT !.items[i] = state, !.ver = @ + 1]
    /\ UNCHANGED stamp

There(i) == server.items[i] \in {"on", "off"}

(* A write is done, or refused with 404 because what it is about is gone. *)
Done(c) ==
    LET answered(op) == calls' = (calls \ {c}) \cup
            {[c EXCEPT !.answer = "ok", !.ver = server.ver + 1, !.arg = op]}
    IN \/ c.op = "save" /\ PutFields(c.arg.values) /\ answered(None)
       \/ /\ c.op \in {"create", "add"}
          /\ \E i \in c.arg : server.items[i] = "unborn" /\ PutItem(i, "on") /\ answered(i)
       \/ c.op = "remove" /\ There(c.arg) /\ PutItem(c.arg, "gone") /\ answered(None)
       \/ c.op = "enable" /\ There(c.arg) /\ PutItem(c.arg, "on") /\ answered(None)
       \/ c.op = "disable" /\ There(c.arg) /\ PutItem(c.arg, "off") /\ answered(None)
       \/ c.op = "delete" /\ server' = None /\ UNCHANGED stamp /\ answered(None)

ServerDoes(c) ==
    /\ c.answer = "none"
    /\ server # None
    /\ Done(c)
    /\ UNCHANGED <<writes, here, section, request, local, acked>>

OthersWrite ==
    /\ server # None
    /\ writes < MaxWrites
    /\ writes' = writes + 1
    /\ \/ \E f \in Fields : \E v \in Choices[f] \ {BadLimit, server.fields[f]} :
              PutFields([g \in {f} |-> v])
       \/ \E i \in Items : There(i) /\ PutItem(i, "gone")
       \/ \E i \in Items : server.items[i] = "unborn" /\ PutItem(i, "on")
       \/ server' = None /\ UNCHANGED stamp
    /\ UNCHANGED <<here, section, request, local, calls, acked>>

(***************************************************************************)
(* The answers to the writes.                                              *)
(***************************************************************************)
Flagged == {"save", "create", "add", "delete"}

\* Mutated: the page is not reloaded.
CallSucceeds_NoReload(c) ==
    /\ c.answer = "ok"
    /\ c.op # "delete"
    /\ acked' = IF c.page /\ c.ver > acked THEN c.ver ELSE acked
    /\ calls' = calls \ {c}
    /\ busy' = (busy /\ ~(c.mine /\ c.op \in Flagged))
    /\ shown' = IF c.mine /\ c.op = "create" THEN c.arg ELSE shown
    /\ UNCHANGED <<request, form, confirm, generator, store, writes, here, section>>

(* setCreated and setBusy reach the component only while it is mounted; reload() reaches the
   page only while that is. *)
CallSucceeds(c) ==
    /\ c.answer = "ok"
    /\ c.op # "delete"
    /\ IF c.page THEN StartLoad ELSE UNCHANGED request
    /\ acked' = IF c.page /\ c.ver > acked THEN c.ver ELSE acked
    /\ IF c.page /\ error
       THEN Mount(section, app, calls \ {c})
       ELSE /\ calls' = calls \ {c}
            /\ busy' = (busy /\ ~(c.mine /\ c.op \in Flagged))
            /\ shown' = IF c.mine /\ c.op = "create" THEN c.arg ELSE shown
            /\ UNCHANGED <<form, confirm, generator>>
    /\ UNCHANGED <<store, writes, here, section>>

(* The app is deleted: navigate('/apps'), wherever the tab is by then. *)
DeleteSucceeds(c) ==
    /\ c.answer = "ok"
    /\ c.op = "delete"
    /\ LeaveWith(calls \ {c})
    /\ UNCHANGED <<store, writes>>

\* Mutated: a failure leaves the flag up.
CallFails_Busy(c) ==
    /\ calls' = calls \ {c}
    /\ UNCHANGED <<store, writes, here, section, request, form, busy, dialogs, generator, acked>>

(* Refused, or the request or its answer is lost: nothing is reloaded. *)
CallFails(c) ==
    /\ calls' = calls \ {c}
    /\ busy' = (busy /\ ~(c.mine /\ c.op \in Flagged))
    /\ UNCHANGED <<store, writes, here, section, request, form, dialogs, generator, acked>>

Next ==
    \/ Enter
    \/ Leave
    \/ \E s \in Sections : OpenSection(s)
    \/ Retry
    \/ ServerReads
    \/ LoadArrives
    \/ LoadFails
    \/ \E f \in Fields : \E v \in Choices[f] : EditField(f, v)
    \/ SaveForm
    \/ CreateSecret
    \/ CloseSecret
    \/ AddItem
    \/ \E i \in Items : RemoveItem(i) \/ ToggleItem(i)
    \/ AskDeleteApp
    \/ CancelDeleteApp
    \/ ConfirmDeleteApp
    \/ \E x \in Selections \cup {None} : Select(x)
    \/ Generate
    \/ GenerateAnswered
    \/ OthersWrite
    \/ \E c \in calls : ServerDoes(c) \/ CallSucceeds(c) \/ DeleteSucceeds(c) \/ CallFails(c)

Init ==
    /\ \E fields \in [Fields -> UNION {Choices[f] : f \in Fields}] :
           /\ \A f \in Fields : fields[f] = CHOOSE v \in Choices[f] : v # BadLimit
           /\ server = [fields |-> fields, ver |-> 0,
                        items |-> [i \in Items |-> IF i \in FirstItems THEN "on" ELSE "unborn"]]
    /\ stamp = [f \in Fields |-> 0]
    /\ writes = 0
    /\ here = FALSE
    /\ section = "basics"
    /\ app = None
    /\ loading = FALSE
    /\ error = FALSE
    /\ load = None
    /\ form = None
    /\ busy = FALSE
    /\ confirm = FALSE
    /\ shown = None
    /\ selected = None
    /\ generated = None
    /\ generating = None
    /\ slipped = FALSE
    /\ calls = {}
    /\ acked = 0

Spec == Init /\ [][Next]_vars

(* A request that was sent is answered, or its connection breaks and the browser says so. *)
Answered(c) == CallSucceeds(c) \/ DeleteSucceeds(c) \/ CallFails(c)

FairSpec ==
    /\ Spec
    /\ WF_vars(GenerateAnswered)
    /\ \A n \in 0..(MaxWrites - 1) : WF_vars(\E c \in calls : c.id = n /\ Answered(c))

-----------------------------------------------------------------------------
TypeOK ==
    /\ server \in Apps \cup {None} /\ app \in Apps \cup {None}
    /\ stamp \in [Fields -> 0..MaxWrites]
    /\ writes \in 0..MaxWrites
    /\ here \in BOOLEAN /\ loading \in BOOLEAN /\ error \in BOOLEAN
    /\ busy \in BOOLEAN /\ confirm \in BOOLEAN /\ slipped \in BOOLEAN
    /\ section \in Sections
    /\ load \in [data : Apps \cup {None}] \cup {None}
    /\ form # None => section \in Forms /\ form \in FormStates(section)
    /\ shown \in Secrets \cup {None}
    /\ selected \in Selections \cup {None} /\ generated \in Selections \cup {None}
    /\ generating \in Selections \cup {None}
    /\ \A c \in calls : /\ c.id \in 0..(MaxWrites - 1)
                        /\ c.answer \in {"none", "ok"}
                        /\ c.mine => c.page
    /\ acked \in 0..MaxWrites

(* When the page is at rest without an error, what it shows was read after every change it was
   told of, however the loads, the errors and the retries between them were ordered; it shows
   the form of a section exactly when that section is on the screen; and a busy flag is up
   exactly while a request of the section that is mounted is out.  (useAsync's reload, called
   by every handler of the page after its own success.) *)
OwnChangesShown ==
    /\ here /\ app # None /\ ~loading /\ ~error => app.ver >= acked
    /\ form # None <=> Content /\ section \in Forms
    /\ busy <=> \E c \in calls : c.mine /\ c.op \in Flagged

PageSound == TypeOK /\ OwnChangesShown

(* A save that the server carries out changes a field the user did not touch only when somebody
   has changed that field since the data was loaded from which the form was mounted: what was
   there by then is not undone by a section left, a page reloaded or an error in between.
   (useState(app.x) of BasicsForm and TokenConfigCard; every save sends the whole form.) *)
SavesUndoForCause ==
    [][\A c \in calls : c.op = "save" /\ ServerDoes(c) =>
           \A f \in Fields : server'.fields[f] # server.fields[f] =>
               f \in c.arg.edited \/ stamp[f] > c.arg.read]_vars

(* The token on the screen is one for the user, the kind and the condition chosen above it,
   unless the choice had been changed by the time it came.  And the dialog with a new
   secret goes only when its user closes it, when the tab leaves the page, or when the page
   fails to load again; no other secret takes its place.  (TokenGenerator's
   setGenerated(undefined); `created` of SecretList, which lives as long as the section.) *)
ShownStaysForCause ==
    [][/\ generated' # None => generated' = selected' \/ slipped'
       /\ shown' # shown /\ shown # None =>
              shown' = None /\ (CloseSecret \/ LoadFails \/ ~here')]_vars

(* Whatever becomes of a request - done, refused, lost - the button that sent it can be used
   again or is no longer there.  (The finally of every handler; DeleteAppCard has none and
   leaves the page instead.) *)
BusyEnds == (busy ~> ~busy) /\ (generating # None ~> generating = None)
=============================================================================
