---------------------------- MODULE AppPageProofs -----------------------------
(***************************************************************************)
(* Proofs about AppPage, for any fields, items and bound on the writes.    *)
(***************************************************************************)
EXTENDS AppPage, TLAPS, FiniteSetTheorems

Ops == {"save", "create", "add", "remove", "enable", "disable", "delete"}
AllFormStates == UNION {FormStates(s) : s \in Forms}
Args == AllFormStates \cup Items \cup {Secrets, Scopes, None}
CallRecords ==
    [id : 0..(MaxWrites - 1), op : Ops, arg : Args, answer : {"none", "ok"}, ver : 0..MaxWrites,
     mine : BOOLEAN, page : BOOLEAN]

\* Data d is what the app a was at d.ver: a field that differs was changed since, in stamps st.
Current(d, a, st) ==
    a # None => /\ d.ver <= a.ver
                /\ \A f \in Fields : st[f] <= d.ver => d.fields[f] = a.fields[f]

\* So is what a form m holds, where the user left it alone.
Untouched(m, a, st) ==
    a # None => /\ m.read <= a.ver
                /\ \A f \in Fields : f \in DOMAIN m.values /\ f \notin m.edited /\ st[f] <= m.read
                                         => m.values[f] = a.fields[f]

\* A request carries what its handler needs, and its answer what was made.
CallTyped(c) ==
    /\ c \in CallRecords
    /\ c.answer = "none" =>
           /\ c.op = "save" => \E s \in Forms : c.arg \in FormStates(s)
           /\ c.op = "create" => c.arg = Secrets
           /\ c.op = "add" => c.arg = Scopes
           /\ c.op \in {"remove", "enable", "disable"} => c.arg \in Items
    /\ c.answer = "ok" /\ c.op = "create" => c.arg \in Secrets

CallData(c, a, st) ==
    /\ c.answer = "none" /\ c.op = "save" => Untouched(c.arg, a, st)
    /\ c.answer = "ok" /\ a # None => c.ver <= a.ver

Distinct(cs) == \A c, d \in cs : c.id = d.id => c = d

\* The requests the server has not answered, by number: each may still add a version.
OpenIds(cs) == {n \in 0..(MaxWrites - 1) : \E c \in cs : c.id = n /\ c.answer = "none"}

CallsInv ==
    /\ \A c \in calls : CallTyped(c) /\ c.id < writes /\ CallData(c, server, stamp)
    /\ Distinct(calls)
    /\ server # None => server.ver + Cardinality(OpenIds(calls)) <= writes

\* What is on the screen, and which requests belong to it.
FormShown == form # None <=> Content /\ section \in Forms
BusyIsFlag == busy <=> \E c \in calls : c.mine /\ c.op \in Flagged
OneFlag == \A c, d \in calls : c.mine /\ d.mine /\ c.op \in Flagged /\ d.op \in Flagged => c = d
CallsOnScreen ==
    \A c \in calls :
        /\ c.page => here
        /\ c.mine => c.page /\ Content
        /\ c.mine /\ c.op = "create" => section = "secrets"
DialogInv ==
    /\ shown # None => Content /\ section = "secrets" /\ ~busy
    /\ confirm => Content /\ section = "delete"
    /\ generated # None => generated = selected \/ slipped
LoadShown == load # None => here /\ ~error

ScreenInv == FormShown /\ BusyIsFlag /\ OneFlag /\ CallsOnScreen /\ DialogInv /\ LoadShown

\* What the page has loaded, is loading and has in its form, against the directory.
PageData ==
    /\ app # None => Current(app, server, stamp)
    /\ load # None /\ load.data # None =>
           Current(load.data, server, stamp) /\ acked <= load.data.ver
    /\ form # None => Untouched(form, server, stamp)
    /\ server # None => acked <= server.ver /\ \A f \in Fields : stamp[f] <= server.ver
    /\ here /\ app # None /\ ~loading /\ ~error => app.ver >= acked

IInv == TypeOK /\ CallsInv /\ ScreenInv /\ PageData

-----------------------------------------------------------------------------
\* Two records of the same request: only whose it is differs.
Same(c, k) ==
    k.id = c.id /\ k.op = c.op /\ k.arg = c.arg /\ k.answer = c.answer /\ k.ver = c.ver

LEMMA Disowned ==
    ASSUME NEW cs \in SUBSET CallRecords
    PROVE  LET ks == {[c EXCEPT !.mine = FALSE] : c \in cs}
           IN /\ \A k \in ks : /\ k \in CallRecords /\ k.mine = FALSE
                               /\ \E c \in cs : Same(c, k) /\ k.page = c.page
              /\ Distinct(cs) => Distinct(ks)
  <1> DEFINE Without(c) == [c EXCEPT !.mine = FALSE]
  <1>1. \A c \in cs : /\ Without(c) \in CallRecords /\ Without(c).mine = FALSE
                      /\ Same(c, Without(c)) /\ Without(c).page = c.page
    BY DEF CallRecords, Same
  <1>2. \A c, d \in cs : Distinct(cs) /\ Without(c).id = Without(d).id => Without(c) = Without(d)
    <2>1. TAKE c, d \in cs
    <2>2. HAVE Distinct(cs) /\ Without(c).id = Without(d).id
    <2>3. c.id = d.id
      BY <1>1, <2>2 DEF Same
    <2>4. QED
      BY <2>2, <2>3 DEF Distinct
  <1>3. \A k \in {Without(c) : c \in cs} : /\ k \in CallRecords /\ k.mine = FALSE
                                         /\ \E c \in cs : Same(c, k) /\ k.page = c.page
    BY <1>1
  <1>4. Distinct(cs) => Distinct({Without(c) : c \in cs})
    BY <1>2 DEF Distinct
  <1>5. QED
    BY <1>3, <1>4

LEMMA Paged ==
    ASSUME NEW cs \in SUBSET CallRecords
    PROVE  LET ks == {[c EXCEPT !.page = FALSE] : c \in cs}
           IN /\ \A k \in ks : /\ k \in CallRecords /\ k.page = FALSE
                               /\ \E c \in cs : Same(c, k)
              /\ Distinct(cs) => Distinct(ks)
  <1> DEFINE Without(c) == [c EXCEPT !.page = FALSE]
  <1>1. \A c \in cs : Without(c) \in CallRecords /\ Without(c).page = FALSE /\ Same(c, Without(c))
    BY DEF CallRecords, Same
  <1>2. \A c, d \in cs : Distinct(cs) /\ Without(c).id = Without(d).id => Without(c) = Without(d)
    <2>1. TAKE c, d \in cs
    <2>2. HAVE Distinct(cs) /\ Without(c).id = Without(d).id
    <2>3. c.id = d.id
      BY <1>1, <2>2 DEF Same
    <2>4. QED
      BY <2>2, <2>3 DEF Distinct
  <1>3. QED
    BY <1>1, <1>2 DEF Distinct

\* Fewer requests are open.
LEMMA FewerOpen ==
    ASSUME NEW cs, NEW ks, OpenIds(ks) \subseteq OpenIds(cs)
    PROVE  /\ IsFiniteSet(OpenIds(ks))
           /\ Cardinality(OpenIds(ks)) \in Nat /\ Cardinality(OpenIds(cs)) \in Nat
           /\ Cardinality(OpenIds(ks)) <= Cardinality(OpenIds(cs))
  <1>1. IsFiniteSet(OpenIds(cs))
    <2>1. IsFiniteSet(0..(MaxWrites - 1))
      BY PageAssumption, FS_Interval
    <2>2. QED
      BY <2>1, FS_Subset DEF OpenIds
  <1>2. QED
    BY <1>1, FS_Subset, FS_CardinalityType

\* Requests that are answered to the browser, dropped or disowned leave the rest as it was.
LEMMA Inherited ==
    ASSUME IInv, UNCHANGED <<server, stamp, writes>>, Distinct(calls'),
           \A k \in calls' : k \in CallRecords /\ \E c \in calls : Same(c, k)
    PROVE  CallsInv'
  <1>1. \A k \in calls' : CallTyped(k) /\ k.id < writes /\ CallData(k, server, stamp)
    <2>1. TAKE k \in calls'
    <2>2. PICK c \in calls : Same(c, k)
      OBVIOUS
    <2>3. CallTyped(c) /\ c.id < writes /\ CallData(c, server, stamp)
      BY DEF IInv, CallsInv
    <2>4. QED
      BY <2>2, <2>3 DEF CallTyped, CallData, Same
  <1>2. OpenIds(calls') \subseteq OpenIds(calls)
    BY DEF OpenIds, Same
  <1>3. server # None =>
            server.ver + Cardinality(OpenIds(calls')) <= server.ver + Cardinality(OpenIds(calls))
    BY <1>2, FewerOpen DEF IInv, TypeOK, Apps
  <1>4. server # None => server.ver + Cardinality(OpenIds(calls')) <= writes
    <2> DEFINE n == Cardinality(OpenIds(calls')) m == Cardinality(OpenIds(calls))
    <2>1. n \in Nat /\ m \in Nat
      BY <1>2, FewerOpen
    <2>2. server # None => server.ver + m <= writes /\ server.ver \in Nat /\ writes \in Nat
      BY DEF IInv, TypeOK, CallsInv, Apps
    <2>3. QED
      BY <1>3, <2>1, <2>2
  <1>5. QED
    BY <1>1, <1>4 DEF CallsInv

\* A section that is mounted is the section on the screen, and holds the data as it was loaded.
LEMMA Remounted ==
    ASSUME NEW s \in Sections, NEW d \in Apps \cup {None}, NEW cs \in SUBSET CallRecords,
           Mount(s, d, cs), section' = s, d # None <=> Content',
           d # None => Current(d, server', stamp')
    PROVE  /\ FormShown' /\ BusyIsFlag' /\ OneFlag' /\ DialogInv'
           /\ form' # None => /\ section' \in Forms /\ form' \in FormStates(section')
                              /\ Untouched(form', server', stamp')
           /\ busy' = FALSE /\ confirm' = FALSE /\ slipped' = FALSE /\ shown' = None
           /\ selected' = None /\ generated' = None /\ generating' = None
           /\ \A k \in calls' : /\ k \in CallRecords /\ ~k.mine
                                /\ \E c \in cs : Same(c, k) /\ k.page = c.page
           /\ Distinct(cs) => Distinct(calls')
  <1>1. /\ \A k \in calls' : /\ k \in CallRecords /\ ~k.mine
                             /\ \E c \in cs : Same(c, k) /\ k.page = c.page
        /\ Distinct(cs) => Distinct(calls')
    BY Disowned DEF Mount
  <1>2. /\ busy' = FALSE /\ confirm' = FALSE /\ slipped' = FALSE /\ shown' = None
        /\ selected' = None /\ generated' = None /\ generating' = None
        /\ form' = FreshForm(s, d)
    BY DEF Mount
  <1>3. CASE s \in Forms /\ d # None
    <2>1. /\ d \in Apps
          /\ form' = [values |-> [f \in FieldsOf[s] |-> d.fields[f]], edited |-> {},
                      read |-> d.ver]
      BY <1>2, <1>3 DEF FreshForm
    <2>2. form' \in FormStates(s)
      BY <1>3, <2>1 DEF FormStates, Apps, Fields
    <2>3. form' # None
      BY <1>3, <2>2, PageAssumption
    <2>4. Untouched(form', server', stamp')
      BY <1>3, <2>1 DEF Untouched, Current
    <2>5. FormShown' /\ BusyIsFlag' /\ OneFlag' /\ DialogInv'
      BY <1>1, <1>2, <1>3, <2>3 DEF FormShown, BusyIsFlag, OneFlag, DialogInv
    <2>6. QED
      BY <1>1, <1>2, <1>3, <2>2, <2>4, <2>5
  <1>4. CASE ~(s \in Forms /\ d # None)
    <2>1. form' = None
      BY <1>2, <1>4 DEF FreshForm
    <2>2. FormShown' /\ BusyIsFlag' /\ OneFlag' /\ DialogInv'
      BY <1>1, <1>2, <1>4, <2>1 DEF FormShown, BusyIsFlag, OneFlag, DialogInv
    <2>3. QED
      BY <1>1, <1>2, <2>1, <2>2
  <1>5. QED
    BY <1>3, <1>4

\* What a handler may send.
Proper(op, arg) ==
    /\ op \in Ops /\ arg \in Args
    /\ op = "save" => (\E s \in Forms : arg \in FormStates(s)) /\ Untouched(arg, server, stamp)
    /\ op = "create" => arg = Secrets
    /\ op = "add" => arg = Scopes
    /\ op \in {"remove", "enable", "disable"} => arg \in Items

\* A request that is sent is one more that may add a version.
LEMMA Sent ==
    ASSUME IInv, NEW op, NEW arg, Proper(op, arg), Call(op, arg), UNCHANGED <<server, stamp>>
    PROVE  /\ CallsInv' /\ writes' \in 0..MaxWrites
           /\ \E c \in calls' : /\ calls' = calls \cup {c}
                                /\ c.op = op /\ c.mine /\ c.page
  <1> DEFINE c == [id |-> writes, op |-> op, arg |-> arg, answer |-> "none", ver |-> 0,
                   mine |-> TRUE, page |-> TRUE]
  <1>1. /\ writes \in Nat /\ writes < MaxWrites /\ writes' = writes + 1 /\ MaxWrites \in Nat
        /\ calls' = calls \cup {c}
    BY PageAssumption DEF IInv, TypeOK, Call
  <1>2. /\ c \in CallRecords /\ c.id = writes /\ c.op = op /\ c.arg = arg /\ c.answer = "none"
        /\ c.mine /\ c.page
    BY <1>1 DEF CallRecords, Proper
  <1> HIDE DEF c
  <1>3. CallTyped(c) /\ c.id < writes' /\ CallData(c, server', stamp')
    BY <1>1, <1>2 DEF CallTyped, CallData, Proper
  <1>4. \A k \in calls : /\ CallTyped(k) /\ k.id < writes /\ k.id \in Nat
                         /\ CallData(k, server', stamp')
    BY DEF IInv, CallsInv, CallTyped, CallRecords
  <1>5. \A k \in calls' : CallTyped(k) /\ k.id < writes' /\ CallData(k, server', stamp')
    BY <1>1, <1>3, <1>4
  <1>6. Distinct(calls')
    BY <1>1, <1>2, <1>4 DEF IInv, CallsInv, Distinct
  <1>7. OpenIds(calls') = OpenIds(calls) \cup {writes}
    BY <1>1, <1>2 DEF OpenIds
  <1>8. Cardinality(OpenIds(calls')) = Cardinality(OpenIds(calls)) + 1
    <2>1. IsFiniteSet(OpenIds(calls))
      BY FewerOpen
    <2>2. writes \notin OpenIds(calls)
      BY <1>4, <1>1 DEF OpenIds
    <2>3. QED
      BY <1>7, <2>1, <2>2, FS_AddElement
  <1>9. server' # None => server'.ver + Cardinality(OpenIds(calls')) <= writes'
    <2> DEFINE m == Cardinality(OpenIds(calls))
    <2>1. m \in Nat
      BY FewerOpen
    <2>2. server # None => server.ver + m <= writes /\ server.ver \in Nat
      BY DEF IInv, TypeOK, CallsInv, Apps
    <2>3. QED
      BY <1>1, <1>8, <2>1, <2>2
  <1>10. QED
    BY <1>1, <1>2, <1>5, <1>6, <1>9 DEF CallsInv

LEMMA CallsTyped == IInv => calls \in SUBSET CallRecords /\ Distinct(calls)
  BY DEF IInv, CallsInv, CallTyped

LEMMA CallsKept ==
    ASSUME IInv, UNCHANGED <<server, stamp, writes, calls>>
    PROVE  CallsInv'
  BY DEF IInv, CallsInv, CallTyped, CallData, Distinct, OpenIds

\* The page: it is entered and left, loads, and is loaded again.
LEMMA EnterKeeps == IInv /\ Enter => IInv'
  <1> SUFFICES ASSUME IInv, Enter PROVE IInv'
    OBVIOUS
  <1>1. CallsInv'
    BY CallsKept DEF Enter, store, local
  <1>2. ~Content /\ form = None /\ \A c \in calls : ~c.page /\ ~c.mine
    BY DEF IInv, ScreenInv, FormShown, CallsOnScreen, Content, Enter
  <1>3. ScreenInv'
    BY <1>2
       DEF IInv, ScreenInv, FormShown, BusyIsFlag, OneFlag, CallsOnScreen, DialogInv, LoadShown,
           Content, Enter, local, dialogs, generator
  <1>4. TypeOK'
    BY <1>2, PageAssumption DEF IInv, TypeOK, Enter, store, local, dialogs, generator, Sections
  <1>5. PageData'
    BY <1>2 DEF IInv, PageData, Enter, store, local
  <1>6. QED
    BY <1>1, <1>3, <1>4, <1>5 DEF IInv

\* However the page is left, its requests are nobody's.
LEMMA LeaveKeeps ==
    ASSUME IInv, NEW cs \in SUBSET calls, LeaveWith(cs), UNCHANGED <<store, writes>>
    PROVE  IInv'
  <1> DEFINE ds == {[c EXCEPT !.page = FALSE] : c \in cs}
  <1>1. cs \in SUBSET CallRecords /\ Distinct(cs)
    BY CallsTyped DEF Distinct
  <1>2. /\ \A k \in ds : k \in CallRecords /\ k.page = FALSE /\ \E c \in cs : Same(c, k)
        /\ Distinct(ds)
    BY <1>1, Paged
  <1>3. Mount(section, None, ds) /\ here' = FALSE /\ app' = None /\ load' = None
        /\ loading' = FALSE /\ error' = FALSE /\ acked' = 0 /\ section' = section
        /\ UNCHANGED <<server, stamp, writes>>
    BY DEF LeaveWith, store
  <1> HIDE DEF ds
  <1>4. section \in Sections /\ ~Content'
    BY <1>3 DEF IInv, TypeOK, Content
  <1>5. /\ FormShown' /\ BusyIsFlag' /\ OneFlag' /\ DialogInv'
        /\ form' # None => /\ section' \in Forms /\ form' \in FormStates(section')
                           /\ Untouched(form', server', stamp')
        /\ busy' = FALSE /\ confirm' = FALSE /\ slipped' = FALSE /\ shown' = None
        /\ selected' = None /\ generated' = None /\ generating' = None
        /\ \A k \in calls' : /\ k \in CallRecords /\ ~k.mine
                             /\ \E c \in ds : Same(c, k) /\ k.page = c.page
        /\ Distinct(ds) => Distinct(calls')
    <2>1. ds \in SUBSET CallRecords
      BY <1>2
    <2>2. QED
      BY <1>3, <1>4, <2>1, Remounted
  <1>6. \A k \in calls' : ~k.page /\ ~k.mine /\ k \in CallRecords /\ \E c \in calls : Same(c, k)
    BY <1>2, <1>5 DEF Same
  <1>7. CallsInv'
    BY <1>2, <1>3, <1>5, <1>6, Inherited
  <1>8. ScreenInv'
    BY <1>3, <1>5, <1>6 DEF ScreenInv, CallsOnScreen, LoadShown
  <1>9. TypeOK'
    <2>1. \A k \in calls' : /\ k.id \in 0..(MaxWrites - 1) /\ k.answer \in {"none", "ok"}
                            /\ k.mine => k.page
      BY <1>6 DEF CallRecords
    <2>2. acked' \in 0..MaxWrites
      BY <1>3, PageAssumption
    <2>3. /\ server' \in Apps \cup {None} /\ stamp' \in [Fields -> 0..MaxWrites]
          /\ writes' \in 0..MaxWrites
      BY <1>3 DEF IInv, TypeOK
    <2>4. QED
      BY <1>3, <1>4, <1>5, <2>1, <2>2, <2>3 DEF TypeOK
  <1>10. PageData'
    BY <1>3, <1>5, PageAssumption DEF IInv, PageData, TypeOK, Apps
  <1>11. QED
    BY <1>7, <1>8, <1>9, <1>10 DEF IInv

\* A section mounted while the page stays: what is left to show is what the page loads.
LEMMA MountKeeps ==
    ASSUME IInv, NEW s \in Sections, NEW d \in Apps \cup {None}, NEW cs \in SUBSET calls,
           Mount(s, d, cs), section' = s, d # None <=> Content',
           d # None => Current(d, server, stamp),
           UNCHANGED <<server, stamp, writes, here>>,
           app' \in Apps \cup {None}, loading' \in BOOLEAN, error' \in BOOLEAN,
           load' \in [data : Apps \cup {None}] \cup {None}, acked' \in 0..MaxWrites
    PROVE  /\ TypeOK' /\ CallsInv'
           /\ FormShown' /\ BusyIsFlag' /\ OneFlag' /\ CallsOnScreen' /\ DialogInv'
           /\ form' # None => Untouched(form', server', stamp')
  <1>1. cs \in SUBSET CallRecords /\ Distinct(cs)
    BY CallsTyped DEF Distinct
  <1>2. d # None => Current(d, server', stamp')
    OBVIOUS
  <1>3. /\ FormShown' /\ BusyIsFlag' /\ OneFlag' /\ DialogInv'
        /\ form' # None => /\ section' \in Forms /\ form' \in FormStates(section')
                           /\ Untouched(form', server', stamp')
        /\ busy' = FALSE /\ confirm' = FALSE /\ slipped' = FALSE /\ shown' = None
        /\ selected' = None /\ generated' = None /\ generating' = None
        /\ \A k \in calls' : /\ k \in CallRecords /\ ~k.mine
                             /\ \E c \in cs : Same(c, k) /\ k.page = c.page
        /\ Distinct(cs) => Distinct(calls')
    BY <1>1, <1>2, Remounted
  <1>4. CallsInv'
    BY <1>1, <1>3, Inherited
  <1>5. CallsOnScreen'
    BY <1>3 DEF IInv, ScreenInv, CallsOnScreen
  <1>6. TypeOK'
    <2>1. \A k \in calls' : /\ k.id \in 0..(MaxWrites - 1) /\ k.answer \in {"none", "ok"}
                            /\ k.mine => k.page
      BY <1>3 DEF CallRecords
    <2>2. /\ server' \in Apps \cup {None} /\ stamp' \in [Fields -> 0..MaxWrites]
          /\ writes' \in 0..MaxWrites /\ here' \in BOOLEAN
      BY DEF IInv, TypeOK
    <2>3. QED
      BY <1>3, <2>1, <2>2 DEF TypeOK
  <1>7. QED
    BY <1>3, <1>4, <1>5, <1>6

LEMMA OpenSectionKeeps == \A s \in Sections : IInv /\ OpenSection(s) => IInv'
  <1> SUFFICES ASSUME NEW s \in Sections, IInv, OpenSection(s) PROVE IInv'
    OBVIOUS
  <1>1. /\ Mount(s, app, calls) /\ section' = s /\ app # None /\ Content /\ Content'
        /\ UNCHANGED <<server, stamp, writes, here, app, loading, error, load, acked>>
    BY DEF OpenSection, Reachable, Content, store, request
  <1>2. Current(app, server, stamp)
    BY <1>1 DEF IInv, PageData
  <1>3. /\ app \in Apps \cup {None} /\ loading \in BOOLEAN /\ error \in BOOLEAN
        /\ load \in [data : Apps \cup {None}] \cup {None} /\ acked \in 0..MaxWrites
    BY DEF IInv, TypeOK
  <1>4. /\ TypeOK' /\ CallsInv'
        /\ FormShown' /\ BusyIsFlag' /\ OneFlag' /\ CallsOnScreen' /\ DialogInv'
        /\ form' # None => Untouched(form', server', stamp')
    BY <1>1, <1>2, <1>3, MountKeeps
  <1>5. ScreenInv'
    BY <1>1, <1>4 DEF IInv, ScreenInv, LoadShown
  <1>6. PageData'
    BY <1>1, <1>4 DEF IInv, PageData
  <1>7. QED
    BY <1>4, <1>5, <1>6 DEF IInv

LEMMA RetryKeeps == IInv /\ Retry => IInv'
  <1> SUFFICES ASSUME IInv, Retry PROVE IInv'
    OBVIOUS
  <1>1. /\ Mount(section, app, calls) /\ section' = section /\ here
        /\ loading' = TRUE /\ error' = FALSE /\ load' = [data |-> None]
        /\ UNCHANGED <<server, stamp, writes, here, app, acked>>
    BY DEF Retry, StartLoad, store
  <1>2. /\ app # None => Current(app, server, stamp)
        /\ app # None <=> Content'
    BY <1>1 DEF IInv, PageData, Content
  <1>3. /\ section \in Sections /\ app \in Apps \cup {None}
        /\ load' \in [data : Apps \cup {None}] \cup {None} /\ acked \in 0..MaxWrites
    BY <1>1 DEF IInv, TypeOK
  <1>4. /\ TypeOK' /\ CallsInv'
        /\ FormShown' /\ BusyIsFlag' /\ OneFlag' /\ CallsOnScreen' /\ DialogInv'
        /\ form' # None => Untouched(form', server', stamp')
    BY <1>1, <1>2, <1>3, MountKeeps
  <1>5. ScreenInv'
    BY <1>1, <1>4 DEF IInv, ScreenInv, LoadShown
  <1>6. PageData'
    BY <1>1, <1>4 DEF IInv, PageData
  <1>7. QED
    BY <1>4, <1>5, <1>6 DEF IInv

LEMMA ServerReadsKeeps == IInv /\ ServerReads => IInv'
  <1> SUFFICES ASSUME IInv, ServerReads PROVE IInv'
    OBVIOUS
  <1>1. /\ load # None /\ server # None /\ load' = [data |-> server]
        /\ UNCHANGED <<server, stamp, writes, here, section, app, loading, error, form, busy,
                       confirm, shown, selected, generated, generating, slipped, calls, acked>>
    BY DEF ServerReads, store, local, dialogs, generator
  <1>2. CallsInv'
    BY <1>1, CallsKept
  <1>3. ScreenInv'
    BY <1>1
       DEF IInv, ScreenInv, FormShown, BusyIsFlag, OneFlag, CallsOnScreen, DialogInv, LoadShown,
           Content
  <1>4. TypeOK'
    BY <1>1 DEF IInv, TypeOK
  <1>5. PageData'
    <2>1. Current(server, server, stamp) /\ acked <= server.ver
      BY <1>1 DEF IInv, PageData, Current, TypeOK, Apps
    <2>2. QED
      BY <1>1, <2>1 DEF IInv, PageData
  <1>6. QED
    BY <1>2, <1>3, <1>4, <1>5 DEF IInv

LEMMA LoadArrivesKeeps == IInv /\ LoadArrives => IInv'
  <1> SUFFICES ASSUME IInv, LoadArrives PROVE IInv'
    OBVIOUS
  <1>1. /\ load # None /\ load.data # None /\ app' = load.data /\ loading' = FALSE /\ load' = None
        /\ section' = section
        /\ UNCHANGED <<server, stamp, writes, here, error, acked>>
    BY DEF LoadArrives, store
  <1>2. /\ here /\ ~error /\ load.data \in Apps
        /\ Current(load.data, server, stamp) /\ acked <= load.data.ver /\ Content'
    BY <1>1 DEF IInv, ScreenInv, LoadShown, PageData, TypeOK, Content
  <1>3. CASE app = None
    <2>1. Mount(section, load.data, calls)
      BY <1>3 DEF LoadArrives
    <2>2. section \in Sections /\ acked \in 0..MaxWrites /\ error \in BOOLEAN
      BY DEF IInv, TypeOK
    <2>3. /\ TypeOK' /\ CallsInv'
          /\ FormShown' /\ BusyIsFlag' /\ OneFlag' /\ CallsOnScreen' /\ DialogInv'
          /\ form' # None => Untouched(form', server', stamp')
      BY <1>1, <1>2, <2>1, <2>2, MountKeeps
    <2>4. ScreenInv'
      BY <1>1, <2>3 DEF ScreenInv, LoadShown
    <2>5. PageData'
      BY <1>1, <1>2, <2>3 DEF IInv, PageData, TypeOK, Apps
    <2>6. QED
      BY <2>3, <2>4, <2>5 DEF IInv
  <1>4. CASE app # None
    <2>1. UNCHANGED <<form, busy, confirm, shown, selected, generated, generating, slipped, calls>>
      BY <1>4 DEF LoadArrives, local, dialogs, generator
    <2>2. CallsInv'
      BY <1>1, <2>1, CallsKept
    <2>3. Content <=> Content'
      BY <1>1, <1>2, <1>4 DEF Content
    <2>4. ScreenInv'
      BY <1>1, <2>1, <2>3
         DEF IInv, ScreenInv, FormShown, BusyIsFlag, OneFlag, CallsOnScreen, DialogInv, LoadShown
    <2>5. TypeOK'
      BY <1>1, <1>2, <2>1 DEF IInv, TypeOK
    <2>6. PageData'
      BY <1>1, <1>2, <2>1 DEF IInv, PageData, TypeOK, Apps
    <2>7. QED
      BY <2>2, <2>4, <2>5, <2>6 DEF IInv
  <1>5. QED
    BY <1>3, <1>4

LEMMA LoadFailsKeeps == IInv /\ LoadFails => IInv'
  <1> SUFFICES ASSUME IInv, LoadFails PROVE IInv'
    OBVIOUS
  <1>1. /\ Mount(section, None, calls) /\ section' = section
        /\ loading' = FALSE /\ error' = TRUE /\ load' = None
        /\ UNCHANGED <<server, stamp, writes, here, app, acked>>
    BY DEF LoadFails, store
  <1>2. ~Content'
    BY <1>1 DEF Content
  <1>3. section \in Sections /\ app \in Apps \cup {None} /\ acked \in 0..MaxWrites
    BY DEF IInv, TypeOK
  <1>4. /\ TypeOK' /\ CallsInv'
        /\ FormShown' /\ BusyIsFlag' /\ OneFlag' /\ CallsOnScreen' /\ DialogInv'
        /\ form' # None => Untouched(form', server', stamp')
    BY <1>1, <1>2, <1>3, MountKeeps
  <1>5. ScreenInv'
    BY <1>1, <1>4 DEF ScreenInv, LoadShown
  <1>6. PageData'
    BY <1>1, <1>4 DEF IInv, PageData
  <1>7. QED
    BY <1>4, <1>5, <1>6 DEF IInv

\* What the user does without a request: fields, dialogs and the token generator.
LEMMA EditFieldKeeps == \A f \in Fields : \A v \in Choices[f] : IInv /\ EditField(f, v) => IInv'
  <1> SUFFICES ASSUME NEW f \in Fields, NEW v \in Choices[f], IInv, EditField(f, v) PROVE IInv'
    OBVIOUS
  <1>1. /\ Content /\ section \in Forms /\ f \in FieldsOf[section]
        /\ form' = [form EXCEPT !.values[f] = v, !.edited = @ \cup {f}]
        /\ UNCHANGED <<server, stamp, writes, here, section, app, loading, error, load, busy,
                       confirm, shown, selected, generated, generating, slipped, calls, acked>>
    BY DEF EditField, Reachable, store, request, dialogs, generator
  <1>2. form # None /\ form \in FormStates(section)
    BY <1>1 DEF IInv, ScreenInv, FormShown, TypeOK
  <1>3. /\ form' \in FormStates(section)
        /\ DOMAIN form'.values = DOMAIN form.values /\ form'.read = form.read
        /\ \A g \in Fields : g \notin form'.edited => g \notin form.edited /\ g # f
        /\ \A g \in DOMAIN form.values : g # f => form'.values[g] = form.values[g]
    <2>1. v \in Values
      BY DEF Values
    <2>2. QED
      BY <1>1, <1>2, <2>1 DEF FormStates
  <1>4. form' # None
    BY <1>1, <1>3, PageAssumption
  <1>5. CallsInv'
    BY <1>1, CallsKept
  <1>6. ScreenInv'
    BY <1>1, <1>2, <1>4
       DEF IInv, ScreenInv, FormShown, BusyIsFlag, OneFlag, CallsOnScreen, DialogInv, LoadShown,
           Content
  <1>7. TypeOK'
    BY <1>1, <1>3 DEF IInv, TypeOK
  <1>8. Untouched(form', server', stamp')
    <2>1. Untouched(form, server, stamp)
      BY <1>2 DEF IInv, PageData
    <2>2. QED
      BY <1>1, <1>3, <2>1 DEF Untouched
  <1>9. PageData'
    BY <1>1, <1>8 DEF IInv, PageData
  <1>10. QED
    BY <1>5, <1>6, <1>7, <1>9 DEF IInv

LEMMA DialogsKeep ==
    ASSUME IInv,
           \/ CloseSecret \/ AskDeleteApp \/ CancelDeleteApp \/ Generate \/ GenerateAnswered
           \/ \E x \in Selections \cup {None} : Select(x)
    PROVE  IInv'
  <1>1. UNCHANGED <<server, stamp, writes, here, section, app, loading, error, load, form, busy,
                    calls, acked>>
    BY DEF CloseSecret, AskDeleteApp, CancelDeleteApp, Generate, GenerateAnswered, Select,
           store, request, dialogs, generator
  <1>2. /\ confirm' \in BOOLEAN /\ (confirm' => confirm \/ (Content /\ section = "delete"))
        /\ shown' \in {shown, None}
    <2>1. CASE CloseSecret
      BY <2>1 DEF CloseSecret, IInv, TypeOK
    <2>2. CASE AskDeleteApp \/ CancelDeleteApp
      BY <2>2 DEF AskDeleteApp, CancelDeleteApp, Reachable
    <2>3. CASE Generate \/ GenerateAnswered \/ \E x \in Selections \cup {None} : Select(x)
      BY <2>3 DEF Generate, GenerateAnswered, Select, dialogs, IInv, TypeOK
    <2>4. QED
      BY <2>1, <2>2, <2>3
  <1>3. /\ selected' \in Selections \cup {None} /\ generated' \in Selections \cup {None}
        /\ generating' \in Selections \cup {None} /\ slipped' \in BOOLEAN
        /\ generated' # None => generated' = selected' \/ slipped'
    <2>1. CASE CloseSecret \/ AskDeleteApp \/ CancelDeleteApp \/ Generate
      BY <2>1 DEF CloseSecret, AskDeleteApp, CancelDeleteApp, Generate, generator, IInv, TypeOK,
                  ScreenInv, DialogInv
    <2>2. CASE GenerateAnswered
      BY <2>2 DEF GenerateAnswered, IInv, TypeOK
    <2>3. CASE \E x \in Selections \cup {None} : Select(x)
      BY <2>3 DEF Select, IInv, TypeOK
    <2>4. QED
      BY <2>1, <2>2, <2>3
  <1>4. CallsInv'
    BY <1>1, CallsKept
  <1>5. DialogInv'
    BY <1>1, <1>2, <1>3 DEF IInv, ScreenInv, DialogInv, Content
  <1>6. ScreenInv'
    BY <1>1, <1>5
       DEF IInv, ScreenInv, FormShown, BusyIsFlag, OneFlag, CallsOnScreen, LoadShown, Content
  <1>7. TypeOK'
    BY <1>1, <1>2, <1>3 DEF IInv, TypeOK
  <1>8. PageData'
    BY <1>1 DEF IInv, PageData
  <1>9. QED
    BY <1>4, <1>6, <1>7, <1>8 DEF IInv

\* What the user does with a request, which has the busy flag of the section or needs none.
LEMMA SendKeeps ==
    ASSUME IInv, NEW op, NEW arg, Proper(op, arg), Call(op, arg),
           op = "create" => section = "secrets",
           Content, shown = None \/ op \notin Flagged,
           IF op \in Flagged THEN ~busy /\ busy' = TRUE ELSE busy' = busy,
           UNCHANGED <<server, stamp, here, section, app, loading, error, load, form, confirm,
                       shown, selected, generated, generating, slipped, acked>>
    PROVE  IInv'
  <1>1. /\ CallsInv' /\ writes' \in 0..MaxWrites
        /\ \E c \in calls' : /\ calls' = calls \cup {c}
                             /\ c.op = op /\ c.mine /\ c.page
    BY Sent
  <1>2. PICK c \in calls' : calls' = calls \cup {c} /\ c.op = op /\ c.mine /\ c.page
    BY <1>1
  <1>3. Content' /\ here'
    BY DEF Content
  <1>4. BusyIsFlag' /\ OneFlag'
    <2>1. CASE op \in Flagged
      BY <1>2, <2>1 DEF IInv, ScreenInv, BusyIsFlag, OneFlag
    <2>2. CASE op \notin Flagged
      BY <1>2, <2>2 DEF IInv, ScreenInv, BusyIsFlag, OneFlag
    <2>3. QED
      BY <2>1, <2>2
  <1>5. CallsOnScreen'
    BY <1>2, <1>3 DEF IInv, ScreenInv, CallsOnScreen
  <1>6. FormShown' /\ DialogInv' /\ LoadShown'
    BY <1>3 DEF IInv, ScreenInv, FormShown, DialogInv, LoadShown, Content
  <1>7. TypeOK'
    <2>1. \A k \in calls' : k \in CallRecords /\ (k.mine => k.page)
      BY <1>1, <1>5 DEF CallsInv, CallTyped, CallsOnScreen
    <2>2. \A k \in calls' : /\ k.id \in 0..(MaxWrites - 1) /\ k.answer \in {"none", "ok"}
                            /\ k.mine => k.page
      BY <2>1 DEF CallRecords
    <2>3. busy' \in BOOLEAN
      BY DEF IInv, TypeOK
    <2>4. QED
      BY <1>1, <2>2, <2>3 DEF IInv, TypeOK
  <1>8. PageData'
    BY DEF IInv, PageData
  <1>9. QED
    BY <1>1, <1>4, <1>5, <1>6, <1>7, <1>8 DEF IInv, ScreenInv

LEMMA RequestsKeep ==
    ASSUME IInv,
           \/ SaveForm \/ CreateSecret \/ AddItem \/ ConfirmDeleteApp
           \/ \E i \in Items : RemoveItem(i) \/ ToggleItem(i)
    PROVE  IInv'
  <1>1. CASE SaveForm
    <2>1. form # None
      BY <1>1 DEF IInv, ScreenInv, FormShown, SaveForm, Reachable
    <2>2. form \in FormStates(section) /\ section \in Forms /\ Untouched(form, server, stamp)
      BY <2>1 DEF IInv, TypeOK, PageData
    <2>3. Proper("save", form) /\ "save" \in Flagged
      BY <2>2 DEF Proper, Args, AllFormStates, Ops, Flagged
    <2>4. /\ Call("save", form) /\ Content /\ shown = None /\ ~busy /\ busy' = TRUE
          /\ UNCHANGED <<server, stamp, here, section, app, loading, error, load, form, confirm,
                         shown, selected, generated, generating, slipped, acked>>
      BY <1>1 DEF SaveForm, Reachable, store, request, dialogs, generator
    <2>5. QED
      BY <2>2, <2>3, <2>4, SendKeeps
  <1>2. CASE CreateSecret
    <2>1. Proper("create", Secrets) /\ "create" \in Flagged
      BY DEF Proper, Args, Ops, Flagged
    <2>2. /\ Call("create", Secrets) /\ section = "secrets"
          /\ Content /\ shown = None /\ ~busy /\ busy' = TRUE
          /\ UNCHANGED <<server, stamp, here, section, app, loading, error, load, form, confirm,
                         shown, selected, generated, generating, slipped, acked>>
      BY <1>2 DEF CreateSecret, Reachable, store, request, dialogs, generator
    <2>3. QED
      BY <2>1, <2>2, SendKeeps
  <1>3. CASE AddItem
    <2>1. Proper("add", Scopes) /\ "add" \in Flagged
      BY DEF Proper, Args, Ops, Flagged
    <2>2. /\ Call("add", Scopes) /\ Content /\ shown = None /\ ~busy /\ busy' = TRUE
          /\ UNCHANGED <<server, stamp, here, section, app, loading, error, load, form, confirm,
                         shown, selected, generated, generating, slipped, acked>>
      BY <1>3 DEF AddItem, Reachable, store, request, dialogs, generator
    <2>3. QED
      BY <2>1, <2>2, SendKeeps
  <1>4. CASE ConfirmDeleteApp
    <2>1. Proper("delete", None) /\ "delete" \in Flagged
      BY DEF Proper, Args, Ops, Flagged
    <2>2. /\ Call("delete", None) /\ Content /\ ~busy /\ busy' = TRUE
          /\ UNCHANGED <<server, stamp, here, section, app, loading, error, load, form, confirm,
                         shown, selected, generated, generating, slipped, acked>>
      BY <1>4 DEF ConfirmDeleteApp, store, request, dialogs, generator
    <2>3. shown = None
      BY <1>4 DEF ConfirmDeleteApp, IInv, ScreenInv, DialogInv
    <2>4. QED
      BY <2>1, <2>2, <2>3, SendKeeps
  <1>5. ASSUME NEW i \in Items, RemoveItem(i) \/ ToggleItem(i) PROVE IInv'
    <2>1. PICK op \in {"remove", "enable", "disable"} : Call(op, i)
      BY <1>5 DEF RemoveItem, ToggleItem
    <2>2. Proper(op, i) /\ op # "create" /\ op \notin Flagged
      BY DEF Proper, Args, Ops, Flagged
    <2>3. /\ Content /\ busy' = busy
          /\ UNCHANGED <<server, stamp, here, section, app, loading, error, load, form, confirm,
                         shown, selected, generated, generating, slipped, acked>>
      BY <1>5 DEF RemoveItem, ToggleItem, Reachable, store, request, local, dialogs, generator
    <2>4. QED
      BY <2>1, <2>2, <2>3, SendKeeps
  <1>6. QED
    BY <1>1, <1>2, <1>3, <1>4, <1>5

-----------------------------------------------------------------------------
\* The directory moves on: the app is gone, or has one more version, which is stamped on the
\* fields that changed.
Moves ==
    /\ server # None
    /\ \/ server' = None /\ stamp' = stamp
       \/ /\ server' \in Apps /\ server'.ver = server.ver + 1
          /\ stamp' \in [Fields -> 0..MaxWrites]
          /\ \A f \in Fields : \/ stamp'[f] = server'.ver
                               \/ stamp'[f] = stamp[f] /\ server'.fields[f] = server.fields[f]

LEMMA FieldsMove ==
    ASSUME TypeOK, server # None, server.ver < MaxWrites, NEW values,
           \A f \in Fields : f \in DOMAIN values => values[f] \in Values, PutFields(values)
    PROVE  Moves
  <1>1. /\ server \in Apps /\ stamp \in [Fields -> 0..MaxWrites]
        /\ server.ver + 1 \in 0..MaxWrites
    BY PageAssumption DEF TypeOK, Apps
  <1> DEFINE fields == [f \in Fields |-> IF f \in DOMAIN values THEN values[f]
                                                                ELSE server.fields[f]]
  <1>2. fields \in [Fields -> Values]
    BY <1>1 DEF Apps
  <1>3. server' = [server EXCEPT !.fields = fields, !.ver = server.ver + 1]
    BY DEF PutFields
  <1>4. server' \in Apps /\ server'.fields = fields /\ server'.ver = server.ver + 1
    <2> HIDE DEF fields
    <2>1. QED
      BY <1>1, <1>2, <1>3 DEF Apps
  <1>5. stamp' \in [Fields -> 0..MaxWrites]
    BY <1>1 DEF PutFields
  <1>6. \A f \in Fields : \/ stamp'[f] = server'.ver
                          \/ stamp'[f] = stamp[f] /\ server'.fields[f] = server.fields[f]
    BY <1>4 DEF PutFields
  <1>7. QED
    BY <1>4, <1>5, <1>6 DEF Moves

LEMMA ItemMoves ==
    ASSUME TypeOK, server # None, server.ver < MaxWrites, NEW i \in Items,
           NEW state \in {"on", "off", "gone"}, PutItem(i, state)
    PROVE  Moves
  <1>1. server \in Apps /\ server.ver + 1 \in 0..MaxWrites
    BY PageAssumption DEF TypeOK, Apps
  <1>2. /\ server' \in Apps /\ server'.fields = server.fields /\ server'.ver = server.ver + 1
        /\ stamp' = stamp
    BY <1>1 DEF PutItem, Apps
  <1>3. QED
    BY <1>2 DEF Moves, TypeOK

\* What was current at its version stays so.
LEMMA StillCurrent ==
    ASSUME TypeOK, Moves
    PROVE  /\ \A d \in Apps : Current(d, server, stamp) => Current(d, server', stamp')
           /\ \A m \in AllFormStates :
                  Untouched(m, server, stamp) => Untouched(m, server', stamp')
  <1>1. CASE server' = None
    BY <1>1 DEF Current, Untouched
  <1>2. CASE server' # None
    <2>1. /\ server.ver \in Nat /\ server'.ver = server.ver + 1 /\ server # None
          /\ \A f \in Fields : /\ stamp[f] \in Nat /\ stamp'[f] \in Nat
                               /\ \/ stamp'[f] = server'.ver
                                  \/ /\ stamp'[f] = stamp[f]
                                     /\ server'.fields[f] = server.fields[f]
      BY <1>2 DEF Moves, TypeOK, Apps
    <2>2. ASSUME NEW d \in Apps, Current(d, server, stamp)
          PROVE  Current(d, server', stamp')
      <3>1. d.ver \in Nat /\ d.ver <= server.ver
        BY <2>1, <2>2 DEF Current, Apps
      <3>2. QED
        BY <2>1, <2>2, <3>1 DEF Current
    <2>3. ASSUME NEW m \in AllFormStates, Untouched(m, server, stamp)
          PROVE  Untouched(m, server', stamp')
      <3>1. m.read \in Nat /\ m.read <= server.ver
        BY <2>1, <2>3 DEF Untouched, AllFormStates, FormStates
      <3>2. QED
        BY <2>1, <2>3, <3>1 DEF Untouched
    <2>4. QED
      BY <2>2, <2>3
  <1>3. QED
    BY <1>1, <1>2

\* The page does not notice.
LEMMA PageUnmoved ==
    ASSUME IInv, Moves, writes' \in 0..MaxWrites,
           UNCHANGED <<here, section, app, loading, error, load, form, busy, confirm, shown,
                       selected, generated, generating, slipped, acked>>,
           \A k \in calls' : k \in CallRecords /\ (k.mine => k.page)
    PROVE  TypeOK' /\ PageData'
  <1>1. server' \in Apps \cup {None} /\ stamp' \in [Fields -> 0..MaxWrites]
    BY DEF Moves, IInv, TypeOK
  <1>2. \A k \in calls' : k.id \in 0..(MaxWrites - 1) /\ k.answer \in {"none", "ok"}
    BY DEF CallRecords
  <1>3. TypeOK'
    BY <1>1, <1>2 DEF IInv, TypeOK
  <1>4. /\ app # None => Current(app, server', stamp')
        /\ load # None /\ load.data # None => Current(load.data, server', stamp')
        /\ form # None => Untouched(form, server', stamp')
    <2>1. /\ app # None => app \in Apps
          /\ load # None /\ load.data # None => load.data \in Apps
          /\ form # None => form \in AllFormStates
      BY DEF IInv, TypeOK, AllFormStates
    <2>2. QED
      BY <2>1, StillCurrent DEF IInv, PageData
  <1>5. server' # None => acked <= server'.ver /\ \A f \in Fields : stamp'[f] <= server'.ver
    <2> SUFFICES ASSUME server' # None
                 PROVE  acked <= server'.ver /\ \A f \in Fields : stamp'[f] <= server'.ver
      OBVIOUS
    <2>1. /\ server # None /\ server.ver \in Nat /\ server'.ver = server.ver + 1 /\ acked \in Nat
          /\ \A f \in Fields : stamp[f] \in Nat /\ (stamp'[f] = server'.ver \/ stamp'[f] = stamp[f])
      BY DEF Moves, IInv, TypeOK, Apps
    <2>2. acked <= server.ver /\ \A f \in Fields : stamp[f] <= server.ver
      BY <2>1 DEF IInv, PageData
    <2>3. QED
      BY <2>1, <2>2
  <1>6. PageData'
    BY <1>4, <1>5 DEF IInv, PageData
  <1>7. QED
    BY <1>3, <1>6

\* Nor do the requests in flight.
LEMMA CallsMove ==
    ASSUME IInv, Moves
    PROVE  \A k \in calls : CallData(k, server', stamp')
  <1>1. TAKE k \in calls
  <1>2. k \in CallRecords /\ CallTyped(k) /\ CallData(k, server, stamp)
    BY DEF IInv, CallsInv, CallTyped
  <1>3. k.answer = "none" /\ k.op = "save" => Untouched(k.arg, server', stamp')
    <2>1. k.answer = "none" /\ k.op = "save" =>
              k.arg \in AllFormStates /\ Untouched(k.arg, server, stamp)
      BY <1>2 DEF CallTyped, CallData, AllFormStates
    <2>2. QED
      BY <2>1, StillCurrent DEF IInv
  <1>4. k.answer = "ok" /\ server' # None => k.ver <= server'.ver
    <2>1. k.ver \in Nat /\ server # None /\ server.ver \in Nat
      BY <1>2 DEF CallRecords, Moves, IInv, TypeOK, Apps
    <2>2. k.answer = "ok" => k.ver <= server.ver
      BY <1>2, <2>1 DEF CallData
    <2>3. QED
      BY <2>1, <2>2 DEF Moves
  <1>5. QED
    BY <1>3, <1>4 DEF CallData

\* A request that is open has room to add a version.
LEMMA Room ==
    ASSUME IInv, server # None
    PROVE  /\ server.ver \in Nat /\ writes \in Nat
           /\ server.ver <= writes
           /\ \A c \in calls : c.answer = "none" =>
                  server.ver < MaxWrites /\ server.ver + 1 \in 0..MaxWrites
  <1> DEFINE m == Cardinality(OpenIds(calls))
  <1>1. m \in Nat /\ IsFiniteSet(OpenIds(calls))
    BY FewerOpen
  <1>2. /\ server.ver \in Nat /\ writes \in Nat /\ server.ver + m <= writes
        /\ MaxWrites \in Nat /\ writes <= MaxWrites
    BY PageAssumption DEF IInv, TypeOK, CallsInv, Apps
  <1>3. ASSUME NEW c \in calls, c.answer = "none" PROVE m # 0
    <2>1. c.id \in OpenIds(calls)
      BY <1>3 DEF IInv, TypeOK, OpenIds
    <2>2. QED
      BY <1>1, <2>1, FS_EmptySet
  <1>4. QED
    BY <1>1, <1>2, <1>3

\* Carrying out a request answers it, with an item when it was to make one.
LEMMA DoneMoves ==
    ASSUME IInv, NEW c \in calls, ServerDoes(c)
    PROVE  /\ Moves /\ c.answer = "none" /\ server.ver + 1 \in 0..MaxWrites
           /\ server' # None => server'.ver = server.ver + 1
           /\ \E arg \in Args :
                  /\ c.op = "create" => arg \in Secrets
                  /\ calls' = (calls \ {c}) \cup
                         {[c EXCEPT !.answer = "ok", !.ver = server.ver + 1, !.arg = arg]}
  <1>1. /\ c.answer = "none" /\ server # None /\ Done(c) /\ TypeOK /\ CallTyped(c)
        /\ server.ver < MaxWrites /\ server.ver + 1 \in 0..MaxWrites
    BY Room DEF ServerDoes, IInv, CallsInv
  <1> DEFINE answered(arg) == calls' = (calls \ {c}) \cup
                     {[c EXCEPT !.answer = "ok", !.ver = server.ver + 1, !.arg = arg]}
  <1>2. None \in Args /\ \A i \in Items : i \in Args
    BY DEF Args
  <1>3. CASE c.op = "save" /\ PutFields(c.arg.values) /\ answered(None)
    <2>1. PICK s \in Forms : c.arg \in FormStates(s)
      BY <1>1, <1>3 DEF CallTyped
    <2>2. \A f \in Fields : f \in DOMAIN c.arg.values => c.arg.values[f] \in Values
      BY <2>1 DEF FormStates
    <2>3. Moves
      BY <1>1, <1>3, <2>2, FieldsMove
    <2>4. QED
      BY <1>1, <1>2, <1>3, <2>3 DEF Moves, PutFields
  <1>4. ASSUME c.op \in {"create", "add"}, NEW i \in c.arg, PutItem(i, "on"), answered(i)
        PROVE  Moves /\ i \in Items /\ (c.op = "create" => i \in Secrets)
    <2>1. i \in Items /\ (c.op = "create" => i \in Secrets)
      BY <1>1, <1>4 DEF CallTyped, Items
    <2>2. QED
      BY <1>1, <1>4, <2>1, ItemMoves
  <1>5. ASSUME c.op \in {"remove", "enable", "disable"}, NEW state \in {"on", "off", "gone"},
               PutItem(c.arg, state)
        PROVE  Moves
    <2>1. c.arg \in Items
      BY <1>1, <1>5 DEF CallTyped
    <2>2. QED
      BY <1>1, <1>5, <2>1, ItemMoves
  <1>6. CASE c.op = "delete" /\ server' = None /\ UNCHANGED stamp /\ answered(None)
    BY <1>1, <1>2, <1>6 DEF Moves
  <1>7. Moves
    BY <1>1, <1>3, <1>4, <1>5, <1>6 DEF Done
  <1>8. \E arg \in Args : (c.op = "create" => arg \in Secrets) /\ answered(arg)
    <2>1. CASE \E i \in c.arg : c.op \in {"create", "add"} /\ PutItem(i, "on") /\ answered(i)
      BY <1>2, <1>4, <2>1
    <2>2. CASE c.op # "create" /\ answered(None)
      BY <1>2, <2>2
    <2>3. QED
      BY <1>1, <2>1, <2>2 DEF Done
  <1>9. server' # None => server'.ver = server.ver + 1
    BY <1>7 DEF Moves
  <1>10. QED
    BY <1>1, <1>7, <1>8, <1>9

LEMMA ServerDoesKeeps == \A c \in calls : IInv /\ ServerDoes(c) => IInv'
  <1> SUFFICES ASSUME NEW c \in calls, IInv, ServerDoes(c) PROVE IInv'
    OBVIOUS
  <1>1. /\ Moves /\ c.answer = "none" /\ server.ver + 1 \in 0..MaxWrites
        /\ server' # None => server'.ver = server.ver + 1
        /\ \E arg \in Args :
               /\ c.op = "create" => arg \in Secrets
               /\ calls' = (calls \ {c}) \cup
                      {[c EXCEPT !.answer = "ok", !.ver = server.ver + 1, !.arg = arg]}
    BY DoneMoves
  <1>2. PICK arg \in Args :
            /\ c.op = "create" => arg \in Secrets
            /\ calls' = (calls \ {c}) \cup
                   {[c EXCEPT !.answer = "ok", !.ver = server.ver + 1, !.arg = arg]}
    BY <1>1
  <1>3. UNCHANGED <<writes, here, section, app, loading, error, load, form, busy, confirm, shown,
                    selected, generated, generating, slipped, acked>>
    BY DEF ServerDoes, request, local, dialogs, generator
  <1> DEFINE d == [c EXCEPT !.answer = "ok", !.ver = server.ver + 1, !.arg = arg]
  <1>4. calls' = (calls \ {c}) \cup {d}
    BY <1>2
  <1>5. \A k \in calls : k \in CallRecords /\ CallTyped(k) /\ k.id < writes
    BY DEF IInv, CallsInv, CallTyped
  <1>6. /\ d \in CallRecords /\ d.id = c.id /\ d.op = c.op /\ d.mine = c.mine /\ d.page = c.page
        /\ d.answer = "ok" /\ d.ver = server.ver + 1 /\ d.arg = arg
    BY <1>1, <1>5 DEF CallRecords
  <1> HIDE DEF d
  <1>7. CallTyped(d) /\ d.id < writes /\ CallData(d, server', stamp')
    <2>1. server.ver + 1 <= server.ver + 1
      BY <1>1
    <2>2. QED
      BY <1>1, <1>2, <1>5, <1>6, <2>1 DEF CallTyped, CallData
  <1>8. \A k \in calls : CallData(k, server', stamp')
    BY <1>1, CallsMove
  <1>9. Distinct(calls')
    BY <1>4, <1>6, CallsTyped DEF Distinct
  <1>10. server' # None => server'.ver + Cardinality(OpenIds(calls')) <= writes
    <2>1. OpenIds(calls') = OpenIds(calls) \ {c.id}
      <3>1. \A k \in calls : k.id = c.id => k = c
        BY CallsTyped DEF Distinct
      <3>2. QED
        BY <1>1, <1>4, <1>6, <3>1 DEF OpenIds
    <2>2. c.id \in OpenIds(calls)
      BY <1>1, <1>5 DEF OpenIds, CallRecords
    <2> DEFINE m == Cardinality(OpenIds(calls)) n == Cardinality(OpenIds(calls'))
    <2>3. m \in Nat /\ n = m - 1
      BY <2>1, <2>2, FewerOpen, FS_RemoveElement
    <2>4. server # None /\ server.ver + m <= writes /\ server.ver \in Nat /\ writes \in Nat
      BY <1>1 DEF Moves, IInv, TypeOK, CallsInv, Apps
    <2>5. QED
      BY <1>1, <2>3, <2>4
  <1>11. CallsInv'
    <2>1. \A k \in calls' : CallTyped(k) /\ k.id < writes /\ CallData(k, server', stamp')
      BY <1>4, <1>5, <1>7, <1>8
    <2>2. QED
      BY <1>3, <1>9, <1>10, <2>1 DEF CallsInv
  <1>12. CallsOnScreen' /\ OneFlag'
    BY <1>3, <1>4, <1>6 DEF IInv, ScreenInv, CallsOnScreen, OneFlag, Content
  <1>13. BusyIsFlag'
    BY <1>3, <1>4, <1>6 DEF IInv, ScreenInv, BusyIsFlag
  <1>14. FormShown' /\ DialogInv' /\ LoadShown'
    BY <1>3 DEF IInv, ScreenInv, FormShown, DialogInv, LoadShown, Content
  <1>15. TypeOK' /\ PageData'
    <2>1. \A k \in calls' : k \in CallRecords /\ (k.mine => k.page)
      BY <1>4, <1>5, <1>6, <1>12 DEF CallsOnScreen
    <2>2. writes' \in 0..MaxWrites
      BY <1>3 DEF IInv, TypeOK
    <2>3. QED
      BY <1>1, <1>3, <2>1, <2>2, PageUnmoved
  <1>16. QED
    BY <1>11, <1>12, <1>13, <1>14, <1>15 DEF IInv, ScreenInv

LEMMA OthersWriteKeeps == IInv /\ OthersWrite => IInv'
  <1> SUFFICES ASSUME IInv, OthersWrite PROVE IInv'
    OBVIOUS
  <1>1. /\ server # None /\ TypeOK /\ writes < MaxWrites /\ writes' = writes + 1
        /\ UNCHANGED <<here, section, app, loading, error, load, form, busy, confirm, shown,
                       selected, generated, generating, slipped, calls, acked>>
    BY DEF OthersWrite, request, local, dialogs, generator, IInv
  <1>2. /\ server.ver < MaxWrites /\ writes' \in 0..MaxWrites /\ writes \in Nat
    BY <1>1, Room, PageAssumption
  <1>3. Moves
    <2>1. ASSUME NEW f \in Fields, NEW v \in Choices[f], PutFields([g \in {f} |-> v])
          PROVE  Moves
      <3> DEFINE values == [g \in {f} |-> v]
      <3>1. \A g \in Fields : g \in DOMAIN values => values[g] \in Values
        BY DEF Values
      <3>2. PutFields(values)
        BY <2>1
      <3> HIDE DEF values
      <3>3. QED
        BY <1>1, <1>2, <3>1, <3>2, FieldsMove
    <2>2. ASSUME NEW i \in Items, PutItem(i, "gone") \/ PutItem(i, "on") PROVE Moves
      BY <1>1, <1>2, <2>2, ItemMoves
    <2>3. CASE server' = None /\ UNCHANGED stamp
      BY <1>1, <2>3 DEF Moves
    <2>4. QED
      BY <2>1, <2>2, <2>3 DEF OthersWrite
  <1>4. \A k \in calls : k \in CallRecords /\ CallTyped(k) /\ k.id < writes'
    <2>1. \A k \in calls : k \in CallRecords /\ CallTyped(k) /\ k.id < writes /\ k.id \in Nat
      BY DEF IInv, CallsInv, CallTyped, CallRecords
    <2>2. QED
      BY <1>1, <1>2, <2>1
  <1>5. \A k \in calls : CallData(k, server', stamp')
    BY <1>3, CallsMove
  <1>6. server' # None => server'.ver + Cardinality(OpenIds(calls')) <= writes'
    <2> DEFINE m == Cardinality(OpenIds(calls))
    <2>1. m \in Nat /\ server.ver + m <= writes /\ server.ver \in Nat
      BY <1>1, FewerOpen, Room DEF IInv, CallsInv
    <2>2. server' # None => server'.ver = server.ver + 1
      BY <1>3 DEF Moves
    <2>3. Cardinality(OpenIds(calls')) = m
      BY <1>1
    <2>4. QED
      BY <1>1, <1>2, <2>1, <2>2, <2>3
  <1>7. CallsInv'
    BY <1>1, <1>4, <1>5, <1>6, CallsTyped DEF CallsInv, Distinct
  <1>8. ScreenInv'
    BY <1>1
       DEF IInv, ScreenInv, FormShown, BusyIsFlag, OneFlag, CallsOnScreen, DialogInv, LoadShown,
           Content
  <1>9. TypeOK' /\ PageData'
    <2>1. \A k \in calls' : k \in CallRecords /\ (k.mine => k.page)
      BY <1>1, <1>4 DEF TypeOK
    <2>2. QED
      BY <1>1, <1>2, <1>3, <2>1, PageUnmoved
  <1>10. QED
    BY <1>7, <1>8, <1>9 DEF IInv

-----------------------------------------------------------------------------
\* A request that is answered to the browser, or lost, ends; its flag goes with it.
LEMMA EndsWithFlag ==
    ASSUME IInv, NEW c \in calls, calls' = calls \ {c},
           busy' = (busy /\ ~(c.mine /\ c.op \in Flagged))
    PROVE  BusyIsFlag' /\ OneFlag'
  <1>1. OneFlag'
    BY DEF IInv, ScreenInv, OneFlag
  <1>2. CASE c.mine /\ c.op \in Flagged
    BY <1>1, <1>2 DEF IInv, ScreenInv, OneFlag, BusyIsFlag
  <1>3. CASE ~(c.mine /\ c.op \in Flagged)
    BY <1>1, <1>3 DEF IInv, ScreenInv, BusyIsFlag
  <1>4. QED
    BY <1>2, <1>3

LEMMA EndsCalls ==
    ASSUME IInv, NEW c \in calls, calls' = calls \ {c}, UNCHANGED <<server, stamp, writes>>
    PROVE  CallsInv'
  <1>1. Distinct(calls') /\ \A k \in calls' : k \in CallRecords /\ \E d \in calls : Same(d, k)
    BY CallsTyped DEF Distinct, Same
  <1>2. QED
    BY <1>1, Inherited

LEMMA CallFailsKeeps == \A c \in calls : IInv /\ CallFails(c) => IInv'
  <1> SUFFICES ASSUME NEW c \in calls, IInv, CallFails(c) PROVE IInv'
    OBVIOUS
  <1>1. /\ calls' = calls \ {c} /\ busy' = (busy /\ ~(c.mine /\ c.op \in Flagged))
        /\ UNCHANGED <<server, stamp, writes, here, section, app, loading, error, load, form,
                       confirm, shown, selected, generated, generating, slipped, acked>>
    BY DEF CallFails, store, request, dialogs, generator
  <1>2. CallsInv'
    BY <1>1, EndsCalls
  <1>3. BusyIsFlag' /\ OneFlag'
    BY <1>1, EndsWithFlag
  <1>4. ScreenInv'
    BY <1>1, <1>3
       DEF IInv, ScreenInv, FormShown, CallsOnScreen, DialogInv, LoadShown, Content
  <1>5. TypeOK'
    BY <1>1 DEF IInv, TypeOK
  <1>6. PageData'
    BY <1>1 DEF IInv, PageData
  <1>7. QED
    BY <1>2, <1>4, <1>5, <1>6 DEF IInv

LEMMA CallSucceedsKeeps == \A c \in calls : IInv /\ CallSucceeds(c) => IInv'
  <1> SUFFICES ASSUME NEW c \in calls, IInv, CallSucceeds(c) PROVE IInv'
    OBVIOUS
  <1>1. /\ c.answer = "ok" /\ (IF c.page THEN StartLoad ELSE UNCHANGED request)
        /\ acked' = IF c.page /\ c.ver > acked THEN c.ver ELSE acked
        /\ UNCHANGED <<server, stamp, writes, here, section>>
    BY DEF CallSucceeds, store
  <1>2. /\ c \in CallRecords /\ CallTyped(c) /\ CallData(c, server, stamp)
        /\ c.page \in BOOLEAN /\ c.ver \in 0..MaxWrites /\ (c.page => here)
    BY DEF IInv, CallsInv, CallTyped, CallRecords, ScreenInv, CallsOnScreen
  <1>3. /\ acked' \in 0..MaxWrites
        /\ server # None => acked' <= server.ver
        /\ ~c.page => acked' = acked
    BY <1>1, <1>2 DEF CallData, IInv, TypeOK, PageData
  <1>4. /\ app' = app
        /\ IF c.page THEN loading' = TRUE /\ error' = FALSE /\ load' = [data |-> None]
                     ELSE UNCHANGED <<loading, error, load>>
    BY <1>1 DEF StartLoad, request
  <1>5. /\ app' \in Apps \cup {None} /\ loading' \in BOOLEAN /\ error' \in BOOLEAN
        /\ load' \in [data : Apps \cup {None}] \cup {None}
    <2>1. CASE c.page
      <3>1. app' = app /\ loading' = TRUE /\ error' = FALSE /\ load' = [data |-> None]
        BY <1>4, <2>1
      <3>2. QED
        BY <3>1 DEF IInv, TypeOK
    <2>2. CASE ~c.page
      BY <1>4, <2>2 DEF IInv, TypeOK
    <2>3. QED
      BY <2>1, <2>2
  <1>6. LoadShown'
    BY <1>1, <1>2, <1>4 DEF IInv, ScreenInv, LoadShown
  <1>7. ASSUME form' # None => Untouched(form', server', stamp')
        PROVE  PageData'
    <2>1. CASE c.page
      BY <1>1, <1>3, <1>4, <1>7, <2>1 DEF IInv, PageData
    <2>2. CASE ~c.page
      BY <1>1, <1>3, <1>4, <1>7, <2>2 DEF IInv, PageData
    <2>3. QED
      BY <1>2, <2>1, <2>2
  <1>8. CASE c.page /\ error
    <2>1. Mount(section, app, calls \ {c})
      BY <1>8 DEF CallSucceeds
    <2>2. /\ section \in Sections /\ app \in Apps \cup {None}
          /\ app # None => Current(app, server, stamp)
          /\ app # None <=> Content'
      BY <1>1, <1>2, <1>4, <1>8 DEF IInv, TypeOK, PageData, Content
    <2>3. /\ TypeOK' /\ CallsInv'
          /\ FormShown' /\ BusyIsFlag' /\ OneFlag' /\ CallsOnScreen' /\ DialogInv'
          /\ form' # None => Untouched(form', server', stamp')
      BY <1>1, <1>3, <1>5, <2>1, <2>2, MountKeeps
    <2>4. QED
      BY <1>6, <1>7, <2>3 DEF IInv, ScreenInv
  <1>9. CASE ~(c.page /\ error)
    <2>1. /\ calls' = calls \ {c} /\ busy' = (busy /\ ~(c.mine /\ c.op \in Flagged))
          /\ shown' = IF c.mine /\ c.op = "create" THEN c.arg ELSE shown
          /\ UNCHANGED <<form, confirm, selected, generated, generating, slipped>>
      BY <1>9 DEF CallSucceeds, generator
    <2>2. error' = error
      BY <1>4, <1>5, <1>9 DEF IInv, TypeOK
    <2>3. Content' = Content
      BY <1>1, <1>4, <2>2 DEF Content
    <2>4. CallsInv'
      BY <1>1, <2>1, EndsCalls
    <2>5. BusyIsFlag' /\ OneFlag'
      BY <2>1, EndsWithFlag
    <2>6. FormShown' /\ CallsOnScreen'
      BY <1>1, <2>1, <2>3 DEF IInv, ScreenInv, FormShown, CallsOnScreen
    <2>7. DialogInv'
      <3>1. CASE c.mine /\ c.op = "create"
        <4>1. Content /\ section = "secrets" /\ c.op \in Flagged
          BY <3>1 DEF IInv, ScreenInv, CallsOnScreen, Flagged
        <4>2. ~busy'
          BY <2>1, <3>1, <4>1
        <4>3. QED
          BY <1>1, <2>1, <2>3, <4>1, <4>2 DEF IInv, ScreenInv, DialogInv
      <3>2. CASE ~(c.mine /\ c.op = "create")
        BY <1>1, <2>1, <2>3, <3>2 DEF IInv, ScreenInv, DialogInv
      <3>3. QED
        BY <3>1, <3>2
    <2>8. TypeOK'
      <3>1. shown' \in Secrets \cup {None}
        BY <1>1, <1>2, <2>1 DEF CallTyped, IInv, TypeOK
      <3>2. busy' \in BOOLEAN /\ \A k \in calls' : k \in calls
        BY <2>1 DEF IInv, TypeOK
      <3>3. QED
        BY <1>1, <1>3, <1>5, <2>1, <3>1, <3>2 DEF IInv, TypeOK
    <2>9. PageData'
      BY <1>1, <1>7, <2>1 DEF IInv, PageData
    <2>10. QED
      BY <1>6, <2>4, <2>5, <2>6, <2>7, <2>8, <2>9 DEF IInv, ScreenInv
  <1>10. QED
    BY <1>8, <1>9

-----------------------------------------------------------------------------
LEMMA InitKeeps == Init => IInv
  <1> SUFFICES ASSUME Init PROVE IInv
    OBVIOUS
  <1>1. /\ server \in Apps /\ server.ver = 0 /\ stamp = [f \in Fields |-> 0]
        /\ app = None /\ load = None /\ form = None /\ calls = {} /\ acked = 0 /\ writes = 0
    BY PageAssumption DEF Init, Apps, Values
  <1>2. TypeOK
    <2>1. 0 \in 0..MaxWrites /\ section \in Sections
      BY PageAssumption DEF Init, Sections
    <2>2. stamp \in [Fields -> 0..MaxWrites] /\ writes \in 0..MaxWrites /\ acked \in 0..MaxWrites
      BY <1>1, <2>1
    <2>3. QED
      BY <1>1, <2>1, <2>2 DEF Init, TypeOK
  <1>3. ScreenInv
    BY <1>1
       DEF Init, ScreenInv, FormShown, BusyIsFlag, OneFlag, CallsOnScreen, DialogInv, LoadShown,
           Content
  <1>4. CallsInv
    <2>1. OpenIds(calls) = {}
      BY <1>1 DEF OpenIds
    <2>2. Cardinality(OpenIds(calls)) = 0
      BY <2>1, FS_EmptySet
    <2>3. QED
      BY <1>1, <2>2 DEF CallsInv, Distinct
  <1>5. PageData
    BY <1>1 DEF PageData
  <1>6. QED
    BY <1>2, <1>3, <1>4, <1>5 DEF IInv

LEMMA NextKeeps == IInv /\ [Next]_vars => IInv'
  <1> SUFFICES ASSUME IInv, [Next]_vars PROVE IInv'
    OBVIOUS
  <1>1. CASE Leave \/ \E c \in calls : DeleteSucceeds(c)
    <2>1. PICK cs \in SUBSET calls : LeaveWith(cs) /\ UNCHANGED <<store, writes>>
      BY <1>1 DEF Leave, DeleteSucceeds
    <2>2. QED
      BY <2>1, LeaveKeeps
  <1>2. CASE Enter \/ Retry \/ ServerReads \/ LoadArrives \/ LoadFails
    BY <1>2, EnterKeeps, RetryKeeps, ServerReadsKeeps, LoadArrivesKeeps, LoadFailsKeeps
  <1>3. CASE \E s \in Sections : OpenSection(s)
    BY <1>3, OpenSectionKeeps
  <1>4. CASE \E f \in Fields : \E v \in Choices[f] : EditField(f, v)
    BY <1>4, EditFieldKeeps
  <1>5. CASE \/ CloseSecret \/ AskDeleteApp \/ CancelDeleteApp \/ Generate \/ GenerateAnswered
             \/ \E x \in Selections \cup {None} : Select(x)
    BY <1>5, DialogsKeep
  <1>6. CASE \/ SaveForm \/ CreateSecret \/ AddItem \/ ConfirmDeleteApp
             \/ \E i \in Items : RemoveItem(i) \/ ToggleItem(i)
    BY <1>6, RequestsKeep
  <1>7. CASE OthersWrite \/ \E c \in calls : ServerDoes(c) \/ CallSucceeds(c) \/ CallFails(c)
    BY <1>7, OthersWriteKeeps, ServerDoesKeeps, CallSucceedsKeeps, CallFailsKeeps
  <1>8. CASE UNCHANGED vars
    <2>1. UNCHANGED <<server, stamp, writes, here, section, app, loading, error, load, form, busy,
                      confirm, shown, selected, generated, generating, slipped, calls, acked>>
      BY <1>8 DEF vars, store, request, local, dialogs, generator
    <2>2. CallsInv'
      BY <2>1, CallsKept
    <2>3. QED
      BY <2>1, <2>2
         DEF IInv, TypeOK, ScreenInv, FormShown, BusyIsFlag, OneFlag, CallsOnScreen, DialogInv,
             LoadShown, Content, PageData
  <1>9. QED
    BY <1>1, <1>2, <1>3, <1>4, <1>5, <1>6, <1>7, <1>8 DEF Next

THEOREM Invariance == Spec => []IInv
  BY InitKeeps, NextKeeps, PTL DEF Spec

\* The page shows what was read after every change it was told of, its form and its busy flag
\* belong to the section on the screen: however loads, failures, retries and the answers of
\* sections that are long gone come together (useAsync and every handler of AppDetail).
THEOREM PageIsSound == Spec => []PageSound
  <1>1. IInv => PageSound
    BY DEF IInv, PageSound, OwnChangesShown, ScreenInv, FormShown, BusyIsFlag, PageData
  <1>2. QED
    BY <1>1, Invariance, PTL

\* A save that is carried out undoes only what was changed after the data of its form was
\* loaded, or what its user edited (useState(app.x) of BasicsForm and TokenConfigCard).
THEOREM SavesUndoOnlyForCause == Spec => SavesUndoForCause
  <1> DEFINE Step == \A c \in calls : c.op = "save" /\ ServerDoes(c) =>
                         \A f \in Fields : server'.fields[f] # server.fields[f] =>
                             f \in c.arg.edited \/ stamp[f] > c.arg.read
  <1>1. IInv => Step
    <2> SUFFICES ASSUME IInv, NEW c \in calls, c.op = "save", ServerDoes(c), NEW f \in Fields,
                        server'.fields[f] # server.fields[f]
                 PROVE  f \in c.arg.edited \/ stamp[f] > c.arg.read
      OBVIOUS
    <2>1. /\ c.answer = "none" /\ server # None /\ PutFields(c.arg.values)
          /\ CallTyped(c) /\ CallData(c, server, stamp)
      BY DEF ServerDoes, Done, IInv, CallsInv
    <2>2. /\ server \in Apps /\ stamp[f] \in Nat /\ Untouched(c.arg, server, stamp)
      BY <2>1 DEF IInv, TypeOK, CallData
    <2>3. c.arg.read \in Nat
      BY <2>1 DEF CallTyped, FormStates
    <2>4. server'.fields[f] = IF f \in DOMAIN c.arg.values THEN c.arg.values[f]
                                                            ELSE server.fields[f]
      BY <2>1, <2>2 DEF PutFields, Apps
    <2>5. f \in DOMAIN c.arg.values /\ c.arg.values[f] # server.fields[f]
      BY <2>4
    <2>6. f \notin c.arg.edited => ~(stamp[f] <= c.arg.read)
      BY <2>1, <2>2, <2>5 DEF Untouched
    <2>7. QED
      BY <2>2, <2>3, <2>6
  <1>2. Spec => [][Step]_vars
    BY <1>1, Invariance, PTL DEF Spec
  <1>3. QED
    BY <1>2 DEF SavesUndoForCause

\* The token shown is for what is chosen, or slipped in after a change; the dialog with a new
\* secret goes when its user closes it, the page is left or fails to load, and never for
\* another secret (TokenGenerator's setGenerated, SecretList's `created`).
THEOREM ShownStaysOnlyForCause == Spec => ShownStaysForCause
  <1> DEFINE Step == /\ generated' # None => generated' = selected' \/ slipped'
                     /\ shown' # shown /\ shown # None =>
                            shown' = None /\ (CloseSecret \/ LoadFails \/ ~here')
  <1>1. IInv /\ IInv' /\ Next => Step
    <2> SUFFICES ASSUME IInv, IInv', Next PROVE Step
      OBVIOUS
    <2>1. generated' # None => generated' = selected' \/ slipped'
      BY DEF IInv, ScreenInv, DialogInv
    <2>2. ASSUME shown' # shown, shown # None
          PROVE  shown' = None /\ (CloseSecret \/ LoadFails \/ ~here')
      <3>1. /\ here /\ app # None /\ ~error /\ ~Reachable
            /\ \A c \in calls : c.mine => c.op # "create"
        BY <2>2 DEF IInv, ScreenInv, DialogInv, BusyIsFlag, Content, Reachable, Flagged
      <3>2. CASE Leave \/ \E c \in calls : DeleteSucceeds(c)
        BY <3>2 DEF Leave, DeleteSucceeds, LeaveWith, Mount
      <3>3. CASE LoadFails
        BY <3>3 DEF LoadFails, Mount
      <3>4. CASE CloseSecret
        BY <3>4 DEF CloseSecret
      <3>5. ASSUME NEW c \in calls, CallSucceeds(c) PROVE shown' = shown
        BY <3>1, <3>5 DEF CallSucceeds
      <3>6. CASE Enter \/ Retry \/ ServerReads \/ LoadArrives \/ \E s \in Sections : OpenSection(s)
        BY <2>2, <3>1, <3>6
           DEF Enter, Retry, ServerReads, LoadArrives, OpenSection, local, dialogs
      <3>7. CASE (\E f \in Fields : \E v \in Choices[f] : EditField(f, v)) \/
                 (\E x \in Selections \cup {None} : Select(x)) \/ Generate \/ GenerateAnswered
        BY <2>2, <3>7 DEF EditField, Select, Generate, GenerateAnswered, dialogs
      <3>8. CASE AskDeleteApp \/ CancelDeleteApp \/ OthersWrite \/
                 \E c \in calls : ServerDoes(c) \/ CallFails(c)
        BY <2>2, <3>8
           DEF AskDeleteApp, CancelDeleteApp, OthersWrite, ServerDoes, CallFails, local, dialogs
      <3>9. CASE SaveForm \/ CreateSecret \/ AddItem \/ ConfirmDeleteApp \/
                 \E i \in Items : RemoveItem(i) \/ ToggleItem(i)
        BY <2>2, <3>9
           DEF SaveForm, CreateSecret, AddItem, ConfirmDeleteApp, RemoveItem, ToggleItem, local,
               dialogs
      <3>10. QED
        BY <2>2, <3>2, <3>3, <3>4, <3>5, <3>6, <3>7, <3>8, <3>9 DEF Next
    <2>3. QED
      BY <2>1, <2>2
  <1>2. Spec => [][Step]_vars
    BY <1>1, Invariance, PTL DEF Spec
  <1>3. QED
    BY <1>2 DEF ShownStaysForCause
=============================================================================
