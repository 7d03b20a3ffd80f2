--------------------------- MODULE DeviceGrantProofs ---------------------------
(***************************************************************************)
(* Proofs about DeviceGrant, for any number of requests, user codes,       *)
(* people, apps, sessions and browsers.                                    *)
(***************************************************************************)
EXTENDS DeviceGrant, TLAPS

\* Until its row is gone a client has been told nothing final.
ToldWhenGone == \A c \in Codes : device_codes[c] # Gone => answers[c] \subseteq {"refused"}

\* A response is built for a row that is gone and whose client has not been told yet.
AnsweringIsOpen ==
    \A c \in answering : device_codes[c] = Gone /\ answers[c] \subseteq {"refused"}

\* OneFate holds because a fate is told only as the row goes, or as a response ends that
\* began as the row went.
IInv ==
    /\ TypeOK /\ UserCodesUnique /\ OneFate
    /\ ToldWhenGone
    /\ AnsweringIsOpen

-----------------------------------------------------------------------------
\* A row that is there is a row.
LEMMA RowIsCode ==
    ASSUME TypeOK, NEW c \in Codes
    PROVE  HasRow(c) <=> device_codes[c] \in Code
  BY ConstantsAssumption DEF TypeOK, HasRow

\* The session of a browser whose consent is accepted belongs to an enabled user.
LEMMA ApproverIsUser ==
    ASSUME TypeOK, NEW b \in Browsers, LiveSession(cookie[b])
    PROVE  Approver(b) \in Users /\ sessions[cookie[b]] \in Session
  BY DEF TypeOK, LiveSession, HasSession, Approver, Session

\* Removing a row keeps the table sound.
LEMMA RemoveKeepsRows ==
    ASSUME IInv, NEW c \in Codes, Remove(c)
    PROVE  /\ device_codes' \in [Codes -> Code \cup {Undrawn, Gone}]
           /\ UserCodesUnique'
           /\ device_codes'[c] = Gone
           /\ \A d \in Codes : d # c => device_codes'[d] = device_codes[d]
  BY DEF Remove, IInv, TypeOK, UserCodesUnique, HasRow

\* What a client is told, besides refusals, is its only fate if it had none before.
LEMMA ToldOnce ==
    ASSUME IInv, NEW c \in Codes, NEW a \in {"tokens", "denied", "expired", "refused"}, Told(c, a),
           a = "refused" \/ answers[c] \subseteq {"refused"}
    PROVE  /\ answers' \in [Codes -> SUBSET {"tokens", "denied", "expired", "refused"}]
           /\ OneFate'
           /\ \A d \in Codes : d # c => answers'[d] = answers[d]
           /\ a = "refused" /\ answers[c] \subseteq {"refused"} => answers'[c] \subseteq {"refused"}
  <1> DEFINE new == IF a = "refused" /\ answers[c] # {} THEN answers[c]
                    ELSE (answers[c] \ {"refused"}) \cup {a}
  <1>1. answers' = [answers EXCEPT ![c] = new]
    BY DEF Told
  <1>2. new \subseteq {"tokens", "denied", "expired", "refused"}
    BY DEF IInv, TypeOK
  <1>3. \A x, y \in new \ {"refused"} : x = y
    BY DEF IInv, OneFate
  <1>4. a = "refused" /\ answers[c] \subseteq {"refused"} => new \subseteq {"refused"}
    OBVIOUS
  <1> HIDE DEF new
  <1>5. \A d \in Codes : answers'[d] = IF d = c THEN new ELSE answers[d]
    BY <1>1 DEF IInv, TypeOK
  <1>6. answers' \in [Codes -> SUBSET {"tokens", "denied", "expired", "refused"}]
    BY <1>1, <1>2 DEF IInv, TypeOK
  <1>7. OneFate'
    BY <1>3, <1>5 DEF IInv, OneFate
  <1>8. QED
    BY <1>4, <1>5, <1>6, <1>7

-----------------------------------------------------------------------------
\* The inductive invariant holds at the start.
LEMMA Init_IInv == Init => IInv
  BY ConstantsAssumption
     DEF Init, IInv, TypeOK, UserCodesUnique, OneFate, ToldWhenGone, AnsweringIsOpen, HasRow

\* A request, a poll and an answer keep it.
LEMMA Client_IInv ==
    ASSUME IInv, NEW c \in Codes,
           \/ \E k \in UserCodes, a \in Apps : Authorize(c, k, a)
           \/ DropExpired(c) \/ PollExpired(c) \/ PollDenied(c) \/ PollApproved(c)
           \/ PollRefused(c) \/ Answer(c)
    PROVE  IInv'
  <1>1. ASSUME NEW k \in UserCodes, NEW a \in Apps, Authorize(c, k, a)
        PROVE  IInv'
    <2> DEFINE row == [user_code |-> k, app |-> a, user |-> NoUser, status |-> "pending",
                       expiresAt |-> now + DeviceLifetime]
    <2>1. row \in Code /\ row.user_code = k /\ row.user = NoUser
      BY ConstantsAssumption DEF IInv, TypeOK, Code
    <2>2. device_codes' = [device_codes EXCEPT ![c] = row]
      BY <1>1 DEF Authorize
    <2> HIDE DEF row
    <2>3. row \notin {Undrawn, Gone}
      BY <2>1, ConstantsAssumption
    <2>4. TypeOK'
      BY <1>1, <2>1, <2>2 DEF IInv, TypeOK, Authorize
    <2>5. UserCodesUnique'
      BY <1>1, <2>1, <2>2 DEF IInv, TypeOK, UserCodesUnique, HasRow, Authorize, UnusedUserCode
    <2>6. device_codes[c] = Undrawn /\ UNCHANGED <<answers, answering>>
      BY <1>1 DEF Authorize, IsNext
    <2>7. OneFate' /\ ToldWhenGone' /\ AnsweringIsOpen'
      BY <2>2, <2>3, <2>6, ConstantsAssumption
         DEF IInv, TypeOK, OneFate, ToldWhenGone, AnsweringIsOpen
    <2>8. QED
      BY <2>4, <2>5, <2>7 DEF IInv
  <1>2. CASE DropExpired(c)
    <2>1. TypeOK'
      BY <1>2, RemoveKeepsRows DEF IInv, TypeOK, DropExpired
    <2>2. c \notin answering
      BY <1>2 DEF IInv, AnsweringIsOpen, DropExpired, HasRow
    <2>3. QED
      BY <1>2, <2>1, <2>2, RemoveKeepsRows
         DEF IInv, TypeOK, DropExpired, OneFate, ToldWhenGone, AnsweringIsOpen
  <1>3. ASSUME NEW a \in {"expired", "denied", "refused"}, HasRow(c), Remove(c), Told(c, a),
               UNCHANGED <<sessions, accounts, apps, cookie, pages, now, answering, granted>>
        PROVE  IInv'
    <2>1. answers[c] \subseteq {"refused"} /\ c \notin answering
      BY <1>3 DEF IInv, ToldWhenGone, AnsweringIsOpen, HasRow
    <2>2. /\ answers' \in [Codes -> SUBSET {"tokens", "denied", "expired", "refused"}]
          /\ OneFate'
          /\ \A d \in Codes : d # c => answers'[d] = answers[d]
      BY <1>3, <2>1, ToldOnce
    <2>3. TypeOK'
      BY <1>3, <2>2, RemoveKeepsRows DEF IInv, TypeOK
    <2>4. QED
      BY <1>3, <2>1, <2>2, <2>3, RemoveKeepsRows
         DEF IInv, TypeOK, ToldWhenGone, AnsweringIsOpen
  <1>4. CASE PollExpired(c)
    BY <1>3, <1>4 DEF PollExpired, Polls
  <1>5. CASE PollDenied(c)
    BY <1>3, <1>5 DEF PollDenied, Polls
  <1>6. CASE PollApproved(c)
    <2>1. CASE device_codes[c].user \in Users /\ accounts[device_codes[c].user] = "enabled"
      <3>1. /\ HasRow(c) /\ Remove(c)
            /\ granted' = [granted EXCEPT ![c] = device_codes[c].user]
            /\ answering' = answering \cup {c}
            /\ UNCHANGED <<sessions, accounts, apps, cookie, pages, now, answers>>
        BY <1>6, <2>1 DEF PollApproved, Polls, ConsumeApproved
      <3>2. answers[c] \subseteq {"refused"}
        BY <3>1 DEF IInv, ToldWhenGone, HasRow
      <3>3. TypeOK'
        BY <2>1, <3>1, RemoveKeepsRows DEF IInv, TypeOK
      <3>4. QED
        BY <3>1, <3>2, <3>3, RemoveKeepsRows
           DEF IInv, TypeOK, OneFate, ToldWhenGone, AnsweringIsOpen
    <2>2. CASE ~(device_codes[c].user \in Users /\ accounts[device_codes[c].user] = "enabled")
      BY <1>3, <1>6, <2>2 DEF PollApproved, Polls, ConsumeApproved
    <2>3. QED
      BY <2>1, <2>2
  <1>7. CASE PollRefused(c)
    <2>1. /\ answers' \in [Codes -> SUBSET {"tokens", "denied", "expired", "refused"}]
          /\ OneFate'
          /\ \A d \in Codes : d # c => answers'[d] = answers[d]
          /\ answers[c] \subseteq {"refused"} => answers'[c] \subseteq {"refused"}
      BY <1>7, ToldOnce DEF PollRefused
    <2>2. TypeOK' /\ UserCodesUnique'
      BY <1>7, <2>1 DEF IInv, TypeOK, UserCodesUnique, HasRow, PollRefused
    <2>3. QED
      BY <1>7, <2>1, <2>2 DEF IInv, TypeOK, ToldWhenGone, AnsweringIsOpen, PollRefused
  <1>8. CASE Answer(c)
    <2>1. device_codes[c] = Gone /\ answers[c] \subseteq {"refused"}
      BY <1>8 DEF IInv, AnsweringIsOpen, Answer
    <2>2. /\ answers' \in [Codes -> SUBSET {"tokens", "denied", "expired", "refused"}]
          /\ OneFate'
          /\ \A d \in Codes : d # c => answers'[d] = answers[d]
      BY <1>8, <2>1, ToldOnce DEF Answer, IInv, TypeOK, OneFate
    <2>3. TypeOK' /\ UserCodesUnique'
      BY <1>8, <2>2 DEF IInv, TypeOK, UserCodesUnique, HasRow, Answer
    <2>4. QED
      BY <1>8, <2>1, <2>2, <2>3 DEF IInv, TypeOK, ToldWhenGone, AnsweringIsOpen, Answer
  <1>9. QED
    BY <1>1, <1>2, <1>4, <1>5, <1>6, <1>7, <1>8

\* The approval pages keep it.
LEMMA Browser_IInv ==
    ASSUME IInv, NEW b \in Browsers,
           \/ \E c \in Codes : Lookup(b, c)
           \/ \E p \in pages, c \in Codes, u \in Users, s \in Sessions : Signin(b, p, c, u, s)
           \/ \E p \in pages, c \in Codes, decision \in {"approve", "deny"} : Decide(b, p, c, decision)
           \/ Logout(b)
    PROVE  IInv'
  <1>1. ASSUME NEW c \in Codes, Lookup(b, c)
        PROVE  IInv'
    <2>1. device_codes[c] \in Code
      BY <1>1, RowIsCode DEF IInv, Lookup, Undecided
    <2>2. pages' \subseteq Page
      BY <1>1, <2>1 DEF IInv, TypeOK, Lookup, Page, Code
    <2>3. QED
      BY <1>1, <2>2
         DEF IInv, TypeOK, UserCodesUnique, OneFate, ToldWhenGone, AnsweringIsOpen, HasRow, Lookup
  <1>2. ASSUME NEW p \in pages, NEW c \in Codes, NEW u \in Users, NEW s \in Sessions,
               Signin(b, p, c, u, s)
        PROVE  IInv'
    <2>1. [user |-> u, expiresAt |-> now + SessionLifetime] \in Session
      BY ConstantsAssumption DEF IInv, TypeOK, Session
    <2>2. sessions' \in [Sessions -> Session \cup {Undrawn, Gone}]
      BY <1>2, <2>1 DEF IInv, TypeOK, Signin
    <2>3. pages' \subseteq Page
      BY <1>2 DEF IInv, TypeOK, Signin, Page
    <2>4. QED
      BY <1>2, <2>2, <2>3
         DEF IInv, TypeOK, UserCodesUnique, OneFate, ToldWhenGone, AnsweringIsOpen, HasRow, Signin
  <1>3. ASSUME NEW p \in pages, NEW c \in Codes, NEW decision \in {"approve", "deny"},
               Decide(b, p, c, decision)
        PROVE  IInv'
    <2>1. /\ device_codes[c] \in Code
          /\ Approver(b) \in Users
          /\ UNCHANGED <<sessions, accounts, apps, cookie, pages, now, answering, granted, answers>>
      BY <1>3, RowIsCode, ApproverIsUser DEF IInv, Decide, Undecided, Verified
    <2>2. PICK row \in Code : /\ device_codes' = [device_codes EXCEPT ![c] = row]
                              /\ row.user_code = device_codes[c].user_code
      <3>1. CASE decision = "approve"
        <4> DEFINE row == [device_codes[c] EXCEPT !.status = "approved", !.user = Approver(b)]
        <4>1. device_codes' = [device_codes EXCEPT ![c] = row]
          BY <1>3, <2>1, <3>1 DEF Decide, IInv, TypeOK
        <4>2. row \in Code /\ row.user_code = device_codes[c].user_code
          BY <2>1 DEF Code
        <4>3. QED
          BY <4>1, <4>2
      <3>2. CASE decision = "deny"
        <4> DEFINE row == [device_codes[c] EXCEPT !.status = "denied"]
        <4>1. device_codes' = [device_codes EXCEPT ![c] = row]
          BY <1>3, <2>1, <3>2 DEF Decide, IInv, TypeOK
        <4>2. row \in Code /\ row.user_code = device_codes[c].user_code
          BY <2>1 DEF Code
        <4>3. QED
          BY <4>1, <4>2
      <3>3. QED
        BY <3>1, <3>2
    <2>3. HasRow(c) /\ row \notin {Undrawn, Gone}
      BY <1>3, ConstantsAssumption DEF Decide
    <2>4. TypeOK' /\ UserCodesUnique'
      BY <2>1, <2>2, <2>3 DEF IInv, TypeOK, UserCodesUnique, HasRow
    <2>5. QED
      BY <2>1, <2>2, <2>3, <2>4 DEF IInv, TypeOK, HasRow, OneFate, ToldWhenGone, AnsweringIsOpen
  <1>4. CASE Logout(b)
    <2>1. TypeOK'
      BY <1>4 DEF IInv, TypeOK, Logout, HasSession
    <2>2. QED
      BY <1>4, <2>1
         DEF IInv, UserCodesUnique, OneFate, ToldWhenGone, AnsweringIsOpen,
             HasRow, Logout
  <1>5. QED
    BY <1>1, <1>2, <1>3, <1>4

\* Every step keeps it, those of the administration, of a restart and of the clock as well.
LEMMA Next_IInv == IInv /\ [Next]_vars => IInv'
  <1> SUFFICES ASSUME IInv, [Next]_vars
               PROVE  IInv'
    OBVIOUS
  <1>1. ASSUME NEW u \in Users, NEW state \in {"enabled", "disabled", "absent"},
               SetAccount(u, state)
        PROVE  IInv'
    <2>1. TypeOK'
      BY <1>1 DEF IInv, TypeOK, SetAccount
    <2>2. QED
      BY <1>1, <2>1
         DEF IInv, UserCodesUnique, OneFate, ToldWhenGone, AnsweringIsOpen,
             HasRow, SetAccount
  <1>2. ASSUME NEW a \in Apps, DeleteApp(a)
        PROVE  IInv'
    BY <1>2
       DEF IInv, TypeOK, UserCodesUnique, OneFate, ToldWhenGone, AnsweringIsOpen, HasRow, DeleteApp
  <1>3. ASSUME NEW reseed \in BOOLEAN, Reset(reseed)
        PROVE  IInv'
    <2>1. TypeOK'
      BY <1>3 DEF IInv, TypeOK, Reset
    <2>2. \A c \in Codes : device_codes'[c] \in {Undrawn, Gone}
      BY <1>3 DEF Reset, HasRow
    <2>3. \A c \in Codes : device_codes[c] = Gone => device_codes'[c] = Gone
      BY <1>3 DEF Reset, HasRow
    <2>4. \A c \in Codes : device_codes'[c] # Gone => device_codes[c] # Gone
      BY <2>3
    <2>5. UserCodesUnique'
      BY <2>2 DEF UserCodesUnique, HasRow
    <2>6. QED
      BY <1>3, <2>1, <2>3, <2>4, <2>5
         DEF IInv, TypeOK, OneFate, ToldWhenGone, AnsweringIsOpen, Reset
  <1>4. CASE Seed
    <2>1. TypeOK'
      BY <1>4 DEF IInv, TypeOK, Seed
    <2>2. QED
      BY <1>4, <2>1
         DEF IInv, UserCodesUnique, OneFate, ToldWhenGone, AnsweringIsOpen,
             HasRow, Seed
  <1>5. CASE Restart
    BY <1>5
       DEF IInv, TypeOK, UserCodesUnique, OneFate, ToldWhenGone, AnsweringIsOpen, HasRow, Restart
  <1>6. CASE Tick
    BY <1>6
       DEF IInv, TypeOK, UserCodesUnique, OneFate, ToldWhenGone, AnsweringIsOpen, HasRow, Tick
  <1>7. CASE UNCHANGED vars
    BY <1>7
       DEF IInv, TypeOK, UserCodesUnique, OneFate, ToldWhenGone, AnsweringIsOpen, HasRow, vars
  <1>8. QED
    BY <1>1, <1>2, <1>3, <1>4, <1>5, <1>6, <1>7, Client_IInv, Browser_IInv DEF Next

-----------------------------------------------------------------------------
\* Whatever is drawn, decided, polled, reset or restarted in between, a user code names one
\* open request and a request has one fate.
THEOREM SoundDevices == Spec => []DevicesSound
  <1>1. IInv => DevicesSound
    BY DEF IInv, DevicesSound
  <1>2. QED
    BY <1>1, Init_IInv, Next_IInv, PTL DEF Spec

\* A request is approved only out of a consent page shown in a session of the approving user
\* that is still alive.
THEOREM ConsentFirst == Spec => ApprovalFollowsConsent
  <1>1. ASSUME IInv, [Next]_vars, NEW c \in Codes,
               HasRow(c), device_codes[c].status = "pending", device_codes'[c] # Gone,
               device_codes'[c].status = "approved"
        PROVE  \E p \in pages :
                  /\ p.userCode = device_codes[c].user_code
                  /\ HasSession(p.sid)
                  /\ sessions[p.sid].user = device_codes'[c].user
                  /\ now < sessions[p.sid].expiresAt
                  /\ accounts[device_codes'[c].user] = "enabled"
    <2>1. CASE \E b \in Browsers, p \in pages, d \in Codes, decision \in {"approve", "deny"} :
                    Decide(b, p, d, decision)
      <3>1. PICK b \in Browsers, p \in pages, d \in Codes, decision \in {"approve", "deny"} :
                    Decide(b, p, d, decision)
        BY <2>1
      <3>2. /\ device_codes[c] \in Code /\ device_codes[d] \in Code
            /\ Approver(b) \in Users
        BY <1>1, <3>1, RowIsCode, ApproverIsUser DEF IInv, Decide, Undecided, Verified
      <3>3. d = c /\ decision = "approve"
        BY <1>1, <3>1, <3>2 DEF IInv, TypeOK, Decide, Code
      <3>4. device_codes'[c].user = Approver(b)
        BY <1>1, <3>1, <3>2, <3>3 DEF IInv, TypeOK, Decide, Code
      <3>5. QED
        BY <3>1, <3>3, <3>4 DEF Decide, Verified, LiveSession, Approver
    <2>2. CASE \E d \in Codes, k \in UserCodes, a \in Apps : Authorize(d, k, a)
      BY <1>1, <2>2 DEF IInv, TypeOK, Authorize, IsNext, HasRow
    <2>3. CASE \E d \in Codes : Remove(d)
      BY <1>1, <2>3 DEF IInv, TypeOK, Remove
    <2>4. CASE \E reseed \in BOOLEAN : Reset(reseed)
      BY <1>1, <2>4 DEF Reset
    <2>5. CASE UNCHANGED device_codes
      BY <1>1, <2>5
    <2>6. QED
      BY <1>1, <2>1, <2>2, <2>3, <2>4, <2>5
         DEF Next, DropExpired, Lookup, Signin, Logout, PollExpired, PollDenied, PollApproved,
             ConsumeApproved, PollRefused, Answer, SetAccount, DeleteApp, Seed, Restart, Tick, vars
  <1>2. IInv /\ [Next]_vars => ApprovedFromConsent
    BY <1>1 DEF ApprovedFromConsent
  <1>3. QED
    BY <1>2, Init_IInv, Next_IInv, PTL DEF Spec, ApprovalFollowsConsent

-----------------------------------------------------------------------------
\* A row that goes, by whatever step, closes its request.
LEMMA RemoveCloses ==
    ASSUME IInv, NEW c \in Codes, HasRow(c), Remove(c)
    PROVE  /\ Stage' = [d \in Codes |-> IF d \in {c} THEN "closed" ELSE Stage[d]]
           /\ ApprovedBy' = [d \in Codes |-> IF d \in {c} THEN NoUser ELSE ApprovedBy[d]]
           /\ Stage[c] # "none"
  <1>1. device_codes[c] \in Code
    BY RowIsCode DEF IInv
  <1>2. Stage[c] # "none"
    BY <1>1, ConstantsAssumption DEF Stage, HasRow, Code
  <1>3. \A d \in Codes : device_codes'[d] = IF d = c THEN Gone ELSE device_codes[d]
    BY DEF Remove, IInv, TypeOK
  <1>4. QED
    BY <1>2, <1>3, ConstantsAssumption DEF Stage, ApprovedBy, HasRow

\* What a step does to the stage of the requests, to who has approved them and to what is
\* granted is a step of DeviceAuthorization, or none.
THEOREM Refinement == Spec => ImplementsDeviceAuthorization
  <1>1. Init => Lifecycle!Init
    BY ConstantsAssumption DEF Init, Lifecycle!Init, Stage, ApprovedBy, HasRow
  <1>2. ASSUME IInv, [Next]_vars
        PROVE  [Lifecycle!Next]_<<Stage, ApprovedBy, granted>>
    <2>1. ASSUME NEW c \in Codes, NEW k \in UserCodes, NEW a \in Apps, Authorize(c, k, a)
          PROVE  Lifecycle!Next
      <3> DEFINE row == [user_code |-> k, app |-> a, user |-> NoUser, status |-> "pending",
                         expiresAt |-> now + DeviceLifetime]
      <3>1. row \in Code /\ row.user = NoUser /\ row.status = "pending"
        BY <1>2, ConstantsAssumption DEF IInv, TypeOK, Code
      <3>2. device_codes' = [device_codes EXCEPT ![c] = row]
        BY <2>1 DEF Authorize
      <3> HIDE DEF row
      <3>3. device_codes[c] = Undrawn /\ row \notin {Undrawn, Gone} /\ UNCHANGED granted
        BY <2>1, <3>1, ConstantsAssumption DEF Authorize, IsNext
      <3>4. \A d \in Codes : device_codes'[d] = IF d = c THEN row ELSE device_codes[d]
        BY <1>2, <3>2 DEF IInv, TypeOK
      <3>5. /\ \A d \in Codes : Stage'[d] = IF d = c THEN "pending" ELSE Stage[d]
            /\ ApprovedBy' = ApprovedBy
            /\ Stage[c] = "none"
        BY <3>1, <3>3, <3>4 DEF Stage, ApprovedBy, HasRow
      <3>6. Stage' = [Stage EXCEPT ![c] = "pending"]
        BY <3>5 DEF Stage
      <3>7. Lifecycle!Ask(c)
        BY <3>3, <3>5, <3>6 DEF Lifecycle!Ask
      <3>8. QED
        BY <3>7 DEF Lifecycle!Next
    <2>2. ASSUME NEW c \in Codes, HasRow(c), Remove(c), UNCHANGED granted
          PROVE  Lifecycle!Next
      <3>1. Lifecycle!Close({c})
        BY <1>2, <2>2, RemoveCloses DEF Lifecycle!Close
      <3>2. QED
        BY <3>1 DEF Lifecycle!Next
    <2>3. ASSUME NEW c \in Codes, PollApproved(c)
          PROVE  Lifecycle!Next
      <3>1. HasRow(c) /\ Remove(c) /\ device_codes[c].status = "approved"
        BY <2>3 DEF PollApproved, Polls, ConsumeApproved
      <3>2. CASE granted' = [granted EXCEPT ![c] = device_codes[c].user]
        <4>1. device_codes[c] \in Code
          BY <1>2, <3>1, RowIsCode DEF IInv
        <4>2. Stage[c] = "approved" /\ ApprovedBy[c] = device_codes[c].user
          BY <3>1 DEF Stage, ApprovedBy, HasRow
        <4>3. /\ Stage' = [Stage EXCEPT ![c] = "closed"]
              /\ ApprovedBy' = [ApprovedBy EXCEPT ![c] = NoUser]
          BY <1>2, <3>1, RemoveCloses DEF Stage, ApprovedBy
        <4>4. Lifecycle!Redeem(c)
          BY <3>2, <4>2, <4>3 DEF Lifecycle!Redeem
        <4>5. QED
          BY <4>4 DEF Lifecycle!Next
      <3>3. CASE UNCHANGED granted
        BY <2>2, <3>1, <3>3
      <3>4. QED
        BY <2>3, <3>2, <3>3 DEF PollApproved
    <2>4. ASSUME NEW b \in Browsers, NEW p \in pages, NEW c \in Codes,
                 NEW decision \in {"approve", "deny"}, Decide(b, p, c, decision)
          PROVE  Lifecycle!Next
      <3>1. /\ device_codes[c] \in Code /\ device_codes[c].status = "pending" /\ HasRow(c)
            /\ Approver(b) \in Users
            /\ UNCHANGED granted
        BY <1>2, <2>4, RowIsCode, ApproverIsUser DEF IInv, Decide, Undecided, Verified
      <3>2. Stage[c] = "pending" /\ ApprovedBy[c] = device_codes[c].user
        BY <3>1 DEF Stage, ApprovedBy, HasRow
      <3>3. CASE decision = "approve"
        <4> DEFINE row == [device_codes[c] EXCEPT !.status = "approved", !.user = Approver(b)]
        <4>1. row \in Code /\ row.status = "approved" /\ row.user = Approver(b)
          BY <3>1 DEF Code
        <4>2. \A d \in Codes : device_codes'[d] = IF d = c THEN row ELSE device_codes[d]
          BY <1>2, <2>4, <3>3 DEF Decide, IInv, TypeOK
        <4> HIDE DEF row
        <4>3. row \notin {Undrawn, Gone}
          BY <4>1, ConstantsAssumption
        <4>4. /\ \A d \in Codes : Stage'[d] = IF d = c THEN "approved" ELSE Stage[d]
              /\ \A d \in Codes : ApprovedBy'[d] = IF d = c THEN Approver(b) ELSE ApprovedBy[d]
          BY <4>1, <4>2, <4>3 DEF Stage, ApprovedBy, HasRow
        <4>5. /\ Stage' = [Stage EXCEPT ![c] = "approved"]
              /\ ApprovedBy' = [ApprovedBy EXCEPT ![c] = Approver(b)]
          BY <4>4 DEF Stage, ApprovedBy
        <4>6. Lifecycle!Approve(c, Approver(b))
          BY <3>1, <3>2, <4>5 DEF Lifecycle!Approve
        <4>7. QED
          BY <3>1, <4>6 DEF Lifecycle!Next
      <3>4. CASE decision = "deny"
        <4> DEFINE row == [device_codes[c] EXCEPT !.status = "denied"]
        <4>1. row \in Code /\ row.status = "denied" /\ row.user = device_codes[c].user
          BY <3>1 DEF Code
        <4>2. \A d \in Codes : device_codes'[d] = IF d = c THEN row ELSE device_codes[d]
          BY <1>2, <2>4, <3>4 DEF Decide, IInv, TypeOK
        <4> HIDE DEF row
        <4>3. row \notin {Undrawn, Gone}
          BY <4>1, ConstantsAssumption
        <4>4. /\ \A d \in Codes : Stage'[d] = IF d = c THEN "denied" ELSE Stage[d]
              /\ ApprovedBy' = ApprovedBy
          BY <3>1, <4>1, <4>2, <4>3 DEF Stage, ApprovedBy, HasRow
        <4>5. Stage' = [Stage EXCEPT ![c] = "denied"]
          BY <4>4 DEF Stage
        <4>6. Lifecycle!Deny(c)
          BY <3>1, <3>2, <4>4, <4>5 DEF Lifecycle!Deny
        <4>7. QED
          BY <4>6 DEF Lifecycle!Next
      <3>5. QED
        BY <3>3, <3>4
    <2>5. ASSUME NEW reseed \in BOOLEAN, Reset(reseed)
          PROVE  Lifecycle!Next
      <3> DEFINE C == {c \in Codes : HasRow(c)}
      <3>1. \A c \in C : Stage[c] # "none"
        <4>1. \A c \in C : device_codes[c] \in Code
          BY <1>2, RowIsCode DEF IInv
        <4>2. QED
          BY <4>1 DEF Stage, HasRow, Code
      <3>2. \A c \in Codes : device_codes'[c] = IF c \in C THEN Gone ELSE device_codes[c]
        BY <2>5 DEF Reset
      <3>3. /\ Stage' = [c \in Codes |-> IF c \in C THEN "closed" ELSE Stage[c]]
            /\ ApprovedBy' = [c \in Codes |-> IF c \in C THEN NoUser ELSE ApprovedBy[c]]
        BY <3>2, ConstantsAssumption DEF Stage, ApprovedBy, HasRow
      <3>4. UNCHANGED granted /\ C \in SUBSET Codes
        BY <2>5 DEF Reset
      <3> HIDE DEF C
      <3>5. Lifecycle!Close(C)
        BY <3>1, <3>3, <3>4 DEF Lifecycle!Close
      <3>6. QED
        BY <3>4, <3>5 DEF Lifecycle!Next
    <2>6. CASE UNCHANGED <<device_codes, granted>>
      BY <2>6 DEF Stage, ApprovedBy, HasRow
    <2>7. CASE \E c \in Codes : DropExpired(c) \/ PollExpired(c) \/ PollDenied(c)
      BY <2>2, <2>7 DEF DropExpired, PollExpired, PollDenied, Polls
    <2>8. QED
      BY <1>2, <2>1, <2>3, <2>4, <2>5, <2>6, <2>7
         DEF Next, Lookup, Signin, Logout, PollRefused, Answer, SetAccount, DeleteApp, Seed,
             Restart, Tick, vars
  <1>3. QED
    BY <1>1, <1>2, Init_IInv, Next_IInv, PTL
       DEF Spec, ImplementsDeviceAuthorization, Lifecycle!Spec, Lifecycle!vars

=============================================================================
