-------------------------- MODULE AuthCodeGrantProofs --------------------------
(***************************************************************************)
(* Proofs about AuthCodeGrant, for any number of codes, sessions, people,  *)
(* apps, redirect URIs and browsers.                                       *)
(***************************************************************************)
EXTENDS AuthCodeGrant, TLAPS

\* What was redeemed had been drawn: a code that is still to be drawn is worth nothing yet.
GrantedWereDrawn == \A c \in Codes : granted[c] # Undrawn => authorization_codes[c] # Undrawn

\* A row names a user and an app that exist; GrantedWereDrawn is what the refinement needs
\* besides, to know that a code that is issued was never redeemed.
IInv == TypeOK /\ CodesReferToDirectory /\ GrantedWereDrawn

-----------------------------------------------------------------------------
\* The session of a browser that is let in without a page belongs to an enabled user.
LEMMA SessionHasUser ==
    ASSUME TypeOK, NEW b \in Browsers, LiveSession(cookie[b])
    PROVE  /\ sessions[cookie[b]] \in Session
           /\ SessionSubject(cookie[b]) \in Users
           /\ accounts[SessionSubject(cookie[b])] = "enabled"
  BY DEF TypeOK, LiveSession, HasSession, SessionSubject, Session

\* A code issued for an enabled user and a registered URI keeps the table sound.
LEMMA IssueKeepsCodes ==
    ASSUME IInv, NEW c \in Codes, NEW q \in Request, NEW u \in Users,
           accounts[u] = "enabled", RegisteredUri(q.app, q.uri), IssueCode(c, q, u),
           UNCHANGED <<accounts, apps, granted, now>>
    PROVE  /\ authorization_codes' \in [Codes -> Code \cup {Undrawn, Gone}]
           /\ CodesReferToDirectory'
           /\ GrantedWereDrawn'
  <1> DEFINE row == [app |-> q.app, user |-> u, uri |-> q.uri, challenge |-> q.challenge,
                     expiresAt |-> now + CodeLifetime, consumed |-> FALSE]
  <1>1. row \in Code
    BY ConstantsAssumption DEF IInv, TypeOK, Request, Code
  <1>2. authorization_codes' = [authorization_codes EXCEPT ![c] = row]
    BY DEF IssueCode
  <1>3. row.user = u /\ row.app = q.app
    OBVIOUS
  <1> HIDE DEF row
  <1>4. authorization_codes' \in [Codes -> Code \cup {Undrawn, Gone}]
    BY <1>1, <1>2 DEF IInv, TypeOK
  <1>5. row \notin {Undrawn, Gone}
    BY <1>1, ConstantsAssumption
  <1>6. CodesReferToDirectory'
    BY <1>2, <1>3 DEF IInv, TypeOK, CodesReferToDirectory, HasCode, RegisteredUri
  <1>7. GrantedWereDrawn'
    BY <1>2, <1>5 DEF IInv, TypeOK, GrantedWereDrawn
  <1>8. QED
    BY <1>4, <1>6, <1>7

\* Spending a code keeps its row.
LEMMA ConsumeKeepsCodes ==
    ASSUME IInv, NEW c \in Codes, HasCode(c), Consume(c), UNCHANGED <<accounts, apps>>
    PROVE  /\ authorization_codes' \in [Codes -> Code \cup {Undrawn, Gone}]
           /\ CodesReferToDirectory'
           /\ \A d \in Codes : authorization_codes[d] # Undrawn => authorization_codes'[d] # Undrawn
           /\ authorization_codes'[c] # Undrawn
  <1>1. authorization_codes[c] \in Code
    BY DEF IInv, TypeOK, HasCode
  <1> DEFINE row == [authorization_codes[c] EXCEPT !.consumed = TRUE]
  <1>2. row \in Code /\ row.user = authorization_codes[c].user /\ row.app = authorization_codes[c].app
    BY <1>1 DEF Code
  <1>3. authorization_codes' = [authorization_codes EXCEPT ![c] = row]
    BY DEF Consume
  <1> HIDE DEF row
  <1>4. row \notin {Undrawn, Gone}
    BY <1>2, ConstantsAssumption
  <1>5. CodesReferToDirectory'
    BY <1>2, <1>3 DEF IInv, TypeOK, CodesReferToDirectory, HasCode
  <1>6. QED
    BY <1>2, <1>3, <1>4, <1>5 DEF IInv, TypeOK

-----------------------------------------------------------------------------
\* The inductive invariant holds of the seeded directory.
LEMMA Init_IInv == Init => IInv
  BY ConstantsAssumption
     DEF Init, IInv, TypeOK, CodesReferToDirectory, GrantedWereDrawn, HasCode

\* Every step of a browser, a client, the admin API and the clock keeps it.
LEMMA Next_IInv == IInv /\ [Next]_vars => IInv'
  <1> SUFFICES ASSUME IInv, [Next]_vars
               PROVE  IInv'
    OBVIOUS
  <1> USE ConstantsAssumption
  <1>1. ASSUME NEW b \in Browsers, NEW q \in Request, NEW c \in Codes, AuthorizeSso(b, q, c)
        PROVE  IInv'
    <2>1. SessionSubject(cookie[b]) \in Users /\ accounts[SessionSubject(cookie[b])] = "enabled"
      BY <1>1, SessionHasUser DEF IInv, AuthorizeSso
    <2>2. /\ authorization_codes' \in [Codes -> Code \cup {Undrawn, Gone}]
          /\ CodesReferToDirectory'
          /\ GrantedWereDrawn'
      BY <1>1, <2>1, IssueKeepsCodes DEF AuthorizeSso, ValidRequest
    <2>3. QED
      BY <1>1, <2>2 DEF IInv, TypeOK, AuthorizeSso
  <1>2. ASSUME NEW q \in Request, AuthorizePage(q)
        PROVE  IInv'
    BY <1>2 DEF IInv, TypeOK, CodesReferToDirectory, GrantedWereDrawn, HasCode, AuthorizePage
  <1>3. ASSUME NEW b \in Browsers, NEW q \in pages, NEW u \in Users, NEW s \in Sessions,
               NEW c \in Codes, SignInSubmit(b, q, u, s, c)
        PROVE  IInv'
    <2>1. q \in Request
      BY DEF IInv, TypeOK
    <2>2. /\ authorization_codes' \in [Codes -> Code \cup {Undrawn, Gone}]
          /\ CodesReferToDirectory'
          /\ GrantedWereDrawn'
      BY <1>3, <2>1, IssueKeepsCodes DEF SignInSubmit, StillRegistered
    <2>3. [user |-> u, expiresAt |-> now + SessionLifetime] \in Session
      BY DEF IInv, TypeOK, Session
    <2>4. sessions' \in [Sessions -> Session \cup {Undrawn, Gone}]
      BY <1>3, <2>3 DEF IInv, TypeOK, SignInSubmit
    <2>5. QED
      BY <1>3, <2>2, <2>4 DEF IInv, TypeOK, SignInSubmit
  <1>4. ASSUME NEW b \in Browsers, Logout(b)
        PROVE  IInv'
    <2>1. TypeOK'
      BY <1>4 DEF IInv, TypeOK, Logout, HasSession
    <2>2. QED
      BY <1>4, <2>1 DEF IInv, CodesReferToDirectory, GrantedWereDrawn, HasCode, Logout
  <1>5. ASSUME NEW c \in Codes, NEW a \in Apps, NEW uri \in Uris, NEW proof \in Proofs \cup {NoProof},
               Redeem(c, a, uri, proof)
        PROVE  IInv'
    <2>1. authorization_codes[c] \in Code
      BY <1>5 DEF IInv, TypeOK, Redeem, Redeemable, HasCode
    <2>2. [user |-> authorization_codes[c].user, app |-> a, uri |-> uri] \in Worth
      BY <2>1 DEF Code, Worth
    <2>3. granted' \in [Codes -> Worth \cup {Undrawn}]
      BY <1>5, <2>2 DEF IInv, TypeOK, Redeem
    <2>4. /\ authorization_codes' \in [Codes -> Code \cup {Undrawn, Gone}]
          /\ CodesReferToDirectory'
          /\ \A d \in Codes : authorization_codes[d] # Undrawn => authorization_codes'[d] # Undrawn
          /\ authorization_codes'[c] # Undrawn
      BY <1>5, ConsumeKeepsCodes DEF Redeem, Redeemable
    <2>5. GrantedWereDrawn'
      BY <1>5, <2>4 DEF IInv, TypeOK, GrantedWereDrawn, Redeem
    <2>6. QED
      BY <1>5, <2>3, <2>4, <2>5 DEF IInv, TypeOK, Redeem
  <1>6. ASSUME NEW c \in Codes, NEW a \in Apps, NEW uri \in Uris, NEW proof \in Proofs \cup {NoProof},
               RedeemInvalidScope(c, a, uri, proof)
        PROVE  IInv'
    <2>1. /\ authorization_codes' \in [Codes -> Code \cup {Undrawn, Gone}]
          /\ CodesReferToDirectory'
          /\ \A d \in Codes : authorization_codes[d] # Undrawn => authorization_codes'[d] # Undrawn
      BY <1>6, ConsumeKeepsCodes DEF RedeemInvalidScope, Redeemable
    <2>2. QED
      BY <1>6, <2>1 DEF IInv, TypeOK, GrantedWereDrawn, RedeemInvalidScope
  <1>7. ASSUME NEW u \in Users, NEW state \in {"enabled", "disabled"}, SetEnabled(u, state)
        PROVE  IInv'
    BY <1>7 DEF IInv, TypeOK, CodesReferToDirectory, GrantedWereDrawn, HasCode, SetEnabled
  <1>8. ASSUME NEW u \in Users, DeleteUser(u)
        PROVE  IInv'
    <2>1. TypeOK'
      BY <1>8 DEF IInv, TypeOK, DeleteUser
    <2>2. QED
      BY <1>8, <2>1 DEF IInv, TypeOK, CodesReferToDirectory, GrantedWereDrawn, HasCode, DeleteUser
  <1>9. ASSUME NEW a \in Apps, DeleteApp(a)
        PROVE  IInv'
    BY <1>9 DEF IInv, TypeOK, CodesReferToDirectory, GrantedWereDrawn, HasCode, DeleteApp
  <1>10. ASSUME NEW a \in Apps, NEW uri \in Uris, RemoveRedirectUri(a, uri)
         PROVE  IInv'
    BY <1>10 DEF IInv, TypeOK, CodesReferToDirectory, GrantedWereDrawn, HasCode, RemoveRedirectUri
  <1>11. ASSUME NEW a \in Apps, NEW uri \in Uris, AddRedirectUri(a, uri)
         PROVE  IInv'
    BY <1>11 DEF IInv, TypeOK, CodesReferToDirectory, GrantedWereDrawn, HasCode, AddRedirectUri
  <1>12. ASSUME NEW reseed \in BOOLEAN, Reset(reseed)
         PROVE  IInv'
    BY <1>12 DEF IInv, TypeOK, CodesReferToDirectory, GrantedWereDrawn, HasCode, HasSession, Reset
  <1>13. CASE Seed
    <2>1. TypeOK'
      BY <1>13 DEF IInv, TypeOK, Seed
    <2>2. \A c \in Codes : HasCode(c) =>
              authorization_codes[c].user \in Users /\ authorization_codes[c].app \in Apps
      BY DEF IInv, TypeOK, HasCode, Code
    <2>3. QED
      BY <1>13, <2>1, <2>2 DEF IInv, CodesReferToDirectory, GrantedWereDrawn, HasCode, Seed
  <1>14. CASE Restart
    BY <1>14 DEF IInv, TypeOK, CodesReferToDirectory, GrantedWereDrawn, HasCode, Restart
  <1>15. CASE Tick
    BY <1>15 DEF IInv, TypeOK, CodesReferToDirectory, GrantedWereDrawn, HasCode, Tick
  <1>16. CASE UNCHANGED vars
    BY <1>16 DEF IInv, TypeOK, CodesReferToDirectory, GrantedWereDrawn, HasCode, vars
  <1>17. QED
    BY <1>1, <1>2, <1>3, <1>4, <1>5, <1>6, <1>7, <1>8, <1>9, <1>10, <1>11, <1>12, <1>13, <1>14,
       <1>15, <1>16 DEF Next

-----------------------------------------------------------------------------
\* Whatever is deleted, disabled or reset, a code that can be looked up names a user and an
\* app that exist.
THEOREM SoundCodes == Spec => []CodesSound
  <1>1. IInv => CodesSound
    BY DEF IInv, CodesSound
  <1>2. QED
    BY <1>1, Init_IInv, Next_IInv, PTL DEF Spec

\* A code is only ever issued for an enabled user, to a URI registered for the app at that
\* moment, and leaves the browser in a live session of that user.
THEOREM FollowSignIn == Spec => CodesFollowSignIn
  <1>1. ASSUME IInv, [Next]_vars, NEW c \in Codes,
               authorization_codes[c] = Undrawn, authorization_codes'[c] # Undrawn
        PROVE  /\ accounts[authorization_codes'[c].user] = "enabled"
               /\ RegisteredUri(authorization_codes'[c].app, authorization_codes'[c].uri)
               /\ \E b \in Browsers :
                     /\ cookie'[b] \in Sessions
                     /\ sessions'[cookie'[b]] \in Session
                     /\ sessions'[cookie'[b]].user = authorization_codes'[c].user
                     /\ now < sessions'[cookie'[b]].expiresAt
    <2>1. ASSUME NEW d \in Codes, NEW q \in Request, NEW u \in Users, IssueCode(d, q, u)
          PROVE  authorization_codes'[c].user = u /\ authorization_codes'[c].app = q.app
                 /\ authorization_codes'[c].uri = q.uri
      <3>1. d = c
        BY <1>1, <2>1 DEF IInv, TypeOK, IssueCode
      <3>2. QED
        BY <1>1, <2>1, <3>1 DEF IInv, TypeOK, IssueCode
    <2>2. CASE \E b \in Browsers, q \in Request, d \in Codes : AuthorizeSso(b, q, d)
      <3>1. PICK b \in Browsers, q \in Request, d \in Codes : AuthorizeSso(b, q, d)
        BY <2>2
      <3>2. /\ sessions[cookie[b]] \in Session
            /\ SessionSubject(cookie[b]) \in Users
            /\ accounts[SessionSubject(cookie[b])] = "enabled"
        BY <1>1, <3>1, SessionHasUser DEF IInv, AuthorizeSso
      <3>3. /\ authorization_codes'[c].user = SessionSubject(cookie[b])
            /\ authorization_codes'[c].app = q.app /\ authorization_codes'[c].uri = q.uri
        BY <2>1, <3>1, <3>2 DEF AuthorizeSso
      <3>4. QED
        BY <3>1, <3>2, <3>3
           DEF AuthorizeSso, ValidRequest, LiveSession, HasSession, SessionSubject
    <2>3. CASE \E b \in Browsers, q \in pages, u \in Users, s \in Sessions, d \in Codes :
                    SignInSubmit(b, q, u, s, d)
      <3>1. PICK b \in Browsers, q \in pages, u \in Users, s \in Sessions, d \in Codes :
                    SignInSubmit(b, q, u, s, d)
        BY <2>3
      <3>2. /\ authorization_codes'[c].user = u
            /\ authorization_codes'[c].app = q.app /\ authorization_codes'[c].uri = q.uri
        BY <1>1, <2>1, <3>1 DEF SignInSubmit, IInv, TypeOK
      <3>3. /\ cookie'[b] = s
            /\ sessions'[s] = [user |-> u, expiresAt |-> now + SessionLifetime]
        BY <1>1, <3>1 DEF SignInSubmit, IInv, TypeOK
      <3>4. [user |-> u, expiresAt |-> now + SessionLifetime] \in Session /\ now < now + SessionLifetime
        BY <1>1, ConstantsAssumption DEF IInv, TypeOK, Session
      <3>5. QED
        BY <3>1, <3>2, <3>3, <3>4 DEF SignInSubmit, StillRegistered
    <2>4. CASE \E d \in Codes, a \in Apps, uri \in Uris, proof \in Proofs \cup {NoProof} :
                    Redeem(d, a, uri, proof) \/ RedeemInvalidScope(d, a, uri, proof)
      <3>1. \E d \in Codes : HasCode(d) /\ Consume(d)
        BY <2>4 DEF Redeem, RedeemInvalidScope, Redeemable
      <3>2. QED
        BY <1>1, <3>1 DEF HasCode, Consume, IInv, TypeOK
    <2>5. CASE \E reseed \in BOOLEAN : Reset(reseed)
      BY <1>1, <2>5 DEF Reset, HasCode
    <2>6. CASE UNCHANGED authorization_codes
      BY <1>1, <2>6
    <2>7. QED
      BY <1>1, <2>2, <2>3, <2>4, <2>5, <2>6
         DEF Next, AuthorizePage, Logout, SetEnabled, DeleteUser, DeleteApp, RemoveRedirectUri,
             AddRedirectUri, Seed, Restart, Tick, vars
  <1>2. IInv /\ [Next]_vars => IssuedToSignedIn
    BY <1>1 DEF IssuedToSignedIn
  <1>3. QED
    BY <1>2, Init_IInv, Next_IInv, PTL DEF Spec, CodesFollowSignIn

-----------------------------------------------------------------------------
\* What a step does to the codes that can still be redeemed, and what it grants, is a step
\* of AuthorizationCode: a code is issued once, redeemed once, or voided.
THEOREM Refinement == Spec => ImplementsAuthorizationCode
  <1>1. Init => OneTimeCodes!Init
    BY DEF Init, OneTimeCodes!Init, OpenCodes, HasCode
  <1>2. ASSUME IInv, [Next]_vars
        PROVE  [OneTimeCodes!Next]_<<OpenCodes, granted>>
    <2>1. ASSUME NEW c \in Codes, NEW q \in Request, NEW u \in Users, IssueCode(c, q, u),
                 UNCHANGED granted
          PROVE  OneTimeCodes!Next
      <3> DEFINE row == [app |-> q.app, user |-> u, uri |-> q.uri, challenge |-> q.challenge,
                         expiresAt |-> now + CodeLifetime, consumed |-> FALSE]
                 w == [user |-> u, app |-> q.app, uri |-> q.uri]
      <3>1. row \in Code /\ w \in OneTimeCodes!Worth
        BY <1>2, ConstantsAssumption DEF IInv, TypeOK, Request, Code, OneTimeCodes!Worth
      <3>2. authorization_codes' = [authorization_codes EXCEPT ![c] = row]
        BY <2>1 DEF IssueCode
      <3>3. row \notin {Undrawn, Gone}
        BY <3>1, ConstantsAssumption
      <3>4. ~row.consumed /\ w = [user |-> row.user, app |-> row.app, uri |-> row.uri]
        OBVIOUS
      <3> HIDE DEF row, w
      <3>5. OpenCodes[c] = Undrawn /\ granted[c] = Undrawn
        BY <1>2, <2>1 DEF IssueCode, OpenCodes, HasCode, IInv, GrantedWereDrawn
      <3>6. \A d \in Codes : OpenCodes'[d] = IF d = c THEN w ELSE OpenCodes[d]
        BY <1>2, <3>2, <3>3, <3>4 DEF OpenCodes, HasCode, IInv, TypeOK
      <3>7. OpenCodes' = [OpenCodes EXCEPT ![c] = w]
        BY <3>6 DEF OpenCodes
      <3>8. OneTimeCodes!Issue(c, w)
        BY <2>1, <3>5, <3>7 DEF OneTimeCodes!Issue
      <3>9. QED
        BY <3>1, <3>8 DEF OneTimeCodes!Next
    <2>2. ASSUME NEW c \in Codes, HasCode(c), ~authorization_codes[c].consumed, Consume(c)
          PROVE  /\ OpenCodes' = [OpenCodes EXCEPT ![c] = Undrawn]
                 /\ OpenCodes[c] = [user |-> authorization_codes[c].user,
                                    app |-> authorization_codes[c].app,
                                    uri |-> authorization_codes[c].uri]
                 /\ OpenCodes[c] # Undrawn
      <3>1. authorization_codes[c] \in Code
        BY <1>2, <2>2 DEF IInv, TypeOK, HasCode
      <3>2. authorization_codes'[c].consumed
        BY <1>2, <2>2, <3>1 DEF Consume, IInv, TypeOK, Code
      <3>3. \A d \in Codes : OpenCodes'[d] = IF d = c THEN Undrawn ELSE OpenCodes[d]
        BY <1>2, <2>2, <3>2 DEF OpenCodes, HasCode, Consume, IInv, TypeOK
      <3>4. OpenCodes' = [OpenCodes EXCEPT ![c] = Undrawn]
        BY <3>3 DEF OpenCodes
      <3>5. [user |-> authorization_codes[c].user, app |-> authorization_codes[c].app,
             uri |-> authorization_codes[c].uri] \in Worth
        BY <3>1 DEF Code, Worth
      <3>6. QED
        BY <2>2, <3>4, <3>5, ConstantsAssumption DEF OpenCodes
    <2>3. CASE \E b \in Browsers, q \in Request, c \in Codes : AuthorizeSso(b, q, c)
      BY <1>2, <2>1, <2>3, SessionHasUser DEF IInv, AuthorizeSso
    <2>4. CASE \E b \in Browsers, q \in pages, u \in Users, s \in Sessions, c \in Codes :
                    SignInSubmit(b, q, u, s, c)
      BY <1>2, <2>1, <2>4 DEF SignInSubmit, IInv, TypeOK
    <2>5. CASE \E c \in Codes, a \in Apps, uri \in Uris, proof \in Proofs \cup {NoProof} :
                    Redeem(c, a, uri, proof)
      <3>1. PICK c \in Codes, a \in Apps, uri \in Uris, proof \in Proofs \cup {NoProof} :
                    Redeem(c, a, uri, proof)
        BY <2>5
      <3>2. OneTimeCodes!Redeem(c)
        BY <2>2, <3>1 DEF Redeem, Redeemable, OneTimeCodes!Redeem
      <3>3. QED
        BY <3>2 DEF OneTimeCodes!Next
    <2>6. CASE \E c \in Codes, a \in Apps, uri \in Uris, proof \in Proofs \cup {NoProof} :
                    RedeemInvalidScope(c, a, uri, proof)
      <3>1. PICK c \in Codes : OpenCodes' = [OpenCodes EXCEPT ![c] = Undrawn] /\ UNCHANGED granted
        BY <2>2, <2>6 DEF RedeemInvalidScope, Redeemable
      <3>2. OpenCodes' = [d \in Codes |-> IF d \in {c} THEN Undrawn ELSE OpenCodes[d]]
        BY <3>1 DEF OpenCodes
      <3>3. OneTimeCodes!Void({c})
        BY <3>1, <3>2 DEF OneTimeCodes!Void
      <3>4. QED
        BY <3>3 DEF OneTimeCodes!Next
    <2>7. CASE \E reseed \in BOOLEAN : Reset(reseed)
      <3>1. OpenCodes' = [d \in Codes |-> IF d \in Codes THEN Undrawn ELSE OpenCodes[d]]
        BY <2>7 DEF Reset, OpenCodes, HasCode
      <3>2. OneTimeCodes!Void(Codes)
        BY <2>7, <3>1 DEF Reset, OneTimeCodes!Void
      <3>3. QED
        BY <3>2 DEF OneTimeCodes!Next
    <2>8. CASE UNCHANGED <<authorization_codes, granted>>
      BY <2>8 DEF OpenCodes, HasCode
    <2>9. QED
      BY <1>2, <2>3, <2>4, <2>5, <2>6, <2>7, <2>8
         DEF Next, AuthorizePage, Logout, SetEnabled, DeleteUser, DeleteApp, RemoveRedirectUri,
             AddRedirectUri, Seed, Restart, Tick, vars
  <1>3. QED
    BY <1>1, <1>2, Init_IInv, Next_IInv, PTL
       DEF Spec, ImplementsAuthorizationCode, OneTimeCodes!Spec, OneTimeCodes!vars
=============================================================================
