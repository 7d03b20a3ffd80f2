------------------------ MODULE RefreshTokensProofs ------------------------
(***************************************************************************)
(* Proofs about RefreshTokens, for any number of tokens, users, apps,      *)
(* scopes and concurrent requests and any lifetime.                        *)
(*                                                                         *)
(* revokeFamily walks links, while the properties speak of chains.  What   *)
(* carries the proof is Connected: the rows of a chain cannot be separated *)
(* by a set the walk would leave closed.  It is kept by a rotation because *)
(* the only link a rotation adds hangs the new row on the presented one.   *)
(***************************************************************************)
EXTENDS RefreshTokens, TLAPS

\* Chains are named by their first token, and only drawn values have rows or histories.
Drawn ==
    /\ \A t \in Tokens : Exists(t) => root[t] # NoToken
    /\ \A t \in Tokens : root[t] # NoToken => root[root[t]] = root[t]
    /\ \A t \in replayed : t \in Tokens /\ root[t] # NoToken

\* A link joins two rows of one chain.
LinksStayInChain ==
    \A a, b \in Tokens : Link(a, b) => Exists(a) /\ root[a] = root[b]

\* No closed set separates two rows of one chain.
Connected ==
    \A C \in SUBSET Tokens : \A t, u \in Tokens :
        ChainClosed(C) /\ t \in C /\ Exists(t) /\ Exists(u) /\ root[t] = root[u] => u \in C

\* The part of the invariant that speaks of the table and its history alone.
ChainInv ==
    /\ Drawn
    /\ LinksStayInChain
    /\ Connected
    /\ OneLivePerChain
    /\ ReplayedChainIsDead
    /\ RotationNarrows

CreatedInThePast == \A t \in Tokens : Exists(t) => refresh_tokens[t].createdAt <= now

\* What clients hold, and what suspended requests are going to hand them, was drawn
\* for a grant that carries offline_access.
Circulating == held \cup {inflight[r].refreshToken : r \in {q \in Requests : inflight[q] # Idle}}

CirculationInv ==
    \A t \in Circulating \ {NoToken} :
        /\ root[t] # NoToken
        /\ Exists(t) => CarriesOfflineAccess(refresh_tokens[t].scopes)

IInv ==
    /\ TypeOK
    /\ ChainInv
    /\ CreatedInThePast
    /\ CirculationInv
    /\ RowsReferToDirectory

-----------------------------------------------------------------------------
(* Types *)

\* The row a grant or a rotation inserts is a row.
LEMMA NewRowType ==
    ASSUME TypeOK, NEW a \in Apps, NEW u \in Users, NEW S \in Grants,
           NEW p \in Tokens \cup {NoToken}
    PROVE  /\ NewRow(a, u, S, p) \in Row
           /\ NewRow(a, u, S, p) # NoRow
<1>1. NewRow(a, u, S, p) \in Row
  BY ConstantsAssumption DEF TypeOK, NewRow, Row
<1>. QED
  BY <1>1, ConstantsAssumption

\* A row that exists is a row of the table's type.
LEMMA RowType ==
    ASSUME TypeOK, NEW t \in Tokens, Exists(t)
    PROVE  refresh_tokens[t] \in Row
  BY DEF TypeOK, Exists

\* A suspended request is a request.
LEMMA RequestType ==
    ASSUME TypeOK, NEW r \in Requests, inflight[r] # Idle
    PROVE  inflight[r] \in Request
  BY DEF TypeOK

\* Revoking keeps a row a row and touches no other field.
LEMMA RevokedRow ==
    ASSUME NEW row \in Row
    PROVE  LET x == [row EXCEPT !.revoked = TRUE]
           IN  /\ x \in Row /\ x # NoRow
               /\ x.revoked
               /\ x.app = row.app /\ x.user = row.user /\ x.scopes = row.scopes
               /\ x.expiresAt = row.expiresAt /\ x.rotatedFrom = row.rotatedFrom
               /\ x.createdAt = row.createdAt
<1>1. [row EXCEPT !.revoked = TRUE] \in Row
  BY DEF Row
<1>2. [row EXCEPT !.revoked = TRUE] # NoRow
  BY <1>1, ConstantsAssumption
<1>. QED
  BY <1>1, <1>2 DEF Row

\* Every reachable state has the declared types, whatever the interleaving of
\* requests, admin operations and crashes.
LEMMA TypeOKStep == TypeOK /\ [Next]_vars => TypeOK'
<1> SUFFICES ASSUME TypeOK, [Next]_vars PROVE TypeOK'
    OBVIOUS
<1> USE ConstantsAssumption
<1>1. ASSUME NEW r \in Requests, NEW a \in Apps, NEW u \in Users, NEW S \in Grants,
             BeginGrant(r, a, u, S)
      PROVE  TypeOK'
  BY <1>1 DEF BeginGrant, TypeOK, Request
<1>2. ASSUME NEW r \in Requests, NEW t \in Tokens, NEW a \in Apps, NEW S \in Grants,
             NEW n \in Tokens, RedeemRotate(r, t, a, S, n)
      PROVE  TypeOK'
  <2>1. /\ refresh_tokens[t] \in Row
        /\ Granted(t, S) \in Grants
    BY <1>2, RowType DEF RedeemRotate, Redeemable, Live, Granted, Row
  <2>2. /\ refresh_tokens[t].app \in Apps
        /\ refresh_tokens[t].user \in Users
    BY <2>1 DEF Row
  <2>3. NewRow(refresh_tokens[t].app, refresh_tokens[t].user, Granted(t, S), t) \in Row
    BY <2>1, <2>2, NewRowType
  <2>4. [refresh_tokens[t] EXCEPT !.revoked = TRUE] \in Row
    BY <2>1, RevokedRow
  <2>5. refresh_tokens' \in [Tokens -> Row \cup {NoRow}]
    BY <1>2, <2>3, <2>4 DEF RedeemRotate, Rotate, TypeOK
  <2>6. inflight' \in [Requests -> Request \cup {Idle}]
    BY <1>2, <2>1, <2>2 DEF RedeemRotate, TypeOK, Request, SuccessorEmbedded
  <2>. QED
    BY <1>2, <2>5, <2>6 DEF RedeemRotate, TypeOK
<1>3. ASSUME NEW t \in Tokens, RedeemReplay(t)
      PROVE  TypeOK'
  <2>1. \A s \in Tokens : Exists(s) => [refresh_tokens[s] EXCEPT !.revoked = TRUE] \in Row
    BY RowType, RevokedRow
  <2>2. refresh_tokens' \in [Tokens -> Row \cup {NoRow}]
    BY <1>3, <2>1 DEF RedeemReplay, RevokeFamily, TypeOK
  <2>. QED
    BY <1>3, <2>2 DEF RedeemReplay, TypeOK
<1>4. ASSUME NEW r \in Requests, AnswerRotated(r)
      PROVE  TypeOK'
  BY <1>4, RequestType DEF AnswerRotated, Deliver, Answered, TypeOK, Request
<1>5. ASSUME NEW r \in Requests, NEW n \in Tokens, AnswerIssued(r, n)
      PROVE  TypeOK'
  <2>1. inflight[r] \in Request
    BY <1>5, RequestType DEF AnswerIssued, NeedsRoot
  <2>2. NewRow(inflight[r].app, inflight[r].user, inflight[r].scopes, NoToken) \in Row
    BY <2>1, NewRowType DEF Request
  <2>. QED
    BY <1>5, <2>2 DEF AnswerIssued, Deliver, Answered, TypeOK
<1>6. ASSUME NEW r \in Requests, AnswerFailed(r) \/ AnswerWithout(r)
      PROVE  TypeOK'
  BY <1>6 DEF AnswerFailed, AnswerWithout, Answered, TypeOK
<1>7. CASE (\E p \in Users \cup Apps : DeletePrincipal(p)) \/ Seed \/ Crash \/ Tick
  BY <1>7 DEF DeletePrincipal, Seed, Crash, Tick, TypeOK
<1>8. ASSUME NEW reseed \in BOOLEAN, Reset(reseed)
      PROVE  TypeOK'
  BY <1>8 DEF Reset, TypeOK
<1>9. CASE UNCHANGED vars
  BY <1>9 DEF vars, TypeOK
<1>. QED
  BY <1>1, <1>2, <1>3, <1>4, <1>5, <1>6, <1>7, <1>8, <1>9 DEF Next

\* Type correctness of the table, the suspended requests and the histories.
THEOREM TypeCorrect == Spec => []TypeOK
<1>1. Init => TypeOK
  BY ConstantsAssumption DEF Init, TypeOK
<1>. QED
  BY <1>1, TypeOKStep, PTL DEF Spec

-----------------------------------------------------------------------------
(* Chains *)

\* What a rotation does to rows, redeemability and links.
Rotated(t, n, S) ==
    /\ n # t /\ ~Exists(n) /\ root[n] = NoToken /\ Live(t) /\ root[t] \in Tokens
    /\ \A s \in Tokens : root'[s] = IF s = n THEN root[t] ELSE root[s]
    /\ \A s \in Tokens \ {n, t} : refresh_tokens'[s] = refresh_tokens[s]
    /\ refresh_tokens'[t] = [refresh_tokens[t] EXCEPT !.revoked = TRUE]
    /\ refresh_tokens'[n] = NewRow(refresh_tokens[t].app, refresh_tokens[t].user,
                                   Granted(t, S), t)
    /\ \A s \in Tokens : Exists(s)' <=> Exists(s) \/ s = n
    /\ \A s \in Tokens : Live(s)' <=> (Live(s) /\ s # t) \/ s = n
    /\ \A x, y \in Tokens : Link(x, y)' <=> Link(x, y) \/ (x = t /\ y = n)
    /\ Granted(t, S) \subseteq refresh_tokens[t].scopes

\* A rotation changes no more than Rotated says: one row revoked, one drawn and linked.
LEMMA RotateEffect ==
    ASSUME IInv, NEW r \in Requests, NEW t \in Tokens, NEW a \in Apps, NEW S \in Grants,
           NEW n \in Tokens, RedeemRotate(r, t, a, S, n)
    PROVE  Rotated(t, n, S)
<1>1. Live(t) /\ root[n] = NoToken
  BY DEF RedeemRotate, Redeemable, Fresh
<1>2. n # t /\ ~Exists(n) /\ root[t] \in Tokens
  BY <1>1 DEF IInv, ChainInv, Drawn, Live, TypeOK
<1>3. \A s \in Tokens : root'[s] = IF s = n THEN root[t] ELSE root[s]
  BY DEF RedeemRotate, IInv, TypeOK
<1>4. refresh_tokens[t] \in Row
  BY <1>1, RowType DEF IInv, Live
<1>5. /\ \A s \in Tokens \ {n, t} : refresh_tokens'[s] = refresh_tokens[s]
      /\ refresh_tokens'[t] = [refresh_tokens[t] EXCEPT !.revoked = TRUE]
      /\ refresh_tokens'[n] = NewRow(refresh_tokens[t].app, refresh_tokens[t].user,
                                     Granted(t, S), t)
  BY <1>2 DEF RedeemRotate, Rotate, IInv, TypeOK
<1>6. Granted(t, S) \subseteq refresh_tokens[t].scopes
  BY DEF RedeemRotate, Redeemable, Granted
<1>7. /\ refresh_tokens'[n] # NoRow
      /\ ~refresh_tokens'[n].revoked
      /\ refresh_tokens'[n].rotatedFrom = t
  <2>1. Granted(t, S) \in Grants /\ refresh_tokens[t].app \in Apps
                                 /\ refresh_tokens[t].user \in Users
    BY <1>4, <1>6 DEF Row, Grants
  <2>. QED
    BY <1>5, <2>1, NewRowType DEF IInv, NewRow
<1>8. /\ refresh_tokens'[t] # NoRow
      /\ refresh_tokens'[t].revoked
      /\ refresh_tokens'[t].rotatedFrom = refresh_tokens[t].rotatedFrom
  BY <1>4, <1>5, RevokedRow
<1>9. \A s \in Tokens : Exists(s)' <=> Exists(s) \/ s = n
  BY <1>1, <1>5, <1>7, <1>8 DEF Exists, Live
<1>10. \A s \in Tokens : Live(s)' <=> (Live(s) /\ s # t) \/ s = n
  BY <1>2, <1>5, <1>7, <1>8, <1>9 DEF Exists, Live
<1>11. \A x, y \in Tokens : Link(x, y)' <=> Link(x, y) \/ (x = t /\ y = n)
  BY <1>1, <1>2, <1>5, <1>7, <1>8, <1>9 DEF Exists, Live, Link
<1>. QED
  BY <1>1, <1>2, <1>3, <1>5, <1>6, <1>9, <1>10, <1>11 DEF Rotated

\* What the first token of a chain does to rows, redeemability and links.
Issued(r, n) ==
    /\ ~Exists(n) /\ root[n] = NoToken
    /\ \A s \in Tokens : root'[s] = IF s = n THEN n ELSE root[s]
    /\ \A s \in Tokens \ {n} : refresh_tokens'[s] = refresh_tokens[s]
    /\ refresh_tokens'[n] # NoRow
    /\ ~refresh_tokens'[n].revoked
    /\ refresh_tokens'[n].rotatedFrom = NoToken
    /\ refresh_tokens'[n].scopes = inflight[r].scopes
    /\ refresh_tokens'[n].app = inflight[r].app
    /\ refresh_tokens'[n].user = inflight[r].user
    /\ refresh_tokens'[n].createdAt = now
    /\ \A s \in Tokens : Exists(s)' <=> Exists(s) \/ s = n
    /\ \A s \in Tokens : Live(s)' <=> Live(s) \/ s = n
    /\ \A x, y \in Tokens : Link(x, y)' <=> Link(x, y)

\* The first token of a sign-in changes no more than Issued says: one row, a chain of its own.
LEMMA IssueEffect ==
    ASSUME IInv, NEW r \in Requests, NEW n \in Tokens, AnswerIssued(r, n)
    PROVE  Issued(r, n)
<1>1. root[n] = NoToken /\ ~Exists(n)
  BY ConstantsAssumption DEF AnswerIssued, Fresh, IInv, ChainInv, Drawn
<1>2. \A s \in Tokens : root'[s] = IF s = n THEN n ELSE root[s]
  BY DEF AnswerIssued, IInv, TypeOK
<1>3. inflight[r] \in Request
  BY RequestType DEF AnswerIssued, NeedsRoot, IInv
<1>4. refresh_tokens'[n] = NewRow(inflight[r].app, inflight[r].user, inflight[r].scopes, NoToken)
  BY DEF AnswerIssued, IInv, TypeOK
<1>5. \A s \in Tokens \ {n} : refresh_tokens'[s] = refresh_tokens[s]
  BY DEF AnswerIssued, IInv, TypeOK
<1>6. /\ refresh_tokens'[n] # NoRow
      /\ ~refresh_tokens'[n].revoked
      /\ refresh_tokens'[n].rotatedFrom = NoToken
      /\ refresh_tokens'[n].scopes = inflight[r].scopes
      /\ refresh_tokens'[n].app = inflight[r].app
      /\ refresh_tokens'[n].user = inflight[r].user
      /\ refresh_tokens'[n].createdAt = now
  BY <1>3, <1>4, NewRowType DEF NewRow, Request, IInv
<1>7. \A s \in Tokens : Exists(s)' <=> Exists(s) \/ s = n
  BY <1>5, <1>6 DEF Exists
<1>8. \A s \in Tokens : Live(s)' <=> Live(s) \/ s = n
  BY <1>1, <1>5, <1>6, <1>7 DEF Exists, Live
<1>9. \A x, y \in Tokens : Link(x, y)' <=> Link(x, y)
  BY <1>1, <1>5, <1>6, <1>7, ConstantsAssumption DEF Exists, Link
<1>. QED
  BY <1>1, <1>2, <1>5, <1>6, <1>7, <1>8, <1>9 DEF Issued

\* revokeFamily finds the chain of the token it starts from: nothing less, because no
\* closed set separates rows of a chain, and nothing more, because the chain is closed.
LEMMA FamilyFindsChain ==
    ASSUME IInv, NEW t \in Tokens, Exists(t)
    PROVE  Family(t) = {s \in Tokens : Exists(s) /\ root[s] = root[t]}
<1> DEFINE C == {s \in Tokens : Exists(s) /\ root[s] = root[t]}
<1>1. ASSUME NEW s \in C, NEW D \in SUBSET Tokens, t \in D, ChainClosed(D)
      PROVE  s \in D
  BY <1>1 DEF IInv, ChainInv, Connected
<1>2. ChainClosed(C)
  BY DEF IInv, ChainInv, LinksStayInChain, ChainClosed, Link
<1>3. t \in C /\ C \in SUBSET Tokens
  OBVIOUS
<1>4. C \subseteq Family(t)
  BY <1>1 DEF Family
<1>5. Family(t) \subseteq C
  BY <1>2, <1>3 DEF Family
<1>. QED
  BY <1>4, <1>5

\* What a replay does: the rows of the chain lose their redeemability, no other row
\* changes, and no link does.
Replayed(t) ==
    /\ Exists(t)
    /\ root' = root
    /\ replayed' = replayed \cup {root[t]}
    /\ \A s \in Tokens : refresh_tokens'[s] =
          IF Exists(s) /\ root[s] = root[t]
          THEN [refresh_tokens[s] EXCEPT !.revoked = TRUE]
          ELSE refresh_tokens[s]
    /\ \A s \in Tokens : Exists(s)' <=> Exists(s)
    /\ \A s \in Tokens : Live(s)' <=> Live(s) /\ root[s] # root[t]
    /\ \A x, y \in Tokens : Link(x, y)' <=> Link(x, y)

\* A replay changes no more than Replayed says: revokeFamily, which walks links, revokes
\* exactly the rows of the presented token's chain.
LEMMA ReplayEffect ==
    ASSUME IInv, NEW t \in Tokens, RedeemReplay(t)
    PROVE  Replayed(t)
<1>1. Exists(t) /\ root' = root /\ replayed' = replayed \cup {root[t]}
  BY DEF RedeemReplay
<1>2. \A s \in Tokens : refresh_tokens'[s] =
          IF Exists(s) /\ root[s] = root[t]
          THEN [refresh_tokens[s] EXCEPT !.revoked = TRUE]
          ELSE refresh_tokens[s]
  BY <1>1, FamilyFindsChain DEF RedeemReplay, RevokeFamily
<1>3. ASSUME NEW s \in Tokens, Exists(s), root[s] = root[t]
      PROVE  /\ refresh_tokens'[s] # NoRow
             /\ refresh_tokens'[s].revoked
             /\ refresh_tokens'[s].rotatedFrom = refresh_tokens[s].rotatedFrom
  <2>1. refresh_tokens[s] \in Row
    BY <1>3, RowType DEF IInv
  <2>2. refresh_tokens'[s] = [refresh_tokens[s] EXCEPT !.revoked = TRUE]
    BY <1>2, <1>3
  <2>. QED
    BY <2>1, <2>2, RevokedRow
<1>4. \A s \in Tokens : Exists(s)' <=> Exists(s)
  BY <1>2, <1>3 DEF Exists
<1>5. \A s \in Tokens : Live(s)' <=> Live(s) /\ root[s] # root[t]
  BY <1>2, <1>3, <1>4 DEF Exists, Live
<1>6. \A x, y \in Tokens : Link(x, y)' <=> Link(x, y)
  BY <1>2, <1>3, <1>4 DEF Exists, Link
<1>. QED
  BY <1>1, <1>2, <1>4, <1>5, <1>6 DEF Replayed

\* A rotation keeps the chain invariant.
LEMMA RotateKeepsChains ==
    ASSUME IInv, NEW r \in Requests, NEW t \in Tokens, NEW a \in Apps, NEW S \in Grants,
           NEW n \in Tokens, RedeemRotate(r, t, a, S, n)
    PROVE  ChainInv'
<1>0. Rotated(t, n, S)
  BY RotateEffect
<1>1. replayed' = replayed
  BY DEF RedeemRotate
<1>2. Drawn'
  <2>1. \A s \in Tokens : root[s] # NoToken => root[s] \in Tokens \ {n}
    BY <1>0 DEF IInv, ChainInv, Drawn, TypeOK, Rotated
  <2>2. root[t] # NoToken
    BY <1>0, ConstantsAssumption DEF Rotated
  <2>3. \A s \in Tokens : root'[s] # NoToken => root'[root'[s]] = root'[s]
    BY <1>0, <2>1, <2>2 DEF IInv, ChainInv, Drawn, Rotated
  <2>. QED
    BY <1>1, <1>0, <2>2, <2>3 DEF Drawn, IInv, ChainInv, Rotated
<1>3. LinksStayInChain'
  <2>1. \A x, y \in Tokens : Link(x, y) => Exists(x) /\ Exists(y) /\ root[x] = root[y]
    BY DEF IInv, ChainInv, LinksStayInChain, Link
  <2>2. Exists(t)
    BY <1>0 DEF Live, Rotated
  <2>. QED
    BY <2>1, <2>2, <1>0 DEF LinksStayInChain, Rotated
<1>4. Connected'
  <2> SUFFICES ASSUME NEW C \in SUBSET Tokens, NEW x \in Tokens, NEW y \in Tokens,
                      ChainClosed(C)', x \in C, Exists(x)', Exists(y)', root'[x] = root'[y]
               PROVE  y \in C
    BY DEF Connected
  <2>1. ChainClosed(C)
    BY <1>0 DEF ChainClosed, Rotated
  <2>2. n \in C <=> t \in C
    BY <1>0 DEF ChainClosed, Rotated
  <2>3. Exists(t)
    BY <1>0 DEF Live, Rotated
  <2>. QED
    BY <2>1, <2>2, <2>3, <1>0 DEF IInv, ChainInv, Connected, Rotated
<1>5. OneLivePerChain'
  BY <1>0 DEF OneLivePerChain, IInv, ChainInv, Rotated
<1>6. ReplayedChainIsDead'
  BY <1>1, <1>0 DEF ReplayedChainIsDead, IInv, ChainInv, Rotated
<1>7. RotationNarrows'
  <2> DEFINE Same(s) == /\ refresh_tokens'[s].app = refresh_tokens[s].app
                        /\ refresh_tokens'[s].user = refresh_tokens[s].user
                        /\ refresh_tokens'[s].scopes = refresh_tokens[s].scopes
                        /\ refresh_tokens'[s].rotatedFrom = refresh_tokens[s].rotatedFrom
                        /\ refresh_tokens'[s].expiresAt = refresh_tokens[s].expiresAt
                        /\ refresh_tokens'[s].createdAt = refresh_tokens[s].createdAt
                        /\ refresh_tokens[s].revoked => refresh_tokens'[s].revoked
  <2>1. refresh_tokens[t] \in Row
    BY <1>0, RowType DEF IInv, Live, Rotated
  <2>2. Same(t) /\ refresh_tokens'[t].revoked
    BY <2>1, <1>0, RevokedRow DEF Rotated
  <2>3. \A s \in Tokens \ {n} : Same(s)
    BY <2>2, <1>0 DEF Rotated
  <2>4. /\ refresh_tokens'[n].app = refresh_tokens[t].app
        /\ refresh_tokens'[n].user = refresh_tokens[t].user
        /\ refresh_tokens'[n].scopes \subseteq refresh_tokens[t].scopes
        /\ refresh_tokens'[n].rotatedFrom = t
        /\ refresh_tokens'[n].createdAt = now
    BY <1>0 DEF NewRow, Rotated
  <2>5. /\ refresh_tokens[t].createdAt <= now
        /\ now < refresh_tokens[t].expiresAt
    BY <1>0 DEF IInv, CreatedInThePast, Live, RedeemRotate, Redeemable, Rotated
  <2>6. ASSUME NEW s \in Tokens, Exists(s)', s # n, refresh_tokens'[s].rotatedFrom # NoToken
        PROVE  /\ Exists(refresh_tokens[s].rotatedFrom)
               /\ refresh_tokens[s].rotatedFrom \in Tokens \ {n}
               /\ Exists(refresh_tokens[s].rotatedFrom)'
               /\ refresh_tokens'[s].rotatedFrom = refresh_tokens[s].rotatedFrom
    <3>1. Exists(s) /\ refresh_tokens[s].rotatedFrom # NoToken
      BY <2>3, <2>6, <1>0 DEF Rotated
    <3>2. refresh_tokens[s].rotatedFrom \in Tokens
      BY <3>1, RowType DEF IInv, Row
    <3>. QED
      BY <2>3, <2>6, <3>1, <3>2, <1>0 DEF IInv, ChainInv, RotationNarrows, NarrowsFrom, Rotated
  <2>7. ASSUME NEW s \in Tokens, Exists(s)', s # n, refresh_tokens'[s].rotatedFrom # NoToken
        PROVE  NarrowsFrom(s, refresh_tokens[s].rotatedFrom)'
    <3> DEFINE p == refresh_tokens[s].rotatedFrom
    <3>1. Exists(s) /\ p \in Tokens \ {n} /\ p # NoToken
      BY <2>3, <2>6, <2>7, <1>0 DEF Rotated
    <3>2. NarrowsFrom(s, p)
      BY <3>1 DEF IInv, ChainInv, RotationNarrows
    <3>3. Same(s) /\ Same(p) /\ Exists(p)'
      BY <2>3, <2>6, <2>7, <3>1
    <3>. QED
      BY <3>2, <3>3 DEF NarrowsFrom
  <2>8. NarrowsFrom(n, t)'
    <3>1. Exists(t)'
      BY <1>0 DEF Live, Rotated
    <3>. QED
      BY <2>2, <2>4, <2>5, <3>1 DEF NarrowsFrom
  <2>. QED
    BY <2>4, <2>6, <2>7, <2>8 DEF RotationNarrows
<1>. QED
  BY <1>2, <1>3, <1>4, <1>5, <1>6, <1>7 DEF ChainInv

\* The first token of a new chain keeps the chain invariant.
LEMMA IssueKeepsChains ==
    ASSUME IInv, NEW r \in Requests, NEW n \in Tokens, AnswerIssued(r, n)
    PROVE  ChainInv'
<1>0. Issued(r, n) /\ replayed' = replayed
  BY IssueEffect DEF AnswerIssued
<1>1. Drawn'
  <2>1. \A s \in Tokens : root[s] # NoToken => root[s] \in Tokens \ {n}
    BY <1>0 DEF IInv, ChainInv, Drawn, TypeOK, Issued
  <2>2. \A s \in Tokens : root'[s] # NoToken => root'[root'[s]] = root'[s]
    BY <1>0, <2>1 DEF IInv, ChainInv, Drawn, Issued
  <2>. QED
    BY <1>0, <2>2, ConstantsAssumption DEF Drawn, IInv, ChainInv, Issued
<1>2. \A s \in Tokens \ {n} : Exists(s) => root[s] # n
  BY <1>0, ConstantsAssumption DEF IInv, ChainInv, Drawn, Issued
<1>3. \A x, y \in Tokens : Link(x, y) => Exists(x) /\ Exists(y) /\ root[x] = root[y]
  BY DEF IInv, ChainInv, LinksStayInChain, Link
<1>4. LinksStayInChain'
  BY <1>0, <1>3 DEF LinksStayInChain, Issued
<1>5. Connected'
  <2> SUFFICES ASSUME NEW C \in SUBSET Tokens, NEW x \in Tokens, NEW y \in Tokens,
                      ChainClosed(C)', x \in C, Exists(x)', Exists(y)', root'[x] = root'[y]
               PROVE  y \in C
    BY DEF Connected
  <2>1. ChainClosed(C)
    BY <1>0 DEF ChainClosed, Issued
  <2>. QED
    BY <2>1, <1>0, <1>2 DEF IInv, ChainInv, Connected, Issued
<1>6. OneLivePerChain'
  BY <1>0, <1>2 DEF OneLivePerChain, IInv, ChainInv, Issued, Live
<1>7. ReplayedChainIsDead'
  <2>1. n \notin replayed
    BY <1>0, ConstantsAssumption DEF IInv, ChainInv, Drawn, Issued
  <2>2. \A s \in Tokens \ {n} : Live(s)' => Live(s) /\ root'[s] = root[s]
    BY <1>0 DEF Issued
  <2>. QED
    BY <1>0, <2>1, <2>2 DEF ReplayedChainIsDead, IInv, ChainInv, Issued
<1>8. RotationNarrows'
  <2> SUFFICES ASSUME NEW s \in Tokens, Exists(s)', refresh_tokens'[s].rotatedFrom # NoToken
               PROVE  NarrowsFrom(s, refresh_tokens[s].rotatedFrom)'
    BY DEF RotationNarrows
  <2>1. s # n /\ refresh_tokens'[s] = refresh_tokens[s] /\ Exists(s)
    BY <1>0 DEF Issued
  <2>2. NarrowsFrom(s, refresh_tokens[s].rotatedFrom)
    BY <2>1 DEF IInv, ChainInv, RotationNarrows
  <2>3. refresh_tokens[s].rotatedFrom \in Tokens \ {n}
    <3>1. refresh_tokens[s].rotatedFrom \in Tokens
      BY <2>1, RowType DEF IInv, Row
    <3>. QED
      BY <2>2, <3>1, <1>0 DEF NarrowsFrom, Issued
  <2>. QED
    BY <2>1, <2>2, <2>3, <1>0 DEF NarrowsFrom, Issued
<1>. QED
  BY <1>1, <1>4, <1>5, <1>6, <1>7, <1>8 DEF ChainInv

\* A replay keeps the chain invariant.
LEMMA ReplayKeepsChains ==
    ASSUME IInv, NEW t \in Tokens, RedeemReplay(t)
    PROVE  ChainInv'
<1>0. Replayed(t)
  BY ReplayEffect
<1>1. Drawn'
  BY <1>0 DEF Drawn, IInv, ChainInv, TypeOK, Replayed
<1>2. LinksStayInChain'
  <2>1. \A x, y \in Tokens : Link(x, y)' => Exists(x) /\ root[x] = root[y]
    BY <1>0 DEF LinksStayInChain, IInv, ChainInv, Replayed
  <2>2. root' = root /\ \A x \in Tokens : Exists(x)' <=> Exists(x)
    BY <1>0 DEF Replayed
  <2>. QED
    BY <2>1, <2>2 DEF LinksStayInChain
<1>3. Connected'
  <2>1. ASSUME NEW C \in SUBSET Tokens, ChainClosed(C)'
        PROVE  ChainClosed(C)
    BY <2>1, <1>0 DEF ChainClosed, Replayed
  <2>. QED
    BY <2>1, <1>0 DEF Connected, IInv, ChainInv, Replayed
<1>4. OneLivePerChain'
  BY <1>0 DEF OneLivePerChain, IInv, ChainInv, Replayed
<1>5. ReplayedChainIsDead'
  BY <1>0 DEF ReplayedChainIsDead, IInv, ChainInv, Replayed
<1>6. RotationNarrows'
  <2> DEFINE Same(s) == /\ refresh_tokens'[s].app = refresh_tokens[s].app
                        /\ refresh_tokens'[s].user = refresh_tokens[s].user
                        /\ refresh_tokens'[s].scopes = refresh_tokens[s].scopes
                        /\ refresh_tokens'[s].rotatedFrom = refresh_tokens[s].rotatedFrom
                        /\ refresh_tokens'[s].expiresAt = refresh_tokens[s].expiresAt
                        /\ refresh_tokens'[s].createdAt = refresh_tokens[s].createdAt
                        /\ refresh_tokens[s].revoked => refresh_tokens'[s].revoked
  <2>1. ASSUME NEW s \in Tokens, Exists(s) PROVE Same(s)
    <3>1. refresh_tokens[s] \in Row
      BY <2>1, RowType DEF IInv
    <3>. QED
      BY <2>1, <3>1, <1>0, RevokedRow DEF Replayed
  <2>2. ASSUME NEW s \in Tokens, Exists(s)', refresh_tokens'[s].rotatedFrom # NoToken
        PROVE  NarrowsFrom(s, refresh_tokens[s].rotatedFrom)'
    <3> DEFINE p == refresh_tokens[s].rotatedFrom
    <3>1. Exists(s) /\ Same(s) /\ p # NoToken
      BY <2>1, <2>2, <1>0 DEF Replayed
    <3>2. NarrowsFrom(s, p)
      BY <3>1 DEF IInv, ChainInv, RotationNarrows
    <3>3. p \in Tokens
      BY <3>1, RowType DEF IInv, Row
    <3>4. Exists(p)
      BY <3>2 DEF NarrowsFrom
    <3>5. Same(p) /\ Exists(p)'
      BY <2>1, <3>3, <3>4, <1>0 DEF Replayed
    <3>. QED
      BY <3>1, <3>2, <3>3, <3>5 DEF NarrowsFrom
  <2>. QED
    BY <2>2 DEF RotationNarrows
<1>. QED
  BY <1>1, <1>2, <1>3, <1>4, <1>5, <1>6 DEF ChainInv

\* A reset keeps the chain invariant: no row is left.
LEMMA ResetKeepsChains ==
    ASSUME IInv, NEW reseed \in BOOLEAN, Reset(reseed)
    PROVE  ChainInv'
<1>1. \A t \in Tokens : ~Exists(t)'
  BY DEF Reset, Exists
<1>2. root' = root /\ replayed' = replayed
  BY DEF Reset
<1>3. Drawn'
  BY <1>1, <1>2 DEF Drawn, IInv, ChainInv
<1>4. LinksStayInChain' /\ Connected' /\ OneLivePerChain' /\ ReplayedChainIsDead' /\ RotationNarrows'
  BY <1>1 DEF LinksStayInChain, Link, Connected, OneLivePerChain, ReplayedChainIsDead,
              RotationNarrows, Live
<1>. QED
  BY <1>3, <1>4 DEF ChainInv

\* Every other step leaves the table and its history alone.
LEMMA OthersKeepChains ==
    ASSUME IInv, UNCHANGED <<refresh_tokens, root, replayed>>
    PROVE  ChainInv'
<1>1. \A t \in Tokens : (Exists(t)' <=> Exists(t)) /\ (Live(t)' <=> Live(t))
  BY DEF Exists, Live
<1>2. \A a, b \in Tokens : Link(a, b)' <=> Link(a, b)
  BY DEF Link, Exists
<1>3. \A C \in SUBSET Tokens : ChainClosed(C)' <=> ChainClosed(C)
  BY <1>2 DEF ChainClosed
<1>4. Drawn'
  BY <1>1 DEF IInv, ChainInv, Drawn
<1>5. LinksStayInChain' /\ OneLivePerChain' /\ ReplayedChainIsDead'
  BY <1>1, <1>2 DEF IInv, ChainInv, LinksStayInChain, OneLivePerChain, ReplayedChainIsDead
<1>6. Connected'
  BY <1>1, <1>3 DEF IInv, ChainInv, Connected
<1>7. RotationNarrows'
  BY DEF IInv, ChainInv, RotationNarrows, NarrowsFrom, Exists
<1>. QED
  BY <1>4, <1>5, <1>6, <1>7 DEF ChainInv

-----------------------------------------------------------------------------
(* What clients get to hold, the clock and the foreign keys *)

\* A token in circulation stays drawn and keeps its scopes.
LEMMA OthersKeepCirculation ==
    ASSUME IInv, UNCHANGED <<refresh_tokens, root>>,
           Circulating' \subseteq Circulating \cup {NoToken}
    PROVE  CirculationInv'
  BY DEF IInv, CirculationInv, Exists, CarriesOfflineAccess

\* A suspended request that ends, however it ends, puts nothing into circulation
\* beyond what is delivered.
LEMMA AnsweredCirculates ==
    ASSUME TypeOK, NEW r \in Requests, Answered(r), NEW D, held' \subseteq held \cup D
    PROVE  Circulating' \subseteq Circulating \cup D
<1>1. \A q \in Requests : inflight'[q] # Idle => q # r /\ inflight'[q] = inflight[q]
  BY DEF Answered, TypeOK
<1>. QED
  BY <1>1 DEF Circulating

\* The successor of a rotation circulates only if its grant carries offline_access.
LEMMA RotateKeepsCirculation ==
    ASSUME IInv, NEW r \in Requests, NEW t \in Tokens, NEW a \in Apps, NEW S \in Grants,
           NEW n \in Tokens, RedeemRotate(r, t, a, S, n)
    PROVE  CirculationInv'
<1>1. Rotated(t, n, S) /\ held' = held
  BY RotateEffect DEF RedeemRotate
<1>2. \A q \in Requests : inflight'[q] # Idle =>
         \/ inflight[q] # Idle /\ inflight'[q] = inflight[q]
         \/ inflight'[q].refreshToken = SuccessorEmbedded(n, Granted(t, S))
  BY DEF RedeemRotate, IInv, TypeOK
<1>3. Circulating' \subseteq Circulating \cup {SuccessorEmbedded(n, Granted(t, S))}
  BY <1>1, <1>2 DEF Circulating
<1>4. n \notin Circulating \ {NoToken}
  BY <1>1 DEF IInv, CirculationInv, Rotated
<1>5. refresh_tokens'[n].scopes = Granted(t, S)
  BY <1>1 DEF Rotated, NewRow
<1>6. ASSUME NEW s \in Circulating' \ {NoToken}, s = n
      PROVE  /\ root'[s] # NoToken
             /\ CarriesOfflineAccess(refresh_tokens'[s].scopes)
  BY <1>1, <1>3, <1>4, <1>5, <1>6, ConstantsAssumption DEF SuccessorEmbedded, Rotated
<1>7. ASSUME NEW s \in Circulating' \ {NoToken}, s # n
      PROVE  /\ root'[s] # NoToken
             /\ Exists(s)' => CarriesOfflineAccess(refresh_tokens'[s].scopes)
  <2>1. s \in Circulating \ {NoToken}
    BY <1>3, <1>7 DEF SuccessorEmbedded
  <2>2. s \in Tokens
    BY <2>1, RequestType DEF Circulating, IInv, TypeOK, Request
  <2>3. Exists(s)' => Exists(s) /\ refresh_tokens'[s].scopes = refresh_tokens[s].scopes
    <3>1. refresh_tokens[t] \in Row
      BY <1>1, RowType DEF IInv, Live, Rotated
    <3>2. refresh_tokens'[t].scopes = refresh_tokens[t].scopes
      BY <1>1, <3>1, RevokedRow DEF Rotated
    <3>. QED
      BY <1>1, <1>7, <2>2, <3>2 DEF Rotated
  <2>. QED
    BY <1>1, <1>7, <2>1, <2>2, <2>3 DEF IInv, CirculationInv, Rotated, CarriesOfflineAccess
<1>. QED
  BY <1>6, <1>7 DEF CirculationInv, CarriesOfflineAccess

\* So does the first token of a chain.
LEMMA IssueKeepsCirculation ==
    ASSUME IInv, NEW r \in Requests, NEW n \in Tokens, AnswerIssued(r, n)
    PROVE  CirculationInv'
<1>1. Issued(r, n)
  BY IssueEffect
<1>2. Circulating' \subseteq Circulating \cup {n}
  BY AnsweredCirculates DEF AnswerIssued, Deliver, IInv
<1>3. CarriesOfflineAccess(refresh_tokens'[n].scopes) /\ root'[n] # NoToken
  BY <1>1, ConstantsAssumption DEF AnswerIssued, NeedsRoot, Issued, CarriesOfflineAccess
<1>4. ASSUME NEW s \in Circulating' \ {NoToken}, s # n
      PROVE  /\ root'[s] # NoToken
             /\ Exists(s)' => CarriesOfflineAccess(refresh_tokens'[s].scopes)
  <2>1. s \in Circulating \ {NoToken}
    BY <1>2, <1>4
  <2>2. s \in Tokens
    BY <2>1, RequestType DEF Circulating, IInv, TypeOK, Request
  <2>. QED
    BY <1>1, <1>4, <2>1, <2>2 DEF IInv, CirculationInv, Issued, CarriesOfflineAccess
<1>. QED
  BY <1>3, <1>4 DEF CirculationInv, CarriesOfflineAccess

\* The clock and the foreign keys: every row was created in the past and refers to a
\* user and an app that exist.
LEMMA RowsStep == IInv /\ [Next]_vars => CreatedInThePast' /\ RowsReferToDirectory'
<1> SUFFICES ASSUME IInv, [Next]_vars PROVE CreatedInThePast' /\ RowsReferToDirectory'
    OBVIOUS
<1> DEFINE Sound(t) ==
        /\ refresh_tokens[t].createdAt <= now
        /\ {refresh_tokens[t].app, refresh_tokens[t].user} \subseteq directory
<1>0. \A t \in Tokens : Exists(t) => refresh_tokens[t] \in Row /\ Sound(t)
  BY RowType DEF IInv, CreatedInThePast, RowsReferToDirectory
<1>1. SUFFICES \A t \in Tokens : Exists(t)' => Sound(t)'
  BY DEF CreatedInThePast, RowsReferToDirectory
<1>2. ASSUME NEW r \in Requests, NEW t \in Tokens, NEW a \in Apps, NEW S \in Grants,
             NEW n \in Tokens, RedeemRotate(r, t, a, S, n)
      PROVE  \A s \in Tokens : Exists(s)' => Sound(s)'
  <2>1. Rotated(t, n, S) /\ now' = now /\ directory' = directory
    BY <1>2, RotateEffect DEF RedeemRotate
  <2>2. Exists(t) /\ now <= now
    BY <2>1 DEF Rotated, Live, IInv, TypeOK
  <2>3. Sound(n)'
    BY <1>0, <2>1, <2>2 DEF Rotated, NewRow
  <2>4. Sound(t)'
    BY <1>0, <2>1, <2>2, RevokedRow DEF Rotated
  <2>5. \A s \in Tokens \ {n, t} : Exists(s)' => Sound(s)'
    BY <1>0, <2>1 DEF Rotated
  <2>. QED
    BY <2>3, <2>4, <2>5
<1>3. ASSUME NEW t \in Tokens, RedeemReplay(t)
      PROVE  \A s \in Tokens : Exists(s)' => Sound(s)'
  <2>1. Replayed(t) /\ now' = now /\ directory' = directory
    BY <1>3, ReplayEffect DEF RedeemReplay
  <2>2. ASSUME NEW s \in Tokens, Exists(s) PROVE Sound(s)'
    <3>1. refresh_tokens[s] \in Row /\ Sound(s)
      BY <1>0, <2>2
    <3>2. /\ refresh_tokens'[s].app = refresh_tokens[s].app
          /\ refresh_tokens'[s].user = refresh_tokens[s].user
          /\ refresh_tokens'[s].createdAt = refresh_tokens[s].createdAt
      BY <2>1, <3>1, RevokedRow DEF Replayed
    <3>. QED
      BY <2>1, <3>1, <3>2
  <2>. QED
    BY <2>1, <2>2 DEF Replayed
<1>4. ASSUME NEW r \in Requests, NEW n \in Tokens, AnswerIssued(r, n)
      PROVE  \A s \in Tokens : Exists(s)' => Sound(s)'
  <2>1. Issued(r, n) /\ now' = now /\ directory' = directory
    BY <1>4, IssueEffect DEF AnswerIssued
  <2>2. now <= now
    BY DEF IInv, TypeOK
  <2>. QED
    BY <1>0, <1>4, <2>1, <2>2 DEF Issued, AnswerIssued
<1>5. ASSUME UNCHANGED <<refresh_tokens, now>>,
             \/ UNCHANGED directory
             \/ directory' = Users \cup Apps
             \/ \E p \in Users \cup Apps : DeletePrincipal(p)
      PROVE  \A s \in Tokens : Exists(s)' => Sound(s)'
  <2>1. \A s \in Tokens : Exists(s)' => Exists(s)
    BY <1>5 DEF Exists
  <2>2. CASE UNCHANGED directory
    BY <1>0, <1>5, <2>1, <2>2
  <2>3. CASE directory' = Users \cup Apps
    BY <1>0, <1>5, <2>1, <2>3 DEF Row
  <2>4. CASE \E p \in Users \cup Apps : DeletePrincipal(p)
    BY <1>0, <1>5, <2>1, <2>4 DEF DeletePrincipal
  <2>. QED
    BY <1>5, <2>2, <2>3, <2>4
<1>6. CASE Tick
  BY <1>0, <1>6 DEF Tick, Exists, Row, IInv, TypeOK
<1>7. ASSUME NEW reseed \in BOOLEAN, Reset(reseed)
      PROVE  \A s \in Tokens : Exists(s)' => Sound(s)'
  BY <1>7 DEF Reset, Exists
<1>8. CASE \/ \E r \in Requests, a \in Apps, u \in Users, S \in Grants : BeginGrant(r, a, u, S)
           \/ \E r \in Requests : AnswerRotated(r) \/ AnswerFailed(r) \/ AnswerWithout(r)
           \/ Crash
           \/ UNCHANGED vars
  BY <1>5, <1>8 DEF BeginGrant, AnswerRotated, AnswerFailed, AnswerWithout, Crash, vars
<1>9. CASE Seed \/ \E p \in Users \cup Apps : DeletePrincipal(p)
  BY <1>5, <1>9 DEF Seed, DeletePrincipal
<1>. QED
  BY <1>2, <1>3, <1>4, <1>6, <1>7, <1>8, <1>9 DEF Next

-----------------------------------------------------------------------------
(* The inductive invariant *)

\* The inductive invariant holds of the empty tables a server starts with.
LEMMA IInvInit == Init => IInv
<1> SUFFICES ASSUME Init PROVE IInv
    OBVIOUS
<1> USE ConstantsAssumption
<1>1. TypeOK
  BY DEF Init, TypeOK
<1>2. \A t \in Tokens : ~Exists(t)
  BY DEF Init, Exists
<1>3. ChainInv
  BY <1>2 DEF Init, ChainInv, Drawn, LinksStayInChain, Link, Connected, OneLivePerChain,
              ReplayedChainIsDead, RotationNarrows, Live
<1>4. CreatedInThePast /\ CirculationInv /\ RowsReferToDirectory
  BY <1>2 DEF Init, CreatedInThePast, CirculationInv, Circulating, RowsReferToDirectory
<1>. QED
  BY <1>1, <1>3, <1>4 DEF IInv

\* Every step of a handler, of the clock and of the admin API keeps it.
LEMMA IInvStep == IInv /\ [Next]_vars => IInv'
<1> SUFFICES ASSUME IInv, [Next]_vars PROVE ChainInv' /\ CirculationInv'
    BY TypeOKStep, RowsStep DEF IInv
<1>1. ASSUME NEW r \in Requests, NEW a \in Apps, NEW u \in Users, NEW S \in Grants,
             BeginGrant(r, a, u, S)
      PROVE  ChainInv' /\ CirculationInv'
  <2>1. UNCHANGED <<refresh_tokens, root, replayed>> /\ held' = held
    BY <1>1 DEF BeginGrant
  <2>2. \A q \in Requests : inflight'[q] # Idle =>
            \/ inflight[q] # Idle /\ inflight'[q] = inflight[q]
            \/ inflight'[q].refreshToken = NoToken
    BY <1>1 DEF BeginGrant, IInv, TypeOK
  <2>3. Circulating' \subseteq Circulating \cup {NoToken}
    BY <2>1, <2>2 DEF Circulating
  <2>. QED
    BY <2>1, <2>3, OthersKeepChains, OthersKeepCirculation
<1>2. ASSUME NEW r \in Requests, NEW t \in Tokens, NEW a \in Apps, NEW S \in Grants,
             NEW n \in Tokens, RedeemRotate(r, t, a, S, n)
      PROVE  ChainInv' /\ CirculationInv'
  BY <1>2, RotateKeepsChains, RotateKeepsCirculation
<1>3. ASSUME NEW t \in Tokens, RedeemReplay(t)
      PROVE  ChainInv' /\ CirculationInv'
  <2>1. Replayed(t) /\ held' = held /\ inflight' = inflight
    BY <1>3, ReplayEffect DEF RedeemReplay
  <2>2. Circulating' = Circulating
    BY <2>1 DEF Circulating
  <2>3. ASSUME NEW s \in Circulating \ {NoToken}, Exists(s)'
        PROVE  Exists(s) /\ refresh_tokens'[s].scopes = refresh_tokens[s].scopes
    <3>1. s \in Tokens
      BY RequestType DEF Circulating, IInv, TypeOK, Request
    <3>2. Exists(s) /\ refresh_tokens[s] \in Row
      BY <2>1, <2>3, <3>1, RowType DEF Replayed, IInv
    <3>. QED
      BY <2>1, <3>1, <3>2, RevokedRow DEF Replayed
  <2>4. CirculationInv'
    BY <2>1, <2>2, <2>3 DEF CirculationInv, IInv, Replayed, CarriesOfflineAccess
  <2>. QED
    BY <1>3, <2>4, ReplayKeepsChains
<1>4. ASSUME NEW r \in Requests, AnswerRotated(r)
      PROVE  ChainInv' /\ CirculationInv'
  <2>1. UNCHANGED <<refresh_tokens, root, replayed>>
    BY <1>4 DEF AnswerRotated
  <2>2. inflight[r].refreshToken \in Circulating
    BY <1>4 DEF AnswerRotated, Circulating
  <2>3. Circulating' \subseteq Circulating \cup {inflight[r].refreshToken}
    BY <1>4, AnsweredCirculates DEF AnswerRotated, Deliver, IInv
  <2>. QED
    BY <2>1, <2>2, <2>3, OthersKeepChains, OthersKeepCirculation
<1>5. ASSUME NEW r \in Requests, NEW n \in Tokens, AnswerIssued(r, n)
      PROVE  ChainInv' /\ CirculationInv'
  BY <1>5, IssueKeepsChains, IssueKeepsCirculation
<1>6. ASSUME NEW r \in Requests, AnswerFailed(r) \/ AnswerWithout(r)
      PROVE  ChainInv' /\ CirculationInv'
  <2>1. UNCHANGED <<refresh_tokens, root, replayed>>
    BY <1>6 DEF AnswerFailed, AnswerWithout
  <2>2. Circulating' \subseteq Circulating \cup {NoToken}
    BY <1>6, AnsweredCirculates DEF AnswerFailed, AnswerWithout, IInv
  <2>. QED
    BY <2>1, <2>2, OthersKeepChains, OthersKeepCirculation
<1>7. CASE \/ \E p \in Users \cup Apps : DeletePrincipal(p)
           \/ Seed \/ Crash \/ Tick
           \/ UNCHANGED vars
  <2>1. UNCHANGED <<refresh_tokens, root, replayed>> /\ held' = held
    BY <1>7 DEF DeletePrincipal, Seed, Crash, Tick, vars
  <2>2. \A q \in Requests : inflight'[q] # Idle => inflight'[q] = inflight[q]
    BY <1>7 DEF DeletePrincipal, Seed, Crash, Tick, vars
  <2>3. Circulating' \subseteq Circulating \cup {NoToken}
    BY <2>1, <2>2 DEF Circulating
  <2>. QED
    BY <2>1, <2>3, OthersKeepChains, OthersKeepCirculation
<1>8. ASSUME NEW reseed \in BOOLEAN, Reset(reseed)
      PROVE  ChainInv' /\ CirculationInv'
  <2>1. \A s \in Tokens : ~Exists(s)'
    BY <1>8 DEF Reset, Exists
  <2>2. root' = root /\ Circulating' = Circulating
    BY <1>8 DEF Reset, Circulating
  <2>3. Circulating \subseteq Tokens \cup {NoToken}
    BY RequestType DEF Circulating, IInv, TypeOK, Request
  <2>4. CirculationInv'
    BY <2>1, <2>2, <2>3 DEF CirculationInv, IInv
  <2>. QED
    BY <1>8, <2>4, ResetKeepsChains
<1>. QED
  BY <1>1, <1>2, <1>3, <1>4, <1>5, <1>6, <1>7, <1>8 DEF Next

\* It holds in every reachable state.
LEMMA IInvAlways == Spec => []IInv
  BY IInvInit, IInvStep, PTL DEF Spec

-----------------------------------------------------------------------------
(* Theorems *)

\* No interleaving of redemptions, replays, resets and crashes leaves a sign-in with
\* two redeemable refresh tokens.
THEOREM SingleLiveToken == Spec => []OneLivePerChain
  BY IInvAlways, PTL DEF IInv, ChainInv

\* A chain in which a revoked token was presented never yields a redeemable token again.
THEOREM ReplayKillsChain == Spec => []ReplayedChainIsDead
  BY IInvAlways, PTL DEF IInv, ChainInv

\* A successor is bound as its parent is, never broader, and issued in time.
THEOREM NeverBroader == Spec => []RotationNarrows
  BY IInvAlways, PTL DEF IInv, ChainInv

\* The walk of revokeFamily is exactly the chain: no token of it is missed, however
\* long it is, and no other sign-in is touched.
THEOREM FamilyExact == Spec => []FamilyIsChain
<1>1. IInv => FamilyIsChain
  BY FamilyFindsChain DEF FamilyIsChain
<1>. QED
  BY <1>1, IInvAlways, PTL

\* What a client holds carries offline_access.
THEOREM OfflineOnly == Spec => []HeldCarriesOfflineAccess
<1>1. IInv => HeldCarriesOfflineAccess
  BY ConstantsAssumption DEF IInv, TypeOK, CirculationInv, Circulating, HeldCarriesOfflineAccess
<1>. QED
  BY <1>1, IInvAlways, PTL

\* Every row refers to a user and an app that exist.
THEOREM NoDanglingRow == Spec => []RowsReferToDirectory
  BY IInvAlways, PTL DEF IInv

\* The table, what refers to it and what it refers to: RowsSound of the run, for any number
\* of requests that interleave with deletions, resets and crashes.
THEOREM SoundRows == Spec => []RowsSound
  <1>1. TypeOK /\ RowsReferToDirectory /\ HeldCarriesOfflineAccess => RowsSound
    BY DEF RowsSound
  <1>. QED
    BY <1>1, TypeCorrect, NoDanglingRow, OfflineOnly, PTL

\* One live token per sign-in, and a walk of revokeFamily that finds exactly its chain.
THEOREM SoundChains == Spec => []ChainsSound
  <1>1. OneLivePerChain /\ FamilyIsChain => ChainsSound
    BY DEF ChainsSound
  <1>. QED
    BY <1>1, SingleLiveToken, FamilyExact, PTL

\* A redeemable token stops being one only for a cause of its own chain or a reset.
THEOREM EndsForCause == Spec => ChainEndsForCause
<1> DEFINE ForCause == \A t \in Tokens : Live(t) /\ ~Live(t)' =>
        \/ \E n \in Tokens : Live(n)' /\ refresh_tokens'[n].rotatedFrom = t
        \/ root[t] \in replayed'
        \/ \A s \in Tokens : refresh_tokens'[s] = NoRow
<1>1. IInv /\ Next => ForCause
  <2> SUFFICES ASSUME IInv, Next, NEW x \in Tokens, Live(x), ~Live(x)'
               PROVE  \/ \E m \in Tokens : Live(m)' /\ refresh_tokens'[m].rotatedFrom = x
                      \/ root[x] \in replayed'
                      \/ \A s \in Tokens : refresh_tokens'[s] = NoRow
    OBVIOUS
  <2>1. ASSUME NEW r \in Requests, NEW t \in Tokens, NEW a \in Apps, NEW S \in Grants,
               NEW n \in Tokens, RedeemRotate(r, t, a, S, n)
        PROVE  Live(n)' /\ refresh_tokens'[n].rotatedFrom = x
    <3>1. Rotated(t, n, S)
      BY <2>1, RotateEffect
    <3>. QED
      BY <3>1 DEF Rotated, NewRow
  <2>2. ASSUME NEW t \in Tokens, RedeemReplay(t)
        PROVE  root[x] \in replayed'
    BY <2>2, ReplayEffect DEF Replayed
  <2>3. ASSUME NEW r \in Requests, NEW n \in Tokens, AnswerIssued(r, n)
        PROVE  FALSE
    BY <2>3, IssueEffect DEF Issued
  <2>4. ASSUME NEW reseed \in BOOLEAN, Reset(reseed)
        PROVE  \A s \in Tokens : refresh_tokens'[s] = NoRow
    BY <2>4 DEF Reset
  <2>5. ~UNCHANGED refresh_tokens
    BY DEF Live, Exists
  <2>. QED
    BY <2>1, <2>2, <2>3, <2>4, <2>5 DEF Next, BeginGrant, AnswerRotated, AnswerFailed,
       AnswerWithout, DeletePrincipal, Seed, Crash, Tick
<1>2. IInv /\ [Next]_vars => [ForCause]_vars
  BY <1>1
<1>. QED
  BY <1>2, IInvAlways, PTL DEF Spec, ChainEndsForCause

-----------------------------------------------------------------------------
(* Refinement *)

\* The rotation service implements single-use renewable chains: every step opens a
\* chain, renews one, ends one, ends all, or changes none.
THEOREM Refinement == Spec => ImplementsRotationChain
<1>1. Init => Chains!Init
  BY DEF Init, Chains!Init, Redeemables, Live, Exists, Fresh
<1>2. ASSUME IInv, [Next]_vars
      PROVE  [Chains!Next]_<<Redeemables, Tokens \ Fresh>>
  <2>1. ASSUME NEW r \in Requests, NEW t \in Tokens, NEW a \in Apps, NEW S \in Grants,
               NEW n \in Tokens, RedeemRotate(r, t, a, S, n)
        PROVE  Chains!Renew(root[t], t, n)
    <3>1. Rotated(t, n, S)
      BY <1>2, <2>1, RotateEffect
    <3>2. Redeemables[root[t]] = {t}
      BY <1>2, <3>1 DEF Redeemables, Rotated, IInv, ChainInv, OneLivePerChain
    <3>3. n \notin Tokens \ Fresh /\ (Tokens \ Fresh)' = (Tokens \ Fresh) \cup {n}
      BY <3>1, ConstantsAssumption DEF Rotated, Fresh
    <3>4. Redeemables' = [Redeemables EXCEPT ![root[t]] = {n}]
      <4>1. \A c \in Tokens \ {root[t]} : Redeemables'[c] = Redeemables[c]
        BY <1>2, <3>1 DEF Redeemables, Rotated, IInv, ChainInv, Drawn, Live
      <4>2. Redeemables'[root[t]] = {n}
        BY <1>2, <3>1 DEF Redeemables, Rotated, IInv, ChainInv, OneLivePerChain
      <4>. QED
        BY <3>1, <4>1, <4>2 DEF Redeemables, Rotated
    <3>. QED
      BY <3>2, <3>3, <3>4 DEF Chains!Renew
  <2>2. ASSUME NEW t \in Tokens, RedeemReplay(t)
        PROVE  root[t] \in Tokens /\ Chains!End(root[t])
    <3>1. Replayed(t)
      BY <1>2, <2>2, ReplayEffect
    <3>2. root[t] \in Tokens
      BY <1>2, <3>1 DEF Replayed, IInv, ChainInv, Drawn, TypeOK
    <3>3. Redeemables' = [Redeemables EXCEPT ![root[t]] = {}]
      <4>1. \A c \in Tokens : Redeemables'[c] = IF c = root[t] THEN {} ELSE Redeemables[c]
        BY <3>1 DEF Redeemables, Replayed
      <4>. QED
        BY <3>2, <4>1 DEF Redeemables
    <3>4. (Tokens \ Fresh)' = Tokens \ Fresh
      BY <3>1 DEF Replayed, Fresh
    <3>. QED
      BY <3>2, <3>3, <3>4 DEF Chains!End
  <2>3. ASSUME NEW r \in Requests, NEW n \in Tokens, AnswerIssued(r, n)
        PROVE  Chains!Open(n)
    <3>1. Issued(r, n)
      BY <1>2, <2>3, IssueEffect
    <3>2. n \notin Tokens \ Fresh /\ (Tokens \ Fresh)' = (Tokens \ Fresh) \cup {n}
      BY <3>1, ConstantsAssumption DEF Issued, Fresh
    <3>3. \A s \in Tokens : Live(s) => root[s] # n
      BY <1>2, <3>1, ConstantsAssumption DEF Issued, IInv, ChainInv, Drawn, Live
    <3>4. \A c \in Tokens : Redeemables'[c] = IF c = n THEN {n} ELSE Redeemables[c]
      BY <3>1, <3>3 DEF Issued, Redeemables, Live
    <3>5. Redeemables' = [Redeemables EXCEPT ![n] = {n}]
      BY <3>4 DEF Redeemables
    <3>. QED
      BY <3>2, <3>5 DEF Chains!Open
  <2>4. ASSUME NEW reseed \in BOOLEAN, Reset(reseed)
        PROVE  Chains!EndAll
    BY <2>4 DEF Reset, Chains!EndAll, Redeemables, Live, Exists, Fresh
  <2>5. ASSUME UNCHANGED <<refresh_tokens, root>>
        PROVE  UNCHANGED <<Redeemables, Tokens \ Fresh>>
    BY <2>5 DEF Redeemables, Live, Exists, Fresh
  <2>6. CASE \E r \in Requests, t \in Tokens, a \in Apps, S \in Grants, n \in Tokens :
                RedeemRotate(r, t, a, S, n)
    <3>1. PICK t \in Tokens, n \in Tokens : root[t] \in Tokens /\ Chains!Renew(root[t], t, n)
      BY <1>2, <2>1, <2>6, RotateEffect DEF Rotated
    <3>. QED
      BY <3>1 DEF Chains!Next
  <2>7. CASE \E t \in Tokens : RedeemReplay(t)
    BY <2>2, <2>7 DEF Chains!Next
  <2>8. CASE \E r \in Requests, n \in Tokens : AnswerIssued(r, n)
    BY <2>3, <2>8 DEF Chains!Next
  <2>9. CASE \E reseed \in BOOLEAN : Reset(reseed)
    BY <2>4, <2>9 DEF Chains!Next
  <2>10. CASE \/ \E r \in Requests, a \in Apps, u \in Users, S \in Grants : BeginGrant(r, a, u, S)
              \/ \E r \in Requests : AnswerRotated(r) \/ AnswerFailed(r) \/ AnswerWithout(r)
              \/ \E p \in Users \cup Apps : DeletePrincipal(p)
              \/ Seed \/ Crash \/ Tick
              \/ UNCHANGED vars
    <3>1. UNCHANGED <<refresh_tokens, root>>
      BY <2>10 DEF BeginGrant, AnswerRotated, AnswerFailed, AnswerWithout, DeletePrincipal,
                   Seed, Crash, Tick, vars
    <3>. QED
      BY <2>5, <3>1
  <2>. QED
    BY <1>2, <2>6, <2>7, <2>8, <2>9, <2>10 DEF Next
<1>. QED
  BY <1>1, <1>2, IInvAlways, PTL DEF Spec, ImplementsRotationChain, Chains!Spec
=============================================================================
