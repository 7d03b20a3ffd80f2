--------------------------- MODULE MCTokenContents ----------------------------
(***************************************************************************)
(* TokenContents with a client and an API, and requests that mix resources *)
(* in every order.                                                         *)
(***************************************************************************)
EXTENDS TokenContents

CONSTANTS web, api, apiUri, graphPath, alice

In(r, name) == [resource |-> r, name |-> name]
OpenId == {In(None, "openid"), In(None, "offline_access")}

MCRequests ==
    { [scopes |-> OpenId \union {In(None, "email")}, first |-> None],
      [scopes |-> OpenId \union {In(apiUri, "read")}, first |-> apiUri],
      [scopes |-> OpenId \union {In(Graph, "read")}, first |-> Graph],
      [scopes |-> {In(apiUri, ".default"), In(None, "offline_access")}, first |-> apiUri],
      [scopes |-> OpenId \union {In(apiUri, "read"), In(graphPath, "read")}, first |-> graphPath],
      [scopes |-> OpenId \union {In(apiUri, "read"), In(Graph, "read")}, first |-> Graph] }

MCInitialUri == [a \in Apps |-> IF a = api THEN apiUri ELSE None]

MCNames == {"openid", "offline_access", "email", "read", ".default"}
=============================================================================
