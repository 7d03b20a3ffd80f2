----------------------------- MODULE HostRouting -----------------------------
(***************************************************************************)
(* Which handler answers a request: one listener serves the sign-in        *)
(* service, the portal and Microsoft Graph, and tells them apart by the    *)
(* Host header (http/hostRouting.ts, http/pathmap.ts, http/tenant.ts,      *)
(* http/spaFallback.ts and the route registrations).  The same origins     *)
(* make the URLs the server advertises (identity/metadata.ts).             *)
(*                                                                         *)
(* A hostname is a sequence of labels, an origin a hostname and a port, a  *)
(* path the sequence of its segments.  HEAD and OPTIONS are left out.      *)
(***************************************************************************)
EXTENDS Naturals, Sequences, FiniteSets

CONSTANTS
    Unset,      \* a setting that is not given
    TenantId,   \* the tenant's GUID, a path segment
    AnySegment  \* :tenant and :id of a route

Surfaces == {"login", "portal", "graph"}
Localhost == <<"localhost">>
Sub(label, domain) == <<label>> \o domain

(* assembleConfig: an origin of its own, else PUBLIC_ORIGIN, else localhost in compat mode, else
   the surface's subdomain. *)
AssembleConfig(raw) ==
    LET Compat == IF raw.mode = "compat" THEN [host |-> Localhost, port |-> raw.port] ELSE Unset
        Derived(s) == [host |-> Sub(s, raw.base), port |-> raw.port]
        Given(o) == o # Unset
    IN  [origins |-> [s \in Surfaces |->
             Head(SelectSeq(<<raw.own[s], raw.public, Compat, Derived(s)>>, Given))],
         base |-> raw.base, extras |-> raw.extras]

HostOf(c, s) == c.origins[s].host
Hosts(c) == {HostOf(c, s) : s \in Surfaces}

(* desiredHostNames: what the hosts command maps. *)
DesiredNames(c) ==
    ((Hosts(c) \cup {c.base}) \ {Localhost})
        \cup UNION {{d} \cup {Sub(s, d) : s \in Surfaces} : d \in c.extras \ {Localhost}}

-----------------------------------------------------------------------------
TenantAliases == {"common", "organizations", "consumers"}
TenantApiSegments == {"v2.0", "discovery", "oauth2", "openid"}

Endpoint == [discovery |-> <<"v2.0", ".well-known", "openid-configuration">>,
             jwks |-> <<"discovery", "v2.0", "keys">>,
             authorize |-> <<"oauth2", "v2.0", "authorize">>,
             token |-> <<"oauth2", "v2.0", "token">>,
             logout |-> <<"oauth2", "v2.0", "logout">>,
             devicecode |-> <<"oauth2", "v2.0", "devicecode">>,
             verify |-> <<"oauth2", "v2.0", "devicecode", "verify">>]

MethodsOf == [discovery |-> {"GET"}, jwks |-> {"GET"}, authorize |-> {"GET", "POST"},
              token |-> {"POST"}, logout |-> {"GET"}, devicecode |-> {"GET", "POST"},
              verify |-> {"POST"}]

TenantHandlers == DOMAIN Endpoint

(* The lists stand for the other Graph reads, and the users for the rest of the Admin API. *)
GraphRoutes ==
    {[method |-> m, pattern |-> <<"graph", "oidc", "userinfo">>, handler |-> "userinfo"] :
        m \in {"GET", "POST"}}
    \cup {[method |-> "GET", pattern |-> <<"graph", "v1.0", "users">>, handler |-> "users"],
          [method |-> "GET", pattern |-> <<"graph", "v1.0", "groups", AnySegment, "members">>,
           handler |-> "members"],
          [method |-> "GET", pattern |-> <<"graph", "v1.0", "me", "memberOf">>,
           handler |-> "memberOf"]}

(* The segments the routes spell out. *)
Segments ==
    {"graph", "oidc", "userinfo", "v1.0", "users", "groups", "members", "me", "memberOf", "health",
     "admin", "api", "v2.0", ".well-known", "openid-configuration", "discovery", "keys", "oauth2",
     "authorize", "token", "logout", "devicecode", "verify"}

ASSUME RoutingAssumption == {TenantId, AnySegment} \cap Segments = {}

GraphHandlers == {r.handler : r \in GraphRoutes}

TenantRoutes(h) ==
    {[method |-> m, pattern |-> <<AnySegment>> \o Endpoint[h], handler |-> h] : m \in MethodsOf[h]}

OwnRoutes ==
    {[method |-> "GET", pattern |-> <<"health">>, handler |-> "health"]}
    \cup {[method |-> m, pattern |-> <<"admin", "api", "users">>, handler |-> "admin"] :
             m \in {"GET", "POST"}}

Routes == GraphRoutes \cup OwnRoutes \cup UNION {TenantRoutes(h) : h \in TenantHandlers}

Fits(pattern, path) ==
    /\ Len(pattern) = Len(path)
    /\ \A i \in DOMAIN pattern : pattern[i] \in {AnySegment, path[i]}

-----------------------------------------------------------------------------
Under(segment, path) == path # <<>> /\ path[1] = segment
IsLoginPath(path) == Len(path) >= 2 /\ path[2] \in TenantApiSegments
IsDiscoveryPath(path) == path # <<>> /\ Tail(path) = Endpoint.discovery
IsReservedApiPath(path) ==
    path = <<"health">> \/ Under("graph", path) \/ Under("admin", path) \/ IsLoginPath(path)

(* The three origins share a hostname: there is nothing to tell apart. *)
Collapsed(c) == HostOf(c, "login") = HostOf(c, "portal") /\ HostOf(c, "portal") = HostOf(c, "graph")

Role(c, host) ==
    IF Collapsed(c) \/ host \notin Hosts(c) THEN "compat"
    ELSE IF host = HostOf(c, "login") THEN "login"
    ELSE IF host = HostOf(c, "graph") THEN "graph"
    ELSE "portal"

\* Mutated: UserInfo is forgotten.
RewriteUrl_Version(c, host, path) ==
    IF Role(c, host) = "graph" /\ Under("v1.0", path) THEN <<"graph">> \o path ELSE path

(* A Graph host serves Graph at its root: the prefix of the routes is put back. *)
RewriteUrl(c, host, path) ==
    IF Role(c, host) = "graph" /\ (Under("v1.0", path) \/ Under("oidc", path))
        THEN <<"graph">> \o path
        ELSE path

\* Mutated: the portal lets every GET through.
Allowed_Get(role, method, path) ==
    \/ role = "compat"
    \/ role = "login" /\ IsLoginPath(path)
    \/ role = "graph" /\ Under("graph", path)
    \/ role = "portal" /\ (method = "GET" \/ path = <<"health">> \/ Under("admin", path))

(* enforceHostRouting: what each host lets through. *)
Allowed(role, method, path) ==
    \/ role = "compat"
    \/ role = "login" /\ IsLoginPath(path)
    \/ role = "graph" /\ Under("graph", path)
    \/ /\ role = "portal"
       /\ \/ path = <<"health">> \/ Under("admin", path) \/ IsDiscoveryPath(path)
          \/ method = "GET" /\ ~IsLoginPath(path) /\ ~Under("graph", path)

IsAllowedTenant(segment) == segment \in {TenantId} \cup TenantAliases

(* Where no route fits: the portal's page, unless the path is one of an API. *)
Fallback(method, path) ==
    IF method = "GET" /\ ~IsReservedApiPath(path) THEN "portal" ELSE "not found"

(* The tenant guard of the routes that have one, then the handler. *)
Routed(method, path) ==
    LET fitting == {r \in Routes : r.method = method /\ Fits(r.pattern, path)}
        handler == (CHOOSE r \in fitting : TRUE).handler
    IN  CASE fitting = {} -> Fallback(method, path)
          [] fitting # {} /\ handler \in TenantHandlers /\ ~IsAllowedTenant(path[1]) ->
                "unknown tenant"
          [] OTHER -> handler

(* The whole way of a request: the rewrite, the guard of the host, the routes. *)
Served(c, host, method, path) ==
    LET role == Role(c, host)
        rewritten == RewriteUrl(c, host, path)
    IN  CASE Allowed(role, method, rewritten) -> Routed(method, rewritten)
          [] ~Allowed(role, method, rewritten) /\ path = <<>> /\ role \in {"login", "graph"} ->
                "descriptor"
          [] OTHER -> "not found"

-----------------------------------------------------------------------------
(* graphPublicUrl: the prefix of a Graph route stays where Graph shares the origin of the
   sign-in service, and is dropped on a Graph host. *)
GraphPublicPath(c, registered) ==
    IF c.origins["graph"] = c.origins["login"] THEN registered ELSE Tail(registered)

Link(c, surface, method, path, handler) ==
    [host |-> HostOf(c, surface), method |-> method, path |-> path, handler |-> handler]

(* The URLs the server hands out: the discovery document and the issuer it is found from, the
   descriptors, @odata.nextLink and the groups-overage claim; and the portal with what it fetches
   from its own origin. *)
Advertised(c) ==
    {Link(c, "graph", r.method, GraphPublicPath(c, r.pattern), r.handler) : r \in GraphRoutes}
    \cup {Link(c, "portal", "GET", <<>>, "portal"),
          Link(c, "portal", "GET", <<"admin", "api", "users">>, "admin"),
          Link(c, "portal", "GET", <<TenantId>> \o Endpoint.discovery, "discovery")}
    \cup UNION {{Link(c, "login", m, <<TenantId>> \o Endpoint[h], h) : m \in MethodsOf[h]} :
                    h \in TenantHandlers}
==============================================================================
