----------------------------- MODULE LocalDomains -----------------------------
(***************************************************************************)
(* The local domains as a user meets them: the server runs with a          *)
(* configuration, the hosts command maps the names of that configuration,  *)
(* and a browser resolves a name through the hosts file before its request *)
(* reaches the listener.  A resolver that answers *.localhost on its own   *)
(* (not so on Windows, cli/hosts.ts:7-9) only makes more names reachable.  *)
(* A proxy or a published port is assumed to carry the port an origin      *)
(* names to the listener.                                                  *)
(***************************************************************************)
EXTENDS HostsFile, HostRouting

CONSTANTS
    Raws,       \* configurations the server can be started with
    OtherHosts, \* hostnames that reach the server and are none of the origins', say 127.0.0.1
    Paths,      \* paths that are asked for
    Nothing,    \* no request was made
    MaxRestarts \* bound: starts with another configuration

PathSegments == UNION {{path[i] : i \in DOMAIN path} : path \in Paths}

(* A set of names is no line and no marker, and a path is a sequence. *)
ASSUME DomainsAssumption ==
    /\ \A raw \in Raws : DesiredNames(AssembleConfig(raw)) \notin Lines \cup {BEGIN, END}
    /\ Paths \subseteq Seq(PathSegments)
    /\ MaxRestarts \in Nat

VARIABLES
    config,     \* the server's configuration
    restarts,
    exchange    \* the last request and its answer

domains == <<config, restarts, exchange>>
domainsVars == <<hosts, domains>>

Resolves(host) == host = Localhost \/ host \in Mapped(file)

(* Any client sends any request with any Host header.  Bound: this is explored while nobody has
   touched the hosts file, on which the answer does not depend. *)
Visit(host, method, path) ==
    /\ exchange = Nothing
    /\ commands = 0 /\ edits = 0
    /\ exchange' = [followed |-> FALSE, host |-> host, method |-> method, path |-> path,
                    answer |-> Served(config, host, method, path)]
    /\ UNCHANGED <<hosts, config, restarts>>

(* A browser follows a URL the server handed out.  Bound: while no command runs. *)
Follow(link) ==
    /\ exchange = Nothing
    /\ \A p \in Procs : cmd[p] = NoCommand
    /\ exchange' = [followed |-> TRUE, link |-> link,
                    answer |-> IF Resolves(link.host)
                                   THEN Served(config, link.host, link.method, link.path)
                                   ELSE "unreachable"]
    /\ UNCHANGED <<hosts, config, restarts>>

Forget ==
    /\ exchange # Nothing
    /\ exchange' = Nothing
    /\ UNCHANGED <<hosts, config, restarts>>

(* The server is started again with another configuration; the hosts file keeps the entries of
   the one before. *)
Restart(raw) ==
    /\ restarts < MaxRestarts
    /\ exchange = Nothing
    /\ config' = AssembleConfig(raw)
    /\ config' # config
    /\ restarts' = restarts + 1
    /\ UNCHANGED <<hosts, exchange>>

(* The command loads the same configuration as the server (cli/index.ts:69). *)
EditHosts ==
    /\ exchange = Nothing
    /\ HostsStep(DesiredNames(config))
    /\ UNCHANGED domains

DomainsInit ==
    /\ HostsInit
    /\ config \in {AssembleConfig(raw) : raw \in Raws}
    /\ restarts = 0
    /\ exchange = Nothing

DomainsNext ==
    \/ EditHosts
    \/ \E host \in Hosts(config) \cup OtherHosts, method \in {"GET", "POST"}, path \in Paths :
            Visit(host, method, path)
    \/ \E link \in Advertised(config) : Follow(link)
    \/ Forget
    \/ \E raw \in Raws : Restart(raw)

DomainsSpec == DomainsInit /\ [][DomainsNext]_domainsVars

-----------------------------------------------------------------------------
MappableNames == UNION {DesiredNames(AssembleConfig(raw)) : raw \in Raws}

Answers == TenantHandlers \cup GraphHandlers
    \cup {"health", "admin", "portal", "descriptor", "not found", "unknown tenant", "unreachable"}

DomainsTypeOK ==
    /\ HostsTypeOK(MappableNames)
    /\ restarts \in 0..MaxRestarts
    /\ exchange # Nothing => exchange.answer \in Answers

(* The hosts command converges on the names of the running configuration, whatever configuration
   the entries it finds were written for (cli/hosts.ts:86-102, called at :159). *)
ApplyConverges == DomainsTypeOK /\ ConvergesTo(DesiredNames(config))

Distinct(c) == Cardinality(Hosts(c)) = 3
OneOrigin(c) == Cardinality({c.origins[s] : s \in Surfaces}) = 1

(* Every URL the server hands out is answered by the handler it is meant for, once the hosts
   command has mapped the names of its configuration: the names it maps, the prefix dropped or
   kept in a Graph URL, the rewrite that puts it back, the slices of the hosts and the routes
   agree.  It takes three different hostnames or one origin (http/pathmap.ts:17-22, 48-73). *)
AdvertisedReachable ==
    /\ exchange # Nothing /\ exchange.followed
    /\ Distinct(config) \/ OneOrigin(config)
    /\ DesiredNames(config) \subseteq Mapped(file)
    => exchange.answer = exchange.link.handler

(* With three hostnames each surface answers on its own host and on hosts that are none of the
   origins': Graph never on another surface's host, the sign-in service neither but for its
   discovery document on the portal's, the Admin API and the portal's page only on the portal's.
   And nowhere does a tenant route run for a tenant that is not this one's
   (http/hostRouting.ts:152-176, http/tenant.ts:22-48). *)
SurfacesKeptApart ==
    exchange # Nothing /\ ~exchange.followed =>
        LET on(s) == exchange.host = HostOf(config, s)
            answer == exchange.answer
        IN  /\ answer \in TenantHandlers => IsAllowedTenant(exchange.path[1])
            /\ Distinct(config) =>
                /\ answer \in GraphHandlers => ~on("login") /\ ~on("portal")
                /\ answer \in TenantHandlers \ {"discovery"} => ~on("graph") /\ ~on("portal")
                /\ answer = "discovery" => ~on("graph")
                /\ answer \in {"admin", "health", "portal"} => ~on("graph") /\ ~on("login")
==============================================================================
