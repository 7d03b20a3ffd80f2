---------------------------- MODULE MCLocalDomains ----------------------------
EXTENDS LocalDomains

Base == <<"entra">>
Extra == <<"extra">>
At(host, port) == [host |-> host, port |-> port]

Proxy(port) == At(<<"proxy">>, port)
Plain == [own |-> [s \in Surfaces |-> Unset], public |-> Unset, mode |-> "subdomains",
          port |-> 1, base |-> Base, extras |-> {}]

(* Nothing given; an extra domain; the compat mode, alone and with an origin of its own; one
   PUBLIC_ORIGIN; a proxy's origin for one surface, for two, and for all of them on two ports;
   a loopback origin. *)
MCRaws ==
    {Plain,
     [Plain EXCEPT !.extras = {Extra}],
     [Plain EXCEPT !.mode = "compat"],
     [Plain EXCEPT !.mode = "compat", !.own["portal"] = Proxy(1)],
     [Plain EXCEPT !.public = Proxy(1), !.mode = "compat"],
     [Plain EXCEPT !.own["graph"] = Proxy(1)],
     [Plain EXCEPT !.own["login"] = Proxy(1), !.own["portal"] = Proxy(1)],
     [Plain EXCEPT !.public = Proxy(1), !.own["graph"] = Proxy(2)],
     [Plain EXCEPT !.own["login"] = At(Localhost, 1)]}

MCPaths ==
    {<<>>, <<"apps">>, <<"health">>, <<"graph">>, <<"v1.0", "users">>, <<"oidc", "userinfo">>,
     <<"admin", "api", "users">>, <<"admin", "api", "nowhere">>, <<"graph", "v1.0", "nowhere">>,
     <<"v2.0", "users">>}
    \cup {r.pattern : r \in Routes}
    \cup {<<t>> \o Endpoint[h] : t \in {TenantId, "common", "admin"}, h \in TenantHandlers}
MCFirstLines == <<CHOOSE l \in Lines : TRUE>>
MCOtherHosts == {Localhost, <<"127.0.0.1">>}
===============================================================================
