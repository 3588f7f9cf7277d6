------------------------------ MODULE MCSearch ------------------------------
(* Small instances of Search for TLC.                                      *)
EXTENDS Search

CONSTANTS a, b, c, h

http == <<80, "tcp">>
alt == <<8080, "tcp">>

Port(key, service) == [key |-> key, state |-> "open", service |-> service]

Host(ip, meta, names, ports) ==
  [ip |-> ip, endtime |-> 1, meta |-> meta, hostnames |-> names, ports |-> ports]

Scan(hosts) ==
  [mode |-> "replace", track_history |-> FALSE,
   report |-> [scaninfo |-> {[type |-> "syn", services |-> {<<1, 65535>>}]},
               finished |-> 1, hosts |-> hosts]]

(* All three hosts; one of them losing its web server; another one alone.  *)
MCScans ==
  {Scan(<<Host(a, "", {h}, <<Port(http, ""), Port(alt, "")>>),
          Host(b, "up", {}, <<Port(http, "nginx"), Port(alt, "apache")>>),
          Host(c, "up", {}, <<Port(http, "apache")>>)>>),
   Scan(<<Host(b, "", {}, <<Port(alt, "apache")>>)>>),
   Scan(<<Host(a, "", {}, <<Port(http, "nginx")>>)>>)}

NoLists == {}
NoPasses == {}
NoClaims == {}

(* 10.0.0.2, 10.0.0.3 and 10.0.0.10: as texts, the last one comes first.   *)
Inet == (a :> 1) @@ (b :> 2) @@ (c :> 3)
AsText == (c :> 1) @@ (a :> 2) @@ (b :> 3)

Query(kind, filter, matched, limit) ==
  [kind |-> kind, filter |-> filter, matched_ports_only |-> matched, limit |-> limit]

PortsOf(all, any, none) == [ports |-> [all_of |-> all, any_of |-> any, none_of |-> none]]

MCQueries ==
  {Query("list", <<>>, FALSE, 1),
   Query("search", PortsOf({[number |-> {80}]}, {}, {}), FALSE, 1),
   Query("search", PortsOf({[number |-> {80}], [number |-> {8080}]}, {}, {}), TRUE, 2),
   Query("search", PortsOf({}, {[number |-> {80}, product_not_in |-> {"nginx"}],
                                [number_in |-> {}, service_in |-> {"nginx"}]}, {}), TRUE, 2),
   Query("search", PortsOf({}, {}, {[service_is_null |-> FALSE]}) @@ [has_hostname |-> TRUE],
         FALSE, 2),
   Query("search", [cidr |-> {b, c}, os_ilike |-> {"up"}, first_seen_gte |-> 1, last_seen_lt |-> 2,
                    hostname_ilike_any |-> {}], FALSE, 1),
   Query("known", [ip_in |-> {a, b, c}], FALSE, 1)}
=============================================================================
