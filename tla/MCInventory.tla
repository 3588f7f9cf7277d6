---------------------------- MODULE MCInventory ----------------------------
(* Small instances of Inventory for TLC.                                   *)
EXTENDS Inventory

CONSTANTS a, b, h

http == <<80, "tcp">>

Port(key, state, service) == [key |-> key, state |-> state, service |-> service]

ScanInfo(ranges) == [type |-> "syn", services |-> ranges]

Host(ip, at, ports) ==
  [ip |-> ip, endtime |-> at, meta |-> "", hostnames |-> {}, ports |-> ports]

Report(info, hosts) == [scaninfo |-> info, finished |-> 2, hosts |-> hosts]

Scan(mode, report) == [mode |-> mode, track_history |-> TRUE, report |-> report]

(* A scan of a's web port, at one of three times: what the port scan and *)
(* the service pass may find.                                              *)
Pass(at, base, names, service) ==
  [base |-> Report({ScanInfo({<<1, 1000>>})}, <<Host(a, at, base)>>),
   target |-> a, hostnames |-> names,
   service |-> {Report({ScanInfo({<<80, 80>>})}, <<Host(a, at, ports)>>) : ports \in service}]

Found == <<Port(http, "open", "")>>

WebPasses(at) ==
  {Pass(at, <<>>, {}, {}), Pass(at, <<Port(http, "filtered", "")>>, {}, {}), Pass(at, Found, {}, {}),
   Pass(at, Found, {}, {<<Port(http, "open", "nginx")>>}),
   Pass(at, Found, {}, {<<Port(http, "open", "apache")>>})}

Merged(p) == EnrichXml(p.base, p.target, p.hostnames, p.service)

WebScans == {Scan(mode, Merged(p)) :
               mode \in {"update", "replace"}, p \in UNION {WebPasses(at) : at \in 1..3}}

(* Service passes that come too late or find more than the port scan.      *)
MCPasses ==
  WebPasses(1)
  \cup {Pass(1, Found, {h}, {<<>>}), Pass(1, Found, {h}, {<<Port(http, "filtered", "")>>}),
        Pass(1, <<Port(http, "open", "apache")>>, {h},
             {<<Port(http, "open", ""), Port(<<443, "tcp">>, "open", "nginx")>>})}

(* Reports and lists that name hosts or ports twice, carry no end time,    *)
(* come with names, or are not to be tracked.                              *)
Repeats ==
  {Scan(mode, Report({ScanInfo({<<1, 1000>>})}, <<Host(a, None, ports), Host(b, 1, <<>>)>>)) :
     mode \in {"insert", "append"},
     ports \in {<<Port(http, "open", ""), Port(http, "filtered", "")>>,
                <<Port(http, "closed", ""), Port(http, "open", "nginx")>>}}

Lookup == [mode |-> "insert", track_history |-> TRUE,
           entries |-> <<[ip |-> a, endtime |-> 3, meta |-> "", hostnames |-> {h},
                          ports |-> <<>>, scanned_ports |-> {}]>>]

Untracked == [mode |-> "replace", track_history |-> FALSE,
              entries |-> <<[ip |-> a, endtime |-> 2, meta |-> "up", hostnames |-> {},
                             ports |-> <<Port(http, "open", "nginx")>>,
                             scanned_ports |-> {<<10, 1>>}],
                            [ip |-> a, endtime |-> 1, meta |-> "", hostnames |-> {h},
                             ports |-> <<Port(http, "closed", "")>>,
                             scanned_ports |-> {<<8, 100>>}]>>]

(* A list with a port that does not exist.                                 *)
OutOfBounds == [Lookup EXCEPT !.entries[1].scanned_ports = {<<65536, 1>>}]

(* Ranges around the web port that nest, overlap, touch and leave a gap,   *)
(* written either way round, and the bounds of what is a port.             *)
Spans == {79, 80, 81, 83} \X {79, 80, 81, 83}
Forward == {r \in Spans : r[1] <= r[2]}

MCClaims ==
  {{r, s} : r, s \in Spans} \cup {{r, s, t} : r, s, t \in Forward}
  \cup SUBSET {<<0, 1>>, <<-1, 2>>, <<2, -1>>, <<65535, 65534>>, <<65533, 65536>>, <<65536, 65533>>}

MCScans == WebScans \cup Repeats
MCLists == {Lookup, Untracked, OutOfBounds}
=============================================================================
