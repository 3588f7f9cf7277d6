---------------------------- MODULE MCImportFeed ----------------------------
(* Small instances of ImportFeed for TLC.                                  *)
EXTENDS ImportFeed, TLC

CONSTANTS a, b, h, s1, s2, s3

Open(service) == [state |-> "open", service |-> service, detail |-> ""]

Entry(ports, names, ranges) ==
  [meta |-> "", endtime |-> 1, hostnames |-> names, ports |-> ports,
   scanned_ports |-> ranges]

http == <<80, "tcp">>
ssh  == <<22, "tcp">>

MCPortKeys == {http, ssh}
MCTexts == {"", "nginx", "openssh", "ssl"}

FoundHttp == Entry(http :> Open("nginx"), {h}, {<<80, 80>>})
FoundTls  == Entry(http :> [Open("") EXCEPT !.detail = "ssl"], {}, {<<80, 80>>})
FoundSsh  == Entry(ssh :> Open("openssh"), {}, {<<1, 1000>>})
FoundBoth == Entry([k \in {http, ssh} |-> Open("")], {h}, {})

One(mode, ip, entry) ==
  [mode |-> mode, track_history |-> TRUE, order |-> <<ip>>, entry |-> ip :> entry]
Both(mode, ips, entry) ==
  [mode |-> mode, track_history |-> TRUE, order |-> ips,
   entry |-> [ip \in {a, b} |-> entry]]
Delete(ips) ==
  [mode |-> "delete", track_history |-> FALSE, order |-> ips, entry |-> <<>>]

(* One address per import: what the worker uploads.  FoundTls changes an   *)
(* untracked detail of a port that FoundHttp or FoundBoth opened, FoundSsh *)
(* closes it.                                                              *)
SingleImports == {One("append", a, FoundBoth), One("update", a, FoundTls),
                  One("replace", a, FoundSsh),
                  [One("append", b, FoundHttp) EXCEPT !.track_history = FALSE]}

(* A whole report at once: what import_scan and create_ips accept.         *)
BatchImports == {Both("append", <<a, b>>, FoundHttp),
                 Both("replace", <<b, a>>, FoundSsh),
                 One("replace", a, FoundSsh)}

NoDeletes == {}
SomeDeletes == {Delete(<<a>>), Delete(<<a, b>>)}

Symmetry == Permutations(Sessions)
=============================================================================
