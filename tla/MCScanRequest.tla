---------------------------- MODULE MCScanRequest ----------------------------
(* Small instances of ScanRequest for TLC: all lists of up to three hosts  *)
(* with one port range, and all lists of up to three port ranges with one  *)
(* host.                                                                   *)
EXTENDS ScanRequest

Ip(a) == [kind |-> "ip", at |-> a, size |-> 1]
Cidr(a, size) == [kind |-> "cidr", at |-> a, size |-> size]
Name(n) == [kind |-> "name", name |-> n]

(* Two networks with the same first address, 4; a network of one address;  *)
(* one that is too large.                                                  *)
MCEntries == {Ip(1), Ip(8), Cidr(5, 4), Cidr(4, 2), Cidr(1, 1), Cidr(0, 16), Name("h1"), Name("h2")}

MCPrivate == {6, 8}
MCRecords == [h1 |-> {5, 8}, h2 |-> {5}]

Lists(S) == UNION {[1..n -> S] : n \in 1..3}

HostRequests ==
  {[hosts |-> list, single |-> single, mode |-> mode, ports |-> <<<<1, 3>>>>, shards |-> 2] :
     list \in Lists(MCEntries), single \in BOOLEAN, mode \in {"insert", "replace"}}

(* Inverted ranges, ports that do not exist, and an end that does not.     *)
MCRanges == {r \in (1..5) \X (1..5) : r[1] <= r[2]} \cup {<<0, 1>>, <<2, 1>>}

PortRequests ==
  {[hosts |-> <<Ip(1)>>, single |-> FALSE, mode |-> "replace", ports |-> list, shards |-> n] :
     list \in Lists(MCRanges), n \in 1..4}

MCRequests == HostRequests \cup PortRequests
=============================================================================
