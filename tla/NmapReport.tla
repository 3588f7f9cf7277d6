------------------------------ MODULE NmapReport ------------------------------
(***************************************************************************)
(* nmap reports on their way through the system: the worker merges the     *)
(* hostnames of a task and the service pass into the report of the port    *)
(* scan (worker nmap/xml.py), scanledger parses what it is sent and writes *)
(* its inventory as a report again (ips/nmap.py).                          *)
(*                                                                         *)
(* Data representation: as in Reconcile.  A report is                      *)
(* [scaninfo, finished, hosts]; hosts, and the ports of a host, are        *)
(* sequences of elements, a repeated one included.  A host's "meta" is its *)
(* <status>, the one of the two fields an export does not copy.            *)
(***************************************************************************)
EXTENDS Integers, Sequences, FiniteSets, SequencesExt, Reconcile, Ranges

None == 0  \* an element without a time

-----------------------------------------------------------------------------
(* The worker.  A service pass is a set of at most one report.             *)

ParseOpenPorts(report) ==
  {p.key[1] : p \in {q \in UNION {ToSet(h.ports) : h \in ToSet(report.hosts)} : IsOpen(q)}}

SetHostnames(host, target, hostnames) ==
  IF host.ip = target THEN [host EXCEPT !.hostnames = hostnames] ELSE host

(* _index_ports_by_key: of two ports with one key the later is found.      *)
IndexPorts(report) ==
  FoldLeft(LAMBDA found, h :
             FoldLeft(LAMBDA byKey, p : (<<h.ip, p.key>> :> p) @@ byKey, found, h.ports),
           <<>>, report.hosts)

(* Slip: what the service pass saw of a port replaces all of it.           *)
Overlay_Whole(ip, port, index) ==
  IF <<ip, port.key>> \in DOMAIN index THEN index[<<ip, port.key>>] ELSE port

(* The <service> of a port is the service pass's, even if that has none.   *)
Overlay(ip, port, index) ==
  IF <<ip, port.key>> \in DOMAIN index
  THEN [port EXCEPT !.service = index[<<ip, port.key>>].service] ELSE port

(* Of several ports with one key, only the last is overlaid.               *)
MergeServiceData(base, service) ==
  LET index == IndexPorts(service)
      last(ip, port) == IndexPorts(base)[<<ip, port.key>>] = port
      merge(ip, port) == IF last(ip, port) THEN Overlay(ip, port, index) ELSE port
      host(h) == [h EXCEPT !.ports = [j \in DOMAIN @ |-> merge(h.ip, @[j])]]
  IN  [base EXCEPT !.hosts = [i \in DOMAIN @ |-> host(@[i])]]

EnrichXml(base, target, hostnames, passes) ==
  LET named == [base EXCEPT !.hosts =
                  [i \in DOMAIN @ |-> SetHostnames(@[i], target, hostnames)]]
  IN  IF passes = {} THEN named ELSE MergeServiceData(named, CHOOSE r \in passes : TRUE)

-----------------------------------------------------------------------------
(* Parsing: a report covers the ranges of its port-scan <scaninfo>         *)
(* elements, whatever their protocol, and gives them to each of its hosts. *)

Claimed(scaninfo) == UNION {si.services : si \in {s \in scaninfo : s.type # "ping"}}

ScannedPorts(scaninfo) == R!MergedRanges(Claimed(scaninfo))

ToIPIn(host, report) ==
  [ip |-> host.ip, meta |-> host.meta, hostnames |-> host.hostnames, ports |-> host.ports,
   endtime |-> IF host.endtime # None THEN host.endtime ELSE report.finished,
   scanned_ports |-> ScannedPorts(report.scaninfo)]

(* A range of ports that do not exist fails the request, and so does a     *)
(* host without an end time in a report without one.                       *)
Parses(report) ==
  /\ R!MergePortRanges(Claimed(report.scaninfo)) # {}
  /\ \A i \in DOMAIN report.hosts : report.hosts[i].endtime # None \/ report.finished # None

ParseReport(report) == [i \in DOMAIN report.hosts |-> ToIPIn(report.hosts[i], report)]

-----------------------------------------------------------------------------
(* export_report, of a set of stored addresses.  It has no <scaninfo>.     *)

(* Slip: the export is stamped with the time an address was first seen.    *)
ExportHost_FirstSeen(out) ==
  [ip |-> out.ip, endtime |-> out.first_seen,
   meta |-> IF out.meta = "" THEN "up" ELSE out.meta, hostnames |-> out.hostnames,
   ports |-> SetToSeq({[key |-> k, state |-> out.ports[k].state,
                        service |-> out.ports[k].service] : k \in DOMAIN out.ports})]

ExportHost(out) ==
  [ip |-> out.ip, endtime |-> out.last_seen,
   meta |-> IF out.meta = "" THEN "up" ELSE out.meta, hostnames |-> out.hostnames,
   ports |-> SetToSeq({[key |-> k, state |-> out.ports[k].state,
                        service |-> out.ports[k].service] : k \in DOMAIN out.ports})]

(* Slip: the export claims to have scanned every port.                     *)
ExportReport_Covers(outs, now) ==
  [scaninfo |-> {[type |-> "syn", services |-> {<<1, 65535>>}]}, finished |-> now,
   hosts |-> SetToSeq({ExportHost(out) : out \in outs})]

ExportReport(outs, now) ==
  [scaninfo |-> {}, finished |-> now, hosts |-> SetToSeq({ExportHost(out) : out \in outs})]
=============================================================================
