------------------------------ MODULE Inventory ------------------------------
(***************************************************************************)
(* What scanledger stores for one project and what its requests do to it:  *)
(* the inventory (ips, ports, observed hostnames), when each address was   *)
(* first and last seen, and the append-only log of port changes.  Requests *)
(* are atomic here; ImportFeed shows that the transactions they run in are. *)
(*                                                                         *)
(* Data representation: as in Reconcile.  A request lists ports and hosts  *)
(* as sequences, because the code lets the later of two entries win.       *)
(***************************************************************************)
EXTENDS Integers, Sequences, FiniteSets, SequencesExt, NmapReport

CONSTANTS
  Ips,         \* addresses
  Scans,       \* [mode, track_history, report]: bodies of POST /ips/import
  Lists,       \* [mode, track_history, entries]: bodies of POST /ips
  Passes,      \* [base, target, hostnames, service]: what a worker merges
  Claims,      \* sets of ranges that reports and lists may name as scanned
  MaxRequests  \* bound: requests ever made

ASSUME AddressesAssumption == IsFiniteSet(Ips)

(* What a parsed request is: an entry names an address, its end time is    *)
(* required in a list, and may be missing in a report.                     *)
IsList(s) == Len(s) \in Nat /\ DOMAIN s = 1..Len(s)

ASSUME RequestsAssumption ==
  /\ MaxRequests \in Nat
  /\ \A s \in Scans :
       /\ s.report.finished \in Nat /\ IsList(s.report.hosts)
       /\ \A i \in DOMAIN s.report.hosts :
            LET host == s.report.hosts[i]
            IN  host.ip \in Ips /\ host.endtime \in Nat /\ IsList(host.ports)
  /\ \A l \in Lists :
       /\ IsList(l.entries)
       /\ \A i \in DOMAIN l.entries :
            LET entry == l.entries[i]
            IN  /\ entry = [ip |-> entry.ip, endtime |-> entry.endtime, meta |-> entry.meta,
                            hostnames |-> entry.hostnames, ports |-> entry.ports,
                            scanned_ports |-> entry.scanned_ports]
                /\ entry.ip \in Ips /\ IsList(entry.ports)
                /\ entry.endtime \in Nat /\ entry.endtime # None

ASSUME ClaimsAssumption ==
  \A pairs \in Claims : IsFiniteSet(pairs) /\ pairs \subseteq Int \X Int

(* run_nmap_scan: the port scan left a report; a service pass follows if   *)
(* it found open ports.                                                    *)
ASSUME PassesAssumption ==
  \A p \in Passes :
    /\ p.base = [scaninfo |-> p.base.scaninfo, finished |-> p.base.finished, hosts |-> p.base.hosts]
    /\ IsList(p.base.hosts)
    /\ \A i \in DOMAIN p.base.hosts :
         LET host == p.base.hosts[i]
         IN  /\ host = [ip |-> host.ip, endtime |-> host.endtime, meta |-> host.meta,
                        hostnames |-> host.hostnames, ports |-> host.ports]
             /\ IsList(host.ports)
             /\ \A j \in DOMAIN host.ports :
                  host.ports[j] = [key |-> host.ports[j].key, state |-> host.ports[j].state,
                                   service |-> host.ports[j].service]
    /\ p.service # {} => ParseOpenPorts(p.base) # {}

VARIABLES
  stored,    \* ips, ports, hostnames: one StoredIP per address
  seen,      \* first_seen and last_seen of each stored address
  history,   \* ip_port_history
  requests,  \* requests made so far
  clean      \* ghost: addresses the log has followed since their first import

vars == <<stored, seen, history, requests, clean>>

-----------------------------------------------------------------------------
(* dedup_batch: one entry per address; of two ports with one key the later *)
(* wins, wherever they come from.                                          *)

Put(dict, key, value) ==
  [k \in {key} \cup DOMAIN dict |-> IF k = key THEN value ELSE dict[k]]

PutPort(byKey, p) == Put(byKey, p.key, [state |-> p.state, service |-> p.service])

DedupPorts(byKey, ports) == FoldLeft(PutPort, byKey, ports)

DedupOne(entry) ==
  [meta |-> entry.meta, endtime |-> entry.endtime, hostnames |-> entry.hostnames,
   ports |-> DedupPorts(<<>>, entry.ports), scanned_ports |-> entry.scanned_ports]

FoldEntry(current, entry) ==
  [meta          |-> IF entry.meta # "" THEN entry.meta ELSE current.meta,
   endtime       |-> Max({current.endtime, entry.endtime}),
   hostnames     |-> current.hostnames \cup entry.hostnames,
   ports         |-> DedupPorts(current.ports, entry.ports),
   scanned_ports |-> R!MergedRanges(current.scanned_ports \cup entry.scanned_ports)]

PutEntry(merged, e) ==
  Put(merged, e.ip,
      IF e.ip \in DOMAIN merged THEN FoldEntry(merged[e.ip], e) ELSE DedupOne(e))

DedupBatch(entries) == FoldLeft(PutEntry, <<>>, entries)

-----------------------------------------------------------------------------
(* apply_import, as what a batch leaves behind.                            *)

Change(mode, batch, ip) == ApplyMode(mode, stored[ip], batch[ip])

StoredAfter(mode, batch) ==
  [ip \in Ips |-> IF ip \in DOMAIN batch THEN StoredFrom(Change(mode, batch, ip))
                                         ELSE stored[ip]]

SeenAfter(mode, batch) ==
  [ip \in Ips |->
     IF ip \notin DOMAIN batch THEN seen[ip]
     ELSE [first |-> IF stored[ip].known THEN seen[ip].first ELSE batch[ip].endtime,
           last  |-> batch[ip].endtime]]

(* Slip: rows are stamped with the time the address was first seen.        *)
RowTime_FirstSeen(ip, cs) == IF stored[ip].known THEN seen[ip].first ELSE cs.endtime

RowTime(ip, cs) == cs.endtime

HistoryRows(mode, batch) ==
  UNION {{[ip |-> ip, key |-> c.key, type |-> c.type, old |-> c.old, new |-> c.new,
           observed |-> c.observed, created_at |-> RowTime(ip, Change(mode, batch, ip))] :
            c \in Change(mode, batch, ip).changes} :
           ip \in DOMAIN batch}

UniqueKey(row) == <<row.ip, row.key, row.type, row.created_at>>

(* INSERT ... ON CONFLICT DO NOTHING on the unique key.                    *)
HistoryAfter(mode, batch) ==
  history \cup {row \in HistoryRows(mode, batch) :
                  \A old \in history : UniqueKey(old) # UniqueKey(row)}

-----------------------------------------------------------------------------
NeverSeen == [first |-> None, last |-> None]

Init ==
  /\ stored = [ip \in Ips |-> Unknown]
  /\ seen = [ip \in Ips |-> NeverSeen]
  /\ history = {}
  /\ requests = 0
  /\ clean = {}

Request == requests < MaxRequests /\ requests' = requests + 1

(* The log follows an address from an import that creates it while it has  *)
(* no rows, for as long as imports are tracked and newer than every row.   *)
StillClean(batch, tracked) ==
  {ip \in Ips :
     IF ip \notin DOMAIN batch THEN ip \in clean
     ELSE /\ tracked
          /\ \A row \in history : row.ip = ip => row.created_at < batch[ip].endtime
          /\ IF stored[ip].known THEN ip \in clean
                                 ELSE \A row \in history : row.ip # ip}

Import(mode, tracked, batch) ==
  /\ Request
  /\ stored' = StoredAfter(mode, batch)
  /\ seen' = SeenAfter(mode, batch)
  /\ history' = IF tracked THEN HistoryAfter(mode, batch) ELSE history
  /\ clean' = StillClean(batch, tracked)

ImportScan ==
  \E s \in Scans :
    /\ Parses(s.report)
    /\ Import(s.mode, s.track_history, DedupBatch(ParseReport(s.report)))

(* The validators of IPIn: ranges of ports that do not exist fail the      *)
(* request, the others are merged.                                         *)
Valid(l) == \A i \in DOMAIN l.entries : R!MergePortRanges(l.entries[i].scanned_ports) # {}

NormaliseRanges(entry) ==
  [entry EXCEPT !.scanned_ports = R!MergedRanges(entry.scanned_ports)]

Validated(l) == [i \in DOMAIN l.entries |-> NormaliseRanges(l.entries[i])]

CreateIps ==
  \E l \in Lists : Valid(l) /\ Import(l.mode, l.track_history, DedupBatch(Validated(l)))

(* delete_ips: all addresses or the listed ones.  The log stays.           *)
DeleteIps ==
  /\ Request
  /\ \E gone \in SUBSET Ips :
       /\ stored' = [ip \in Ips |-> IF ip \in gone THEN Unknown ELSE stored[ip]]
       /\ seen' = [ip \in Ips |-> IF ip \in gone THEN NeverSeen ELSE seen[ip]]
       /\ clean' = clean \ gone
  /\ UNCHANGED history

DeleteHistory ==
  /\ Request
  /\ history' = {}
  /\ clean' = {}
  /\ UNCHANGED <<stored, seen>>

(* download_report: what is stored, as a report.                           *)
IPOut(ip) ==
  [ip |-> ip, meta |-> stored[ip].meta, hostnames |-> stored[ip].hostnames,
   ports |-> stored[ip].ports, first_seen |-> seen[ip].first, last_seen |-> seen[ip].last]

DownloadReport(now) == ExportReport({IPOut(ip) : ip \in {i \in Ips : stored[i].known}}, now)

Next == ImportScan \/ CreateIps \/ DeleteIps \/ DeleteHistory

Spec == Init /\ [][Next]_vars

-----------------------------------------------------------------------------
(* Properties.                                                             *)

(* "The ips table stores open ports only" (ips/models.py); an address has  *)
(* times exactly when it is stored, and no two log rows share a key.       *)
TypeOK ==
  /\ \A ip \in Ips :
       /\ \A k \in DOMAIN stored[ip].ports : IsOpen(stored[ip].ports[k])
       /\ stored[ip].known <=> seen[ip] # NeverSeen
       /\ ~stored[ip].known => stored[ip] = Unknown
  /\ \A row, other \in history : UniqueKey(row) = UniqueKey(other) => row = other
  /\ clean \subseteq Ips /\ requests \in 0..MaxRequests

(* The log alone tells the inventory of an address it has followed: the    *)
(* open and close rows of a port alternate and the newest of them says     *)
(* whether the port is stored; the newest service row since then says what *)
(* runs on it.                                                             *)
RowsOf(ip, key, type) == {row \in history : row.ip = ip /\ row.key = key /\ row.type = type}

Newest(rows) == CHOOSE row \in rows : \A r \in rows : r.created_at <= row.created_at

HistoryTellsInventory ==
  \A ip \in clean :
    LET keys == {row.key : row \in {r \in history : r.ip = ip}}
    IN  /\ DOMAIN stored[ip].ports \subseteq keys
        /\ \A key \in keys :
             LET states   == RowsOf(ip, key, "state")
                 newest   == Newest(states)
                 services == {row \in RowsOf(ip, key, "service") :
                                row.created_at >= newest.created_at}
             IN  /\ states # {}
                 /\ \A row \in states :
                      LET earlier == {r \in states : r.created_at < row.created_at}
                      IN  row.new = IF earlier = {} \/ Newest(earlier).new = "closed"
                                    THEN "open" ELSE "closed"
                 /\ newest.new = "open" <=> key \in DOMAIN stored[ip].ports
                 /\ services # {} => stored[ip].ports[key].service = Newest(services).new

(* A worker that retries an upload whose answer was lost imports the same  *)
(* report twice in a row: the second import changes nothing, logs nothing  *)
(* and tells no consumer anything.  Stated of every report, from every     *)
(* state: importing it leaves a state that importing it again preserves.   *)
RetryIsHarmless ==
  \A s \in Scans :
    LET batch == DedupBatch(ParseReport(s.report))
    IN  \A ip \in DOMAIN batch :
          LET once  == StoredFrom(Change(s.mode, batch, ip))
              again == ApplyMode(s.mode, once, batch[ip])
          IN  /\ StoredFrom(again) = once
              /\ again.changes = {} /\ ~again.changed
              /\ BuildEvent(ip, once, again) = {}

(* Under REPLACE the inventory is what the newest import says, whatever    *)
(* came before and however late it arrives: within its coverage the open   *)
(* ports of the report, outside it the stored ones it does not call shut;  *)
(* what it leaves blank is kept.                                           *)
OpenIn(entry) == {k \in DOMAIN entry.ports : IsOpen(entry.ports[k])}

NewestReplaceWins ==
  \A s \in {t \in Scans : t.mode = "replace" /\ Parses(t.report)} :
    LET batch == DedupBatch(ParseReport(s.report))
    IN  \A ip \in DOMAIN batch :
          LET entry == batch[ip]
              after == Change("replace", batch, ip).ports
              left  == {k \in DOMAIN stored[ip].ports \ DOMAIN entry.ports :
                          ~InAnyRange(k[1], entry.scanned_ports)}
          IN  /\ DOMAIN after = OpenIn(entry) \cup left
              /\ \A k \in OpenIn(entry) :
                   after[k].service # entry.ports[k].service =>
                     entry.ports[k].service = "" /\ after[k] = stored[ip].ports[k]
              /\ \A k \in left : after[k] = stored[ip].ports[k]

(* merge_port_ranges, on whatever a report or a list may claim to have     *)
(* scanned, each range written either way round: it raises exactly when a  *)
(* bound is no port (0 counts as one), and otherwise the merged ranges     *)
(* cover the ports between the bounds of each range and no other, and are  *)
(* the minimal such cover: sorted, with a gap between any two.             *)
Between(r) == r[1]..r[2] \cup r[2]..r[1]

MinimalCover ==
  \A pairs \in Claims :
    /\ R!MergePortRanges(pairs) = {} <=>
         \E r \in pairs : \E bound \in {r[1], r[2]} : bound < 0 \/ bound > 65535
    /\ \A merged \in R!MergePortRanges(pairs) :
         /\ R!Covered(merged) = UNION {Between(r) : r \in pairs}
         /\ \A i \in 1..(Len(merged) - 1) : merged[i][2] + 1 < merged[i + 1][1]

(* So a report that finds nothing closes, of the ports of any inventory,   *)
(* those between the bounds of the ranges it claims, and no other.         *)
Accepted == {pairs \in Claims : R!MergePortRanges(pairs) # {}}

Coverages ==
  {[claimed |-> pairs, scanned_ports |-> R!MergedRanges(pairs)] : pairs \in Accepted}

MergeIsMinimalCover ==
  /\ MinimalCover
  /\ \A ip \in Ips : \A k \in DOMAIN stored[ip].ports \cap (Int \X STRING) :
       \A c \in Coverages :
         Closes(k, <<>>, c.scanned_ports) <=> \E r \in c.claimed : k[1] \in Between(r)

(* The worker's merge adds names and services and nothing else: whatever  *)
(* the service pass saw of a port -- shut by then, or not at all -- the    *)
(* merged report opens and closes exactly what the port scan alone would,  *)
(* on every inventory.                                                     *)
StateChanges(cs) == {c \in cs.changes : c.type = "state"}

MergeOpensNothing ==
  \A p \in Passes, mode \in Modes :
    LET alone  == DedupBatch(ParseReport(p.base))
        merged == DedupBatch(ParseReport(EnrichXml(p.base, p.target, p.hostnames, p.service)))
    IN  /\ DOMAIN merged = DOMAIN alone
        /\ \A ip \in DOMAIN alone :
             LET before == Change(mode, alone, ip)
                 after  == Change(mode, merged, ip)
             IN  /\ DOMAIN after.ports = DOMAIN before.ports
                 /\ StateChanges(after) = StateChanges(before)
                 /\ ip = p.target => p.hostnames \subseteq after.hostnames

(* "Round-trips through parse_report except first_seen" (export_report):   *)
(* the export of a project, imported into an empty one in any mode,        *)
(* restores every address, but for a missing status, which becomes "up".   *)
(* And an export is no scan: imported again after any scan, it closes no   *)
(* port the scan found.                                                    *)
Restored(s) == [s EXCEPT !.meta = IF @ = "" THEN "up" ELSE @]

ExportRestores ==
  LET export == DedupBatch(ParseReport(DownloadReport(1)))
      later(ip) == {stored[ip]} \cup
        {StoredFrom(Change(s.mode, DedupBatch(ParseReport(s.report)), ip)) :
           s \in {t \in Scans : Parses(t.report) /\ ip \in DOMAIN DedupBatch(ParseReport(t.report))}}
  IN  /\ DOMAIN export = {ip \in Ips : stored[ip].known}
      /\ \A ip \in DOMAIN export, mode \in Modes :
           LET cs == ApplyMode(mode, Unknown, export[ip])
           IN  /\ StoredFrom(cs) = Restored(stored[ip]) /\ cs.endtime = seen[ip].last
               /\ \A s \in later(ip) :
                    DOMAIN s.ports \subseteq DOMAIN ApplyMode(mode, s, export[ip]).ports
=============================================================================
