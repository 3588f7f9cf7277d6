------------------------------ MODULE Reconcile ------------------------------
(***************************************************************************)
(* The pure part of scanledger's import pipeline: what one import mode     *)
(* does to one IP (ips/modes.py, ips/reconcile.py) and the event that      *)
(* describes it (events/build.py).                                         *)
(*                                                                         *)
(* Data representation.                                                    *)
(*  - A port key is <<number, protocol>>.  A set of ports is a function    *)
(*    from its keys to records.  "service" stands for the three fields     *)
(*    service, product and version, which the code treats alike: a change  *)
(*    of them is recorded.  "detail", in the modules that tell it apart,   *)
(*    stands for the fields that are refreshed and never recorded          *)
(*    (service_method, cpe, tunnel, scripts and the like).                 *)
(*  - "" is a missing value (None or blank in the code).                   *)
(*  - "meta" stands for the two host fields status and os, treated alike.  *)
(*  - A stored IP carries a flag `known'; Unknown is the code's None.      *)
(*  - A list the code sorts or de-duplicates before using is a set.        *)
(***************************************************************************)
EXTENDS Integers

Unknown == [known |-> FALSE, meta |-> "", hostnames |-> {}, ports |-> <<>>]

IsOpen(port) == port.state = "open"

InAnyRange(number, ranges) == \E r \in ranges : r[1] <= number /\ number <= r[2]

-----------------------------------------------------------------------------
(* diff_ports: the partition of a report's ports against the stored ones.  *)

(* Slip: every port the report names is added.                             *)
NewOpen_Any(stored, incoming) == DOMAIN incoming \ DOMAIN stored

NewOpen(stored, incoming) ==
  {k \in DOMAIN incoming \ DOMAIN stored : IsOpen(incoming[k])}

Matched(stored, incoming) ==
  {k \in DOMAIN incoming \cap DOMAIN stored : IsOpen(incoming[k])}

Stale(stored, incoming) == DOMAIN stored \ Matched(stored, incoming)

-----------------------------------------------------------------------------
(* The history rows one change of one port writes.                         *)

Opened(k) ==
  [key |-> k, type |-> "state", old |-> "", new |-> "open", observed |-> ""]

Closed(k, observed) ==
  [key |-> k, type |-> "state", old |-> "open", new |-> "closed",
   observed |-> observed]

(* refresh_port: all fields but the key and the state are taken over; a    *)
(* blank incoming field never clears a stored one.                         *)
RefreshPort(stored, incoming) ==
  [f \in DOMAIN stored |->
     IF f = "state" \/ incoming[f] = "" THEN stored[f] ELSE incoming[f]]

(* The changes refresh_port reports: of the tracked fields only.           *)
(* Slip: a field is reported without comparing it with the stored one.     *)
FieldChanges_Always(k, stored, incoming) ==
  IF incoming.service = ""
  THEN {}
  ELSE {[key |-> k, type |-> "service", old |-> stored.service,
         new |-> incoming.service, observed |-> ""]}

FieldChanges(k, stored, incoming) ==
  IF incoming.service \in {"", stored.service}
  THEN {}
  ELSE {[key |-> k, type |-> "service", old |-> stored.service,
         new |-> incoming.service, observed |-> ""]}

(* Slip: only a port the report names is ever closed.                      *)
Closes_Named(k, incoming, ranges) == k \in DOMAIN incoming /\ ~IsOpen(incoming[k])

(* close_stale_port: the report names the port as not open, or does not    *)
(* name it and covers its number.  The ranges carry no protocol.           *)
Closes(k, incoming, ranges) ==
  IF k \in DOMAIN incoming THEN ~IsOpen(incoming[k])
                           ELSE InAnyRange(k[1], ranges)

ObservedState(k, incoming) ==
  IF k \in DOMAIN incoming THEN incoming[k].state ELSE ""

-----------------------------------------------------------------------------
Modes == {"insert", "append", "update", "replace"}

Policy(mode) ==
  [add_new_open    |-> mode \in {"append", "update", "replace"},
   refresh_matched |-> mode \in {"update", "replace"},
   close_stale     |-> mode = "replace",
   refresh_meta    |-> mode \in {"update", "replace"}]

Created(incoming) ==
  LET open == {k \in DOMAIN incoming.ports : IsOpen(incoming.ports[k])}
  IN  [created       |-> TRUE,
       changed       |-> TRUE,
       endtime       |-> incoming.endtime,
       meta          |-> incoming.meta,
       ports         |-> [k \in open |-> incoming.ports[k]],
       changes       |-> {Opened(k) : k \in open},
       hostnames     |-> incoming.hostnames,
       new_hostnames |-> incoming.hostnames]

Updated(policy, stored, incoming) ==
  LET opened    == IF policy.add_new_open
                   THEN NewOpen(stored.ports, incoming.ports) ELSE {}
      refreshed == IF policy.refresh_matched
                   THEN Matched(stored.ports, incoming.ports) ELSE {}
      closed    == {k \in Stale(stored.ports, incoming.ports) :
                      /\ policy.close_stale
                      /\ Closes(k, incoming.ports, incoming.scanned_ports)}
      changes   == {Opened(k) : k \in opened}
                   \cup {Closed(k, ObservedState(k, incoming.ports)) : k \in closed}
                   \cup UNION {FieldChanges(k, stored.ports[k], incoming.ports[k]) :
                                 k \in refreshed}
      new_names == incoming.hostnames \ stored.hostnames
      meta      == IF policy.refresh_meta /\ incoming.meta # ""
                   THEN incoming.meta ELSE stored.meta
  IN  [created       |-> FALSE,
       changed       |-> changes # {} \/ new_names # {} \/ meta # stored.meta,
       endtime       |-> incoming.endtime,
       meta          |-> meta,
       ports         |-> [k \in (DOMAIN stored.ports \cup opened) \ closed |->
                            IF k \in opened THEN incoming.ports[k]
                            ELSE IF k \in refreshed
                            THEN RefreshPort(stored.ports[k], incoming.ports[k])
                            ELSE stored.ports[k]],
       changes       |-> changes,
       hostnames     |-> stored.hostnames \cup new_names,
       new_hostnames |-> new_names]

ApplyMode(mode, stored, incoming) ==
  IF stored.known THEN Updated(Policy(mode), stored, incoming)
                  ELSE Created(incoming)

(* What the import leaves stored: the row written from a change set.       *)
StoredFrom(cs) ==
  [known |-> TRUE, meta |-> cs.meta, hostnames |-> cs.hostnames, ports |-> cs.ports]

-----------------------------------------------------------------------------
(* build_event: the payload of the outbox row of one reconciled IP, or     *)
(* none when no hostname, port or tracked field changed.  The payload      *)
(* carries the ports with all their details.  The result is a set of at    *)
(* most one payload.                                                       *)

Refs(s) == [hostnames |-> s.hostnames, ports |-> DOMAIN s.ports]

Details(s) == [hostnames |-> s.hostnames, ports |-> s.ports]

ServiceChanges(cs) == {c \in cs.changes : c.type = "service"}

BuildEvent(ip, stored, cs) ==
  IF Refs(stored) = Refs(cs) /\ ServiceChanges(cs) = {}
  THEN {}
  ELSE {[ip |-> ip, old |-> Refs(stored), current |-> Details(cs),
         services |-> ServiceChanges(cs), observed_at |-> cs.endtime]}
=============================================================================
