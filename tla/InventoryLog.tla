----------------------------- MODULE InventoryLog -----------------------------
(***************************************************************************)
(* What scanledger promises of its write path, without transactions: an    *)
(* import reconciles all its addresses with what is stored in one step and *)
(* logs exactly the events of that step; a delete removes addresses one by *)
(* one and logs nothing.                                                   *)
(***************************************************************************)
EXTENDS Integers, Functions, Reconcile

CONSTANTS Ips, Imports, Deletes

VARIABLES stored, log

Init == stored = [ip \in Ips |-> Unknown] /\ log = {}

Import(r) ==
  LET change == [ip \in Range(r.order) |-> ApplyMode(r.mode, stored[ip], r.entry[ip])]
  IN  /\ stored' = [ip \in Ips |-> IF ip \in Range(r.order)
                                   THEN StoredFrom(change[ip]) ELSE stored[ip]]
      /\ log' = log \cup UNION {BuildEvent(ip, stored[ip], change[ip]) :
                                  ip \in Range(r.order)}

(* A concurrent import may add an address the DELETE does not see: the     *)
(* listed addresses are not removed together.                              *)
Delete(r) ==
  /\ \E gone \in SUBSET Range(r.order) :
       stored' = [ip \in Ips |-> IF ip \in gone THEN Unknown ELSE stored[ip]]
  /\ UNCHANGED log

Next == (\E r \in Imports : Import(r)) \/ (\E r \in Deletes : Delete(r))

Spec == Init /\ [][Next]_<<stored, log>>
=============================================================================
