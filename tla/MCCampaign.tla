---------------------------- MODULE MCCampaign ----------------------------
(* Small instances of Campaign for TLC.                                    *)
EXTENDS Campaign

CONSTANTS a, b

Scan(mode, ips) == [mode |-> mode, ips |-> ips]

(* A scan of an address, and an INSERT scan of two, one batch each, that   *)
(* shares it.                                                              *)
UpdateAndInsert == <<Scan("update", {a}), Scan("insert", {a, b})>>

ByScan(s) == [kind |-> "scan", scan |-> s, ips |-> {}]
ByIps(ips) == [kind |-> "ips", scan |-> 0, ips |-> ips]

Known == {{a}}

MCCancels == {ByScan(1), ByIps({a})}
=============================================================================
