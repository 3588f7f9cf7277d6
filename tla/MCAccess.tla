------------------------------- MODULE MCAccess -------------------------------
(* Small instances of Access for TLC.                                      *)
EXTENDS Access, TLC

CONSTANT c1

MCAccounts == <<"admin", "worker">>

(* The worker's token is changed in the environment, or swapped.           *)
MCConfigs == {("admin" :> "x") @@ ("worker" :> "y"), ("admin" :> "y") @@ ("worker" :> "x")}

MCKeys == {<<"g1", 1>>, <<"g1", 0>>}
MCGenerated == <<"g1", "g2">>
=============================================================================
