-------------------------------- MODULE Ranges --------------------------------
(***************************************************************************)
(* The algorithms on port ranges under one name, for the modules whose own *)
(* names would clash with theirs.                                          *)
(***************************************************************************)
R == INSTANCE PortRanges
=============================================================================
