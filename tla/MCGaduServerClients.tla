------------------------ MODULE MCGaduServerClients ------------------------
(* Constants for TLC: one address on two ports beside the hub. *)
EXTENDS GaduServerClients

OneAddress == <<"91.197.13.1">>
=============================================================================
