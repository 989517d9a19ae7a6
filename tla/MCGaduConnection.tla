-------------------------- MODULE MCGaduConnection --------------------------
(* Constants for TLC: the hub is the only server. *)
EXTENDS GaduConnection

NoFile == <<>>
=============================================================================
