-------------------------- MODULE MCHistorySaving --------------------------
(* Constants for TLC: import threads are named by strings, as the save thread. *)
EXTENDS HistorySaving

OneImporter == {"import1"}
=============================================================================
