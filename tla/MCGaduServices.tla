--------------------------- MODULE MCGaduServices ---------------------------
(* Constants for TLC: a message to one contact and one to a conference of two. *)
EXTENDS GaduServices

ChatContacts == [m \in {"private", "conference"} |->
                   IF m = "private" THEN {"anna"} ELSE {"anna", "bob"}]
=============================================================================
