---------------------------- MODULE MCAvatarJobs ----------------------------
(* Constants for TLC: two contacts of one account and one of another. *)
EXTENDS AvatarJobs

Contacts == {"ala", "bob", "eve"}
Accounts == {"gadu", "jabber"}
Owners == [c \in Contacts |-> IF c = "eve" THEN "jabber" ELSE "gadu"]
=============================================================================
