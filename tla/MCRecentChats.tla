--------------------------- MODULE MCRecentChats ---------------------------
(* Constants for TLC: chats are interchangeable. *)
EXTENDS RecentChats, TLC

Symmetry == Permutations(Chats)
=============================================================================
