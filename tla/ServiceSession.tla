--------------------------- MODULE ServiceSession ---------------------------
(***************************************************************************)
(* What the services of one Gadu-Gadu account share: whether there is a    *)
(* session, which is link = "up" in AccountSession, what the protocol      *)
(* takes for being connected, and a bound on what users, peers and the     *)
(* program begin.                                                          *)
(***************************************************************************)
EXTENDS Integers

CONSTANT MaxOperations   \* bound
ASSUME OperationsAssumption == MaxOperations \in Nat

VARIABLES
  connected,          \* the session with the server is up
  networkConnected,   \* Protocol::state() is NetworkConnected
  operations

Operation == operations < MaxOperations /\ operations' = operations + 1
=============================================================================
