---------------------------- MODULE GaduServices ----------------------------
(***************************************************************************)
(* The services of a Gadu-Gadu account together, under sessions that come  *)
(* and go (AccountSession), and restarts of the program.                   *)
(***************************************************************************)
EXTENDS GaduChat, GaduContactList, GaduFileTransfers

CONSTANT MaxRestarts   \* bound
ASSUME RestartsAssumption == MaxRestarts \in Nat

VARIABLE restarts

sessionVars == <<connected, networkConnected, restarts>>
vars == <<sessionVars, operations, chatVars, listVars, transferVars>>

Init ==
  /\ connected = FALSE /\ networkConnected = FALSE /\ operations = 0 /\ restarts = 0
  /\ ChatInit /\ ListInit /\ TransfersInit

\* socketConnSuccess
Connect ==
  /\ ~connected
  /\ connected' = TRUE /\ networkConnected' = TRUE
  /\ TransfersConnected
  /\ ListConnected
  /\ UNCHANGED <<chatVars, operations, restarts>>

ServicesDisconnected == TransfersDisconnected /\ ListDisconnected /\ ChatDisconnected

\* networkDisconnected, whatever the reason, also of a login that fails.  When it
\* would try again but the user wants to be offline, the state stays what it was.
Disconnect ==
  /\ connected' = FALSE /\ networkConnected' \in {FALSE, networkConnected}
  /\ ServicesDisconnected
  /\ UNCHANGED <<operations, restarts>>

\* login sets the state to NetworkConnecting and leaves a service that is there.
LoginBegins ==
  /\ ~connected
  /\ networkConnected' = FALSE
  /\ UNCHANGED <<connected, restarts, operations, chatVars, listVars, transferVars>>

\* An orderly end, and another start.
Restart ==
  /\ restarts < MaxRestarts /\ restarts' = restarts + 1
  /\ connected' = FALSE /\ networkConnected' = FALSE
  /\ TransfersRestart /\ ListRestart /\ ChatRestart
  /\ UNCHANGED operations

Next ==
  \/ Connect
  \/ Disconnect
  \/ LoginBegins
  \/ Restart
  \/ ChatAction /\ UNCHANGED <<sessionVars, listVars, transferVars>>
  \/ ListAction /\ UNCHANGED <<sessionVars, chatVars, transferVars>>
  \/ TransferAction /\ UNCHANGED <<sessionVars, chatVars, listVars>>

Spec == Init /\ [][Next]_vars

TypeOK ==
  /\ connected \in BOOLEAN /\ networkConnected \in BOOLEAN
  /\ operations \in 0..MaxOperations /\ restarts \in 0..MaxRestarts
  /\ ChatTypeOK /\ ListTypeOK /\ TransfersTypeOK
=============================================================================
