------------------------- MODULE GaduFileTransfers -------------------------
(***************************************************************************)
(* GaduFileTransferService, GaduFileTransferHandler and DccSocketNotifiers *)
(* with the FileTransfer objects of FileTransferManager: files sent to and *)
(* received from contacts.                                                 *)
(*                                                                         *)
(* The service goes by the network state of the protocol and by whether    *)
(* the account allows direct connections; the sockets of a transfer are    *)
(* children of the service.                                                *)
(* Objects that delete themselves later are gone before the next event.    *)
(* A peer of libgadu's making moves bytes, agrees, refuses and fails.      *)
(***************************************************************************)
EXTENDS ServiceSession

CONSTANTS Outgoing, Incoming,   \* the transfers, by TransferType
          FileSize              \* the size of every file
ASSUME TransfersAssumption == Outgoing \cap Incoming = {} /\ FileSize \in Nat \ {0}

VARIABLES
  allowDcc,              \* GaduAccountDetails::allowDcc
  fileTransferService,   \* there is a CurrentFileTransferService
  transfer               \* transfer -> its FileTransfer, handler and sockets

transferVars == <<allowDcc, fileTransferService, transfer>>

Transfers == Outgoing \cup Incoming

Statuses == {"NotConnected", "WaitingForConnection", "WaitingForAccept", "Transfer",
             "Finished", "Rejected"}

\* listed: an item of FileTransferManager.  sockets: no DccSocketNotifiers, one
\* that asks, one that was agreed to.  size, moved: FileSize, TransferredSize;
\* FileSize + 1 bytes stand for more than there are.
Transfer == [listed : BOOLEAN, handler : BOOLEAN, waiting : BOOLEAN, status : Statuses,
             sockets : {"none", "asking", "open"}, size : {0, FileSize}, moved : 0..(FileSize + 1)]

NewTransfer(inList, withHandler) ==
  [listed |-> inList, handler |-> withHandler, waiting |-> FALSE, status |-> "NotConnected",
   sockets |-> "none", size |-> 0, moved |-> 0]

Absent == NewTransfer(FALSE, FALSE)

Exists(t) == transfer[t].listed \/ transfer[t].handler

Becomes(t, f) == transfer' = [transfer EXCEPT ![t] = f]

TransfersInit ==
  /\ allowDcc \in BOOLEAN /\ fileTransferService = FALSE
  /\ transfer = [t \in Transfers |-> Absent]

-----------------------------------------------------------------------------
(* The service *)

\* Deleting the service deletes the sockets, which tells the handlers
\* (socketNotifiersDeleted); the statuses stay.
WithoutSockets(f) == [f EXCEPT !.sockets = "none"]

CloseWithoutSockets == fileTransferService' = FALSE /\ UNCHANGED transfer

CloseService ==
  /\ fileTransferService' = FALSE
  /\ transfer' = [t \in Transfers |-> WithoutSockets(transfer[t])]

\* setUpFileTransferService, given what it goes by
SetUpFileTransferService(up, allowed) ==
  IF up /\ allowed
  THEN fileTransferService' = TRUE /\ UNCHANGED transfer
  ELSE CloseService

-----------------------------------------------------------------------------
(* GaduFileTransferHandler *)

\* setFileTransferNotifiers
WithSockets(f) ==
  [listed |-> f.listed, handler |-> f.handler, waiting |-> FALSE,
   status |-> "WaitingForAccept", sockets |-> "asking", size |-> FileSize, moved |-> 0]

Busy(f) == f.sockets # "none" \/ f.waiting

\* What send makes of a transfer.  Without a service the call the handler waits
\* for is never made; without a session libgadu refuses.
Sent(f) ==
  IF Busy(f) THEN {f}
  ELSE {[f EXCEPT !.status = "NotConnected"]}     \* the contact is gone, or libgadu refuses
       \cup {g \in {WithSockets(f)} : fileTransferService /\ connected}
       \cup {g \in {[f EXCEPT !.status = "WaitingForConnection", !.waiting = TRUE]} :
               ~fileTransferService}

FinishedAnyway(f, ok) == [f EXCEPT !.sockets = "none", !.status = "Finished"]

FinishedByHandler(f, ok) ==
  [f EXCEPT !.sockets = "none", !.status = IF ok THEN "Finished" ELSE "NotConnected"]

Stopped(f) == [f EXCEPT !.sockets = "none", !.status = "NotConnected"]

-----------------------------------------------------------------------------
(* The user *)

\* selectFilesAndSend
SendFile(t) ==
  /\ t \in Outgoing /\ ~Exists(t) /\ fileTransferService
  /\ Operation
  /\ \E f \in Sent(NewTransfer(TRUE, TRUE)) : Becomes(t, f)
  /\ UNCHANGED <<allowDcc, fileTransferService>>

\* acceptFileTransfer, with a file the user chose.  (Without sockets accept would
\* dereference a null pointer: see the README.)
AcceptFileTransfer(t) ==
  /\ t \in Incoming /\ transfer[t].handler /\ ~transfer[t].listed
  /\ transfer[t].sockets = "asking"
  /\ \E there \in 0..(FileSize + 1) :     \* of the file when it is resumed
       Becomes(t, [transfer[t] EXCEPT !.listed = TRUE, !.status = "Transfer",
                                      !.sockets = "open", !.moved = there])
  /\ UNCHANGED <<allowDcc, fileTransferService, operations>>

\* rejectFileTransfer, or no file chosen: the handler goes, and nothing else
\* keeps the transfer.
RejectFileTransfer(t) ==
  /\ t \in Incoming /\ transfer[t].handler /\ ~transfer[t].listed
  /\ Becomes(t, Absent)
  /\ UNCHANGED <<allowDcc, fileTransferService, operations>>

\* The widget of a transfer.  A handler is not made again for what was loaded.
PauseTransfer(t) ==
  /\ transfer[t].listed /\ transfer[t].handler
  /\ transfer[t].status = "Transfer" /\ transfer[t].sockets # "none"
  /\ Becomes(t, Stopped(transfer[t]))
  /\ UNCHANGED <<allowDcc, fileTransferService, operations>>

\* The button is hidden in the other statuses; only a TypeSend is restored.
ContinueTransfer(t) ==
  /\ t \in Outgoing /\ transfer[t].listed /\ transfer[t].handler
  /\ transfer[t].status \in {"NotConnected", "WaitingForConnection", "WaitingForAccept"}
  /\ Operation
  /\ \E f \in Sent(transfer[t]) : Becomes(t, f)
  /\ UNCHANGED <<allowDcc, fileTransferService>>

\* Also cleanUp, for what is finished.  What is not is stopped first.
RemoveTransfer(t) ==
  /\ transfer[t].listed
  /\ Becomes(t, Absent)
  /\ UNCHANGED <<allowDcc, fileTransferService, operations>>

\* accountUpdated, whatever was edited
AccountUpdated ==
  /\ allowDcc' \in BOOLEAN
  /\ SetUpFileTransferService(networkConnected, allowDcc')
  /\ UNCHANGED operations

-----------------------------------------------------------------------------
(* Peers and sockets *)

\* handleEventDcc7New and incomingFileTransfer, for an acceptable peer
IncomingFile(t) ==
  /\ t \in Incoming /\ ~Exists(t) /\ connected /\ fileTransferService
  /\ Operation
  /\ Becomes(t, WithSockets(NewTransfer(FALSE, TRUE)))
  /\ UNCHANGED <<allowDcc, fileTransferService>>

SocketStep(t, from, f) ==
  /\ transfer[t].sockets \in from
  /\ Becomes(t, f)
  /\ UNCHANGED <<allowDcc, fileTransferService, operations>>

PeerAccepts(t) ==
  t \in Outgoing /\ SocketStep(t, {"asking"}, [transfer[t] EXCEPT !.sockets = "open", !.status = "Transfer"])

PeerRejects(t) ==
  t \in Outgoing /\ SocketStep(t, {"asking"}, [transfer[t] EXCEPT !.sockets = "none", !.status = "Rejected"])

BytesMove(t) ==
  transfer[t].moved < FileSize /\ SocketStep(t, {"open"}, [transfer[t] EXCEPT !.moved = @ + 1])

\* GG_EVENT_DCC7_DONE
Done(t) ==
  transfer[t].moved >= FileSize /\ SocketStep(t, {"open"}, FinishedByHandler(transfer[t], TRUE))

\* GG_EVENT_DCC7_ERROR, no event, a timeout
Fails(t) == SocketStep(t, {"asking", "open"}, FinishedByHandler(transfer[t], FALSE))

-----------------------------------------------------------------------------
TransferAction ==
  \/ \E t \in Transfers :
       \/ SendFile(t) \/ AcceptFileTransfer(t) \/ RejectFileTransfer(t)
       \/ PauseTransfer(t) \/ ContinueTransfer(t) \/ RemoveTransfer(t)
       \/ IncomingFile(t)
       \/ PeerAccepts(t) \/ PeerRejects(t) \/ BytesMove(t) \/ Done(t) \/ Fails(t)
  \/ AccountUpdated

\* networkConnected, networkDisconnected
TransfersConnected == SetUpFileTransferService(TRUE, allowDcc) /\ UNCHANGED allowDcc
TransfersDisconnected == CloseService /\ UNCHANGED allowDcc

\* What is listed is stored at the end and loaded again, as finished when its
\* sizes are equal, also when both are 0.
LoadedTransfer(f) ==
  IF ~f.listed THEN Absent
  ELSE [NewTransfer(TRUE, FALSE) EXCEPT
          !.size = f.size, !.moved = f.moved,
          !.status = IF f.size = f.moved THEN "Finished" ELSE @]

TransfersRestart ==
  /\ fileTransferService' = FALSE
  /\ transfer' = [t \in Transfers |-> LoadedTransfer(transfer[t])]
  /\ UNCHANGED allowDcc

TransfersTypeOK ==
  /\ allowDcc \in BOOLEAN /\ fileTransferService \in BOOLEAN
  /\ transfer \in [Transfers -> Transfer]

\* Through logins, lost sessions, edits of the account and restarts, in a session
\* the service is there exactly while the account allows it, and the sockets of a
\* transfer outlive neither the session nor the service; while there are sockets
\* their state is the one shown, and their handler waits for no others.  (Without
\* a session there may be a service: an edit goes by the network state, which a
\* lost session can leave at Connected.)
SocketsFollowService ==
  /\ connected => (fileTransferService <=> allowDcc)
  /\ \A t \in Transfers :
       /\ transfer[t].sockets # "none" =>
            connected /\ fileTransferService /\ transfer[t].handler /\ ~transfer[t].waiting
       /\ transfer[t].sockets = "asking" => transfer[t].status = "WaitingForAccept"
       /\ transfer[t].sockets = "open" => transfer[t].status = "Transfer"

\* What is shown as finished was moved to the last byte, in this run of the
\* program or an earlier one, in one go or after pauses, failures and lost
\* sessions.  (Or its size was never known: 0 of 0 bytes count as all.  And of a
\* file that was resumed, what the user had there counts as moved.)
FinishedIsWhole ==
  \A t \in Transfers :
    transfer[t].status = "Finished" => transfer[t].moved >= transfer[t].size
=============================================================================
