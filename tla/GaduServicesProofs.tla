------------------------- MODULE GaduServicesProofs -------------------------
(***************************************************************************)
(* Proofs about the services of a Gadu-Gadu account, for any messages,     *)
(* transfers, list and bounds: the sockets of transfers follow the session *)
(* and the service, what is finished is whole, and first answers stand.    *)
(***************************************************************************)
EXTENDS GaduServices, SequenceTheorems, TLAPS

-----------------------------------------------------------------------------
(* File transfers *)

\* What holds of a transfer by itself.  That there are sockets only with a known
\* size is what a file that is done needs to be whole.
Good(f) ==
  /\ f \in Transfer
  /\ f.sockets # "none" => f.handler /\ ~f.waiting /\ f.size = FileSize
  /\ f.sockets = "asking" => f.status = "WaitingForAccept"
  /\ f.sockets = "open" => f.status = "Transfer"
  /\ f.status = "Finished" => f.moved >= f.size

\* The state is Connected in a session: so an edit of the account leaves the
\* service of a session there, or removes it because it is no longer allowed.
TransfersInv ==
  /\ connected \in BOOLEAN /\ networkConnected \in BOOLEAN
  /\ allowDcc \in BOOLEAN /\ fileTransferService \in BOOLEAN
  /\ connected => networkConnected /\ (fileTransferService <=> allowDcc)
  /\ transfer \in [Transfers -> Transfer]
  /\ \A t \in Transfers :
       /\ Good(transfer[t])
       /\ transfer[t].sockets # "none" => connected /\ fileTransferService

\* A transfer that is new, or not there, is good.
LEMMA NewIsGood ==
  ASSUME NEW inList \in BOOLEAN, NEW withHandler \in BOOLEAN
  PROVE  /\ Good(NewTransfer(inList, withHandler))
         /\ NewTransfer(inList, withHandler).handler = withHandler
         /\ NewTransfer(inList, withHandler).sockets = "none"
<1>1. 0 \in 0..(FileSize + 1)
  BY TransfersAssumption
<1> QED BY <1>1 DEF Good, NewTransfer, Transfer, Statuses

LEMMA AbsentIsGood == Good(Absent) /\ Absent.sockets = "none"
  BY NewIsGood DEF Absent

\* So is one that loses its sockets,
LEMMA WithoutSocketsIsGood ==
  ASSUME NEW f, Good(f)
  PROVE  Good(WithoutSockets(f)) /\ WithoutSockets(f).sockets = "none"
  BY DEF Good, WithoutSockets, Transfer, Statuses

\* one whose handler gets sockets,
LEMMA WithSocketsIsGood ==
  ASSUME NEW f \in Transfer, f.handler
  PROVE  Good(WithSockets(f))
<1>1. 0 \in 0..(FileSize + 1)
  BY TransfersAssumption
<1>2. WithSockets(f) \in Transfer
  BY <1>1 DEF WithSockets, Transfer, Statuses
<1> QED BY <1>2 DEF Good, WithSockets

\* one that is sent by a handler,
LEMMA SentIsGood ==
  ASSUME NEW f, Good(f), f.handler, NEW g \in Sent(f)
  PROVE  /\ Good(g)
         /\ g.sockets # "none" => f.sockets # "none" \/ (connected /\ fileTransferService)
<1>1. CASE Busy(f)
  <2>1. g = f
    BY <1>1 DEF Sent
  <2> QED BY <2>1
<1>2. CASE ~Busy(f) /\ g = [f EXCEPT !.status = "NotConnected"]
  BY <1>2 DEF Good, Busy, Transfer, Statuses
<1>3. CASE ~Busy(f) /\ connected /\ fileTransferService /\ g = WithSockets(f)
  <2>1. f \in Transfer
    BY DEF Good
  <2> QED BY <1>3, <2>1, WithSocketsIsGood
<1>4. CASE /\ ~Busy(f)
           /\ g = [f EXCEPT !.status = "WaitingForConnection", !.waiting = TRUE]
  BY <1>4 DEF Good, Busy, Transfer, Statuses
<1> QED BY <1>1, <1>2, <1>3, <1>4 DEF Sent

\* one that ends,
LEMMA FinishedIsGood ==
  ASSUME NEW f, Good(f), f.sockets # "none", NEW ok \in BOOLEAN,
         ok => f.moved >= FileSize
  PROVE  Good(FinishedByHandler(f, ok)) /\ FinishedByHandler(f, ok).sockets = "none"
  BY TransfersAssumption DEF Good, FinishedByHandler, Transfer, Statuses

\* one that is stopped,
LEMMA StoppedIsGood ==
  ASSUME NEW f, Good(f)
  PROVE  Good(Stopped(f)) /\ Stopped(f).sockets = "none"
  BY DEF Good, Stopped, Transfer, Statuses

\* and one that is loaded after a restart.
LEMMA LoadedIsGood ==
  ASSUME NEW f, Good(f)
  PROVE  Good(LoadedTransfer(f)) /\ LoadedTransfer(f).sockets = "none"
<1>1. CASE ~f.listed
  BY <1>1, AbsentIsGood DEF LoadedTransfer
<1>2. CASE f.listed
  <2>1. f.moved \in Int /\ f.size \in {0, FileSize} /\ f.moved \in 0..(FileSize + 1)
    BY DEF Good, Transfer
  <2>2. LoadedTransfer(f) \in Transfer /\ LoadedTransfer(f).sockets = "none"
    BY <1>2, <2>1 DEF LoadedTransfer, NewTransfer, Transfer, Statuses
  <2>3. f.size = f.moved => f.moved >= f.size
    BY <2>1
  <2>4. /\ LoadedTransfer(f).size = f.size /\ LoadedTransfer(f).moved = f.moved
        /\ LoadedTransfer(f).status = "Finished" => f.size = f.moved
    BY <1>2 DEF LoadedTransfer, NewTransfer
  <2> QED BY <2>2, <2>3, <2>4 DEF Good
<1> QED BY <1>1, <1>2

\* One transfer becomes another good one, and nothing else changes.
LEMMA BecomesGood ==
  ASSUME TransfersInv, NEW t \in Transfers, NEW f, Good(f), Becomes(t, f),
         f.sockets # "none" => connected /\ fileTransferService,
         UNCHANGED <<connected, networkConnected, allowDcc, fileTransferService>>
  PROVE  TransfersInv'
<1>1. f \in Transfer
  BY DEF Good
<1>2. transfer' \in [Transfers -> Transfer]
  BY <1>1 DEF TransfersInv, Becomes
<1>3. ASSUME NEW u \in Transfers
      PROVE  /\ Good(transfer'[u])
             /\ transfer'[u].sockets # "none" => connected' /\ fileTransferService'
  <2>1. transfer'[u] = f \/ transfer'[u] = transfer[u]
    BY DEF TransfersInv, Becomes
  <2> QED BY <2>1 DEF TransfersInv
<1>4. \A u \in Transfers : Good(transfer[u])'
  BY <1>3 DEF Good
<1> QED BY <1>2, <1>3, <1>4 DEF TransfersInv

\* The service is deleted.
LEMMA CloseServiceGood ==
  ASSUME TransfersInv, CloseService, connected' \in BOOLEAN, networkConnected' \in BOOLEAN,
         allowDcc' \in BOOLEAN, connected' => networkConnected' /\ ~allowDcc'
  PROVE  TransfersInv'
<1>1. ASSUME NEW u \in Transfers
      PROVE  Good(transfer'[u]) /\ transfer'[u].sockets = "none" /\ transfer'[u] \in Transfer
  <2>1. transfer'[u] = WithoutSockets(transfer[u]) /\ Good(transfer[u])
    BY DEF TransfersInv, CloseService
  <2> QED BY <2>1, WithoutSocketsIsGood DEF Good
<1>2. transfer' \in [Transfers -> Transfer]
  BY <1>1 DEF CloseService
<1>3. \A u \in Transfers : Good(transfer[u])'
  BY <1>1 DEF Good
<1> QED BY <1>1, <1>2, <1>3 DEF TransfersInv, CloseService

\* The service is set up for what is so from now on.
LEMMA SetUpGood ==
  ASSUME TransfersInv, connected' \in BOOLEAN, networkConnected' \in BOOLEAN,
         allowDcc' \in BOOLEAN, connected' => networkConnected', connected => connected',
         SetUpFileTransferService(networkConnected', allowDcc')
  PROVE  TransfersInv'
<1>1. CASE networkConnected' /\ allowDcc'
  <2>1. fileTransferService' = TRUE /\ transfer' = transfer
    BY <1>1 DEF SetUpFileTransferService
  <2>2. \A u \in Transfers : Good(transfer[u])'
    BY <2>1 DEF TransfersInv, Good
  <2> QED BY <1>1, <2>1, <2>2 DEF TransfersInv
<1>2. CASE ~(networkConnected' /\ allowDcc')
  <2>1. CloseService
    BY <1>2 DEF SetUpFileTransferService
  <2> QED BY <1>2, <2>1, CloseServiceGood
<1> QED BY <1>1, <1>2

-----------------------------------------------------------------------------
(* One step per action of a transfer *)

LEMMA TransferStep ==
  ASSUME TransfersInv, TransferAction, UNCHANGED <<connected, networkConnected>>
  PROVE  TransfersInv'
<1> USE DEF TransferAction
<1>1. ASSUME NEW t \in Transfers, SendFile(t) PROVE TransfersInv'
  <2> DEFINE new == NewTransfer(TRUE, TRUE)
  <2>1. Good(new) /\ new.handler /\ new.sockets = "none"
    BY NewIsGood
  <2>2. PICK f \in Sent(new) : Becomes(t, f)
    BY <1>1 DEF SendFile
  <2>3. Good(f) /\ (f.sockets # "none" => connected /\ fileTransferService)
    BY <2>1, SentIsGood
  <2> QED BY <1>1, <2>2, <2>3, BecomesGood DEF SendFile
<1>2. ASSUME NEW t \in Transfers, AcceptFileTransfer(t) PROVE TransfersInv'
  <2>1. PICK there \in 0..(FileSize + 1) :
          Becomes(t, [transfer[t] EXCEPT !.listed = TRUE, !.status = "Transfer",
                                         !.sockets = "open", !.moved = there])
    BY <1>2 DEF AcceptFileTransfer
  <2> DEFINE f == [transfer[t] EXCEPT !.listed = TRUE, !.status = "Transfer",
                                      !.sockets = "open", !.moved = there]
  <2>2. Good(transfer[t]) /\ transfer[t].sockets = "asking" /\ connected /\ fileTransferService
    BY <1>2 DEF AcceptFileTransfer, TransfersInv
  <2>3. Good(f)
    BY <2>2 DEF Good, Transfer, Statuses
  <2> QED BY <1>2, <2>1, <2>2, <2>3, BecomesGood DEF AcceptFileTransfer
<1>3. ASSUME NEW t \in Transfers, RejectFileTransfer(t) \/ RemoveTransfer(t) PROVE TransfersInv'
  <2> QED BY <1>3, AbsentIsGood, BecomesGood DEF RejectFileTransfer, RemoveTransfer
<1>4. ASSUME NEW t \in Transfers, PauseTransfer(t) PROVE TransfersInv'
  <2>1. Good(transfer[t])
    BY DEF TransfersInv
  <2> QED BY <1>4, <2>1, StoppedIsGood, BecomesGood DEF PauseTransfer
<1>5. ASSUME NEW t \in Transfers, ContinueTransfer(t) PROVE TransfersInv'
  <2>1. /\ Good(transfer[t]) /\ transfer[t].handler
        /\ transfer[t].sockets # "none" => connected /\ fileTransferService
    BY <1>5 DEF TransfersInv, ContinueTransfer
  <2>2. PICK f \in Sent(transfer[t]) : Becomes(t, f)
    BY <1>5 DEF ContinueTransfer
  <2>3. Good(f) /\ (f.sockets # "none" => connected /\ fileTransferService)
    BY <2>1, SentIsGood
  <2> QED BY <1>5, <2>2, <2>3, BecomesGood DEF ContinueTransfer
<1>6. ASSUME NEW t \in Transfers, IncomingFile(t) PROVE TransfersInv'
  <2> DEFINE new == NewTransfer(FALSE, TRUE)
  <2>1. new \in Transfer /\ new.handler
    BY NewIsGood DEF Good
  <2>2. Good(WithSockets(new))
    BY <2>1, WithSocketsIsGood
  <2>3. Becomes(t, WithSockets(new)) /\ connected /\ fileTransferService
    BY <1>6 DEF IncomingFile
  <2> QED BY <1>6, <2>2, <2>3, BecomesGood DEF IncomingFile
<1>7. ASSUME NEW t \in Transfers, PeerAccepts(t) \/ PeerRejects(t) \/ BytesMove(t)
      PROVE  TransfersInv'
  <2>1. Good(transfer[t]) /\ connected /\ fileTransferService
    BY <1>7 DEF TransfersInv, PeerAccepts, PeerRejects, BytesMove, SocketStep
  <2>2. Good([transfer[t] EXCEPT !.sockets = "open", !.status = "Transfer"]) \/ ~PeerAccepts(t)
    BY <2>1 DEF Good, Transfer, Statuses, PeerAccepts, SocketStep
  <2>3. Good([transfer[t] EXCEPT !.sockets = "none", !.status = "Rejected"]) \/ ~PeerRejects(t)
    BY <2>1 DEF Good, Transfer, Statuses, PeerRejects, SocketStep
  <2>4. Good([transfer[t] EXCEPT !.moved = @ + 1]) \/ ~BytesMove(t)
    <3> SUFFICES ASSUME BytesMove(t) PROVE Good([transfer[t] EXCEPT !.moved = @ + 1])
      OBVIOUS
    <3>1. /\ transfer[t] \in Transfer /\ transfer[t].sockets = "open"
          /\ transfer[t].status = "Transfer"
      BY <2>1 DEF Good, BytesMove, SocketStep
    <3>2. transfer[t].moved + 1 \in 0..(FileSize + 1)
      BY <3>1, TransfersAssumption DEF Transfer, BytesMove
    <3> QED BY <2>1, <3>1, <3>2 DEF Good, Transfer
  <2> QED BY <1>7, <2>1, <2>2, <2>3, <2>4, BecomesGood
          DEF PeerAccepts, PeerRejects, BytesMove, SocketStep
<1>8. ASSUME NEW t \in Transfers, Done(t) \/ Fails(t) PROVE TransfersInv'
  <2>1. Good(transfer[t]) /\ transfer[t].sockets # "none"
    BY <1>8 DEF TransfersInv, Done, Fails, SocketStep
  <2> QED BY <1>8, <2>1, FinishedIsGood, BecomesGood DEF Done, Fails, SocketStep
<1>9. CASE AccountUpdated
  <2>1. /\ connected' = connected /\ networkConnected' = networkConnected
        /\ connected' \in BOOLEAN /\ networkConnected' \in BOOLEAN /\ allowDcc' \in BOOLEAN
        /\ connected' => networkConnected'
    BY <1>9 DEF TransfersInv, AccountUpdated
  <2>2. SetUpFileTransferService(networkConnected', allowDcc')
    BY <1>9, <2>1 DEF AccountUpdated
  <2> QED BY <2>1, <2>2, SetUpGood
<1> QED BY <1>1, <1>2, <1>3, <1>4, <1>5, <1>6, <1>7, <1>8, <1>9

LEMMA TransfersInitially == Init => TransfersInv
<1> SUFFICES ASSUME Init PROVE TransfersInv
  OBVIOUS
<1>1. Absent \in Transfer /\ Absent.sockets = "none"
  BY AbsentIsGood DEF Good
<1> QED BY <1>1, AbsentIsGood DEF Init, TransfersInit, TransfersInv

LEMMA TransfersInductive == TransfersInv /\ [Next]_vars => TransfersInv'
<1> SUFFICES ASSUME TransfersInv, [Next]_vars PROVE TransfersInv'
  OBVIOUS
<1>1. CASE Connect
  <2>1. connected' = TRUE /\ networkConnected' = TRUE /\ allowDcc' = allowDcc
    BY <1>1 DEF Connect, TransfersConnected
  <2>2. SetUpFileTransferService(networkConnected', allowDcc')
    BY <1>1, <2>1 DEF Connect, TransfersConnected
  <2> QED BY <2>1, <2>2, SetUpGood DEF TransfersInv
<1>2. CASE Disconnect
  <2>1. /\ connected' = FALSE /\ networkConnected' \in BOOLEAN
        /\ allowDcc' = allowDcc /\ CloseService
    BY <1>2 DEF Disconnect, ServicesDisconnected, TransfersDisconnected, TransfersInv
  <2> QED BY <2>1, CloseServiceGood DEF TransfersInv
<1>3. CASE Restart
  <2>1. /\ connected' = FALSE /\ networkConnected' = FALSE
        /\ allowDcc' = allowDcc /\ fileTransferService' = FALSE
        /\ transfer' = [t \in Transfers |-> LoadedTransfer(transfer[t])]
    BY <1>3 DEF Restart, TransfersRestart
  <2>2. ASSUME NEW u \in Transfers
        PROVE  Good(transfer'[u]) /\ transfer'[u].sockets = "none" /\ transfer'[u] \in Transfer
    <3>1. transfer'[u] = LoadedTransfer(transfer[u]) /\ Good(transfer[u])
      BY <2>1 DEF TransfersInv
    <3> QED BY <3>1, LoadedIsGood DEF Good
  <2>3. transfer' \in [Transfers -> Transfer]
    BY <2>1, <2>2
  <2>4. \A u \in Transfers : Good(transfer[u])'
    BY <2>2 DEF Good
  <2> QED BY <2>1, <2>2, <2>3, <2>4 DEF TransfersInv
<1>4. CASE TransferAction /\ UNCHANGED <<sessionVars, chatVars, listVars>>
  BY <1>4, TransferStep DEF sessionVars
<1>5. CASE UNCHANGED <<sessionVars, transferVars>>
  <2>1. UNCHANGED <<connected, networkConnected, allowDcc, fileTransferService, transfer>>
    BY <1>5 DEF sessionVars, transferVars
  <2>2. \A u \in Transfers : Good(transfer[u])'
    BY <2>1 DEF TransfersInv, Good
  <2> QED BY <2>1, <2>2 DEF TransfersInv
<1>6. CASE LoginBegins
  <2>1. /\ connected' = FALSE /\ networkConnected' = FALSE
        /\ UNCHANGED <<allowDcc, fileTransferService, transfer>>
    BY <1>6 DEF LoginBegins, transferVars, TransfersInv
  <2>2. \A u \in Transfers : Good(transfer[u])'
    BY <2>1 DEF TransfersInv, Good
  <2> QED BY <1>6, <2>1, <2>2 DEF TransfersInv, LoginBegins
<1> QED BY <1>1, <1>2, <1>3, <1>4, <1>5, <1>6 DEF Next, vars

LEMMA TransfersAlways == Spec => []TransfersInv
  BY TransfersInitially, TransfersInductive, PTL DEF Spec

\* GaduProtocol::setUpFileTransferService, DccSocketNotifiers: a session has the
\* service its account allows, and the sockets of transfers outlive neither,
\* whatever transfers there are.
THEOREM SocketsAlwaysFollowService == Spec => []SocketsFollowService
<1>1. TransfersInv => SocketsFollowService
  BY DEF TransfersInv, SocketsFollowService, Good
<1> QED BY <1>1, TransfersAlways, PTL

\* DccSocketNotifiers::finished, FileTransferShared::load: what is shown as
\* finished is whole, whatever the size of the files.
THEOREM FinishedIsAlwaysWhole == Spec => []FinishedIsWhole
<1>1. TransfersInv => FinishedIsWhole
  BY DEF TransfersInv, FinishedIsWhole, Good
<1> QED BY <1>1, TransfersAlways, PTL

-----------------------------------------------------------------------------
(* Messages *)

\* A message that waits for an answer has none.
ChatInv ==
  /\ status \in [Messages -> Answered \cup {"None", "Sent"}]
  /\ UndeliveredMessages \subseteq Messages
  /\ \A m \in UndeliveredMessages : status[m] = "Sent"

LEMMA AcknowledgedOnce ==
  ASSUME ChatInv, NEW m \in UndeliveredMessages, NEW ack \in AckStatuses, Acknowledge(m, ack)
  PROVE  ChatInv' /\ \A n \in Messages : status[n] \in Answered => status'[n] = status[n]
<1>1. /\ status' = [n \in Messages |-> IF n = m THEN ack ELSE status[n]]
      /\ UndeliveredMessages' = UndeliveredMessages \ {m}
  BY DEF Acknowledge, GivenUp
<1>2. status[m] = "Sent" /\ "Sent" \notin Answered /\ ack \in Answered
  BY DEF ChatInv, AckStatuses, Answered
<1> QED BY <1>1, <1>2 DEF ChatInv

LEMMA ChatStep ==
  ASSUME ChatInv, [Next]_vars
  PROVE  ChatInv' /\ \A n \in Messages : status[n] \in Answered => status'[n] = status[n]
<1>1. CASE UNCHANGED <<status, UndeliveredMessages>>
  BY <1>1 DEF ChatInv
<1>2. CASE ChatRestart
  BY <1>2 DEF ChatRestart, ChatInv
<1>3. ASSUME NEW m \in Messages, SendMessage(m),
             status' = [status EXCEPT ![m] = "Sent"],
             UndeliveredMessages' = UndeliveredMessages \cup {m}
      PROVE  ChatInv' /\ \A n \in Messages : status[n] \in Answered => status'[n] = status[n]
  <2>1. status[m] = "None" /\ "None" \notin Answered
    BY <1>3 DEF SendMessage, Answered
  <2> QED BY <1>3, <2>1 DEF ChatInv
<1>4. ASSUME NEW m \in Messages, NEW c \in RecipientsOf[m], NEW ack \in AckStatuses,
             HandleEventAck(m, c, ack)
      PROVE  ChatInv' /\ \A n \in Messages : status[n] \in Answered => status'[n] = status[n]
  <2>1. CASE m \in UndeliveredMessages
    BY <1>4, <2>1, AcknowledgedOnce DEF HandleEventAck
  <2> QED BY <1>1, <1>4, <2>1 DEF HandleEventAck
<1>5. CASE ChatAction
  BY <1>1, <1>3, <1>4, <1>5 DEF ChatAction, SendMessage
<1>6. \/ UNCHANGED <<status, UndeliveredMessages>> \/ ChatRestart \/ ChatAction
  BY DEF Next, vars, chatVars, Connect, LoginBegins, Disconnect, ServicesDisconnected, ChatDisconnected, Restart
<1> QED BY <1>1, <1>2, <1>5, <1>6

\* GaduChatService::handleEventAck: whatever the chats and the order of the
\* answers, the first one stands.
THEOREM FirstAnswerAlwaysStands == Spec => FirstAnswerStands
<1>1. Init => ChatInv
  BY DEF Init, ChatInit, ChatInv
<1>2. ChatInv /\ [Next]_vars => ChatInv'
  BY ChatStep
<1>3. ChatInv /\ [Next]_vars =>
        [\A m \in Messages : status[m] \in Answered => status'[m] = status[m]]_chatVars
  BY ChatStep
<1> QED BY <1>1, <1>2, <1>3, PTL DEF Spec, FirstAnswerStands

-----------------------------------------------------------------------------
(* The list of contacts *)

\* The first k pieces, and the rest of them.
FirstPieces(k) == [i \in 1..k |-> i]
OtherPieces(k) == [i \in 1..(Pieces - k) |-> k + i]

\* The pieces gathered and those to come make the list, unless requests overlap.
Consistent(gathered, coming) ==
  \/ coming = <<>>
  \/ coming = <<0>>
  \/ \E k \in 0..(Pieces - 1) : gathered = FirstPieces(k) /\ coming = OtherPieces(k)

ListInv ==
  /\ ImportReply \in Seq(1..Pieces) /\ replies \in Seq(0..Pieces)
  /\ alone \in BOOLEAN
  /\ alone => Consistent(ImportReply, replies)

LEMMA RequestIsConsistent ==
  ASSUME ListInv, NEW connections, ImportContactList(connections)
  PROVE  ListInv' /\ (imported' = imported)
<1>1. ImportReply' = <<>> /\ imported' = imported /\ alone' = (replies = <<>>)
  BY DEF ImportContactList, ImportFails
<1>2. Whole \in Seq(0..Pieces) /\ <<0>> \in Seq(0..Pieces)
  BY PiecesAssumption DEF Whole
<1>3. replies' \in Seq(0..Pieces)
  <2>1. replies \in Seq(0..Pieces)
    BY DEF ListInv
  <2>2. \A answer \in {Whole, <<0>>} : replies \o answer \in Seq(0..Pieces)
    BY <1>2, <2>1, ConcatProperties
  <2> QED BY <2>1, <2>2 DEF ImportContactList
<1>4. ASSUME replies = <<>> PROVE Consistent(<<>>, replies')
  <2>1. replies' = Whole \/ replies' = <<0>> \/ replies' = <<>>
    <3>1. \A answer \in {Whole, <<0>>} : <<>> \o answer = answer
      BY <1>2
    <3> QED BY <1>4, <3>1 DEF ImportContactList
  <2>2. Whole = OtherPieces(0) /\ <<>> = FirstPieces(0) /\ 0 \in 0..(Pieces - 1)
    BY PiecesAssumption DEF Whole, OtherPieces, FirstPieces
  <2> QED BY <2>1, <2>2 DEF Consistent
<1>5. <<>> \in Seq(1..Pieces) /\ alone' \in BOOLEAN
  BY <1>1
<1>6. alone' => Consistent(ImportReply', replies')
  BY <1>1, <1>4
<1>7. alone' => Consistent(ImportReply, replies)'
  BY <1>6 DEF Consistent
<1> QED BY <1>1, <1>3, <1>5, <1>7 DEF ListInv

LEMMA PieceIsConsistent ==
  ASSUME ListInv, HandleEventUserlistGetReply
  PROVE  ListInv' /\ (alone /\ imported' # imported => imported' = Whole)
<1>1. /\ replies # <<>> /\ replies' = Tail(replies) /\ alone' = alone
      /\ Head(replies) \in 0..Pieces /\ Tail(replies) \in Seq(0..Pieces)
  <2>1. replies # <<>> /\ replies' = Tail(replies) /\ alone' = alone
    BY DEF HandleEventUserlistGetReply
  <2>2. replies \in Seq(0..Pieces)
    BY DEF ListInv
  <2>3. Head(replies) \in 0..Pieces /\ Tail(replies) \in Seq(0..Pieces)
    BY <2>1, <2>2, HeadTailProperties
  <2> QED BY <2>1, <2>3
<1>2. CASE Head(replies) = 0
  <2>1. ImportReply' = ImportReply /\ imported' = imported
    BY <1>2 DEF HandleEventUserlistGetReply, ImportFails
  <2>2. ASSUME alone PROVE replies' = <<>>
    <3>1. CASE replies = <<0>>
      BY <1>1, <3>1
    <3>2. ASSUME NEW k \in 0..(Pieces - 1), replies = OtherPieces(k) PROVE FALSE
      <4>1. Head(replies) = k + 1
        BY <3>2, PiecesAssumption DEF OtherPieces
      <4> QED BY <1>2, <4>1
    <3> QED BY <1>1, <2>2, <3>1, <3>2 DEF ListInv, Consistent
  <2> QED BY <1>1, <2>1, <2>2 DEF ListInv, Consistent
<1>3. CASE Head(replies) # 0
  <2>1. /\ ImportReply' = Append(ImportReply, Head(replies))
        /\ imported' = imported \/ (Head(replies) = Pieces /\ imported' = ImportReply')
    BY <1>3 DEF HandleEventUserlistGetReply, HandOver
  <2>2. ImportReply' \in Seq(1..Pieces)
    BY <1>1, <1>3, <2>1 DEF ListInv
  <2>3. ASSUME alone
        PROVE  /\ Consistent(ImportReply', replies')
               /\ Head(replies) = Pieces => ImportReply' = Whole
    <3>1. replies # <<0>>
      BY <1>3
    <3>2. PICK k \in 0..(Pieces - 1) : ImportReply = FirstPieces(k) /\ replies = OtherPieces(k)
      BY <1>1, <2>3, <3>1 DEF ListInv, Consistent
    <3>3. Head(replies) = k + 1 /\ k + 1 \in 1..Pieces
      BY <3>2, PiecesAssumption DEF OtherPieces
    <3>4. Append(ImportReply, k + 1) = FirstPieces(k + 1)
      <4>1. ImportReply \in Seq(1..Pieces) /\ Len(ImportReply) = k
        BY <3>2 DEF FirstPieces, ListInv
      <4>2. /\ DOMAIN Append(ImportReply, k + 1) = 1..(k + 1)
            /\ \A i \in 1..(k + 1) : Append(ImportReply, k + 1)[i] = i
        BY <3>2, <4>1 DEF FirstPieces
      <4> QED BY <4>2 DEF FirstPieces
    <3>5. Tail(replies) = OtherPieces(k + 1)
      <4>1. Len(replies) = Pieces - k /\ replies \in Seq(0..Pieces)
        BY <3>2, PiecesAssumption DEF OtherPieces, ListInv
      <4>2. /\ Len(Tail(replies)) = Pieces - (k + 1)
            /\ \A i \in 1..(Pieces - (k + 1)) : Tail(replies)[i] = replies[i + 1]
        <5>1. /\ Len(Tail(replies)) = Len(replies) - 1
              /\ \A i \in 1..Len(Tail(replies)) : Tail(replies)[i] = replies[i + 1]
          BY <1>1, <4>1, HeadTailProperties
        <5>2. Len(replies) - 1 = Pieces - (k + 1)
          BY <4>1, PiecesAssumption
        <5> QED BY <5>1, <5>2
      <4>3. \A i \in 1..(Pieces - (k + 1)) : Tail(replies)[i] = OtherPieces(k + 1)[i]
        BY <3>2, <4>2, PiecesAssumption DEF OtherPieces
      <4>4. /\ OtherPieces(k + 1) \in Seq(0..Pieces)
            /\ Len(OtherPieces(k + 1)) = Pieces - (k + 1)
        BY <3>3, PiecesAssumption DEF OtherPieces
      <4> QED BY <1>1, <4>2, <4>3, <4>4, SeqEqual
    <3>6. CASE k + 1 = Pieces
      <4>1. Tail(replies) = <<>> /\ FirstPieces(k + 1) = Whole
        BY <3>5, <3>6, PiecesAssumption DEF OtherPieces, FirstPieces, Whole
      <4> QED BY <1>1, <2>1, <3>3, <3>4, <4>1 DEF Consistent
    <3>7. CASE k + 1 # Pieces
      <4>1. k + 1 \in 0..(Pieces - 1)
        BY <3>3, <3>7, PiecesAssumption
      <4> QED BY <1>1, <2>1, <3>3, <3>4, <3>5, <3>7, <4>1 DEF Consistent
    <3> QED BY <3>6, <3>7
  <2> QED BY <1>1, <2>1, <2>2, <2>3 DEF ListInv
<1> QED BY <1>2, <1>3

LEMMA ListStep ==
  ASSUME ListInv, [Next]_vars
  PROVE  ListInv' /\ (alone /\ imported' # imported => imported' = Whole)
<1>1. CASE UNCHANGED listVars
  BY <1>1 DEF listVars, ListInv
<1>2. ASSUME NEW connections, ImportContactList(connections)
      PROVE  ListInv' /\ (alone /\ imported' # imported => imported' = Whole)
  BY <1>2, RequestIsConsistent
<1>3. CASE ListDisconnected \/ ListRestart
  <2>1. <<>> \in Seq(1..Pieces) /\ <<>> \in Seq(0..Pieces)
    OBVIOUS
  <2> QED BY <1>3, <2>1 DEF ListDisconnected, ListRestart, ListInv, Consistent
<1>4. CASE HandleEventUserlistGetReply
  BY <1>4, PieceIsConsistent
<1>5. \/ UNCHANGED listVars
      \/ \E connections \in {slots, slots + 1} : ImportContactList(connections)
      \/ ListDisconnected \/ ListRestart \/ HandleEventUserlistGetReply
  BY DEF Next, vars, Connect, ListConnected, LoginBegins, Disconnect, ServicesDisconnected, Restart,
         ListAction, UserImports
<1> QED BY <1>1, <1>2, <1>3, <1>4, <1>5

\* GaduContactListService::importContactList, handleEventUserlistGetReply: the
\* list handed over is the whole list, in however many pieces it comes.
THEOREM ImportIsAlwaysWhole == Spec => ImportIsWhole
<1>1. Init => ListInv
  BY DEF Init, ListInit, ListInv, Consistent
<1>2. ListInv /\ [Next]_vars => ListInv'
  BY ListStep
<1>3. ListInv /\ [Next]_vars => [alone /\ imported' # imported => imported' = Whole]_listVars
  BY ListStep
<1> QED BY <1>1, <1>2, <1>3, PTL DEF Spec, ImportIsWhole

-----------------------------------------------------------------------------
(* Types.  The slot of contactListImported is connected once at most,      *)
(* because the first import by itself clears the flag that asks for it.    *)

BoundsOK ==
  /\ connected \in BOOLEAN /\ networkConnected \in BOOLEAN
  /\ operations \in 0..MaxOperations /\ restarts \in 0..MaxRestarts

AnswersOK ==
  /\ answers \subseteq UNION {{m} \X RecipientsOf[m] : m \in Messages}
  /\ ~connected => answers = {}

ImportOnce ==
  /\ initialRosterImport \in BOOLEAN /\ slots \in 0..1
  /\ initialRosterImport => slots = 0
  /\ imported \in Seq(1..Pieces)
  /\ ~connected => replies = <<>>

Types == BoundsOK /\ AnswersOK /\ ImportOnce

LEMMA BoundsStep == ASSUME BoundsOK, [Next]_vars PROVE BoundsOK'
<1>1. operations' \in {operations, operations + 1} /\ (operations' # operations => Operation)
  BY DEF Next, vars, Connect, LoginBegins, Disconnect, Restart, Operation,
         ChatAction, SendMessage, ListAction, UserImports, HandleEventUserlistGetReply,
         TransferAction, SendFile, AcceptFileTransfer, RejectFileTransfer, PauseTransfer,
         ContinueTransfer, RemoveTransfer, IncomingFile, PeerAccepts, PeerRejects, BytesMove,
         Done, Fails, SocketStep, AccountUpdated
<1>2. /\ connected' = connected \/ connected' \in {TRUE, FALSE}
      /\ networkConnected' = networkConnected \/ networkConnected' \in {TRUE, FALSE}
      /\ restarts' = restarts \/ (restarts < MaxRestarts /\ restarts' = restarts + 1)
  BY DEF Next, vars, Connect, LoginBegins, Disconnect, Restart, sessionVars
<1>3. operations' \in 0..MaxOperations
  BY <1>1, OperationsAssumption DEF BoundsOK, Operation, OperationsAssumption
<1>4. connected' \in BOOLEAN /\ networkConnected' \in BOOLEAN
  BY <1>2, Zenon DEF BoundsOK
<1>5. restarts' \in 0..MaxRestarts
  <2>1. restarts \in 0..MaxRestarts
    BY DEF BoundsOK
  <2>2. restarts' = restarts \/ (restarts < MaxRestarts /\ restarts' = restarts + 1)
    BY <1>2
  <2>3. MaxRestarts \in Nat
    BY RestartsAssumption DEF RestartsAssumption
  <2> QED BY <2>1, <2>2, <2>3
<1> QED BY <1>3, <1>4, <1>5 DEF BoundsOK

LEMMA AnswersStep == ASSUME AnswersOK, BoundsOK, [Next]_vars PROVE AnswersOK'
<1>1. CASE answers' = {}
  BY <1>1 DEF AnswersOK
<1>2. CASE answers' = answers /\ connected' = connected
  BY <1>2 DEF AnswersOK
<1>3. ASSUME NEW m \in Messages, SendMessage(m), connected' = connected PROVE AnswersOK'
  <2>1. connected /\ answers' = answers \cup ({m} \X RecipientsOf[m])
    BY <1>3 DEF SendMessage
  <2>2. {m} \X RecipientsOf[m] \subseteq UNION {{n} \X RecipientsOf[n] : n \in Messages}
    OBVIOUS
  <2> QED BY <1>3, <2>1, <2>2 DEF AnswersOK
<1>4. ASSUME NEW m \in Messages, NEW c \in RecipientsOf[m], NEW ack \in AckStatuses,
             HandleEventAck(m, c, ack), connected' = connected
      PROVE  AnswersOK'
  BY <1>4 DEF HandleEventAck, AnswersOK
<1>5. CASE Connect
  <2>1. ~connected /\ answers' = answers
    BY <1>5 DEF Connect, chatVars
  <2> QED BY <2>1, <1>1 DEF AnswersOK
<1>6. CASE Disconnect \/ Restart
  BY <1>1, <1>6 DEF Disconnect, ServicesDisconnected, ChatDisconnected, Restart, ChatRestart
<1>7. CASE ChatAction /\ UNCHANGED sessionVars
  BY <1>3, <1>4, <1>7 DEF ChatAction, sessionVars
<1>8. CASE UNCHANGED <<sessionVars, chatVars>>
  BY <1>2, <1>8 DEF sessionVars, chatVars
<1>9. CASE LoginBegins
  BY <1>2, <1>9 DEF LoginBegins, chatVars
<1> QED BY <1>5, <1>6, <1>7, <1>8, <1>9 DEF Next, vars

LEMMA ImportStep ==
  ASSUME ImportOnce, BoundsOK, ListInv, ListInv', [Next]_vars PROVE ImportOnce'
<1>1. CASE UNCHANGED <<connected, listVars>>
  BY <1>1 DEF listVars, ImportOnce
<1>2. CASE Connect
  <2>1. connected' = TRUE /\ ListConnected
    BY <1>2 DEF Connect
  <2>2. CASE initialRosterImport
    <3>1. initialRosterImport' = FALSE /\ ImportContactList(slots + 1) /\ slots = 0
      BY <2>1, <2>2 DEF ListConnected, ImportOnce
    <3>2. imported' = imported /\ slots' \in {0, slots + 1}
      BY <3>1 DEF ImportContactList, ImportFails
    <3>3. slots' \in 0..1
      BY <3>1, <3>2
    <3> QED BY <2>1, <3>1, <3>2, <3>3 DEF ImportOnce
  <2>3. CASE ~initialRosterImport
    BY <2>1, <2>3 DEF ListConnected, listVars, ImportOnce
  <2> QED BY <2>2, <2>3
<1>3. CASE Disconnect \/ Restart
  <2>1. /\ replies' = <<>> /\ slots' \in {0, slots} /\ imported' = imported
        /\ initialRosterImport' = initialRosterImport
    BY <1>3 DEF Disconnect, ServicesDisconnected, ListDisconnected, Restart, ListRestart
  <2> QED BY <2>1 DEF ImportOnce
<1>4. CASE UserImports /\ UNCHANGED sessionVars
  <2>1. /\ connected /\ connected' = connected /\ initialRosterImport' = initialRosterImport
        /\ imported' = imported /\ slots' \in {0, slots}
    BY <1>4 DEF UserImports, ImportContactList, ImportFails, sessionVars
  <2> QED BY <2>1 DEF ImportOnce
<1>5. CASE HandleEventUserlistGetReply /\ UNCHANGED sessionVars
  <2>1. /\ connected /\ connected' = connected /\ initialRosterImport' = initialRosterImport
        /\ slots' \in {0, slots} /\ imported' \in {imported, ImportReply'}
    BY <1>5 DEF HandleEventUserlistGetReply, ImportFails, HandOver, sessionVars
  <2>2. ImportReply' \in Seq(1..Pieces)
    BY DEF ListInv
  <2> QED BY <2>1, <2>2 DEF ImportOnce
<1>6. CASE LoginBegins
  BY <1>1, <1>6 DEF LoginBegins
<1> QED BY <1>1, <1>2, <1>3, <1>4, <1>5, <1>6 DEF Next, vars, sessionVars, ListAction

\* GaduProtocol's services: every variable keeps its type, nothing waits for an
\* answer without a session, and the slot for the imported list is connected once.
THEOREM ServicesTypeCorrect == Spec => []TypeOK
<1> DEFINE IInv == Types /\ ChatInv /\ ListInv
<1>1. Init => IInv
  <2> SUFFICES ASSUME Init PROVE IInv
    OBVIOUS
  <2>1. ChatInv /\ ListInv
    BY DEF Init, ChatInit, ChatInv, ListInit, ListInv, Consistent
  <2>2. BoundsOK
    <3>1. connected \in BOOLEAN /\ networkConnected \in BOOLEAN /\ operations = 0 /\ restarts = 0
      BY DEF Init
    <3>2. 0 \in 0..MaxOperations /\ 0 \in 0..MaxRestarts
      BY OperationsAssumption, RestartsAssumption DEF OperationsAssumption, RestartsAssumption
    <3> QED BY <3>1, <3>2, Zenon DEF BoundsOK
  <2>3. AnswersOK
    BY DEF Init, ChatInit, AnswersOK
  <2>4. ImportOnce
    BY DEF Init, ListInit, ImportOnce
  <2> QED BY <2>1, <2>2, <2>3, <2>4 DEF Types
<1>2. IInv /\ [Next]_vars => IInv'
  <2> SUFFICES ASSUME IInv, [Next]_vars PROVE IInv'
    OBVIOUS
  <2>1. ChatInv' /\ ListInv'
    BY ChatStep, ListStep
  <2>2. Types'
    BY <2>1, BoundsStep, AnswersStep, ImportStep DEF Types
  <2> QED BY <2>1, <2>2
<1>3. IInv /\ TransfersInv => TypeOK
  BY DEF Types, BoundsOK, AnswersOK, ImportOnce, ChatInv, ListInv, TransfersInv,
         TypeOK, ChatTypeOK, ListTypeOK, TransfersTypeOK
<1> HIDE DEF IInv
<1> QED BY <1>1, <1>2, <1>3, TransfersAlways, PTL DEF Spec
=============================================================================
