-------------------------- MODULE GaduContactList --------------------------
(***************************************************************************)
(* GaduContactListService and ContactListService: importing the list kept  *)
(* on the server, once by itself after the first login and whenever the    *)
(* user asks (AccountBuddyListWidget).                                     *)
(*                                                                         *)
(* The server sends the list in pieces 1..Pieces, or the empty answer 0.   *)
(* The window of the user is not followed: it may be closed and opened     *)
(* again, which enables its button, at any time.                           *)
(***************************************************************************)
EXTENDS ServiceSession, Sequences

CONSTANT Pieces   \* of the list on the server
ASSUME PiecesAssumption == Pieces \in Nat \ {0}

VARIABLES
  initialRosterImport,   \* GaduAccountDetails::initialRosterImport
  slots,                 \* connections of contactListImportedSlot
  ImportReply,           \* the pieces gathered
  replies,               \* what the server has still to send, in order
  imported,              \* the pieces of the list handed over last, <<>> before
  alone                  \* the last request was made with none unanswered

listVars == <<initialRosterImport, slots, ImportReply, replies, imported, alone>>

Whole == [i \in 1..Pieces |-> i]

ListInit ==
  /\ initialRosterImport \in BOOLEAN
  /\ slots = 0 /\ ImportReply = <<>> /\ replies = <<>>
  /\ imported = <<>> /\ alone = TRUE

\* contactListImported(true, list) or contactListImported(false): the slot
\* disconnects all its connections.
HandOver(list) == imported' = list /\ slots' = 0
ImportFails == slots' = 0 /\ UNCHANGED imported

ImportOnTop(connections) ==
  /\ ImportReply' = ImportReply
  /\ \/ /\ \E answer \in {Whole, <<0>>} : replies' = replies \o answer
        /\ slots' = connections /\ UNCHANGED imported
     \/ ImportFails /\ UNCHANGED replies
  /\ alone' = (replies = <<>>)

\* The request is sent or cannot be sent.
ImportContactList(connections) ==
  /\ ImportReply' = <<>>
  /\ \/ /\ \E answer \in {Whole, <<0>>} : replies' = replies \o answer
        /\ slots' = connections /\ UNCHANGED imported
     \/ ImportFails /\ UNCHANGED replies
  /\ alone' = (replies = <<>>)

\* startImportTransfer, also from the question whether to retry
UserImports ==
  /\ connected /\ Operation
  /\ ImportContactList(slots)
  /\ UNCHANGED initialRosterImport

HandleEventUserlistGetReply ==
  /\ connected /\ replies # <<>>
  /\ replies' = Tail(replies)
  /\ LET piece == Head(replies) IN
     IF piece = 0 THEN ImportFails /\ UNCHANGED ImportReply
     ELSE /\ ImportReply' = Append(ImportReply, piece)
          /\ IF piece = Pieces THEN HandOver(ImportReply') ELSE UNCHANGED <<imported, slots>>
  /\ UNCHANGED <<initialRosterImport, alone, operations>>

ListAction == UserImports \/ HandleEventUserlistGetReply

ListConnectedKeepsFlag ==
  /\ IF initialRosterImport THEN ImportContactList(slots + 1)
     ELSE UNCHANGED <<slots, ImportReply, replies, imported, alone>>
  /\ UNCHANGED initialRosterImport

\* socketConnSuccess: the flag is cleared whatever becomes of the import.
ListConnected ==
  IF initialRosterImport
  THEN initialRosterImport' = FALSE /\ ImportContactList(slots + 1)
  ELSE UNCHANGED listVars

\* What was asked for in a session is answered in that session.
ListDisconnected ==
  /\ replies' = <<>> /\ alone' = TRUE
  /\ UNCHANGED <<initialRosterImport, slots, ImportReply, imported>>

ListRestart ==
  /\ slots' = 0 /\ ImportReply' = <<>> /\ replies' = <<>>
  /\ alone' = TRUE
  /\ UNCHANGED <<initialRosterImport, imported>>

ListTypeOK ==
  /\ initialRosterImport \in BOOLEAN /\ slots \in 0..1 /\ alone \in BOOLEAN
  /\ ImportReply \in Seq(1..Pieces) /\ imported \in Seq(1..Pieces)
  /\ replies \in Seq(0..Pieces)
  /\ ~connected => replies = <<>>

\* A list handed over is the whole list, whatever sessions and answers were lost
\* and however many imports failed before: nothing of an earlier import is left
\* in front of it.  (Two imports at once do mix their pieces.)
ImportIsWhole ==
  [][alone /\ imported' # imported => imported' = Whole]_listVars
=============================================================================
