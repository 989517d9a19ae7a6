------------------------------ MODULE GaduChat ------------------------------
(***************************************************************************)
(* GaduChatService: outgoing messages and the server's acknowledgements.   *)
(*                                                                         *)
(* A message is the value libgadu gives as its id.  The server may answer  *)
(* a message once for each recipient, in any order, in the session it was  *)
(* sent in.  What filters stop, what is too long and what libgadu refuses  *)
(* changes nothing and is left out.                                        *)
(***************************************************************************)
EXTENDS ServiceSession

CONSTANTS Messages,
          RecipientsOf   \* message -> the contacts of its chat; several in a conference

VARIABLES
  status,                \* message -> Message::status of what is shown of it
  UndeliveredMessages,
  answers                \* <<message, contact>>: the server has still to answer

chatVars == <<status, UndeliveredMessages, answers>>

Answered == {"Delivered", "WontDeliver", "Unknown"}

ChatInit ==
  /\ status = [m \in Messages |-> "None"]
  /\ UndeliveredMessages = {} /\ answers = {}

\* What the acknowledgements say, DELIVERED or QUEUED, then BLOCKED, MBOXFULL or
\* NOT_DELIVERED, and anything else.
AckStatuses == Answered

\* removeTimeoutUndeliveredMessages compares with a QDateTime that was never
\* set, which comes before every date: nothing is ever given up.
GivenUp == {}

\* A silent message is neither shown nor remembered.
SendMessage(m) ==
  /\ connected /\ status[m] = "None" /\ ~\E c \in RecipientsOf[m] : <<m, c>> \in answers
  /\ Operation
  /\ answers' = answers \cup ({m} \X RecipientsOf[m])
  /\ \/ /\ status' = [status EXCEPT ![m] = "Sent"]
        /\ UndeliveredMessages' = UndeliveredMessages \cup {m}
     \/ UNCHANGED <<status, UndeliveredMessages>>

AcknowledgeEachRecipient(m, ack) ==
  /\ status' = [status EXCEPT ![m] = ack]
  /\ UNCHANGED UndeliveredMessages

Acknowledge(m, ack) ==
  /\ status' = [n \in Messages |-> IF n = m THEN ack
                                   ELSE IF n \in GivenUp THEN "WontDeliver" ELSE status[n]]
  /\ UndeliveredMessages' = UndeliveredMessages \ ({m} \cup GivenUp)

HandleEventAck(m, c, ack) ==
  /\ connected /\ <<m, c>> \in answers
  /\ answers' = answers \ {<<m, c>>}
  /\ IF m \in UndeliveredMessages
     THEN Acknowledge(m, ack)
     ELSE UNCHANGED <<status, UndeliveredMessages>>

ChatAction ==
  \/ \E m \in Messages : SendMessage(m)
  \/ /\ \E m \in Messages : \E c \in RecipientsOf[m], ack \in AckStatuses : HandleEventAck(m, c, ack)
     /\ UNCHANGED operations

\* The session is gone, the service stays.
ChatDisconnected == answers' = {} /\ UNCHANGED <<status, UndeliveredMessages>>

ChatRestart == answers' = {} /\ UndeliveredMessages' = {} /\ UNCHANGED status

ChatTypeOK ==
  /\ status \in [Messages -> Answered \cup {"None", "Sent"}]
  /\ UndeliveredMessages \subseteq Messages
  /\ answers \subseteq UNION {{m} \X RecipientsOf[m] : m \in Messages}
  /\ ~connected => answers = {}

\* A conference is answered once for each recipient, but what is shown of the
\* message is the first answer; later ones, in this session or after an answer
\* was lost with its session, do not change it.
FirstAnswerStands ==
  [][\A m \in Messages :
       status[m] \in Answered => status'[m] = status[m]]_chatVars
=============================================================================
