-------------------------- MODULE JabberConnection --------------------------
(***************************************************************************)
(* One XMPP account going online and offline: JabberProtocol, the client   *)
(* object it drives, the request for the roster on which the first         *)
(* presence of a session waits, the retry timers, and the two kinds of     *)
(* modal windows that hold a handler up: for a password and for a server   *)
(* certificate.  Everything runs in one event loop; what interleaves is    *)
(* the user, the idle detector, the timers, the windows and the streams.   *)
(*                                                                         *)
(* The XMPP library is external: a stream that is no longer the client's   *)
(* keeps reporting to the client, and so does a request for a session that *)
(* was sent over it; what was deleted is silent.  Left out: the Invisible  *)
(* status, which XMPP has not; an account without an ID, which the editor  *)
(* refuses; a Qt without TLS; a handler that goes through a null pointer,  *)
(* called by such a stream when there is no client: the program ends.      *)
(***************************************************************************)
EXTENDS Integers, Statuses

CONSTANTS UserTypes,           \* the status types the user picks from
          UserModes,           \* the idle modes the user falls into
          MaxRetries,          \* bound on pending retries
          MaxPasswordWindows,  \* bound on password windows, and on queued requests for one
          MaxQuestions,        \* bound on certificate questions
          MaxAbandoned         \* bound on streams a later login has replaced

JabberAssumption ==
  /\ UserTypes \subseteq StatusTypes \ {"Invisible"}
  /\ UserModes \subseteq IdleModes \ {"Invisible"}
  /\ MaxRetries \in Nat /\ MaxPasswordWindows \in Nat
  /\ MaxQuestions \in Nat /\ MaxAbandoned \in Nat
ASSUME JabberAssumption

VARIABLES
  manual, idle,     \* the status the user chose, and what idleness makes of it
  state,            \* Protocol::State
  current,          \* Protocol::CurrentStatus
  client,           \* the client: "none", "logging" in, "asking" about a certificate, "broken",
                    \* "starting" its session once it is authenticated, "up"
  abandoned,        \* streams of earlier logins, replaced while they were still alive
  sessions,         \* requests for a session (JT_Session) that replaced clients have running
  InRequest,        \* JabberRosterService::InRequest
  rosterAsked,      \* the present session owes an answer to a roster request
  announced,        \* the present session has sent a presence
  questions,        \* open certificate questions
  refusals,         \* questions closed by a disconnect, whose logout is still to run
  retries,          \* pending QTimer::singleShot(1000, login)
  passwordErrors,   \* queued invalidPassword signals
  passwordWindows,  \* open password windows
  cancelled,        \* the password windows that hold up a cancelled one, by their places
  hasPassword       \* account data

clientVars == <<client, abandoned, sessions, rosterAsked, announced>>
questionVars == <<questions, refusals>>
vars == <<manual, idle, state, current, clientVars, InRequest, questionVars, retries,
          passwordErrors, passwordWindows, cancelled, hasPassword>>

\* Protocol::nextStatus
nextStatus == Changed(idle, manual)

Offline(s) == [s EXCEPT !.type = "Offline"]

Init ==
  /\ manual = OfflineStatus /\ current = OfflineStatus /\ idle = "NoChange"
  /\ state = "Disconnected"
  /\ client = "none" /\ abandoned = 0 /\ sessions = 0 /\ rosterAsked = FALSE /\ announced = FALSE
  /\ InRequest = FALSE
  /\ questions = 0 /\ refusals = 0 /\ retries = 0
  /\ passwordErrors = 0 /\ passwordWindows = 0 /\ cancelled = {}
  /\ hasPassword \in BOOLEAN

-----------------------------------------------------------------------------
(* The client.                                                             *)

\* JabberClient::cleanUp
CleanUp ==
  client' = "none" /\ rosterAsked' = FALSE /\ announced' = FALSE

\* JabberClient::isConnected, of a client in state c: what is sent goes out.
Active(c) == c \in {"starting", "up"}

\* A stream that is replaced before it ended, and the session it asked for, go
\* on without their owner.
Replaced == IF client \in {"logging", "asking", "starting"} THEN 1 ELSE 0

ReplacedSession == IF client = "starting" THEN 1 ELSE 0

\* networkStateChanged(NetworkDisconnected) with q questions open and f
\* refused: its signal closes the questions.
ShowDisconnected(q, f) ==
  /\ state' = "Disconnected"
  /\ IF state = "Disconnected"
     THEN questions' = q /\ refusals' = f
     ELSE questions' = 0 /\ refusals' = f + q
  /\ questions' + refusals' <= MaxQuestions

\* connectToServer, with "windows" password windows open besides its own.
ConnectToServer(password, windows) ==
  \/ /\ password
     /\ state' = "Connecting" /\ client' = "logging"
     /\ abandoned + Replaced <= MaxAbandoned
     /\ abandoned' = abandoned + Replaced
     /\ sessions + ReplacedSession <= MaxAbandoned
     /\ sessions' = sessions + ReplacedSession
     /\ passwordWindows' = windows
     /\ UNCHANGED <<rosterAsked, announced>>
  \/ /\ ~password
     /\ windows < MaxPasswordWindows
     /\ passwordWindows' = windows + 1
     /\ UNCHANGED <<state, clientVars>>

-----------------------------------------------------------------------------
(* Following the status: changeStatus, reached when r is announced.        *)

\* Mutant of SetPresence: the client is left alone.
SetPresenceKeepsClient(r) ==
  /\ current' = r
  /\ IF IsDisconnected(r)
     THEN ShowDisconnected(questions, refusals) /\ UNCHANGED <<client, rosterAsked, announced>>
     ELSE announced' = Active(client) /\ UNCHANGED <<state, client, rosterAsked, questionVars>>
  /\ UNCHANGED <<abandoned, sessions, passwordWindows>>

\* A client that is not active sends nothing.
SetPresence(r) ==
  /\ current' = r
  /\ IF IsDisconnected(r)
     THEN CleanUp /\ ShowDisconnected(questions, refusals)
     ELSE announced' = Active(client) /\ UNCHANGED <<state, client, rosterAsked, questionVars>>
  /\ UNCHANGED <<abandoned, sessions, passwordWindows>>

BothDisconnected(r) == IsDisconnected(r) /\ IsDisconnected(current)

Unchanged == UNCHANGED <<state, clientVars, questionVars, passwordWindows>>

\* Offline with another description ends "connecting", but not the client.
ChangeDescription(r) ==
  /\ current' = r
  /\ IF state = "Connecting"
     THEN ShowDisconnected(questions, refusals)
     ELSE UNCHANGED <<state, questionVars>>
  /\ UNCHANGED <<clientVars, passwordWindows>>

ChangeStatus(r) ==
  IF r = current THEN Unchanged /\ UNCHANGED current
  ELSE \/ BothDisconnected(r) /\ ChangeDescription(r)
       \/ /\ ~BothDisconnected(r)
          /\ \/ state = "Connecting" /\ Unchanged /\ UNCHANGED current
             \/ /\ state = "Disconnected"
                /\ ConnectToServer(hasPassword, passwordWindows)
                /\ UNCHANGED <<current, questionVars>>
             \/ state = "Connected" /\ SetPresence(r)

\* status() is shown online while there is no connection; setting it offline
\* makes changeStatus log in.
LogsInAgain == state = "Disconnected" /\ ~IsDisconnected(current)

\* logout(), with a abandoned streams, q open and f refused questions.  A
\* login made on the way is closed at once.  (Where it would ask for a
\* password first, which takes the password to be cleared in the second
\* before a retry, it is not followed.)
Logout(a, q, f) ==
  /\ LogsInAgain => hasPassword
  /\ manual' = IF IsDisconnected(current) THEN manual ELSE Offline(current)
  /\ current' = IF state = "Connected" THEN Offline(current) ELSE current
  /\ abandoned' = IF LogsInAgain THEN a + Replaced ELSE a
  /\ abandoned' <= MaxAbandoned
  /\ sessions' = IF LogsInAgain THEN sessions + ReplacedSession ELSE sessions
  /\ sessions' <= MaxAbandoned
  /\ CleanUp
  /\ IF LogsInAgain
     THEN /\ state' = "Disconnected" /\ questions' = 0 /\ refusals' = f + q
          /\ refusals' <= MaxQuestions
     ELSE ShowDisconnected(q, f)

-----------------------------------------------------------------------------
(* The user.  Both kinds of windows are modal.                             *)

NoWindow == passwordWindows = 0 /\ questions = 0 /\ refusals = 0

\* StatusMenu: the shown status with another type.
UserSetsType(type) ==
  LET s == [current EXCEPT !.type = type] IN
  /\ NoWindow
  /\ manual' = s
  /\ ChangeStatus(Changed(idle, s))
  /\ UNCHANGED <<idle, InRequest, retries, passwordErrors, cancelled, hasPassword>>

\* BaseStatusContainer::setDescription: the shown status with another text.
UserSetsDescription(d) ==
  LET s == [current EXCEPT !.description = d] IN
  /\ NoWindow
  /\ manual' = s
  /\ ChangeStatus(Changed(idle, s))
  /\ UNCHANGED <<idle, InRequest, retries, passwordErrors, cancelled, hasPassword>>

\* JabberEditAccountWidget::apply: nothing is told to the connection.
UserEditsAccount(password) ==
  /\ NoWindow
  /\ hasPassword' = password
  /\ UNCHANGED <<manual, idle, state, current, clientVars, InRequest, questionVars, retries,
                 passwordErrors, passwordWindows, cancelled>>

\* What the topmost password window leaves, as it closes, of the handler that
\* it held up.
Unwound ==
  /\ cancelled' = cancelled \ {passwordWindows}
  /\ current' = IF passwordWindows \in cancelled THEN Offline(current) ELSE current

\* login(password, permanent)
PasswordEntered ==
  /\ passwordWindows > 0
  /\ \/ /\ state = "Connected"
        /\ passwordWindows' = passwordWindows - 1
        /\ UNCHANGED <<state, clientVars, hasPassword>>
     \/ /\ state # "Connected"
        /\ hasPassword' = TRUE
        /\ ConnectToServer(TRUE, passwordWindows - 1)
  /\ Unwound
  /\ UNCHANGED <<manual, idle, InRequest, questionVars, retries, passwordErrors>>

\* The Cancel button.  Setting the status offline may log in, or ask again,
\* before the status is shown as offline.
PasswordCancelled ==
  /\ passwordWindows > 0
  /\ \/ /\ state = "Connected"
        /\ passwordWindows' = passwordWindows - 1
        /\ Unwound
        /\ UNCHANGED <<manual, state, clientVars>>
     \/ /\ state # "Connected"
        /\ manual' = Offline(current)
        /\ \/ /\ ~LogsInAgain
              /\ passwordWindows' = passwordWindows - 1
              /\ UNCHANGED <<state, clientVars>>
           \/ /\ LogsInAgain
              /\ ConnectToServer(hasPassword, passwordWindows - 1)
        /\ IF LogsInAgain /\ ~hasPassword
           THEN cancelled' = cancelled \cup {passwordWindows} /\ UNCHANGED current
           ELSE cancelled' = cancelled \ {passwordWindows} /\ current' = Offline(current)
  /\ UNCHANGED <<idle, InRequest, questionVars, retries, passwordErrors, hasPassword>>

\* The window is closed by its frame: nothing is emitted.
PasswordWindowClosed ==
  /\ passwordWindows > 0
  /\ passwordWindows' = passwordWindows - 1
  /\ Unwound
  /\ UNCHANGED <<manual, idle, state, clientVars, InRequest, questionVars, retries,
                 passwordErrors, hasPassword>>

\* "Connect anyway".  The answer goes to the TLS handler of the present
\* client, whichever login had asked.  (Without a client there is none.)
CertificateAccepted ==
  /\ questions > 0 /\ client # "none"
  /\ questions' = questions - 1
  /\ client' = IF client = "asking" THEN "logging" ELSE client
  /\ UNCHANGED <<manual, idle, state, current, abandoned, sessions, rosterAsked, announced,
                 InRequest, refusals, retries, passwordErrors, passwordWindows, cancelled, hasPassword>>

CertificateRejected ==
  /\ \/ questions > 0 /\ Logout(abandoned, questions - 1, refusals)
     \/ refusals > 0 /\ Logout(abandoned, questions, refusals - 1)
  /\ UNCHANGED <<idle, InRequest, retries, passwordErrors, passwordWindows, cancelled,
                 hasPassword>>

-----------------------------------------------------------------------------
(* Timers and queued signals.                                              *)

\* AutoAway::checkIdleTime, then the status manager for this account.
IdleChanges(mode) ==
  /\ mode # "NoChange" \/ idle # "NoChange"
  /\ idle' = mode
  /\ ChangeStatus(Changed(mode, manual))
  /\ UNCHANGED <<manual, InRequest, retries, passwordErrors, cancelled, hasPassword>>

\* Mutant of LoginTimer: gives up while another login is under way.
LoginTimerGivesUp ==
  /\ retries > 0
  /\ retries' = retries - 1
  /\ UNCHANGED <<state, clientVars, passwordWindows>>
  /\ UNCHANGED <<manual, idle, current, InRequest, questionVars, passwordErrors, cancelled,
                 hasPassword>>

\* login()
LoginTimer ==
  /\ retries > 0
  /\ retries' = retries - 1
  /\ IF state = "Connected"
     THEN UNCHANGED <<state, clientVars, passwordWindows>>
     ELSE ConnectToServer(hasPassword, passwordWindows)
  /\ UNCHANGED <<manual, idle, current, InRequest, questionVars, passwordErrors, cancelled,
                 hasPassword>>

\* AccountManager::invalidPassword
AskForValidPassword ==
  /\ passwordErrors > 0 /\ passwordWindows < MaxPasswordWindows
  /\ passwordErrors' = passwordErrors - 1
  /\ passwordWindows' = passwordWindows + 1
  /\ UNCHANGED <<manual, idle, state, current, clientVars, InRequest, questionVars, retries,
                 cancelled, hasPassword>>

-----------------------------------------------------------------------------
(* The server, through the streams.                                        *)

\* slotTLSHandshaken with a certificate nobody trusts yet.
CertificateDoubted ==
  /\ client = "logging" /\ questions + refusals < MaxQuestions
  /\ client' = "asking" /\ questions' = questions + 1
  /\ UNCHANGED <<manual, idle, state, current, abandoned, sessions, rosterAsked, announced,
                 InRequest, refusals, retries, passwordErrors, passwordWindows, cancelled, hasPassword>>

\* connectedToServer: the roster is asked for, unless an earlier request counts
\* as running; the request is lost on a client that is not active.
ConnectedToServer ==
  /\ state' = "Connected"
  /\ InRequest' = TRUE
  /\ rosterAsked' = (rosterAsked \/ (~InRequest /\ Active(client')))

\* slotCSAuthenticated: a session is asked for, but of an old server.
Authenticated ==
  /\ client = "logging"
  /\ \/ client' = "starting" /\ UNCHANGED <<state, InRequest, rosterAsked>>
     \/ client' = "up" /\ ConnectedToServer
  /\ UNCHANGED <<manual, idle, current, abandoned, sessions, announced, questionVars, retries,
                 passwordErrors, passwordWindows, cancelled, hasPassword>>

\* sessionStart_finished, and the request was granted: to the client, to one
\* it replaced, or to the client once more, as a stream that it replaced was
\* authenticated late.  (The late request ends with either of them.)
SessionStarted ==
  /\ \/ client = "starting" /\ client' = "up" /\ UNCHANGED sessions
     \/ /\ sessions > 0 /\ (client # "none" \/ InRequest)
        /\ sessions' = sessions - 1 /\ UNCHANGED client
     \/ abandoned > 0 /\ client = "up" /\ UNCHANGED <<client, sessions>>
  /\ ConnectedToServer
  /\ UNCHANGED <<manual, idle, current, abandoned, announced, questionVars, retries,
                 passwordErrors, passwordWindows, cancelled, hasPassword>>

\* Mutant of InitialPresence: announces also who is meant to be offline.
AnnouncedAnyway ==
  /\ current' = nextStatus
  /\ announced' = TRUE
  /\ UNCHANGED <<state, client, abandoned, sessions, questionVars>>

\* changeStatus(true)
InitialPresence ==
  IF BothDisconnected(nextStatus)
  THEN /\ current' = nextStatus
       /\ UNCHANGED <<state, client, abandoned, sessions, announced, questionVars>>
  ELSE /\ current' = nextStatus
       /\ UNCHANGED <<abandoned, sessions>>
       /\ IF IsDisconnected(nextStatus)
          THEN client' = "none" /\ announced' = FALSE /\ ShowDisconnected(questions, refusals)
          ELSE announced' = TRUE /\ UNCHANGED <<state, client, questionVars>>

\* rosterRequestFinished, rosterDownloaded
RosterAnswered ==
  /\ rosterAsked
  /\ rosterAsked' = FALSE /\ InRequest' = FALSE
  /\ InitialPresence
  /\ UNCHANGED <<manual, idle, retries, passwordErrors, passwordWindows, cancelled, hasPassword>>

\* Mutant of DisconnectedFromServer: no retry is armed.
DisconnectedForGood(a) ==
  /\ abandoned' = a
  /\ CleanUp
  /\ ShowDisconnected(questions, refusals)
  /\ UNCHANGED <<retries, sessions>>

\* slotCSDisconnected, disconnectedFromServer; "a" other streams are left.
DisconnectedFromServer(a) ==
  /\ abandoned' = a
  /\ CleanUp
  /\ ShowDisconnected(questions, refusals)
  /\ retries' = IF IsDisconnected(nextStatus) THEN retries ELSE retries + 1
  /\ retries' <= MaxRetries
  /\ UNCHANGED sessions

\* The stream of the client, or one that it replaced, is closed.
StreamClosed ==
  /\ \/ client \in {"logging", "asking", "starting", "up"} /\ DisconnectedFromServer(abandoned)
     \/ abandoned > 0 /\ DisconnectedFromServer(abandoned - 1)
  /\ UNCHANGED <<manual, idle, current, InRequest, passwordErrors, passwordWindows, cancelled,
                 hasPassword>>

\* slotCSError, an error after which the client connects again at once.
Reconnect(a) ==
  /\ abandoned' = a /\ rosterAsked' = FALSE /\ announced' = FALSE
  /\ \/ /\ hasPassword
        /\ client' = "logging" /\ state' = "Connecting"
        /\ UNCHANGED passwordWindows
     \/ /\ ~hasPassword
        /\ client' = "none" /\ UNCHANGED state
        /\ passwordWindows < MaxPasswordWindows
        /\ passwordWindows' = passwordWindows + 1

\* slotCSError while connected or connecting; "a" other streams are left.
ErrorHandled(a) ==
  /\ state # "Disconnected"
  /\ \/ Reconnect(a) /\ UNCHANGED <<manual, current, sessions, questionVars>>
     \/ Logout(a, questions, refusals) /\ UNCHANGED passwordWindows

StreamError ==
  /\ \/ client \in {"logging", "asking", "starting", "up"} /\ ErrorHandled(abandoned)
     \/ abandoned > 0 /\ ErrorHandled(abandoned - 1)
  /\ UNCHANGED <<idle, InRequest, retries, passwordErrors, cancelled, hasPassword>>

\* slotCSError while shown as disconnected: the broken client is kept.
StreamErrorIgnored ==
  /\ state = "Disconnected"
  /\ \/ /\ client \in {"logging", "asking", "starting"}
        /\ client' = "broken" /\ UNCHANGED abandoned
     \/ abandoned > 0 /\ abandoned' = abandoned - 1 /\ UNCHANGED client
  /\ UNCHANGED <<manual, idle, state, current, sessions, rosterAsked, announced, InRequest,
                 questionVars, retries, passwordErrors, passwordWindows, cancelled, hasPassword>>

\* sessionStart_finished, and the request of a replaced client was refused.
\* (The client's own refusal is one of its stream's errors.)
SessionRefused ==
  /\ sessions > 0 /\ sessions' = sessions - 1
  /\ IF state = "Disconnected"
     THEN UNCHANGED <<state, client, abandoned, rosterAsked, announced, passwordWindows>>
     ELSE Reconnect(abandoned)
  /\ UNCHANGED <<manual, idle, current, InRequest, questionVars, retries, passwordErrors,
                 cancelled, hasPassword>>

\* slotCSError(ErrAuth, NotAuthorized)
PasswordDenied ==
  /\ client = "logging" /\ passwordErrors < MaxPasswordWindows
  /\ passwordErrors' = passwordErrors + 1
  /\ Logout(abandoned, questions, refusals)
  /\ UNCHANGED <<idle, InRequest, retries, passwordWindows, cancelled, hasPassword>>

\* slotCSWarning(WarnNoTLS), though the account asks for encryption.
TlsMissing ==
  /\ client = "logging" \/ abandoned > 0
  /\ Logout(abandoned, questions, refusals)
  /\ UNCHANGED <<idle, InRequest, retries, passwordErrors, passwordWindows, cancelled,
                 hasPassword>>

-----------------------------------------------------------------------------
User ==
  \/ \E type \in UserTypes : UserSetsType(type)
  \/ \E d \in Descriptions : UserSetsDescription(d)
  \/ \E password \in BOOLEAN : UserEditsAccount(password)
  \/ PasswordEntered \/ PasswordCancelled \/ PasswordWindowClosed
  \/ CertificateAccepted \/ CertificateRejected

Timers ==
  \/ \E mode \in UserModes : IdleChanges(mode)
  \/ LoginTimer
  \/ AskForValidPassword

Server ==
  \/ CertificateDoubted \/ Authenticated \/ SessionStarted \/ SessionRefused
  \/ RosterAnswered
  \/ StreamClosed \/ StreamError \/ StreamErrorIgnored
  \/ PasswordDenied \/ TlsMissing

Next == User \/ Timers \/ Server

Spec == Init /\ [][Next]_vars

\* The event loop delivers every timer and every queued signal.
Fairness == WF_vars(LoginTimer) /\ WF_vars(AskForValidPassword)

FairSpec == Spec /\ Fairness

-----------------------------------------------------------------------------
(* Properties.                                                             *)

TypeOK ==
  /\ manual \in Status /\ current \in Status /\ idle \in IdleModes
  /\ state \in {"Disconnected", "Connecting", "Connected"}
  /\ client \in {"none", "logging", "asking", "broken", "starting", "up"}
  /\ abandoned \in 0..MaxAbandoned /\ sessions \in 0..MaxAbandoned
  /\ InRequest \in BOOLEAN /\ rosterAsked \in BOOLEAN /\ announced \in BOOLEAN
  /\ questions \in 0..MaxQuestions /\ refusals \in 0..MaxQuestions
  /\ retries \in 0..MaxRetries
  /\ passwordErrors \in 0..MaxPasswordWindows
  /\ passwordWindows \in 0..MaxPasswordWindows
  /\ cancelled \subseteq 1..passwordWindows /\ hasPassword \in BOOLEAN

\* Whatever windows and abandoned streams interfere, a session that is up is
\* shown as connected, and so is one that has sent a presence or is owed a
\* roster; and a login that the account no longer shows belongs to a user shown
\* as offline.
SessionIsShown ==
  /\ client = "up" \/ rosterAsked \/ announced => state = "Connected"
  /\ rosterAsked => Active(client) /\ InRequest
  /\ client # "none" /\ state = "Disconnected" => IsDisconnected(current)

\* What the server tells others is what the account shows and what the user
\* wants, after whatever dialogs, retries and logins nobody asked for; and a
\* session keeps silent only for a user who is, and wants to be, offline, or
\* while a request for the roster counts as running.
AnnouncedIsWanted ==
  /\ announced => Active(client) /\ current = nextStatus /\ ~IsDisconnected(current)
  /\ client = "up" /\ ~announced /\ ~InRequest
       => IsDisconnected(current) /\ IsDisconnected(nextStatus)

\* A session that was announced follows the wish: it ends with the very step
\* that sets the user offline, by hand or by idleness; and if it is lost
\* otherwise, it is tried again, at once or by a timer, or waits for a password.
SessionFollowsWish ==
  [][announced =>
       /\ IsDisconnected(nextStatus')
            => ~Active(client') /\ ~announced' /\ IsDisconnected(current')
       /\ ~Active(client') /\ ~IsDisconnected(nextStatus')
            => \/ client' = "logging"
               \/ retries' > retries \/ passwordWindows' > passwordWindows]_vars

\* A pending retry of a user who wants to be online, and is not shown as
\* connected, leads to a login or to a question, unless the wish is withdrawn
\* or the account is shown as connected before (be it by the session of a
\* replaced client, which the retry then takes for its own); a rejected
\* password leads to a question.
PromisesAreKept ==
  /\ retries > 0 /\ state # "Connected" /\ ~IsDisconnected(nextStatus)
       ~> \/ client # "none" \/ passwordWindows > 0
          \/ IsDisconnected(nextStatus) \/ state = "Connected"
  /\ passwordErrors > 0 ~> passwordWindows > 0
=============================================================================
