--------------------------- MODULE GaduConnection ---------------------------
(***************************************************************************)
(* One Gadu-Gadu account going online and offline: Protocol, GaduProtocol, *)
(* its socket notifiers, the status manager it asks what the user wants,   *)
(* the password windows and the one-second retry timers.  Everything runs  *)
(* in the event loop of one thread, so a handler is one step; what         *)
(* interleaves is the user, the idle detector, the timers, the queued      *)
(* signals, and the answers of the server.                                 *)
(*                                                                         *)
(* A handler calls others before it returns.  The operators below follow   *)
(* those calls; their parameters m and r are the values of the chosen and  *)
(* of the real status at the time of the call.                             *)
(***************************************************************************)
EXTENDS Integers, Statuses, GaduServers

CONSTANTS UserTypes,           \* the status types the user picks from
          UserModes,           \* the idle modes the user falls into
          OnlyTls,             \* the account's TLS setting
          MaxLoginTimers,      \* bound on pending retries
          MaxPasswordWindows   \* bound on open password windows and queued requests for one

ConnectionAssumption ==
  /\ UserTypes \subseteq StatusTypes
  /\ UserModes \subseteq IdleModes
  /\ OnlyTls \in BOOLEAN
  /\ MaxLoginTimers \in Nat
  /\ MaxPasswordWindows \in Nat
ASSUME ConnectionAssumption

VARIABLES
  manual, real,      \* StatusChangerManager: Statuses, RealStatuses of the account
  idle,              \* what the idle detector currently asks for
  state,             \* Protocol::State
  current,           \* Protocol::CurrentStatus
  session,           \* GaduSession: "none", "logging" in, or "up" and logged in
  handler,           \* ContactListHandler exists
  watched,           \* SocketNotifiers watch the session, their 15 s timer runs
  pingTimer,         \* PingTimer exists
  ftService,         \* CurrentFileTransferService exists
  contactsOnline,    \* some contact of the account is shown as not offline
  otherSessions,     \* the multilogon service lists other sessions of the user
  loginTimers,       \* pending QTimer::singleShot(1000, login)
  passwordErrors,    \* queued invalidPassword signals
  passwordWindows,   \* open (modal) password windows
  hasPassword, uinSet, allowDcc, rosterImport,   \* account data
  ActiveServer

statusVars == <<manual, real>>
sessionVars == <<session, handler, watched, pingTimer, ftService, contactsOnline, otherSessions>>
accountVars == <<hasPassword, uinSet, allowDcc, rosterImport>>
serversVars == <<serverVars, ActiveServer>>

vars == <<statusVars, idle, state, current, sessionVars, loginTimers, passwordErrors,
          passwordWindows, accountVars, serversVars>>

Init ==
  /\ manual = OfflineStatus /\ real = OfflineStatus /\ current = OfflineStatus
  /\ idle = "NoChange"
  /\ state = "Disconnected"
  /\ session = "none"
  /\ handler = FALSE /\ watched = FALSE /\ pingTimer = FALSE /\ ftService = FALSE
  /\ contactsOnline = FALSE /\ otherSessions = FALSE
  /\ loginTimers = 0 /\ passwordErrors = 0 /\ passwordWindows = 0
  /\ hasPassword \in BOOLEAN /\ uinSet \in BOOLEAN
  /\ allowDcc \in BOOLEAN /\ rosterImport \in BOOLEAN
  /\ ServersInit /\ ActiveServer = NoServer

-----------------------------------------------------------------------------
(* Closing a connection.                                                   *)

\* Mutant of ReleaseConnection: the ping timer is left running.
ReleaseKeepsPingTimer(h) ==
  /\ session' = "none"
  /\ handler' = (h /\ session = "none")
  /\ UNCHANGED pingTimer
  /\ watched' = FALSE /\ ftService' = FALSE
  /\ contactsOnline' = FALSE /\ otherSessions' = FALSE

\* Mutant of ReleaseConnection: without removeAllSessions.
ReleaseKeepsSessions(h) ==
  /\ session' = "none"
  /\ handler' = (h /\ session = "none")
  /\ UNCHANGED otherSessions
  /\ watched' = FALSE /\ pingTimer' = FALSE /\ ftService' = FALSE /\ contactsOnline' = FALSE

\* The common middle of networkDisconnected.  "h" tells whether there is a
\* contact list handler; it is deleted only together with a session.
ReleaseConnection(h) ==
  /\ session' = "none"
  /\ handler' = (h /\ session = "none")
  /\ watched' = FALSE
  /\ pingTimer' = FALSE
  /\ ftService' = FALSE
  /\ contactsOnline' = FALSE
  /\ otherSessions' = FALSE

\* Mutant of NetworkDisconnected: without statusChanged(Status()).
NetworkDisconnectedSilently(waitForPassword, h, m, r) ==
  /\ ReleaseConnection(h)
  /\ state' = "Disconnected"
  /\ manual' = m /\ real' = r /\ current' = IF IsDisconnected(r) THEN current ELSE OfflineStatus

\* networkDisconnected(false, waitForPassword).  Setting the Offline status
\* makes Protocol::statusChanged call changeStatus again, which closes what
\* is already closed.
NetworkDisconnected(waitForPassword, h, m, r) ==
  /\ ReleaseConnection(h)
  /\ state' = "Disconnected"
  /\ \/ /\ IsDisconnected(r) \/ waitForPassword
        /\ manual' = m /\ real' = r
        /\ UNCHANGED current
     \/ /\ ~IsDisconnected(r) /\ ~waitForPassword
        /\ manual' = OfflineStatus /\ real' = OfflineStatus /\ current' = OfflineStatus

\* Mutant of NetworkDisconnectedTryAgain: without statusChanged(Status()).
TryAgainKeepsStatus ==
  /\ ReleaseConnection(handler)
  /\ UNCHANGED <<statusVars, current>>
  /\ \/ /\ ~IsDisconnected(real)
        /\ state' = "Connecting"
        /\ loginTimers < MaxLoginTimers
        /\ loginTimers' = loginTimers + 1
     \/ /\ IsDisconnected(real)
        /\ UNCHANGED <<state, loginTimers>>

\* networkDisconnected(true, false)
NetworkDisconnectedTryAgain ==
  /\ ReleaseConnection(handler)
  /\ UNCHANGED statusVars
  /\ \/ /\ ~IsDisconnected(real)
        /\ state' = "Connecting"
        /\ current' = OfflineStatus
        /\ loginTimers < MaxLoginTimers
        /\ loginTimers' = loginTimers + 1
     \/ /\ IsDisconnected(real)
        /\ UNCHANGED <<state, current, loginTimers>>

-----------------------------------------------------------------------------
(* Opening a connection: GaduProtocol::login().                            *)

LoginIgnored(m, r) ==
  /\ session # "none"
  /\ manual' = m /\ real' = r
  /\ UNCHANGED <<state, current, sessionVars, serversVars>>

\* Without a UIN the account is set offline.  When the description differs,
\* changeStatus runs on the way and ends a connection attempt.
LoginWithoutUin ==
  /\ manual' = OfflineStatus /\ real' = OfflineStatus /\ current' = OfflineStatus
  /\ IF state = "Connecting" /\ current # OfflineStatus
     THEN ReleaseConnection(handler) /\ state' = "Disconnected"
     ELSE UNCHANGED <<state, sessionVars>>
  /\ UNCHANGED serversVars

\* Mutant of LoginStarted: without watchFor.
LoginNotWatched(m, r) ==
  /\ GetServer(OnlyTls, ActiveServer')
  /\ state' = "Connecting"
  /\ session' = "logging" /\ handler' = TRUE
  /\ manual' = m /\ real' = r
  /\ UNCHANGED <<current, watched, pingTimer, ftService, contactsOnline, otherSessions>>

\* setupLoginParams chooses the server; gg_login resolves and connects in the
\* background.
LoginStarted(m, r) ==
  /\ GetServer(OnlyTls, ActiveServer')
  /\ state' = "Connecting"
  /\ session' = "logging" /\ handler' = TRUE /\ watched' = TRUE
  /\ manual' = m /\ real' = r
  /\ UNCHANGED <<current, pingTimer, ftService, contactsOnline, otherSessions>>

\* gg_login gave no session.  The handler it made for it stays behind.
LoginRefused(m, r) ==
  /\ GetServer(OnlyTls, ActiveServer')
  /\ NetworkDisconnected(FALSE, TRUE, m, r)

\* "windows" password windows are open besides the one that called.
Login(m, r, password, windows) ==
  \/ LoginIgnored(m, r) /\ passwordWindows' = windows
  \/ /\ session = "none" /\ ~uinSet
     /\ LoginWithoutUin
     /\ passwordWindows' = windows
  \/ /\ session = "none" /\ uinSet /\ ~password
     /\ windows < MaxPasswordWindows
     /\ passwordWindows' = windows + 1
     /\ manual' = m /\ real' = r
     /\ UNCHANGED <<state, current, sessionVars, serversVars>>
  \/ /\ session = "none" /\ uinSet /\ password
     /\ LoginStarted(m, r) \/ LoginRefused(m, r)
     /\ passwordWindows' = windows

-----------------------------------------------------------------------------
(* Following the status: GaduProtocol::changeStatus(force), reached when   *)
(* the status manager announces r while current is something else.         *)

BothDisconnected(r) == IsDisconnected(r) /\ IsDisconnected(current)

ChangeDisconnectedStatus(m, r) ==
  /\ manual' = m /\ real' = r /\ current' = r
  /\ IF state = "Connecting"
     THEN ReleaseConnection(handler) /\ state' = "Disconnected"
     ELSE UNCHANGED <<state, sessionVars>>
  /\ UNCHANGED <<passwordWindows, serversVars>>

KeepStatus(m, r) ==
  /\ manual' = m /\ real' = r
  /\ UNCHANGED <<state, current, sessionVars, passwordWindows, serversVars>>

SendStatus(m, r) ==
  /\ manual' = m /\ real' = r /\ current' = r
  /\ IF IsDisconnected(r)
     THEN ReleaseConnection(handler) /\ state' = "Disconnected"
     ELSE UNCHANGED <<state, sessionVars>>
  /\ UNCHANGED <<passwordWindows, serversVars>>

ChangeStatus(m, r, force) ==
  IF r = current /\ ~force THEN KeepStatus(m, r)
  ELSE \/ BothDisconnected(r) /\ ChangeDisconnectedStatus(m, r)
       \/ /\ ~BothDisconnected(r)
          /\ \/ /\ state = "Connecting"
                /\ KeepStatus(m, r)
             \/ /\ state # "Connecting" /\ IsDisconnected(current)
                /\ Login(m, r, hasPassword, passwordWindows)
             \/ /\ state # "Connecting" /\ ~IsDisconnected(current)
                /\ IF r.type = "NotAvailable" /\ current.type = "Away"
                   THEN KeepStatus(m, r) ELSE SendStatus(m, r)

\* StatusChangerManager::setStatus
SetStatus(s) == ChangeStatus(s, Changed(idle, s), FALSE)

-----------------------------------------------------------------------------
(* The user.  The password window is modal.                                *)

\* StatusMenu: the shown status with another type.
UserSetsType(type) ==
  /\ passwordWindows = 0
  /\ SetStatus([current EXCEPT !.type = type])
  /\ UNCHANGED <<idle, loginTimers, passwordErrors, accountVars>>

\* BaseStatusContainer::setDescription: the shown status with another text.
UserSetsDescription(d) ==
  /\ passwordWindows = 0
  /\ SetStatus([current EXCEPT !.description = d])
  /\ UNCHANGED <<idle, loginTimers, passwordErrors, accountVars>>

\* AccountShared::setPrivateStatus: changeStatus(true)
UserChangesPrivateMode ==
  /\ passwordWindows = 0
  /\ ChangeStatus(manual, real, TRUE)
  /\ UNCHANGED <<idle, loginTimers, passwordErrors, accountVars>>

\* The account editor's remaining settings; buildServerList; accountUpdated.
UserEditsAccount(password, uin, dcc) ==
  /\ passwordWindows = 0
  /\ hasPassword' = password /\ uinSet' = uin /\ allowDcc' = dcc
  /\ ftService' = (state = "Connected" /\ dcc)
  /\ BuildServerList
  /\ UNCHANGED <<statusVars, idle, state, current, session, handler, watched, pingTimer,
                 contactsOnline, otherSessions, loginTimers, passwordErrors,
                 passwordWindows, rosterImport, ActiveServer>>

\* login(password, permanent): the window closes when the slot returns.
PasswordEntered ==
  /\ passwordWindows > 0
  /\ hasPassword' = TRUE
  /\ Login(manual, real, TRUE, passwordWindows - 1)
  /\ UNCHANGED <<idle, loginTimers, passwordErrors, uinSet, allowDcc, rosterImport>>

\* The Cancel button, or Ok with nothing entered.
PasswordCancelled ==
  LET newstat == [current EXCEPT !.type = "Offline"] IN
  /\ passwordWindows > 0
  /\ manual' = newstat /\ real' = newstat /\ current' = newstat
  /\ IF IsDisconnected(current) \/ state = "Connecting"
     THEN UNCHANGED <<state, sessionVars>>
     ELSE ReleaseConnection(handler) /\ state' = "Disconnected"
  /\ passwordWindows' = passwordWindows - 1
  /\ UNCHANGED <<idle, loginTimers, passwordErrors, accountVars, serversVars>>

\* The window is closed by its frame: nothing is emitted.
PasswordWindowClosed ==
  /\ passwordWindows > 0
  /\ passwordWindows' = passwordWindows - 1
  /\ UNCHANGED <<statusVars, idle, state, current, sessionVars, loginTimers, passwordErrors,
                 accountVars, serversVars>>

-----------------------------------------------------------------------------
(* Timers and queued signals.                                              *)

\* AutoAway::checkIdleTime, then the status manager for this account.  While
\* the user is idle the status is announced again at every check.
IdleChanges(mode) ==
  /\ mode # "NoChange" \/ idle # "NoChange"
  /\ idle' = mode
  /\ ChangeStatus(manual, Changed(mode, manual), FALSE)
  /\ UNCHANGED <<loginTimers, passwordErrors, accountVars>>

LoginTimer ==
  /\ loginTimers > 0
  /\ loginTimers' = loginTimers - 1
  /\ Login(manual, real, hasPassword, passwordWindows)
  /\ UNCHANGED <<idle, passwordErrors, accountVars>>

\* Mutant of AskForValidPassword: the signal shows no window.
PasswordErrorDropped ==
  /\ passwordErrors > 0
  /\ passwordErrors' = passwordErrors - 1
  /\ UNCHANGED <<statusVars, idle, state, current, sessionVars, loginTimers, passwordWindows,
                 accountVars, serversVars>>

\* AccountManager::invalidPassword
AskForValidPassword ==
  /\ passwordErrors > 0 /\ passwordWindows < MaxPasswordWindows
  /\ passwordErrors' = passwordErrors - 1
  /\ passwordWindows' = passwordWindows + 1
  /\ UNCHANGED <<statusVars, idle, state, current, sessionVars, loginTimers, accountVars,
                 serversVars>>

-----------------------------------------------------------------------------
(* The server: GaduProtocolSocketNotifiers::socketEvent and its timeout.   *)

\* socketConnSuccess, networkConnected, sendUserList
ConnectionSuccess ==
  /\ watched /\ session = "logging"
  /\ session' = "up"
  /\ MarkServerAsGood(ActiveServer)
  /\ pingTimer' = TRUE
  /\ current' = real
  /\ state' = "Connected"
  /\ ftService' = allowDcc
  /\ rosterImport' = FALSE
  /\ manual' = IF real.type = "Invisible" THEN real ELSE manual
  /\ UNCHANGED <<real, idle, handler, watched, contactsOnline, otherSessions, loginTimers,
                 passwordErrors, passwordWindows, hasPassword, uinSet, allowDcc, ActiveServer>>

\* socketConnFailed with an error after which the protocol tries again: also
\* the 15 s timeout of a login, and a session that breaks.
ConnectionBroken ==
  /\ watched
  /\ MarkServerAsBad(ActiveServer)
  /\ NetworkDisconnectedTryAgain
  /\ UNCHANGED <<idle, passwordErrors, passwordWindows, accountVars, ActiveServer>>

\* socketConnFailed(ConnectionNeedEmail or ConnectionIntruderError)
LoginDenied ==
  /\ watched /\ session = "logging"
  /\ NetworkDisconnected(FALSE, handler, manual, real)
  /\ UNCHANGED <<idle, loginTimers, passwordErrors, passwordWindows, accountVars, serversVars>>

\* socketConnFailed(ConnectionIncorrectPassword)
PasswordDenied ==
  /\ watched /\ session = "logging"
  /\ passwordErrors < MaxPasswordWindows
  /\ passwordErrors' = passwordErrors + 1
  /\ NetworkDisconnected(TRUE, handler, manual, real)
  /\ UNCHANGED <<idle, loginTimers, passwordWindows, accountVars, serversVars>>

\* GG_EVENT_DISCONNECT: the user logged in elsewhere.
ServerDisconnects ==
  /\ watched /\ session = "up"
  /\ NetworkDisconnected(FALSE, handler, manual, real)
  /\ UNCHANGED <<idle, loginTimers, passwordErrors, passwordWindows, accountVars, serversVars>>

\* socketContactStatusChanged
ContactStatus(online) ==
  /\ watched /\ session = "up"
  /\ contactsOnline' = online
  /\ UNCHANGED <<statusVars, idle, state, current, session, handler, watched, pingTimer,
                 ftService, otherSessions, loginTimers, passwordErrors, passwordWindows,
                 accountVars, serversVars>>

\* GaduMultilogonService::handleEventMultilogonInfo
MultilogonInfo(others) ==
  /\ watched /\ session = "up"
  /\ otherSessions' = others
  /\ UNCHANGED <<statusVars, idle, state, current, session, handler, watched, pingTimer,
                 ftService, contactsOnline, loginTimers, passwordErrors, passwordWindows,
                 accountVars, serversVars>>

-----------------------------------------------------------------------------
User ==
  \/ \E type \in UserTypes : UserSetsType(type)
  \/ \E d \in Descriptions : UserSetsDescription(d)
  \/ UserChangesPrivateMode
  \/ \E password, uin, dcc \in BOOLEAN : UserEditsAccount(password, uin, dcc)
  \/ PasswordEntered
  \/ PasswordCancelled
  \/ PasswordWindowClosed

Timers ==
  \/ \E mode \in UserModes : IdleChanges(mode)
  \/ LoginTimer
  \/ AskForValidPassword

LoginAnswered ==
  \/ ConnectionSuccess
  \/ ConnectionBroken
  \/ LoginDenied
  \/ PasswordDenied

ServerEvents ==
  \/ LoginAnswered
  \/ ServerDisconnects
  \/ \E online \in BOOLEAN : ContactStatus(online)
  \/ \E others \in BOOLEAN : MultilogonInfo(others)

Next == User \/ Timers \/ ServerEvents

Spec == Init /\ [][Next]_vars

\* The event loop delivers every timer and every queued signal; a login in
\* progress is answered, broken, or given up by the notifiers' 15 s timer.
Fairness ==
  /\ WF_vars(LoginTimer)
  /\ WF_vars(AskForValidPassword)
  /\ WF_vars(LoginAnswered)

FairSpec == Spec /\ Fairness

-----------------------------------------------------------------------------
(* Properties.                                                             *)

TypeOK ==
  /\ manual \in Status /\ real \in Status /\ current \in Status
  /\ idle \in IdleModes
  /\ state \in {"Disconnected", "Connecting", "Connected"}
  /\ session \in {"none", "logging", "up"}
  /\ handler \in BOOLEAN /\ watched \in BOOLEAN /\ pingTimer \in BOOLEAN
  /\ ftService \in BOOLEAN /\ contactsOnline \in BOOLEAN /\ otherSessions \in BOOLEAN
  /\ loginTimers \in 0..MaxLoginTimers
  /\ passwordErrors \in 0..MaxPasswordWindows
  /\ passwordWindows \in 0..MaxPasswordWindows
  /\ hasPassword \in BOOLEAN /\ uinSet \in BOOLEAN
  /\ allowDcc \in BOOLEAN /\ rosterImport \in BOOLEAN

\* A session never outlives, and is never without, what was made for it: the
\* handler sendUserList dereferences, the notifiers, the network state of its
\* phase, and the ping timer that uses the session once it is up.
SessionOwned ==
  /\ session # "none" => handler
  /\ watched <=> session # "none"
  /\ pingTimer <=> session = "up"
  /\ session = "logging" => state = "Connecting"
  /\ session = "up" => state = "Connected"

\* The account is shown in an online status only while it is logged in,
\* whatever timers, dialogs and errors came in between.
ShownOnlineIsLoggedIn == ~IsDisconnected(current) => session = "up"

\* No contact and no other session of the user is shown as online after the
\* session that reported it is gone.
PresenceIsOfThisSession == contactsOnline \/ otherSessions => session = "up"

\* While logged in, files can be received if the account allows it; if it does
\* not, they never can, though the service may outlast the session or be made
\* without one.
FileTransferFollowsAccount ==
  /\ session = "up" /\ allowDcc => ftService
  /\ ftService => allowDcc

\* What the account shows and offers is that of the present session and of the
\* present settings, in whatever order sessions, reports and edits come.
SessionIsReported == PresenceIsOfThisSession /\ FileTransferFollowsAccount

\* A session lost while the user wants to be online is either tried again,
\* waits for another password, or the wish itself is withdrawn.
LostSessionIsNotForgotten ==
  [][session # "none" /\ session' = "none" /\ ~IsDisconnected(real')
       => loginTimers' > loginTimers \/ passwordErrors' > passwordErrors]_vars

\* A logged in user shown online who is set offline, by hand or by idleness,
\* is logged out by that very step.
OfflineLogsOut ==
  [][~IsDisconnected(current) /\ ~IsDisconnected(real) /\ IsDisconnected(real')
       => session' = "none" /\ IsDisconnected(current')]_vars

\* The connection keeps the promise of AccountSession: logins begin for a reason,
\* end with what the user wanted, and no session is lost without an answer.  (The
\* two formulas above are proved as well; TLC checks this one, which is stronger.)
Session ==
  INSTANCE AccountSession WITH
    link <- session,
    wanted <- ~IsDisconnected(real),
    shown <- ~IsDisconnected(current),
    retry <- loginTimers > 0,
    question <- passwordErrors > 0 \/ passwordWindows > 0

ImplementsSession == Session!SessionSpec

\* To the servers every account shares, the connection is an account that takes
\* a server, holds it while it is logging in and logged in, and reports it.
SharedServers ==
  INSTANCE GaduServerClients WITH
    Accounts <- {"this"},
    TlsAccounts <- IF OnlyTls THEN {"this"} ELSE {},
    attempt <- [a \in {"this"} |-> IF session = "none" THEN "idle"
                                   ELSE IF session = "logging" THEN "connecting" ELSE "connected"],
    serverOf <- [a \in {"this"} |-> IF session = "none" THEN NoServer ELSE ActiveServer]

ImplementsClients == SharedServers!ClientsSpec

\* Whatever the server does, a login attempt ends.
LoginEnds == session = "logging" ~> session # "logging"

\* A rejected password leads to a question to the user.
PasswordIsAskedFor == passwordErrors > 0 ~> passwordWindows > 0

\* A user who wants to be online and whose retry is pending gets a login
\* attempt or a question, unless the wish is withdrawn.
RetryIsMade ==
  loginTimers > 0 /\ ~IsDisconnected(real)
    ~> session # "none" \/ passwordWindows > 0 \/ IsDisconnected(real)

\* Nothing that a lost or refused session promised the user is forgotten.
PromisesAreKept == PasswordIsAskedFor /\ RetryIsMade

\* ChangeLog #1910: cancelling a connection attempt sets the account offline;
\* so nobody who chose Offline ends up logged in.
CancelledLoginStaysOffline == session = "up" => ~IsDisconnected(real)
=============================================================================
