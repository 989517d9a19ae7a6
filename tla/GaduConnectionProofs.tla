------------------------ MODULE GaduConnectionProofs ------------------------
(***************************************************************************)
(* Proofs about GaduConnection and GaduServerClients for every set of      *)
(* descriptions, every list of servers, every finite set of accounts and   *)
(* every bound.                                                            *)
(*                                                                         *)
(* The safety invariants of the connection are inductive together with one *)
(* more fact: an account shown online is wanted online.  Without it, a     *)
(* connection that breaks while the user wants to be offline               *)
(* (networkDisconnected then leaves the shown status alone) could leave an *)
(* online status behind.                                                   *)
(*                                                                         *)
(* The shared lists need one more fact too: the copies of a bad server and *)
(* the accounts that hold it are together no more than the accounts, as an *)
(* account holds a server it takes until it reports it.  The connection    *)
(* uses the lists as GaduServerClients says, with one account of its own.  *)
(***************************************************************************)
EXTENDS GaduConnection, GaduServerClients,
        FunctionTheorems, FiniteSetTheorems, SequenceTheorems, TLAPS

-----------------------------------------------------------------------------
(* Facts about statuses. *)

\* Status() is a status, and a disconnected one.
LEMMA OfflineStatusType == OfflineStatus \in Status /\ IsDisconnected(OfflineStatus)
  BY DescriptionsAssumption DEF OfflineStatus, Status, StatusTypes, IsDisconnected, Group

\* A status with another type, or with another description, is a status.
LEMMA StatusEdits ==
  ASSUME NEW s \in Status
  PROVE  /\ \A t \in StatusTypes : [s EXCEPT !.type = t] \in Status
         /\ \A d \in Descriptions : [s EXCEPT !.description = d] \in Status
         /\ IsDisconnected([s EXCEPT !.type = "Offline"])
  BY DEF Status, StatusTypes, IsDisconnected, Group

\* The idle detector turns a status into a status and leaves a disconnected
\* one alone.
LEMMA ChangedType ==
  ASSUME NEW mode \in IdleModes, NEW s \in Status
  PROVE  /\ Changed(mode, s) \in Status
         /\ IsDisconnected(s) => Changed(mode, s) = s
<1>1. CASE LeftAlone(mode, s)
  BY <1>1 DEF Changed
<1>2. CASE ~LeftAlone(mode, s)
  <2>1. mode \in {"Busy", "ExtendedAway", "Invisible", "Offline"}
    BY <1>2 DEF LeftAlone, IdleModes
  <2>2. IdleType[mode] \in StatusTypes
    BY <2>1 DEF IdleType, StatusTypes
  <2>3. ~IsDisconnected(s)
    BY <1>2 DEF LeftAlone
  <2> QED BY <1>2, <2>2, <2>3, StatusEdits DEF Changed
<1> QED BY <1>1, <1>2

-----------------------------------------------------------------------------
(* The inductive invariant. *)

ShownOnlineIsWanted == ~IsDisconnected(current) => ~IsDisconnected(real)

IInv ==
  /\ TypeOK
  /\ SessionOwned
  /\ ShownOnlineIsLoggedIn
  /\ ShownOnlineIsWanted
  /\ PresenceIsOfThisSession
  /\ FileTransferFollowsAccount

-----------------------------------------------------------------------------
(* The calls handlers make.  RestOK is what a handler does to the state    *)
(* the calls leave alone.                                                  *)

RestOK ==
  /\ idle' \in IdleModes
  /\ loginTimers' \in 0..MaxLoginTimers
  /\ passwordErrors' \in 0..MaxPasswordWindows
  /\ hasPassword' \in BOOLEAN /\ uinSet' \in BOOLEAN /\ rosterImport' \in BOOLEAN
  /\ UNCHANGED allowDcc

WindowsOK == passwordWindows' \in 0..MaxPasswordWindows

\* Whatever else a handler does, releasing the connection leaves a state the
\* invariant allows if the status shown afterwards is an offline one.
LEMMA ReleaseInv ==
  ASSUME IInv, RestOK, WindowsOK, NEW h \in BOOLEAN,
         ReleaseConnection(h),
         state' \in {"Disconnected", "Connecting", "Connected"},
         manual' \in Status, real' \in Status, current' \in Status,
         IsDisconnected(current')
  PROVE  IInv'
<1>1. TypeOK'
  BY DEF IInv, TypeOK, RestOK, WindowsOK, ReleaseConnection
<1>2. SessionOwned' /\ PresenceIsOfThisSession' /\ FileTransferFollowsAccount'
  BY DEF ReleaseConnection, SessionOwned, PresenceIsOfThisSession, FileTransferFollowsAccount
<1>3. ShownOnlineIsLoggedIn' /\ ShownOnlineIsWanted'
  BY DEF ShownOnlineIsLoggedIn, ShownOnlineIsWanted
<1> QED BY <1>1, <1>2, <1>3 DEF IInv

\* A handler that keeps the connection as it is keeps the invariant if it
\* keeps the shown status too, and the user still wants it.
LEMMA KeepInv ==
  ASSUME IInv, RestOK, WindowsOK,
         UNCHANGED <<state, sessionVars>>,
         manual' \in Status, real' \in Status, current' \in Status,
         ~IsDisconnected(current') => session = "up" /\ ~IsDisconnected(real')
  PROVE  IInv'
<1>1. TypeOK'
  BY DEF IInv, TypeOK, RestOK, WindowsOK, sessionVars
<1>2. SessionOwned' /\ PresenceIsOfThisSession' /\ FileTransferFollowsAccount'
  BY DEF IInv, RestOK, SessionOwned, PresenceIsOfThisSession, FileTransferFollowsAccount, sessionVars
<1>3. ShownOnlineIsLoggedIn' /\ ShownOnlineIsWanted'
  BY DEF ShownOnlineIsLoggedIn, ShownOnlineIsWanted, sessionVars
<1> QED BY <1>1, <1>2, <1>3 DEF IInv

\* networkDisconnected(false, _)
LEMMA NetworkDisconnectedInv ==
  ASSUME IInv, RestOK, WindowsOK, NEW h \in BOOLEAN, NEW w \in BOOLEAN,
         NEW m \in Status, NEW r \in Status,
         NetworkDisconnected(w, h, m, r),
         IsDisconnected(r) \/ w => IsDisconnected(current)
  PROVE  IInv'
<1>1. manual' \in Status /\ real' \in Status /\ current' \in Status /\ IsDisconnected(current')
  BY OfflineStatusType DEF NetworkDisconnected, IInv, TypeOK
<1> QED BY <1>1, ReleaseInv DEF NetworkDisconnected

\* login()
LEMMA LoginInv ==
  ASSUME IInv, RestOK, NEW m \in Status, NEW r \in Status,
         NEW password, NEW windows \in 0..MaxPasswordWindows,
         Login(m, r, password, windows),
         ~IsDisconnected(current) => ~IsDisconnected(r)
  PROVE  IInv'
<1>0. WindowsOK
  BY ConnectionAssumption DEF Login, WindowsOK, ConnectionAssumption
<1>1. CASE LoginIgnored(m, r)
  BY <1>0, <1>1, KeepInv DEF LoginIgnored, IInv, TypeOK, ShownOnlineIsLoggedIn
<1>2. CASE session = "none" /\ LoginWithoutUin
  <2>1. manual' \in Status /\ real' \in Status /\ current' \in Status /\ IsDisconnected(current')
    BY <1>2, OfflineStatusType DEF LoginWithoutUin
  <2>2. CASE UNCHANGED <<state, sessionVars>>
    BY <1>0, <2>1, <2>2, KeepInv
  <2>3. CASE ReleaseConnection(handler) /\ state' = "Disconnected"
    BY <1>0, <2>1, <2>3, ReleaseInv DEF IInv, TypeOK
  <2> QED BY <1>2, <2>2, <2>3 DEF LoginWithoutUin
<1>3. CASE /\ session = "none"
           /\ manual' = m /\ real' = r
           /\ UNCHANGED <<state, current, sessionVars, serversVars>>
  BY <1>0, <1>3, KeepInv DEF IInv, TypeOK, ShownOnlineIsLoggedIn
<1>4. CASE session = "none" /\ LoginStarted(m, r)
  <2>1. IsDisconnected(current)
    BY <1>4 DEF IInv, ShownOnlineIsLoggedIn
  <2>2. TypeOK'
    BY <1>0, <1>4 DEF IInv, TypeOK, RestOK, WindowsOK, LoginStarted
  <2>3. SessionOwned' /\ PresenceIsOfThisSession' /\ FileTransferFollowsAccount'
    BY <1>4 DEF IInv, RestOK, LoginStarted, SessionOwned, PresenceIsOfThisSession, FileTransferFollowsAccount
  <2>4. ShownOnlineIsLoggedIn' /\ ShownOnlineIsWanted'
    BY <1>4, <2>1 DEF LoginStarted, ShownOnlineIsLoggedIn, ShownOnlineIsWanted, IsDisconnected, Group
  <2> QED BY <2>2, <2>3, <2>4 DEF IInv
<1>5. CASE session = "none" /\ LoginRefused(m, r)
  <2>1. IsDisconnected(current)
    BY <1>5 DEF IInv, ShownOnlineIsLoggedIn
  <2> QED BY <1>0, <1>5, <2>1, NetworkDisconnectedInv DEF LoginRefused
<1> QED BY <1>1, <1>2, <1>3, <1>4, <1>5 DEF Login

\* The branches of changeStatus that do nothing about the new status.
LEMMA KeepStatusInv ==
  ASSUME IInv, RestOK, NEW m \in Status, NEW r \in Status,
         KeepStatus(m, r),
         ~IsDisconnected(current) => ~IsDisconnected(r)
  PROVE  IInv'
<1>1. WindowsOK
  BY DEF KeepStatus, WindowsOK, IInv, TypeOK
<1> QED BY <1>1, KeepInv DEF KeepStatus, IInv, TypeOK, ShownOnlineIsLoggedIn

\* changeStatus(force)
LEMMA ChangeStatusInv ==
  ASSUME IInv, RestOK, NEW m \in Status, NEW r \in Status, NEW force \in BOOLEAN,
         ChangeStatus(m, r, force)
  PROVE  IInv'
<1>1. CASE r = current /\ ~force
  <2>1. KeepStatus(m, r)
    BY <1>1 DEF ChangeStatus
  <2> QED BY <1>1, <2>1, KeepStatusInv
<1>2. CASE ~(r = current /\ ~force)
  <2>1. CASE BothDisconnected(r) /\ ChangeDisconnectedStatus(m, r)
    <3>1. /\ manual' \in Status /\ real' \in Status /\ current' \in Status
          /\ IsDisconnected(current')
      BY <2>1 DEF BothDisconnected, ChangeDisconnectedStatus
    <3>2. WindowsOK
      BY <2>1 DEF ChangeDisconnectedStatus, WindowsOK, IInv, TypeOK
    <3>3. CASE ReleaseConnection(handler) /\ state' = "Disconnected"
      BY <3>1, <3>2, <3>3, ReleaseInv DEF IInv, TypeOK
    <3>4. CASE UNCHANGED <<state, sessionVars>>
      BY <3>1, <3>2, <3>4, KeepInv
    <3> QED BY <2>1, <3>3, <3>4 DEF ChangeDisconnectedStatus
  <2>2. CASE state = "Connecting" /\ KeepStatus(m, r)
    <3>1. IsDisconnected(current)
      BY <2>2 DEF IInv, SessionOwned, ShownOnlineIsLoggedIn
    <3> QED BY <2>2, <3>1, KeepStatusInv
  <2>3. CASE IsDisconnected(current) /\ Login(m, r, hasPassword, passwordWindows)
    BY <2>3, LoginInv DEF IInv, TypeOK
  <2>4. CASE r.type = "NotAvailable" /\ KeepStatus(m, r)
    <3>1. ~IsDisconnected(r)
      BY <2>4 DEF IsDisconnected, Group
    <3> QED BY <2>4, <3>1, KeepStatusInv
  <2>5. CASE ~IsDisconnected(current) /\ SendStatus(m, r)
    <3>1. manual' \in Status /\ real' \in Status /\ current' \in Status /\ current' = r /\ real' = r
      BY <2>5 DEF SendStatus
    <3>2. WindowsOK
      BY <2>5 DEF SendStatus, WindowsOK, IInv, TypeOK
    <3>3. CASE IsDisconnected(r)
      BY <2>5, <3>1, <3>2, <3>3, ReleaseInv DEF SendStatus, IInv, TypeOK
    <3>4. CASE ~IsDisconnected(r)
      BY <2>5, <3>1, <3>2, <3>4, KeepInv DEF SendStatus, IInv, ShownOnlineIsLoggedIn
    <3> QED BY <3>3, <3>4
  <2> QED BY <1>2, <2>1, <2>2, <2>3, <2>4, <2>5 DEF ChangeStatus
<1> QED BY <1>1, <1>2

\* setStatus
LEMMA SetStatusInv ==
  ASSUME IInv, RestOK, NEW s \in Status, SetStatus(s)
  PROVE  IInv'
<1>1. Changed(idle, s) \in Status
  BY ChangedType DEF IInv, TypeOK
<1> QED BY <1>1, ChangeStatusInv DEF SetStatus

-----------------------------------------------------------------------------
(* The theorems.                                                           *)

\* The initial states satisfy the invariant.
LEMMA InitInv == Init => IInv
<1> SUFFICES ASSUME Init PROVE IInv
  OBVIOUS
<1>1. TypeOK
  <2>1. loginTimers \in 0..MaxLoginTimers
    BY ConnectionAssumption DEF Init, ConnectionAssumption
  <2>2. /\ passwordErrors \in 0..MaxPasswordWindows
        /\ passwordWindows \in 0..MaxPasswordWindows
    BY ConnectionAssumption DEF Init, ConnectionAssumption
  <2> QED BY <2>1, <2>2, OfflineStatusType DEF Init, TypeOK, IdleModes
<1>2. SessionOwned /\ PresenceIsOfThisSession /\ FileTransferFollowsAccount
  BY DEF Init, SessionOwned, PresenceIsOfThisSession, FileTransferFollowsAccount
<1>3. ShownOnlineIsLoggedIn /\ ShownOnlineIsWanted
  BY OfflineStatusType DEF Init, ShownOnlineIsLoggedIn, ShownOnlineIsWanted
<1> QED BY <1>1, <1>2, <1>3 DEF IInv

\* The user's actions keep it.
LEMMA UserInv == IInv /\ User => IInv'
<1> SUFFICES ASSUME IInv, User PROVE IInv'
  OBVIOUS
<1>a. /\ manual \in Status /\ real \in Status /\ current \in Status
  BY DEF IInv, TypeOK
<1>1. ASSUME NEW type \in UserTypes, UserSetsType(type) PROVE IInv'
  <2>1. RestOK
    BY <1>1 DEF UserSetsType, RestOK, IInv, TypeOK, accountVars
  <2>2. [current EXCEPT !.type = type] \in Status
    BY <1>a, StatusEdits, ConnectionAssumption DEF ConnectionAssumption
  <2> QED BY <1>1, <2>1, <2>2, SetStatusInv DEF UserSetsType
<1>2. ASSUME NEW d \in Descriptions, UserSetsDescription(d) PROVE IInv'
  <2>1. RestOK
    BY <1>2 DEF UserSetsDescription, RestOK, IInv, TypeOK, accountVars
  <2>2. [current EXCEPT !.description = d] \in Status
    BY <1>a, StatusEdits
  <2> QED BY <1>2, <2>1, <2>2, SetStatusInv DEF UserSetsDescription
<1>3. CASE UserChangesPrivateMode
  <2>1. RestOK
    BY <1>3 DEF UserChangesPrivateMode, RestOK, IInv, TypeOK, accountVars
  <2> QED BY <1>3, <1>a, <2>1, ChangeStatusInv DEF UserChangesPrivateMode
<1>4. ASSUME NEW password \in BOOLEAN, NEW uin \in BOOLEAN, NEW dcc \in BOOLEAN,
             UserEditsAccount(password, uin, dcc)
      PROVE  IInv'
  <2>1. TypeOK'
    BY <1>4 DEF UserEditsAccount, IInv, TypeOK, statusVars
  <2>2. SessionOwned' /\ PresenceIsOfThisSession' /\ FileTransferFollowsAccount'
    BY <1>4 DEF UserEditsAccount, IInv, SessionOwned, PresenceIsOfThisSession, FileTransferFollowsAccount
  <2>3. ShownOnlineIsLoggedIn' /\ ShownOnlineIsWanted'
    BY <1>4 DEF UserEditsAccount, IInv, ShownOnlineIsLoggedIn, ShownOnlineIsWanted, statusVars
  <2> QED BY <2>1, <2>2, <2>3 DEF IInv
<1>5. CASE PasswordEntered
  <2>1. RestOK
    BY <1>5 DEF PasswordEntered, RestOK, IInv, TypeOK
  <2>2. passwordWindows - 1 \in 0..MaxPasswordWindows
    BY <1>5, ConnectionAssumption DEF PasswordEntered, IInv, TypeOK, ConnectionAssumption
  <2> QED BY <1>5, <1>a, <2>1, <2>2, LoginInv DEF PasswordEntered, IInv, ShownOnlineIsWanted
<1>6. CASE PasswordCancelled
  <2>1. RestOK
    BY <1>6 DEF PasswordCancelled, RestOK, IInv, TypeOK, accountVars
  <2>2. WindowsOK
    BY <1>6, ConnectionAssumption DEF PasswordCancelled, WindowsOK, IInv, TypeOK, ConnectionAssumption
  <2>3. /\ manual' \in Status /\ real' \in Status /\ current' \in Status
        /\ IsDisconnected(current')
    BY <1>6, <1>a, StatusEdits DEF PasswordCancelled, StatusTypes
  <2>4. CASE UNCHANGED <<state, sessionVars>>
    BY <2>1, <2>2, <2>3, <2>4, KeepInv
  <2>5. CASE ReleaseConnection(handler) /\ state' = "Disconnected"
    BY <2>1, <2>2, <2>3, <2>5, ReleaseInv DEF IInv, TypeOK
  <2> QED BY <1>6, <2>4, <2>5 DEF PasswordCancelled
<1>7. CASE PasswordWindowClosed
  <2>1. RestOK
    BY <1>7 DEF PasswordWindowClosed, RestOK, IInv, TypeOK, accountVars
  <2>2. WindowsOK
    BY <1>7, ConnectionAssumption DEF PasswordWindowClosed, WindowsOK, IInv, TypeOK, ConnectionAssumption
  <2> QED BY <1>7, <1>a, <2>1, <2>2, KeepInv
        DEF PasswordWindowClosed, statusVars, IInv, ShownOnlineIsLoggedIn, ShownOnlineIsWanted
<1> QED BY <1>1, <1>2, <1>3, <1>4, <1>5, <1>6, <1>7 DEF User

\* Timers and queued signals keep it.
LEMMA TimersInv == IInv /\ Timers => IInv'
<1> SUFFICES ASSUME IInv, Timers PROVE IInv'
  OBVIOUS
<1>a. manual \in Status /\ real \in Status /\ current \in Status
  BY DEF IInv, TypeOK
<1>1. ASSUME NEW mode \in UserModes, IdleChanges(mode) PROVE IInv'
  <2>1. mode \in IdleModes
    BY ConnectionAssumption DEF ConnectionAssumption
  <2>2. RestOK
    BY <1>1, <2>1 DEF IdleChanges, RestOK, IInv, TypeOK, accountVars
  <2>3. Changed(mode, manual) \in Status
    BY <1>a, <2>1, ChangedType
  <2> QED BY <1>1, <1>a, <2>2, <2>3, ChangeStatusInv DEF IdleChanges
<1>2. CASE LoginTimer
  <2>1. RestOK
    BY <1>2, ConnectionAssumption DEF LoginTimer, RestOK, IInv, TypeOK, accountVars, ConnectionAssumption
  <2> QED BY <1>2, <1>a, <2>1, LoginInv DEF LoginTimer, IInv, TypeOK, ShownOnlineIsWanted
<1>3. CASE AskForValidPassword
  <2>1. RestOK
    BY <1>3, ConnectionAssumption DEF AskForValidPassword, RestOK, IInv, TypeOK, accountVars, ConnectionAssumption
  <2>2. WindowsOK
    BY <1>3, ConnectionAssumption DEF AskForValidPassword, WindowsOK, IInv, TypeOK, ConnectionAssumption
  <2> QED BY <1>3, <1>a, <2>1, <2>2, KeepInv
        DEF AskForValidPassword, statusVars, IInv, ShownOnlineIsLoggedIn, ShownOnlineIsWanted
<1> QED BY <1>1, <1>2, <1>3 DEF Timers

\* The server's events keep it.
LEMMA ServerInv == IInv /\ ServerEvents => IInv'
<1> SUFFICES ASSUME IInv, ServerEvents PROVE IInv'
  OBVIOUS
<1>a. manual \in Status /\ real \in Status /\ current \in Status /\ handler \in BOOLEAN
  BY DEF IInv, TypeOK
<1>1. CASE ConnectionSuccess
  <2>1. TypeOK'
    BY <1>1, <1>a DEF ConnectionSuccess, IInv, TypeOK
  <2>2. SessionOwned' /\ PresenceIsOfThisSession' /\ FileTransferFollowsAccount'
    BY <1>1 DEF ConnectionSuccess, IInv, TypeOK, SessionOwned, PresenceIsOfThisSession, FileTransferFollowsAccount
  <2>3. ShownOnlineIsLoggedIn' /\ ShownOnlineIsWanted'
    BY <1>1 DEF ConnectionSuccess, ShownOnlineIsLoggedIn, ShownOnlineIsWanted
  <2> QED BY <2>1, <2>2, <2>3 DEF IInv
<1>2. CASE ConnectionBroken
  <2>1. RestOK /\ WindowsOK
    BY <1>2, ConnectionAssumption
    DEF ConnectionBroken, NetworkDisconnectedTryAgain, RestOK, WindowsOK, IInv, TypeOK, accountVars, ConnectionAssumption
  <2>2. /\ manual' \in Status /\ real' \in Status /\ current' \in Status
        /\ IsDisconnected(current')
    BY <1>2, <1>a, OfflineStatusType
    DEF ConnectionBroken, NetworkDisconnectedTryAgain, statusVars, IInv, ShownOnlineIsWanted
  <2> QED BY <1>2, <1>a, <2>1, <2>2, ReleaseInv
        DEF ConnectionBroken, NetworkDisconnectedTryAgain, IInv, TypeOK
<1>3. CASE LoginDenied
  <2>1. RestOK /\ WindowsOK
    BY <1>3 DEF LoginDenied, RestOK, WindowsOK, IInv, TypeOK, accountVars
  <2>2. IsDisconnected(current)
    BY <1>3 DEF LoginDenied, IInv, ShownOnlineIsLoggedIn
  <2> QED BY <1>3, <1>a, <2>1, <2>2, NetworkDisconnectedInv DEF LoginDenied
<1>4. CASE PasswordDenied
  <2>1. RestOK /\ WindowsOK
    BY <1>4, ConnectionAssumption DEF PasswordDenied, RestOK, WindowsOK, IInv, TypeOK, accountVars, ConnectionAssumption
  <2>2. IsDisconnected(current)
    BY <1>4 DEF PasswordDenied, IInv, ShownOnlineIsLoggedIn
  <2> QED BY <1>4, <1>a, <2>1, <2>2, NetworkDisconnectedInv DEF PasswordDenied
<1>5. CASE ServerDisconnects
  <2>1. RestOK /\ WindowsOK
    BY <1>5 DEF ServerDisconnects, RestOK, WindowsOK, IInv, TypeOK, accountVars
  <2>2. IsDisconnected(real) => IsDisconnected(current)
    BY DEF IInv, ShownOnlineIsWanted
  <2> QED BY <1>5, <1>a, <2>1, <2>2, NetworkDisconnectedInv DEF ServerDisconnects
<1>6. ASSUME NEW online \in BOOLEAN, ContactStatus(online) PROVE IInv'
  <2>1. TypeOK'
    BY <1>6 DEF ContactStatus, IInv, TypeOK, statusVars, accountVars
  <2> QED BY <1>6, <2>1
        DEF ContactStatus, statusVars, accountVars, IInv, SessionOwned, PresenceIsOfThisSession,
            FileTransferFollowsAccount, ShownOnlineIsLoggedIn, ShownOnlineIsWanted
<1>7. ASSUME NEW others \in BOOLEAN, MultilogonInfo(others) PROVE IInv'
  <2>1. TypeOK'
    BY <1>7 DEF MultilogonInfo, IInv, TypeOK, statusVars, accountVars
  <2> QED BY <1>7, <2>1
        DEF MultilogonInfo, statusVars, accountVars, IInv, SessionOwned, PresenceIsOfThisSession,
            FileTransferFollowsAccount, ShownOnlineIsLoggedIn, ShownOnlineIsWanted
<1> QED BY <1>1, <1>2, <1>3, <1>4, <1>5, <1>6, <1>7 DEF ServerEvents, LoginAnswered

\* Doing nothing keeps it.
LEMMA StutterInv == IInv /\ UNCHANGED vars => IInv'
  BY DEF vars, statusVars, sessionVars, accountVars, IInv, TypeOK, SessionOwned,
         PresenceIsOfThisSession, FileTransferFollowsAccount, ShownOnlineIsLoggedIn,
         ShownOnlineIsWanted

\* The inductive invariant holds in every reachable state, for every set of
\* descriptions, server list, TLS setting and bound.
THEOREM Invariance == Spec => []IInv
<1>1. IInv /\ [Next]_vars => IInv'
  BY UserInv, TimersInv, ServerInv, StutterInv DEF Next
<1> QED BY <1>1, InitInv, PTL DEF Spec

\* Every variable keeps its type.
THEOREM TypeCorrect == Spec => []TypeOK
<1>1. IInv => TypeOK
  BY DEF IInv
<1> QED BY <1>1, Invariance, PTL

\* What is made for a session lives and dies with it: no handler, notifier or
\* ping timer is missing while a session exists, none uses a freed one.
THEOREM SessionIsOwned == Spec => []SessionOwned
<1>1. IInv => SessionOwned
  BY DEF IInv
<1> QED BY <1>1, Invariance, PTL

\* An account is shown online only while it is logged in; contacts and other
\* sessions of the user are shown only while the session that reported them
\* lasts.
THEOREM ShownPresenceIsTrue == Spec => [](ShownOnlineIsLoggedIn /\ PresenceIsOfThisSession)
<1>1. IInv => ShownOnlineIsLoggedIn /\ PresenceIsOfThisSession
  BY DEF IInv
<1> QED BY <1>1, Invariance, PTL

\* Besides the presence of others, the file transfer service agrees with the
\* account's setting in every session, and is never there against it, however
\* often the account is edited.
THEOREM SessionIsAlwaysReported == Spec => []SessionIsReported
<1>1. IInv => SessionIsReported
  BY DEF IInv, SessionIsReported
<1> QED BY <1>1, Invariance, PTL

-----------------------------------------------------------------------------
(* GaduConnection implements AccountSession.  Each lemma follows one call  *)
(* of the code and shows which step of the abstract specification it is.   *)


\* Handlers other than networkDisconnected arm no retry.
NoNewRetry == loginTimers' > 0 => loginTimers > 0

-----------------------------------------------------------------------------
\* Releasing the connection is Lose if there was a session, provided that a
\* user who still wants to be online wanted it before and is answered.
LEMMA ReleaseStep ==
  ASSUME IInv, NEW h, ReleaseConnection(h), IsDisconnected(current'),
         session = "none" => NoNewRetry,
         ~IsDisconnected(real') /\ session # "none" =>
            /\ ~IsDisconnected(real)
            /\ loginTimers' > 0 \/ passwordErrors' > 0 \/ passwordWindows' > 0
  PROVE  Session!SessionNext
<1>1. CASE session # "none"
  <2>1. Session!Lose
    BY <1>1 DEF Session!Lose, ReleaseConnection
  <2> QED BY <2>1 DEF Session!SessionNext
<1>2. CASE session = "none"
  <2>1. IsDisconnected(current)
    BY <1>2 DEF IInv, ShownOnlineIsLoggedIn
  <2>2. Session!Carry
    BY <1>2, <2>1 DEF Session!Carry, ReleaseConnection, NoNewRetry
  <2> QED BY <2>2 DEF Session!SessionNext
<1> QED BY <1>1, <1>2

\* A handler that keeps the session, and an online status only while it is
\* wanted, is Carry.
LEMMA KeepStep ==
  ASSUME session' = session,
         IsDisconnected(current') <=> IsDisconnected(current),
         ~IsDisconnected(current) => ~IsDisconnected(real'),
         NoNewRetry
  PROVE  Session!SessionNext
<1>1. Session!Carry
  BY DEF Session!Carry, NoNewRetry
<1> QED BY <1>1 DEF Session!SessionNext

\* login(): called with a wish, for a retry or after a question.
LEMMA LoginStep ==
  ASSUME IInv, NEW m, NEW r, NEW password, NEW windows,
         Login(m, r, password, windows), NoNewRetry,
         ~IsDisconnected(current) => ~IsDisconnected(r),
         \/ ~IsDisconnected(r)
         \/ loginTimers > 0 \/ passwordErrors > 0 \/ passwordWindows > 0
  PROVE  Session!SessionNext
<1>1. CASE LoginIgnored(m, r)
  BY <1>1, KeepStep DEF LoginIgnored, sessionVars
<1>2. CASE session = "none" /\ LoginWithoutUin
  <2>1. IsDisconnected(current) /\ IsDisconnected(current') /\ IsDisconnected(real')
    BY <1>2, OfflineStatusType DEF LoginWithoutUin, IInv, ShownOnlineIsLoggedIn
  <2>2. CASE ReleaseConnection(handler)
    BY <2>1, <2>2, ReleaseStep
  <2>3. CASE UNCHANGED sessionVars
    BY <2>1, <2>3, KeepStep DEF sessionVars
  <2> QED BY <1>2, <2>2, <2>3 DEF LoginWithoutUin
<1>3. CASE real' = r /\ UNCHANGED <<state, current, sessionVars, serversVars>>
  BY <1>3, KeepStep DEF sessionVars
<1>4. CASE session = "none" /\ LoginStarted(m, r)
  <2>1. current' = current /\ real' = r /\ session' = "logging"
    BY <1>4 DEF LoginStarted
  <2>2. Session!Begin
    BY <1>4, <2>1 DEF Session!Begin, NoNewRetry
  <2> QED BY <2>2 DEF Session!SessionNext
<1>5. CASE session = "none" /\ LoginRefused(m, r)
  <2>1. IsDisconnected(current)
    BY <1>5 DEF IInv, ShownOnlineIsLoggedIn
  <2>2. IsDisconnected(current')
    BY <1>5, <2>1, OfflineStatusType DEF LoginRefused, NetworkDisconnected
  <2> QED BY <1>5, <2>2, ReleaseStep DEF LoginRefused, NetworkDisconnected
<1> QED BY <1>1, <1>2, <1>3, <1>4, <1>5 DEF Login

\* changeStatus(force)
LEMMA ChangeStatusStep ==
  ASSUME IInv, NEW m, NEW r, NEW force \in BOOLEAN, ChangeStatus(m, r, force), NoNewRetry
  PROVE  Session!SessionNext
<1>k. ASSUME KeepStatus(m, r), ~IsDisconnected(current) => ~IsDisconnected(r)
      PROVE  Session!SessionNext
  BY <1>k, KeepStep DEF KeepStatus, sessionVars
<1>1. CASE r = current /\ ~force
  BY <1>1, <1>k DEF ChangeStatus
<1>2. CASE ~(r = current /\ ~force)
  <2>1. CASE BothDisconnected(r) /\ ChangeDisconnectedStatus(m, r)
    <3>1. IsDisconnected(current) /\ IsDisconnected(current') /\ IsDisconnected(real')
      BY <2>1 DEF BothDisconnected, ChangeDisconnectedStatus
    <3>2. CASE ReleaseConnection(handler)
      BY <3>1, <3>2, ReleaseStep
    <3>3. CASE UNCHANGED sessionVars
      BY <3>1, <3>3, KeepStep DEF sessionVars
    <3> QED BY <2>1, <3>2, <3>3 DEF ChangeDisconnectedStatus
  <2>2. CASE state = "Connecting" /\ KeepStatus(m, r)
    <3>1. IsDisconnected(current)
      BY <2>2 DEF IInv, SessionOwned, ShownOnlineIsLoggedIn
    <3> QED BY <1>k, <2>2, <3>1
  <2>3. CASE /\ ~BothDisconnected(r) /\ IsDisconnected(current)
             /\ Login(m, r, hasPassword, passwordWindows)
    <3>1. ~IsDisconnected(r)
      BY <2>3 DEF BothDisconnected
    <3> QED BY <2>3, <3>1, LoginStep
  <2>4. CASE r.type = "NotAvailable" /\ KeepStatus(m, r)
    <3>1. ~IsDisconnected(r)
      BY <2>4 DEF IsDisconnected, Group
    <3> QED BY <1>k, <2>4, <3>1
  <2>5. CASE ~IsDisconnected(current) /\ SendStatus(m, r)
    <3>1. current' = r /\ real' = r
      BY <2>5 DEF SendStatus
    <3>2. CASE IsDisconnected(r)
      BY <2>5, <3>1, <3>2, ReleaseStep DEF SendStatus
    <3>3. CASE ~IsDisconnected(r)
      BY <2>5, <3>1, <3>3, KeepStep DEF SendStatus, sessionVars
    <3> QED BY <3>2, <3>3
  <2> QED BY <1>2, <2>1, <2>2, <2>3, <2>4, <2>5 DEF ChangeStatus
<1> QED BY <1>1, <1>2

-----------------------------------------------------------------------------
\* The user's actions are steps of the abstract specification.
LEMMA UserStep == IInv /\ User => Session!SessionNext
<1> SUFFICES ASSUME IInv, User PROVE Session!SessionNext
  OBVIOUS
<1>1. ASSUME NEW type \in UserTypes, UserSetsType(type) PROVE Session!SessionNext
  BY <1>1, ChangeStatusStep DEF UserSetsType, SetStatus, NoNewRetry
<1>2. ASSUME NEW d \in Descriptions, UserSetsDescription(d) PROVE Session!SessionNext
  BY <1>2, ChangeStatusStep DEF UserSetsDescription, SetStatus, NoNewRetry
<1>3. CASE UserChangesPrivateMode
  BY <1>3, ChangeStatusStep DEF UserChangesPrivateMode, NoNewRetry
<1>4. ASSUME NEW password \in BOOLEAN, NEW uin \in BOOLEAN, NEW dcc \in BOOLEAN,
             UserEditsAccount(password, uin, dcc)
      PROVE  Session!SessionNext
  BY <1>4, KeepStep DEF UserEditsAccount, statusVars, NoNewRetry, IInv, ShownOnlineIsWanted
<1>5. CASE PasswordEntered
  BY <1>5, LoginStep DEF PasswordEntered, NoNewRetry, IInv, ShownOnlineIsWanted
<1>6. CASE PasswordCancelled
  <2>1. current \in Status /\ NoNewRetry
    BY <1>6 DEF PasswordCancelled, NoNewRetry, IInv, TypeOK
  <2>2. IsDisconnected(current') /\ IsDisconnected(real')
    BY <1>6, <2>1, StatusEdits DEF PasswordCancelled
  <2>3. CASE ReleaseConnection(handler)
    BY <2>1, <2>2, <2>3, ReleaseStep
  <2>4. CASE UNCHANGED sessionVars /\ IsDisconnected(current)
    BY <2>1, <2>2, <2>4, KeepStep DEF sessionVars
  <2>5. state = "Connecting" => IsDisconnected(current)
    BY DEF IInv, SessionOwned, ShownOnlineIsLoggedIn
  <2> QED BY <1>6, <2>3, <2>4, <2>5 DEF PasswordCancelled
<1>7. CASE PasswordWindowClosed
  BY <1>7, KeepStep
  DEF PasswordWindowClosed, statusVars, sessionVars, NoNewRetry, IInv, ShownOnlineIsWanted
<1> QED BY <1>1, <1>2, <1>3, <1>4, <1>5, <1>6, <1>7 DEF User

\* So are timers and queued signals.
LEMMA TimersStep == IInv /\ Timers => Session!SessionNext
<1> SUFFICES ASSUME IInv, Timers PROVE Session!SessionNext
  OBVIOUS
<1>1. ASSUME NEW mode \in UserModes, IdleChanges(mode) PROVE Session!SessionNext
  BY <1>1, ChangeStatusStep DEF IdleChanges, NoNewRetry
<1>2. CASE LoginTimer
  BY <1>2, LoginStep DEF LoginTimer, NoNewRetry, IInv, ShownOnlineIsWanted
<1>3. CASE AskForValidPassword
  BY <1>3, KeepStep
  DEF AskForValidPassword, statusVars, sessionVars, NoNewRetry, IInv, ShownOnlineIsWanted
<1> QED BY <1>1, <1>2, <1>3 DEF Timers

\* So are the answers and the other events of the server.
LEMMA ServerStep == IInv /\ ServerEvents => Session!SessionNext
<1> SUFFICES ASSUME IInv, ServerEvents PROVE Session!SessionNext
  OBVIOUS
<1>a. loginTimers \in Nat /\ passwordErrors \in Nat
  BY ConnectionAssumption DEF IInv, TypeOK, ConnectionAssumption
<1>1. CASE ConnectionSuccess
  <2>1. Session!Succeed
    BY <1>1 DEF ConnectionSuccess, Session!Succeed
  <2> QED BY <2>1 DEF Session!SessionNext
<1>2. CASE ConnectionBroken
  <2>1. session # "none" /\ ReleaseConnection(handler) /\ real' = real
    BY <1>2 DEF ConnectionBroken, NetworkDisconnectedTryAgain, statusVars, IInv, SessionOwned
  <2>2. IsDisconnected(current')
    BY <1>2, OfflineStatusType
    DEF ConnectionBroken, NetworkDisconnectedTryAgain, IInv, ShownOnlineIsWanted
  <2>3. ~IsDisconnected(real) => loginTimers' > 0
    BY <1>2, <1>a DEF ConnectionBroken, NetworkDisconnectedTryAgain
  <2> QED BY <2>1, <2>2, <2>3, ReleaseStep
<1>3. CASE LoginDenied
  <2>1. IsDisconnected(current) /\ NoNewRetry /\ session # "none"
    BY <1>3 DEF LoginDenied, NoNewRetry, IInv, ShownOnlineIsLoggedIn
  <2>2. IsDisconnected(current') /\ IsDisconnected(real')
    BY <1>3, <2>1, OfflineStatusType DEF LoginDenied, NetworkDisconnected
  <2> QED BY <1>3, <2>1, <2>2, ReleaseStep DEF LoginDenied, NetworkDisconnected
<1>4. CASE PasswordDenied
  <2>1. passwordErrors' > 0 /\ IsDisconnected(current) /\ session # "none"
    BY <1>4, <1>a DEF PasswordDenied, IInv, ShownOnlineIsLoggedIn
  <2>2. current' = current /\ real' = real
    BY <1>4 DEF PasswordDenied, NetworkDisconnected
  <2> QED BY <1>4, <2>1, <2>2, ReleaseStep DEF PasswordDenied, NetworkDisconnected
<1>5. CASE ServerDisconnects
  <2>1. IsDisconnected(current') /\ IsDisconnected(real')
    BY <1>5, OfflineStatusType DEF ServerDisconnects, NetworkDisconnected, IInv, ShownOnlineIsWanted
  <2> QED BY <1>5, <2>1, ReleaseStep DEF ServerDisconnects, NetworkDisconnected
<1>6. ASSUME NEW online \in BOOLEAN, ContactStatus(online) PROVE Session!SessionNext
  BY <1>6, KeepStep DEF ContactStatus, statusVars, NoNewRetry, IInv, ShownOnlineIsWanted
<1>7. ASSUME NEW others \in BOOLEAN, MultilogonInfo(others) PROVE Session!SessionNext
  BY <1>7, KeepStep DEF MultilogonInfo, statusVars, NoNewRetry, IInv, ShownOnlineIsWanted
<1> QED BY <1>1, <1>2, <1>3, <1>4, <1>5, <1>6, <1>7 DEF ServerEvents, LoginAnswered

\* The initial states of the connection are those of the abstract session.
LEMMA SessionStarts == Init => Session!SessionInit
  BY OfflineStatusType DEF Init, Session!SessionInit

\* Whatever the user, timers and the server do, each step of the connection is
\* a step of AccountSession or changes nothing of it.
THEOREM ImplementsAccountSession == Spec => ImplementsSession
<1>1. IInv /\ [Next]_vars => [Session!SessionNext]_(Session!sessionVars)
  <2>1. IInv /\ Next => Session!SessionNext
    BY UserStep, TimersStep, ServerStep DEF Next
  <2>2. UNCHANGED vars => UNCHANGED Session!sessionVars
    BY DEF vars, statusVars, sessionVars, Session!sessionVars
  <2> QED BY <2>1, <2>2
<1> QED BY <1>1, SessionStarts, Invariance, PTL DEF Spec, ImplementsSession, Session!SessionSpec

\* A user shown online who goes offline, by hand or by being idle, is logged
\* out by that very step: no step of AccountSession but Lose lets the wish go.
THEOREM GoingOfflineLogsOut == Spec => OfflineLogsOut
<1>1. ASSUME IInv, [Next]_vars
      PROVE  [~IsDisconnected(current) /\ ~IsDisconnected(real) /\ IsDisconnected(real')
                => session' = "none" /\ IsDisconnected(current')]_vars
  <2> SUFFICES ASSUME Next, ~IsDisconnected(current), ~IsDisconnected(real), IsDisconnected(real')
               PROVE  session' = "none" /\ IsDisconnected(current')
    BY <1>1
  <2>1. Session!SessionNext /\ session = "up"
    BY <1>1, UserStep, TimersStep, ServerStep DEF Next, IInv, ShownOnlineIsLoggedIn
  <2>2. Session!Lose
    BY <2>1 DEF Session!SessionNext, Session!Begin, Session!Succeed, Session!Carry
  <2> QED BY <2>2 DEF Session!Lose
<1> QED BY <1>1, Invariance, PTL DEF Spec, OfflineLogsOut
-----------------------------------------------------------------------------
(* A lost session is not forgotten.                                        *)

Kept == session' = session \/ session = "none" \/ IsDisconnected(real')

\* No call of login() gives up the session of a user who wants to be online.
LEMMA LoginKeeps ==
  ASSUME NEW m, NEW r, NEW password, NEW windows, Login(m, r, password, windows)
  PROVE  Kept
<1>1. IsDisconnected(OfflineStatus)
  BY OfflineStatusType
<1> QED BY <1>1 DEF Login, LoginIgnored, LoginWithoutUin, LoginStarted, LoginRefused, sessionVars, Kept

\* Neither does changeStatus.
LEMMA ChangeStatusKeeps ==
  ASSUME NEW m, NEW r, NEW force \in BOOLEAN, ChangeStatus(m, r, force)
  PROVE  Kept
<1>1. CASE Login(m, r, hasPassword, passwordWindows)
  BY <1>1, LoginKeeps
<1>2. CASE KeepStatus(m, r)
  BY <1>2 DEF KeepStatus, sessionVars, Kept
<1>3. CASE BothDisconnected(r) /\ ChangeDisconnectedStatus(m, r)
  BY <1>3 DEF BothDisconnected, ChangeDisconnectedStatus, Kept
<1>4. CASE SendStatus(m, r)
  BY <1>4 DEF SendStatus, sessionVars, Kept
<1> QED BY <1>1, <1>2, <1>3, <1>4 DEF ChangeStatus

\* A session that is lost while the user wants to be online leaves a new retry
\* or a new question for the password behind, on every path through the code.
THEOREM LostSessionsAreAnswered == Spec => LostSessionIsNotForgotten
<1>1. ASSUME IInv, Next, session # "none", session' = "none", ~IsDisconnected(real')
      PROVE  loginTimers' > loginTimers \/ passwordErrors' > passwordErrors
  <2>a. /\ loginTimers \in Nat /\ passwordErrors \in Nat
        /\ ~Kept
    BY <1>1, ConnectionAssumption DEF IInv, TypeOK, ConnectionAssumption, Kept
  <2>b. IsDisconnected(OfflineStatus)
    BY OfflineStatusType
  <2>1. ~User
    <3>1. \A type \in UserTypes : ~UserSetsType(type)
      BY <2>a, ChangeStatusKeeps DEF UserSetsType, SetStatus
    <3>2. \A d \in Descriptions : ~UserSetsDescription(d)
      BY <2>a, ChangeStatusKeeps DEF UserSetsDescription, SetStatus
    <3>3. ~UserChangesPrivateMode
      BY <2>a, ChangeStatusKeeps DEF UserChangesPrivateMode
    <3>4. \A password, uin, dcc \in BOOLEAN : ~UserEditsAccount(password, uin, dcc)
      BY <1>1 DEF UserEditsAccount
    <3>5. ~PasswordEntered
      BY <2>a, LoginKeeps DEF PasswordEntered
    <3>6. ~PasswordCancelled
      <4>1. current \in Status
        BY <1>1 DEF IInv, TypeOK
      <4> QED BY <1>1, <4>1, StatusEdits DEF PasswordCancelled
    <3>7. ~PasswordWindowClosed
      BY <1>1 DEF PasswordWindowClosed, sessionVars
    <3> QED BY <3>1, <3>2, <3>3, <3>4, <3>5, <3>6, <3>7 DEF User
  <2>2. ~Timers
    <3>1. \A mode \in UserModes : ~IdleChanges(mode)
      BY <2>a, ChangeStatusKeeps DEF IdleChanges
    <3>2. ~LoginTimer
      BY <2>a, LoginKeeps DEF LoginTimer
    <3>3. ~AskForValidPassword
      BY <1>1 DEF AskForValidPassword, sessionVars
    <3> QED BY <3>1, <3>2, <3>3 DEF Timers
  <2>3. ~ConnectionSuccess /\ ~(\E o \in BOOLEAN : ContactStatus(o) \/ MultilogonInfo(o))
    BY <1>1 DEF ConnectionSuccess, ContactStatus, MultilogonInfo
  <2>4. ~LoginDenied /\ ~ServerDisconnects
    BY <1>1, <2>b DEF LoginDenied, ServerDisconnects, NetworkDisconnected
  <2>5. CASE ConnectionBroken
    BY <1>1, <2>5, <2>a DEF ConnectionBroken, NetworkDisconnectedTryAgain, statusVars
  <2>6. CASE PasswordDenied
    BY <2>6, <2>a DEF PasswordDenied
  <2> QED BY <1>1, <2>1, <2>2, <2>3, <2>4, <2>5, <2>6 DEF Next, ServerEvents, LoginAnswered
<1>2. IInv /\ [Next]_vars =>
        [session # "none" /\ session' = "none" /\ ~IsDisconnected(real')
           => loginTimers' > loginTimers \/ passwordErrors' > passwordErrors]_vars
  BY <1>1
<1> QED BY <1>2, Invariance, PTL DEF Spec, LostSessionIsNotForgotten

-----------------------------------------------------------------------------
(* The connection as one of the accounts that share the servers.          *)

\* A step of the connection, to the servers it shares.
SharedStep == SharedServers!ClientsNext \/ UNCHANGED SharedServers!clientVars

\* The instance looks for a server as the connection does.
LEMMA SameSearch ==
  ASSUME NEW onlyTls \in BOOLEAN
  PROVE  /\ SharedServers!Searched(onlyTls) = Searched(onlyTls)
         /\ SharedServers!Given(onlyTls) = Given(onlyTls)
<1>1. SharedServers!Searched(onlyTls) = Searched(onlyTls)
  BY DEF SharedServers!Searched, Searched, SharedServers!Lists, Lists, SharedServers!SuitsTls, SuitsTls,
         SharedServers!MarkedAsBad, MarkedAsBad, SharedServers!Without, Without
<1>2. SharedServers!Given(onlyTls) = Given(onlyTls)
  BY <1>1 DEF SharedServers!Given, Given, SharedServers!NoServer, NoServer
<1> QED BY <1>1, <1>2

\* So does it build the list.
LEMMA SameList ==
  ASSUME NEW last
  PROVE  SharedServers!BuiltList(last) = BuiltList(last)
<1>1. ASSUME NEW ports PROVE SharedServers!FromFile(ports) = FromFile(ports)
  BY DEF SharedServers!FromFile, FromFile, SharedServers!OnPorts, OnPorts
<1>2. SharedServers!AllPorts(last) = AllPorts(last)
  BY DEF SharedServers!AllPorts, AllPorts
<1>3. SharedServers!LastGood(last) = LastGood(last)
  BY <1>2 DEF SharedServers!LastGood, LastGood, SharedServers!OnPorts, OnPorts
<1>4. SharedServers!Hub = Hub
  BY DEF SharedServers!Hub, Hub
<1> QED BY <1>1, <1>2, <1>3, <1>4 DEF SharedServers!BuiltList, BuiltList

\* "this" is an account with TLS, in the instance.
Tls == "this" \in IF OnlyTls THEN {"this"} ELSE {}

\* What getServer gives is what it returns.
LEMMA TakesServer ==
  ASSUME GetServer(OnlyTls, ActiveServer')
  PROVE  /\ ActiveServer' = SharedServers!Given(Tls)
         /\ SharedServers!GetServer(Tls, SharedServers!Given(Tls))
<1>1. OnlyTls \in BOOLEAN /\ Tls = OnlyTls
  BY ConnectionAssumption DEF ConnectionAssumption, Tls
<1>2. ActiveServer' = Given(OnlyTls)
  BY DEF GetServer, Given
<1>3. SharedServers!GetServer(OnlyTls, Given(OnlyTls))
  BY <1>1, <1>2, SameSearch DEF GetServer, SharedServers!GetServer, SharedServers!NoServer, NoServer
<1> QED BY <1>1, <1>2, <1>3, SameSearch

\* The account leaves the servers alone and begins no session.
LEMMA LeaveStep ==
  ASSUME UNCHANGED serversVars, session' = session \/ session' = "none"
  PROVE  SharedStep
<1>1. CASE session' = session
  BY <1>1 DEF SharedStep, SharedServers!clientVars, SharedServers!serverVars, serversVars, serverVars
<1>2. CASE session' # session
  <2>1. SharedServers!Leave("this")
    BY <1>2 DEF SharedServers!Leave, SharedServers!Idle, SharedServers!serverVars, serversVars, serverVars,
                SharedServers!NoServer, NoServer
  <2> QED BY <2>1 DEF SharedStep, SharedServers!ClientsNext
<1> QED BY <1>1, <1>2

\* login()
LEMMA LoginTakes ==
  ASSUME NEW m, NEW r, NEW password, NEW windows,
         Login(m, r, password, windows)
  PROVE  SharedStep
<1>1. CASE UNCHANGED serversVars /\ (session' = session \/ session' = "none")
  BY <1>1, LeaveStep
<1>2. CASE session = "none" /\ LoginStarted(m, r)
  <2>1. /\ ActiveServer' = SharedServers!Given(Tls)
        /\ SharedServers!GetServer(Tls, SharedServers!Given(Tls))
        /\ session = "none" /\ session' = "logging"
    BY <1>2, TakesServer DEF LoginStarted
  <2>2. SharedServers!LogIn("this")
    BY <2>1 DEF Tls, SharedServers!LogIn
  <2> QED BY <2>2 DEF SharedStep, SharedServers!ClientsNext
<1>3. CASE session = "none" /\ LoginRefused(m, r)
  <2>1. /\ SharedServers!GetServer(Tls, SharedServers!Given(Tls))
        /\ session = "none" /\ session' = "none"
    BY <1>3, TakesServer DEF LoginRefused, NetworkDisconnected, ReleaseConnection
  <2>2. SharedServers!Refused("this")
    BY <2>1 DEF Tls, SharedServers!Refused
  <2> QED BY <2>2 DEF SharedStep, SharedServers!ClientsNext
<1> QED BY <1>1, <1>2, <1>3
  DEF Login, LoginIgnored, LoginWithoutUin, ReleaseConnection, sessionVars

\* changeStatus
LEMMA ChangeStatusTakes ==
  ASSUME NEW m, NEW r, NEW force, ChangeStatus(m, r, force)
  PROVE  SharedStep
<1>1. CASE UNCHANGED serversVars /\ (session' = session \/ session' = "none")
  BY <1>1, LeaveStep
<1>2. CASE Login(m, r, hasPassword, passwordWindows)
  BY <1>2, LoginTakes
<1> QED BY <1>1, <1>2
  DEF ChangeStatus, ChangeDisconnectedStatus, KeepStatus, SendStatus, ReleaseConnection, sessionVars

\* What the user does ends the use of a server, begins one, or rebuilds the list.
LEMMA UserTakes == User => SharedStep
<1> SUFFICES ASSUME User PROVE SharedStep
  OBVIOUS
<1>1. ASSUME NEW type \in UserTypes, UserSetsType(type) PROVE SharedStep
  BY <1>1, ChangeStatusTakes DEF UserSetsType, SetStatus
<1>2. ASSUME NEW d \in Descriptions, UserSetsDescription(d) PROVE SharedStep
  BY <1>2, ChangeStatusTakes DEF UserSetsDescription, SetStatus
<1>3. CASE UserChangesPrivateMode
  BY <1>3, ChangeStatusTakes DEF UserChangesPrivateMode
<1>4. ASSUME NEW password \in BOOLEAN, NEW uin \in BOOLEAN, NEW dcc \in BOOLEAN,
             UserEditsAccount(password, uin, dcc)
      PROVE  SharedStep
  <2>1. BuildServerList /\ UNCHANGED <<session, ActiveServer>>
    BY <1>4 DEF UserEditsAccount
  <2>2. SharedServers!BuildServerList
    BY <2>1, SameList DEF BuildServerList, SharedServers!BuildServerList
  <2>3. SharedServers!Rebuild
    BY <2>1, <2>2 DEF SharedServers!Rebuild
  <2> QED BY <2>3 DEF SharedStep, SharedServers!ClientsNext
<1>5. CASE PasswordEntered
  BY <1>5, LoginTakes DEF PasswordEntered
<1>6. CASE PasswordCancelled
  BY <1>6, LeaveStep DEF PasswordCancelled, sessionVars, ReleaseConnection
<1>7. CASE PasswordWindowClosed
  BY <1>7, LeaveStep DEF PasswordWindowClosed, sessionVars
<1> QED BY <1>1, <1>2, <1>3, <1>4, <1>5, <1>6, <1>7 DEF User

\* Timers retry logins.
LEMMA TimersTake == Timers => SharedStep
<1> SUFFICES ASSUME Timers PROVE SharedStep
  OBVIOUS
<1>1. ASSUME NEW mode \in UserModes, IdleChanges(mode) PROVE SharedStep
  BY <1>1, ChangeStatusTakes DEF IdleChanges
<1>2. CASE LoginTimer
  BY <1>2, LoginTakes DEF LoginTimer
<1>3. CASE AskForValidPassword
  BY <1>3, LeaveStep DEF AskForValidPassword, sessionVars
<1> QED BY <1>1, <1>2, <1>3 DEF Timers

\* A login that succeeds and a connection that breaks are reported.
LEMMA ServerReports == IInv /\ ServerEvents => SharedStep
<1> SUFFICES ASSUME IInv, ServerEvents PROVE SharedStep
  OBVIOUS
<1>1. CASE ConnectionSuccess
  <2>1. SharedServers!Succeed("this")
    BY <1>1 DEF ConnectionSuccess, MarkServerAsGood, SharedServers!Succeed, SharedServers!MarkServerAsGood
  <2> QED BY <2>1 DEF SharedStep, SharedServers!ClientsNext
<1>2. CASE ConnectionBroken
  <2>1. session # "none" /\ session' = "none" /\ MarkServerAsBad(ActiveServer)
    BY <1>2 DEF ConnectionBroken, NetworkDisconnectedTryAgain, ReleaseConnection, IInv, SessionOwned
  <2>2. SharedServers!MarkServerAsBad(ActiveServer)
    BY <2>1 DEF MarkServerAsBad, SharedServers!MarkServerAsBad, MarkedAsBad, SharedServers!MarkedAsBad,
                Without, SharedServers!Without, Lists, SharedServers!Lists
  <2>3. SharedServers!Fail("this")
    BY <2>1, <2>2 DEF SharedServers!Fail, SharedServers!Idle, SharedServers!NoServer, NoServer
  <2> QED BY <2>3 DEF SharedStep, SharedServers!ClientsNext
<1>3. CASE LoginDenied
  BY <1>3, LeaveStep DEF LoginDenied, NetworkDisconnected, ReleaseConnection
<1>4. CASE PasswordDenied
  BY <1>4, LeaveStep DEF PasswordDenied, NetworkDisconnected, ReleaseConnection
<1>5. CASE ServerDisconnects
  BY <1>5, LeaveStep DEF ServerDisconnects, NetworkDisconnected, ReleaseConnection
<1>6. ASSUME NEW online \in BOOLEAN, ContactStatus(online) PROVE SharedStep
  BY <1>6, LeaveStep DEF ContactStatus
<1>7. ASSUME NEW others \in BOOLEAN, MultilogonInfo(others) PROVE SharedStep
  BY <1>7, LeaveStep DEF MultilogonInfo
<1> QED BY <1>1, <1>2, <1>3, <1>4, <1>5, <1>6, <1>7 DEF ServerEvents, LoginAnswered

\* The lists begin as they were built, and no account has a server.
LEMMA ClientStarts == Init => SharedServers!ClientsInit
BY SameList DEF Init, SharedServers!ClientsInit, ServersInit, SharedServers!ServersInit, NoServer,
                SharedServers!NoServer

\* The connection takes, holds, reports and gives up its server as an account of
\* GaduServerClients does, in each step of its own: what is said there of the
\* shared lists is said of accounts that run GaduConnection.
THEOREM ImplementsServerClient == Spec => ImplementsClients
<1>1. IInv /\ [Next]_vars => [SharedServers!ClientsNext]_(SharedServers!clientVars)
  <2>1. IInv /\ Next => SharedStep
    BY UserTakes, TimersTake, ServerReports DEF Next
  <2>2. UNCHANGED vars => SharedStep
    BY LeaveStep DEF vars, sessionVars
  <2> QED BY <2>1, <2>2 DEF SharedStep
<1> QED BY <1>1, ClientStarts, Invariance, PTL DEF Spec, ImplementsClients, SharedServers!ClientsSpec

-----------------------------------------------------------------------------
(* Numbers and iteration.                                                  *)

\* Every set of natural numbers that is not empty has a least element.
LEMMA Least ==
  ASSUME NEW T \in SUBSET Nat, T # {}
  PROVE  \E x \in T : \A y \in T : x <= y
<1> DEFINE Below(n) == {k \in Nat : k < n}
           W == {Below(n) : n \in T}
<1>1. IsWellFoundedOn(StrictSubsetOrdering(Nat), FiniteSubsetsOf(Nat))
  BY FS_StrictSubsetOrderingWellFounded
<1>2. W \subseteq FiniteSubsetsOf(Nat) /\ W # {}
  <2>1. ASSUME NEW n \in T PROVE Below(n) \in SUBSET Nat /\ IsFiniteSet(Below(n))
    <3>1. IsFiniteSet(0..n) /\ Below(n) \in SUBSET (0..n)
      BY FS_Interval
    <3> QED BY <3>1, FS_Subset
  <2> QED BY <2>1 DEF FiniteSubsetsOf
<1>3. PICK w \in W : \A v \in W : <<v, w>> \notin StrictSubsetOrdering(Nat)
  <2> HIDE DEF W
  <2> QED BY <1>1, <1>2, WFMin
<1>4. PICK x \in T : w = Below(x)
  OBVIOUS
<1>5. ASSUME NEW y \in T, y < x PROVE FALSE
  <2>1. Below(y) \subseteq Below(x) /\ y \in Below(x) /\ y \notin Below(y)
    BY <1>5
  <2>2. <<Below(y), Below(x)>> \in StrictSubsetOrdering(Nat)
    <3>1. Below(y) # Below(x)
      BY <2>1
    <3> QED BY <2>1, <3>1 DEF StrictSubsetOrdering
  <2>3. Below(y) \in W
    OBVIOUS
  <2> QED BY <1>3, <1>4, <2>2, <2>3
<1> QED BY <1>5

\* P holds at 0 and, up to N, goes on from each number to the next.
Inductive(P, N) == 0 \in P /\ \A n \in 1..N : n - 1 \in P => n \in P

\* Induction up to N, for a set of numbers.
LEMMA UpTo ==
  ASSUME NEW N \in Nat, NEW P, Inductive(P, N)
  PROVE  \A n \in 0..N : n \in P
<1> USE DEF Inductive
<1> DEFINE T == {n \in 0..N : n \notin P}
<1>1. CASE T = {}
  BY <1>1
<1>2. CASE T # {}
  <2>1. PICK x \in T : \A y \in T : x <= y
    <3>1. T \in SUBSET Nat
      OBVIOUS
    <3> HIDE DEF T
    <3> QED BY <3>1, <1>2, Least
  <2>2. x \in 1..N /\ x - 1 \in 0..N
    BY <2>1
  <2>3. x - 1 \notin T
    BY <2>1, <2>2
  <2> QED BY <2>1, <2>2, <2>3
<1> QED BY <1>1, <1>2

\* f is what N steps make of base.
Iterates(f, step, base, S, N) ==
  /\ f \in [0..N -> S] /\ f[0] = base
  /\ \A n \in 1..N : f[n] = step[n][f[n - 1]]

\* Steps within a set can be iterated in it.
LEMMA IterationExists ==
  ASSUME NEW S, NEW base \in S, NEW M \in Nat, NEW step \in [1..M -> [S -> S]]
  PROVE  \E f : Iterates(f, step, base, S, M)
<1> DEFINE P == {n \in 0..M : \E f : Iterates(f, step, base, S, n)}
<1>1. 0 \in P
  <2> DEFINE f == [n \in 0..0 |-> base]
  <2>1. Iterates(f, step, base, S, 0)
    BY DEF Iterates
  <2> QED BY <2>1
<1>2. ASSUME NEW x \in 1..M, x - 1 \in P PROVE x \in P
  <2>1. PICK f : Iterates(f, step, base, S, x - 1)
    BY <1>2
  <2>2. /\ f \in [0..(x - 1) -> S] /\ f[0] = base
        /\ \A n \in 1..(x - 1) : f[n] = step[n][f[n - 1]]
    BY <2>1 DEF Iterates
  <2> DEFINE g == [n \in 0..x |-> IF n = x THEN step[x][f[x - 1]] ELSE f[n]]
  <2>3. step[x][f[x - 1]] \in S
    <3>1. f[x - 1] \in S /\ step[x] \in [S -> S]
      BY <2>2
    <3> QED BY <3>1
  <2>4. g \in [0..x -> S] /\ g[0] = base
    BY <2>2, <2>3
  <2>5. ASSUME NEW n \in 1..x PROVE g[n] = step[n][g[n - 1]]
    <3>1. n - 1 \in 0..(x - 1) /\ g[n - 1] = f[n - 1]
      OBVIOUS
    <3>2. CASE n = x
      BY <3>1, <3>2
    <3>3. CASE n # x
      <4>1. n \in 1..(x - 1) /\ g[n] = f[n]
        BY <3>3
      <4> QED BY <2>2, <3>1, <4>1
    <3> QED BY <3>2, <3>3
  <2>6. Iterates(g, step, base, S, x)
    BY <2>4, <2>5 DEF Iterates
  <2> QED BY <2>6
<1> HIDE DEF P
<1>3. Inductive(P, M)
  BY <1>1, <1>2 DEF Inductive
<1>4. M \in P
  BY <1>3, UpTo
<1> QED BY <1>4 DEF P


-----------------------------------------------------------------------------
(* Counting the places of a server in a list.                              *)

Places(list, server) == {i \in 1..Len(list) : list[i] = server}

\* Copies are counted by their places; a list has none of what is not in it.
LEMMA CopiesType ==
  ASSUME NEW S, NEW list \in Seq(S), NEW server
  PROVE  /\ IsFiniteSet(Places(list, server))
         /\ Copies(list, server) = Cardinality(Places(list, server))
         /\ Copies(list, server) \in Nat
         /\ Copies(list, server) = 0 <=> server \notin ToSet(list)
<1> DEFINE P == Places(list, server)
<1>1. DOMAIN list = 1..Len(list) /\ Len(list) \in Nat
  OBVIOUS
<1>2. IsFiniteSet(P)
  <2>1. P \in SUBSET (1..Len(list)) /\ IsFiniteSet(1..Len(list))
    BY <1>1, FS_Interval DEF Places
  <2> QED BY <2>1, FS_Subset
<1>3. Cardinality(P) \in Nat /\ (Cardinality(P) = 0 <=> P = {})
  BY <1>2, FS_CardinalityType, FS_EmptySet
<1>4. Copies(list, server) = Cardinality(P)
  BY DEF Copies, Places
<1>5. P = {} <=> server \notin ToSet(list)
  BY <1>1 DEF Places, ToSet
<1> QED BY <1>2, <1>3, <1>4, <1>5

\* Lists with the same places of a server have as many copies of it.
LEMMA SamePlaces ==
  ASSUME NEW S, NEW T, NEW list \in Seq(S), NEW other \in Seq(T), NEW server,
         Places(list, server) = Places(other, server)
  PROVE  Copies(list, server) = Copies(other, server)
BY CopiesType

\* A server appended is one copy more of it.
LEMMA Appended ==
  ASSUME NEW S, NEW list \in Seq(S), NEW x \in S
  PROVE  /\ Append(list, x) \in Seq(S) /\ Len(Append(list, x)) = Len(list) + 1
         /\ ToSet(Append(list, x)) = ToSet(list) \cup {x}
         /\ \A server : Copies(Append(list, x), server) =
                          IF server = x THEN Copies(list, server) + 1 ELSE Copies(list, server)
<1> DEFINE L == Len(list)
           longer == Append(list, x)
<1>1. /\ longer \in Seq(S) /\ Len(longer) = L + 1 /\ L \in Nat
      /\ \A i \in 1..L : longer[i] = list[i]
      /\ longer[L + 1] = x
  BY AppendProperties
<1>2. DOMAIN longer = 1..(L + 1) /\ DOMAIN list = 1..L
  BY <1>1
<1> HIDE DEF longer
<1>3. ToSet(longer) = ToSet(list) \cup {x}
  <2>1. ASSUME NEW i \in 1..(L + 1) PROVE longer[i] = x \/ \E j \in 1..L : longer[i] = list[j]
    <3>1. CASE i = L + 1
      BY <1>1, <3>1
    <3>2. CASE i # L + 1
      <4>1. i \in 1..L
        BY <1>1, <3>2
      <4> QED BY <1>1, <4>1
    <3> QED BY <3>1, <3>2
  <2>2. ASSUME NEW j \in 1..L PROVE j \in 1..(L + 1) /\ longer[j] = list[j]
    BY <1>1
  <2>3. L + 1 \in 1..(L + 1)
    BY <1>1
  <2>4. ASSUME NEW y \in ToSet(longer) PROVE y \in ToSet(list) \cup {x}
    BY <1>2, <2>1 DEF ToSet
  <2>5. ASSUME NEW y \in ToSet(list) PROVE y \in ToSet(longer)
    BY <1>2, <2>2 DEF ToSet
  <2>6. x \in ToSet(longer)
    BY <1>1, <1>2, <2>3 DEF ToSet
  <2> QED BY <2>4, <2>5, <2>6
<1>4. ASSUME NEW server
      PROVE  Copies(longer, server) =
               IF server = x THEN Copies(list, server) + 1 ELSE Copies(list, server)
  <2> DEFINE P == Places(list, server)
             Q == Places(longer, server)
  <2>1. IsFiniteSet(P) /\ Copies(list, server) = Cardinality(P)
    BY CopiesType
  <2>2. Copies(longer, server) = Cardinality(Q)
    BY DEF Copies, Places
  <2>3. L + 1 \notin P
    BY <1>1 DEF Places
  <2>4. ASSUME NEW i \in 1..(L + 1) PROVE i \in Q <=> i \in P \/ (i = L + 1 /\ server = x)
    <3>1. CASE i = L + 1
      BY <1>1, <2>3, <3>1 DEF Places
    <3>2. CASE i # L + 1
      <4>1. i \in 1..L
        BY <1>1, <3>2
      <4> QED BY <1>1, <3>2, <4>1 DEF Places
    <3> QED BY <3>1, <3>2
  <2>5. P \subseteq 1..(L + 1) /\ Q \subseteq 1..(L + 1) /\ L + 1 \in 1..(L + 1)
    BY <1>1 DEF Places
  <2> HIDE DEF P, Q
  <2>6. CASE server = x
    <3>1. Q = P \cup {L + 1}
      BY <2>4, <2>5, <2>6
    <3> QED BY <2>1, <2>2, <2>3, <2>6, <3>1, FS_AddElement
  <2>7. CASE server # x
    <3>1. Q = P
      BY <2>4, <2>5, <2>7
    <3> QED BY <2>1, <2>2, <2>7, <3>1
  <2> QED BY <2>6, <2>7
<1> QED BY <1>1, <1>3, <1>4 DEF longer

\* What is in one of two lists only is counted there only.
LEMMA Concatenated ==
  ASSUME NEW S, NEW list \in Seq(S), NEW more \in Seq(S)
  PROVE  /\ list \o more \in Seq(S)
         /\ \A server : server \notin ToSet(more) =>
              Copies(list \o more, server) = Copies(list, server)
         /\ \A server : server \notin ToSet(list) =>
              Copies(list \o more, server) = Copies(more, server)
<1> DEFINE both == list \o more
           L == Len(list)
           M == Len(more)
<1>1. /\ both \in Seq(S) /\ Len(both) = L + M /\ L \in Nat /\ M \in Nat
      /\ \A i \in 1..(L + M) : both[i] = IF i <= L THEN list[i] ELSE more[i - L]
      /\ DOMAIN list = 1..L /\ DOMAIN more = 1..M
  BY ConcatProperties
<1> HIDE DEF both
<1>2. ASSUME NEW server, server \notin ToSet(more)
      PROVE  Copies(both, server) = Copies(list, server)
  <2>1. \A j \in 1..M : more[j] # server
    BY <1>1, <1>2 DEF ToSet
  <2>2. ASSUME NEW i \in 1..(L + M), i > L PROVE both[i] # server
    <3>1. i - L \in 1..M /\ both[i] = more[i - L]
      BY <1>1, <2>2
    <3> QED BY <2>1, <3>1
  <2>3. Places(both, server) = Places(list, server)
    BY <1>1, <2>2 DEF Places
  <2> QED BY <1>1, <2>3, SamePlaces
<1>3. ASSUME NEW server, server \notin ToSet(list)
      PROVE  Copies(both, server) = Copies(more, server)
  <2> DEFINE P == Places(both, server)
             Q == Places(more, server)
             f == [j \in Q |-> j + L]
  <2>1. \A i \in 1..L : list[i] # server
    BY <1>1, <1>3 DEF ToSet
  <2>2. ASSUME NEW j \in Q PROVE j + L \in P
    <3>1. j \in 1..M /\ more[j] = server
      BY DEF Places
    <3>2. j + L \in 1..(L + M) /\ ~(j + L <= L) /\ (j + L) - L = j
      BY <1>1, <3>1
    <3> QED BY <1>1, <3>1, <3>2 DEF Places
  <2>3. ASSUME NEW i \in P PROVE \E j \in Q : i = j + L
    <3>1. i \in 1..(L + M) /\ both[i] = server
      BY <1>1 DEF Places
    <3>2. ~(i <= L)
      <4>1. CASE i <= L
        <5>1. i \in 1..L /\ both[i] = list[i]
          BY <1>1, <3>1, <4>1
        <5> QED BY <2>1, <3>1, <5>1
      <4> QED BY <4>1
    <3>3. i - L \in 1..M /\ more[i - L] = server /\ i = (i - L) + L
      BY <1>1, <3>1, <3>2
    <3>4. i - L \in Q
      BY <3>3 DEF Places
    <3> QED BY <3>3, <3>4
  <2>4. Q \subseteq Nat
    BY DEF Places
  <2> HIDE DEF P, Q
  <2>5. f \in Bijection(Q, P)
    <3>1. f \in [Q -> P]
      BY <2>2
    <3>2. \A j, k \in Q : f[j] = f[k] => j = k
      BY <1>1, <2>4
    <3>3. \A i \in P : \E j \in Q : f[j] = i
      BY <2>3
    <3> HIDE DEF f
    <3> QED BY <3>1, <3>2, <3>3, Fun_IsBij
  <2>6. IsFiniteSet(Q) /\ Copies(more, server) = Cardinality(Q)
    BY CopiesType DEF Q
  <2>7. Copies(both, server) = Cardinality(P)
    BY <1>1, CopiesType DEF P
  <2>8. ExistsBijection(Q, P)
    BY <2>5 DEF ExistsBijection
  <2> QED BY <2>6, <2>7, <2>8, FS_Bijection
<1> QED BY <1>1, <1>2, <1>3 DEF both

-----------------------------------------------------------------------------
(* What removeAll leaves.                                                  *)

\* The function Without computes.
WithoutAt(f, list, server, n) ==
  f[n] = IF n = 0 THEN <<>>
         ELSE IF list[n] = server THEN f[n - 1] ELSE Append(f[n - 1], list[n])

IsWithout(f, list, server, N) ==
  f = [n \in 0..N |->
        IF n = 0 THEN <<>>
        ELSE IF list[n] = server THEN f[n - 1] ELSE Append(f[n - 1], list[n])]

\* The recursion of Without has a solution, and Without is its last value.
LEMMA WithoutFunction ==
  ASSUME NEW S, NEW list \in Seq(S), NEW server
  PROVE  \E f : IsWithout(f, list, server, Len(list)) /\ Without(list, server) = f[Len(list)]
<1> DEFINE N == Len(list)
           step == [n \in 1..N |->
                     [s \in Seq(S) |-> IF list[n] = server THEN s ELSE Append(s, list[n])]]
<1>1. N \in Nat /\ <<>> \in Seq(S) /\ \A n \in 1..N : list[n] \in S
  OBVIOUS
<1>2. step \in [1..N -> [Seq(S) -> Seq(S)]]
  <2>1. ASSUME NEW n \in 1..N, NEW s \in Seq(S)
        PROVE  (IF list[n] = server THEN s ELSE Append(s, list[n])) \in Seq(S)
    BY <1>1
  <2> QED BY <2>1
<1>3. PICK f : Iterates(f, step, <<>>, Seq(S), N)
  <2> HIDE DEF step, N
  <2> QED BY <1>1, <1>2, IterationExists
<1>4. /\ f \in [0..N -> Seq(S)] /\ f[0] = <<>>
      /\ \A n \in 1..N : f[n] = step[n][f[n - 1]]
  BY <1>3 DEF Iterates
<1> HIDE DEF N
<1>5. ASSUME NEW n \in 0..N PROVE WithoutAt(f, list, server, n)
  <2>1. CASE n = 0
    BY <1>4, <2>1 DEF WithoutAt
  <2>2. CASE n # 0
    <3>1. n \in 1..N /\ f[n - 1] \in Seq(S)
      BY <1>1, <1>4, <2>2
    <3> QED BY <1>4, <2>2, <3>1 DEF WithoutAt
  <2> QED BY <2>1, <2>2
<1>6. IsWithout(f, list, server, N)
  BY <1>4, <1>5 DEF IsWithout, WithoutAt
<1> QED BY <1>6, Zenon DEF Without, IsWithout, N

\* What is left of the first n servers of a list.
LeftOf(s, list, server, n, S) ==
  /\ s \in Seq(S) /\ Len(s) <= n
  /\ \A i \in 1..n : list[i] = server => Len(s) < n
  /\ ToSet(s) = {list[i] : i \in 1..n} \ {server}
  /\ \A t : Copies(s, t) <= Cardinality({i \in 1..n : list[i] = t})

\* A server to be removed is passed over.
LEMMA LeftDropped ==
  ASSUME NEW S, NEW s, NEW list \in Seq(S), NEW server, NEW n \in 1..Len(list),
         LeftOf(s, list, server, n - 1, S), list[n] = server
  PROVE  LeftOf(s, list, server, n, S)
<1>1. n \in Nat /\ Len(s) \in Nat /\ s \in Seq(S) /\ Len(s) <= n - 1
  BY DEF LeftOf
<1>2. ToSet(s) = {list[i] : i \in 1..n} \ {server}
  BY DEF LeftOf
<1>3. ASSUME NEW t PROVE Copies(s, t) <= Cardinality({i \in 1..n : list[i] = t})
  <2> DEFINE P == {i \in 1..(n - 1) : list[i] = t}
             Q == {i \in 1..n : list[i] = t}
  <2>1. P \in SUBSET Q /\ Q \in SUBSET (1..n) /\ IsFiniteSet(1..n)
    <3>1. P \in SUBSET Q /\ Q \in SUBSET (1..n) /\ 1 \in Int /\ n \in Int
      BY <1>1
    <3>2. IsFiniteSet(1..n)
      BY <3>1, FS_Interval
    <3> QED BY <3>1, <3>2
  <2>2. IsFiniteSet(Q)
    BY <2>1, FS_Subset
  <2>3. IsFiniteSet(P) /\ Cardinality(P) <= Cardinality(Q)
    BY <2>1, <2>2, FS_Subset
  <2>4. Copies(s, t) \in Nat /\ Cardinality(P) \in Nat /\ Cardinality(Q) \in Nat
    BY <1>1, <2>2, <2>3, CopiesType, FS_CardinalityType
  <2>5. Copies(s, t) <= Cardinality(P)
    BY DEF LeftOf
  <2> HIDE DEF P, Q
  <2>6. Copies(s, t) <= Cardinality(Q)
    BY <2>3, <2>4, <2>5
  <2> QED BY <2>6 DEF Q
<1> QED BY <1>1, <1>2, <1>3 DEF LeftOf

\* Another one is kept.
LEMMA LeftAppended ==
  ASSUME NEW S, NEW s, NEW list \in Seq(S), NEW server, NEW n \in 1..Len(list),
         LeftOf(s, list, server, n - 1, S), list[n] # server
  PROVE  LeftOf(Append(s, list[n]), list, server, n, S)
<1> DEFINE x == list[n]
           l == Append(s, x)
<1>1. n \in Nat /\ Len(s) \in Nat /\ s \in Seq(S) /\ Len(s) <= n - 1 /\ x \in S
  BY DEF LeftOf
<1>2. /\ l \in Seq(S) /\ Len(l) = Len(s) + 1 /\ ToSet(l) = ToSet(s) \cup {x}
      /\ \A t : Copies(l, t) = IF t = x THEN Copies(s, t) + 1 ELSE Copies(s, t)
  <2> HIDE DEF x
  <2> QED BY <1>1, Appended
<1> HIDE DEF l
<1>3. ToSet(l) = {list[i] : i \in 1..n} \ {server}
  <2>1. ToSet(s) = {list[i] : i \in 1..(n - 1)} \ {server}
    BY DEF LeftOf
  <2>2. {list[i] : i \in 1..n} = {list[i] : i \in 1..(n - 1)} \cup {x}
    OBVIOUS
  <2> QED BY <1>2, <2>1, <2>2
<1>4. ASSUME NEW t PROVE Copies(l, t) <= Cardinality({i \in 1..n : list[i] = t})
  <2> DEFINE P == {i \in 1..(n - 1) : list[i] = t}
             Q == {i \in 1..n : list[i] = t}
  <2>1. P \in SUBSET (1..n) /\ IsFiniteSet(1..n) /\ n \notin P
    <3>1. P \in SUBSET (1..n) /\ n \notin P
      BY <1>1
    <3> QED BY <1>1, <3>1, FS_Interval
  <2>2. IsFiniteSet(P)
    BY <2>1, FS_Subset
  <2>3. Q = IF t = x THEN P \cup {n} ELSE P
    OBVIOUS
  <2>4. Copies(s, t) <= Cardinality(P)
    BY DEF LeftOf
  <2> HIDE DEF P, Q
  <2>5. Cardinality(Q) = IF t = x THEN Cardinality(P) + 1 ELSE Cardinality(P)
    BY <2>1, <2>2, <2>3, FS_AddElement
  <2>6. Copies(s, t) \in Nat /\ Cardinality(P) \in Nat
    BY <1>1, <2>2, CopiesType, FS_CardinalityType
  <2>7. Copies(l, t) <= Cardinality(Q)
    BY <1>2, <2>4, <2>5, <2>6
  <2> QED BY <2>7 DEF Q
<1>5. ASSUME NEW i \in 1..n, list[i] = server PROVE Len(l) < n
  <2>1. i \in 1..(n - 1)
    BY <1>5
  <2>2. Len(s) < n - 1
    BY <1>5, <2>1 DEF LeftOf
  <2> QED BY <1>1, <1>2, <2>2
<1>6. LeftOf(l, list, server, n, S)
  BY <1>1, <1>2, <1>3, <1>4, <1>5 DEF LeftOf
<1> QED BY <1>6 DEF l

\* removeAll takes every copy of the server, and nothing else.
LEMMA WithoutIsLeft ==
  ASSUME NEW S, NEW list \in Seq(S), NEW server
  PROVE  /\ Without(list, server) \in Seq(S)
         /\ server \in ToSet(list) => Len(Without(list, server)) < Len(list)
         /\ ToSet(Without(list, server)) = ToSet(list) \ {server}
         /\ \A t : Copies(Without(list, server), t) <= Copies(list, t)
<1> DEFINE N == Len(list)
<1>1. PICK f : IsWithout(f, list, server, N) /\ Without(list, server) = f[N]
  BY WithoutFunction
<1>2. N \in Nat
  OBVIOUS
<1>3. \A n \in 0..N : WithoutAt(f, list, server, n)
  BY <1>1, Zenon DEF IsWithout, WithoutAt
<1> DEFINE P == {n \in 0..N : LeftOf(f[n], list, server, n, S)}
<1>4. 0 \in P
  <2>1. f[0] = <<>>
    BY <1>2, <1>3 DEF WithoutAt
  <2>2. <<>> \in Seq(S) /\ Len(<<>>) = 0 /\ ToSet(<<>>) = {}
    BY DEF ToSet
  <2>3. ASSUME NEW t PROVE Copies(<<>>, t) = 0 /\ {i \in 1..0 : list[i] = t} = {}
    <3>1. Copies(<<>>, t) = 0 <=> t \notin ToSet(<<>>)
      BY <2>2, CopiesType
    <3> QED BY <2>2, <3>1
  <2>4. Cardinality({}) = 0
    BY FS_EmptySet
  <2>5. LeftOf(<<>>, list, server, 0, S)
    BY <2>2, <2>3, <2>4 DEF LeftOf
  <2> QED BY <1>2, <2>1, <2>5
<1>5. ASSUME NEW n \in 1..N, n - 1 \in P PROVE n \in P
  <2> DEFINE before == f[n - 1]
  <2>1. LeftOf(before, list, server, n - 1, S) /\ n \in 0..N /\ n # 0
    BY <1>2, <1>5
  <2>2. f[n] = IF list[n] = server THEN before ELSE Append(before, list[n])
    BY <1>3, <2>1 DEF WithoutAt
  <2> HIDE DEF before
  <2>3. LeftOf(f[n], list, server, n, S)
    <3>1. CASE list[n] = server
      BY <2>1, <2>2, <3>1, LeftDropped
    <3>2. CASE list[n] # server
      BY <2>1, <2>2, <3>2, LeftAppended
    <3> QED BY <3>1, <3>2
  <2> QED BY <2>1, <2>3
<1> HIDE DEF P
<1>6. Inductive(P, N)
  BY <1>4, <1>5 DEF Inductive
<1> HIDE DEF N
<1>7. N \in P
  BY <1>2, <1>6, UpTo
<1>8. LeftOf(Without(list, server), list, server, Len(list), S)
  BY <1>1, <1>7 DEF P, N
<1>9. DOMAIN list = 1..Len(list) /\ \A t : Copies(list, t) = Cardinality({i \in 1..Len(list) : list[i] = t})
  BY DEF Copies
<1> QED BY <1>8, <1>9 DEF LeftOf, ToSet

-----------------------------------------------------------------------------
(* The list that is built.                                                 *)

\* The port that worked last comes first.
PortOrders == {<<8074, 443>>, <<443, 8074>>}

\* Whatever worked last, both ports are tried.
LEMMA PortOrder == \A last : AllPorts(last) \in PortOrders
BY DEF AllPorts, PortOrders

\* A line of servers.txt yields servers.
LEMMA OnPortsType ==
  ASSUME NEW address \in ToSet(ServerFile), NEW ports \in PortOrders
  PROVE  OnPorts(address, ports) \in Seq(Server)
<1>1. Len(ports) = 2 /\ ports[1] \in Ports /\ ports[2] \in Ports
  BY DEF PortOrders, Ports
<1>2. \A i \in 1..2 : <<address, ports[i]>> \in Server
  BY <1>1 DEF Server
<1> QED BY <1>1, <1>2 DEF OnPorts

\* The function FromFile computes.
ReadAt(f, ports, n) ==
  f[n] = IF n = 0 THEN <<>> ELSE f[n - 1] \o OnPorts(ServerFile[n], ports)

IsRead(f, ports) ==
  f = [n \in 0..Len(ServerFile) |->
        IF n = 0 THEN <<>> ELSE f[n - 1] \o OnPorts(ServerFile[n], ports)]

\* So does the whole of servers.txt.
LEMMA FileType ==
  ASSUME NEW ports \in PortOrders
  PROVE  FromFile(ports) \in Seq(Server)
<1> DEFINE N == Len(ServerFile)
           S == Seq(Server)
           step == [n \in 1..N |-> [s \in S |-> s \o OnPorts(ServerFile[n], ports)]]
<1>1. /\ ServerFile \in Seq(ToSet(ServerFile)) /\ N \in Nat /\ <<>> \in S
      /\ \A n \in 1..N : ServerFile[n] \in ToSet(ServerFile)
  BY ServersAssumption DEF ServersAssumption
<1>2. ASSUME NEW n \in 1..N, NEW s \in S PROVE s \o OnPorts(ServerFile[n], ports) \in S
  <2>1. OnPorts(ServerFile[n], ports) \in S
    BY <1>1, OnPortsType
  <2> QED BY <2>1, ConcatProperties
<1>3. step \in [1..N -> [S -> S]]
  BY <1>2
<1>4. PICK f : Iterates(f, step, <<>>, S, N)
  <2> HIDE DEF step, N, S
  <2> QED BY <1>1, <1>3, IterationExists
<1>5. /\ f \in [0..N -> S] /\ f[0] = <<>>
      /\ \A n \in 1..N : f[n] = step[n][f[n - 1]]
  BY <1>4 DEF Iterates
<1>6. ASSUME NEW n \in 0..N PROVE ReadAt(f, ports, n)
  <2>1. CASE n = 0
    BY <1>5, <2>1 DEF ReadAt
  <2>2. CASE n # 0
    <3>1. n \in 1..N /\ n - 1 \in 0..N
      BY <1>1, <2>2
    <3>2. f[n - 1] \in S
      <4> HIDE DEF S, N
      <4> QED BY <1>5, <3>1
    <3> QED BY <1>5, <2>2, <3>1, <3>2 DEF ReadAt
  <2> QED BY <2>1, <2>2
<1>7. IsRead(f, ports)
  <2> HIDE DEF S
  <2> QED BY <1>5, <1>6 DEF IsRead, ReadAt
<1>8. PICK g : IsRead(g, ports) /\ FromFile(ports) = g[N]
  BY <1>7, Zenon DEF FromFile, IsRead
<1>9. \A n \in 0..N : ReadAt(g, ports, n)
  BY <1>8, Zenon DEF IsRead, ReadAt
<1> DEFINE P == {n \in 0..N : g[n] \in S}
<1>10. 0 \in P
  <2>1. 0 \in 0..N
    BY <1>1
  <2>2. g[0] = <<>>
    BY <1>9, <2>1 DEF ReadAt
  <2> HIDE DEF S
  <2> QED BY <1>1, <2>1, <2>2
<1>11. ASSUME NEW n \in 1..N, n - 1 \in P PROVE n \in P
  <2> DEFINE before == g[n - 1]
  <2>1. before \in S /\ n \in 0..N /\ n # 0
    BY <1>1, <1>11
  <2>2. g[n] = before \o OnPorts(ServerFile[n], ports)
    BY <1>9, <2>1 DEF ReadAt
  <2> HIDE DEF before, S
  <2>3. g[n] \in S
    BY <1>2, <2>1, <2>2
  <2> QED BY <2>1, <2>3
<1> HIDE DEF P
<1>12. Inductive(P, N)
  BY <1>10, <1>11 DEF Inductive
<1> HIDE DEF N
<1>13. N \in P
  BY <1>1, <1>12, UpTo
<1> QED BY <1>8, <1>13 DEF P

\* What the configuration can remember as the last server.
LastServers == (ToSet(ServerFile) \X Ports) \cup {Hub, NoServer, <<NoAddress, 443>>}

\* buildServerList builds a list of servers.
LEMMA BuiltType ==
  ASSUME NEW last \in LastServers
  PROVE  BuiltList(last) \in Seq(Server)
<1>1. AllPorts(last) \in PortOrders
  BY PortOrder
<1>2. FromFile(AllPorts(last)) \in Seq(Server)
  BY <1>1, FileType
<1>3. LastGood(last) \in Seq(Server)
  <2>1. CASE last[1] \in {HubAddress, NoAddress}
    BY <2>1 DEF LastGood
  <2>2. CASE last[1] \notin {HubAddress, NoAddress}
    <3>1. last[1] \in ToSet(ServerFile)
      BY <2>2 DEF LastServers, Hub, NoServer
    <3> QED BY <1>1, <2>2, <3>1, OnPortsType DEF LastGood
  <2> QED BY <2>1, <2>2
<1>4. <<Hub>> \in Seq(Server)
  BY DEF Server
<1>5. <<Hub>> \o LastGood(last) \in Seq(Server)
  BY <1>3, <1>4, ConcatProperties
<1> QED BY <1>2, <1>5, ConcatProperties DEF BuiltList

-----------------------------------------------------------------------------
(* Marking servers as bad.                                                 *)

ServerLists == [good : Seq(Server), bad : Seq(Server)]

\* Accounts that hold the server.
Users(server) == {a \in Accounts : attempt[a] # "idle" /\ serverOf[a] = server}

\* What marking keeps: lists that share no server, with all servers of "all",
\* and no more bad copies of a server than there are accounts not in "users"
\* of it.
ListsKept(lists, all, users) ==
  /\ lists \in ServerLists
  /\ ToSet(lists.good) \cap ToSet(lists.bad) = {}
  /\ all \subseteq ToSet(lists.good) \cup ToSet(lists.bad)
  /\ \A s \in ToSet(lists.bad) :
       Copies(lists.bad, s) + Cardinality(users[s]) <= Cardinality(Accounts)

\* For each server, some of the accounts.
SomeAccounts == [Server -> SUBSET Accounts]

\* Some of the accounts are no more than all of them, and one less without one.
LEMMA UsersCount ==
  ASSUME NEW U \in SUBSET Accounts
  PROVE  /\ IsFiniteSet(U) /\ Cardinality(U) \in Nat /\ Cardinality(Accounts) \in Nat
         /\ Cardinality(U) <= Cardinality(Accounts)
         /\ \A a \in Accounts \ U : Cardinality(U) + 1 <= Cardinality(Accounts)
<1>1. IsFiniteSet(Accounts) /\ Cardinality(Accounts) \in Nat
  BY ClientsAssumption, FS_CardinalityType DEF ClientsAssumption
<1>2. \A V \in SUBSET Accounts :
        IsFiniteSet(V) /\ Cardinality(V) \in Nat /\ Cardinality(V) <= Cardinality(Accounts)
  BY <1>1, FS_Subset, FS_CardinalityType
<1>3. ASSUME NEW a \in Accounts \ U PROVE Cardinality(U) + 1 <= Cardinality(Accounts)
  <2>1. U \cup {a} \in SUBSET Accounts
    OBVIOUS
  <2>2. Cardinality(U \cup {a}) = Cardinality(U) + 1
    BY <1>2, FS_AddElement
  <2>3. Cardinality(U \cup {a}) <= Cardinality(Accounts)
    BY <1>2, <2>1
  <2> QED BY <2>2, <2>3
<1> QED BY <1>1, <1>2, <1>3

\* A server with an account that does not use it any more can be marked.
LEMMA MarkedIsKept ==
  ASSUME NEW lists, NEW all, NEW users \in SomeAccounts, NEW left \in SomeAccounts,
         ListsKept(lists, all, users),
         NEW server \in Server, NEW a \in Accounts, a \notin left[server],
         \A s \in Server \ {server} : left[s] = users[s],
         server \in ToSet(lists.bad) => Cardinality(left[server]) + 1 <= Cardinality(users[server])
  PROVE  /\ ListsKept(MarkedAsBad(lists, server), all, left)
         /\ \A t : Copies(MarkedAsBad(lists, server).good, t) <= Copies(lists.good, t)
         /\ server \in ToSet(lists.good) =>
              Len(MarkedAsBad(lists, server).good) < Len(lists.good)
<1> DEFINE good == lists.good
           bad == lists.bad
           marked == MarkedAsBad(lists, server)
           c == Cardinality(Accounts)
<1>1. good \in Seq(Server) /\ bad \in Seq(Server)
  BY DEF ListsKept, ServerLists
<1>2. marked.good = Without(good, server) /\ marked.bad = Append(bad, server)
  BY DEF MarkedAsBad
<1>3. /\ marked.good \in Seq(Server)
      /\ server \in ToSet(good) => Len(marked.good) < Len(good)
      /\ ToSet(marked.good) = ToSet(good) \ {server}
      /\ \A t : Copies(marked.good, t) <= Copies(good, t)
  BY <1>1, <1>2, WithoutIsLeft
<1>4. /\ marked.bad \in Seq(Server)
      /\ ToSet(marked.bad) = ToSet(bad) \cup {server}
      /\ \A t : Copies(marked.bad, t) = IF t = server THEN Copies(bad, t) + 1 ELSE Copies(bad, t)
  BY <1>1, <1>2, Appended
<1>5. marked \in ServerLists
  BY <1>2, <1>3, <1>4 DEF MarkedAsBad, ServerLists
<1>6. /\ ToSet(good) \cap ToSet(bad) = {} /\ all \subseteq ToSet(good) \cup ToSet(bad)
      /\ \A s \in ToSet(bad) : Copies(bad, s) + Cardinality(users[s]) <= c
  BY DEF ListsKept
<1>7. \A s : Copies(bad, s) \in Nat /\ (Copies(bad, s) = 0 <=> s \notin ToSet(bad))
  BY <1>1, CopiesType
<1>8. \A s \in ToSet(bad) : s \in Server
  BY <1>1 DEF ToSet
<1> HIDE DEF good, bad, marked
<1>9. ASSUME NEW s \in ToSet(marked.bad)
      PROVE  Copies(marked.bad, s) + Cardinality(left[s]) <= c
  <2>1. CASE s # server
    <3>1. s \in ToSet(bad) /\ left[s] = users[s]
      BY <1>4, <1>8, <2>1
    <3> QED BY <1>4, <1>6, <2>1, <3>1
  <2>2. CASE s = server
    <3>0. left[server] \in SUBSET Accounts /\ users[server] \in SUBSET Accounts
      BY DEF SomeAccounts
    <3>1. Cardinality(left[server]) \in Nat /\ Cardinality(users[server]) \in Nat /\ c \in Nat
      BY <3>0, UsersCount
    <3>2. CASE s \in ToSet(bad)
      <4>1. Cardinality(left[server]) + 1 <= Cardinality(users[server])
        BY <2>2, <3>2 DEF bad
      <4>2. Copies(bad, server) + Cardinality(users[server]) <= c
        BY <1>6, <2>2, <3>2
      <4>3. Copies(marked.bad, server) = Copies(bad, server) + 1
        BY <1>4
      <4> QED BY <1>7, <2>2, <3>1, <4>1, <4>2, <4>3
    <3>3. CASE s \notin ToSet(bad)
      <4>1. Copies(marked.bad, server) = 1
        BY <1>4, <1>7, <2>2, <3>3
      <4>2. Cardinality(left[server]) + 1 <= c
        BY <3>0, UsersCount
      <4> QED BY <2>2, <3>1, <4>1, <4>2
    <3> QED BY <3>2, <3>3
  <2> QED BY <2>1, <2>2
<1>10. ListsKept(marked, all, left)
  BY <1>3, <1>4, <1>5, <1>6, <1>9 DEF ListsKept
<1> QED BY <1>3, <1>10 DEF marked, good

-----------------------------------------------------------------------------
(* The search for a server with TLS.                                       *)

\* The search of getServer with TLS has ended.
Found(lists) == lists.good = <<>> \/ SuitsTls(Head(lists.good))

\* The function Searched computes.
SearchAt(f, n) ==
  f[n] = IF n = 0 THEN Lists
         ELSE LET lists == f[n - 1]
              IN  IF lists.good = <<>> \/ SuitsTls(Head(lists.good)) THEN lists
                  ELSE MarkedAsBad(lists, Head(lists.good))

IsSearch(f) ==
  f = [n \in 0..Len(GoodServers) |->
        IF n = 0 THEN Lists
        ELSE LET lists == f[n - 1]
             IN  IF lists.good = <<>> \/ SuitsTls(Head(lists.good)) THEN lists
                 ELSE MarkedAsBad(lists, Head(lists.good))]

\* The recursion of Searched has a solution, and Searched is its last value.
LEMMA SearchFunction ==
  ASSUME Lists \in ServerLists
  PROVE  \E f : IsSearch(f) /\ Searched(TRUE) = f[Len(GoodServers)]
<1> DEFINE N == Len(GoodServers)
           S == ServerLists
           next(l) == IF Found(l) THEN l ELSE MarkedAsBad(l, Head(l.good))
           step == [n \in 1..N |-> [l \in S |-> next(l)]]
<1>1. N \in Nat
  BY DEF Lists, ServerLists
<1>2. ASSUME NEW l \in S PROVE next(l) \in S
  <2>1. CASE Found(l)
    BY <2>1
  <2>2. CASE ~Found(l)
    <3> DEFINE good == l.good
               server == Head(good)
    <3>1. good \in Seq(Server) /\ l.bad \in Seq(Server) /\ good # <<>>
      BY <2>2 DEF ServerLists, Found
    <3>2. server \in Server
      BY <3>1
    <3> HIDE DEF server, good
    <3>3. Without(good, server) \in Seq(Server) /\ Append(l.bad, server) \in Seq(Server)
      BY <3>1, <3>2, WithoutIsLeft, Appended
    <3>4. MarkedAsBad(l, server) \in S
      BY <3>3 DEF MarkedAsBad, ServerLists, good
    <3> QED BY <2>2, <3>4 DEF server, good
  <2> QED BY <2>1, <2>2
<1>3. step \in [1..N -> [S -> S]]
  <2> HIDE DEF next, S
  <2> QED BY <1>2
<1>4. PICK f : Iterates(f, step, Lists, S, N)
  <2> HIDE DEF step, N, S
  <2>1. Lists \in S
    BY DEF S
  <2> QED BY <1>1, <1>3, <2>1, IterationExists
<1>5. /\ f \in [0..N -> S] /\ f[0] = Lists
      /\ \A n \in 1..N : f[n] = step[n][f[n - 1]]
  BY <1>4 DEF Iterates
<1>6. ASSUME NEW n \in 0..N PROVE SearchAt(f, n)
  <2>1. CASE n = 0
    BY <1>5, <2>1 DEF SearchAt
  <2>2. CASE n # 0
    <3>1. n \in 1..N /\ n - 1 \in 0..N
      BY <1>1, <2>2
    <3>2. f[n - 1] \in S
      <4> HIDE DEF S, N
      <4> QED BY <1>5, <3>1
    <3>3. f[n] = next(f[n - 1])
      <4> HIDE DEF S, N, next
      <4> QED BY <1>5, <3>1, <3>2
    <3> QED BY <2>2, <3>3 DEF SearchAt, Found
  <2> QED BY <2>1, <2>2
<1>7. IsSearch(f)
  <2> HIDE DEF S
  <2> QED BY <1>5, <1>6 DEF IsSearch, SearchAt
<1> QED BY <1>7, Zenon DEF Searched, IsSearch

\* After n servers were looked at.
Searching(lists, all, users, n) ==
  /\ ListsKept(lists, all, users)
  /\ \A t : Copies(lists.good, t) <= Copies(GoodServers, t)
  /\ Found(lists) \/ Len(lists.good) <= Len(GoodServers) - n

\* With TLS the search ends at a server that will do, or with none.
LEMMA SearchFinds ==
  ASSUME NEW all, NEW users \in SomeAccounts, ListsKept(Lists, all, users),
         NEW a \in Accounts, \A s \in Server : a \notin users[s]
  PROVE  Searching(Searched(TRUE), all, users, 0) /\ Found(Searched(TRUE))
<1> DEFINE N == Len(GoodServers)
<1>1. Lists \in ServerLists /\ GoodServers \in Seq(Server) /\ N \in Nat /\ Lists.good = GoodServers
  BY DEF ListsKept, Lists, ServerLists
<1>2. PICK f : IsSearch(f) /\ Searched(TRUE) = f[N]
  BY <1>1, SearchFunction
<1>3. \A n \in 0..N : SearchAt(f, n)
  BY <1>2, Zenon DEF IsSearch, SearchAt
<1> DEFINE P == {n \in 0..N : Searching(f[n], all, users, n)}
<1>4. 0 \in P
  <2>1. 0 \in 0..N /\ f[0] = Lists
    BY <1>1, <1>3 DEF SearchAt
  <2>2. \A t : Copies(GoodServers, t) \in Nat
    BY <1>1, CopiesType
  <2>3. Searching(Lists, all, users, 0)
    BY <1>1, <2>2 DEF Searching
  <2> QED BY <2>1, <2>3
<1>5. ASSUME NEW n \in 1..N, n - 1 \in P PROVE n \in P
  <2> DEFINE before == f[n - 1]
             good == before.good
             server == Head(good)
  <2>1. Searching(before, all, users, n - 1) /\ n \in 0..N /\ n # 0
    BY <1>1, <1>5
  <2>2. f[n] = IF Found(before) THEN before ELSE MarkedAsBad(before, server)
    BY <1>3, <2>1 DEF SearchAt, Found
  <2> HIDE DEF before
  <2>3. ListsKept(before, all, users) /\ good \in Seq(Server)
    BY <2>1 DEF Searching, ListsKept, ServerLists
  <2>4. CASE Found(before)
    <3>1. Searching(before, all, users, n)
      BY <2>1, <2>4 DEF Searching
    <3> QED BY <2>1, <2>2, <2>4, <3>1
  <2>5. CASE ~Found(before)
    <3>1. good # <<>>
      BY <2>5 DEF Found
    <3>2. server \in Server /\ server \in ToSet(good)
      <4>1. server = good[1] /\ 1 \in DOMAIN good
        BY <2>3, <3>1
      <4> QED BY <2>3, <4>1 DEF ToSet
    <3>3. server \notin ToSet(before.bad)
      BY <2>3, <3>2 DEF ListsKept
    <3> HIDE DEF server
    <3>4. /\ ListsKept(MarkedAsBad(before, server), all, users)
          /\ \A t : Copies(MarkedAsBad(before, server).good, t) <= Copies(good, t)
          /\ Len(MarkedAsBad(before, server).good) < Len(good)
      BY <2>3, <3>2, <3>3, MarkedIsKept
    <3> DEFINE marked == MarkedAsBad(before, server)
    <3> HIDE DEF marked
    <3>5. \A t : Copies(marked.good, t) <= Copies(GoodServers, t)
      <4>1. marked.good \in Seq(Server)
        BY <3>4 DEF ListsKept, ServerLists, marked
      <4>2. \A t : Copies(marked.good, t) \in Nat /\ Copies(good, t) \in Nat /\ Copies(GoodServers, t) \in Nat
        BY <1>1, <2>3, <4>1, CopiesType
      <4>3. \A t : Copies(marked.good, t) <= Copies(good, t) /\ Copies(good, t) <= Copies(GoodServers, t)
        BY <2>1, <3>4 DEF marked, Searching
      <4> QED BY <4>2, <4>3
    <3>6. Len(marked.good) <= N - n
      <4>1. Len(good) <= N - (n - 1)
        BY <2>1, <2>5 DEF Searching
      <4>2. Len(marked.good) \in Nat /\ Len(good) \in Nat
        BY <2>3, <3>4 DEF marked, ListsKept, ServerLists
      <4> QED BY <1>1, <3>4, <4>1, <4>2 DEF marked
    <3>7. Searching(marked, all, users, n)
      BY <3>4, <3>5, <3>6 DEF Searching, marked
    <3>8. f[n] = marked
      BY <2>2, <2>5 DEF marked
    <3> QED BY <2>1, <3>7, <3>8
  <2> QED BY <2>4, <2>5
<1> HIDE DEF P
<1>6. Inductive(P, N)
  BY <1>4, <1>5 DEF Inductive
<1> HIDE DEF N
<1>7. N \in P
  BY <1>1, <1>6, UpTo
<1>8. Searching(Searched(TRUE), all, users, N)
  BY <1>2, <1>7 DEF P
<1>9. Found(Searched(TRUE))
  <2> DEFINE good == Searched(TRUE).good
  <2>1. good \in Seq(Server)
    BY <1>8 DEF Searching, ListsKept, ServerLists
  <2>2. Len(good) <= 0 => good = <<>>
    <3> HIDE DEF good
    <3> QED BY <2>1
  <2>3. Found(Searched(TRUE)) \/ Len(good) <= N - N
    BY <1>8 DEF Searching, N
  <2> HIDE DEF good
  <2>4. N - N = 0
    BY <1>1
  <2>5. CASE Len(good) <= N - N
    BY <2>2, <2>4, <2>5 DEF Found, good
  <2> QED BY <2>3, <2>5
<1> QED BY <1>8, <1>9 DEF Searching

\* getServer keeps the lists, and what it gives is not bad.
LEMMA GetServerKeeps ==
  ASSUME NEW onlyTls \in BOOLEAN, NEW all, NEW users \in SomeAccounts,
         ListsKept(Lists, all, users),
         NEW a \in Accounts, \A s \in Server : a \notin users[s],
         GetServer(onlyTls, Given(onlyTls))
  PROVE  /\ ListsKept(Lists', all, users)
         /\ Given(onlyTls) \in Server
         /\ Given(onlyTls) \notin ToSet(BadServers')
         /\ onlyTls => SuitsTls(Given(onlyTls))
         /\ \/ \A t : Copies(GoodServers', t) <= Copies(GoodServers, t)
            \/ \A t \in Server : Copies(GoodServers', t) <= Cardinality(Accounts)
<1> DEFINE lists == Searched(onlyTls)
           server == Given(onlyTls)
<1>1. GoodServers \in Seq(Server) /\ BadServers \in Seq(Server) /\ Lists.good = GoodServers
  BY DEF ListsKept, Lists, ServerLists
<1>2. /\ ListsKept(lists, all, users)
      /\ \A t : Copies(lists.good, t) <= Copies(GoodServers, t)
      /\ onlyTls => Found(lists)
  <2>1. CASE onlyTls
    <3>1. Searching(lists, all, users, 0) /\ Found(lists)
      BY <2>1, SearchFinds
    <3> QED BY <3>1 DEF Searching
  <2>2. CASE ~onlyTls
    <3>1. lists = Lists
      BY <2>2 DEF Searched
    <3>2. \A t : Copies(GoodServers, t) \in Nat
      BY <1>1, CopiesType
    <3> QED BY <1>1, <2>2, <3>1, <3>2
  <2> QED BY <2>1, <2>2
<1>3. lists.good \in Seq(Server) /\ lists.bad \in Seq(Server)
  BY <1>2 DEF ListsKept, ServerLists
<1>4. CASE lists.good = <<>>
  <2>1. server = NoServer /\ GoodServers' = lists.bad /\ BadServers' = <<>>
    BY <1>4 DEF GetServer, Given
  <2>2. server \in Server /\ SuitsTls(server)
    BY <2>1 DEF Server, NoServer, SuitsTls
  <2>3. ToSet(<<>>) = {} /\ <<>> \in Seq(Server)
    BY DEF ToSet
  <2>4. Lists' = [good |-> lists.bad, bad |-> <<>>]
    BY <2>1 DEF Lists
  <2>5. ToSet(lists.good) = {}
    BY <1>4, <2>3
  <2>6. ListsKept(Lists', all, users)
    BY <1>2, <1>3, <2>3, <2>4, <2>5 DEF ListsKept, ServerLists
  <2>7. ASSUME NEW t \in Server PROVE Copies(GoodServers', t) <= Cardinality(Accounts)
    <3>1. users[t] \in SUBSET Accounts
      BY DEF SomeAccounts
    <3>2. Cardinality(users[t]) \in Nat /\ Cardinality(Accounts) \in Nat
      BY <3>1, UsersCount
    <3>3. Copies(lists.bad, t) \in Nat /\ (Copies(lists.bad, t) = 0 <=> t \notin ToSet(lists.bad))
      BY <1>3, CopiesType
    <3>4. t \in ToSet(lists.bad) => Copies(lists.bad, t) + Cardinality(users[t]) <= Cardinality(Accounts)
      BY <1>2 DEF ListsKept
    <3> QED BY <2>1, <3>2, <3>3, <3>4
  <2> QED BY <2>1, <2>2, <2>3, <2>6, <2>7
<1>5. CASE lists.good # <<>>
  <2>1. server = Head(lists.good) /\ GoodServers' = lists.good /\ BadServers' = lists.bad
    BY <1>5 DEF GetServer, Given
  <2>2. Lists' = [good |-> lists.good, bad |-> lists.bad]
    BY <2>1 DEF Lists
  <2>3. ListsKept(Lists', all, users)
    BY <1>2, <1>3, <2>2 DEF ListsKept, ServerLists
  <2>4. server \in Server /\ server \in ToSet(lists.good)
    <3> DEFINE good == lists.good
    <3> HIDE DEF good
    <3>1. good \in Seq(Server) /\ good # <<>>
      BY <1>3, <1>5 DEF good
    <3>2. Head(good) = good[1] /\ 1 \in DOMAIN good
      BY <3>1
    <3>3. Head(good) \in Server /\ Head(good) \in ToSet(good)
      BY <3>1, <3>2 DEF ToSet
    <3> QED BY <2>1, <3>3 DEF good
  <2>5. server \notin ToSet(BadServers')
    BY <1>2, <2>1, <2>4 DEF ListsKept
  <2>6. onlyTls => SuitsTls(server)
    BY <1>2, <1>5, <2>1 DEF Found
  <2> QED BY <1>2, <2>1, <2>3, <2>4, <2>5, <2>6
<1> QED BY <1>4, <1>5

-----------------------------------------------------------------------------
(* The inductive invariant of the shared lists.                            *)

\* For each server, the accounts that hold it.
Holders == [s \in Server |-> Users(s)]

\* As CopiesBounded, for the good servers alone.
GoodBounded ==
  \A s \in Server : \/ Copies(GoodServers, s) <= Cardinality(Accounts)
                    \/ Copies(GoodServers, s) <= Copies(AllServers, s)

\* The lists are sound whoever holds which servers.
ClientsInv ==
  /\ ClientsTypeOK
  /\ ListsKept(Lists, ToSet(AllServers), Holders)
  /\ GoodBounded
  /\ TlsOnTlsPort

\* Holders are accounts, before and after a step.
LEMMA HoldersType == Holders \in SomeAccounts /\ Holders' \in SomeAccounts
BY DEF Holders, SomeAccounts, Users

\* Accounts that give up a bad server do no harm.
LEMMA FewerUsers ==
  ASSUME NEW lists, NEW all, NEW users \in SomeAccounts, NEW left \in SomeAccounts,
         ListsKept(lists, all, users),
         \A s \in ToSet(lists.bad) : left[s] \subseteq users[s]
  PROVE  ListsKept(lists, all, left)
<1>1. lists.good \in Seq(Server) /\ lists.bad \in Seq(Server)
  BY DEF ListsKept, ServerLists
<1>2. ASSUME NEW s \in ToSet(lists.bad)
      PROVE  Copies(lists.bad, s) + Cardinality(left[s]) <= Cardinality(Accounts)
  <2>1. s \in Server
    BY <1>1 DEF ToSet
  <2>2. left[s] \in SUBSET Accounts /\ users[s] \in SUBSET Accounts
    BY <2>1 DEF SomeAccounts
  <2>3. /\ IsFiniteSet(users[s]) /\ Cardinality(users[s]) \in Nat
        /\ Cardinality(left[s]) \in Nat /\ Cardinality(Accounts) \in Nat
    BY <2>2, UsersCount
  <2>4. Cardinality(left[s]) <= Cardinality(users[s])
    BY <2>3, FS_Subset
  <2>5. Copies(lists.bad, s) \in Nat
    BY <1>1, CopiesType
  <2>6. Copies(lists.bad, s) + Cardinality(users[s]) <= Cardinality(Accounts)
    BY DEF ListsKept
  <2> QED BY <2>3, <2>4, <2>5, <2>6
<1> QED BY <1>2 DEF ListsKept

\* Good servers that were there before, or as many as there are accounts.
LEMMA StillGoodBounded ==
  ASSUME GoodBounded, GoodServers \in Seq(Server), GoodServers' \in Seq(Server),
         AllServers \in Seq(Server), UNCHANGED AllServers,
         \/ \A t : Copies(GoodServers', t) <= Copies(GoodServers, t)
         \/ \A t \in Server : Copies(GoodServers', t) <= Cardinality(Accounts)
  PROVE  GoodBounded'
<1>1. \A t : Copies(GoodServers', t) \in Nat /\ Copies(GoodServers, t) \in Nat
             /\ Copies(AllServers, t) \in Nat
  BY CopiesType
<1>2. Cardinality(Accounts) \in Nat
  BY UsersCount
<1>3. ASSUME NEW s \in Server
      PROVE  \/ Copies(GoodServers', s) <= Cardinality(Accounts)
             \/ Copies(GoodServers', s) <= Copies(AllServers, s)
  <2>1. \/ Copies(GoodServers, s) <= Cardinality(Accounts)
        \/ Copies(GoodServers, s) <= Copies(AllServers, s)
    BY DEF GoodBounded
  <2> QED BY <1>1, <1>2, <2>1
<1> QED BY <1>3 DEF GoodBounded

\* Lists that are kept are lists of servers.
LEMMA KeptTypes ==
  ASSUME NEW lists, NEW all, NEW users, ListsKept(lists, all, users)
  PROVE  lists.good \in Seq(Server) /\ lists.bad \in Seq(Server)
BY DEF ListsKept, ServerLists

\* A list that was just built.
LEMMA Rebuilt ==
  ASSUME NEW list \in Seq(Server), NEW users \in SomeAccounts
  PROVE  ListsKept([good |-> list, bad |-> <<>>], ToSet(list), users)
<1>1. ToSet(<<>>) = {} /\ <<>> \in Seq(Server)
  BY DEF ToSet
<1> QED BY <1>1 DEF ListsKept, ServerLists

\* The lists as they are built at the start are sound.
LEMMA ClientsInitInv == ClientsInit => ClientsInv
<1> SUFFICES ASSUME ClientsInit PROVE ClientsInv
  OBVIOUS
<1>1. LastServer \in LastServers
  BY DEF ClientsInit, ServersInit, LastServers
<1>2. BuiltList(LastServer) \in Seq(Server)
  BY <1>1, BuiltType
<1>3. /\ GoodServers = BuiltList(LastServer) /\ AllServers = GoodServers
      /\ BadServers = <<>>
  BY DEF ClientsInit, ServersInit
<1>4. NoServer \in Server
  BY DEF Server
<1>5. ClientsTypeOK
  BY <1>1, <1>2, <1>3, <1>4 DEF ClientsInit, ClientsTypeOK, LastServers
<1>6. ListsKept(Lists, ToSet(AllServers), Holders)
  BY <1>2, <1>3, Rebuilt, HoldersType DEF Lists
<1>7. GoodBounded
  <2>1. \A s : Copies(AllServers, s) \in Nat
    BY <1>2, <1>3, CopiesType
  <2> QED BY <1>3, <2>1 DEF GoodBounded
<1>8. TlsOnTlsPort
  BY ClientsAssumption DEF ClientsInit, TlsOnTlsPort, ClientsAssumption
<1> QED BY <1>5, <1>6, <1>7, <1>8 DEF ClientsInv

\* What taking a server does to the lists, for an account that has none.
LEMMA TakenKeeps ==
  ASSUME ClientsInv, NEW a \in Accounts, attempt[a] = "idle",
         GetServer(a \in TlsAccounts, Given(a \in TlsAccounts))
  PROVE  /\ ListsKept(Lists', ToSet(AllServers), Holders)
         /\ Given(a \in TlsAccounts) \in Server
         /\ Given(a \in TlsAccounts) \notin ToSet(BadServers')
         /\ a \in TlsAccounts => SuitsTls(Given(a \in TlsAccounts))
         /\ GoodServers' \in Seq(Server) /\ BadServers' \in Seq(Server)
         /\ UNCHANGED <<AllServers, LastServer>>
         /\ GoodBounded'
<1> DEFINE onlyTls == a \in TlsAccounts
<1>1. /\ onlyTls \in BOOLEAN /\ Holders \in SomeAccounts
      /\ ListsKept(Lists, ToSet(AllServers), Holders)
      /\ \A s \in Server : a \notin Holders[s]
  BY HoldersType DEF ClientsInv, Holders, Users
<1> HIDE DEF onlyTls
<1>2. GetServer(onlyTls, Given(onlyTls))
  BY DEF onlyTls
<1>3. /\ ListsKept(Lists', ToSet(AllServers), Holders)
      /\ Given(onlyTls) \in Server
      /\ Given(onlyTls) \notin ToSet(BadServers')
      /\ onlyTls => SuitsTls(Given(onlyTls))
      /\ \/ \A t : Copies(GoodServers', t) <= Copies(GoodServers, t)
         \/ \A t \in Server : Copies(GoodServers', t) <= Cardinality(Accounts)
  BY <1>1, <1>2, GetServerKeeps
<1>4. GoodServers' \in Seq(Server) /\ BadServers' \in Seq(Server)
  BY <1>3, KeptTypes DEF Lists
<1>5. UNCHANGED <<AllServers, LastServer>>
  BY <1>2 DEF GetServer
<1>6. GoodBounded'
  BY <1>3, <1>4, <1>5, StillGoodBounded DEF ClientsInv, ClientsTypeOK
<1> QED BY <1>3, <1>4, <1>5, <1>6 DEF onlyTls

\* setupLoginParams: the account now holds the server, which is not a bad one.
LEMMA LogInInv ==
  ASSUME ClientsInv, NEW a \in Accounts, LogIn(a)
  PROVE  ClientsInv'
<1> DEFINE server == Given(a \in TlsAccounts)
<1>1. /\ attempt[a] = "idle" /\ attempt' = [attempt EXCEPT ![a] = "connecting"]
      /\ serverOf' = [serverOf EXCEPT ![a] = server]
      /\ GetServer(a \in TlsAccounts, server)
  BY DEF LogIn
<1>2. /\ ListsKept(Lists', ToSet(AllServers), Holders)
      /\ server \in Server /\ server \notin ToSet(BadServers')
      /\ a \in TlsAccounts => SuitsTls(server)
      /\ GoodServers' \in Seq(Server) /\ BadServers' \in Seq(Server)
      /\ UNCHANGED <<AllServers, LastServer>>
      /\ GoodBounded'
  BY <1>1, TakenKeeps
<1> HIDE DEF server
<1>3. ClientsTypeOK /\ TlsOnTlsPort
  BY DEF ClientsInv
<1>4. ClientsTypeOK'
  BY <1>1, <1>2, <1>3 DEF ClientsTypeOK
<1>5. ListsKept(Lists', ToSet(AllServers'), Holders')
  <2>1. ASSUME NEW s \in ToSet(Lists'.bad) PROVE Holders'[s] \subseteq Holders[s]
    <3>1. s \in ToSet(BadServers') /\ s \in Server /\ s # server
      BY <1>2, <2>1 DEF Lists, ToSet
    <3> QED BY <1>1, <1>3, <3>1 DEF Holders, Users, ClientsTypeOK
  <2>2. ToSet(AllServers') = ToSet(AllServers)
    BY <1>2
  <2> QED BY <1>2, <2>1, <2>2, FewerUsers, HoldersType
<1>6. TlsOnTlsPort'
  BY <1>1, <1>2, <1>3, ClientsAssumption DEF TlsOnTlsPort, SuitsTls, ClientsTypeOK, ClientsAssumption
<1> QED BY <1>2, <1>4, <1>5, <1>6 DEF ClientsInv

\* gg_login gave no session: the account holds nothing.
LEMMA RefusedInv ==
  ASSUME ClientsInv, NEW a \in Accounts, Refused(a)
  PROVE  ClientsInv'
<1>1. /\ attempt[a] = "idle" /\ UNCHANGED <<attempt, serverOf>>
      /\ GetServer(a \in TlsAccounts, Given(a \in TlsAccounts))
  BY DEF Refused
<1>2. /\ ListsKept(Lists', ToSet(AllServers), Holders)
      /\ GoodServers' \in Seq(Server) /\ BadServers' \in Seq(Server)
      /\ UNCHANGED <<AllServers, LastServer>>
      /\ GoodBounded'
  BY <1>1, TakenKeeps
<1>3. ClientsTypeOK' /\ TlsOnTlsPort'
  BY <1>1, <1>2 DEF ClientsInv, ClientsTypeOK, TlsOnTlsPort
<1>4. Holders' = Holders /\ ToSet(AllServers') = ToSet(AllServers)
  BY <1>1, <1>2 DEF Holders, Users
<1> QED BY <1>2, <1>3, <1>4 DEF ClientsInv

\* Nothing but the accounts that hold servers changes, and no account begins
\* to hold one.
LEMMA HoldersShrinkInv ==
  ASSUME ClientsInv, UNCHANGED <<GoodServers, BadServers, AllServers>>,
         ClientsTypeOK', TlsOnTlsPort',
         \A s \in Server : Holders'[s] \subseteq Holders[s]
  PROVE  ClientsInv'
<1>1. Lists' = Lists /\ ToSet(AllServers') = ToSet(AllServers) /\ GoodBounded'
  BY DEF Lists, ClientsInv, GoodBounded
<1>2. ListsKept(Lists, ToSet(AllServers), Holders)
  BY DEF ClientsInv
<1>3. \A s \in ToSet(Lists.bad) : s \in Server
  BY <1>2, KeptTypes DEF ToSet
<1>4. ListsKept(Lists, ToSet(AllServers), Holders')
  BY <1>2, <1>3, FewerUsers, HoldersType
<1> QED BY <1>1, <1>4 DEF ClientsInv

\* socketConnSuccess changes no list.
LEMMA SucceedInv ==
  ASSUME ClientsInv, NEW a \in Accounts, Succeed(a)
  PROVE  ClientsInv'
<1>1. /\ attempt[a] = "connecting" /\ attempt' = [attempt EXCEPT ![a] = "connected"]
      /\ serverOf' = serverOf /\ LastServer' = serverOf[a]
      /\ UNCHANGED <<GoodServers, BadServers, AllServers>>
  BY DEF Succeed, MarkServerAsGood
<1>2. ClientsTypeOK /\ TlsOnTlsPort
  BY DEF ClientsInv
<1>3. ClientsTypeOK'
  BY <1>1, <1>2 DEF ClientsTypeOK, Server
<1>4. TlsOnTlsPort'
  BY <1>1, <1>2, ClientsAssumption DEF TlsOnTlsPort, ClientsTypeOK, ClientsAssumption
<1>5. \A s \in Server : Holders'[s] \subseteq Holders[s]
  BY <1>1, <1>2 DEF Holders, Users, ClientsTypeOK
<1> QED BY <1>1, <1>3, <1>4, <1>5, HoldersShrinkInv

\* An account that becomes idle.
LEMMA IdleKeeps ==
  ASSUME ClientsInv, NEW a \in Accounts, attempt[a] # "idle", Idle(a)
  PROVE  /\ attempt' \in [Accounts -> {"idle", "connecting", "connected"}]
         /\ serverOf' \in [Accounts -> Server]
         /\ TlsOnTlsPort'
         /\ serverOf[a] \in Server
         /\ a \in Holders[serverOf[a]]
         /\ \A s \in Server : Holders'[s] = Holders[s] \ {a}
         /\ \A s \in Server \ {serverOf[a]} : Holders'[s] = Holders[s]
<1>1. /\ attempt' = [attempt EXCEPT ![a] = "idle"]
      /\ serverOf' = [serverOf EXCEPT ![a] = NoServer]
  BY DEF Idle
<1>2. ClientsTypeOK /\ TlsOnTlsPort /\ NoServer \in Server
  BY DEF ClientsInv, Server
<1>3. TlsOnTlsPort'
  BY <1>1, <1>2, ClientsAssumption DEF TlsOnTlsPort, ClientsTypeOK, ClientsAssumption
<1>4. \A s \in Server : Holders'[s] = Holders[s] \ {a}
  BY <1>1, <1>2 DEF Holders, Users, ClientsTypeOK
<1>5. serverOf[a] \in Server /\ a \in Holders[serverOf[a]]
  BY <1>2 DEF Holders, Users, ClientsTypeOK
<1>6. \A s \in Server \ {serverOf[a]} : a \notin Holders[s]
  BY DEF Holders, Users
<1>7. /\ attempt' \in [Accounts -> {"idle", "connecting", "connected"}]
      /\ serverOf' \in [Accounts -> Server]
  BY <1>1, <1>2 DEF ClientsTypeOK
<1>8. \A s \in Server \ {serverOf[a]} : Holders'[s] = Holders[s]
  BY <1>4, <1>6
<1> QED BY <1>3, <1>4, <1>5, <1>7, <1>8

\* socketConnFailed: one bad copy more, one account less that holds the server.
LEMMA FailInv ==
  ASSUME ClientsInv, NEW a \in Accounts, Fail(a)
  PROVE  ClientsInv'
<1> DEFINE server == serverOf[a]
           marked == MarkedAsBad(Lists, server)
<1>1. /\ attempt[a] # "idle" /\ Idle(a)
      /\ GoodServers' = marked.good /\ BadServers' = marked.bad
      /\ UNCHANGED <<AllServers, LastServer>>
  BY DEF Fail, MarkServerAsBad
<1>2. /\ attempt' \in [Accounts -> {"idle", "connecting", "connected"}]
      /\ serverOf' \in [Accounts -> Server]
      /\ TlsOnTlsPort'
      /\ server \in Server /\ a \in Holders[server]
      /\ \A s \in Server : Holders'[s] = Holders[s] \ {a}
      /\ \A s \in Server \ {server} : Holders'[s] = Holders[s]
  BY <1>1, IdleKeeps
<1>3. Lists' = marked
  BY <1>1 DEF Lists, MarkedAsBad
<1>4. Cardinality(Holders'[server]) + 1 <= Cardinality(Holders[server])
  <2>1. Holders[server] \in SUBSET Accounts
    BY <1>2, HoldersType DEF SomeAccounts
  <2>2. IsFiniteSet(Holders[server]) /\ Cardinality(Holders[server]) \in Nat
    BY <2>1, UsersCount
  <2>3. Cardinality(Holders[server] \ {a}) = Cardinality(Holders[server]) - 1
    BY <1>2, <2>2, FS_RemoveElement
  <2>4. Holders'[server] = Holders[server] \ {a}
    BY <1>2
  <2> QED BY <2>2, <2>3, <2>4
<1>5. ListsKept(Lists, ToSet(AllServers), Holders)
  BY DEF ClientsInv
<1>6. a \notin Holders'[server]
  BY <1>2
<1> HIDE DEF server
<1>7. /\ ListsKept(marked, ToSet(AllServers), Holders')
      /\ \A t : Copies(marked.good, t) <= Copies(Lists.good, t)
  BY <1>2, <1>4, <1>5, <1>6, HoldersType, MarkedIsKept
<1>8. GoodServers' \in Seq(Server) /\ BadServers' \in Seq(Server)
  BY <1>1, <1>7, KeptTypes
<1>9. ClientsTypeOK'
  BY <1>1, <1>2, <1>8 DEF ClientsInv, ClientsTypeOK
<1>10. GoodBounded'
  <2>1. \A t : Copies(GoodServers', t) <= Copies(GoodServers, t)
    BY <1>1, <1>7 DEF Lists
  <2> QED BY <1>1, <1>8, <2>1, StillGoodBounded DEF ClientsInv, ClientsTypeOK
<1>11. ListsKept(Lists', ToSet(AllServers'), Holders')
  BY <1>1, <1>3, <1>7
<1> QED BY <1>2, <1>9, <1>10, <1>11 DEF ClientsInv

\* A server that is given up without a report.
LEMMA LeaveInv ==
  ASSUME ClientsInv, NEW a \in Accounts, Leave(a)
  PROVE  ClientsInv'
<1>1. attempt[a] # "idle" /\ Idle(a) /\ UNCHANGED serverVars
  BY DEF Leave
<1>2. /\ attempt' \in [Accounts -> {"idle", "connecting", "connected"}]
      /\ serverOf' \in [Accounts -> Server]
      /\ TlsOnTlsPort'
      /\ \A s \in Server : Holders'[s] = Holders[s] \ {a}
  BY <1>1, IdleKeeps
<1>3. ClientsTypeOK'
  BY <1>1, <1>2 DEF ClientsInv, ClientsTypeOK, serverVars
<1> QED BY <1>1, <1>2, <1>3, HoldersShrinkInv DEF serverVars

\* buildServerList under accounts that hold servers.
LEMMA RebuildInv ==
  ASSUME ClientsInv, Rebuild
  PROVE  ClientsInv'
<1>1. /\ GoodServers' = BuiltList(LastServer) /\ BadServers' = <<>>
      /\ AllServers' = BuiltList(LastServer)
      /\ UNCHANGED <<LastServer, attempt, serverOf>>
  BY DEF Rebuild, BuildServerList
<1>2. LastServer \in LastServers
  BY DEF ClientsInv, ClientsTypeOK, LastServers
<1>3. BuiltList(LastServer) \in Seq(Server)
  BY <1>2, BuiltType
<1>4. ClientsTypeOK' /\ TlsOnTlsPort'
  BY <1>1, <1>3 DEF ClientsInv, ClientsTypeOK, TlsOnTlsPort
<1>5. ListsKept(Lists', ToSet(AllServers'), Holders')
  BY <1>1, <1>3, Rebuilt, HoldersType DEF Lists
<1>6. GoodBounded'
  <2>1. \A s : Copies(AllServers', s) \in Nat
    BY <1>1, <1>3, CopiesType
  <2> QED BY <1>1, <2>1 DEF GoodBounded
<1> QED BY <1>4, <1>5, <1>6 DEF ClientsInv

\* Every step keeps the lists sound.
LEMMA ClientsStepInv == ClientsInv /\ [ClientsNext]_clientVars => ClientsInv'
<1> SUFFICES ASSUME ClientsInv, [ClientsNext]_clientVars PROVE ClientsInv'
  OBVIOUS
<1>1. ASSUME NEW a \in Accounts, LogIn(a) PROVE ClientsInv'
  BY <1>1, LogInInv
<1>2. ASSUME NEW a \in Accounts, Refused(a) PROVE ClientsInv'
  BY <1>2, RefusedInv
<1>3. ASSUME NEW a \in Accounts, Succeed(a) PROVE ClientsInv'
  BY <1>3, SucceedInv
<1>4. ASSUME NEW a \in Accounts, Fail(a) PROVE ClientsInv'
  BY <1>4, FailInv
<1>5. ASSUME NEW a \in Accounts, Leave(a) PROVE ClientsInv'
  BY <1>5, LeaveInv
<1>6. CASE Rebuild
  BY <1>6, RebuildInv
<1>7. CASE UNCHANGED clientVars
  <2>1. ClientsTypeOK' /\ TlsOnTlsPort'
    BY <1>7 DEF clientVars, serverVars, ClientsInv, ClientsTypeOK, TlsOnTlsPort
  <2>2. \A s \in Server : Holders'[s] \subseteq Holders[s]
    BY <1>7 DEF clientVars, Holders, Users
  <2> QED BY <1>7, <2>1, <2>2, HoldersShrinkInv DEF clientVars, serverVars
<1> QED BY <1>1, <1>2, <1>3, <1>4, <1>5, <1>6, <1>7 DEF ClientsNext

\* Lists that share no server count its copies in one of them.
LEMMA InvIsSound == ClientsInv => ListsAreSound
<1> SUFFICES ASSUME ClientsInv PROVE ListsAreSound
  OBVIOUS
<1>1. /\ GoodServers \in Seq(Server) /\ BadServers \in Seq(Server)
      /\ ListsKept(Lists, ToSet(AllServers), Holders) /\ GoodBounded
  BY DEF ClientsInv, ClientsTypeOK
<1>2. /\ NoServerLost /\ ListsDisjoint
      /\ \A s \in ToSet(BadServers) :
           Copies(BadServers, s) + Cardinality(Holders[s]) <= Cardinality(Accounts)
  BY <1>1 DEF ListsKept, Lists, NoServerLost, ListsDisjoint
<1>3. ASSUME NEW s \in Server
      PROVE  \/ Copies(GoodServers \o BadServers, s) <= Cardinality(Accounts)
             \/ Copies(GoodServers \o BadServers, s) <= Copies(AllServers, s)
  <2>1. CASE s \in ToSet(BadServers)
    <3>1. s \notin ToSet(GoodServers)
      BY <1>2, <2>1 DEF ListsDisjoint
    <3>2. Copies(GoodServers \o BadServers, s) = Copies(BadServers, s)
      BY <1>1, <3>1, Concatenated
    <3>3. Holders[s] \in SUBSET Accounts
      BY HoldersType DEF SomeAccounts
    <3>4. Cardinality(Holders[s]) \in Nat /\ Cardinality(Accounts) \in Nat
      BY <3>3, UsersCount
    <3>5. Copies(BadServers, s) \in Nat
      BY <1>1, CopiesType
    <3> QED BY <1>2, <2>1, <3>2, <3>4, <3>5
  <2>2. CASE s \notin ToSet(BadServers)
    <3>1. Copies(GoodServers \o BadServers, s) = Copies(GoodServers, s)
      BY <1>1, <2>2, Concatenated
    <3> QED BY <1>1, <3>1 DEF GoodBounded
  <2> QED BY <2>1, <2>2
<1>4. CopiesBounded
  BY <1>3 DEF CopiesBounded
<1> QED BY <1>2, <1>4 DEF ListsAreSound

\* The invariant that makes the shared lists sound.
THEOREM ClientsInvariance == ClientsSpec => []ClientsInv
<1>1. ClientsInit => ClientsInv
  BY ClientsInitInv
<1>2. ClientsInv /\ [ClientsNext]_clientVars => ClientsInv'
  BY ClientsStepInv
<1> QED BY <1>1, <1>2, PTL DEF ClientsSpec

\* The lists hold servers, with their ports, and nothing else.
THEOREM ClientsTypeCorrect == ClientsSpec => []ClientsTypeOK
<1>1. ClientsInv => ClientsTypeOK
  BY DEF ClientsInv
<1> QED BY <1>1, ClientsInvariance, PTL

\* However accounts take, report and rebuild the lists under each other, no
\* configured server is lost, none is good and bad at once, and none is listed
\* more often than there are accounts or than it was configured.
THEOREM ListsAreAlwaysSound == ClientsSpec => []ListsAreSound
BY ClientsInvariance, InvIsSound, PTL

\* ChangeLog #1966: an account with TLS only ever holds a server with port 443, or
\* the hub.
THEOREM TlsAlwaysOnTlsPort == ClientsSpec => []TlsOnTlsPort
<1>1. ClientsInv => TlsOnTlsPort
  BY DEF ClientsInv
<1> QED BY <1>1, ClientsInvariance, PTL

\* No login is given a server that is marked as bad when it gets it.
BadServersRest ==
  [][\A a \in Accounts : LogIn(a) => serverOf'[a] \notin ToSet(BadServers')]_clientVars

\* A server that some account reported as bad is not given to another before the
\* good ones are used up and the lists are swapped.
THEOREM BadServersAreNotGiven == ClientsSpec => BadServersRest
<1>1. ASSUME ClientsInv, NEW a \in Accounts, LogIn(a)
      PROVE  serverOf'[a] \notin ToSet(BadServers')
  <2>1. serverOf'[a] = Given(a \in TlsAccounts)
    BY <1>1 DEF LogIn, ClientsInv, ClientsTypeOK
  <2>2. attempt[a] = "idle" /\ GetServer(a \in TlsAccounts, Given(a \in TlsAccounts))
    BY <1>1 DEF LogIn
  <2> QED BY <1>1, <2>1, <2>2, TakenKeeps
<1>2. ClientsInv => \A a \in Accounts : LogIn(a) => serverOf'[a] \notin ToSet(BadServers')
  BY <1>1
<1> QED BY <1>2, ClientsInvariance, PTL DEF BadServersRest
=============================================================================
