--------------------------- MODULE AccountStatuses ---------------------------
(***************************************************************************)
(* Which status the accounts of one identity get, are shown with and leave *)
(* in the configuration: StatusContainerManager, BaseStatusContainer and   *)
(* StatusChangerManager over accounts whose protocols are loaded and       *)
(* unloaded, with auto-away changing what was set.                         *)
(*                                                                         *)
(* In simple mode the user sets the status of the identity, which sets     *)
(* that of all its accounts; otherwise that of each account.  A status is  *)
(* written to the configuration, and that to the disk, in the event that   *)
(* sets it.  GaduConnection looks at one account, registered by itself;    *)
(* here its protocol is cut down to what it tells the rest.  Starting with *)
(* the last status is the default and the only choice modelled.            *)
(* SetOnlyLoaded and ProtocolsGoFirst are mistakes one could make here, to *)
(* show that the properties would notice.                                  *)
(***************************************************************************)
EXTENDS Integers, Statuses

CONSTANTS Accounts, Identity,   \* the containers of statuses
          UserTypes,            \* the status types the user picks from
          UserModes             \* the idle modes the user falls into

AccountStatusesAssumption ==
  /\ Identity \notin Accounts
  /\ UserTypes \subseteq StatusTypes /\ UserModes \subseteq IdleModes
ASSUME AccountStatusesAssumption

VARIABLES
  account,               \* account -> what the program has of it, see Account
  stored,                \* container -> LastStatusName and LastStatusDescription
  registered,            \* StatusContainerManager::StatusContainers
  SimpleMode,            \* "Hide messaging networks for each buddy"
  AllowSetDefaultStatus, \* the program has started
  OfflineToInvisible,    \* "Invisible when last was Offline", fixed
  changer,               \* autoaway is loaded and its changer registered
  idle,                  \* what the idle time asks for by now
  StatusChanged,         \* the last check of the idle time changed statuses
  chosen                 \* account -> the type its user chose

autoAwayVars == <<changer, idle, StatusChanged>>
vars == <<account, stored, registered, SimpleMode, AllowSetDefaultStatus, OfflineToInvisible,
          autoAwayVars, chosen>>

Containers == Accounts \cup {Identity}

NeverStored == [type |-> "", description |-> NoDescription]

\* handler: ProtocolHandler and details exist.  set, real: Statuses and
\* RealStatuses of the account.  shown: the CurrentStatus of its protocol.
Account == [handler : BOOLEAN, set : Status, real : Status, shown : Status, connecting : BOOLEAN]

Fresh(withHandler) ==
  [handler |-> withHandler, set |-> OfflineStatus, real |-> OfflineStatus,
   shown |-> OfflineStatus, connecting |-> FALSE]

Loaded(accounts) == {a \in Accounts : accounts[a].handler}

\* What is registered when these accounts have details: updateIdentities,
\* addAllAccounts and the listeners for accounts.
RegisteredFor(simple, loaded) ==
  IF simple THEN {c \in {Identity} : loaded # {}} ELSE loaded

Init ==
  /\ \E loaded \in SUBSET Accounts :
       /\ account = [a \in Accounts |-> Fresh(a \in loaded)]
       /\ SimpleMode \in BOOLEAN
       /\ registered = RegisteredFor(SimpleMode, loaded)
  /\ stored = [c \in Containers |-> NeverStored]
  /\ AllowSetDefaultStatus = FALSE /\ OfflineToInvisible \in BOOLEAN
  /\ changer \in BOOLEAN /\ idle \in UserModes /\ StatusChanged = FALSE
  /\ chosen = [a \in Accounts |-> "Online"]

-----------------------------------------------------------------------------
(* What a protocol makes of a status announced for its account *)

GivenUp(f) == [f EXCEPT !.set = OfflineStatus, !.real = OfflineStatus,
                        !.shown = OfflineStatus, !.connecting = FALSE]

BothOffline(s, t) == IsDisconnected(s) /\ IsDisconnected(t)

\* Protocol::statusChanged and changeStatus; a login may begin, wait for a
\* password, or be given up at once.
Announced(f, s) ==
  LET g == [f EXCEPT !.real = s] IN
  IF ~f.handler \/ s = f.shown THEN {g}
  ELSE IF BothOffline(s, f.shown) THEN {[g EXCEPT !.shown = s, !.connecting = FALSE]}
  ELSE IF f.connecting THEN {g}
  ELSE IF IsDisconnected(f.shown) THEN {g, [g EXCEPT !.connecting = TRUE], GivenUp(f)}
  ELSE {[g EXCEPT !.shown = s]}

Mode == IF changer THEN idle ELSE "NoChange"

\* AccountShared::doSetStatus and StatusChangerManager::setStatus
Set(f, s) == IF f.handler THEN Announced([f EXCEPT !.set = s], Changed(Mode, s)) ELSE {f}

\* StatusChangerManager::statusChanged(0): the statuses of what is registered
\* are changed anew.  Nothing was ever set for an identity itself.
Visited(mode) ==
  [a \in Accounts |-> IF a \in registered
                      THEN Announced(account[a], Changed(mode, account[a].set))
                      ELSE {account[a]}]

Some(outcomes) ==
  {f \in [Accounts -> UNION {outcomes[a] : a \in Accounts}] : \A a \in Accounts : f[a] \in outcomes[a]}

-----------------------------------------------------------------------------
(* Setting statuses *)

Members(c) == IF c = Identity THEN Accounts ELSE {c}

SetOnlyLoaded(c, s) == [x \in {c} \cup (Members(c) \cap Loaded(account)) |-> s]

\* Setting the identity sets its accounts, loaded or not.
SetByContainer(c, s) == [x \in {c} \cup Members(c) |-> s]

\* BaseStatusContainer::setStatus for the containers the wishes are about
SetStatus(accounts, wish) ==
  /\ stored' = [c \in Containers |-> IF c \in DOMAIN wish THEN wish[c] ELSE stored[c]]
  /\ account' \in Some([a \in Accounts |->
       IF a \in DOMAIN wish THEN Set(accounts[a], wish[a]) ELSE {accounts[a]}])

LastType(c) == IF stored[c] = NeverStored THEN "Online" ELSE stored[c].type

DefaultStatus(c) ==
  [type |-> IF LastType(c) = "Offline" /\ OfflineToInvisible THEN "Invisible" ELSE LastType(c),
   description |-> stored[c].description]

\* setDefaultStatus for each of these containers
SetDefaultStatus(accounts, containers) ==
  SetStatus(accounts, IF Identity \in containers
                      THEN SetByContainer(Identity, DefaultStatus(Identity))
                      ELSE [c \in containers |-> DefaultStatus(c)])

\* Core::initialized
Initialized ==
  /\ ~AllowSetDefaultStatus /\ AllowSetDefaultStatus' = TRUE
  /\ SetDefaultStatus(account, registered)
  /\ UNCHANGED <<registered, SimpleMode, OfflineToInvisible, autoAwayVars, chosen>>

Availability == [Online |-> 3, Away |-> 2, NotAvailable |-> 2, Invisible |-> 1, Offline |-> 0]

\* The status a container shows; an identity that of its best account.
ShownBy(c) ==
  {account[a].shown : a \in IF c = Identity
     THEN {a \in Loaded(account) : \A b \in Loaded(account) :
             Availability[account[b].shown.type] <= Availability[account[a].shown.type]}
     ELSE {c}}

\* StatusMenu
UserSetsType(c, type) ==
  /\ c \in registered
  /\ \E s \in ShownBy(c) : SetStatus(account, SetByContainer(c, [s EXCEPT !.type = type]))
  /\ chosen' = [a \in Accounts |-> IF a \in Members(c) THEN type ELSE chosen[a]]
  /\ UNCHANGED <<registered, SimpleMode, AllowSetDefaultStatus, OfflineToInvisible, autoAwayVars>>

\* The type shown is set with it, though it was not chosen.
UserSetsDescription(c, d) ==
  /\ c \in registered
  /\ \E s \in ShownBy(c) : SetStatus(account, SetByContainer(c, [s EXCEPT !.description = d]))
  /\ UNCHANGED <<registered, SimpleMode, AllowSetDefaultStatus, OfflineToInvisible,
                 autoAwayVars, chosen>>

MoreAvailable(t, u) == IF Availability[t] < Availability[u] THEN u ELSE t

\* simpleModeChanged.  In simple mode the accounts get what was last set for the
\* identity, maybe long ago, so that counts as chosen, too.
UserChangesMode ==
  /\ SimpleMode' = ~SimpleMode
  /\ registered' = RegisteredFor(SimpleMode', Loaded(account))
  /\ SetDefaultStatus(account, registered')
  /\ chosen' = [a \in Accounts |-> IF SimpleMode' THEN MoreAvailable(chosen[a], LastType(Identity))
                                 ELSE chosen[a]]
  /\ UNCHANGED <<AllowSetDefaultStatus, OfflineToInvisible, autoAwayVars>>

-----------------------------------------------------------------------------
(* Protocols that come and go *)

\* protocolRegistered.  Only what is registered by it gets a status.
LoadProtocol(a) ==
  /\ ~account[a].handler
  /\ LET accounts == [account EXCEPT ![a] = [@ EXCEPT !.handler = TRUE, !.shown = OfflineStatus]] IN
     /\ registered' = RegisteredFor(SimpleMode, Loaded(accounts))
     /\ SetDefaultStatus(accounts, registered' \ registered)
  /\ UNCHANGED <<SimpleMode, AllowSetDefaultStatus, OfflineToInvisible, autoAwayVars, chosen>>

\* setDisconnectStatus, then the protocol's destructor: whatever is shown, a
\* protocol that still has a real status to follow gives it up.
Unloaded(f) ==
  [f EXCEPT !.handler = FALSE, !.connecting = FALSE, !.shown = OfflineStatus,
            !.set = IF IsDisconnected(f.real) THEN @ ELSE OfflineStatus,
            !.real = IF IsDisconnected(f.real) THEN @ ELSE OfflineStatus]

\* protocolUnregistered: what is stored is manuallySetStatus, the real status.
UnloadProtocol(a) ==
  /\ account[a].handler
  /\ stored' = [stored EXCEPT ![a] = account[a].real]
  /\ account' = [account EXCEPT ![a] = Unloaded(@)]
  /\ registered' = RegisteredFor(SimpleMode, Loaded(account'))
  /\ UNCHANGED <<SimpleMode, AllowSetDefaultStatus, OfflineToInvisible, autoAwayVars, chosen>>

ProtocolStep(a, outcomes) ==
  /\ account[a].handler
  /\ \E f \in outcomes : account' = [account EXCEPT ![a] = f]
  /\ UNCHANGED <<stored, registered, SimpleMode, AllowSetDefaultStatus, OfflineToInvisible,
                 autoAwayVars, chosen>>

\* A retry, or a password that was entered.
LoginBegins(a) ==
  /\ ~account[a].connecting /\ IsDisconnected(account[a].shown)
  /\ ProtocolStep(a, {[account[a] EXCEPT !.connecting = TRUE]})

\* socketConnSuccess, which sets an invisible status once more.
LoginSucceeds(a) ==
  /\ account[a].connecting
  /\ LET f == [account[a] EXCEPT !.shown = account[a].real, !.connecting = FALSE] IN
     ProtocolStep(a, IF f.shown.type = "Invisible" THEN Set(f, f.shown) ELSE {f})

\* The session or the login is lost, and tried again or not.
ConnectionLost(a) ==
  /\ account[a].connecting \/ ~IsDisconnected(account[a].shown)
  /\ ProtocolStep(a, {GivenUp(account[a]),
                      [account[a] EXCEPT !.shown = OfflineStatus, !.connecting = TRUE]})

-----------------------------------------------------------------------------
(* Auto-away *)

IdleTimePasses ==
  /\ idle' \in UserModes
  /\ UNCHANGED <<account, stored, registered, SimpleMode, AllowSetDefaultStatus,
                 OfflineToInvisible, changer, StatusChanged, chosen>>

CheckIdleTime ==
  /\ changer /\ (idle # "NoChange" \/ StatusChanged)
  /\ StatusChanged' = (idle # "NoChange")
  /\ account' \in Some(Visited(idle))
  /\ UNCHANGED <<stored, registered, SimpleMode, AllowSetDefaultStatus, OfflineToInvisible,
                 changer, idle, chosen>>

\* registerStatusChanger, unregisterStatusChanger
AutoAwayComesOrGoes ==
  /\ changer' = ~changer /\ StatusChanged' = FALSE
  /\ account' \in Some(Visited(IF changer' THEN idle ELSE "NoChange"))
  /\ UNCHANGED <<stored, registered, SimpleMode, AllowSetDefaultStatus, OfflineToInvisible,
                 idle, chosen>>

-----------------------------------------------------------------------------
(* The end of the program, and its next start with some of the protocols *)

StartAgain ==
  /\ \E loaded \in SUBSET Accounts :
       /\ account' = [a \in Accounts |-> Fresh(a \in loaded)]
       /\ registered' = RegisteredFor(SimpleMode, loaded)
  /\ AllowSetDefaultStatus' = FALSE
  /\ changer' \in BOOLEAN /\ StatusChanged' = FALSE
  /\ UNCHANGED <<SimpleMode, OfflineToInvisible, idle, chosen>>

ProtocolsGoFirst == {account}

\* unloadAllModules goes by name: autoaway before the protocols.
AutoAwayGoesFirst == IF changer THEN Some(Visited("NoChange")) ELSE {account}

Exit ==
  /\ \E accounts \in AutoAwayGoesFirst :
       stored' = [c \in Containers |->
                    IF c \in Loaded(account) THEN accounts[c].real ELSE stored[c]]
  /\ StartAgain

Crash == UNCHANGED stored /\ StartAgain

Running ==
  /\ AllowSetDefaultStatus
  /\ \/ \E c \in Containers :
          \/ \E type \in UserTypes : UserSetsType(c, type)
          \/ \E d \in Descriptions : UserSetsDescription(c, d)
     \/ UserChangesMode
     \/ \E a \in Accounts :
          \/ LoadProtocol(a) \/ UnloadProtocol(a)
          \/ LoginBegins(a) \/ LoginSucceeds(a) \/ ConnectionLost(a)
     \/ IdleTimePasses \/ CheckIdleTime \/ AutoAwayComesOrGoes
     \/ Exit \/ Crash

Next == Initialized \/ Running

Spec == Init /\ [][Next]_vars

-----------------------------------------------------------------------------
TypeOK ==
  /\ account \in [Accounts -> Account]
  /\ stored \in [Containers -> Status \cup {NeverStored}]
  /\ registered \subseteq Containers
  /\ SimpleMode \in BOOLEAN /\ AllowSetDefaultStatus \in BOOLEAN /\ OfflineToInvisible \in BOOLEAN
  /\ changer \in BOOLEAN /\ idle \in IdleModes /\ StatusChanged \in BOOLEAN
  /\ chosen \in [Accounts -> StatusTypes]

\* Through mode changes, reloads of protocols, failing starts and restarts, the
\* statuses the user can set, and the defaults are given to, are the identity
\* if any of its accounts has a protocol, or the accounts that have one.
ContainersFollowMode == registered = RegisteredFor(SimpleMode, Loaded(account))

\* Nobody is shown, or remembered for the next start, as more available than
\* they chose to be, whatever protocols, connections, idleness, restarts and
\* crashes make of their status: an invisible user does not become visible, and
\* one who went offline stays so, but for the option to start as invisible.
Limit(a) ==
  IF chosen[a] = "Offline" /\ OfflineToInvisible THEN 1 ELSE Availability[chosen[a]]

NeverMoreAvailable ==
  \A a \in Accounts :
    /\ Availability[account[a].real.type] <= Limit(a)
    /\ Availability[account[a].shown.type] <= Limit(a)
    /\ Availability[LastType(IF SimpleMode THEN Identity ELSE a)] <= Limit(a)

UserSets(c) ==
  \/ \E type \in UserTypes : UserSetsType(c, type)
  \/ \E d \in Descriptions : UserSetsDescription(c, d)

\* ChangeLog, "Sometimes statuses set by autoaway are stored in configuration
\* on exit": whatever happens, what is stored of a status the user can set stays
\* what it was, becomes the default made of it, what the user sets, or Offline
\* when the protocol has given up.  Nobody undoes what auto-away made of a
\* status before a single protocol is unloaded: until auto-away has gone, that
\* stores it.  (Nor does it hold with the idle mode "Invisible", which
\* LoginSucceeds sets.)
KeepsIdlenessOut(c) ==
  \/ stored'[c] \in {stored[c], DefaultStatus(c), DefaultStatus(Identity)}
  \/ IsDisconnected(stored'[c])
  \/ UserSets(c)
  \/ changer /\ c \in Accounts /\ UnloadProtocol(c)

IdlenessIsNotStored == [][\A c \in registered : KeepsIdlenessOut(c)]_vars
=============================================================================
