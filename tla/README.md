# Kadu in TLA+

Specifications of the parts of Kadu (the Gadu-Gadu, Jabber and Tlen instant
messenger of this repository) whose correctness depends on the order of events:
what a user, a server, timers, threads, plug-ins and crashes do in between each
other. TLC checks them on small instances; TLAPS proves what matters most in each
for every instance.

## 1. The system

Kadu is one Qt process. Nearly everything runs in the event loop of the main
thread: a handler runs to its end, and what interleaves is the order of
handlers. There are three exceptions: handlers that open a modal window run a
nested event loop, the history modules use threads, and signals connected with
`Qt::QueuedConnection` or `QTimer::singleShot` come later than they were caused.

| component | state it keeps | operations | talks to | hard because | correct if |
|---|---|---|---|---|---|
| Gadu-Gadu connection (`gadu-protocol.cpp`, `socket-notifiers/`) | network state, shown status, libgadu session, contact list handler, notifiers, ping timer, file transfer service | `login`, `changeStatus`, `networkDisconnected`, `socketConn*` | status manager, password window, server lists, account data | retries and dialogs are still pending when the session, the wish or the account has changed; handlers re-enter themselves through `setStatus` | resources live as long as their session; shown status agrees with the session; lost sessions are followed up |
| Status manager and auto-away (`status-changer-manager.cpp`, `autoaway/`) | status chosen by the user, status after all changers | `setStatus`, `statusChanged` | every account | idleness begins and ends in the middle of a login | offline wins over every changer; the chosen status survives |
| Server lists (`gadu-servers-manager.cpp`) | `GoodServers`, `BadServers`, last good server | `getServer`, `markServerAsBad/Good`, `buildServerList` | shared by all Gadu-Gadu accounts | reports on lists another account has changed or that were rebuilt | no server lost, doubled or handed out to an account that cannot use it |
| Password window (`password-window.cpp`, `account-manager.cpp`) | open windows, queued `invalidPassword` | Ok, Cancel, close | `GaduProtocol::login` | nested event loop | every rejected password is asked for |
| Modules manager (`modules.cpp`) | table of active modules with usage counters; saved lists of loaded and unloaded modules | `activateModule` (recursive), `deactivateModule`, start, exit | every module's init and close, configuration | a dependency fails after others were activated; upgrades between two runs; killing at exit | counters count users; dependencies active; conflicts excluded; choices survive |
| History (`history.cpp`, `history-save-thread.cpp`, `history-sql-storage.cpp`, `history_migration/`) | queues, database, transaction, save thread, import threads | queue, store, sync, import, register and unregister the storage, crash | chat services, SQL, crash handler | threads, a condition variable, cancelation, crash | everything queued is stored once, in order, and committed when the storage goes or the program crashes |
| Avatar jobs (`avatar-job-manager.cpp`, `avatar-job-runner.cpp`) | waiting contacts, `IsJobRunning`, runners with timers | `addJob`, `runJob`, `jobFinished`, timeout | avatar services of the protocols | no answer, late answers, services deleted with their protocol module | one at a time; none forgotten; none blocks the others |
| Gadu-Gadu chat service (`gadu-chat-service.cpp`) | undelivered messages by id | send, acknowledge, receive | history, chat windows | acknowledgements per recipient, never, or late | the first answer to a message stands |
| Gadu-Gadu contact list (`gadu-contact-list-service.cpp`, `contact-list-service.cpp`) | pieces received, import flag, connected slot | import, export | connection, buddies | session lost between pieces, refused and repeated requests | what is handed over is the whole list |
| File transfers (`gadu-file-transfer-*.cpp`, `dcc/`, `file-transfer/`) | the service, handlers, sockets, statuses and sizes of transfers | send, accept, reject, pause, continue, remove, store, load | connection, peers, account editor | sockets deleted with the service under a transfer; a handler that waits for sockets nobody will make | sockets go with the service; finished means all of it |
| Other Gadu-Gadu services (images, search, multilogon, personal info) | requests under way | request, answer | connection | answers after disconnection | no request outlives its session |
| Accounts, identities and status containers (`account-shared.cpp`, `identity-shared.cpp`, `base-status-container.cpp`, `status-container-manager.cpp`) | protocol handler, stored status, registered containers, simple mode | protocol registered and unregistered, status set, defaulted, stored | modules, status manager, protocols | protocol unloaded while auto-away is active; the mode switched; a start with some of the protocols | nobody becomes more available than they chose; idleness is not stored |
| Storage (`storable-object.cpp`, `manager.h`) | loaded, new, detached objects; tables by uuid | ensureLoaded, store, register | XML configuration | lazily loaded objects; locking by temporaries | nothing loaded twice or stored half |
| Recent chats (`recent-chat-manager.cpp`) | the list, the time of each chat, the stored elements | message, clean-up, flush, lazy load | configuration, menu | what is loaded late comes on top of what was used meanwhile | bounded, in order of use, old ones forgotten |
| Buddies, contacts, chats (`buddies/`, `contacts/`, `chat/`) | who belongs to whom; aggregate chats | attach, detach, merge, remove | views | keys of tables that change | tables agree with objects |
| Pending messages, notifications, descriptions | lists | add, remove | windows | small | no entry left behind |
| Jabber connection (`jabber-protocol.cpp`, `client/jabber-client.cpp`) | network state, shown status, client with its stream, roster request, open windows | `login`, `logout`, `changeStatus`, `disconnectedFromServer`, `slotCS*`, `slotTLSHandshaken` | vendored XMPP library, status manager, password and certificate windows, roster service | two kinds of nested event loops; a login replaces a stream that is still alive; a retry has no memory of why it was made | a session is shown while it lasts, announces what is wanted only, ends when the user goes offline |
| Other Jabber services, Tlen, encryption, firewall, player and status modules, sound, docking, sms, interface | adapters and presentation | | vendored libraries, desktop | | |

What is not modelled, and why, is in the `components` list of `PROJECT.json`.

## 2. Modules

| module | models | checked by |
|---|---|---|
| `Statuses` | statuses, their groups, what auto-away makes of one | part of `GaduConnection` and `AccountStatuses` |
| `GaduServers` | the operations of `GaduServersManager` as actions on the lists | part of the next two |
| `GaduServerClients` | several accounts sharing the lists; what `GaduConnection` is to the lists (`ImplementsClients`) | `servers`, proofs |
| `GaduConnection` | one account: protocol, status, timers, dialogs, server; composes `Statuses` and `GaduServers` | `connection`, `cancelled_login`, proofs |
| `AccountSession` | abstract: what an account promises about its sessions | implemented by `GaduConnection` (`ImplementsSession`) |
| `GaduConnectionProofs` | its safety invariants, the two refinements; the invariants of the shared lists | TLAPS |
| `ServiceSession` | what the services share: a session or not, the network state | part of the next four |
| `GaduChat`, `GaduContactList`, `GaduFileTransfers` | a service each | composed in the next |
| `GaduServices` | the services under sessions, edits and a restart | `services`, proofs |
| `GaduServicesProofs` | its types, invariants and action properties | TLAPS |
| `AccountStatuses` | the accounts of an identity, status containers, auto-away; composes `Statuses` | `account_statuses`, proofs |
| `AccountStatusesProofs` | its types, that nobody becomes more available, that idleness is not stored | TLAPS |
| `ModulesManager` | `ModulesManager`, modules window, SMS dialogs, exit, crash, upgrade | `modules`, `modules_replaced`, proofs |
| `ModulesManagerProofs` | its types, counters, dependencies and conflicts; exit and start | TLAPS |
| `JabberConnection` | one XMPP account: protocol, client, windows, retries, server; composes `Statuses` | `jabber`, proofs |
| `JabberConnectionProofs` | its invariants and action properties | TLAPS |
| `HistorySaving` | the main, save and import threads of the history modules | `history`, proofs |
| `SaveQueue` | abstract: a queue per kind of event, stored in order, synced together | implemented by `HistorySaving` (`ImplementsQueue`) |
| `HistorySavingProofs` | its types, what is conserved and what is left behind; the refinement | TLAPS |
| `RecentChats` | `RecentChatManager` with its configuration | `recent_chats`, proofs |
| `RecentChatsProofs` | its types and invariants | TLAPS |
| `AvatarJobs`, `AvatarJobsProofs` | the avatar queue and its runners; their safety invariants | `avatar_jobs`, `avatar_jobs_stop`, TLAPS |

The `MC*` modules only give values to constants.

### GaduConnection

A handler of the main thread is one action; the calls it makes (`setStatus` calls
`changeStatus`, which calls `login` or `networkDisconnected`, which calls
`setStatus` again) are operators that the action composes, with the chosen and
the real status at the time of the call as parameters. `manual` and `real` are
`Statuses` and `RealStatuses` of the status manager, `current` is
`Protocol::CurrentStatus`, `state` is `Protocol::State`. `session` stands for the
`gg_session`: none, logging in, up. `loginTimers` counts the
`QTimer::singleShot(1000, login)` under way, `passwordErrors` the queued
`invalidPassword` signals, `passwordWindows` the open windows. While one is open
the user can reach nothing else, but timers, idleness and the server go on.
The account editor's Apply is split where the code calls other parts, so that
the model has more behaviours than the code, not fewer. The ping, proxies and
the destructor are left out; of a contact list only the import flag is kept;
auto-away runs with its default description setting.

`AccountSession` keeps of all this what other parts of Kadu rely on: a session is
none, logging in or up; the account is wanted online or not, shown online or not;
a retry is due, a question for the password is open. The mapping is the
definition `Session` of `GaduConnection`. Its four actions say that a login begins
for a reason, succeeds with what is wanted, is lost only together with the wish or
leaving a retry or a question behind, and that an account shown online is wanted
online. `AccountSession`'s `link = "up"` is `connected` of `ServiceSession`.

### JabberConnection

`client` is the `JabberClient` with its stream: none, logging in, waiting for an
answer about a certificate (`asking`), failed but not yet cleaned up (`broken`),
authenticated and asking for a session (`starting`), or with one (`up`). `connect`
makes a new stream without deleting one that is still alive; `abandoned` counts
those, and `sessions` the requests for a session (`JT_Session`) that their clients
have running. The client takes for its own what these streams and requests report:
an end, an error, a missing encryption, an authentication, a session granted
(`SessionStarted`) or refused (`SessionRefused`). Their questions for parameters
and certificates go to the handlers of the present client and lead nowhere.
`questions` are the open windows about a certificate, `refusals` those
that a disconnection has closed but whose handler has still to log out.
`passwordWindows` are nested, and `cancelled` holds the places of those that were
opened by cancelling the one below, whose handler has still to show the account as
offline. Both windows are modal, so the user does nothing else meanwhile, but
timers, idleness and streams go on. `rosterAsked` is a request of this session
still unanswered, `InRequest` the flag of the roster service, which outlives the
session. Left out: the Invisible status and an empty identifier, which the
interface does not offer; builds without TLS; the details window of a certificate;
in which order nested windows of the two kinds close.

### GaduChat, GaduContactList, GaduFileTransfers, GaduServices

Each service has its state and operations in a module of its own, with operators
for what a new session, a lost one and a restart do to it; `GaduServices` puts
them together, in the order in which `socketConnSuccess` and `networkDisconnected`
call them. `connected` says that there is a session; `networkConnected` is
`Protocol::state()`, which a lost session can leave at Connected and by which an
edit of the account (`AccountUpdated`) makes or closes the file transfer service.
The server is `answers` and `replies`: what it still has to say in this
session. The peer of a transfer moves bytes, agrees, refuses and fails. A
`FileTransfer` with its handler and `DccSocketNotifiers` is one record; objects
that delete themselves later are gone before the next event. `MaxOperations`
bounds what is begun. Left out: filters, the length limit and what libgadu
refuses (nothing changes then), incoming messages, the export of the list,
typing notices and images.

### AccountStatuses

`account[a]` is an `AccountShared` with its protocol cut down to what it shows:
`set` and `real` are `Statuses` and `RealStatuses` of the status manager, `shown` the
protocol's `CurrentStatus`. The many ways a login can go in `GaduConnection` are
here the choices of `Announced`. `registered` is `StatusContainers`: the identity in
simple mode, the accounts otherwise. Setting a status writes it to the
configuration, and every such write is followed by a flush in the same event, so
`stored` is also what a crash leaves. `chosen` is not in the code: the type the user
last picked for the account, alone or with its identity. Switching to simple
mode gives the accounts what was last set for the identity, so that counts as
picked as well. `GaduConnection` looks at an account registered by itself.

### RecentChats

The configuration is the sequence of `Chat` elements; `LeftOver` is what the loop
that removes them by rising index leaves, every other one. `Load` adds the stored
elements on top, last one first, and is called by whoever needs the list first;
`CleanUp` runs every 30 seconds and loads nothing; `AfterCleanUp` is what it would
leave of the list at any moment, so that the property is about each of them.
`lastUse` is not in the code.
Messages have distinct times.

### GaduServers, GaduServerClients

`getServer` with TLS calls itself through `markServerAsBad` until the head of the
list will do; `Searched` is what those calls make of the lists, at most one for each
good server, and `GetServer` then hands out the head or, when none is left, swaps the
lists and returns no server. `Searched`, `Without` (`removeAll`) and `FromFile` (the loop
over `servers.txt`) are recursive functions, so that they can be proved about.
`GaduServerClients` keeps of an account only what touches the lists: it takes a
server (`LogIn`), may get no session for it (`Refused`), reports it as good or bad
(`Succeed`, `Fail`) or gives it up without a word (`Leave`), while somebody rebuilds
the lists (`Rebuild`). An idle account's `ActiveServer` is reset, since nothing reads
it. The default list of servers is modelled, not one typed in by the user.

### ModulesManager

`activateModule` calls itself through `satisfyModuleDependencies`; between two
calls a module's init routine may fail, so the recursion is an explicit `stack`
of calls with the dependencies each has left, and every init is a step. A failure
unwinds the whole stack, as every caller returns false. `todo` is what the
current loop still has to visit, in the order `Position` gives. A table entry that
`operator[]` inserts for a missing module is a *ghost*. `installed` changes between
runs (`Upgrade`) within `Releases`. Translations, dialog texts and the renaming of two
old modules are left out; configuration is taken to reach the disk when written;
at most one installed module replaces a given other one. The constants in
`MCModulesManager` come from the `.desc` files. `Needs` and `Excludes` read these
files as a whole: a module excludes nothing it needs, and of two that exclude each
other by a feature only one provides, one names the other (`ConflictsAssumption`).
All of the repository's files are like that; the code relies on it.

### HistorySaving

Three kinds of threads. What is done under `UnsavedDataMutex` or `DatabaseMutex` is
one step; `SomethingToSave` is held over several and is a variable. A `wakeAll`
reaches only a thread that is waiting already; the wait also ends by timeout.
`Stopped` is set by `stop` and, as in the code, reset by nothing. `connections` counts
how often an account's signals are connected. Queries, deletion of rows and the
termination of an import that does not end within two seconds are left out;
an import thread has one chat. `SaveQueue` sees of it, for each kind of event, what
waits (in the queue or in the hand of the thread that took it), what is stored and
what is committed.

### AvatarJobs

The order of a `QSet` is arbitrary, so `runJob` takes any waiting contact. A
request is a child of the service and dies with it, but the runner's timer does
not. Runners that have finished are gone; one that found no service is never
deleted and is not counted in `runners`.

## 3. Runs

| run | question | bounds | states |
|---|---|---|---|
| `connection` | Are session, resources, shown status and reports consistent whatever happens in between? Is it an `AccountSession`? Do logins end, are promised questions and retries made? | two descriptions, all kinds of idleness, two pending retries, one window and one queued request for one; the hub is the only server | 2.6·10^5 |
| `cancelled_login` | Does choosing Offline stop a login? **No.** | one retry | |
| `servers` | Do two accounts, one with TLS, keep the shared lists sound? Once every login of the one without TLS fails, is every server tried again and again? | one address on two ports, the hub; any number of rebuilds | 5.9·10^5 |
| `modules` | Usage counters, dependencies, conflicts, exit, lists, termination | history, protocol, SMS and docking modules in families, several releases, two starts, one SMS dialog | 9.3·10^5 |
| `modules_replaced` | Is the module loaded that replaces an older one? **No.** | the docking modules | |
| `history` | Is it a `SaveQueue`? Is nothing left behind or uncommitted, does no wait or queue last forever? | one import of one entry, two messages and two status changes | 4.5·10^5 |
| `services` | Do sockets follow the service, is finished whole, does the first answer stand, is an import whole? | a message to one contact and one to two, a list of two pieces, a file of one byte each way, four operations, one restart | 2.4·10^6 |
| `account_statuses` | Who is shown and remembered as what, in both modes, through reloads, idleness, restarts and crashes? | two accounts, three types, three idle modes | 2.6·10^5 |
| `recent_chats` | Is the list bounded and in order of use, and what does a clean-up keep and forget? | four chats, a limit of three, five moments, two restarts | 1.05·10^6 |
| `jabber` | Is an XMPP session shown, is only what is wanted announced, does offline log out, is a lost session followed up? | two descriptions, two retries, two password windows, two certificate questions, one abandoned stream, one session it asked for | 6.7·10^5 |
| `avatar_jobs` | One runner, no forgotten job, no blocked queue while services exist | three contacts of two accounts, three queued calls, two requests of a contact | 4·10^3 |
| `avatar_jobs_stop` | Does every job end? **No.** | same, smaller | |

Accounts and chats are interchangeable in `account_statuses` and `recent_chats`
(symmetry; these runs have no liveness property).

**Why the bounds are enough.** `MaxLoginTimers = 2` lets a retry fire while another
is pending, `MaxPasswordWindows = 1` lets a window be open while the next is
requested; more of either only repeats these situations. Two accounts are the
least that can report servers behind each other's back; nothing bounds the
rebuilds that make their reports stale, and the lists stay bounded by themselves
(`CopiesBounded`). A chain of three modules has a dependency that fails
after another was activated; two starts have a configuration that was saved,
edited by an upgrade and read. Two events of each kind are the least that can be
reordered; one import is enough to switch the save thread off and on while it
works. Two requests of one contact are the least for a late answer.
A conference of two is the least that is answered twice, a list of two pieces the
least that can be cut. Four operations are two imports that may overlap beside a
file sent and one received, or a transfer that is continued. A file to be resumed
that is one byte too long stands for all that are too long. Four chats with a
limit of three are the least with a chat that falls out and one between; two
restarts are a list that is stored, loaded, mixed and stored again. Two accounts are the least with one
protocol loaded and one not; the idle modes are none, one that lowers, and the one
that logs out. A second certificate question is one
asked by a later login while the first is open; one abandoned stream meets every
state of the client that replaced it (the proofs are for any number); a second password window is one opened by cancelling
the first. One registration of the history storage, because of what section 4
says of a second.

**Fairness.** `GaduConnection`: the event loop delivers single shot timers and queued
signals (weak fairness of `LoginTimer`, `AskForValidPassword`), and a login is
answered, broken or given up by the notifiers' 15 s timer (`LoginAnswered`);
nothing is assumed of the user. `JabberConnection` assumes the same of `LoginTimer` and
`AskForValidPassword`, and nothing of the server: its logins have no timeout.
`GaduServerClients`: an account without TLS that is idle logs in again and one
that is connecting ends, if nothing else happens to it (`Retry`); only
`EveryServerTried` uses this, which is about a user who stays online while nothing
answers. `ModulesManager`: the main thread goes on with
the loop it is in. `HistorySaving`: every thread is scheduled, waits time out, and a
thread that asks for `SomethingToSave` again and again gets it (strong fairness),
because its holder leaves it in every wait; the program may stop for good after
a crash, so deadlock is not checked there. `AvatarJobs`: queued calls and timers
come, answers need not. The other modules state safety only.

## 4. What the code does otherwise

Shown by runs:

* `cancelled_login`: while the first login runs the shown status is still Offline,
  so choosing Offline is not a change and the login goes on (ChangeLog #1910).
* `modules_replaced`: `loadAllModules` finds the module that replaces an old one and
  then activates the old one.
* `avatar_jobs_stop`: a contact of an account without avatar service (for example
  with its protocol module unloaded) leaves `IsJobRunning` set for good.

Met while modelling; the models do the same, and the properties are stated so
that they say what does hold:

* Connection: the retry armed for a user who wants to be online
  (`gadu-protocol.cpp:606`) is not asked about again a second later; who goes
  offline in between is logged in.
* Jabber: `JabberRosterService::InRequest` is cleared by the answer to the request
  only, so after a session that was lost before its answer later ones neither ask
  for the roster nor announce the presence that `jabber-protocol.cpp:323` speaks of
  (the exception in `AnnouncedIsWanted`); as for Gadu-Gadu, a retry does not ask
  whether the user still wants to be online; the cancel of the password window,
  meant to "prevent from further reconnecting" (line 218), sets the status before it
  shows the account as offline, and while that is shown online without a session
  `changeStatus` logs in.
* Jabber: a login replaces the stream of an earlier one without ending it, and the
  end of the old stream closes the session of the new; so does a question about a
  certificate that is refused late. A session that is granted to a replaced client
  (`jabber-client.cpp:623`) shows the account as connected while the present client
  is still logging in, or is gone: a pending retry then returns at
  `jabber-protocol.cpp:397`, although the line that armed it says "try again after
  one second" (the last exception in `PromisesAreKept`); with no client and no
  request for the roster running, `requestRoster` goes through a null pointer, so
  `SessionStarted` requires one of them. An accepted certificate without a client
  would use a null `JabberTLSHandler` (`jabber-client.cpp:559`), so
  `CertificateAccepted` requires a
  client. After most errors the client connects again at once, without the second
  a retry waits and without setting the contacts offline; if the password was
  cleared meanwhile, the state stays Connected without a client. The account
  stays shown online after a lost session, and who then chooses Offline is logged
  in first. In the connection properties, therefore, `current` is compared with
  what is wanted only where a presence was announced.
* History: `Stopped` of the save thread is never reset, so a storage that is
  registered a second time receives nothing; an account whose protocol comes
  before the storage is connected twice and its messages are queued twice
  (`queued` counts how often).
* Server lists: an account with TLS puts servers on other ports away and refills
  the lists, so two failing accounts of which one has TLS may never try some
  server (`EveryServerTried` is about accounts without TLS).
* Chat: messages are given up when older than a `QDateTime` that is never set
  (`gadu-chat-service.cpp:365`), that is, never.
* Contact list: two imports at once mix their pieces (`ImportIsWhole` is about an
  import that was asked for alone); the slot of an unanswered automatic import
  stays connected, and the flag is cleared before the answer, so an import lost
  with its session is not repeated.
* File transfers: a handler that asks for sockets while there is no service
  waits for good (`gadu-file-transfer-handler.cpp:130`); after a lost session the
  status stays "Transfer" and Pause does nothing; accepting then would use a null
  `SocketNotifiers` (line 162), so `AcceptFileTransfer` requires sockets; a
  loaded transfer has no handler, so Continue does nothing; one whose sizes are
  both 0 is loaded as finished (`FinishedIsWhole` counts 0 of 0 as whole). A
  file on the disk that is longer than the one to be resumed counts as moved
  (`dcc-socket-notifiers.cpp:260`), and is finished although it is not that file.
* File transfers: `setUpFileTransferService` goes by `state()`
  (`gadu-protocol.cpp:535`). `networkDisconnected(true, ...)` leaves that at Connected
  when the user wants to be offline (lines 572 and 601), and an edit of the account
  then makes a service without a session. What is sent with it is refused
  (`SocketsFollowService` and `FileTransferFollowsAccount` speak of sessions; outside
  of one the service is only known to be allowed by the account).
* Recent chats: the elements a flush leaves are loaded on top of newer ones, so
  the stored order is not the order of use (`UsedAreOnTop` is about this run of
  the program). A chat on top keeps the time it got there (`addRecentChat` returns at
  line 180), so a chat that is in use can be forgotten while it is on top, even by the
  next clean-up (`CleanUpFollowsUse` compares chats of this run only, and says that
  one used later is not forgotten before one used earlier; chats loaded from
  before can go in any order). The comment of `configurationUpdated`
  (`recent-chat-manager.cpp:219`) says that with `RecentChatsClear` false chats are not
  removed after `RecentChatsTimeout`, and with it true on exit; `cleanUp` goes by
  `RecentChatsTimeout` alone, and so does the property.
* History: an imported chat is flagged, and the flag stored, before its rows are
  committed (`history-import-thread.cpp:103`). `ImportedChatIsOnDisk` says that the rows
  are in the open transaction from then on and that a crash commits them, wherever
  the import is; that is a crash the signal handler sees (`main_unix.cpp`) in the
  main thread. A kill between the flag and the commit loses the chat for good.
* Statuses, simple mode: only the identity is registered, so `statusChanged(0)`,
  with which auto-away and the media player announce themselves, reaches no account
  until a status is set; switching to simple mode applies the identity's last
  status, which may be old and bring an offline user online, although the tool
  tip of the option (`varia/configuration/dialog.ui`) speaks of hiding networks only;
  reloading the protocol of one account while another keeps the identity
  registered leaves the first one offline.
* Statuses, idleness: with the idle mode "Invisible", `socketConnSuccess` sets
  Invisible as if the user had (line 766), and the exit stores it; so
  `IdlenessIsNotStored` is checked without that mode. When a single protocol is
  unloaded, `useProtocolFactory` stores `manuallySetStatus`
  (`account-shared.cpp:192`), which returns the status *after* the changers
  (`status-changer-manager.cpp:121`): with auto-away loaded, that of the idle user.
  This is the one step of the program itself that `IdlenessIsNotStored` leaves out
  (at exit auto-away goes first); what is stored that way is never more available
  than chosen. Of accounts in simple mode, which auto-away does not look at, what is
  stored may come from idleness as well; the property is about registered
  containers. Changing the
  description sets the shown type with it, idle or not. The media player is
  unloaded after the protocols, so its song is stored as the description.

## 5. Proofs

`GaduConnectionProofs` proves, for every list of servers, set of descriptions, user
and bound, that `Spec` keeps

    IInv = TypeOK /\ SessionOwned /\ ShownOnlineIsLoggedIn /\ ShownOnlineIsWanted
           /\ PresenceIsOfThisSession /\ FileTransferFollowsAccount

`ShownOnlineIsWanted` (an account shown online is wanted online) is what makes it
inductive: when a connection breaks while the user wants to be offline,
`networkDisconnected(true, ...)` leaves the shown status alone, which is right
only because that status is not an online one. The proof follows the calls: a
lemma for each of `ReleaseConnection`, `NetworkDisconnected`, `Login`, `ChangeStatus`,
then one step per action. The assumptions are those declared in the modules, on
descriptions, server addresses and bounds.

Its second part builds on that: every call that an action composes is a step of
`AccountSession` under the mapping, or leaves what the mapping reads alone, so
`Spec` implements `AccountSession` (`ImplementsAccountSession`). Two action
properties of the concrete specification come out of the same lemmas: who goes
offline while shown online is logged out in that step (`GoingOfflineLogsOut`), and
a session lost while wanted leaves a retry or a question (`LostSessionsAreAnswered`).
TLC checks them as the two conditions of `AccountSession`'s `Lose`.

Its third part is about the lists all accounts share, for every `servers.txt` and
every finite set of accounts, with TLS or without:

    ClientsInv = ClientsTypeOK /\ ListsKept(Lists, ToSet(AllServers), Holders)
                 /\ GoodBounded /\ TlsOnTlsPort

That the lists do not grow with every failure (`CopiesBounded`) is not inductive:
`markServerAsBad` appends a server whether or not it is in the list already. What
bounds it is who may still report it. `ListsKept` says that a bad server has at most
as many copies as there are accounts that do not hold it: an account that fails
adds a copy and lets go of the server in the same step, and no account takes a bad
server, because what `getServer` returns is good and the lists share no server.
A list that is swapped in has, for the same reason, at most as many copies of a server
as there are accounts; one that was just built is bounded by itself (`GoodBounded`).
The recursive functions are shown to have a solution (`IterationExists`) and followed
up to the length of the list (`UpTo`): `Without` takes every copy of a server and no
other (`WithoutIsLeft`), and a search with TLS keeps the lists and ends at a server
that will do, or at none (`SearchFinds`), since each server put away makes the good
list shorter. `ListsAreAlwaysSound`, `TlsAlwaysOnTlsPort`, `ClientsTypeCorrect` and the action
property `BadServersAreNotGiven` follow. The assumptions are that accounts are finitely
many and that the addresses in `servers.txt` are neither 0.0.0.0 nor empty.

`ImplementsServerClient` joins the two: `GaduConnection` implements `GaduServerClients` with
itself as the only account, which holds `ActiveServer` while it has a session. So the
abbreviated accounts of the third part do to the lists what the whole protocol of
the first does.

`GaduServicesProofs` has an invariant for each service. For transfers it is what
one transfer may look like (`Good`) and that sockets need both the session and the
service: a lost session closes the service, and what an edit makes without a session
gets no sockets. Sockets come only with the size of the file, so a file that is done
has been moved whole. For
messages it is that an undelivered one has no answer yet. For the list it is that,
while only one import was asked for, the pieces gathered and those to come make
the list (`Consistent`), or none will come, or a refusal will. All hold for any
number of messages, transfers, bytes and pieces. With these, types need little more
(`ServicesTypeCorrect`).

`AccountStatusesProofs` proves that nobody becomes more available than they chose,
for any set of accounts, from

    IInv = TypeOK /\ ContainersFollowMode /\ AccountsWithin /\ SetWithin /\ StoredWithin

`AccountsWithin` bounds what an account follows and shows by the limits of
`LimitedBy`: its own or, in simple mode, those of all accounts, because there a new
description sets the status of the best account for all of them. `SetWithin` is
about the accounts that auto-away looks at only; in simple mode what was set for
an account may be beyond its limit and is never read. `StoredWithin` includes
statuses stored for accounts that are not registered now. Lemmas follow the calls:
`changeStatus`, the status changer, setting, defaulting, then one per action.

`JabberConnectionProofs` proves, for every set of statuses, modes and bounds,

    IInv = TypeOK /\ SessionIsShown /\ AnnouncedIsWanted /\ CancelledIsOffline

`CancelledIsOffline` says that while a cancelled window is held up by another, the
user's choice is offline and nothing has been announced: when the inner window
closes, the outer one shows the account as offline, which would otherwise part the
shown status from an announced one. A lemma per call (`ConnectToServer`, `Logout`,
`ChangeStatus`, `ErrorHandled`, `DisconnectedFromServer`) gives the invariant and the
two parts of `SessionFollowsWish` together, from the same case split. What becomes
of a retry (`PromisesAreKept`) is left to TLC.

`AvatarJobsProofs` proves `TypeOK /\ OneRunnerAtATime /\ NoJobForgotten` inductive
for every set of contacts, accounts and bounds. The three need each other: a
second runner would end the first one's turn, and a queued call is used up only
when a job starts or none waits.

`ModulesManagerProofs` proves, for every finite set of modules, releases and bounds,

    IInv = TypeOK /\ UsageCountsUsers /\ DependenciesActive /\ CallsOK /\ PhaseOK

`CallsOK` says of the calls of `activateModule` under way that a dependency of the
module is active or still left to look at, and that ranks fall along the stack.
The first makes the counters right when the module is inserted; the second shows
that no call inserts the module of a call it was made from. `PhaseOK` says that
there are calls only in the loops that make them, and that the module of an open
dialog is active. Two lemmas, on a module inserted and a module removed, do the
counting; the rest is one lemma per action. The assumption that matters is that
dependencies have no cycle (`Rank`): the code does not check it and would recurse
without end, and the `.desc` files of the repository have none.

Three theorems build on it.

* `NothingKilledWithoutDialogs`: in a pass of the exit that has unloaded nothing yet,
  what was passed over is in use (`PassedAreUsed`). Of what is left after such a pass
  take a module of the highest rank: nothing active uses it, so a dialog does.
* `ConflictsAreExcluded`: conflicts are looked for before dependencies are activated,
  so what was found must be carried along the stack. `CallsFit` says that no active
  module is in conflict with the module of a call, and that every call was made for
  something the calls before it need; then a module that becomes active is in
  conflict with none of them, by `ConflictsAssumption`. For a pair of modules of which
  a later one excludes what an earlier one needs the theorem would be false.
* `StartsFollowChoices`, from `StartInv`: what the loops have come to is loaded, has
  failed, is in conflict, needs something that is, or is the outermost call; and
  what the last run did not choose is loaded for a module that depends on it. That
  a conflict stays one rests on `CallsFit`: what becomes active is in conflict with
  nothing active (`Grows`). An unloaded module can be loaded for a module that is not
  loaded in the end, when a later dependency of that module is in conflict, because
  `satisfyModuleDependencies` does not deactivate what it has activated
  (`modules.cpp:269`). `UnloadedStaysUnloaded` allows for it (`Blocked`); no `.desc`
  file of the repository has such a module.

`HistorySavingProofs` proves, for any number of threads, events, entries, imports and
registrations, that every event queued waits, is in a hand, or is stored, as often
as it was queued (`Conserved`), and that a chat flagged as imported is in the
transaction, and committed once its thread has gone on or a crash was handled:

    BaseInv = TypeOK /\ ConnectionsOK /\ ThreadsOK /\ QueuesOK /\ Conserved
              /\ ImportsOK /\ ImportedChatIsOnDisk

How the saving ends (`EndInv`) and in which order (`SortedInv`) is proved for runs in
which the storage is registered once at most, and false beyond: `Stopped` stays set
(section 4), so what is queued for a second storage is not saved, and a connection
made twice queues twice. That hypothesis, `[](registrations <= 1)`, is part of the theorems
`OneStorageLeavesNothing` and `HistoryImplementsQueue`, not a bound on the model. The
refinement maps the step that takes an event and the one that stores it to steps of
one `SaveQueue`; `SortedInv` gives that what a thread has in its hand is the oldest
of its kind, although two kinds of threads take from the same queue.

`RecentChatsProofs` proves for any chats, limit, time to live and bounds

    RecentInv = Clock /\ Options /\ NothingYet /\ StoredIsSound /\ ListIsSound

Each step leaves a subsequence of the list, perhaps below the chat just used, and
subsequences stay without repetition and in order (`SubKeeps`). `StoredIsSound` and
`Good` say that no chat is kept with a time later than its last use; so what a
clean-up leaves is not old. `ListIsSound` also has `Timed`: of two listed chats used in
this run, the one used later has a time later than the other's last use, because it
got on top after that; so it outlasts the other (both in `CleanUpForgets`). What is stored stays below twice the
limit because a flush leaves every other element of it and adds at most the limit.
`Kept`, `Limited` and `Load` are recursive functions; facts about them are proved by the
least length at which they would fail, which a set of numbers has because
inclusion of finite sets is well-founded (`Least`), since the induction theorems of
the library cannot be instantiated.

`IdlenessIsNeverStored`, in `AccountStatusesProofs`, has a hypothesis on the user: none
of the modes auto-away may use is "Invisible", the exception of section 4. It
follows from `AllFollow`: what was set for a registered account is what is stored,
or Offline, and what it follows differs from that only while auto-away is there. So
an exit, which lets auto-away go first, and the unloading of a protocol without
auto-away store what is stored already; for every other step one looks at what it
writes.

Only model-checked: the liveness properties (`LoginEnds`, `PromisesAreKept`,
`EveryServerTried`, `SavingGoesOn`, `LoopsTerminate`, `AskedJobsEnd`), as the prover has no
fairness rules and no `ENABLED`. Every safety property that a passing run checks is
a theorem.
The properties that a theorem states are also checked by the corresponding runs,
except two action properties of `GaduConnection` (`GoingOfflineLogsOut`,
`LostSessionsAreAnswered`), `BadServersRest`, `ImplementsClients`, `Conserved`, the types of `GaduConnection`, `JabberConnection`,
`AccountStatuses` and `AvatarJobs`, and `ContainersFollowMode`: these are proved only.

## 6. Not modelled

* Buddies, contacts, aggregate chats, pending messages: graphs and lists that one
  thread changes by one user action at a time. What is hard there is the number
  of paths, not their interleaving.
* Storage: lazily loaded objects over a DOM document are part of the components
  whose objects they are. `QMutexLocker(&Mutex)` in the managers is a temporary,
  so their locks protect nothing; what the history threads could then read is
  undefined and has no bounded set of outcomes.
* Avatars and notifications: what happens between their events is that of the
  avatar queue; reference counts live within one event.
* Images, personal info, search and multilogon: one request, one answer.
* Jabber beyond its connection (roster, messages, transfers, registration) and Tlen:
  services of one request and one answer over vendored libraries.
* Encryption, sound, docking, players: adapters around vendored
  libraries and desktop services, whose behaviour the sources do not give.
* The interface: what users do there is an action of the models above.
* Pings, proxies, the resolver's helper thread, configured server lists, the
  termination of imports after two seconds.

The lines with the most to be gained next: a second status changer (the media
player changes descriptions, so that the order of changers matters), and the
export of the contact list against an import.
