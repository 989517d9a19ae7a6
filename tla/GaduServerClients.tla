------------------------- MODULE GaduServerClients -------------------------
(***************************************************************************)
(* Several Gadu-Gadu accounts sharing one GaduServersManager.  Of an       *)
(* account only what touches the lists is kept: it takes a server to log   *)
(* in, keeps it as its ActiveServer while it is connecting and connected,  *)
(* and reports it as good, as bad, or not at all.  GaduConnection, the     *)
(* whole of one account, implements this.                                  *)
(***************************************************************************)
EXTENDS GaduServers, FiniteSets

CONSTANTS Accounts, TlsAccounts

ClientsAssumption == IsFiniteSet(Accounts) /\ TlsAccounts \subseteq Accounts
ASSUME ClientsAssumption

VARIABLES attempt,        \* account -> "idle", "connecting", "connected"
          serverOf        \* account -> its ActiveServer

clientVars == <<serverVars, attempt, serverOf>>

ClientsInit ==
  /\ ServersInit
  /\ attempt = [a \in Accounts |-> "idle"]
  /\ serverOf = [a \in Accounts |-> NoServer]

\* setupLoginParams
LogIn(a) ==
  /\ attempt[a] = "idle" /\ attempt' = [attempt EXCEPT ![a] = "connecting"]
  /\ LET server == Given(a \in TlsAccounts)
     IN  /\ serverOf' = [serverOf EXCEPT ![a] = server]
         /\ GetServer(a \in TlsAccounts, server)

\* gg_login gives no session for the server that was taken.
Refused(a) ==
  /\ attempt[a] = "idle"
  /\ GetServer(a \in TlsAccounts, Given(a \in TlsAccounts))
  /\ UNCHANGED <<attempt, serverOf>>

\* socketConnSuccess
Succeed(a) ==
  /\ attempt[a] = "connecting"
  /\ MarkServerAsGood(serverOf[a])
  /\ attempt' = [attempt EXCEPT ![a] = "connected"]
  /\ UNCHANGED serverOf

\* The member ActiveServer keeps its value, but nothing reads it before the
\* next login sets it again.
Idle(a) ==
  /\ attempt' = [attempt EXCEPT ![a] = "idle"]
  /\ serverOf' = [serverOf EXCEPT ![a] = NoServer]

\* socketConnFailed with an error worth another try
Fail(a) ==
  /\ attempt[a] # "idle" /\ Idle(a)
  /\ MarkServerAsBad(serverOf[a])

\* Any other end: logged out, or denied.
Leave(a) ==
  /\ attempt[a] # "idle"
  /\ Idle(a)
  /\ UNCHANGED serverVars

Rebuild ==
  /\ BuildServerList
  /\ UNCHANGED <<attempt, serverOf>>

ClientsNext ==
  \/ \E a \in Accounts : LogIn(a) \/ Refused(a) \/ Succeed(a) \/ Fail(a) \/ Leave(a)
  \/ Rebuild

ClientsSpec == ClientsInit /\ [][ClientsNext]_clientVars

\* What an account does while nothing answers.
Retry(a) == Fail(a) \/ LogIn(a)

\* Whose user stays online goes on: the retry timer and the notifiers' timeout
\* see to it.
FairClients == ClientsSpec /\ \A a \in Accounts \ TlsAccounts : WF_clientVars(Retry(a))

-----------------------------------------------------------------------------
ClientsTypeOK ==
  /\ GoodServers \in Seq(Server) /\ BadServers \in Seq(Server) /\ AllServers \in Seq(Server)
  /\ LastServer \in (ToSet(ServerFile) \X Ports) \cup {Hub, NoServer, <<NoAddress, 443>>}
  /\ attempt \in [Accounts -> {"idle", "connecting", "connected"}]
  /\ serverOf \in [Accounts -> Server]

\* However accounts fail, succeed and rebuild the lists under each other, a
\* server that was configured is never lost from both lists.
NoServerLost == ToSet(AllServers) \subseteq ToSet(GoodServers) \cup ToSet(BadServers)

\* A server that failed is not handed out again before the good ones are used
\* up: no server is good and bad at once, although an account may report a
\* server that another account has reported before it.
ListsDisjoint == ToSet(GoodServers) \cap ToSet(BadServers) = {}

\* The lists do not grow with every failure: a server is listed at most once
\* for each account that can report it, or as often as it was configured.
Copies(list, server) == Cardinality({i \in 1..Len(list) : list[i] = server})

CopiesBounded ==
  \A s \in Server :
    \/ Copies(GoodServers \o BadServers, s) <= Cardinality(Accounts)
    \/ Copies(GoodServers \o BadServers, s) <= Copies(AllServers, s)

\* The shared lists survive every order in which accounts take, report and
\* rebuild them: complete, disjoint and bounded.
ListsAreSound == NoServerLost /\ ListsDisjoint /\ CopiesBounded

\* ChangeLog #1966: only port 443 is used when connecting with TLS (or the
\* hub, which chooses itself), even right after the lists were refilled.
TlsOnTlsPort ==
  \A a \in TlsAccounts : attempt[a] # "idle" => serverOf[a][2] \in {443, 0}

\* Once every attempt of the accounts without TLS fails and nobody else asks for
\* a server, every configured server is tried again and again, from whatever
\* lists were left behind.  (An account with TLS that puts other ports away and
\* refills the lists can keep the others from reaching those ports.)
OnlyFailures == [][\E a \in Accounts \ TlsAccounts : Retry(a)]_clientVars

EveryServerTried ==
  <>OnlyFailures =>
    \A s \in ToSet(BuiltList(<<NoAddress, 443>>)) :
      []<>(\E a \in Accounts \ TlsAccounts : attempt[a] = "connecting" /\ serverOf[a] = s)
=============================================================================
