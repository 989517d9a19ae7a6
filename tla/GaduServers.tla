---------------------------- MODULE GaduServers ----------------------------
(***************************************************************************)
(* GaduServersManager: the two lists of servers every Gadu-Gadu account of *)
(* the program shares.  A login takes the head of GoodServers; a failed    *)
(* attempt moves its server to BadServers; an empty GoodServers is refilled*)
(* from BadServers and that one login is left to the hub.                  *)
(*                                                                         *)
(* The operations are actions on the lists.  GaduConnection and            *)
(* GaduServerClients compose them with the accounts that call them.        *)
(***************************************************************************)
EXTENDS Integers, Sequences, SequencesExt

CONSTANTS ServerFile,  \* addresses in servers.txt, in order
          HubAddress,  \* 0.0.0.0: let the Gadu-Gadu hub choose
          NoAddress    \* QHostAddress(): no server at all

VARIABLES GoodServers, BadServers,
          AllServers,   \* the list as it was last built
          LastServer    \* LastServerIP and LastServerPort in the configuration

serverVars == <<GoodServers, BadServers, AllServers, LastServer>>

ServersAssumption ==
  /\ ServerFile \in Seq(ToSet(ServerFile))
  /\ HubAddress # NoAddress /\ ToSet(ServerFile) \cap {HubAddress, NoAddress} = {}
ASSUME ServersAssumption

Ports == {443, 8074}
Hub == <<HubAddress, 0>>
NoServer == <<NoAddress, 0>>
Server == (ToSet(ServerFile) \X Ports) \cup {Hub, NoServer}

\* gaduServersFromString: an address without a port stands for every port.
OnPorts(address, ports) == [i \in 1..Len(ports) |-> <<address, ports[i]>>]

\* buildServerList: the port that worked last goes first.
AllPorts(last) == IF last[2] = 8074 THEN <<8074, 443>>
                  ELSE IF last[2] = 443 THEN <<443, 8074>> ELSE <<8074, 443>>

\* The addresses 0.0.0.0 and "" yield nothing.
LastGood(last) == IF last[1] \in {HubAddress, NoAddress} THEN <<>>
                  ELSE OnPorts(last[1], AllPorts(last))

\* The lines of servers.txt, one after the other.
FromFile(ports) ==
  LET read[n \in 0..Len(ServerFile)] ==
        IF n = 0 THEN <<>> ELSE read[n - 1] \o OnPorts(ServerFile[n], ports)
  IN  read[Len(ServerFile)]

BuiltList(last) == <<Hub>> \o LastGood(last) \o FromFile(AllPorts(last))

\* buildServerList, called by the account editor and on configuration changes.
BuildServerList ==
  /\ GoodServers' = BuiltList(LastServer)
  /\ BadServers' = <<>>
  /\ AllServers' = BuiltList(LastServer)
  /\ UNCHANGED LastServer

ServersInit ==
  /\ LastServer = <<NoAddress, 443>>
  /\ GoodServers = BuiltList(LastServer)
  /\ BadServers = <<>>
  /\ AllServers = BuiltList(LastServer)

\* list.removeAll(server)
Without(list, server) ==
  LET without[n \in 0..Len(list)] ==
        IF n = 0 THEN <<>>
        ELSE IF list[n] = server THEN without[n - 1] ELSE Append(without[n - 1], list[n])
  IN  without[Len(list)]

Lists == [good |-> GoodServers, bad |-> BadServers]

\* Mutant of MarkedAsBad: the address without its port.
AddressMarkedAsBad(lists, server) ==
  [good |-> Without(lists.good, server), bad |-> Append(lists.bad, server[1])]

MarkedAsBad(lists, server) ==
  [good |-> Without(lists.good, server), bad |-> Append(lists.bad, server)]

\* markServerAsBad
MarkServerAsBad(server) ==
  LET lists == MarkedAsBad(Lists, server)
  IN  /\ GoodServers' = lists.good /\ BadServers' = lists.bad
      /\ UNCHANGED <<AllServers, LastServer>>

\* With TLS only these ports will do.
SuitsTls(server) == server[2] \in {443, 0}

\* Mutant of Searched: as before #1966 was fixed, TLS is not looked at.
NotSearched(onlyTls) == Lists

\* What the calls of getServer(onlyTls) within each other make of the lists:
\* with TLS, a head that does not suit is marked as bad.
Searched(onlyTls) ==
  LET searched[n \in 0..Len(GoodServers)] ==
        IF n = 0 THEN Lists
        ELSE LET lists == searched[n - 1]
             IN  IF lists.good = <<>> \/ SuitsTls(Head(lists.good)) THEN lists
                 ELSE MarkedAsBad(lists, Head(lists.good))
  IN  IF onlyTls THEN searched[Len(GoodServers)] ELSE Lists

\* What getServer(onlyTls) returns.
Given(onlyTls) ==
  LET good == Searched(onlyTls).good
  IN  IF good = <<>> THEN NoServer ELSE Head(good)

\* Mutant of GetServer: BadServers is cleared before it is copied.
GetServerClearsFirst(onlyTls, server) ==
  LET lists == Searched(onlyTls)
  IN  /\ \/ /\ lists.good = <<>>
            /\ GoodServers' = <<>> /\ BadServers' = <<>>
            /\ server = NoServer
         \/ /\ lists.good # <<>>
            /\ GoodServers' = lists.good /\ BadServers' = lists.bad
            /\ server = Head(lists.good)
      /\ UNCHANGED <<AllServers, LastServer>>

\* getServer: "server" is what it returns.
GetServer(onlyTls, server) ==
  LET lists == Searched(onlyTls)
  IN  /\ \/ /\ lists.good = <<>>
            /\ GoodServers' = lists.bad /\ BadServers' = <<>>
            /\ server = NoServer
         \/ /\ lists.good # <<>>
            /\ GoodServers' = lists.good /\ BadServers' = lists.bad
            /\ server = Head(lists.good)
      /\ UNCHANGED <<AllServers, LastServer>>

\* markServerAsGood only remembers the server for the next start.
MarkServerAsGood(server) ==
  /\ LastServer' = server
  /\ UNCHANGED <<GoodServers, BadServers, AllServers>>
=============================================================================
