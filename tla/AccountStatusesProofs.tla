------------------------ MODULE AccountStatusesProofs ------------------------
(***************************************************************************)
(* Proofs about AccountStatuses, for every set of accounts, descriptions,  *)
(* types to choose from and idle modes.  They go by what one account may   *)
(* look like under a limit (Within) and how the calls keep it so.          *)
(***************************************************************************)
EXTENDS AccountStatuses, TLAPS

\* An account that follows and shows no status above n, that is offline without
\* a protocol, and shown offline while it logs in.
Within(f, n) ==
  /\ f \in Account
  /\ Availability[f.real.type] <= n
  /\ Availability[f.shown.type] <= n
  /\ ~f.handler => IsDisconnected(f.real) /\ IsDisconnected(f.shown)
  /\ f.connecting => IsDisconnected(f.shown)

\* In simple mode the user sees, and with a new description sets, the status of
\* the best account for all of them, so each is bounded by the limits of all.
LimitedBy(a) == IF SimpleMode THEN Accounts ELSE {a}

AccountsWithin == \A a \in Accounts : \A b \in LimitedBy(a) : Within(account[a], Limit(b))

\* What was set for an account that auto-away looks at.
SetWithin == \A a \in Accounts \cap registered : Availability[account[a].set.type] <= Limit(a)

StoredWithin ==
  /\ \A a \in Accounts : Availability[LastType(a)] <= Limit(a)
  /\ SimpleMode => \A a \in Accounts : Availability[LastType(Identity)] <= Limit(a)

IInv == TypeOK /\ ContainersFollowMode /\ AccountsWithin /\ SetWithin /\ StoredWithin

-----------------------------------------------------------------------------
(* Statuses.                                                               *)

LEMMA Available ==
  /\ Availability["Online"] = 3 /\ Availability["Away"] = 2 /\ Availability["NotAvailable"] = 2
  /\ Availability["Invisible"] = 1 /\ Availability["Offline"] = 0
  /\ \A t \in StatusTypes : Availability[t] \in 0..3 /\ (Availability[t] = 0 <=> t = "Offline")
<1>1. /\ Availability["Online"] = 3 /\ Availability["Away"] = 2 /\ Availability["NotAvailable"] = 2
      /\ Availability["Invisible"] = 1 /\ Availability["Offline"] = 0
  BY DEF Availability
<1> QED BY <1>1 DEF StatusTypes

LEMMA OfflineIsStatus ==
  /\ OfflineStatus \in Status /\ OfflineStatus.type = "Offline" /\ IsDisconnected(OfflineStatus)
  BY DescriptionsAssumption DEF OfflineStatus, Status, StatusTypes, IsDisconnected, Group

LEMMA DisconnectedIsOffline ==
  ASSUME NEW s \in Status
  PROVE  IsDisconnected(s) <=> s.type = "Offline"
  BY DEF Status, StatusTypes, IsDisconnected, Group

\* Idleness makes nobody more available, and leaves an offline status alone.
LEMMA ChangedIsLower ==
  ASSUME NEW mode \in IdleModes, NEW s \in Status
  PROVE  /\ Changed(mode, s) \in Status
         /\ Availability[Changed(mode, s).type] <= Availability[s.type]
         /\ IsDisconnected(s) => Changed(mode, s) = s
         /\ Changed("NoChange", s) = s
<1>1. CASE LeftAlone(mode, s)
  BY <1>1, Available DEF Changed, Status, LeftAlone
<1>2. CASE ~LeftAlone(mode, s)
  <2>1. mode \in {"Busy", "ExtendedAway", "Invisible", "Offline"}
    BY <1>2 DEF LeftAlone, IdleModes
  <2>2. /\ IdleType["Busy"] = "Away" /\ IdleType["ExtendedAway"] = "NotAvailable"
        /\ IdleType["Invisible"] = "Invisible" /\ IdleType["Offline"] = "Offline"
    BY DEF IdleType
  <2>3. Changed(mode, s) = [s EXCEPT !.type = IdleType[mode]]
    BY <1>2 DEF Changed
  <2>4. IdleType[mode] \in StatusTypes
    BY <2>1, <2>2 DEF StatusTypes
  <2>5. Changed(mode, s) \in Status /\ Changed(mode, s).type = IdleType[mode]
    BY <2>3, <2>4 DEF Status
  <2>6. Availability[IdleType[mode]] <= Availability[s.type]
    BY <1>2, <2>1, <2>2, Available DEF LeftAlone, Group, IsDisconnected, Status, StatusTypes
  <2>7. ~IsDisconnected(s)
    BY <1>2 DEF LeftAlone
  <2> QED BY <2>5, <2>6, <2>7 DEF Changed, LeftAlone
<1> QED BY <1>1, <1>2

-----------------------------------------------------------------------------
(* One account.                                                            *)

\* An account with a protocol that is announced a status within the limit is
\* within it, whatever it was before.
LEMMA AnnouncedWithin ==
  ASSUME NEW n \in 0..3, NEW f, NEW s \in Status, NEW g \in Announced(f, s),
         Within(f, 3), f.handler, Availability[s.type] <= n
  PROVE  /\ Within(g, n) /\ g.handler
         /\ g.set = f.set \/ g.set = OfflineStatus
<1> DEFINE r == [f EXCEPT !.real = s]
<1>1. /\ f \in Account /\ r \in Account /\ r.real = s /\ r.shown = f.shown /\ r.set = f.set
      /\ r.handler = f.handler /\ r.connecting = f.connecting
  BY DEF Within, Account
<1>2. /\ \A t \in Status : IsDisconnected(t) => Availability[t.type] = 0
      /\ \A t \in Status : Availability[t.type] \in 0..3
      /\ f.shown \in Status
  BY Available, DisconnectedIsOffline DEF Status, Within, Account
<1>3. ASSUME g = r, IsDisconnected(f.shown) \/ f.shown = s
      PROVE  Within(g, n) /\ g.handler /\ g.set = f.set
  <2>1. f.connecting => IsDisconnected(f.shown)
    BY DEF Within
  <2>2. Availability[f.shown.type] <= n
    BY <1>2, <1>3
  <2> QED BY <1>1, <1>3, <2>1, <2>2 DEF Within
<1>4. ASSUME g = [r EXCEPT !.shown = s, !.connecting = FALSE]
      PROVE  Within(g, n) /\ g.handler /\ g.set = f.set
  BY <1>1, <1>4 DEF Within, Account
<1>5. ASSUME g = [r EXCEPT !.shown = s], ~f.connecting
      PROVE  Within(g, n) /\ g.handler /\ g.set = f.set
  BY <1>1, <1>5 DEF Within, Account
<1>6. ASSUME g = [r EXCEPT !.connecting = TRUE], IsDisconnected(f.shown)
      PROVE  Within(g, n) /\ g.handler /\ g.set = f.set
  <2>1. g \in Account /\ g.real = s /\ g.shown = f.shown /\ g.handler /\ g.set = f.set
    BY <1>1, <1>6 DEF Account
  <2>2. Availability[f.shown.type] <= n
    BY <1>2, <1>6
  <2> QED BY <1>6, <2>1, <2>2 DEF Within
<1>7. ASSUME g = GivenUp(f)
      PROVE  Within(g, n) /\ g.handler /\ g.set = OfflineStatus
  <2>1. /\ g \in Account /\ g.real = OfflineStatus /\ g.shown = OfflineStatus
        /\ g.set = OfflineStatus /\ g.handler
    BY <1>1, <1>7, OfflineIsStatus DEF GivenUp, Account
  <2> QED BY <1>2, <2>1, OfflineIsStatus DEF Within
<1>8. CASE s = f.shown
  BY <1>3, <1>8 DEF Announced
<1>9. CASE s # f.shown /\ BothOffline(s, f.shown)
  BY <1>4, <1>9 DEF Announced
<1>10. CASE s # f.shown /\ ~BothOffline(s, f.shown) /\ f.connecting
  BY <1>3, <1>10 DEF Announced, Within
<1>11. CASE s # f.shown /\ ~BothOffline(s, f.shown) /\ ~f.connecting /\ IsDisconnected(f.shown)
  BY <1>3, <1>6, <1>7, <1>11 DEF Announced
<1>12. CASE s # f.shown /\ ~BothOffline(s, f.shown) /\ ~f.connecting /\ ~IsDisconnected(f.shown)
  BY <1>5, <1>12 DEF Announced
<1> QED BY <1>1, <1>8, <1>9, <1>10, <1>11, <1>12 DEF Account

\* Setting a status within a limit brings an account within that limit.
LEMMA SetBringsWithin ==
  ASSUME NEW n \in 0..3, NEW f, NEW s \in Status, NEW g \in Set(f, s),
         Mode \in IdleModes, Within(f, 3), Availability[s.type] <= n
  PROVE  /\ Within(g, n) /\ g.handler = f.handler
         /\ f.handler => Availability[g.set.type] <= n
<1>1. /\ \A t \in Status : IsDisconnected(t) => Availability[t.type] = 0
      /\ \A t \in Status : Availability[t.type] \in 0..3
  BY Available, DisconnectedIsOffline DEF Status
<1>2. CASE ~f.handler
  <2>1. g = f
    BY <1>2 DEF Set
  <2>2. f.real \in Status /\ f.shown \in Status
    BY DEF Within, Account
  <2> QED BY <1>1, <1>2, <2>1, <2>2 DEF Within
<1>3. CASE f.handler
  <2> DEFINE h == [f EXCEPT !.set = s]
  <2>1. g \in Announced(h, Changed(Mode, s))
    BY <1>3 DEF Set
  <2>2. /\ Changed(Mode, s) \in Status
        /\ Availability[Changed(Mode, s).type] <= Availability[s.type]
    BY ChangedIsLower
  <2>3. Availability[Changed(Mode, s).type] <= n
    BY <1>1, <2>2
  <2>4. Within(h, 3) /\ h.set = s /\ h.handler
    BY <1>3 DEF Within, Account
  <2> HIDE DEF h
  <2>5. Within(g, n) /\ g.handler /\ (g.set = s \/ g.set = OfflineStatus)
    BY <2>1, <2>2, <2>3, <2>4, AnnouncedWithin
  <2> QED BY <1>1, <1>3, <2>5, OfflineIsStatus
<1> QED BY <1>2, <1>3 DEF Within, Account

\* A status changed anew is one lowered from what was set.
LEMMA VisitedWithin ==
  ASSUME NEW n \in 0..3, NEW mode \in IdleModes, NEW f,
         NEW g \in Announced(f, Changed(mode, f.set)),
         Within(f, 3), f.handler, Availability[f.set.type] <= n
  PROVE  /\ Within(g, n) /\ g.handler
         /\ Availability[g.set.type] <= n
<1>1. f.set \in Status
  BY DEF Within, Account
<1>2. /\ Changed(mode, f.set) \in Status
      /\ Availability[Changed(mode, f.set).type] <= Availability[f.set.type]
  BY <1>1, ChangedIsLower
<1>3. /\ \A t \in Status : Availability[t.type] \in 0..3
      /\ \A t \in Status : IsDisconnected(t) => Availability[t.type] = 0
  BY Available, DisconnectedIsOffline DEF Status
<1>4. Availability[Changed(mode, f.set).type] <= n
  BY <1>1, <1>2, <1>3
<1>5. Within(g, n) /\ g.handler /\ (g.set = f.set \/ g.set = OfflineStatus)
  BY <1>2, <1>4, AnnouncedWithin
<1> QED BY <1>3, <1>5, OfflineIsStatus

\* An account that follows and shows nothing is within every limit.
LEMMA OfflineWithin ==
  ASSUME NEW n \in 0..3, NEW f \in Account, IsDisconnected(f.real), IsDisconnected(f.shown)
  PROVE  Within(f, n)
<1>1. Availability[f.real.type] = 0 /\ Availability[f.shown.type] = 0
  BY Available, DisconnectedIsOffline DEF Status, Account
<1> QED BY <1>1 DEF Within

LEMMA WithinAny ==
  ASSUME NEW n, NEW f, Within(f, n)
  PROVE  Within(f, 3)
<1>1. Availability[f.real.type] \in 0..3 /\ Availability[f.shown.type] \in 0..3
  BY Available DEF Status, Within, Account
<1> QED BY <1>1 DEF Within

-----------------------------------------------------------------------------
(* Limits and what is stored.                                              *)

LEMMA LimitRange ==
  ASSUME TypeOK, NEW a \in Accounts
  PROVE  /\ Limit(a) \in 0..3
         /\ Availability[chosen[a]] <= Limit(a)
         /\ OfflineToInvisible => 1 <= Limit(a)
<1>1. chosen[a] \in StatusTypes
  BY DEF TypeOK
<1> QED BY <1>1, Available DEF Limit

LEMMA LimitRangeNext ==
  ASSUME chosen' \in [Accounts -> StatusTypes], NEW a \in Accounts
  PROVE  /\ Limit(a)' \in 0..3
         /\ Availability[chosen'[a]] <= Limit(a)'
         /\ OfflineToInvisible' => 1 <= Limit(a)'
<1>1. chosen'[a] \in StatusTypes
  OBVIOUS
<1> QED BY <1>1, Available DEF Limit

LEMMA StoredTypes ==
  ASSUME TypeOK, NEW c \in Containers
  PROVE  LastType(c) \in StatusTypes /\ DefaultStatus(c) \in Status
<1>1. stored[c] = NeverStored \/ stored[c] \in Status
  BY DEF TypeOK
<1>2. NeverStored.description \in Descriptions /\ {"Online", "Invisible"} \subseteq StatusTypes
  BY DescriptionsAssumption DEF NeverStored, StatusTypes
<1> QED BY <1>1, <1>2 DEF LastType, DefaultStatus, Status

\* The default is the last status, or Invisible where that is the least.
LEMMA DefaultIsLimited ==
  ASSUME TypeOK, NEW c \in Containers, NEW n \in 0..3,
         Availability[LastType(c)] <= n, OfflineToInvisible => 1 <= n
  PROVE  Availability[DefaultStatus(c).type] <= n
  BY Available DEF DefaultStatus

LEMMA LastTypeOfStored ==
  ASSUME NEW c \in Containers, stored'[c] \in Status
  PROVE  LastType(c)' = stored'[c].type
<1>1. NeverStored \notin Status
  BY DEF NeverStored, Status, StatusTypes
<1> QED BY <1>1 DEF LastType

-----------------------------------------------------------------------------
(* Setting statuses.                                                       *)

\* What each account and each container has when some of them were set.
LEMMA SetStatusResult ==
  ASSUME NEW accounts \in [Accounts -> Account], \A a \in Accounts : Within(accounts[a], 3),
         NEW wish, \A c \in DOMAIN wish : wish[c] \in Status,
         TypeOK, SetStatus(accounts, wish)
  PROVE  /\ account' \in [Accounts -> Account]
         /\ Loaded(account') = Loaded(accounts)
         /\ \A a \in Accounts : account'[a].handler = accounts[a].handler
         /\ \A a \in Accounts \cap DOMAIN wish : \A n \in 0..3 :
              Availability[wish[a].type] <= n =>
                /\ Within(account'[a], n)
                /\ account'[a].handler => Availability[account'[a].set.type] <= n
         /\ \A a \in Accounts \ DOMAIN wish : account'[a] = accounts[a]
         /\ stored' \in [Containers -> Status \cup {NeverStored}]
         /\ \A c \in Containers : IF c \in DOMAIN wish THEN LastType(c)' = wish[c].type
                                  ELSE LastType(c)' = LastType(c)
<1> DEFINE Outcomes(a) == IF a \in DOMAIN wish THEN Set(accounts[a], wish[a]) ELSE {accounts[a]}
<1>1. Mode \in IdleModes
  BY DEF TypeOK, Mode, IdleModes
<1>2. /\ account' = [a \in Accounts |-> account'[a]]
      /\ \A a \in Accounts : account'[a] \in Outcomes(a)
  BY DEF SetStatus, Some
<1>3. ASSUME NEW a \in Accounts, a \in DOMAIN wish, NEW n \in 0..3,
             Availability[wish[a].type] <= n
      PROVE  /\ Within(account'[a], n) /\ account'[a].handler = accounts[a].handler
             /\ account'[a].handler => Availability[account'[a].set.type] <= n
  <2>1. account'[a] \in Set(accounts[a], wish[a]) /\ Within(accounts[a], 3) /\ wish[a] \in Status
    BY <1>2, <1>3
  <2> QED BY <1>1, <1>3, <2>1, SetBringsWithin
<1>4. \A a \in Accounts \ DOMAIN wish : account'[a] = accounts[a]
  BY <1>2
<1>5. ASSUME NEW a \in Accounts
      PROVE  account'[a] \in Account /\ account'[a].handler = accounts[a].handler
  <2>1. CASE a \in DOMAIN wish
    <3>1. Availability[wish[a].type] <= 3
      BY <2>1, Available DEF Status
    <3> QED BY <1>3, <2>1, <3>1 DEF Within
  <2> QED BY <1>4, <2>1
<1>6. account' \in [Accounts -> Account]
  <2> HIDE DEF Outcomes
  <2> QED BY <1>2, <1>5
<1>7. stored' = [c \in Containers |-> IF c \in DOMAIN wish THEN wish[c] ELSE stored[c]]
  BY DEF SetStatus
<1>8. stored' \in [Containers -> Status \cup {NeverStored}]
  BY <1>7 DEF TypeOK
<1>9. ASSUME NEW c \in Containers
      PROVE  IF c \in DOMAIN wish THEN LastType(c)' = wish[c].type ELSE LastType(c)' = LastType(c)
  <2>1. CASE c \in DOMAIN wish
    BY <1>7, <2>1, LastTypeOfStored
  <2>2. CASE c \notin DOMAIN wish
    BY <1>7, <2>2 DEF LastType
  <2> QED BY <2>1, <2>2
<1> QED BY <1>3, <1>4, <1>5, <1>6, <1>8, <1>9 DEF Loaded

\* The variables no status depends on keep their types.
OthersOK ==
  /\ SimpleMode \in BOOLEAN /\ AllowSetDefaultStatus \in BOOLEAN /\ OfflineToInvisible \in BOOLEAN
  /\ changer \in BOOLEAN /\ idle \in IdleModes /\ StatusChanged \in BOOLEAN
  /\ chosen \in [Accounts -> StatusTypes]

\* Wishes within the new limits keep the invariant, if what is not wished for
\* is within them already.
LEMMA SetStatusKeeps ==
  ASSUME NEW accounts \in [Accounts -> Account], \A a \in Accounts : Within(accounts[a], 3),
         NEW wish, \A c \in DOMAIN wish : wish[c] \in Status,
         TypeOK, SetStatus(accounts, wish), OthersOK',
         registered' = RegisteredFor(SimpleMode', Loaded(accounts)),
         \A a \in Accounts \cap DOMAIN wish : \A b \in LimitedBy(a)' :
           Availability[wish[a].type] <= Limit(b)',
         \A a \in Accounts \ DOMAIN wish : \A b \in LimitedBy(a)' : Within(accounts[a], Limit(b)'),
         \A a \in (Accounts \cap registered') \ DOMAIN wish :
           Availability[accounts[a].set.type] <= Limit(a)',
         \A a \in Accounts \ DOMAIN wish : Availability[LastType(a)] <= Limit(a)',
         SimpleMode' => \A b \in Accounts :
           Availability[IF Identity \in DOMAIN wish THEN wish[Identity].type
                        ELSE LastType(Identity)] <= Limit(b)'
  PROVE  IInv'
<1>1. \A a \in Accounts : Limit(a)' \in 0..3 /\ a \in LimitedBy(a)' /\ LimitedBy(a)' \subseteq Accounts
  BY LimitRangeNext DEF OthersOK, LimitedBy
<1>2. /\ account' \in [Accounts -> Account]
      /\ Loaded(account') = Loaded(accounts)
      /\ \A a \in Accounts \cap DOMAIN wish : \A n \in 0..3 :
           Availability[wish[a].type] <= n =>
             /\ Within(account'[a], n)
             /\ account'[a].handler => Availability[account'[a].set.type] <= n
      /\ \A a \in Accounts \ DOMAIN wish : account'[a] = accounts[a]
      /\ stored' \in [Containers -> Status \cup {NeverStored}]
      /\ \A c \in Containers : IF c \in DOMAIN wish THEN LastType(c)' = wish[c].type
                               ELSE LastType(c)' = LastType(c)
  BY SetStatusResult
<1>3. registered' = RegisteredFor(SimpleMode', Loaded(account'))
  BY <1>2
<1>4. registered' \subseteq Containers
  BY <1>3 DEF RegisteredFor, Containers, Loaded
<1>5. TypeOK' /\ ContainersFollowMode'
  BY <1>2, <1>3, <1>4 DEF TypeOK, OthersOK, ContainersFollowMode
<1>6. AccountsWithin'
  <2>1. ASSUME NEW a \in Accounts, NEW b \in LimitedBy(a)'
        PROVE  Within(account'[a], Limit(b)')
    BY <1>1, <1>2
  <2> QED BY <2>1 DEF AccountsWithin
<1>7. SetWithin'
  <2>1. ASSUME NEW a \in Accounts, a \in registered'
        PROVE  Availability[account'[a].set.type] <= Limit(a)'
    <3>1. account'[a].handler
      BY <1>3, <2>1, AccountStatusesAssumption DEF RegisteredFor, Loaded, AccountStatusesAssumption
    <3>2. Limit(a)' \in 0..3 /\ a \in LimitedBy(a)'
      BY <1>1
    <3>3. CASE a \in DOMAIN wish
      BY <1>2, <3>1, <3>2, <3>3
    <3>4. CASE a \notin DOMAIN wish
      BY <1>2, <2>1, <3>4
    <3> QED BY <3>3, <3>4
  <2> QED BY <2>1 DEF SetWithin
<1>8. StoredWithin'
  <2>1. ASSUME NEW a \in Accounts
        PROVE  Availability[LastType(a)'] <= Limit(a)'
    <3>1. a \in Containers
      BY DEF Containers
    <3> QED BY <1>1, <1>2, <3>1
  <2>2. ASSUME SimpleMode', NEW b \in Accounts
        PROVE  Availability[LastType(Identity)'] <= Limit(b)'
    <3>1. Identity \in Containers
      BY DEF Containers
    <3> QED BY <1>2, <2>2, <3>1
  <2> QED BY <2>1, <2>2 DEF StoredWithin
<1> QED BY <1>5, <1>6, <1>7, <1>8 DEF IInv

\* The defaults of the containers are within the limits their last statuses
\* are within.
LEMMA SetDefaultKeeps ==
  ASSUME NEW accounts \in [Accounts -> Account], \A a \in Accounts : Within(accounts[a], 3),
         NEW containers \in SUBSET registered',
         TypeOK, SetDefaultStatus(accounts, containers), OthersOK',
         OfflineToInvisible' = OfflineToInvisible,
         registered' = RegisteredFor(SimpleMode', Loaded(accounts)),
         \A a \in Accounts : Availability[LastType(a)] <= Limit(a)',
         SimpleMode' => \A b \in Accounts : Availability[LastType(Identity)] <= Limit(b)',
         \A a \in Accounts : a \notin containers /\ Identity \notin containers =>
           /\ \A b \in LimitedBy(a)' : Within(accounts[a], Limit(b)')
           /\ a \in registered' => Availability[accounts[a].set.type] <= Limit(a)'
  PROVE  IInv'
<1> DEFINE wish == IF Identity \in containers
                   THEN SetByContainer(Identity, DefaultStatus(Identity))
                   ELSE [c \in containers |-> DefaultStatus(c)]
<1>1. Identity \in Containers /\ Identity \notin Accounts /\ Accounts \subseteq Containers
  BY AccountStatusesAssumption DEF Containers, AccountStatusesAssumption
<1>2. containers \subseteq Containers /\ (Identity \in containers => SimpleMode')
      /\ (SimpleMode' => containers \cap Accounts = {})
  BY <1>1 DEF RegisteredFor, Containers, Loaded
<1>3. /\ SetStatus(accounts, wish)
      /\ Identity \in containers => DOMAIN wish = Containers
      /\ Identity \notin containers => DOMAIN wish = containers
      /\ \A c \in DOMAIN wish :
           wish[c] = DefaultStatus(IF Identity \in containers THEN Identity ELSE c)
  BY <1>1 DEF SetDefaultStatus, SetByContainer, Members, Containers
<1> HIDE DEF wish
<1>4. \A c \in DOMAIN wish : wish[c] \in Status
  BY <1>1, <1>2, <1>3, StoredTypes
<1>5. \A b \in Accounts : Limit(b)' \in 0..3 /\ (OfflineToInvisible => 1 <= Limit(b)')
  BY LimitRangeNext DEF OthersOK
<1>6. ASSUME Identity \in containers, NEW b \in Accounts
      PROVE  Availability[DefaultStatus(Identity).type] <= Limit(b)'
  <2>1. Availability[LastType(Identity)] <= Limit(b)'
    BY <1>2, <1>6
  <2> QED BY <1>1, <1>5, <2>1, DefaultIsLimited
<1>7. ASSUME NEW a \in Accounts \cap containers
      PROVE  Availability[DefaultStatus(a).type] <= Limit(a)'
  BY <1>1, <1>5, DefaultIsLimited
<1>8. ASSUME NEW a \in Accounts \cap DOMAIN wish, NEW b \in LimitedBy(a)'
      PROVE  Availability[wish[a].type] <= Limit(b)'
  <2>1. CASE Identity \in containers
    BY <1>3, <1>6, <2>1 DEF LimitedBy
  <2>2. CASE Identity \notin containers
    BY <1>2, <1>3, <1>7, <2>2 DEF LimitedBy
  <2> QED BY <2>1, <2>2
<1>9. \A a \in Accounts \ DOMAIN wish : a \notin containers /\ Identity \notin containers
  BY <1>1, <1>3
<1>10. ASSUME SimpleMode', NEW b \in Accounts
       PROVE  Availability[IF Identity \in DOMAIN wish THEN wish[Identity].type
                           ELSE LastType(Identity)] <= Limit(b)'
  BY <1>1, <1>3, <1>6, <1>10
<1> QED BY <1>3, <1>4, <1>8, <1>9, <1>10, SetStatusKeeps

-----------------------------------------------------------------------------
(* The actions.                                                            *)

LEMMA Facts ==
  ASSUME IInv
  PROVE  /\ TypeOK /\ OthersOK /\ account \in [Accounts -> Account]
         /\ Identity \in Containers /\ Identity \notin Accounts /\ Accounts \subseteq Containers
         /\ \A a \in Accounts : /\ a \in LimitedBy(a) /\ LimitedBy(a) \subseteq Accounts
                               /\ Limit(a) \in 0..3
                               /\ Within(account[a], 3)
         /\ registered = RegisteredFor(SimpleMode, Loaded(account))
         /\ SimpleMode => registered \subseteq {Identity}
         /\ ~SimpleMode => registered = Loaded(account)
<1>1. TypeOK /\ OthersOK /\ account \in [Accounts -> Account]
  BY DEF IInv, TypeOK, OthersOK
<1>2. Identity \in Containers /\ Identity \notin Accounts /\ Accounts \subseteq Containers
  BY AccountStatusesAssumption DEF Containers, AccountStatusesAssumption
<1>3. ASSUME NEW a \in Accounts
      PROVE  /\ a \in LimitedBy(a) /\ LimitedBy(a) \subseteq Accounts
             /\ Limit(a) \in 0..3
             /\ Within(account[a], 3)
  <2>1. a \in LimitedBy(a) /\ LimitedBy(a) \subseteq Accounts
    BY DEF LimitedBy
  <2>2. Within(account[a], Limit(a))
    BY <2>1 DEF IInv, AccountsWithin
  <2> QED BY <1>1, <2>1, <2>2, LimitRange, WithinAny
<1> QED BY <1>1, <1>2, <1>3 DEF IInv, ContainersFollowMode, RegisteredFor

LEMMA FreshIsOffline ==
  ASSUME NEW h \in BOOLEAN
  PROVE  /\ Fresh(h) \in Account /\ Fresh(h).handler = h /\ Fresh(h).set = OfflineStatus
         /\ Fresh(h).real = OfflineStatus /\ Fresh(h).shown = OfflineStatus
  BY OfflineIsStatus DEF Fresh, Account

LEMMA InitIInv == Init => IInv
<1> SUFFICES ASSUME Init PROVE IInv
  OBVIOUS
<1> PICK loaded \in SUBSET Accounts :
       /\ account = [a \in Accounts |-> Fresh(a \in loaded)]
       /\ SimpleMode \in BOOLEAN
       /\ registered = RegisteredFor(SimpleMode, loaded)
  BY DEF Init
<1>1. ASSUME NEW a \in Accounts
      PROVE  /\ account[a] \in Account /\ account[a].set = OfflineStatus
             /\ account[a].real = OfflineStatus /\ account[a].shown = OfflineStatus
             /\ account[a].handler <=> a \in loaded
  <2>1. CASE a \in loaded
    <3>1. account[a] = Fresh(TRUE)
      BY <2>1
    <3> QED BY <2>1, <3>1, FreshIsOffline
  <2>2. CASE a \notin loaded
    <3>1. account[a] = Fresh(FALSE)
      <4>1. account[a] = Fresh(a \in loaded)
        OBVIOUS
      <4>2. (a \in loaded) = FALSE
        BY <2>2
      <4> QED BY <4>1, <4>2, Zenon
    <3> QED BY <2>2, <3>1, FreshIsOffline
  <2> QED BY <2>1, <2>2
<1>2. Loaded(account) = loaded
  BY <1>1 DEF Loaded
<1>3. TypeOK /\ ContainersFollowMode
  BY <1>1, <1>2, AccountStatusesAssumption
     DEF Init, TypeOK, ContainersFollowMode, RegisteredFor, Containers, NeverStored, StatusTypes,
         AccountStatusesAssumption
<1>4. \A c \in Containers : LastType(c) = "Online"
  BY DEF Init, LastType
<1>5. \A a \in Accounts : Limit(a) = 3
  BY Available DEF Init, Limit
<1>6. AccountsWithin
  BY <1>1, <1>5, OfflineWithin, OfflineIsStatus DEF AccountsWithin, LimitedBy
<1>7. SetWithin
  BY <1>1, <1>5, OfflineIsStatus, Available DEF SetWithin
<1>8. StoredWithin
  BY <1>4, <1>5, Available DEF StoredWithin, Containers
<1> QED BY <1>3, <1>6, <1>7, <1>8 DEF IInv

LEMMA InitializedStep == IInv /\ Initialized => IInv'
<1> SUFFICES ASSUME IInv, Initialized PROVE IInv'
  OBVIOUS
<1>1. /\ SetDefaultStatus(account, registered) /\ OthersOK'
      /\ registered' = registered /\ SimpleMode' = SimpleMode
      /\ OfflineToInvisible' = OfflineToInvisible /\ chosen' = chosen
  BY Facts DEF Initialized, OthersOK, autoAwayVars
<1>2. \A a \in Accounts : Limit(a)' = Limit(a) /\ LimitedBy(a)' = LimitedBy(a)
  BY <1>1 DEF Limit, LimitedBy
<1> QED BY <1>1, <1>2, Facts, SetDefaultKeeps DEF IInv, AccountsWithin, SetWithin, StoredWithin

\* A step of one protocol, or of several, that keeps the accounts within.
LEMMA AccountsStep ==
  ASSUME IInv, account' \in [Accounts -> Account], Loaded(account') = Loaded(account),
         \A a \in Accounts : \A b \in LimitedBy(a) : Within(account'[a], Limit(b)),
         \A a \in Accounts \cap registered : Availability[account'[a].set.type] <= Limit(a),
         UNCHANGED <<stored, registered, SimpleMode, OfflineToInvisible, chosen>>, OthersOK'
  PROVE  IInv'
<1>1. \A a \in Accounts : Limit(a)' = Limit(a) /\ LimitedBy(a)' = LimitedBy(a)
                         /\ LimitedBy(a) \subseteq Accounts
  BY DEF Limit, LimitedBy
<1>2. TypeOK' /\ ContainersFollowMode'
  BY DEF IInv, TypeOK, OthersOK, ContainersFollowMode
<1>3. AccountsWithin'
  BY <1>1 DEF AccountsWithin
<1>4. SetWithin'
  BY <1>1 DEF SetWithin
<1>5. StoredWithin'
  BY <1>1 DEF IInv, StoredWithin, LastType
<1> QED BY <1>2, <1>3, <1>4, <1>5 DEF IInv

LEMMA LoginBeginsStep ==
  ASSUME IInv, NEW a \in Accounts, LoginBegins(a)
  PROVE  IInv'
<1>1. /\ account' = [account EXCEPT ![a] = [account[a] EXCEPT !.connecting = TRUE]]
      /\ IsDisconnected(account[a].shown)
      /\ UNCHANGED <<stored, registered, SimpleMode, AllowSetDefaultStatus, OfflineToInvisible,
                     autoAwayVars, chosen>>
  BY DEF LoginBegins, ProtocolStep
<1>2. /\ account' \in [Accounts -> Account]
      /\ \A b \in Accounts : account'[b].handler = account[b].handler
                            /\ account'[b].set = account[b].set
      /\ \A b \in Accounts \ {a} : account'[b] = account[b]
      /\ account'[a].real = account[a].real /\ account'[a].shown = account[a].shown
  BY <1>1, Facts DEF Account
<1>3. \A n : Within(account[a], n) => Within(account'[a], n)
  BY <1>1, <1>2 DEF Within
<1>4. Loaded(account') = Loaded(account) /\ OthersOK'
  BY <1>1, <1>2, Facts DEF Loaded, OthersOK, autoAwayVars
<1> QED BY <1>1, <1>2, <1>3, <1>4, AccountsStep DEF IInv, AccountsWithin, SetWithin

LEMMA LoginSucceedsStep ==
  ASSUME IInv, NEW a \in Accounts, LoginSucceeds(a)
  PROVE  IInv'
<1> DEFINE f == [account[a] EXCEPT !.shown = account[a].real, !.connecting = FALSE]
<1>1. PICK g \in IF f.shown.type = "Invisible" THEN Set(f, f.shown) ELSE {f} :
        account' = [account EXCEPT ![a] = g]
  BY DEF LoginSucceeds, ProtocolStep
<1>2. UNCHANGED <<stored, registered, SimpleMode, AllowSetDefaultStatus, OfflineToInvisible,
                  autoAwayVars, chosen>>
  BY DEF LoginSucceeds, ProtocolStep
<1>3. account[a].handler /\ account[a] \in Account /\ Mode \in IdleModes
  BY Facts DEF LoginSucceeds, ProtocolStep, Mode, IdleModes, OthersOK
<1>4. /\ f \in Account /\ f.handler /\ f.set = account[a].set
      /\ f.shown = account[a].real /\ f.real = account[a].real /\ ~f.connecting
  BY <1>3 DEF Account
<1>5. \A n : Within(account[a], n) => Within(f, n) /\ Availability[f.shown.type] <= n
  BY <1>3, <1>4 DEF Within
<1>6. f.shown \in Status
  BY <1>3, <1>4 DEF Account
<1> HIDE DEF f
<1>7. ASSUME NEW n \in 0..3, Within(account[a], n)
      PROVE  Within(g, n) /\ g.handler
  <2>1. Within(f, n) /\ Within(f, 3) /\ Availability[f.shown.type] <= n
    BY <1>5, <1>7, WithinAny
  <2>2. CASE f.shown.type = "Invisible"
    BY <1>3, <1>4, <1>6, <2>1, <2>2, SetBringsWithin
  <2>3. CASE f.shown.type # "Invisible"
    BY <1>4, <2>1, <2>3
  <2> QED BY <2>2, <2>3
<1>8. ASSUME NEW n \in 0..3, Within(account[a], n), Availability[account[a].set.type] <= n
      PROVE  Availability[g.set.type] <= n
  <2>1. Within(f, 3) /\ Availability[f.shown.type] <= n
    BY <1>5, <1>8, WithinAny
  <2>2. CASE f.shown.type = "Invisible"
    BY <1>3, <1>4, <1>6, <2>1, <2>2, SetBringsWithin
  <2>3. CASE f.shown.type # "Invisible"
    BY <1>4, <1>8, <2>3
  <2> QED BY <2>2, <2>3
<1>9. \A b \in LimitedBy(a) : Limit(b) \in 0..3 /\ Within(account[a], Limit(b))
  BY Facts DEF IInv, AccountsWithin
<1>10. g \in Account /\ g.handler
  BY <1>7, Facts DEF Within
<1>11. /\ account' \in [Accounts -> Account] /\ account'[a] = g
       /\ \A b \in Accounts \ {a} : account'[b] = account[b]
  BY <1>1, <1>10, Facts
<1>12. Loaded(account') = Loaded(account) /\ OthersOK'
  BY <1>2, <1>3, <1>10, <1>11, Facts DEF Loaded, OthersOK, autoAwayVars
<1>13. \A b \in Accounts : \A c \in LimitedBy(b) : Within(account'[b], Limit(c))
  BY <1>7, <1>9, <1>11 DEF IInv, AccountsWithin
<1>14. \A b \in Accounts \cap registered : Availability[account'[b].set.type] <= Limit(b)
  BY <1>8, <1>9, <1>11, Facts DEF IInv, SetWithin
<1> QED BY <1>2, <1>11, <1>12, <1>13, <1>14, AccountsStep

LEMMA ConnectionLostStep ==
  ASSUME IInv, NEW a \in Accounts, ConnectionLost(a)
  PROVE  IInv'
<1>1. PICK g \in {GivenUp(account[a]),
                   [account[a] EXCEPT !.shown = OfflineStatus, !.connecting = TRUE]} :
        account' = [account EXCEPT ![a] = g]
  BY DEF ConnectionLost, ProtocolStep
<1>2. UNCHANGED <<stored, registered, SimpleMode, AllowSetDefaultStatus, OfflineToInvisible,
                  autoAwayVars, chosen>>
  BY DEF ConnectionLost, ProtocolStep
<1>3. account[a].handler /\ account[a] \in Account
  BY Facts DEF ConnectionLost, ProtocolStep
<1>4. /\ g \in Account /\ g.handler /\ g.shown = OfflineStatus
      /\ \/ g.real = OfflineStatus /\ g.set = OfflineStatus
         \/ g.real = account[a].real /\ g.set = account[a].set
  BY <1>3, OfflineIsStatus DEF Account, GivenUp
<1>5. Availability[OfflineStatus.type] = 0 /\ IsDisconnected(OfflineStatus)
  BY OfflineIsStatus, Available
<1>6. ASSUME NEW n \in 0..3, Within(account[a], n)
      PROVE  Within(g, n)
  BY <1>4, <1>5, <1>6 DEF Within
<1>7. \A b \in LimitedBy(a) : Limit(b) \in 0..3 /\ Within(account[a], Limit(b))
  BY Facts DEF IInv, AccountsWithin
<1>8. /\ account' \in [Accounts -> Account] /\ account'[a] = g
      /\ \A b \in Accounts \ {a} : account'[b] = account[b]
  BY <1>1, <1>4, Facts
<1>9. Loaded(account') = Loaded(account) /\ OthersOK'
  BY <1>2, <1>3, <1>4, <1>8, Facts DEF Loaded, OthersOK, autoAwayVars
<1>10. \A b \in Accounts : \A c \in LimitedBy(b) : Within(account'[b], Limit(c))
  BY <1>6, <1>7, <1>8 DEF IInv, AccountsWithin
<1>11. \A b \in Accounts \cap registered : Availability[account'[b].set.type] <= Limit(b)
  BY <1>4, <1>5, <1>8, Facts DEF IInv, SetWithin
<1> QED BY <1>2, <1>8, <1>9, <1>10, <1>11, AccountsStep

\* What is registered is changed anew.
LEMMA VisitedResult ==
  ASSUME IInv, NEW mode \in IdleModes, NEW accounts \in Some(Visited(mode))
  PROVE  /\ accounts \in [Accounts -> Account] /\ Loaded(accounts) = Loaded(account)
         /\ \A a \in Accounts : \A b \in LimitedBy(a) : Within(accounts[a], Limit(b))
         /\ \A a \in Accounts \cap registered : Availability[accounts[a].set.type] <= Limit(a)
<1>1. /\ accounts = [a \in Accounts |-> accounts[a]]
      /\ \A a \in Accounts : accounts[a] \in Visited(mode)[a]
  BY DEF Some
<1>2. ASSUME NEW a \in Accounts, a \in registered
      PROVE  /\ LimitedBy(a) = {a}
             /\ Within(accounts[a], Limit(a)) /\ accounts[a].handler = account[a].handler
             /\ Availability[accounts[a].set.type] <= Limit(a)
  <2>1. ~SimpleMode /\ account[a].handler
    BY <1>2, Facts DEF Loaded, OthersOK
  <2>2. accounts[a] \in Announced(account[a], Changed(mode, account[a].set))
    BY <1>1, <1>2 DEF Visited
  <2>3. Availability[account[a].set.type] <= Limit(a)
    BY <1>2 DEF IInv, SetWithin
  <2>4. Within(accounts[a], Limit(a)) /\ accounts[a].handler /\ Availability[accounts[a].set.type] <= Limit(a)
    BY <2>1, <2>2, <2>3, Facts, VisitedWithin
  <2>5. account[a].handler \in BOOLEAN /\ accounts[a].handler \in BOOLEAN
    BY <2>4, Facts DEF Within, Account
  <2> QED BY <2>1, <2>4, <2>5 DEF LimitedBy
<1>3. \A a \in Accounts : a \notin registered => accounts[a] = account[a]
  BY <1>1 DEF Visited
<1>4. \A a \in Accounts : accounts[a] \in Account /\ accounts[a].handler = account[a].handler
  BY <1>2, <1>3, Facts DEF Within
<1>5. accounts \in [Accounts -> Account]
  BY <1>1, <1>4
<1>6. Loaded(accounts) = Loaded(account)
  BY <1>4 DEF Loaded
<1>7. ASSUME NEW a \in Accounts, NEW b \in LimitedBy(a)
      PROVE  Within(accounts[a], Limit(b))
  BY <1>2, <1>3 DEF IInv, AccountsWithin
<1> QED BY <1>2, <1>5, <1>6, <1>7

LEMMA IdleSteps ==
  ASSUME IInv, UserModes \subseteq IdleModes,
         IdleTimePasses \/ CheckIdleTime \/ AutoAwayComesOrGoes
  PROVE  IInv'
<1>1. CASE IdleTimePasses
  <2>1. idle' \in IdleModes /\ account' = account
        /\ UNCHANGED <<stored, registered, SimpleMode, AllowSetDefaultStatus, OfflineToInvisible,
                       changer, StatusChanged, chosen>>
    BY <1>1 DEF IdleTimePasses
  <2>2. OthersOK'
    BY <2>1, Facts DEF OthersOK
  <2> QED BY <2>1, <2>2, Facts, AccountsStep DEF IInv, AccountsWithin, SetWithin
<1>2. CASE CheckIdleTime
  <2>1. idle \in IdleModes
    BY Facts DEF OthersOK
  <2>2. account' \in Some(Visited(idle)) /\ OthersOK'
        /\ UNCHANGED <<stored, registered, SimpleMode, OfflineToInvisible, chosen>>
    BY <1>2, Facts DEF CheckIdleTime, OthersOK
  <2> QED BY <2>1, <2>2, VisitedResult, AccountsStep
<1>3. CASE AutoAwayComesOrGoes
  <2> DEFINE mode == IF changer' THEN idle ELSE "NoChange"
  <2>1. mode \in IdleModes
    BY Facts DEF OthersOK, IdleModes
  <2>2. account' \in Some(Visited(mode)) /\ OthersOK'
        /\ UNCHANGED <<stored, registered, SimpleMode, OfflineToInvisible, chosen>>
    BY <1>3, Facts DEF AutoAwayComesOrGoes, OthersOK
  <2> HIDE DEF mode
  <2> QED BY <2>1, <2>2, VisitedResult, AccountsStep
<1> QED BY <1>1, <1>2, <1>3

LEMMA UserSetsTypeStep ==
  ASSUME IInv, UserTypes \subseteq StatusTypes, NEW c \in Containers, NEW type \in UserTypes,
         UserSetsType(c, type)
  PROVE  IInv'
<1> DEFINE Wish(s) == SetByContainer(c, [s EXCEPT !.type = type])
<1>1. PICK s \in ShownBy(c) : SetStatus(account, Wish(s))
  BY DEF UserSetsType
<1>2. s \in Status
  BY <1>1, Facts DEF ShownBy, Loaded, Containers, Account
<1>3. /\ DOMAIN Wish(s) = {c} \cup Members(c)
      /\ \A x \in {c} \cup Members(c) : Wish(s)[x] \in Status /\ Wish(s)[x].type = type
  BY <1>2 DEF SetByContainer, Status
<1>4. /\ c \in registered /\ chosen' = [a \in Accounts |-> IF a \in Members(c) THEN type ELSE chosen[a]]
      /\ UNCHANGED <<registered, SimpleMode, OfflineToInvisible>> /\ OthersOK'
  BY Facts DEF UserSetsType, OthersOK, autoAwayVars
<1> HIDE DEF Wish
<1>5. \A a \in Accounts : LimitedBy(a)' = LimitedBy(a) /\ Limit(a)' \in 0..3
  BY <1>4, LimitRangeNext DEF LimitedBy, OthersOK
<1>6. ASSUME NEW a \in Accounts, a \in Members(c)
      PROVE  Availability[type] <= Limit(a)'
  <2>1. chosen'[a] = type
    BY <1>4, <1>6
  <2> QED BY <1>4, <2>1, LimitRangeNext DEF OthersOK
<1>7. CASE c = Identity
  <2>1. SimpleMode /\ {c} \cup Members(c) = {Identity} \cup Accounts /\ Members(c) = Accounts
    BY <1>4, <1>7, Facts DEF Members, Loaded, OthersOK
  <2>2. \A a \in Accounts : \A b \in LimitedBy(a)' : Availability[Wish(s)[a].type] <= Limit(b)'
    BY <1>3, <1>5, <1>6, <2>1, Facts
  <2> QED BY <1>1, <1>3, <1>4, <1>6, <2>1, <2>2, Facts, SetStatusKeeps
<1>8. CASE c # Identity
  <2>1. ~SimpleMode /\ c \in Accounts /\ {c} \cup Members(c) = {c} /\ c \in Members(c)
    BY <1>4, <1>8, Facts DEF Members, Containers, OthersOK
  <2>2. \A a \in Accounts : LimitedBy(a)' = {a}
    BY <1>4, <2>1 DEF LimitedBy
  <2>3. ASSUME NEW a \in Accounts \ {c}
        PROVE  Limit(a)' = Limit(a)
    BY <1>4, <1>8 DEF Limit, Members
  <2>4. Availability[Wish(s)[c].type] <= Limit(c)'
    <3>1. Wish(s)[c].type = type
      BY <1>3
    <3>2. Availability[type] <= Limit(c)'
      BY <1>6, <2>1
    <3> QED BY <3>1, <3>2
  <2>5. \A a \in Accounts \ {c} : \A b \in LimitedBy(a)' : Within(account[a], Limit(b)')
    BY <1>5, <2>2, <2>3 DEF IInv, AccountsWithin
  <2>6. \A a \in Accounts \ {c} : Availability[LastType(a)] <= Limit(a)'
    BY <2>3 DEF IInv, StoredWithin
  <2>7. \A a \in (Accounts \cap registered') \ {c} : Availability[account[a].set.type] <= Limit(a)'
    BY <1>4, <2>3 DEF IInv, SetWithin
  <2> QED BY <1>1, <1>3, <1>4, <2>1, <2>2, <2>4, <2>5, <2>6, <2>7, Facts, SetStatusKeeps
<1> QED BY <1>7, <1>8

LEMMA UserSetsDescriptionStep ==
  ASSUME IInv, NEW c \in Containers, NEW d \in Descriptions, UserSetsDescription(c, d)
  PROVE  IInv'
<1> DEFINE Wish(s) == SetByContainer(c, [s EXCEPT !.description = d])
<1>1. PICK s \in ShownBy(c) : SetStatus(account, Wish(s))
  BY DEF UserSetsDescription
<1>2. PICK a0 \in Accounts : s = account[a0].shown /\ (c # Identity => a0 = c)
  BY <1>1 DEF ShownBy, Loaded, Containers
<1>3. s \in Status
  BY <1>2, Facts DEF Account
<1>4. /\ DOMAIN Wish(s) = {c} \cup Members(c)
      /\ \A x \in {c} \cup Members(c) : Wish(s)[x] \in Status /\ Wish(s)[x].type = s.type
  BY <1>3 DEF SetByContainer, Status
<1>5. /\ c \in registered
      /\ UNCHANGED <<registered, SimpleMode, OfflineToInvisible, chosen>> /\ OthersOK'
  BY Facts DEF UserSetsDescription, OthersOK, autoAwayVars
<1> HIDE DEF Wish
<1>6. \A a \in Accounts : LimitedBy(a)' = LimitedBy(a) /\ Limit(a)' = Limit(a)
                         /\ LimitedBy(a) \subseteq Accounts
  BY <1>5 DEF LimitedBy, Limit
<1>7. \A b \in LimitedBy(a0) : Availability[s.type] <= Limit(b)
  BY <1>2 DEF IInv, AccountsWithin, Within
<1>8. CASE c = Identity
  <2>1. SimpleMode /\ {c} \cup Members(c) = {Identity} \cup Accounts
    BY <1>5, <1>8, Facts DEF Members, Loaded, OthersOK
  <2>2. \A b \in Accounts : Availability[s.type] <= Limit(b)
    BY <1>7, <2>1 DEF LimitedBy
  <2>3. \A a \in Accounts : \A b \in LimitedBy(a)' : Availability[Wish(s)[a].type] <= Limit(b)'
    BY <1>4, <1>6, <2>1, <2>2
  <2>4. Availability[Wish(s)[Identity].type] = Availability[s.type]
    BY <1>4, <2>1
  <2> DEFINE wish == Wish(s)
  <2>5. /\ SetStatus(account, wish) /\ Accounts \ DOMAIN wish = {}
        /\ (Accounts \cap registered') \ DOMAIN wish = {}
        /\ Identity \in DOMAIN wish /\ \A x \in DOMAIN wish : wish[x] \in Status
    BY <1>1, <1>4, <2>1
  <2>6. \A a \in Accounts \cap DOMAIN wish : \A b \in LimitedBy(a)' :
          Availability[wish[a].type] <= Limit(b)'
    BY <2>3
  <2>7. \A b \in Accounts : Availability[wish[Identity].type] <= Limit(b)'
    BY <1>6, <2>2, <2>4
  <2>8. /\ TypeOK /\ OthersOK' /\ account \in [Accounts -> Account]
        /\ \A a \in Accounts : Within(account[a], 3)
        /\ registered' = RegisteredFor(SimpleMode', Loaded(account))
    BY <1>5, Facts
  <2> HIDE DEF wish
  <2> QED BY <2>5, <2>6, <2>7, <2>8, SetStatusKeeps
<1>9. CASE c # Identity
  <2>1. ~SimpleMode /\ c \in Accounts /\ {c} \cup Members(c) = {c}
    BY <1>5, <1>9, Facts DEF Members, Containers, OthersOK
  <2>2. \A a \in Accounts : LimitedBy(a)' = {a} /\ LimitedBy(a) = {a}
    BY <1>5, <2>1 DEF LimitedBy
  <2>3. Availability[Wish(s)[c].type] <= Limit(c)'
    BY <1>2, <1>4, <1>6, <1>7, <1>9, <2>1, <2>2
  <2>4. \A a \in Accounts \ {c} : \A b \in LimitedBy(a)' : Within(account[a], Limit(b)')
    BY <1>6 DEF IInv, AccountsWithin
  <2>5. \A a \in Accounts \ {c} : Availability[LastType(a)] <= Limit(a)'
    BY <1>6 DEF IInv, StoredWithin
  <2>6. \A a \in (Accounts \cap registered') \ {c} : Availability[account[a].set.type] <= Limit(a)'
    BY <1>5, <1>6 DEF IInv, SetWithin
  <2> QED BY <1>1, <1>4, <1>5, <2>1, <2>2, <2>3, <2>4, <2>5, <2>6, Facts, SetStatusKeeps
<1> QED BY <1>8, <1>9

LEMMA UserChangesModeStep ==
  ASSUME IInv, UserChangesMode
  PROVE  IInv'
<1>1. /\ SimpleMode' = ~SimpleMode /\ registered' = RegisteredFor(SimpleMode', Loaded(account))
      /\ SetDefaultStatus(account, registered') /\ OfflineToInvisible' = OfflineToInvisible
      /\ chosen' = [a \in Accounts |-> IF SimpleMode' THEN MoreAvailable(chosen[a], LastType(Identity))
                                      ELSE chosen[a]]
      /\ UNCHANGED <<AllowSetDefaultStatus, autoAwayVars>>
  BY DEF UserChangesMode
<1>2. LastType(Identity) \in StatusTypes
  BY Facts, StoredTypes
<1>3. ASSUME NEW a \in Accounts
      PROVE  /\ chosen'[a] \in StatusTypes
             /\ Limit(a) <= Limit(a)'
             /\ SimpleMode' => Availability[LastType(Identity)] <= Limit(a)'
  <2>1. chosen[a] \in StatusTypes
    BY Facts DEF OthersOK
  <2>2. CASE SimpleMode'
    <3>1. chosen'[a] = MoreAvailable(chosen[a], LastType(Identity))
      BY <1>1, <2>2
    <3> QED BY <1>1, <1>2, <2>1, <2>2, <3>1, Available DEF MoreAvailable, Limit
  <2>3. CASE ~SimpleMode'
    <3>1. chosen'[a] = chosen[a]
      BY <1>1, <2>3
    <3>2. Limit(a)' = Limit(a) /\ Limit(a) \in 0..3
      BY <1>1, <3>1, Facts DEF Limit
    <3> QED BY <2>1, <2>3, <3>1, <3>2
  <2> QED BY <2>2, <2>3
<1>4. OthersOK'
  <2>1. chosen' \in [Accounts -> StatusTypes]
    BY <1>1, <1>3
  <2> QED BY <1>1, <2>1, Facts DEF OthersOK, autoAwayVars
<1>5. \A a \in Accounts : Limit(a) \in 0..3 /\ Limit(a)' \in 0..3 /\ LimitedBy(a)' \subseteq Accounts
  BY <1>4, Facts, LimitRangeNext DEF OthersOK, LimitedBy
<1>6. \A a \in Accounts : Availability[LastType(a)] <= Limit(a)'
  <2>1. \A a \in Accounts : Availability[LastType(a)] \in 0..3
    BY Facts, StoredTypes, Available
  <2> QED BY <1>3, <1>5, <2>1 DEF IInv, StoredWithin
<1>7. ASSUME NEW a \in Accounts, a \notin registered', Identity \notin registered'
      PROVE  \A b \in LimitedBy(a)' : Within(account[a], Limit(b)')
  <2>1. ~account[a].handler
    BY <1>1, <1>7 DEF RegisteredFor, Loaded
  <2>2. account[a] \in Account /\ IsDisconnected(account[a].real) /\ IsDisconnected(account[a].shown)
    BY <2>1, Facts DEF Within
  <2> QED BY <1>5, <2>2, OfflineWithin
<1> QED BY <1>1, <1>3, <1>4, <1>6, <1>7, Facts, SetDefaultKeeps

LEMMA LoadProtocolStep ==
  ASSUME IInv, NEW a \in Accounts, LoadProtocol(a)
  PROVE  IInv'
<1> DEFINE accounts == [account EXCEPT ![a] = [@ EXCEPT !.handler = TRUE, !.shown = OfflineStatus]]
<1>1. /\ ~account[a].handler
      /\ registered' = RegisteredFor(SimpleMode, Loaded(accounts))
      /\ SetDefaultStatus(accounts, registered' \ registered)
      /\ UNCHANGED <<SimpleMode, OfflineToInvisible, chosen>> /\ OthersOK'
  BY Facts DEF LoadProtocol, OthersOK, autoAwayVars
<1>2. /\ accounts \in [Accounts -> Account]
      /\ accounts[a].handler /\ accounts[a].shown = OfflineStatus /\ accounts[a].real = account[a].real
      /\ \A b \in Accounts \ {a} : accounts[b] = account[b]
  BY Facts, OfflineIsStatus DEF Account
<1> HIDE DEF accounts
<1>3. \A b \in Accounts : Limit(b)' = Limit(b) /\ LimitedBy(b)' = LimitedBy(b)
                         /\ LimitedBy(b) \subseteq Accounts /\ Limit(b) \in 0..3
  BY <1>1, Facts DEF Limit, LimitedBy
<1>4. \A n \in 0..3 : Within(accounts[a], n)
  <2>1. IsDisconnected(accounts[a].real) /\ IsDisconnected(accounts[a].shown)
    BY <1>1, <1>2, Facts, OfflineIsStatus DEF Within
  <2> QED BY <1>2, <2>1, OfflineWithin
<1>5. \A b \in Accounts : Within(accounts[b], 3)
  BY <1>2, <1>4, Facts
<1>6. \A b \in Accounts : \A c \in LimitedBy(b)' : Within(accounts[b], Limit(c)')
  BY <1>2, <1>3, <1>4 DEF IInv, AccountsWithin
<1>7. ASSUME NEW b \in Accounts, b \notin registered' \ registered, b \in registered'
      PROVE  Availability[accounts[b].set.type] <= Limit(b)'
  <2>1. b \in registered /\ b # a
    BY <1>1, <1>7, Facts DEF RegisteredFor, Loaded, OthersOK
  <2> QED BY <1>2, <1>3, <2>1 DEF IInv, SetWithin
<1>8. \A b \in Accounts : Availability[LastType(b)] <= Limit(b)'
  BY <1>3 DEF IInv, StoredWithin
<1>9. SimpleMode' => \A b \in Accounts : Availability[LastType(Identity)] <= Limit(b)'
  BY <1>1, <1>3 DEF IInv, StoredWithin
<1>10. TypeOK /\ registered' = RegisteredFor(SimpleMode', Loaded(accounts))
       /\ OfflineToInvisible' = OfflineToInvisible
  BY <1>1, Facts
<1> QED BY <1>1, <1>2, <1>5, <1>6, <1>7, <1>8, <1>9, <1>10, SetDefaultKeeps

LEMMA UnloadProtocolStep ==
  ASSUME IInv, NEW a \in Accounts, UnloadProtocol(a)
  PROVE  IInv'
<1>1. /\ stored' = [stored EXCEPT ![a] = account[a].real]
      /\ account' = [account EXCEPT ![a] = Unloaded(account[a])]
      /\ registered' = RegisteredFor(SimpleMode, Loaded(account'))
      /\ UNCHANGED <<SimpleMode, OfflineToInvisible, chosen>> /\ OthersOK'
  BY Facts DEF UnloadProtocol, OthersOK, autoAwayVars
<1>2. account[a] \in Account
  BY Facts
<1>3. /\ Unloaded(account[a]) \in Account /\ ~Unloaded(account[a]).handler
      /\ IsDisconnected(Unloaded(account[a]).real) /\ IsDisconnected(Unloaded(account[a]).shown)
  <2>1. CASE IsDisconnected(account[a].real)
    BY <1>2, <2>1, OfflineIsStatus DEF Unloaded, Account
  <2>2. CASE ~IsDisconnected(account[a].real)
    BY <1>2, <2>2, OfflineIsStatus DEF Unloaded, Account
  <2> QED BY <2>1, <2>2
<1>4. /\ account' \in [Accounts -> Account] /\ account'[a] = Unloaded(account[a])
      /\ \A b \in Accounts \ {a} : account'[b] = account[b]
  BY <1>1, <1>3, Facts
<1>5. \A b \in Accounts : Limit(b)' = Limit(b) /\ LimitedBy(b)' = LimitedBy(b)
                         /\ LimitedBy(b) \subseteq Accounts /\ Limit(b) \in 0..3
  BY <1>1, Facts DEF Limit, LimitedBy
<1>6. TypeOK' /\ ContainersFollowMode'
  <2>1. stored' \in [Containers -> Status \cup {NeverStored}]
    BY <1>1, <1>2, Facts DEF TypeOK, Account
  <2>2. registered' \subseteq Containers
    BY <1>1 DEF RegisteredFor, Containers, Loaded
  <2> QED BY <1>1, <1>4, <2>1, <2>2 DEF TypeOK, OthersOK, ContainersFollowMode
<1>7. AccountsWithin'
  <2>1. ASSUME NEW b \in Accounts, NEW c \in LimitedBy(b)
        PROVE  Within(account'[b], Limit(c))
    <3>1. CASE b = a
      BY <1>3, <1>4, <1>5, <2>1, <3>1, OfflineWithin
    <3>2. CASE b # a
      BY <1>4, <2>1, <3>2 DEF IInv, AccountsWithin
    <3> QED BY <3>1, <3>2
  <2> QED BY <1>5, <2>1 DEF AccountsWithin
<1>8. SetWithin'
  <2>1. ASSUME NEW b \in Accounts, b \in registered'
        PROVE  Availability[account'[b].set.type] <= Limit(b)
    <3>1. ~SimpleMode /\ account'[b].handler
      BY <1>1, <2>1, Facts DEF RegisteredFor, Loaded, OthersOK
    <3>2. b # a
      BY <1>3, <1>4, <3>1
    <3>3. b \in registered /\ account'[b] = account[b]
      BY <1>4, <3>1, <3>2, Facts DEF Loaded
    <3> QED BY <3>3 DEF IInv, SetWithin
  <2> QED BY <1>5, <2>1 DEF SetWithin
<1>9. StoredWithin'
  <2>1. LastType(a)' = account[a].real.type /\ Availability[account[a].real.type] <= Limit(a)
    <3>1. stored'[a] = account[a].real /\ stored'[a] \in Status /\ a \in Containers
      BY <1>1, <1>2, Facts DEF TypeOK, Account
    <3>2. Availability[account[a].real.type] <= Limit(a)
      BY Facts DEF IInv, AccountsWithin, Within
    <3> QED BY <3>1, <3>2, LastTypeOfStored
  <2>2. \A c \in Containers \ {a} : LastType(c)' = LastType(c)
    BY <1>1, Facts DEF TypeOK, LastType
  <2> QED BY <1>1, <1>5, <2>1, <2>2, Facts DEF IInv, StoredWithin
<1> QED BY <1>6, <1>7, <1>8, <1>9 DEF IInv

\* The next start finds what is stored within the limits, and everybody offline.
LEMMA StartAgainStep ==
  ASSUME IInv, StartAgain, stored' \in [Containers -> Status \cup {NeverStored}],
         \A a \in Accounts : Availability[LastType(a)'] <= Limit(a),
         LastType(Identity)' = LastType(Identity)
  PROVE  IInv'
<1>1. PICK loaded \in SUBSET Accounts : /\ account' = [a \in Accounts |-> Fresh(a \in loaded)]
                                        /\ registered' = RegisteredFor(SimpleMode, loaded)
  BY DEF StartAgain
<1>2. UNCHANGED <<SimpleMode, OfflineToInvisible, chosen>> /\ OthersOK'
  BY Facts DEF StartAgain, OthersOK
<1>3. ASSUME NEW a \in Accounts
      PROVE  /\ account'[a] \in Account /\ account'[a].set = OfflineStatus
             /\ account'[a].real = OfflineStatus /\ account'[a].shown = OfflineStatus
             /\ account'[a].handler <=> a \in loaded
  <2>1. CASE a \in loaded
    <3>1. account'[a] = Fresh(TRUE)
      BY <1>1, <2>1
    <3> QED BY <2>1, <3>1, FreshIsOffline
  <2>2. CASE a \notin loaded
    <3>1. account'[a] = Fresh(FALSE)
      <4>1. account'[a] = Fresh(a \in loaded)
        BY <1>1
      <4>2. (a \in loaded) = FALSE
        BY <2>2
      <4> QED BY <4>1, <4>2, Zenon
    <3> QED BY <2>2, <3>1, FreshIsOffline
  <2> QED BY <2>1, <2>2
<1>4. Loaded(account') = loaded
  BY <1>3 DEF Loaded
<1>5. account' \in [Accounts -> Account] /\ registered' \subseteq Containers
  BY <1>1, <1>3 DEF RegisteredFor, Containers
<1>6. TypeOK' /\ ContainersFollowMode'
  BY <1>1, <1>2, <1>4, <1>5 DEF TypeOK, OthersOK, ContainersFollowMode
<1>7. \A a \in Accounts : Limit(a)' = Limit(a) /\ LimitedBy(a)' = LimitedBy(a)
                         /\ LimitedBy(a) \subseteq Accounts /\ Limit(a) \in 0..3
  BY <1>2, Facts DEF Limit, LimitedBy
<1>8. AccountsWithin'
  BY <1>3, <1>7, OfflineWithin, OfflineIsStatus DEF AccountsWithin
<1>9. SetWithin'
  BY <1>3, <1>7, OfflineIsStatus, Available DEF SetWithin
<1>10. StoredWithin'
  BY <1>2, <1>7 DEF IInv, StoredWithin
<1> QED BY <1>6, <1>8, <1>9, <1>10 DEF IInv

LEMMA CrashStep ==
  ASSUME IInv, Crash
  PROVE  IInv'
<1>1. StartAgain /\ stored' = stored
  BY DEF Crash
<1>2. \A c \in Containers : LastType(c)' = LastType(c)
  BY <1>1 DEF LastType
<1> QED BY <1>1, <1>2, Facts, StartAgainStep DEF IInv, TypeOK, StoredWithin

LEMMA ExitStep ==
  ASSUME IInv, Exit
  PROVE  IInv'
<1>1. PICK accounts \in AutoAwayGoesFirst :
        stored' = [c \in Containers |-> IF c \in Loaded(account) THEN accounts[c].real ELSE stored[c]]
  BY DEF Exit
<1>2. StartAgain
  BY DEF Exit
<1>3. /\ accounts \in [Accounts -> Account]
      /\ \A a \in Accounts : \A b \in LimitedBy(a) : Within(accounts[a], Limit(b))
  <2>1. CASE changer
    <3>1. accounts \in Some(Visited("NoChange")) /\ "NoChange" \in IdleModes
      BY <1>1, <2>1 DEF AutoAwayGoesFirst, IdleModes
    <3> QED BY <3>1, VisitedResult
  <2>2. CASE ~changer
    BY <1>1, <2>2, Facts DEF AutoAwayGoesFirst, IInv, AccountsWithin
  <2> QED BY <2>1, <2>2
<1>4. stored' \in [Containers -> Status \cup {NeverStored}]
  <2>1. \A a \in Accounts : accounts[a].real \in Status
    BY <1>3 DEF Account
  <2>2. stored \in [Containers -> Status \cup {NeverStored}] /\ Loaded(account) \subseteq Accounts
    BY Facts DEF TypeOK, Loaded
  <2> QED BY <1>1, <2>1, <2>2
<1>5. ASSUME NEW a \in Accounts
      PROVE  Availability[LastType(a)'] <= Limit(a)
  <2>1. a \in Containers /\ a \in LimitedBy(a)
    BY Facts
  <2>2. CASE a \in Loaded(account)
    <3>1. stored'[a] = accounts[a].real /\ accounts[a].real \in Status
      BY <1>1, <1>3, <2>1, <2>2 DEF Account
    <3>2. Availability[accounts[a].real.type] <= Limit(a)
      BY <1>3, <2>1 DEF Within
    <3> QED BY <2>1, <3>1, <3>2, LastTypeOfStored
  <2>3. CASE a \notin Loaded(account)
    <3>1. LastType(a)' = LastType(a)
      BY <1>1, <2>1, <2>3 DEF LastType
    <3> QED BY <3>1 DEF IInv, StoredWithin
  <2> QED BY <2>2, <2>3
<1>6. LastType(Identity)' = LastType(Identity)
  <2>1. Identity \in Containers /\ Identity \notin Loaded(account)
    BY Facts DEF Loaded
  <2> QED BY <1>1, <2>1 DEF LastType
<1> QED BY <1>2, <1>4, <1>5, <1>6, StartAgainStep

LEMMA Step == IInv /\ [Next]_vars => IInv'
<1> SUFFICES ASSUME IInv, [Next]_vars PROVE IInv'
  OBVIOUS
<1> USE AccountStatusesAssumption DEF AccountStatusesAssumption
<1>1. CASE Initialized
  BY <1>1, InitializedStep
<1>2. ASSUME NEW c \in Containers, NEW type \in UserTypes, UserSetsType(c, type)
      PROVE  IInv'
  BY <1>2, UserSetsTypeStep
<1>3. ASSUME NEW c \in Containers, NEW d \in Descriptions, UserSetsDescription(c, d)
      PROVE  IInv'
  BY <1>3, UserSetsDescriptionStep
<1>4. CASE UserChangesMode
  BY <1>4, UserChangesModeStep
<1>5. ASSUME NEW a \in Accounts, LoadProtocol(a)
      PROVE  IInv'
  BY <1>5, LoadProtocolStep
<1>6. ASSUME NEW a \in Accounts, UnloadProtocol(a)
      PROVE  IInv'
  BY <1>6, UnloadProtocolStep
<1>7. ASSUME NEW a \in Accounts, LoginBegins(a) \/ LoginSucceeds(a) \/ ConnectionLost(a)
      PROVE  IInv'
  BY <1>7, LoginBeginsStep, LoginSucceedsStep, ConnectionLostStep
<1>8. CASE IdleTimePasses \/ CheckIdleTime \/ AutoAwayComesOrGoes
  BY <1>8, IdleSteps
<1>9. CASE Exit \/ Crash
  BY <1>9, ExitStep, CrashStep
<1>10. CASE UNCHANGED vars
  <2>1. UNCHANGED <<account, stored, registered, SimpleMode, OfflineToInvisible, chosen>> /\ OthersOK'
    BY <1>10, Facts DEF vars, autoAwayVars, OthersOK
  <2> QED BY <2>1, Facts, AccountsStep DEF IInv, AccountsWithin, SetWithin
<1> QED BY <1>1, <1>2, <1>3, <1>4, <1>5, <1>6, <1>7, <1>8, <1>9, <1>10 DEF Next, Running

-----------------------------------------------------------------------------
(* The theorems.                                                           *)

\* The limits on accounts, on what is set and on what is stored are kept by
\* every call, in both modes.
THEOREM StatusesInvariance == Spec => []IInv
  BY InitIInv, Step, PTL DEF Spec

\* Accounts, containers and options keep their types.
THEOREM StatusesTypeCorrect == Spec => []TypeOK
<1>1. IInv => TypeOK
  BY DEF IInv
<1> QED BY <1>1, StatusesInvariance, PTL

\* StatusContainerManager: what is registered are the accounts with a protocol
\* or, in simple mode, the identity, however modes and protocols change.
THEOREM ContainersAlwaysFollowMode == Spec => []ContainersFollowMode
<1>1. IInv => ContainersFollowMode
  BY DEF IInv
<1> QED BY <1>1, StatusesInvariance, PTL

\* No sequence of idleness, mode changes, reloaded protocols, logins, lost
\* connections, exits and crashes shows, follows or remembers a status more
\* available than the user's choice.
THEOREM NobodyBecomesMoreAvailable == Spec => []NeverMoreAvailable
<1>1. ASSUME IInv
      PROVE  NeverMoreAvailable
  <2>1. ASSUME NEW a \in Accounts
        PROVE  /\ Availability[account[a].real.type] <= Limit(a)
               /\ Availability[account[a].shown.type] <= Limit(a)
               /\ Availability[LastType(IF SimpleMode THEN Identity ELSE a)] <= Limit(a)
    <3>1. Within(account[a], Limit(a))
      BY <1>1, Facts DEF IInv, AccountsWithin
    <3>2. Availability[LastType(IF SimpleMode THEN Identity ELSE a)] <= Limit(a)
      BY <1>1 DEF IInv, StoredWithin
    <3> QED BY <3>1, <3>2 DEF Within
  <2> QED BY <2>1 DEF NeverMoreAvailable
<1> QED BY <1>1, StatusesInvariance, PTL

-----------------------------------------------------------------------------
(* What is stored at the end.                                              *)

\* An account follows the status s that is stored for it: what was set is s,
\* unless the protocol gave up, and what it follows is what was set, unless it
\* is offline or auto-away is there to have lowered it.
Follows(f, s, away) ==
  /\ f.set = s \/ IsDisconnected(f.set)
  /\ f.real = f.set \/ IsDisconnected(f.real) \/ (away /\ f.real.type # "Invisible")

AllFollow ==
  /\ idle \in UserModes
  /\ AllowSetDefaultStatus =>
       \A a \in Accounts \cap registered : Follows(account[a], stored[a], changer)

\* What an account follows once a status was announced for it.
LEMMA AnnouncedSets ==
  ASSUME NEW f \in Account, NEW s, NEW g \in Announced(f, s)
  PROVE  \/ g.real = s /\ g.set = f.set
         \/ g.real = OfflineStatus /\ g.set = OfflineStatus
<1> DEFINE r == [f EXCEPT !.real = s]
<1>1. r.real = s /\ r.set = f.set
  BY DEF Account
<1>2. \/ g = r \/ g = [r EXCEPT !.shown = s, !.connecting = FALSE]
      \/ g = [r EXCEPT !.connecting = TRUE] \/ g = [r EXCEPT !.shown = s] \/ g = GivenUp(f)
  BY DEF Announced
<1>3. CASE g = GivenUp(f)
  BY <1>3 DEF GivenUp, Account
<1> QED BY <1>1, <1>2, <1>3 DEF Account

LEMMA ChangedIsVisible ==
  ASSUME NEW mode \in IdleModes, mode # "Invisible", NEW s
  PROVE  /\ Changed(mode, s) = s \/ (s \in Status => Changed(mode, s).type # "Invisible")
         /\ Changed("NoChange", s) = s
<1>1. CASE LeftAlone(mode, s)
  BY <1>1 DEF Changed, LeftAlone
<1>2. ASSUME ~LeftAlone(mode, s), s \in Status PROVE Changed(mode, s).type # "Invisible"
  <2>1. mode \in {"Busy", "ExtendedAway", "Offline"}
    BY <1>2 DEF LeftAlone, IdleModes
  <2>2. IdleType[mode] # "Invisible"
    BY <2>1 DEF IdleType
  <2> QED BY <1>2, <2>2 DEF Changed, Status
<1> QED BY <1>1, <1>2 DEF Changed, LeftAlone

\* An account that is announced what auto-away makes of its set status.
LEMMA AnnouncedFollows ==
  ASSUME NEW f \in Account, NEW mode \in IdleModes, mode # "Invisible", NEW away,
         away \/ mode = "NoChange", NEW s, f.set = s \/ IsDisconnected(f.set),
         NEW g \in Announced(f, Changed(mode, f.set))
  PROVE  Follows(g, s, away)
<1>1. \/ g.real = Changed(mode, f.set) /\ g.set = f.set
      \/ g.real = OfflineStatus /\ g.set = OfflineStatus
  BY AnnouncedSets
<1>2. CASE g.real = OfflineStatus /\ g.set = OfflineStatus
  BY <1>2, OfflineIsStatus DEF Follows
<1>3. CASE g.real = Changed(mode, f.set) /\ g.set = f.set
  <2>1. f.set \in Status
    BY DEF Account
  <2>2. \/ Changed(mode, f.set) = f.set
        \/ away /\ Changed(mode, f.set).type # "Invisible"
    BY <2>1, ChangedIsVisible
  <2> QED BY <1>3, <2>2 DEF Follows
<1> QED BY <1>1, <1>2, <1>3

LEMMA SetFollows ==
  ASSUME NEW f \in Account, f.handler, NEW s \in Status,
         Mode \in IdleModes, Mode # "Invisible", changer \/ Mode = "NoChange",
         NEW g \in Set(f, s)
  PROVE  Follows(g, s, changer)
<1> DEFINE h == [f EXCEPT !.set = s]
<1>1. h \in Account /\ h.set = s
  BY DEF Account
<1>2. g \in Announced(h, Changed(Mode, h.set))
  BY <1>1 DEF Set
<1> HIDE DEF h
<1> QED BY <1>1, <1>2, AnnouncedFollows

LEMMA ModeFacts ==
  ASSUME "Invisible" \notin UserModes, idle \in UserModes
  PROVE  Mode \in IdleModes /\ Mode # "Invisible" /\ (changer \/ Mode = "NoChange")
BY AccountStatusesAssumption DEF AccountStatusesAssumption, Mode, IdleModes

\* Whatever is set with a protocol is followed, and stored as it was set.
LEMMA SetStatusFollows ==
  ASSUME "Invisible" \notin UserModes, idle \in UserModes,
         NEW accounts \in [Accounts -> Account], NEW wish, SetStatus(accounts, wish),
         NEW a \in Accounts, changer' = changer,
         a \in DOMAIN wish => wish[a] \in Status /\ accounts[a].handler,
         a \notin DOMAIN wish => Follows(accounts[a], stored[a], changer)
  PROVE  Follows(account'[a], stored'[a], changer')
<1>1. /\ stored'[a] = IF a \in DOMAIN wish THEN wish[a] ELSE stored[a]
      /\ account'[a] \in IF a \in DOMAIN wish THEN Set(accounts[a], wish[a]) ELSE {accounts[a]}
  BY DEF SetStatus, Some, Containers
<1>2. CASE a \in DOMAIN wish
  <2> DEFINE s == wish[a]
             g == account'[a]
  <2>1. s \in Status /\ accounts[a].handler /\ g \in Set(accounts[a], s) /\ stored'[a] = s
    BY <1>1, <1>2
  <2> HIDE DEF s, g
  <2>2. Follows(g, s, changer)
    BY <2>1, ModeFacts, SetFollows
  <2> QED BY <2>1, <2>2 DEF g
<1>3. CASE a \notin DOMAIN wish
  BY <1>1, <1>3
<1> QED BY <1>2, <1>3

\* Who is registered by itself has a protocol, and there is no simple mode.
LEMMA RegisteredFacts ==
  ASSUME NEW simple \in BOOLEAN, NEW accounts, NEW a \in Accounts,
         a \in RegisteredFor(simple, Loaded(accounts))
  PROVE  /\ ~simple /\ accounts[a].handler
         /\ Identity \notin RegisteredFor(simple, Loaded(accounts))
BY AccountStatusesAssumption DEF RegisteredFor, Loaded, AccountStatusesAssumption

LEMMA SetDefaultFollows ==
  ASSUME "Invisible" \notin UserModes, idle \in UserModes, TypeOK, changer' = changer,
         SimpleMode' \in BOOLEAN, NEW accounts \in [Accounts -> Account], NEW containers,
         SetDefaultStatus(accounts, containers), containers \subseteq registered',
         registered' = RegisteredFor(SimpleMode', Loaded(accounts)),
         NEW a \in Accounts \cap registered',
         a \notin containers => Follows(accounts[a], stored[a], changer)
  PROVE  Follows(account'[a], stored'[a], changer')
<1> DEFINE wish == [c \in containers |-> DefaultStatus(c)]
<1>1. accounts[a].handler /\ Identity \notin containers
  BY RegisteredFacts
<1>2. SetStatus(accounts, wish) /\ DOMAIN wish = containers
  BY <1>1 DEF SetDefaultStatus
<1>3. a \in containers => wish[a] \in Status
  <2>1. DefaultStatus(a) \in Status
    BY StoredTypes DEF Containers
  <2> QED BY <2>1
<1> HIDE DEF wish
<1> QED BY <1>1, <1>2, <1>3, SetStatusFollows

\* The user's status, for whoever is registered by itself.
LEMMA UserSetsFollows ==
  ASSUME "Invisible" \notin UserModes, IInv, AllFollow, NEW c \in Containers, NEW s \in Status,
         SetStatus(account, SetByContainer(c, s)), changer' = changer,
         NEW a \in Accounts \cap registered, AllowSetDefaultStatus
  PROVE  Follows(account'[a], stored'[a], changer')
<1> DEFINE wish == SetByContainer(c, s)
<1>1. account[a].handler /\ account \in [Accounts -> Account]
  BY Facts, RegisteredFacts DEF OthersOK
<1>2. /\ Follows(account[a], stored[a], changer) /\ idle \in UserModes
  BY DEF AllFollow
<1>3. a \in DOMAIN wish => wish[a] \in Status
  BY DEF SetByContainer
<1> HIDE DEF wish
<1>4. SetStatus(account, wish)
  BY DEF wish
<1> QED BY <1>1, <1>2, <1>3, <1>4, SetStatusFollows

LEMMA VisitedFollows ==
  ASSUME IInv, AllFollow, AllowSetDefaultStatus, NEW mode \in IdleModes, mode # "Invisible",
         NEW away, away \/ mode = "NoChange", NEW accounts \in Some(Visited(mode)),
         NEW a \in Accounts \cap registered
  PROVE  Follows(accounts[a], stored[a], away)
<1>1. accounts[a] \in Announced(account[a], Changed(mode, account[a].set))
  BY DEF Some, Visited
<1>2. account[a] \in Account
  BY Facts
<1>3. account[a].set = stored[a] \/ IsDisconnected(account[a].set)
  BY DEF AllFollow, Follows
<1> QED BY <1>1, <1>2, <1>3, AnnouncedFollows

\* A login, lost or not: an invisible status that is set once more was chosen.
LEMMA ProtocolFollows ==
  ASSUME "Invisible" \notin UserModes, IInv, AllFollow, NEW a \in Accounts,
         LoginBegins(a) \/ LoginSucceeds(a) \/ ConnectionLost(a)
  PROVE  AllFollow'
<1> DEFINE f == account[a]
           g == account'[a]
<1>1. /\ f.handler /\ f \in Account /\ account \in [Accounts -> Account]
      /\ \A b \in Accounts \ {a} : account'[b] = account[b]
      /\ UNCHANGED <<stored, registered, AllowSetDefaultStatus, changer, idle>>
  BY Facts DEF LoginBegins, LoginSucceeds, ConnectionLost, ProtocolStep, autoAwayVars
<1>2. ASSUME AllowSetDefaultStatus, a \in registered
      PROVE  Follows(g, stored[a], changer)
  <2>1. Follows(f, stored[a], changer) /\ idle \in UserModes
    BY <1>2 DEF AllFollow
  <2>2. CASE LoginBegins(a)
    <3>1. g = [f EXCEPT !.connecting = TRUE]
      BY <1>1, <2>2 DEF LoginBegins, ProtocolStep
    <3>2. g.set = f.set /\ g.real = f.real
      BY <1>1, <3>1 DEF Account
    <3> QED BY <2>1, <3>2 DEF Follows
  <2>3. CASE ConnectionLost(a)
    <3>1. g \in {GivenUp(f), [f EXCEPT !.shown = OfflineStatus, !.connecting = TRUE]}
      BY <1>1, <2>3 DEF ConnectionLost, ProtocolStep
    <3>2. \/ g.set = f.set /\ g.real = f.real
          \/ g.set = OfflineStatus /\ g.real = OfflineStatus
      <4> HIDE DEF f, g
      <4>1. CASE g = GivenUp(f)
        BY <1>1, <4>1 DEF Account, GivenUp
      <4>2. CASE g = [f EXCEPT !.shown = OfflineStatus, !.connecting = TRUE]
        BY <1>1, <4>2 DEF Account
      <4> QED BY <3>1, <4>1, <4>2
    <3> QED BY <2>1, <3>2, OfflineIsStatus DEF Follows
  <2>4. CASE LoginSucceeds(a)
    <3> DEFINE h == [f EXCEPT !.shown = f.real, !.connecting = FALSE]
    <3>1. h \in Account /\ h.handler /\ h.set = f.set /\ h.real = f.real /\ h.shown = f.real
      BY <1>1 DEF Account
    <3>2. g \in IF h.shown.type = "Invisible" THEN Set(h, h.shown) ELSE {h}
      BY <1>1, <2>4 DEF LoginSucceeds, ProtocolStep
    <3> HIDE DEF h, f, g
    <3>3. CASE h.shown.type # "Invisible"
      BY <2>1, <3>1, <3>2, <3>3 DEF Follows
    <3>4. CASE h.shown.type = "Invisible"
      <4>1. f.real \in Status /\ f.set \in Status
        BY <3>1 DEF Account
      <4>2. ~IsDisconnected(f.real)
        BY <3>1, <3>4, <4>1, DisconnectedIsOffline
      <4>3. f.real = f.set /\ f.set = stored[a]
        BY <2>1, <3>1, <3>4, <4>2 DEF Follows
      <4>4. h.shown \in Status /\ h.shown = stored[a] /\ g \in Set(h, h.shown)
        BY <3>1, <3>2, <3>4, <4>1, <4>3
      <4>5. Follows(g, h.shown, changer)
        BY <2>1, <3>1, <4>4, ModeFacts, SetFollows
      <4> QED BY <4>4, <4>5
    <3> QED BY <3>3, <3>4
  <2> QED BY <2>2, <2>3, <2>4
<1> HIDE DEF g
<1>3. ASSUME AllowSetDefaultStatus, NEW b \in Accounts \cap registered
      PROVE  Follows(account'[b], stored[b], changer)
  <2>1. CASE b = a
    BY <1>2, <1>3, <2>1 DEF g
  <2>2. CASE b # a
    BY <1>1, <1>3, <2>2 DEF AllFollow
  <2> QED BY <2>1, <2>2
<1> QED BY <1>1, <1>3 DEF AllFollow

LEMMA FollowInit == Init => AllFollow
BY DEF Init, AllFollow

LEMMA FollowStep ==
  ASSUME "Invisible" \notin UserModes, IInv, IInv', AllFollow, [Next]_vars
  PROVE  AllFollow'
<1> USE AccountStatusesAssumption DEF AccountStatusesAssumption
<1>0. /\ idle \in UserModes /\ TypeOK /\ account \in [Accounts -> Account]
      /\ registered = RegisteredFor(SimpleMode, Loaded(account))
      /\ SimpleMode \in BOOLEAN /\ SimpleMode' \in BOOLEAN
      /\ registered' = RegisteredFor(SimpleMode', Loaded(account'))
  BY Facts DEF AllFollow, IInv, TypeOK, ContainersFollowMode
<1>1. CASE Initialized
  <2>1. /\ SetDefaultStatus(account, registered) /\ UNCHANGED <<registered, SimpleMode, idle, changer>>
    BY <1>1 DEF Initialized, autoAwayVars
  <2>2. ASSUME NEW a \in Accounts \cap registered'
        PROVE  Follows(account'[a], stored'[a], changer')
    <3>1. /\ registered \subseteq registered' /\ a \in registered
          /\ registered' = RegisteredFor(SimpleMode', Loaded(account))
      BY <1>0, <2>1
    <3> QED BY <1>0, <2>1, <3>1, SetDefaultFollows
  <2> QED BY <1>0, <2>1, <2>2 DEF AllFollow
<1>2. ASSUME AllowSetDefaultStatus, NEW c \in Containers, NEW s \in Status,
             SetStatus(account, SetByContainer(c, s)), UNCHANGED <<registered, changer, idle>>
      PROVE  AllFollow'
  <2>1. \A a \in Accounts \cap registered : Follows(account'[a], stored'[a], changer')
    BY <1>2, UserSetsFollows
  <2> QED BY <1>0, <1>2, <2>1 DEF AllFollow
<1>3. ASSUME AllowSetDefaultStatus, NEW c \in Containers, NEW type \in UserTypes, UserSetsType(c, type)
      PROVE  AllFollow'
  <2>1. PICK s \in ShownBy(c) : SetStatus(account, SetByContainer(c, [s EXCEPT !.type = type]))
    BY <1>3 DEF UserSetsType
  <2>2. s \in Status
    BY <1>0, <2>1 DEF ShownBy, Loaded, Containers, Account
  <2>3. [s EXCEPT !.type = type] \in Status
    BY <2>2 DEF Status
  <2>4. UNCHANGED <<registered, changer, idle>>
    BY <1>3 DEF UserSetsType, autoAwayVars
  <2> DEFINE t == [s EXCEPT !.type = type]
  <2>5. t \in Status /\ SetStatus(account, SetByContainer(c, t))
    BY <2>1, <2>3
  <2> HIDE DEF t
  <2> QED BY <1>2, <1>3, <2>4, <2>5
<1>4. ASSUME AllowSetDefaultStatus, NEW c \in Containers, NEW d \in Descriptions,
             UserSetsDescription(c, d)
      PROVE  AllFollow'
  <2>1. PICK s \in ShownBy(c) : SetStatus(account, SetByContainer(c, [s EXCEPT !.description = d]))
    BY <1>4 DEF UserSetsDescription
  <2>2. s \in Status
    BY <1>0, <2>1 DEF ShownBy, Loaded, Containers, Account
  <2>3. [s EXCEPT !.description = d] \in Status
    BY <2>2 DEF Status
  <2>4. UNCHANGED <<registered, changer, idle>>
    BY <1>4 DEF UserSetsDescription, autoAwayVars
  <2> DEFINE t == [s EXCEPT !.description = d]
  <2>5. t \in Status /\ SetStatus(account, SetByContainer(c, t))
    BY <2>1, <2>3
  <2> HIDE DEF t
  <2> QED BY <1>2, <1>4, <2>4, <2>5
<1>5. CASE UserChangesMode
  <2>1. /\ registered' = RegisteredFor(SimpleMode', Loaded(account))
        /\ SetDefaultStatus(account, registered') /\ UNCHANGED <<idle, changer>>
    BY <1>5 DEF UserChangesMode, autoAwayVars
  <2>2. ASSUME NEW a \in Accounts \cap registered'
        PROVE  Follows(account'[a], stored'[a], changer')
    <3> DEFINE containers == registered'
    <3>1. /\ SetDefaultStatus(account, containers) /\ containers \subseteq registered'
          /\ a \in containers
      BY <2>1
    <3> HIDE DEF containers
    <3> QED BY <1>0, <2>1, <3>1, SetDefaultFollows
  <2> QED BY <1>0, <2>1, <2>2 DEF AllFollow
<1>6. ASSUME AllowSetDefaultStatus, NEW a \in Accounts, LoadProtocol(a)
      PROVE  AllFollow'
  <2> DEFINE accounts == [account EXCEPT ![a] = [@ EXCEPT !.handler = TRUE, !.shown = OfflineStatus]]
             containers == registered' \ registered
  <2>1. /\ ~account[a].handler /\ registered' = RegisteredFor(SimpleMode, Loaded(accounts))
        /\ SetDefaultStatus(accounts, containers) /\ UNCHANGED <<SimpleMode, idle, changer>>
    BY <1>6 DEF LoadProtocol, autoAwayVars
  <2>2. accounts \in [Accounts -> Account] /\ \A b \in Accounts \ {a} : accounts[b] = account[b]
    BY <1>0, OfflineIsStatus DEF Account
  <2> HIDE DEF accounts
  <2>3. ASSUME NEW b \in Accounts \cap registered', b \notin containers
        PROVE  Follows(accounts[b], stored[b], changer)
    <3>1. b \in registered /\ b # a
      BY <1>0, <2>1, <2>3, RegisteredFacts
    <3> QED BY <1>6, <2>2, <3>1 DEF AllFollow
  <2>4. ASSUME NEW b \in Accounts \cap registered'
        PROVE  Follows(account'[b], stored'[b], changer')
    <3>1. containers \subseteq registered' /\ registered' = RegisteredFor(SimpleMode', Loaded(accounts))
      BY <2>1
    <3> HIDE DEF containers
    <3> QED BY <1>0, <2>1, <2>2, <2>3, <3>1, SetDefaultFollows
  <2> QED BY <1>0, <2>1, <2>4 DEF AllFollow
<1>7. ASSUME AllowSetDefaultStatus, NEW a \in Accounts, UnloadProtocol(a)
      PROVE  AllFollow'
  <2>1. /\ stored' = [stored EXCEPT ![a] = account[a].real]
        /\ account' = [account EXCEPT ![a] = Unloaded(account[a])]
        /\ UNCHANGED <<SimpleMode, idle, changer>>
    BY <1>7 DEF UnloadProtocol, autoAwayVars
  <2>2. account'[a] = Unloaded(account[a]) /\ \A b \in Accounts \ {a} : account'[b] = account[b]
    BY <1>0, <2>1
  <2>3. ~account'[a].handler
    BY <1>0, <2>2 DEF Unloaded, Account
  <2>4. ASSUME NEW b \in Accounts \cap registered'
        PROVE  Follows(account'[b], stored'[b], changer')
    <3>1. ~SimpleMode /\ account'[b].handler
      BY <1>0, <2>1, RegisteredFacts
    <3>2. b # a
      BY <2>3, <3>1
    <3>3. b \in registered /\ account'[b] = account[b] /\ stored'[b] = stored[b]
      BY <1>0, <2>1, <2>2, <3>1, <3>2 DEF RegisteredFor, Loaded, TypeOK, Containers
    <3> QED BY <1>7, <2>1, <3>3 DEF AllFollow
  <2> QED BY <1>0, <2>1, <2>4 DEF AllFollow
<1>8. ASSUME NEW a \in Accounts, LoginBegins(a) \/ LoginSucceeds(a) \/ ConnectionLost(a)
      PROVE  AllFollow'
  BY <1>8, ProtocolFollows
<1>9. CASE IdleTimePasses
  BY <1>9 DEF IdleTimePasses, AllFollow
<1>10. ASSUME AllowSetDefaultStatus, CheckIdleTime PROVE AllFollow'
  <2>1. /\ changer /\ account' \in Some(Visited(idle))
        /\ UNCHANGED <<stored, registered, AllowSetDefaultStatus, changer, idle>>
    BY <1>10 DEF CheckIdleTime
  <2>2. idle \in IdleModes /\ idle # "Invisible"
    BY <1>0
  <2> DEFINE accounts == account'
  <2>3. accounts \in Some(Visited(idle))
    BY <2>1
  <2> HIDE DEF accounts
  <2>4. \A a \in Accounts \cap registered : Follows(accounts[a], stored[a], changer)
    BY <1>10, <2>1, <2>2, <2>3, VisitedFollows
  <2> QED BY <1>0, <2>1, <2>4 DEF AllFollow, accounts
<1>11. ASSUME AllowSetDefaultStatus, AutoAwayComesOrGoes PROVE AllFollow'
  <2> DEFINE mode == IF changer' THEN idle ELSE "NoChange"
             accounts == account'
             away == changer'
  <2>1. /\ accounts \in Some(Visited(mode))
        /\ UNCHANGED <<stored, registered, AllowSetDefaultStatus, idle>>
    BY <1>11 DEF AutoAwayComesOrGoes
  <2>2. mode \in IdleModes /\ mode # "Invisible" /\ (away \/ mode = "NoChange")
    BY <1>0 DEF IdleModes
  <2> HIDE DEF mode, accounts, away
  <2>3. \A a \in Accounts \cap registered : Follows(accounts[a], stored[a], away)
    BY <1>11, <2>1, <2>2, VisitedFollows
  <2> QED BY <1>0, <2>1, <2>3 DEF AllFollow, accounts, away
<1>12. CASE Exit \/ Crash
  BY <1>0, <1>12 DEF Exit, Crash, StartAgain, AllFollow
<1>13. CASE UNCHANGED vars
  BY <1>13 DEF vars, autoAwayVars, AllFollow
<1> QED BY <1>1, <1>3, <1>4, <1>5, <1>6, <1>7, <1>8, <1>9, <1>10, <1>11, <1>12, <1>13 DEF Next, Running

\* Setting the defaults stores nothing but defaults.
LEMMA DefaultsAreStored ==
  ASSUME NEW accounts, NEW containers, SetDefaultStatus(accounts, containers),
         NEW c \in Containers
  PROVE  stored'[c] \in {stored[c], DefaultStatus(c), DefaultStatus(Identity)}
<1>1. CASE Identity \in containers
  <2>1. stored'[c] = IF c \in {Identity} \cup Accounts THEN DefaultStatus(Identity) ELSE stored[c]
    BY <1>1 DEF SetDefaultStatus, SetStatus, SetByContainer, Members
  <2> QED BY <2>1
<1>2. CASE Identity \notin containers
  <2>1. stored'[c] = IF c \in containers THEN DefaultStatus(c) ELSE stored[c]
    BY <1>2 DEF SetDefaultStatus, SetStatus
  <2> QED BY <2>1
<1> QED BY <1>1, <1>2

\* A registered container is set by the user alone, not with another one.
LEMMA UserSetsOne ==
  ASSUME IInv, NEW d \in registered, NEW s, SetStatus(account, SetByContainer(d, s)),
         NEW c \in registered, c # d
  PROVE  stored'[c] = stored[c]
<1>1. c \in Containers /\ d \in Containers /\ registered = RegisteredFor(SimpleMode, Loaded(account))
  BY Facts DEF TypeOK
<1>2. c \notin {d} \cup Members(d)
  BY <1>1, AccountStatusesAssumption DEF RegisteredFor, Members, Loaded, AccountStatusesAssumption
<1> QED BY <1>1, <1>2 DEF SetStatus, SetByContainer

\* The end of the program leaves of the status of every container the user can
\* set what was set for it, or Offline when its protocol has given up, although
\* autoaway has lowered it: the module is unloaded before the protocols.  So
\* does every other step, the unloading of a single protocol before autoaway has
\* gone and the user's own settings apart.  Only an idle mode that makes the user
\* invisible can end up in what is stored otherwise.
THEOREM IdlenessIsNeverStored ==
  ASSUME "Invisible" \notin UserModes
  PROVE  Spec => IdlenessIsNotStored
<1>1. ASSUME IInv, AllFollow, Exit, NEW c \in registered, AllowSetDefaultStatus
      PROVE  stored'[c] = stored[c] \/ IsDisconnected(stored'[c])
  <2>1. AllowSetDefaultStatus
    BY <1>1
  <2>2. PICK accounts \in AutoAwayGoesFirst :
          stored' = [x \in Containers |-> IF x \in Loaded(account) THEN accounts[x].real ELSE stored[x]]
    BY <1>1 DEF Exit
  <2>3. c \in Containers /\ registered = RegisteredFor(SimpleMode, Loaded(account))
    BY <1>1, Facts DEF TypeOK
  <2>4. CASE c \notin Loaded(account)
    BY <2>2, <2>3, <2>4
  <2>5. CASE c \in Loaded(account)
    <3>1. c \in Accounts /\ stored'[c] = accounts[c].real
      BY <2>2, <2>3, <2>5 DEF Loaded
    <3>2. Follows(accounts[c], stored[c], FALSE)
      <4>1. CASE changer
        <5>1. accounts \in Some(Visited("NoChange"))
          BY <4>1, <2>2 DEF AutoAwayGoesFirst
        <5>2. "NoChange" \in IdleModes
          BY DEF IdleModes
        <5> QED BY <1>1, <2>1, <3>1, <5>1, <5>2, VisitedFollows
      <4>2. CASE ~changer
        <5>1. accounts = account
          BY <4>2, <2>2 DEF AutoAwayGoesFirst
        <5> QED BY <1>1, <2>1, <3>1, <4>2, <5>1 DEF AllFollow, Follows
      <4> QED BY <4>1, <4>2
    <3> QED BY <3>1, <3>2 DEF Follows
  <2> QED BY <2>4, <2>5
<1>2. ASSUME IInv, AllFollow, Next, NEW c \in registered
      PROVE  KeepsIdlenessOut(c)
  <2> USE <1>2 DEF KeepsIdlenessOut
  <2>0. c \in Containers /\ registered = RegisteredFor(SimpleMode, Loaded(account))
    BY Facts DEF TypeOK
  <2>1. CASE Initialized
    <3> DEFINE containers == registered
    <3>1. SetDefaultStatus(account, containers)
      BY <2>1 DEF Initialized
    <3> HIDE DEF containers
    <3> QED BY <2>0, <3>1, DefaultsAreStored
  <2>2. ASSUME NEW d \in Containers, NEW type \in UserTypes, UserSetsType(d, type)
        PROVE  KeepsIdlenessOut(c)
    <3>1. d \in registered /\ \E s : SetStatus(account, SetByContainer(d, s))
      BY <2>2 DEF UserSetsType
    <3>2. CASE c = d
      BY <2>2, <3>2 DEF UserSets
    <3>3. CASE c # d
      BY <3>1, <3>3, UserSetsOne
    <3> QED BY <3>2, <3>3
  <2>3. ASSUME NEW d \in Containers, NEW x \in Descriptions, UserSetsDescription(d, x)
        PROVE  KeepsIdlenessOut(c)
    <3>1. d \in registered /\ \E s : SetStatus(account, SetByContainer(d, s))
      BY <2>3 DEF UserSetsDescription
    <3>2. CASE c = d
      BY <2>3, <3>2 DEF UserSets
    <3>3. CASE c # d
      BY <3>1, <3>3, UserSetsOne
    <3> QED BY <3>2, <3>3
  <2>4. CASE UserChangesMode
    <3> DEFINE containers == registered'
    <3>1. SetDefaultStatus(account, containers)
      BY <2>4 DEF UserChangesMode
    <3> HIDE DEF containers
    <3> QED BY <2>0, <3>1, DefaultsAreStored
  <2>5. ASSUME NEW a \in Accounts, LoadProtocol(a) PROVE KeepsIdlenessOut(c)
    <3> DEFINE accounts == [account EXCEPT ![a] = [@ EXCEPT !.handler = TRUE, !.shown = OfflineStatus]]
               containers == registered' \ registered
    <3>1. SetDefaultStatus(accounts, containers)
      BY <2>5 DEF LoadProtocol
    <3> HIDE DEF accounts, containers
    <3> QED BY <2>0, <3>1, DefaultsAreStored
  <2>6. ASSUME AllowSetDefaultStatus, NEW a \in Accounts, UnloadProtocol(a)
        PROVE  KeepsIdlenessOut(c)
    <3>1. stored' = [stored EXCEPT ![a] = account[a].real]
      BY <2>6 DEF UnloadProtocol
    <3>2. CASE c # a
      BY <3>1, <3>2
    <3>3. CASE c = a /\ changer
      BY <2>6, <3>3
    <3>4. CASE c = a /\ ~changer
      <4>1. a \in Accounts \cap registered /\ ~changer
        BY <3>4
      <4>2. Follows(account[a], stored[a], FALSE)
        BY <1>2, <2>6, <4>1 DEF AllFollow, Follows
      <4>3. stored'[a] \in {stored[a], account[a].real}
        BY <3>1
      <4> QED BY <3>4, <4>2, <4>3 DEF Follows
    <3> QED BY <3>2, <3>3, <3>4
  <2>7. ASSUME NEW a \in Accounts, LoginBegins(a) \/ LoginSucceeds(a) \/ ConnectionLost(a)
        PROVE  KeepsIdlenessOut(c)
    BY <2>7 DEF LoginBegins, LoginSucceeds, ConnectionLost, ProtocolStep
  <2>8. CASE IdleTimePasses \/ CheckIdleTime \/ AutoAwayComesOrGoes \/ Crash
    BY <2>8 DEF IdleTimePasses, CheckIdleTime, AutoAwayComesOrGoes, Crash
  <2>9. ASSUME AllowSetDefaultStatus, Exit PROVE KeepsIdlenessOut(c)
    BY <1>1, <2>9
  <2> QED BY <2>1, <2>2, <2>3, <2>4, <2>5, <2>6, <2>7, <2>8, <2>9 DEF Next, Running
<1>3. IInv /\ AllFollow /\ [Next]_vars =>
        [\A c \in registered : KeepsIdlenessOut(c)]_vars
  BY <1>2
<1>4. IInv /\ AllFollow /\ IInv' /\ [Next]_vars => AllFollow'
  BY FollowStep
<1>5. Init => AllFollow
  BY FollowInit
<1>6. Spec => [][\A c \in registered : KeepsIdlenessOut(c)]_vars
  BY <1>3, <1>4, <1>5, StatusesInvariance, PTL DEF Spec
<1> QED BY <1>6 DEF IdlenessIsNotStored, KeepsIdlenessOut
=============================================================================
