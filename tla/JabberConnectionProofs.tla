----------------------- MODULE JabberConnectionProofs -----------------------
(***************************************************************************)
(* Proofs about JabberConnection for every set of descriptions and every   *)
(* bound.                                                                  *)
(*                                                                         *)
(* The invariants are inductive together with one more fact: while the     *)
(* handler of a cancelled password window is held up, the account is meant *)
(* to be offline.  When it goes on it shows the account as offline, which  *)
(* would contradict a presence announced meanwhile.                        *)
(***************************************************************************)
EXTENDS JabberConnection, TLAPS

-----------------------------------------------------------------------------
(* Facts about statuses. *)

\* Status() is a status, and a disconnected one.
LEMMA OfflineStatusType == OfflineStatus \in Status /\ IsDisconnected(OfflineStatus)
  BY DescriptionsAssumption DEF OfflineStatus, Status, StatusTypes, IsDisconnected, Group

\* A status with another type, or with another description, is a status.
LEMMA StatusEdits ==
  ASSUME NEW s \in Status
  PROVE  /\ \A t \in StatusTypes : [s EXCEPT !.type = t] \in Status
         /\ \A d \in Descriptions : [s EXCEPT !.description = d] \in Status
         /\ IsDisconnected([s EXCEPT !.type = "Offline"])
  BY DEF Status, StatusTypes, IsDisconnected, Group

\* The idle detector turns a status into a status and leaves a disconnected
\* one alone.
LEMMA ChangedType ==
  ASSUME NEW mode \in IdleModes, NEW s \in Status
  PROVE  /\ Changed(mode, s) \in Status
         /\ IsDisconnected(s) => Changed(mode, s) = s
<1>1. CASE LeftAlone(mode, s)
  BY <1>1 DEF Changed
<1>2. CASE ~LeftAlone(mode, s)
  <2>1. mode \in {"Busy", "ExtendedAway", "Invisible", "Offline"}
    BY <1>2 DEF LeftAlone, IdleModes
  <2>2. IdleType[mode] \in StatusTypes
    BY <2>1 DEF IdleType, StatusTypes
  <2>3. ~IsDisconnected(s)
    BY <1>2 DEF LeftAlone
  <2> QED BY <1>2, <2>2, <2>3, StatusEdits DEF Changed
<1> QED BY <1>1, <1>2

-----------------------------------------------------------------------------
(* The inductive invariant. *)

CancelledIsOffline == cancelled # {} => IsDisconnected(manual)

IInv ==
  /\ TypeOK
  /\ SessionIsShown
  /\ AnnouncedIsWanted
  /\ CancelledIsOffline

-----------------------------------------------------------------------------
(* Parts of the invariant, as what a handler leaves behind.                *)

\* What only some handlers change, beside the connection.
RestOK ==
  /\ manual' \in Status /\ idle' \in IdleModes
  /\ retries' \in 0..MaxRetries
  /\ passwordErrors' \in 0..MaxPasswordWindows
  /\ hasPassword' \in BOOLEAN

StreamsOK == abandoned' \in 0..MaxAbandoned /\ sessions' \in 0..MaxAbandoned

QuestionsOK == questions' \in 0..MaxQuestions /\ refusals' \in 0..MaxQuestions

WindowsOK ==
  /\ passwordWindows' \in 0..MaxPasswordWindows
  /\ cancelled' \subseteq 1..passwordWindows'
  /\ CancelledIsOffline'

RequestOK == InRequest' \in BOOLEAN /\ (InRequest => InRequest')

\* The bounds are natural numbers.
LEMMA Bounds ==
  /\ MaxRetries \in Nat /\ MaxPasswordWindows \in Nat
  /\ MaxQuestions \in Nat /\ MaxAbandoned \in Nat
  BY JabberAssumption DEF JabberAssumption

\* With no client nothing is announced, and no roster is owed.
LEMMA NoClientInv ==
  ASSUME IInv, RestOK, QuestionsOK, WindowsOK, InRequest' \in BOOLEAN,
         CleanUp, StreamsOK,
         state' \in {"Disconnected", "Connecting", "Connected"}, current' \in Status
  PROVE  IInv'
<1>1. TypeOK'
  BY DEF RestOK, QuestionsOK, WindowsOK, StreamsOK, CleanUp, TypeOK
<1>2. SessionIsShown' /\ AnnouncedIsWanted'
  BY DEF CleanUp, SessionIsShown, AnnouncedIsWanted
<1> QED BY <1>1, <1>2 DEF IInv, WindowsOK

\* A client that has no session up announces nothing either.
LEMMA NotUpInv ==
  ASSUME IInv, RestOK, QuestionsOK, WindowsOK, InRequest' \in BOOLEAN,
         client' \in {"none", "logging", "asking", "broken", "starting"},
         ~rosterAsked', ~announced', rosterAsked' \in BOOLEAN, announced' \in BOOLEAN,
         StreamsOK,
         state' \in {"Disconnected", "Connecting", "Connected"}, current' \in Status,
         client' # "none" /\ state' = "Disconnected" => IsDisconnected(current')
  PROVE  IInv'
<1>1. TypeOK'
  BY DEF RestOK, QuestionsOK, WindowsOK, StreamsOK, TypeOK
<1>2. SessionIsShown' /\ AnnouncedIsWanted'
  BY DEF SessionIsShown, AnnouncedIsWanted, Active
<1> QED BY <1>1, <1>2 DEF IInv, WindowsOK

\* A handler that leaves the session as it is keeps the invariant, if what it
\* does to the statuses agrees with a presence that was announced.
LEMMA SameSessionInv ==
  ASSUME IInv, RestOK, QuestionsOK, WindowsOK, RequestOK,
         UNCHANGED <<state, client, rosterAsked, announced>>,
         StreamsOK, current' \in Status,
         client # "none" /\ state = "Disconnected" => IsDisconnected(current'),
         announced => current' = nextStatus' /\ ~IsDisconnected(current'),
         client = "up" /\ ~announced /\ ~InRequest
           => IsDisconnected(current') /\ IsDisconnected(nextStatus')
  PROVE  IInv'
<1>1. TypeOK'
  BY DEF IInv, RestOK, QuestionsOK, WindowsOK, StreamsOK, RequestOK, TypeOK
<1>2. SessionIsShown'
  BY DEF IInv, SessionIsShown, RequestOK
<1>3. AnnouncedIsWanted'
  BY DEF IInv, AnnouncedIsWanted, RequestOK
<1> QED BY <1>1, <1>2, <1>3 DEF IInv, WindowsOK

\* showing the account as disconnected closes questions and asks no new ones.
LEMMA ShowDisconnectedType ==
  ASSUME NEW q \in Nat, NEW f \in Nat, ShowDisconnected(q, f)
  PROVE  QuestionsOK /\ state' = "Disconnected"
<1>1. questions' \in Nat /\ refusals' \in Nat
  BY DEF ShowDisconnected
<1>2. questions' + refusals' <= MaxQuestions
  BY DEF ShowDisconnected
<1>3. \A m \in Nat, n \in Nat, b \in Nat : m + n <= b => m \in 0..b /\ n \in 0..b
  OBVIOUS
<1>4. questions' \in 0..MaxQuestions /\ refusals' \in 0..MaxQuestions
  BY <1>1, <1>2, <1>3, Bounds
<1> QED BY <1>4 DEF ShowDisconnected, QuestionsOK

\* Facts about the present state that most handlers need.
LEMMA Facts ==
  ASSUME IInv
  PROVE  /\ manual \in Status /\ current \in Status /\ idle \in IdleModes
         /\ questions \in Nat /\ refusals \in Nat /\ abandoned \in Nat /\ sessions \in Nat
         /\ state # "Connected" => client # "up" /\ ~rosterAsked /\ ~announced
         /\ nextStatus \in Status
         /\ Offline(current) \in Status /\ IsDisconnected(Offline(current))
         /\ cancelled # {} => ~announced /\ passwordWindows > 0
<1>1. manual \in Status /\ current \in Status /\ idle \in IdleModes
  BY DEF IInv, TypeOK
<1>2. questions \in Nat /\ refusals \in Nat /\ abandoned \in Nat /\ sessions \in Nat
  BY Bounds DEF IInv, TypeOK
<1>3. state # "Connected" => client # "up" /\ ~rosterAsked /\ ~announced
  BY DEF IInv, SessionIsShown, AnnouncedIsWanted
<1>4. nextStatus \in Status
  BY <1>1, ChangedType DEF nextStatus
<1>5. Offline(current) \in Status /\ IsDisconnected(Offline(current))
  BY <1>1, StatusEdits DEF Offline, StatusTypes
<1>6. cancelled # {} => ~announced
  BY <1>1, ChangedType DEF IInv, CancelledIsOffline, AnnouncedIsWanted, nextStatus
<1>7. cancelled # {} => passwordWindows > 0
  <2>1. passwordWindows \in Nat /\ cancelled \subseteq 1..passwordWindows
    BY Bounds DEF IInv, TypeOK
  <2>2. \A w \in cancelled : w \in 1..passwordWindows
    BY <2>1
  <2>3. \A w \in 1..passwordWindows : passwordWindows > 0
    BY <2>1
  <2> QED BY <2>2, <2>3
<1> QED BY <1>1, <1>2, <1>3, <1>4, <1>5, <1>6, <1>7

\* One client at most is replaced by a login.
LEMMA ReplacedType == Replaced \in {0, 1} /\ ReplacedSession \in {0, 1}
  BY DEF Replaced, ReplacedSession

\* Windows that stay keep what they hold up.
LEMMA WindowsKept ==
  ASSUME IInv, UNCHANGED cancelled,
         passwordWindows' \in Nat, passwordWindows' >= passwordWindows,
         passwordWindows' <= MaxPasswordWindows,
         cancelled # {} /\ IsDisconnected(manual) => IsDisconnected(manual')
  PROVE  WindowsOK
<1>1. passwordWindows \in Nat
  BY Bounds DEF IInv, TypeOK
<1>2. 1..passwordWindows \subseteq 1..passwordWindows'
  BY <1>1
<1>3. cancelled' \subseteq 1..passwordWindows'
  BY <1>2 DEF IInv, TypeOK
<1>4. CancelledIsOffline'
  BY DEF IInv, CancelledIsOffline
<1> QED BY <1>3, <1>4, Bounds DEF WindowsOK

-----------------------------------------------------------------------------
(* The calls handlers make.                                                *)

\* A login that is begun where no session is up, or the question for a
\* password in its place.
LEMMA ConnectToServerInv ==
  ASSUME IInv, RestOK, QuestionsOK, WindowsOK, InRequest' \in BOOLEAN,
         state # "Connected", NEW password, NEW windows,
         ConnectToServer(password, windows), current' \in Status,
         client # "none" /\ state = "Disconnected" => IsDisconnected(current')
  PROVE  IInv'
<1>1. client # "up" /\ ~rosterAsked /\ ~announced /\ abandoned \in Nat /\ sessions \in Nat
  BY Facts
<1>2. CASE password
  <2>1. /\ abandoned' \in Nat /\ abandoned' <= MaxAbandoned
        /\ sessions' \in Nat /\ sessions' <= MaxAbandoned
    BY <1>1, <1>2, ReplacedType DEF ConnectToServer, clientVars
  <2>2. StreamsOK
    BY <2>1, Bounds DEF StreamsOK
  <2>3. /\ client' = "logging" /\ state' = "Connecting"
        /\ UNCHANGED <<rosterAsked, announced>>
    BY <1>2 DEF ConnectToServer
  <2> QED BY <1>1, <2>2, <2>3, NotUpInv DEF IInv, TypeOK
<1>3. CASE ~password
  <2>1. UNCHANGED <<state, client, abandoned, sessions, rosterAsked, announced>>
    BY <1>3 DEF ConnectToServer, clientVars
  <2> QED BY <1>1, <2>1, NotUpInv DEF IInv, TypeOK, StreamsOK
<1> QED BY <1>2, <1>3

\* What the call does to the password windows.
LEMMA ConnectToServerWindows ==
  ASSUME NEW password, NEW windows \in Nat, windows <= MaxPasswordWindows,
         ConnectToServer(password, windows)
  PROVE  /\ passwordWindows' \in Nat /\ passwordWindows' <= MaxPasswordWindows
         /\ password => passwordWindows' = windows
         /\ ~password => passwordWindows' = windows + 1
<1>1. CASE password
  BY <1>1 DEF ConnectToServer
<1>2. CASE ~password
  BY <1>2, Bounds DEF ConnectToServer
<1> QED BY <1>1, <1>2

\* changeStatus, when the account is to become r.
LEMMA ChangeStatusInv ==
  ASSUME IInv, RestOK, UNCHANGED <<InRequest, cancelled>>,
         NEW r \in Status, ChangeStatus(r), nextStatus' = r,
         cancelled # {} /\ IsDisconnected(manual) => IsDisconnected(manual')
  PROVE  IInv'
<1>1. /\ passwordWindows \in Nat /\ passwordWindows <= MaxPasswordWindows
      /\ abandoned \in 0..MaxAbandoned /\ sessions \in 0..MaxAbandoned /\ current \in Status
      /\ questions \in 0..MaxQuestions /\ refusals \in 0..MaxQuestions
      /\ questions \in Nat /\ refusals \in Nat
      /\ InRequest' \in BOOLEAN /\ RequestOK
  BY Bounds DEF IInv, TypeOK, RequestOK
<1>2. ASSUME UNCHANGED passwordWindows PROVE WindowsOK
  BY <1>1, <1>2, WindowsKept
<1>3. CASE Unchanged /\ UNCHANGED current /\ (r = current \/ state # "Connected")
  <2>1. WindowsOK /\ QuestionsOK
    BY <1>1, <1>2, <1>3 DEF Unchanged, questionVars, QuestionsOK
  <2>2. /\ announced => current' = nextStatus' /\ ~IsDisconnected(current')
        /\ client = "up" /\ ~announced /\ ~InRequest
             => IsDisconnected(current') /\ IsDisconnected(nextStatus')
    BY <1>3 DEF IInv, AnnouncedIsWanted, SessionIsShown
  <2>3. client # "none" /\ state = "Disconnected" => IsDisconnected(current')
    BY <1>3 DEF IInv, SessionIsShown
  <2> QED BY <1>1, <1>3, <2>1, <2>2, <2>3, SameSessionInv DEF Unchanged, clientVars, StreamsOK
<1>4. CASE BothDisconnected(r) /\ ChangeDescription(r)
  <2>1. ~announced /\ IsDisconnected(current')
    BY <1>4 DEF IInv, AnnouncedIsWanted, BothDisconnected, ChangeDescription
  <2>2. WindowsOK
    BY <1>2, <1>4 DEF ChangeDescription
  <2>3. CASE state = "Connecting" /\ ShowDisconnected(questions, refusals)
    <3>1. QuestionsOK /\ state' = "Disconnected"
      BY <1>1, <2>3, ShowDisconnectedType
    <3>2. client # "up" /\ ~rosterAsked /\ ~announced
      BY <2>3, Facts
    <3>3. UNCHANGED <<client, abandoned, sessions, rosterAsked, announced>> /\ current' = r
      BY <1>4 DEF ChangeDescription, clientVars
    <3> QED BY <1>1, <2>1, <2>2, <3>1, <3>2, <3>3, NotUpInv DEF IInv, TypeOK, StreamsOK
  <2>4. CASE UNCHANGED <<state, questionVars>>
    <3>1. QuestionsOK
      BY <1>1, <2>4 DEF questionVars, QuestionsOK
    <3>2. UNCHANGED <<state, client, abandoned, sessions, rosterAsked, announced>> /\ current' = r
      BY <1>4, <2>4 DEF ChangeDescription, clientVars
    <3>3. IsDisconnected(nextStatus')
      BY <1>4 DEF BothDisconnected
    <3> QED BY <1>1, <2>1, <2>2, <3>1, <3>2, <3>3, SameSessionInv DEF StreamsOK
  <2> QED BY <1>4, <2>3, <2>4 DEF ChangeDescription
<1>5. CASE /\ state = "Disconnected" /\ UNCHANGED <<current, questionVars>>
           /\ ConnectToServer(hasPassword, passwordWindows)
  <2>1. passwordWindows' \in Nat /\ passwordWindows' <= MaxPasswordWindows
        /\ passwordWindows' >= passwordWindows
    BY <1>1, <1>5, ConnectToServerWindows
  <2>2. WindowsOK
    BY <2>1, WindowsKept
  <2>3. QuestionsOK
    BY <1>1, <1>5 DEF questionVars, QuestionsOK
  <2>4. client # "none" /\ state = "Disconnected" => IsDisconnected(current')
    BY <1>5 DEF IInv, SessionIsShown
  <2> QED BY <1>1, <1>5, <2>2, <2>3, <2>4, ConnectToServerInv
<1>6. CASE state = "Connected" /\ SetPresence(r)
  <2>1. current' = r /\ UNCHANGED <<abandoned, sessions, passwordWindows>>
    BY <1>6 DEF SetPresence
  <2>2. CASE IsDisconnected(r)
    <3>1. CleanUp /\ ShowDisconnected(questions, refusals)
      BY <1>6, <2>2 DEF SetPresence
    <3>2. QuestionsOK /\ state' = "Disconnected"
      BY <1>1, <3>1, ShowDisconnectedType
    <3> QED BY <1>1, <1>2, <2>1, <3>1, <3>2, NoClientInv DEF StreamsOK
  <2>3. CASE ~IsDisconnected(r)
    <3>1. announced' = Active(client) /\ UNCHANGED <<state, client, rosterAsked, questionVars>>
      BY <1>6, <2>3 DEF SetPresence
    <3>2. WindowsOK /\ QuestionsOK
      BY <1>1, <1>2, <2>1, <3>1 DEF questionVars, QuestionsOK
    <3>3. TypeOK'
      <4>1. announced' \in BOOLEAN
        BY <3>1 DEF Active
      <4> QED BY <1>1, <2>1, <3>1, <3>2, <4>1
              DEF IInv, TypeOK, RestOK, QuestionsOK, WindowsOK, RequestOK
    <3>4. SessionIsShown'
      BY <1>6, <3>1 DEF IInv, SessionIsShown
    <3>5. AnnouncedIsWanted'
      BY <2>1, <2>3, <3>1 DEF AnnouncedIsWanted, Active
    <3> QED BY <3>2, <3>3, <3>4, <3>5 DEF IInv, WindowsOK
  <2> QED BY <2>2, <2>3
<1>7. CASE r = current
  BY <1>3, <1>7 DEF ChangeStatus
<1>8. CASE r # current /\ state = "Connecting" /\ Unchanged /\ UNCHANGED current
  BY <1>3, <1>8
<1> QED BY <1>4, <1>5, <1>6, <1>7, <1>8 DEF ChangeStatus

\* logout(), whatever it is that calls it.
LEMMA LogoutInv ==
  ASSUME IInv, NEW a \in Nat, NEW q \in Nat, NEW f \in Nat, Logout(a, q, f),
         UNCHANGED <<idle, passwordWindows, cancelled, InRequest, retries, hasPassword>>,
         passwordErrors' \in 0..MaxPasswordWindows
  PROVE  /\ IInv'
         /\ ~Active(client') /\ ~announced'
         /\ IsDisconnected(nextStatus') \/ IsDisconnected(current)
         /\ state = "Connected" => IsDisconnected(current')
<1>1. /\ manual \in Status /\ current \in Status /\ idle \in IdleModes
      /\ Offline(current) \in Status /\ IsDisconnected(Offline(current))
  BY Facts
<1>2. /\ manual' \in Status /\ current' \in Status
      /\ IsDisconnected(manual') \/ (IsDisconnected(current) /\ manual' = manual)
      /\ state = "Connected" => IsDisconnected(current')
  BY <1>1 DEF Logout
<1>3. RestOK /\ InRequest' \in BOOLEAN
  BY <1>1, <1>2 DEF IInv, TypeOK, RestOK
<1>4. WindowsOK
  <2>1. passwordWindows \in Nat /\ passwordWindows <= MaxPasswordWindows
    BY Bounds DEF IInv, TypeOK
  <2> QED BY <1>2, <2>1, WindowsKept
<1>5. CleanUp
  BY DEF Logout
<1>6. StreamsOK
  <2>1. /\ abandoned' \in Nat /\ abandoned' <= MaxAbandoned
        /\ sessions' \in Nat /\ sessions' <= MaxAbandoned
    BY ReplacedType, Facts DEF Logout
  <2> QED BY <2>1, Bounds DEF StreamsOK
<1>7. QuestionsOK /\ state' = "Disconnected"
  <2>1. CASE LogsInAgain
    <3>1. /\ state' = "Disconnected" /\ questions' = 0 /\ refusals' \in Nat
          /\ refusals' <= MaxQuestions
      BY <2>1 DEF Logout
    <3>2. questions' \in 0..MaxQuestions /\ refusals' \in 0..MaxQuestions
      BY <3>1, Bounds
    <3> QED BY <3>1, <3>2 DEF QuestionsOK
  <2>2. CASE ~LogsInAgain
    <3>1. ShowDisconnected(q, f)
      BY <2>2 DEF Logout
    <3> QED BY <3>1, ShowDisconnectedType
  <2> QED BY <2>1, <2>2
<1>8. IInv'
  BY <1>2, <1>3, <1>4, <1>5, <1>6, <1>7, NoClientInv
<1>9. IsDisconnected(nextStatus') \/ IsDisconnected(current)
  BY <1>1, <1>2, ChangedType DEF nextStatus
<1> QED BY <1>2, <1>5, <1>8, <1>9 DEF CleanUp, Active

\* The client is gone, and the account shown as disconnected.
LEMMA DisconnectedFromServerInv ==
  ASSUME IInv, NEW a \in 0..MaxAbandoned, DisconnectedFromServer(a),
         UNCHANGED <<manual, idle, current, passwordWindows, cancelled, InRequest,
                     passwordErrors, hasPassword>>
  PROVE  /\ IInv'
         /\ ~IsDisconnected(nextStatus') => retries' > retries
<1>1. /\ manual \in Status /\ current \in Status /\ idle \in IdleModes
      /\ questions \in Nat /\ refusals \in Nat
  BY Facts
<1>2. retries \in Nat /\ retries' \in 0..MaxRetries
  BY Bounds DEF IInv, TypeOK, DisconnectedFromServer
<1>3. RestOK /\ InRequest' \in BOOLEAN
  BY <1>1, <1>2 DEF IInv, TypeOK, RestOK
<1>4. WindowsOK
  <2>1. passwordWindows \in Nat /\ passwordWindows <= MaxPasswordWindows
    BY Bounds DEF IInv, TypeOK
  <2> QED BY <2>1, WindowsKept
<1>5. QuestionsOK /\ state' = "Disconnected"
  BY <1>1, ShowDisconnectedType DEF DisconnectedFromServer
<1>6. IInv'
  <2>1. CleanUp /\ StreamsOK
    BY DEF DisconnectedFromServer, IInv, TypeOK, StreamsOK
  <2> QED BY <1>1, <1>3, <1>4, <1>5, <2>1, NoClientInv
<1>7. ~IsDisconnected(nextStatus') => retries' > retries
  BY <1>2 DEF DisconnectedFromServer, nextStatus
<1> QED BY <1>6, <1>7

\* The client connects again at once, or asks for the password.
LEMMA ReconnectInv ==
  ASSUME IInv, NEW a \in 0..MaxAbandoned, Reconnect(a),
         UNCHANGED <<manual, idle, current, questions, refusals, cancelled, InRequest, retries,
                     passwordErrors, hasPassword>>,
         state # "Disconnected", sessions' \in 0..MaxAbandoned
  PROVE  /\ IInv'
         /\ client' = "logging" \/ passwordWindows' > passwordWindows
<1>1. /\ manual \in Status /\ current \in Status /\ idle \in IdleModes
      /\ questions \in 0..MaxQuestions /\ refusals \in 0..MaxQuestions
      /\ passwordWindows \in Nat /\ passwordWindows <= MaxPasswordWindows
  BY Bounds DEF IInv, TypeOK
<1>2. /\ abandoned' = a
      /\ rosterAsked' = FALSE /\ announced' = FALSE
  BY DEF Reconnect
<1>3. /\ client' = "logging" \/ passwordWindows' = passwordWindows + 1
      /\ client' \in {"logging", "none"} /\ state' \in {"Connecting", state}
      /\ passwordWindows' \in Nat /\ passwordWindows' >= passwordWindows
      /\ passwordWindows' <= MaxPasswordWindows
  <2>1. CASE client' = "logging" /\ state' = "Connecting" /\ UNCHANGED passwordWindows
    BY <1>1, <2>1
  <2>2. CASE /\ client' = "none" /\ UNCHANGED state
             /\ passwordWindows < MaxPasswordWindows /\ passwordWindows' = passwordWindows + 1
    BY <1>1, <2>2, Bounds
  <2> QED BY <2>1, <2>2 DEF Reconnect
<1>4. RestOK /\ InRequest' \in BOOLEAN /\ QuestionsOK
  BY <1>1, <1>2 DEF IInv, TypeOK, RestOK, QuestionsOK
<1>6. WindowsOK
  BY <1>2, <1>3, WindowsKept
<1>7. state' \in {"Connecting", "Connected"}
  BY <1>3 DEF IInv, TypeOK
<1>8. IInv'
  BY <1>1, <1>2, <1>3, <1>4, <1>6, <1>7, NotUpInv DEF StreamsOK
<1>9. client' = "logging" \/ passwordWindows' > passwordWindows
  BY <1>1, <1>3
<1> QED BY <1>8, <1>9

-----------------------------------------------------------------------------
(* The actions.  Each keeps the invariant, and each that may end a session *)
(* says how: OfflineStep and LostStep make up SessionFollowsWish.          *)

OfflineStep ==
  announced /\ IsDisconnected(nextStatus')
    => ~Active(client') /\ ~announced' /\ IsDisconnected(current')

LostStep ==
  announced /\ ~Active(client') /\ ~IsDisconnected(nextStatus')
    => client' = "logging" \/ retries' > retries \/ passwordWindows' > passwordWindows

\* Announced sessions are wanted: with the same wish, nothing is to be ended.
LEMMA SameWishOffline ==
  ASSUME IInv, UNCHANGED <<manual, idle>>
  PROVE  OfflineStep
BY DEF OfflineStep, IInv, AnnouncedIsWanted, nextStatus

\* Without a session that is up there is nothing to be ended.
LEMMA NotConnectedSteps ==
  ASSUME IInv, state # "Connected"
  PROVE  OfflineStep /\ LostStep
BY Facts DEF OfflineStep, LostStep

\* A client that stays up is not lost.
LEMMA SameClientLost ==
  ASSUME IInv, client' = client
  PROVE  LostStep
BY DEF LostStep, IInv, AnnouncedIsWanted

\* What changeStatus ends it ends properly.
LEMMA ChangeStatusSteps ==
  ASSUME IInv, NEW r, ChangeStatus(r), nextStatus' = r
  PROVE  OfflineStep /\ LostStep
<1>1. CASE state # "Connected" \/ ~announced
  BY <1>1, NotConnectedSteps DEF OfflineStep, LostStep
<1>2. CASE state = "Connected" /\ announced
  <2>1. ~IsDisconnected(current) /\ Active(client)
    BY <1>2 DEF IInv, AnnouncedIsWanted
  <2>2. CASE r = current
    BY <2>1, <2>2 DEF ChangeStatus, Unchanged, clientVars, OfflineStep, LostStep
  <2>3. CASE r # current
    <3>1. SetPresence(r)
      BY <1>2, <2>1, <2>3 DEF ChangeStatus, BothDisconnected
    <3>2. current' = r
      BY <3>1 DEF SetPresence
    <3>3. CASE IsDisconnected(r)
      BY <3>1, <3>2, <3>3 DEF SetPresence, CleanUp, OfflineStep, LostStep, Active
    <3>4. CASE ~IsDisconnected(r)
      BY <2>1, <3>1, <3>4 DEF SetPresence, OfflineStep, LostStep
    <3> QED BY <3>3, <3>4
  <2> QED BY <2>2, <2>3
<1> QED BY <1>1, <1>2

\* The initial states satisfy the invariant.
LEMMA InitInv == Init => IInv
<1> SUFFICES ASSUME Init PROVE IInv
  OBVIOUS
<1>1. 0 \in 0..MaxRetries /\ 0 \in 0..MaxPasswordWindows /\ 0 \in 0..MaxQuestions /\ 0 \in 0..MaxAbandoned
  BY Bounds
<1>2. TypeOK
  BY <1>1, OfflineStatusType DEF Init, TypeOK, IdleModes
<1>3. SessionIsShown /\ AnnouncedIsWanted /\ CancelledIsOffline
  BY DEF Init, SessionIsShown, AnnouncedIsWanted, CancelledIsOffline
<1> QED BY <1>2, <1>3 DEF IInv

\* What every step that is not a stutter does.
Step == IInv' /\ OfflineStep /\ LostStep

\* The status is set in the menu or in the dialog for descriptions.
LEMMA UserSetsStatusStep ==
  ASSUME IInv, NEW s \in Status, NoWindow, manual' = s, ChangeStatus(Changed(idle, s)),
         UNCHANGED <<idle, InRequest, retries, passwordErrors, cancelled, hasPassword>>
  PROVE  Step
<1>1. nextStatus' = Changed(idle, s) /\ Changed(idle, s) \in Status
  BY Facts, ChangedType DEF nextStatus
<1>2. cancelled = {}
  BY Facts DEF NoWindow
<1>3. RestOK
  BY DEF IInv, TypeOK, RestOK
<1>4. IInv'
  BY <1>1, <1>2, <1>3, ChangeStatusInv
<1>5. OfflineStep /\ LostStep
  BY <1>1, ChangeStatusSteps
<1> QED BY <1>4, <1>5 DEF Step

\* The topmost password window closes: what is left of what it held up.
LEMMA UnwoundFacts ==
  ASSUME IInv, passwordWindows > 0, Unwound
  PROVE  /\ current' \in Status
         /\ current' = current \/ (~announced /\ IsDisconnected(current'))
         /\ \A w \in Nat : w >= passwordWindows - 1 => cancelled' \subseteq 1..w
         /\ passwordWindows - 1 \in 0..MaxPasswordWindows
         /\ cancelled' # {} => cancelled # {}
<1>1. passwordWindows \in Nat /\ passwordWindows <= MaxPasswordWindows
  BY Bounds DEF IInv, TypeOK
<1>2. cancelled \subseteq 1..passwordWindows
  BY DEF IInv, TypeOK
<1>3. current' \in Status /\ (current' = current \/ (~announced /\ IsDisconnected(current')))
  BY Facts DEF Unwound
<1>4. cancelled' = cancelled \ {passwordWindows}
  BY DEF Unwound
<1>5. ASSUME NEW w \in Nat, w >= passwordWindows - 1, NEW c \in cancelled' PROVE c \in 1..w
  <2>1. c \in 1..passwordWindows /\ c # passwordWindows
    BY <1>2, <1>4
  <2> QED BY <1>1, <1>5, <2>1
<1>6. passwordWindows - 1 \in 0..MaxPasswordWindows
  BY <1>1, Bounds
<1> QED BY <1>3, <1>4, <1>5, <1>6

\* The user's other actions.
LEMMA UserEditsAccountStep ==
  ASSUME IInv, NEW password \in BOOLEAN, UserEditsAccount(password)
  PROVE  Step
<1>1. TypeOK'
  BY DEF UserEditsAccount, IInv, TypeOK, clientVars, questionVars
<1>2. SessionIsShown' /\ AnnouncedIsWanted' /\ CancelledIsOffline'
  BY DEF UserEditsAccount, IInv, SessionIsShown, AnnouncedIsWanted, CancelledIsOffline,
         clientVars, nextStatus
<1>3. OfflineStep /\ LostStep
  BY SameWishOffline, SameClientLost DEF UserEditsAccount, clientVars
<1> QED BY <1>1, <1>2, <1>3 DEF IInv, Step

\* Windows as the topmost one leaves them, with the wish unchanged.
LEMMA UnwoundWindows ==
  ASSUME IInv, passwordWindows > 0, Unwound, UNCHANGED manual,
         passwordWindows' = passwordWindows - 1
  PROVE  WindowsOK
<1>1. passwordWindows - 1 \in 0..MaxPasswordWindows /\ passwordWindows - 1 \in Nat
  BY UnwoundFacts, Bounds
<1>2. cancelled' \subseteq 1..passwordWindows' /\ (cancelled' # {} => cancelled # {})
  BY <1>1, UnwoundFacts
<1>3. CancelledIsOffline'
  BY <1>2 DEF IInv, CancelledIsOffline
<1> QED BY <1>1, <1>2, <1>3 DEF WindowsOK

\* A password is entered: a login begins, unless the account is connected.
LEMMA PasswordEnteredStep ==
  ASSUME IInv, PasswordEntered
  PROVE  Step
<1>1. /\ passwordWindows > 0 /\ Unwound
      /\ UNCHANGED <<manual, idle, InRequest, questions, refusals, retries, passwordErrors>>
  BY DEF PasswordEntered, questionVars
<1>2. /\ current' \in Status
      /\ current' = current \/ (~announced /\ IsDisconnected(current'))
  BY <1>1, UnwoundFacts
<1>3. QuestionsOK /\ RequestOK /\ nextStatus' = nextStatus /\ InRequest' \in BOOLEAN
  BY <1>1 DEF IInv, TypeOK, QuestionsOK, RequestOK, nextStatus
<1>4. client # "none" /\ state = "Disconnected" => IsDisconnected(current')
  BY <1>2 DEF IInv, SessionIsShown
<1>5. CASE state = "Connected"
  <2>1. UNCHANGED <<state, client, abandoned, sessions, rosterAsked, announced, hasPassword>>
        /\ passwordWindows' = passwordWindows - 1
    BY <1>5 DEF PasswordEntered, clientVars
  <2>2. RestOK /\ WindowsOK
    BY <1>1, <2>1, UnwoundWindows DEF IInv, TypeOK, RestOK
  <2>3. /\ announced => current' = nextStatus' /\ ~IsDisconnected(current')
        /\ client = "up" /\ ~announced /\ ~InRequest
             => IsDisconnected(current') /\ IsDisconnected(nextStatus')
    BY <1>2, <1>3 DEF IInv, AnnouncedIsWanted
  <2>4. IInv'
    BY <1>2, <1>3, <1>4, <2>1, <2>2, <2>3, SameSessionInv DEF IInv, TypeOK, StreamsOK
  <2> QED BY <1>1, <2>1, <2>4, SameWishOffline, SameClientLost DEF Step
<1>6. CASE state # "Connected"
  <2>1. hasPassword' = TRUE /\ ConnectToServer(TRUE, passwordWindows - 1)
    BY <1>6 DEF PasswordEntered
  <2>2. RestOK
    BY <1>1, <2>1 DEF IInv, TypeOK, RestOK
  <2>3. WindowsOK
    BY <1>1, <2>1, UnwoundWindows DEF ConnectToServer
  <2>4. IInv'
    BY <1>2, <1>3, <1>4, <1>6, <2>1, <2>2, <2>3, ConnectToServerInv
  <2> QED BY <1>6, <2>4, NotConnectedSteps DEF Step
<1> QED BY <1>5, <1>6

\* A password window is closed by its frame.
LEMMA PasswordWindowClosedStep ==
  ASSUME IInv, PasswordWindowClosed
  PROVE  Step
<1>1. /\ passwordWindows > 0 /\ Unwound /\ passwordWindows' = passwordWindows - 1
      /\ UNCHANGED <<manual, idle, InRequest, questions, refusals, retries, passwordErrors,
                     hasPassword, state, client, abandoned, sessions, rosterAsked, announced>>
  BY DEF PasswordWindowClosed, questionVars, clientVars
<1>2. /\ current' \in Status
      /\ current' = current \/ (~announced /\ IsDisconnected(current'))
  BY <1>1, UnwoundFacts
<1>3. QuestionsOK /\ RequestOK /\ RestOK /\ nextStatus' = nextStatus
  BY <1>1 DEF IInv, TypeOK, QuestionsOK, RequestOK, RestOK, nextStatus
<1>4. client # "none" /\ state = "Disconnected" => IsDisconnected(current')
  BY <1>2 DEF IInv, SessionIsShown
<1>5. /\ announced => current' = nextStatus' /\ ~IsDisconnected(current')
      /\ client = "up" /\ ~announced /\ ~InRequest
           => IsDisconnected(current') /\ IsDisconnected(nextStatus')
  BY <1>2, <1>3 DEF IInv, AnnouncedIsWanted
<1>6. WindowsOK
  BY <1>1, UnwoundWindows
<1>7. IInv'
  BY <1>1, <1>2, <1>3, <1>4, <1>5, <1>6, SameSessionInv DEF IInv, TypeOK, StreamsOK
<1> QED BY <1>1, <1>7, SameWishOffline, SameClientLost DEF Step

\* A password window is cancelled, whatever that begins in its turn.
LEMMA PasswordCancelledStep ==
  ASSUME IInv, PasswordCancelled
  PROVE  Step
<1>1. /\ passwordWindows > 0
      /\ UNCHANGED <<idle, InRequest, questions, refusals, retries, passwordErrors, hasPassword>>
  BY DEF PasswordCancelled, questionVars
<1>2. CASE state = "Connected"
  <2>1. PasswordWindowClosed
    BY <1>1, <1>2 DEF PasswordCancelled, PasswordWindowClosed, questionVars
  <2> QED BY <2>1, PasswordWindowClosedStep
<1>3. CASE state # "Connected"
  <2>1. /\ manual' = Offline(current) /\ Offline(current) \in Status
        /\ IsDisconnected(Offline(current)) /\ current \in Status
        /\ client # "up" /\ ~rosterAsked /\ ~announced
    BY <1>1, <1>3, Facts DEF PasswordCancelled
  <2>2. RestOK /\ QuestionsOK /\ InRequest' \in BOOLEAN
    BY <1>1, <2>1 DEF IInv, TypeOK, RestOK, QuestionsOK
  <2>3. CancelledIsOffline'
    BY <2>1 DEF CancelledIsOffline
  <2>4. /\ passwordWindows \in Nat /\ passwordWindows <= MaxPasswordWindows
        /\ cancelled \subseteq 1..passwordWindows
        /\ passwordWindows - 1 \in 0..MaxPasswordWindows
    BY <1>1, Bounds DEF IInv, TypeOK
  <2>5. ASSUME cancelled' = cancelled \ {passwordWindows}, passwordWindows' = passwordWindows - 1
        PROVE  WindowsOK
    <3>1. \A c \in cancelled' : c \in 1..passwordWindows'
      <4>1. \A c \in cancelled' : c \in 1..passwordWindows /\ c # passwordWindows
        BY <2>4, <2>5
      <4> QED BY <2>4, <2>5, <4>1
    <3> QED BY <2>3, <2>4, <2>5, <3>1 DEF WindowsOK
  <2>6. CASE ~LogsInAgain
    <3>1. /\ passwordWindows' = passwordWindows - 1 /\ cancelled' = cancelled \ {passwordWindows}
          /\ UNCHANGED <<state, client, abandoned, sessions, rosterAsked, announced>>
          /\ current' = Offline(current)
      BY <1>3, <2>6 DEF PasswordCancelled, clientVars
    <3>2. IInv'
      BY <2>1, <2>2, <2>5, <3>1, NotUpInv DEF IInv, TypeOK, StreamsOK
    <3> QED BY <1>3, <3>2, NotConnectedSteps DEF Step
  <2>7. CASE LogsInAgain
    <3>1. ConnectToServer(hasPassword, passwordWindows - 1)
      BY <1>3, <2>7 DEF PasswordCancelled
    <3>2. CASE hasPassword
      <4>1. cancelled' = cancelled \ {passwordWindows} /\ current' = Offline(current)
        BY <1>3, <3>2 DEF PasswordCancelled
      <4>2. passwordWindows' = passwordWindows - 1
        BY <3>1, <3>2 DEF ConnectToServer
      <4>3. IInv'
        BY <1>3, <2>1, <2>2, <2>5, <3>1, <4>1, <4>2, ConnectToServerInv
      <4> QED BY <1>3, <4>3, NotConnectedSteps DEF Step
    <3>3. CASE ~hasPassword
      <4>1. cancelled' = cancelled \cup {passwordWindows} /\ current' = current
        BY <1>3, <2>7, <3>3 DEF PasswordCancelled
      <4>2. passwordWindows' = passwordWindows
        BY <2>4, <3>1, <3>3 DEF ConnectToServer
      <4>3. passwordWindows \in 1..passwordWindows /\ passwordWindows \in 0..MaxPasswordWindows
        BY <1>1, <2>4, Bounds
      <4>4. WindowsOK
        BY <2>3, <2>4, <4>1, <4>2, <4>3 DEF WindowsOK
      <4>5. client # "none" /\ state = "Disconnected" => IsDisconnected(current')
        BY <4>1 DEF IInv, SessionIsShown
      <4>6. IInv'
        BY <1>3, <2>1, <2>2, <3>1, <4>1, <4>4, <4>5, ConnectToServerInv
      <4> QED BY <1>3, <4>6, NotConnectedSteps DEF Step
    <3> QED BY <3>2, <3>3
  <2> QED BY <2>6, <2>7
<1> QED BY <1>2, <1>3

\* Questions about certificates.
LEMMA CertificateAcceptedStep ==
  ASSUME IInv, CertificateAccepted
  PROVE  Step
<1>1. /\ questions > 0 /\ questions' = questions - 1
      /\ UNCHANGED <<manual, idle, state, current, abandoned, sessions, rosterAsked, announced, InRequest,
                     refusals, retries, passwordErrors, passwordWindows, cancelled, hasPassword>>
  BY DEF CertificateAccepted
<1>2. client' = IF client = "asking" THEN "logging" ELSE client
  BY DEF CertificateAccepted
<1>3. questions' \in 0..MaxQuestions
  BY <1>1, Bounds DEF IInv, TypeOK
<1>4. TypeOK'
  BY <1>1, <1>2, <1>3 DEF IInv, TypeOK
<1>5. client # "none" /\ client' # "none" /\ (client' = "up" <=> client = "up")
      /\ (Active(client') <=> Active(client))
  BY <1>2 DEF CertificateAccepted, Active
<1>6. SessionIsShown' /\ AnnouncedIsWanted' /\ CancelledIsOffline'
  BY <1>1, <1>5 DEF IInv, SessionIsShown, AnnouncedIsWanted, CancelledIsOffline, nextStatus
<1>7. LostStep
  BY <1>5 DEF LostStep, IInv, AnnouncedIsWanted
<1> QED BY <1>1, <1>4, <1>6, <1>7, SameWishOffline DEF IInv, Step

\* Logout answers for both properties.
LEMMA LogoutStep ==
  ASSUME IInv, NEW a \in Nat, NEW q \in Nat, NEW f \in Nat, Logout(a, q, f),
         UNCHANGED <<idle, passwordWindows, cancelled, InRequest, retries, hasPassword>>,
         passwordErrors' \in 0..MaxPasswordWindows
  PROVE  Step
<1>1. /\ IInv'
      /\ ~Active(client') /\ ~announced'
      /\ IsDisconnected(nextStatus') \/ IsDisconnected(current)
      /\ state = "Connected" => IsDisconnected(current')
  BY LogoutInv
<1>2. announced => state = "Connected" /\ ~IsDisconnected(current)
  BY DEF IInv, AnnouncedIsWanted, SessionIsShown
<1> QED BY <1>1, <1>2 DEF Step, OfflineStep, LostStep

\* A certificate is rejected, or its question was closed by a disconnect.
LEMMA CertificateRejectedStep ==
  ASSUME IInv, CertificateRejected
  PROVE  Step
<1>1. /\ UNCHANGED <<idle, passwordWindows, cancelled, InRequest, retries, hasPassword>>
      /\ passwordErrors' \in 0..MaxPasswordWindows
  BY DEF CertificateRejected, IInv, TypeOK
<1>2. questions \in Nat /\ refusals \in Nat /\ abandoned \in Nat
  BY Facts
<1>3. CASE questions > 0 /\ Logout(abandoned, questions - 1, refusals)
  <2>1. questions - 1 \in Nat
    BY <1>2, <1>3
  <2> QED BY <1>1, <1>2, <1>3, <2>1, LogoutStep
<1>4. CASE refusals > 0 /\ Logout(abandoned, questions, refusals - 1)
  <2>1. refusals - 1 \in Nat
    BY <1>2, <1>4
  <2> QED BY <1>1, <1>2, <1>4, <2>1, LogoutStep
<1> QED BY <1>3, <1>4 DEF CertificateRejected

\* So do all actions of the user.
LEMMA UserStep == IInv /\ User => Step
<1> SUFFICES ASSUME IInv, User PROVE Step
  OBVIOUS
<1>1. ASSUME NEW type \in UserTypes, UserSetsType(type) PROVE Step
  <2>1. [current EXCEPT !.type = type] \in Status
    BY Facts, StatusEdits, JabberAssumption DEF JabberAssumption
  <2> QED BY <1>1, <2>1, UserSetsStatusStep DEF UserSetsType
<1>2. ASSUME NEW d \in Descriptions, UserSetsDescription(d) PROVE Step
  <2>1. [current EXCEPT !.description = d] \in Status
    BY Facts, StatusEdits
  <2> QED BY <1>2, <2>1, UserSetsStatusStep DEF UserSetsDescription
<1> QED BY <1>1, <1>2, UserEditsAccountStep, PasswordEnteredStep, PasswordCancelledStep,
           PasswordWindowClosedStep, CertificateAcceptedStep, CertificateRejectedStep DEF User

\* Timers and queued signals.
LEMMA TimersStep == IInv /\ Timers => Step
<1> SUFFICES ASSUME IInv, Timers PROVE Step
  OBVIOUS
<1>1. ASSUME NEW mode \in UserModes, IdleChanges(mode) PROVE Step
  <2>1. mode \in IdleModes
    BY JabberAssumption DEF JabberAssumption
  <2>2. nextStatus' = Changed(mode, manual) /\ Changed(mode, manual) \in Status
    BY <1>1, <2>1, Facts, ChangedType DEF IdleChanges, nextStatus
  <2>3. /\ ChangeStatus(Changed(mode, manual))
        /\ UNCHANGED <<manual, InRequest, cancelled>>
    BY <1>1 DEF IdleChanges
  <2>4. RestOK
    BY <1>1, <2>1 DEF IdleChanges, IInv, TypeOK, RestOK
  <2>5. IInv'
    BY <2>2, <2>3, <2>4, ChangeStatusInv
  <2>6. OfflineStep /\ LostStep
    BY <2>2, <2>3, ChangeStatusSteps
  <2> QED BY <2>5, <2>6 DEF Step
<1>2. CASE LoginTimer
  <2>1. /\ retries > 0 /\ retries' = retries - 1
        /\ UNCHANGED <<manual, idle, current, InRequest, questions, refusals, passwordErrors,
                       cancelled, hasPassword>>
    BY <1>2 DEF LoginTimer, questionVars
  <2>2. retries' \in 0..MaxRetries
    BY <2>1, Bounds DEF IInv, TypeOK
  <2>3. RestOK /\ QuestionsOK /\ RequestOK /\ nextStatus' = nextStatus /\ InRequest' \in BOOLEAN
    BY <2>1, <2>2 DEF IInv, TypeOK, RestOK, QuestionsOK, RequestOK, nextStatus
  <2>4. passwordWindows \in Nat /\ passwordWindows <= MaxPasswordWindows
    BY Bounds DEF IInv, TypeOK
  <2>5. client # "none" /\ state = "Disconnected" => IsDisconnected(current')
    BY <2>1 DEF IInv, SessionIsShown
  <2>6. CASE state = "Connected"
    <3>1. UNCHANGED <<state, client, abandoned, sessions, rosterAsked, announced, passwordWindows>>
      BY <1>2, <2>6 DEF LoginTimer, clientVars
    <3>2. WindowsOK
      BY <2>1, <2>4, <3>1, WindowsKept
    <3>3. /\ announced => current' = nextStatus' /\ ~IsDisconnected(current')
          /\ client = "up" /\ ~announced /\ ~InRequest
               => IsDisconnected(current') /\ IsDisconnected(nextStatus')
      BY <2>1, <2>3 DEF IInv, AnnouncedIsWanted
    <3>4. IInv'
      BY <2>1, <2>3, <2>5, <3>1, <3>2, <3>3, SameSessionInv DEF IInv, TypeOK, StreamsOK
    <3> QED BY <2>1, <3>1, <3>4, SameWishOffline, SameClientLost DEF Step
  <2>7. CASE state # "Connected"
    <3>1. ConnectToServer(hasPassword, passwordWindows)
      BY <1>2, <2>7 DEF LoginTimer
    <3>2. /\ passwordWindows' \in Nat /\ passwordWindows' <= MaxPasswordWindows
          /\ passwordWindows' >= passwordWindows
      BY <2>4, <3>1, ConnectToServerWindows
    <3>3. WindowsOK
      BY <2>1, <3>2, WindowsKept
    <3>4. current' \in Status
      BY <2>1, Facts
    <3>5. IInv'
      BY <2>3, <2>5, <2>7, <3>1, <3>3, <3>4, ConnectToServerInv
    <3> QED BY <2>7, <3>5, NotConnectedSteps DEF Step
  <2> QED BY <2>6, <2>7
<1>3. CASE AskForValidPassword
  <2>1. /\ passwordErrors > 0 /\ passwordErrors' = passwordErrors - 1
        /\ passwordWindows < MaxPasswordWindows /\ passwordWindows' = passwordWindows + 1
        /\ UNCHANGED <<manual, idle, state, current, client, abandoned, sessions, rosterAsked, announced,
                       InRequest, questions, refusals, retries, cancelled, hasPassword>>
    BY <1>3 DEF AskForValidPassword, clientVars, questionVars
  <2>2. /\ passwordErrors' \in 0..MaxPasswordWindows
        /\ passwordWindows' \in Nat /\ passwordWindows' <= MaxPasswordWindows
        /\ passwordWindows' >= passwordWindows
    BY <2>1, Bounds DEF IInv, TypeOK
  <2>3. WindowsOK
    BY <2>1, <2>2, WindowsKept
  <2>4. RestOK /\ QuestionsOK /\ RequestOK
    BY <2>1, <2>2 DEF IInv, TypeOK, RestOK, QuestionsOK, RequestOK
  <2>5. /\ announced => current' = nextStatus' /\ ~IsDisconnected(current')
        /\ client = "up" /\ ~announced /\ ~InRequest
             => IsDisconnected(current') /\ IsDisconnected(nextStatus')
    BY <2>1 DEF IInv, AnnouncedIsWanted, nextStatus
  <2>6. client # "none" /\ state = "Disconnected" => IsDisconnected(current')
    BY <2>1 DEF IInv, SessionIsShown
  <2>7. IInv'
    BY <2>1, <2>3, <2>4, <2>5, <2>6, SameSessionInv DEF IInv, TypeOK, StreamsOK
  <2> QED BY <2>1, <2>7, SameWishOffline, SameClientLost DEF Step
<1> QED BY <1>1, <1>2, <1>3 DEF Timers

\* The server and the streams.
LEMMA CertificateDoubtedStep ==
  ASSUME IInv, CertificateDoubted
  PROVE  Step
<1>1. /\ client = "logging" /\ client' = "asking" /\ questions' = questions + 1
      /\ questions + refusals < MaxQuestions
      /\ UNCHANGED <<manual, idle, state, current, abandoned, sessions, rosterAsked, announced, InRequest,
                     refusals, retries, passwordErrors, passwordWindows, cancelled, hasPassword>>
  BY DEF CertificateDoubted
<1>2. questions' \in 0..MaxQuestions
  <2>1. questions \in Nat /\ refusals \in Nat
    BY Facts
  <2> QED BY <1>1, <2>1, Bounds
<1>3. TypeOK'
  BY <1>1, <1>2 DEF IInv, TypeOK
<1>4. SessionIsShown' /\ AnnouncedIsWanted' /\ CancelledIsOffline'
  BY <1>1 DEF IInv, SessionIsShown, AnnouncedIsWanted, CancelledIsOffline, nextStatus, Active
<1>5. LostStep
  BY <1>1 DEF IInv, LostStep, AnnouncedIsWanted, Active
<1> QED BY <1>1, <1>3, <1>4, <1>5, SameWishOffline DEF IInv, Step

\* connectedToServer of a client that is not a lesser one than before.
LEMMA ConnectedToServerStep ==
  ASSUME IInv, ConnectedToServer, client' = client \/ client' = "up",
         client = "logging" /\ client' # client => ~announced,
         sessions' \in 0..MaxAbandoned,
         UNCHANGED <<manual, idle, current, abandoned, announced, questions, refusals, retries,
                     passwordErrors, passwordWindows, cancelled, hasPassword>>
  PROVE  Step
<1>1. /\ state' = "Connected" /\ InRequest' = TRUE /\ rosterAsked' \in BOOLEAN
      /\ rosterAsked' => rosterAsked \/ Active(client')
  BY DEF ConnectedToServer, IInv, TypeOK
<1>2. Active(client) => Active(client')
  BY DEF Active
<1>3. TypeOK'
  BY <1>1 DEF IInv, TypeOK
<1>4. SessionIsShown'
  BY <1>1, <1>2 DEF IInv, SessionIsShown
<1>5. AnnouncedIsWanted' /\ CancelledIsOffline'
  BY <1>1, <1>2 DEF IInv, AnnouncedIsWanted, CancelledIsOffline, nextStatus
<1>6. LostStep
  BY <1>2 DEF IInv, LostStep, AnnouncedIsWanted
<1> QED BY <1>3, <1>4, <1>5, <1>6, SameWishOffline DEF IInv, Step

\* The client is authenticated: it asks for a session, or, of an old server,
\* has one.
LEMMA AuthenticatedStep ==
  ASSUME IInv, Authenticated
  PROVE  Step
<1>1. /\ client = "logging"
      /\ UNCHANGED <<manual, idle, current, abandoned, sessions, announced, questions, refusals,
                     retries, passwordErrors, passwordWindows, cancelled, hasPassword>>
  BY DEF Authenticated, questionVars
<1>2. ~announced /\ ~rosterAsked
  BY <1>1 DEF IInv, AnnouncedIsWanted, SessionIsShown, Active
<1>3. CASE client' = "starting" /\ UNCHANGED <<state, InRequest, rosterAsked>>
  <2>1. TypeOK'
    BY <1>1, <1>3 DEF IInv, TypeOK
  <2>2. SessionIsShown' /\ AnnouncedIsWanted' /\ CancelledIsOffline'
    BY <1>1, <1>2, <1>3 DEF IInv, SessionIsShown, AnnouncedIsWanted, CancelledIsOffline
  <2> QED BY <1>2, <2>1, <2>2 DEF IInv, Step, OfflineStep, LostStep
<1>4. CASE client' = "up" /\ ConnectedToServer
  <2>1. sessions' \in 0..MaxAbandoned
    BY <1>1 DEF IInv, TypeOK
  <2> QED BY <1>1, <1>2, <1>4, <2>1, ConnectedToServerStep
<1> QED BY <1>3, <1>4 DEF Authenticated

\* A request for a session is granted, whoever sent it.
LEMMA SessionStartedStep ==
  ASSUME IInv, SessionStarted
  PROVE  Step
<1>1. /\ ConnectedToServer
      /\ UNCHANGED <<manual, idle, current, abandoned, announced, questions, refusals, retries,
                     passwordErrors, passwordWindows, cancelled, hasPassword>>
  BY DEF SessionStarted, questionVars
<1>2. sessions \in 0..MaxAbandoned /\ (sessions > 0 => sessions - 1 \in 0..MaxAbandoned)
  BY Bounds DEF IInv, TypeOK
<1>3. /\ client' = client \/ (client = "starting" /\ client' = "up")
      /\ sessions' \in 0..MaxAbandoned
  BY <1>2 DEF SessionStarted
<1> QED BY <1>1, <1>3, ConnectedToServerStep

\* The roster has come: the first presence is sent, or the session ended.
LEMMA RosterAnsweredStep ==
  ASSUME IInv, RosterAnswered
  PROVE  Step
<1>1. /\ rosterAsked /\ rosterAsked' = FALSE /\ InRequest' = FALSE /\ InitialPresence
      /\ UNCHANGED <<manual, idle, retries, passwordErrors, passwordWindows, cancelled,
                     hasPassword>>
  BY DEF RosterAnswered
<1>2. /\ Active(client) /\ state = "Connected" /\ nextStatus' = nextStatus
      /\ nextStatus \in Status
  BY <1>1, Facts DEF IInv, SessionIsShown, nextStatus
<1>3. /\ current' = nextStatus /\ UNCHANGED <<abandoned, sessions>>
  BY <1>1 DEF InitialPresence
<1>4. WindowsOK /\ RestOK
  <2>1. passwordWindows \in Nat /\ passwordWindows <= MaxPasswordWindows
    BY Bounds DEF IInv, TypeOK
  <2>2. RestOK
    BY <1>1 DEF IInv, TypeOK, RestOK
  <2> QED BY <1>1, <2>1, <2>2, WindowsKept
<1>5. CASE /\ BothDisconnected(nextStatus)
           /\ UNCHANGED <<state, client, abandoned, sessions, announced, questionVars>>
  <2>1. ~announced
    BY <1>5 DEF IInv, AnnouncedIsWanted, BothDisconnected
  <2>2. TypeOK'
    BY <1>1, <1>2, <1>3, <1>5 DEF IInv, TypeOK, questionVars
  <2>3. SessionIsShown' /\ AnnouncedIsWanted' /\ CancelledIsOffline'
    BY <1>1, <1>2, <1>3, <1>5, <2>1
    DEF IInv, SessionIsShown, AnnouncedIsWanted, CancelledIsOffline, BothDisconnected
  <2> QED BY <1>1, <1>5, <2>2, <2>3, SameWishOffline, SameClientLost DEF IInv, Step
<1>6. CASE /\ IsDisconnected(nextStatus)
           /\ client' = "none" /\ announced' = FALSE /\ ShowDisconnected(questions, refusals)
  <2>1. QuestionsOK /\ state' = "Disconnected"
    BY <1>6, Facts, ShowDisconnectedType
  <2>2. CleanUp
    BY <1>1, <1>6 DEF CleanUp
  <2>3. StreamsOK /\ current' \in Status
    BY <1>2, <1>3 DEF IInv, TypeOK, StreamsOK
  <2>4. IInv'
    BY <1>1, <1>4, <2>1, <2>2, <2>3, NoClientInv
  <2>5. LostStep
    BY <1>2, <1>6 DEF LostStep
  <2> QED BY <1>1, <2>4, <2>5, SameWishOffline DEF Step
<1>7. CASE /\ ~IsDisconnected(nextStatus)
           /\ announced' = TRUE /\ UNCHANGED <<state, client, questionVars>>
  <2>1. TypeOK'
    BY <1>1, <1>2, <1>3, <1>7 DEF IInv, TypeOK, questionVars
  <2>2. SessionIsShown' /\ AnnouncedIsWanted' /\ CancelledIsOffline'
    BY <1>1, <1>2, <1>3, <1>7 DEF IInv, SessionIsShown, AnnouncedIsWanted, CancelledIsOffline
  <2> QED BY <1>1, <1>7, <2>1, <2>2, SameWishOffline, SameClientLost DEF IInv, Step
<1> QED BY <1>1, <1>5, <1>6, <1>7 DEF InitialPresence, BothDisconnected

\* How many streams are left when one of the abandoned ones ends.
LEMMA StreamsLeft ==
  ASSUME IInv
  PROVE  /\ abandoned \in 0..MaxAbandoned
         /\ abandoned > 0 => abandoned - 1 \in 0..MaxAbandoned
  BY Bounds DEF IInv, TypeOK

\* A stream is closed, be it the one of the session or not.
LEMMA StreamClosedStep ==
  ASSUME IInv, StreamClosed
  PROVE  Step
<1>1. UNCHANGED <<manual, idle, current, passwordWindows, cancelled, InRequest,
                  passwordErrors, hasPassword>>
  BY DEF StreamClosed
<1>2. PICK a \in 0..MaxAbandoned : DisconnectedFromServer(a)
  <2>1. CASE DisconnectedFromServer(abandoned)
    BY <2>1, StreamsLeft
  <2>2. CASE abandoned > 0 /\ DisconnectedFromServer(abandoned - 1)
    BY <2>2, StreamsLeft
  <2> QED BY <2>1, <2>2 DEF StreamClosed
<1>3. IInv' /\ (~IsDisconnected(nextStatus') => retries' > retries)
  BY <1>1, <1>2, DisconnectedFromServerInv
<1> QED BY <1>1, <1>3, SameWishOffline DEF Step, LostStep

\* A stream fails while the account is shown as connecting or connected.
LEMMA StreamErrorStep ==
  ASSUME IInv, StreamError
  PROVE  Step
<1>1. UNCHANGED <<idle, InRequest, retries, passwordErrors, cancelled, hasPassword>>
  BY DEF StreamError
<1>2. PICK a \in 0..MaxAbandoned : ErrorHandled(a)
  <2>1. CASE ErrorHandled(abandoned)
    BY <2>1, StreamsLeft
  <2>2. CASE abandoned > 0 /\ ErrorHandled(abandoned - 1)
    BY <2>2, StreamsLeft
  <2> QED BY <2>1, <2>2 DEF StreamError
<1>3. CASE Reconnect(a) /\ UNCHANGED <<manual, current, sessions, questionVars>>
  <2>1. sessions' \in 0..MaxAbandoned
    BY <1>3 DEF IInv, TypeOK
  <2>2. IInv' /\ (client' = "logging" \/ passwordWindows' > passwordWindows)
    BY <1>1, <1>2, <1>3, <2>1, ReconnectInv DEF ErrorHandled, questionVars
  <2> QED BY <1>1, <1>3, <2>2, SameWishOffline DEF Step, LostStep
<1>4. CASE Logout(a, questions, refusals) /\ UNCHANGED passwordWindows
  <2>1. a \in Nat /\ questions \in Nat /\ refusals \in Nat
    BY Facts, Bounds
  <2>2. passwordErrors' \in 0..MaxPasswordWindows
    BY <1>1 DEF IInv, TypeOK
  <2> QED BY <1>1, <1>4, <2>1, <2>2, LogoutStep
<1> QED BY <1>2, <1>3, <1>4 DEF ErrorHandled

\* A stream fails while the account is shown as disconnected.
LEMMA StreamErrorIgnoredStep ==
  ASSUME IInv, StreamErrorIgnored
  PROVE  Step
<1>1. /\ state = "Disconnected" /\ client' \in {client, "broken"}
      /\ (client = "none" => client' = "none")
      /\ abandoned' = abandoned \/ (abandoned > 0 /\ abandoned' = abandoned - 1)
      /\ UNCHANGED <<manual, idle, state, current, sessions, rosterAsked, announced, InRequest,
                     questions, refusals, retries, passwordErrors, passwordWindows, cancelled,
                     hasPassword>>
  BY DEF StreamErrorIgnored, questionVars
<1>2. StreamsOK
  BY <1>1, StreamsLeft DEF IInv, TypeOK, StreamsOK
<1>3. TypeOK'
  BY <1>1, <1>2 DEF IInv, TypeOK, StreamsOK
<1>4. client # "up" /\ ~rosterAsked /\ ~announced
  BY <1>1, Facts
<1>5. SessionIsShown' /\ AnnouncedIsWanted' /\ CancelledIsOffline'
  BY <1>1, <1>4 DEF IInv, SessionIsShown, AnnouncedIsWanted, CancelledIsOffline
<1> QED BY <1>1, <1>3, <1>5, NotConnectedSteps DEF IInv, Step

\* The request of a replaced client for a session is refused.
LEMMA SessionRefusedStep ==
  ASSUME IInv, SessionRefused
  PROVE  Step
<1>1. /\ sessions > 0 /\ sessions' = sessions - 1
      /\ UNCHANGED <<manual, idle, current, InRequest, questions, refusals, retries,
                     passwordErrors, cancelled, hasPassword>>
  BY DEF SessionRefused, questionVars
<1>2. sessions' \in 0..MaxAbandoned /\ abandoned \in 0..MaxAbandoned
  BY <1>1, Bounds DEF IInv, TypeOK
<1>3. CASE /\ state = "Disconnected"
           /\ UNCHANGED <<state, client, abandoned, rosterAsked, announced, passwordWindows>>
  <2>1. TypeOK'
    BY <1>1, <1>2, <1>3 DEF IInv, TypeOK
  <2>2. SessionIsShown' /\ AnnouncedIsWanted' /\ CancelledIsOffline'
    BY <1>1, <1>3 DEF IInv, SessionIsShown, AnnouncedIsWanted, CancelledIsOffline, nextStatus
  <2> QED BY <1>3, <2>1, <2>2, NotConnectedSteps DEF IInv, Step
<1>4. CASE state # "Disconnected" /\ Reconnect(abandoned)
  <2>1. IInv' /\ (client' = "logging" \/ passwordWindows' > passwordWindows)
    BY <1>1, <1>2, <1>4, ReconnectInv
  <2> QED BY <1>1, <2>1, SameWishOffline DEF Step, LostStep
<1> QED BY <1>3, <1>4 DEF SessionRefused

\* The server rejects the password.
LEMMA PasswordDeniedStep ==
  ASSUME IInv, PasswordDenied
  PROVE  Step
<1>1. /\ passwordErrors < MaxPasswordWindows /\ passwordErrors' = passwordErrors + 1
      /\ Logout(abandoned, questions, refusals)
      /\ UNCHANGED <<idle, InRequest, retries, passwordWindows, cancelled, hasPassword>>
  BY DEF PasswordDenied
<1>2. passwordErrors' \in 0..MaxPasswordWindows
  BY <1>1, Bounds DEF IInv, TypeOK
<1> QED BY <1>1, <1>2, Facts, LogoutStep

\* The server offers no encryption.
LEMMA TlsMissingStep ==
  ASSUME IInv, TlsMissing
  PROVE  Step
<1>1. /\ Logout(abandoned, questions, refusals)
      /\ UNCHANGED <<idle, InRequest, retries, passwordErrors, passwordWindows, cancelled,
                     hasPassword>>
  BY DEF TlsMissing
<1>2. passwordErrors' \in 0..MaxPasswordWindows
  BY <1>1 DEF IInv, TypeOK
<1> QED BY <1>1, <1>2, Facts, LogoutStep

\* A stutter changes nothing of it.
LEMMA StutterStep == IInv /\ UNCHANGED vars => Step
<1> SUFFICES ASSUME IInv, UNCHANGED vars PROVE Step
  OBVIOUS
<1>1. UNCHANGED <<manual, idle, state, current, client, abandoned, sessions, rosterAsked, announced,
                  InRequest, questions, refusals, retries, passwordErrors, passwordWindows,
                  cancelled, hasPassword>>
  BY DEF vars, clientVars, questionVars
<1>2. TypeOK'
  BY <1>1 DEF IInv, TypeOK
<1>3. SessionIsShown' /\ AnnouncedIsWanted' /\ CancelledIsOffline'
  BY <1>1 DEF IInv, SessionIsShown, AnnouncedIsWanted, CancelledIsOffline, nextStatus
<1> QED BY <1>1, <1>2, <1>3, SameWishOffline, SameClientLost DEF IInv, Step

\* Every step keeps the invariant and ends sessions as the properties say.
LEMMA NextStep == IInv /\ [Next]_vars => Step
  BY UserStep, TimersStep, CertificateDoubtedStep, AuthenticatedStep, SessionStartedStep,
     SessionRefusedStep, RosterAnsweredStep, StreamClosedStep, StreamErrorStep, StreamErrorIgnoredStep, PasswordDeniedStep,
     TlsMissingStep, StutterStep
  DEF Next, Server

-----------------------------------------------------------------------------
(* The theorems.                                                           *)

\* The invariant holds in every reachable state, for every set of
\* descriptions and every bound.
THEOREM JabberInvariance == Spec => []IInv
<1>1. IInv /\ [Next]_vars => IInv'
  BY NextStep DEF Step
<1> QED BY InitInv, <1>1, PTL DEF Spec

\* Every variable of the Jabber connection keeps its type, whatever windows
\* and streams interfere.
THEOREM JabberTypeCorrect == Spec => []TypeOK
<1>1. IInv => TypeOK
  BY DEF IInv
<1> QED BY JabberInvariance, <1>1, PTL

\* A session that is up, and one that is owed a roster or has sent a presence, is
\* shown as connected; only an active client is owed a roster; and a login that is
\* not shown belongs to a user shown as offline.
THEOREM SessionIsAlwaysShown == Spec => []SessionIsShown
<1>1. IInv => SessionIsShown
  BY DEF IInv
<1> QED BY JabberInvariance, <1>1, PTL

\* The presence the server was told is what the account shows and what the
\* user wants.
THEOREM AnnouncedIsAlwaysWanted == Spec => []AnnouncedIsWanted
<1>1. IInv => AnnouncedIsWanted
  BY DEF IInv
<1> QED BY JabberInvariance, <1>1, PTL

\* Going offline, by hand or by idleness, ends an announced session in that
\* step, and one that is lost otherwise is tried again or asked about.
THEOREM SessionsFollowTheWish == Spec => SessionFollowsWish
<1>1. IInv /\ [Next]_vars => OfflineStep /\ LostStep
  BY NextStep DEF Step
<1>2. IInv /\ [Next]_vars
        => [announced =>
              /\ IsDisconnected(nextStatus')
                   => ~Active(client') /\ ~announced' /\ IsDisconnected(current')
              /\ ~Active(client') /\ ~IsDisconnected(nextStatus')
                   => \/ client' = "logging"
                      \/ retries' > retries \/ passwordWindows' > passwordWindows]_vars
  BY <1>1 DEF OfflineStep, LostStep
<1> QED BY JabberInvariance, <1>2, PTL DEF Spec, SessionFollowsWish
=============================================================================
