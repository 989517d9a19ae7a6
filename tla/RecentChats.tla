---------------------------- MODULE RecentChats ----------------------------
(***************************************************************************)
(* RecentChatManager: the chats of the "Recent chats" menu, most recent    *)
(* first, each with the time it was put on top.  They are forgotten when   *)
(* there are too many or they are too old, written to the configuration    *)
(* whenever it is flushed, and read back lazily after a restart.           *)
(*                                                                         *)
(* A chat is a value; the configuration is the sequence of the Chat        *)
(* elements below the RecentChats node.  What a flush writes reaches the   *)
(* disk at once (ConfigurationManager::flush), so a crash leaves the       *)
(* elements as they are.  Messages carry distinct times.  The operators    *)
(* AddOnlyNew, MoveKeepsTime, NothingRemoved and ElementsWithExpiry are    *)
(* mistakes one could make here, to show that the properties would notice. *)
(***************************************************************************)
EXTENDS Integers, SequencesExt

CONSTANTS Chats,
          MaxRecentChatCount,   \* MAX_RECENT_CHAT_COUNT, 20
          Timeouts,             \* values of RecentChatsTimeout; 0: keep for ever
          MaxTime, MaxRestarts  \* bounds

RecentAssumption ==
  /\ MaxRecentChatCount \in Nat \ {0}
  /\ Timeouts \subseteq Nat /\ 0 \in Timeouts
  /\ MaxTime \in Nat /\ MaxRestarts \in Nat
ASSUME RecentAssumption

VARIABLES
  recent,              \* RecentChats: [list: the chats, time: chat -> its "recent-chat" module data]
  loaded,              \* StateLoaded rather than StateNotLoaded
  stored,              \* the elements in the configuration, in their order
  RecentChatsTimeout, RecentChatsClear,
  now,                 \* the clock
  lastUse,             \* chat -> the time of its last message, 0 for none
  started,             \* the time this run of the program began
  restarts

config == <<RecentChatsTimeout, RecentChatsClear>>
clock == <<now, started, restarts>>
vars == <<recent, loaded, stored, config, clock, lastUse>>

Times == 0..MaxTime
Element == [chat : Chats, time : Times]
NothingRecent == [list |-> <<>>, time |-> [c \in Chats |-> 0]]

Init ==
  /\ recent = NothingRecent /\ loaded = FALSE /\ stored = <<>>
  /\ RecentChatsTimeout \in Timeouts /\ RecentChatsClear \in BOOLEAN
  /\ now = 0 /\ started = 0 /\ restarts = 0
  /\ lastUse = [c \in Chats |-> 0]

-----------------------------------------------------------------------------
(* The list *)

\* removeRecentChat for each of gone: what is left, in its order.
Kept(list, gone) ==
  LET kept[n \in 0..Len(list)] ==
        IF n = 0 THEN <<>>
        ELSE IF list[n] \in gone THEN kept[n - 1] ELSE Append(kept[n - 1], list[n])
  IN  kept[Len(list)]

Limited(list) ==
  IF Len(list) < MaxRecentChatCount THEN list ELSE SubSeq(list, 1, MaxRecentChatCount - 1)

AddOnlyNew(r, chat, datetime) ==
  IF chat \in ToSet(r.list)
  THEN r
  ELSE [list |-> <<chat>> \o Limited(r.list),
        time |-> [r.time EXCEPT ![chat] = datetime]]

MoveKeepsTime(r, chat, datetime) ==
  IF r.list # <<>> /\ Head(r.list) = chat
  THEN r
  ELSE [list |-> <<chat>> \o Limited(Kept(r.list, {chat})),
        time |-> IF chat \in ToSet(r.list) THEN r.time ELSE [r.time EXCEPT ![chat] = datetime]]

\* A chat that is on top already keeps the time it got there.
AddRecentChat(r, chat, datetime) ==
  IF r.list # <<>> /\ Head(r.list) = chat
  THEN r
  ELSE [list |-> <<chat>> \o Limited(Kept(r.list, {chat})),
        time |-> [r.time EXCEPT ![chat] = datetime]]

\* Backwards, because chats are added on top.
Load ==
  LET load[n \in 0..Len(stored)] ==
        IF n = 0 THEN recent
        ELSE LET element == stored[Len(stored) + 1 - n]
             IN  AddRecentChat(load[n - 1], element.chat, element.time)
  IN  load[Len(stored)]

Loaded == IF loaded THEN recent ELSE Load

TooOld(chat) == recent.time[chat] + RecentChatsTimeout < now

\* The chats a clean-up would leave now.
AfterCleanUp == Kept(recent.list, {c \in Chats : TooOld(c)})

-----------------------------------------------------------------------------
(* Storing *)

\* removeChild(chatElements.at(i)) for i rising: the list of nodes is live, so
\* every removal moves the next element out of the reach of i.
NothingRemoved == stored

LeftOver == [i \in 1..(Len(stored) \div 2) |-> stored[2 * i]]

ElementsWithExpiry(r) ==
  IF RecentChatsClear THEN <<>>
  ELSE [i \in 1..Len(r.list) |->
          [chat |-> r.list[i], time |-> r.time[r.list[i]] + RecentChatsTimeout]]

Elements(r) ==
  IF RecentChatsClear THEN <<>>
  ELSE [i \in 1..Len(r.list) |-> [chat |-> r.list[i], time |-> r.time[r.list[i]]]]

Flush ==
  /\ recent' = Loaded /\ loaded' = TRUE
  /\ stored' = LeftOver \o Elements(Loaded)
  /\ UNCHANGED <<config, clock, lastUse>>

-----------------------------------------------------------------------------
(* What happens to the manager *)

\* A message was sent or received.
OnNewMessage(chat) ==
  /\ now < MaxTime /\ now' = now + 1
  /\ recent' = AddRecentChat(Loaded, chat, now') /\ loaded' = TRUE
  /\ lastUse' = [lastUse EXCEPT ![chat] = now']
  /\ UNCHANGED <<stored, config, started, restarts>>

\* The menu is about to be shown.
ShowRecentChats ==
  /\ ~loaded /\ loaded' = TRUE
  /\ recent' = Load
  /\ UNCHANGED <<stored, config, clock, lastUse>>

\* Every 30 seconds, unless the timer is off.  Nothing is loaded for it.
CleanUp ==
  /\ RecentChatsTimeout > 0
  /\ recent' = [recent EXCEPT !.list = AfterCleanUp]
  /\ UNCHANGED <<loaded, stored, config, clock, lastUse>>

ConfigurationUpdated ==
  /\ RecentChatsTimeout' \in Timeouts /\ RecentChatsClear' \in BOOLEAN
  /\ UNCHANGED <<recent, loaded, stored, clock, lastUse>>

TimePasses ==
  /\ now < MaxTime /\ now' = now + 1
  /\ UNCHANGED <<recent, loaded, stored, config, started, restarts, lastUse>>

\* The program is started again.
StartAgain ==
  /\ restarts < MaxRestarts /\ restarts' = restarts + 1
  /\ recent' = NothingRecent /\ loaded' = FALSE
  /\ started' = now
  /\ UNCHANGED <<config, now, lastUse>>

\* ~Core stores everything first.
Exit ==
  /\ stored' = LeftOver \o Elements(Loaded)
  /\ StartAgain

Crash ==
  /\ UNCHANGED stored
  /\ StartAgain

Next ==
  \/ \E chat \in Chats : OnNewMessage(chat)
  \/ ShowRecentChats
  \/ CleanUp
  \/ ConfigurationUpdated
  \/ TimePasses
  \/ Flush
  \/ Exit
  \/ Crash

Spec == Init /\ [][Next]_vars

-----------------------------------------------------------------------------
TypeOK ==
  /\ recent.list \in Seq(Chats) /\ recent.time \in [Chats -> Times]
  /\ loaded \in BOOLEAN
  /\ stored \in Seq(Element)
  /\ RecentChatsTimeout \in Timeouts /\ RecentChatsClear \in BOOLEAN
  /\ lastUse \in [Chats -> Times]
  /\ now \in Times /\ started \in Times /\ restarts \in 0..MaxRestarts

\* A chat is listed once and there are never more than fit, however the list
\* is loaded, reordered and cut; and although a flush removes only every other
\* old element, what is stored stays below twice the limit, over any number of
\* flushes and restarts.
Bounded ==
  /\ \A i, j \in DOMAIN recent.list : i # j => recent.list[i] # recent.list[j]
  /\ Len(recent.list) <= MaxRecentChatCount
  /\ Len(stored) < 2 * MaxRecentChatCount

\* Of the chats used since the start of the program, the later used come first,
\* and all of them before what was only loaded; whatever was stored, and
\* whenever it is loaded.
UsedThisRun(chat) == lastUse[chat] > started

UsedAreOnTop ==
  \A i, j \in DOMAIN recent.list :
    i < j /\ UsedThisRun(recent.list[j]) => lastUse[recent.list[i]] > lastUse[recent.list[j]]

\* recent-chat-manager.cpp, cleanUp: "this method will remove all chats that
\* were added before RecentChatsTimeout minutes ago".  A chat whose last message
\* is older than that does not survive a clean-up, whatever its own time has come
\* to be by storing and loading; and a chat used in this run, which may be
\* forgotten although it is in use, because on top it keeps the time it got there,
\* is not forgotten while one used before it in this run is kept.  RecentChatsClear
\* has no say in this, although the comment of configurationUpdated says that
\* when it is false nothing is removed after RecentChatsTimeout.
CleanUpFollowsUse ==
  RecentChatsTimeout > 0 =>
    /\ \A c \in ToSet(AfterCleanUp) : lastUse[c] + RecentChatsTimeout >= now
    /\ \A c \in ToSet(recent.list) \ ToSet(AfterCleanUp), d \in ToSet(AfterCleanUp) :
         UsedThisRun(c) /\ UsedThisRun(d) => lastUse[d] > lastUse[c]
=============================================================================
