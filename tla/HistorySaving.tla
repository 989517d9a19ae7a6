--------------------------- MODULE HistorySaving ---------------------------
(***************************************************************************)
(* The history modules: the only part of Kadu where threads share data.    *)
(*                                                                         *)
(* The main thread queues messages and status changes, registers and       *)
(* unregisters the storage, starts and cancels imports, and stops the save *)
(* thread when the storage goes or the program crashes.  The save thread   *)
(* (HistorySaveThread) moves what is queued into the database and commits  *)
(* it now and then.  Import threads (HistoryImportThread) write the        *)
(* history of older versions to the database themselves, switch the save   *)
(* thread off meanwhile, and do its work after every chat (forceSync).     *)
(*                                                                         *)
(* UnsavedDataMutex and DatabaseMutex protect one operation each, which is *)
(* a step here; SomethingToSave is held over many steps.  The removal of   *)
(* rows by the user and the termination of an import that does not answer  *)
(* within two seconds are left out.                                        *)
(***************************************************************************)
EXTENDS Integers, Sequences, SequencesExt, FiniteSets

CONSTANTS Importers,         \* import threads
          Entries,           \* entries of the one chat each of them imports
          MaxEvents,         \* bound on messages, and on status changes, queued
          MaxRegistrations,  \* bound on registrations of a storage
          MaxImports,        \* bound on imports started
          LateAccounts       \* may an account be added while there is no storage?

HistoryAssumption ==
  /\ IsFiniteSet(Importers)
  /\ Importers \cap {"saver", "free", "message", "status"} = {}
  /\ Entries \in Nat /\ MaxEvents \in Nat /\ MaxRegistrations \in Nat /\ MaxImports \in Nat
  /\ LateAccounts \in BOOLEAN
ASSUME HistoryAssumption

Threads == Importers \cup {"saver"}
Kinds == {"message", "status"}
Events == Kinds \X (1..MaxEvents)
Old == Importers \X (1..Entries)
Nothing == <<"nothing">>

VARIABLES
  storage,        \* CurrentStorage is set
  connections,    \* connections of an account's signals to enqueueMessage, contactStatusChanged
  main,           \* the main thread: "running", in wait() on behalf of "unregister",
                  \* "crash" or "migration", or "crashed"
  Unsaved,        \* UnsavedMessages and UnsavedStatusChanges
  Enabled, Stopped,  \* of the save thread
  SomethingToSave,   \* who holds the mutex: a thread or "free"
  pc,             \* what each thread does
  hand,           \* what each thread has dequeued and not yet appended
  stored,         \* entries of its chat an import thread has stored
  Canceled, CancelForced,
  imported,       \* chats flagged as imported
  rows,           \* the database, the open transaction included
  committed,      \* how many of the rows are on disk
  queued,         \* how often each event was queued
  registrations, imports

dataVars == <<Unsaved, rows, committed, hand, queued>>
importVars == <<stored, Canceled, CancelForced, imported, imports>>
vars == <<storage, connections, main, Enabled, Stopped, SomethingToSave, pc, dataVars,
          importVars, registrations>>

Init ==
  /\ storage = FALSE /\ connections = 0 /\ main = "running"
  /\ Unsaved = [k \in Kinds |-> <<>>]
  /\ Enabled = TRUE /\ Stopped = FALSE
  /\ SomethingToSave = "free"
  /\ pc = [t \in Threads |-> "off"]
  /\ hand = [t \in Threads |-> Nothing]
  /\ stored = [i \in Importers |-> 0]
  /\ Canceled = [i \in Importers |-> FALSE] /\ CancelForced = [i \in Importers |-> FALSE]
  /\ imported = {}
  /\ rows = <<>> /\ committed = 0
  /\ queued = [e \in Events |-> 0]
  /\ registrations = 0 /\ imports = 0

-----------------------------------------------------------------------------
(* Operations on the shared data, each under its mutex.                    *)

Goto(t, where) == pc' = [pc EXCEPT ![t] = where]

\* wakeAll: a thread that is not waiting yet misses it.
WakeAll == pc' = IF pc["saver"] = "wait" THEN [pc EXCEPT !["saver"] = "woken"] ELSE pc

Copies(seq, e) == Cardinality({n \in DOMAIN seq : seq[n] = e})

\* Mutant of Dequeue: the last event first.
DequeueLast(t, kind) ==
  /\ hand' = [hand EXCEPT ![t] = Last(Unsaved[kind])]
  /\ Unsaved' = [Unsaved EXCEPT ![kind] = Front(@)]

\* dequeueUnsavedMessage, dequeueUnsavedStatusChange
Dequeue(t, kind) ==
  /\ hand' = [hand EXCEPT ![t] = Head(Unsaved[kind])]
  /\ Unsaved' = [Unsaved EXCEPT ![kind] = Tail(@)]

\* HistorySqlStorage::appendMessage, appendStatus
AppendRow(row) == rows' = Append(rows, row)

\* Mutant of Commit: a new transaction without committing the old one.
TransactionOnly == UNCHANGED committed

\* HistorySqlStorage::sync
Commit == committed' = Len(rows)

-----------------------------------------------------------------------------
(* storeMessages, storeStatusChanges and sync, as the save thread and      *)
(* import threads run them.                                                *)

Storing == [message |-> "storeMessages", status |-> "storeStatusChanges"]

Take(t, kind) ==
  /\ pc[t] = Storing[kind] /\ hand[t] = Nothing /\ Unsaved[kind] # <<>>
  /\ Dequeue(t, kind)
  /\ UNCHANGED <<storage, connections, main, Enabled, Stopped, SomethingToSave, pc, rows,
                 committed, queued, importVars, registrations>>

Put(t) ==
  /\ hand[t] # Nothing
  /\ AppendRow(hand[t])
  /\ hand' = [hand EXCEPT ![t] = Nothing]
  /\ UNCHANGED <<storage, connections, main, Enabled, Stopped, SomethingToSave, pc, Unsaved,
                 committed, queued, importVars, registrations>>

MessagesStored(t) ==
  /\ pc[t] = "storeMessages" /\ hand[t] = Nothing /\ Unsaved["message"] = <<>>
  /\ Goto(t, "storeStatusChanges")
  /\ UNCHANGED <<storage, connections, main, Enabled, Stopped, SomethingToSave, dataVars,
                 importVars, registrations>>

-----------------------------------------------------------------------------
(* The save thread: HistorySaveThread::run.                                *)

SaverChecksStopped ==
  /\ pc["saver"] = "check"
  /\ Goto("saver", IF Stopped THEN "storeMessages" ELSE "lock")
  /\ UNCHANGED <<storage, connections, main, Enabled, Stopped, SomethingToSave, dataVars,
                 importVars, registrations>>

SaverLocks ==
  /\ pc["saver"] = "lock" /\ SomethingToSave = "free"
  /\ \/ Enabled /\ SomethingToSave' = "saver" /\ Goto("saver", "storeMessages")
     \/ ~Enabled /\ UNCHANGED SomethingToSave /\ Goto("saver", "wait")
  /\ UNCHANGED <<storage, connections, main, Enabled, Stopped, dataVars, importVars,
                 registrations>>

\* The last store, after the loop, runs without the mutex and always syncs;
\* inside the loop the thread syncs if the last time was 15 s ago.
SaverStored ==
  /\ pc["saver"] = "storeStatusChanges"
  /\ hand["saver"] = Nothing /\ Unsaved["status"] = <<>>
  /\ \/ SomethingToSave # "saver" /\ Commit /\ Goto("saver", "off") /\ UNCHANGED SomethingToSave
     \/ /\ SomethingToSave = "saver"
        /\ Commit \/ UNCHANGED committed
        /\ Goto("saver", "wait") /\ SomethingToSave' = "free"
  /\ UNCHANGED <<storage, connections, main, Enabled, Stopped, Unsaved, rows, hand, queued,
                 importVars, registrations>>

\* Mutant of SaverTimeout: the wait has no timeout.
SaverWaitsForever == FALSE /\ UNCHANGED vars

SaverTimeout ==
  /\ pc["saver"] = "wait"
  /\ Goto("saver", "woken")
  /\ UNCHANGED <<storage, connections, main, Enabled, Stopped, SomethingToSave, dataVars,
                 importVars, registrations>>

\* wait() returns with the mutex, which is unlocked at once.
SaverWakes ==
  /\ pc["saver"] = "woken" /\ SomethingToSave = "free"
  /\ Goto("saver", "check")
  /\ UNCHANGED <<storage, connections, main, Enabled, Stopped, SomethingToSave, dataVars,
                 importVars, registrations>>

Saver ==
  \/ SaverChecksStopped \/ SaverLocks \/ SaverStored \/ SaverTimeout \/ SaverWakes
  \/ \E k \in Kinds : Take("saver", k)
  \/ Put("saver") \/ MessagesStored("saver")

-----------------------------------------------------------------------------
(* An import thread: HistoryImportThread::run.                             *)

ImportBegins(i) ==
  /\ pc[i] = "begin"
  /\ Enabled' = FALSE
  /\ Goto(i, IF Canceled[i] \/ i \in imported THEN "end" ELSE "entries")
  /\ UNCHANGED <<storage, connections, main, Stopped, SomethingToSave, dataVars, importVars,
                 registrations>>

ImportStopped(i) == Canceled[i] /\ CancelForced[i]

ImportEntry(i) ==
  /\ pc[i] = "entries" /\ stored[i] < Entries /\ ~ImportStopped(i)
  /\ AppendRow(<<i, stored[i] + 1>>)
  /\ stored' = [stored EXCEPT ![i] = @ + 1]
  /\ UNCHANGED <<storage, connections, main, Enabled, Stopped, SomethingToSave, pc, Unsaved,
                 committed, hand, queued, Canceled, CancelForced, imported, imports,
                 registrations>>

\* The chat is done, or the import was stopped between two entries.
ImportLeavesChat(i) ==
  /\ pc[i] = "entries"
  /\ \/ ImportStopped(i) /\ Goto(i, "end") /\ UNCHANGED imported
     \/ /\ ~ImportStopped(i) /\ stored[i] = Entries
        /\ imported' = imported \cup {i}
        /\ Goto(i, "lock")
  /\ UNCHANGED <<storage, connections, main, Enabled, Stopped, SomethingToSave, dataVars,
                 stored, Canceled, CancelForced, imports, registrations>>

\* forceSync
ImportLocks(i) ==
  /\ pc[i] = "lock" /\ SomethingToSave = "free"
  /\ SomethingToSave' = i
  /\ Goto(i, "storeMessages")
  /\ UNCHANGED <<storage, connections, main, Enabled, Stopped, dataVars, importVars,
                 registrations>>

ImportSyncs(i) ==
  /\ pc[i] = "storeStatusChanges" /\ hand[i] = Nothing /\ Unsaved["status"] = <<>>
  /\ Commit
  /\ SomethingToSave' = "free"
  /\ Goto(i, "end")
  /\ UNCHANGED <<storage, connections, main, Enabled, Stopped, Unsaved, rows, hand, queued,
                 importVars, registrations>>

ImportEnds(i) ==
  /\ pc[i] = "end"
  /\ Enabled' = TRUE
  /\ Goto(i, "off")
  /\ UNCHANGED <<storage, connections, main, Stopped, SomethingToSave, dataVars, importVars,
                 registrations>>

Import(i) ==
  \/ ImportBegins(i) \/ ImportEntry(i) \/ ImportLeavesChat(i) \/ ImportLocks(i)
  \/ ImportSyncs(i) \/ ImportEnds(i)
  \/ \E k \in Kinds : Take(i, k)
  \/ Put(i) \/ MessagesStored(i)

-----------------------------------------------------------------------------
(* The main thread.                                                        *)

\* enqueueMessage, contactStatusChanged: once for every connection.
Enqueue(kind) ==
  LET n == Cardinality({e \in Events : e[1] = kind /\ queued[e] > 0}) + 1 IN
  /\ main = "running" /\ storage /\ connections > 0 /\ n <= MaxEvents
  /\ Unsaved' = [Unsaved EXCEPT ![kind] = @ \o [c \in 1..connections |-> <<kind, n>>]]
  /\ queued' = [queued EXCEPT ![<<kind, n>>] = connections]
  /\ WakeAll
  /\ UNCHANGED <<storage, connections, main, Enabled, Stopped, SomethingToSave, rows,
                 committed, hand, importVars, registrations>>

\* Mutant of AccountAdded: an account can be announced again.
AccountAnnouncedAgain ==
  /\ main = "running" /\ LateAccounts /\ ~storage
  /\ connections' = connections + 1
  /\ UNCHANGED <<storage, main, Enabled, Stopped, SomethingToSave, pc, dataVars, importVars,
                 registrations>>

\* An account is added while there is no storage: accountRegistered connects.
AccountAdded ==
  /\ main = "running" /\ LateAccounts /\ ~storage /\ connections = 0
  /\ connections' = 1
  /\ UNCHANGED <<storage, main, Enabled, Stopped, SomethingToSave, pc, dataVars, importVars,
                 registrations>>

\* registerStorage: the save thread is started, for the second time with
\* Stopped still set, and every account is connected.
RegisterStorage ==
  /\ main = "running" /\ ~storage /\ registrations < MaxRegistrations
  /\ storage' = TRUE
  /\ registrations' = registrations + 1
  /\ Goto("saver", "check")
  /\ connections' = connections + 1
  /\ UNCHANGED <<main, Enabled, Stopped, SomethingToSave, dataVars, importVars>>

\* stopSaveThread: stop() and, if the thread runs, wait() for it.
StopSaveThread(why) ==
  /\ main' = why
  /\ Stopped' = (Stopped \/ pc["saver"] # "off")
  /\ WakeAll

\* unregisterStorage.  The migration module depends on the storage's module,
\* so its imports are gone.
UnregisterStorage ==
  /\ main = "running" /\ storage
  /\ \A i \in Importers : pc[i] = "off"
  /\ connections' = 0
  /\ StopSaveThread("unregister")
  /\ UNCHANGED <<storage, Enabled, SomethingToSave, dataVars, importVars, registrations>>

\* Mutant of StorageDeleted: the save thread is not waited for.
DeletedWithoutWait ==
  /\ main = "unregister"
  /\ storage' = FALSE /\ committed' = Len(rows)
  /\ main' = "running"
  /\ UNCHANGED <<connections, Enabled, Stopped, SomethingToSave, pc, Unsaved, rows, hand,
                 queued, importVars, registrations>>

\* The destructor of the storage commits.
StorageDeleted ==
  /\ main = "unregister" /\ pc["saver"] = "off"
  /\ storage' = FALSE /\ committed' = Len(rows)
  /\ main' = "running"
  /\ UNCHANGED <<connections, Enabled, Stopped, SomethingToSave, pc, Unsaved, rows, hand,
                 queued, importVars, registrations>>

StartImport(i) ==
  /\ main = "running" /\ storage /\ pc[i] = "off" /\ imports < MaxImports
  /\ imports' = imports + 1
  /\ stored' = [stored EXCEPT ![i] = 0]
  /\ Canceled' = [Canceled EXCEPT ![i] = FALSE]
  /\ CancelForced' = [CancelForced EXCEPT ![i] = FALSE]
  /\ Goto(i, "begin")
  /\ UNCHANGED <<storage, connections, main, Enabled, Stopped, SomethingToSave, dataVars,
                 imported, registrations>>

\* The progress window is rejected.
CancelImport(i) ==
  /\ main = "running" /\ pc[i] # "off" /\ ~Canceled[i]
  /\ Canceled' = [Canceled EXCEPT ![i] = TRUE]
  /\ UNCHANGED <<storage, connections, main, Enabled, Stopped, SomethingToSave, pc, dataVars,
                 stored, CancelForced, imported, imports, registrations>>

\* The migration module is closed: one importer after the other is destroyed,
\* which cancels its thread and waits for it.
DestroyImporter(i) ==
  /\ main = "running" /\ pc[i] # "off"
  /\ main' = "migration"
  /\ Canceled' = [Canceled EXCEPT ![i] = TRUE]
  /\ CancelForced' = [CancelForced EXCEPT ![i] = TRUE]
  /\ UNCHANGED <<storage, connections, Enabled, Stopped, SomethingToSave, pc, dataVars,
                 stored, imported, imports, registrations>>

ImporterDestroyed ==
  /\ main = "migration"
  /\ \A i \in Importers : CancelForced[i] => pc[i] = "off"
  /\ main' = "running"
  /\ UNCHANGED <<storage, connections, Enabled, Stopped, SomethingToSave, pc, dataVars,
                 importVars, registrations>>

\* The main thread crashes: History::crash stops the save thread.
Crash ==
  /\ main = "running"
  /\ StopSaveThread("crash")
  /\ UNCHANGED <<storage, connections, Enabled, SomethingToSave, dataVars, importVars,
                 registrations>>

\* Then HistorySqlStorage::crash commits, and the program ends.
CrashHandled ==
  /\ main = "crash" /\ pc["saver"] = "off"
  /\ main' = "crashed"
  /\ committed' = IF storage THEN Len(rows) ELSE committed
  /\ UNCHANGED <<storage, connections, Enabled, Stopped, SomethingToSave, pc, Unsaved, rows,
                 hand, queued, importVars, registrations>>

Waits == StorageDeleted \/ ImporterDestroyed \/ CrashHandled

Main ==
  \/ \E k \in Kinds : Enqueue(k)
  \/ AccountAdded \/ RegisterStorage \/ UnregisterStorage \/ Crash
  \/ \E i \in Importers : StartImport(i) \/ CancelImport(i) \/ DestroyImporter(i)
  \/ Waits

\* After a crash the process is gone.
Next == main # "crashed" /\ (Main \/ Saver \/ \E i \in Importers : Import(i))

Spec == Init /\ [][Next]_vars

\* Threads are scheduled and waits time out.  The save thread leaves the mutex
\* free while it waits, so whoever asks for it again and again gets it.
FairSpec ==
  /\ Spec
  /\ WF_vars(main # "crashed" /\ Waits)
  /\ WF_vars(main # "crashed" /\ Saver)
  /\ SF_vars(main # "crashed" /\ (SaverLocks \/ SaverWakes))
  /\ \A i \in Importers :
       WF_vars(main # "crashed" /\ Import(i)) /\ SF_vars(main # "crashed" /\ ImportLocks(i))

-----------------------------------------------------------------------------
(* Properties.                                                             *)

Row == Events \cup Old

TypeOK ==
  /\ storage \in BOOLEAN
  /\ connections \in 0..2
  /\ main \in {"running", "unregister", "crash", "migration", "crashed"}
  /\ Unsaved \in [Kinds -> Seq(Events)]
  /\ Enabled \in BOOLEAN /\ Stopped \in BOOLEAN
  /\ SomethingToSave \in Threads \cup {"free"}
  /\ pc \in [Threads -> {"off", "check", "lock", "storeMessages", "storeStatusChanges",
                         "wait", "woken", "begin", "entries", "end"}]
  /\ hand \in [Threads -> Events \cup {Nothing}]
  /\ stored \in [Importers -> 0..Entries]
  /\ Canceled \in [Importers -> BOOLEAN] /\ CancelForced \in [Importers -> BOOLEAN]
  /\ imported \subseteq Importers
  /\ rows \in Seq(Row) /\ committed \in 0..Len(rows)
  /\ queued \in [Events -> 0..2]
  /\ registrations \in 0..MaxRegistrations /\ imports \in 0..MaxImports

OnDisk == SubSeq(rows, 1, committed)

Holders(e) == {t \in Threads : hand[t] = e}

\* The rows of a kind, in their order.
OfKind(seq, k) ==
  LET part[n \in 0..Len(seq)] ==
        IF n = 0 THEN <<>>
        ELSE IF seq[n][1] = k THEN Append(part[n - 1], seq[n]) ELSE part[n - 1]
  IN  part[Len(seq)]

\* Besides the save thread only the import thread that has the mutex can hold an
\* event.  What was queued first comes first.
HandOf(t, k) == IF hand[t][1] = k THEN <<hand[t]>> ELSE <<>>

InHand(k) ==
  LET own == HandOf("saver", k)
      other == IF SomethingToSave \in Importers THEN HandOf(SomethingToSave, k) ELSE <<>>
  IN  IF own # <<>> /\ other # <<>> /\ hand["saver"][2] < hand[SomethingToSave][2]
      THEN own \o other ELSE other \o own

\* Whatever thread takes an event from the queue, each event is stored as often
\* as it was queued, and in that order, until a crash: none is lost between the
\* queue and the database, none stored by two threads, none overtaken.  (Rows of
\* one second are shown in the order in which they were stored.)
SaveQueue ==
  INSTANCE SaveQueue WITH
    Kind <- Kinds,
    waiting <- [k \in Kinds |-> InHand(k) \o Unsaved[k]],
    saved <- [k \in Kinds |-> OfKind(rows, k)],
    durable <- [k \in Kinds |-> OfKind(OnDisk, k)],
    crashing <- main \in {"crash", "crashed"}

ImplementsQueue == SaveQueue!QueueSpec

\* A chat that is flagged as imported, and therefore never imported again, is
\* at least in the open transaction from then on; it is on the disk once its
\* thread has gone on and, wherever that thread was, after a crash that could
\* be handled.
ImportedChatIsOnDisk ==
  \A i \in imported, n \in 1..Entries :
    /\ Contains(rows, <<i, n>>)
    /\ pc[i] \in {"off", "begin", "end"} \/ main = "crashed" => Contains(OnDisk, <<i, n>>)

\* "Save messages in history": when the storage is gone, everything queued for
\* it has been stored, and everything stored is on the disk.
ClosedStorageIsComplete ==
  ~storage => /\ \A k \in Kinds : Unsaved[k] = <<>>
              /\ \A t \in Threads : hand[t] = Nothing
              /\ committed = Len(rows)

\* ChangeLog: "send commit to database even if crash occured".  What is queued
\* when the program crashes is on the disk afterwards, up to the one event an
\* import thread is just storing.
CrashSavesHistory ==
  main = "crashed" /\ storage =>
    \A e \in Events :
      Copies(OnDisk, e) + Cardinality(Holders(e) \cap Importers) = queued[e]

\* However the saving ends, by the storage going or by a crash, nothing that was
\* queued stays behind.
NothingIsLeftBehind == ClosedStorageIsComplete /\ CrashSavesHistory

\* The main thread does not wait forever for a thread it stops, not even when
\* its wake-up came too early.
StopReturns ==
  main \in {"unregister", "crash", "migration"} ~> main \in {"running", "crashed"}

\* Whatever imports are started and canceled, the queue is emptied.
QueueIsSaved == \A k \in Kinds : Unsaved[k] # <<>> ~> Unsaved[k] = <<>>

\* Neither a thread that is waited for nor the queue is forgotten.
SavingGoesOn == StopReturns /\ QueueIsSaved
=============================================================================
