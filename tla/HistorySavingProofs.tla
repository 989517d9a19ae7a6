------------------------ MODULE HistorySavingProofs ------------------------
(***************************************************************************)
(* Proofs about HistorySaving, for any number of import threads, entries,  *)
(* events and imports.                                                     *)
(*                                                                         *)
(* What is conserved holds for every number of registrations; what the     *)
(* closing of the storage and a crash leave behind, and that the queues    *)
(* are queues, hold as long as the storage is registered only once.        *)
(***************************************************************************)
EXTENDS HistorySaving, FiniteSetTheorems, SequenceTheorems, TLAPS

Associates(S) == \A a, b, c \in Seq(S) : (a \o b) \o c = a \o (b \o c)

LEMMA Associative ==
  ASSUME NEW S
  PROVE  Associates(S)
BY ConcatAssociative DEF Associates

-----------------------------------------------------------------------------
(* Counting the copies of an event in a sequence.                          *)

Places(seq, e) == {n \in DOMAIN seq : seq[n] = e}

\* The places of e in seq are finitely many.
LEMMA CopiesType ==
  ASSUME NEW S, NEW seq \in Seq(S), NEW e
  PROVE  /\ IsFiniteSet(Places(seq, e)) /\ Copies(seq, e) = Cardinality(Places(seq, e))
         /\ Copies(seq, e) \in Nat
         /\ Copies(seq, e) = 0 <=> \A n \in 1..Len(seq) : seq[n] # e
<1> DEFINE P == Places(seq, e)
<1>1. DOMAIN seq = 1..Len(seq) /\ Len(seq) \in Nat
  OBVIOUS
<1>2. IsFiniteSet(1..Len(seq))
  BY <1>1, FS_Interval
<1>3. IsFiniteSet(P)
  <2>1. P \in SUBSET (1..Len(seq))
    BY <1>1 DEF Places
  <2> QED BY <2>1, <1>2, FS_Subset
<1>4. Cardinality(P) \in Nat /\ (Cardinality(P) = 0 <=> P = {})
  BY <1>3, FS_CardinalityType, FS_EmptySet
<1>5. Copies(seq, e) = Cardinality(P)
  BY DEF Copies, Places
<1>6. P = {} <=> \A n \in 1..Len(seq) : seq[n] # e
  BY <1>1 DEF Places
<1> QED BY <1>3, <1>4, <1>5, <1>6

\* No event is in an empty sequence.
LEMMA CopiesEmpty == \A e : Copies(<<>>, e) = 0
<1> TAKE e
<1>1. <<>> \in Seq({}) /\ \A n \in 1..Len(<<>>) : <<>>[n] # e
  OBVIOUS
<1>2. \A seq \in Seq({}) : Copies(seq, e) = 0 <=> \A n \in 1..Len(seq) : seq[n] # e
  BY CopiesType
<1> QED BY <1>1, <1>2

\* There is nothing but x in seq.
Only(seq, x) == \A m \in 1..Len(seq) : seq[m] = x

\* Copies of x at the end count for x.
LEMMA CopiesConcat ==
  ASSUME NEW S, NEW seq \in Seq(S), NEW more \in Seq(S), NEW x, NEW e,
         Only(more, x)
  PROVE  Copies(seq \o more, e) =
           IF x = e THEN Copies(seq, e) + Len(more) ELSE Copies(seq, e)
<1> DEFINE N == Len(more)
           longer == seq \o more
           L == Len(seq)
           P == Places(seq, e)
           Q == Places(longer, e)
           R == (L + 1)..(L + N)
<1>1. N \in Nat
  OBVIOUS
<1>2. /\ L \in Nat /\ N \in Nat /\ DOMAIN seq = 1..L
      /\ DOMAIN longer = 1..(L + N)
      /\ \A m \in 1..L : longer[m] = seq[m]
      /\ \A m \in R : longer[m] = x
  <2>1. /\ longer \in Seq(S) /\ Len(longer) = L + N
        /\ \A m \in 1..(L + N) : longer[m] = IF m <= L THEN seq[m] ELSE more[m - L]
    BY ConcatProperties
  <2> HIDE DEF longer
  <2>2. ASSUME NEW m \in R PROVE longer[m] = x
    <3>1. m \in 1..(L + N) /\ ~(m <= L) /\ m - L \in 1..N
      OBVIOUS
    <3> QED BY <3>1, <2>1 DEF Only
  <2> QED BY <1>1, <2>1, <2>2
<1>3. IsFiniteSet(P) /\ Cardinality(P) = Copies(seq, e)
  BY CopiesType
<1>4. Copies(longer, e) = Cardinality(Q)
  <2>1. longer \in Seq(S)
    BY ConcatProperties
  <2> HIDE DEF longer
  <2> QED BY <2>1, CopiesType
<1> HIDE DEF N, longer, L, P, Q
<1>5. CASE x = e
  <2>1. Q = P \cup R /\ P \cap R = {}
    BY <1>2, <1>5 DEF P, Q, Places
  <2>2. IsFiniteSet(R) /\ Cardinality(R) = N
    <3>1. L + 1 \in Int /\ L + N \in Int
      BY <1>2
    <3>2. IsFiniteSet(R) /\ Cardinality(R) = IF L + 1 > L + N THEN 0 ELSE (L + N) - (L + 1) + 1
      BY <3>1, FS_Interval
    <3> QED BY <3>2, <1>2
  <2>3. Cardinality(Q) = Cardinality(P) + Cardinality(R) - Cardinality(P \cap R)
    BY <2>1, <2>2, <1>3, FS_Union
  <2>4. Cardinality(P \cap R) = 0
    BY <2>1, FS_EmptySet
  <2>5. Cardinality(P) \in Nat
    BY <1>3, FS_CardinalityType
  <2> QED BY <2>2, <2>3, <2>4, <2>5, <1>3, <1>4, <1>5 DEF longer, N
<1>6. CASE x # e
  <2>1. Q = P
    BY <1>2, <1>6 DEF P, Q, Places
  <2> QED BY <2>1, <1>3, <1>4, <1>6 DEF longer, N
<1> QED BY <1>5, <1>6

\* One more at the end counts for itself.
LEMMA CopiesAppend ==
  ASSUME NEW S, NEW seq \in Seq(S), NEW x \in S, NEW e
  PROVE  Copies(Append(seq, x), e) = IF x = e THEN Copies(seq, e) + 1 ELSE Copies(seq, e)
<1> DEFINE one == <<x>>
<1>1. one \in Seq(S) /\ Len(one) = 1
  OBVIOUS
<1>2. Only(one, x)
  BY DEF Only
<1>3. Append(seq, x) = seq \o one
  BY AppendIsConcat
<1>4. Copies(seq \o one, e) = IF x = e THEN Copies(seq, e) + Len(one) ELSE Copies(seq, e)
  <2> HIDE DEF one
  <2>1. one \in Seq(S)
    BY <1>1
  <2>2. \A more \in Seq(S) : Only(more, x) =>
      Copies(seq \o more, e) = IF x = e THEN Copies(seq, e) + Len(more) ELSE Copies(seq, e)
    BY CopiesConcat
  <2> QED BY <2>1, <1>2, <2>2
<1> QED BY <1>1, <1>3, <1>4

\* Without its head a sequence has one copy of it less.
LEMMA CopiesTail ==
  ASSUME NEW S, NEW seq \in Seq(S), seq # <<>>, NEW e
  PROVE  Copies(seq, e) = IF Head(seq) = e THEN Copies(Tail(seq), e) + 1 ELSE Copies(Tail(seq), e)
<1> DEFINE L == Len(seq)
           P == Places(seq, e)
           Q == Places(Tail(seq), e)
           f == [m \in Q |-> m + 1]
<1>1. /\ L \in Nat \ {0} /\ DOMAIN seq = 1..L /\ Head(seq) = seq[1]
      /\ DOMAIN Tail(seq) = 1..(L - 1)
      /\ \A m \in 1..(L - 1) : Tail(seq)[m] = seq[m + 1]
  BY HeadTailProperties, EmptySeq
<1>2. IsFiniteSet(P) /\ Cardinality(P) = Copies(seq, e) /\ Cardinality(P) \in Nat
  BY CopiesType, FS_CardinalityType
<1>3. Tail(seq) \in Seq(S)
  BY HeadTailProperties
<1>4. IsFiniteSet(Q) /\ Cardinality(Q) = Copies(Tail(seq), e) /\ Cardinality(Q) \in Nat
  BY <1>3, CopiesType, FS_CardinalityType
<1>5. f \in Bijection(Q, P \ {1})
  <2>1. \A m \in Q : m \in Nat /\ m + 1 \in P \ {1}
    BY <1>1 DEF Places
  <2>2. \A m \in P \ {1} : m - 1 \in Q /\ (m - 1) + 1 = m
    BY <1>1 DEF Places
  <2> HIDE DEF Q, P
  <2>3. f \in [Q -> P \ {1}]
    BY <2>1
  <2>4. \A a, b \in Q : f[a] = f[b] => a = b
    BY <2>1
  <2>5. \A b \in P \ {1} : \E a \in Q : f[a] = b
    BY <2>2
  <2> HIDE DEF f
  <2> QED BY <2>3, <2>4, <2>5 DEF Bijection, Injection, Surjection, IsInjective
<1>6. Cardinality(P \ {1}) = Cardinality(Q)
  BY <1>4, <1>5, FS_Bijection DEF ExistsBijection
<1>7. Cardinality(P \ {1}) = IF 1 \in P THEN Cardinality(P) - 1 ELSE Cardinality(P)
  BY <1>2, FS_RemoveElement
<1>8. 1 \in P <=> Head(seq) = e
  BY <1>1 DEF Places
<1> HIDE DEF P, Q, f, L
<1> QED BY <1>2, <1>4, <1>6, <1>7, <1>8

\* Holders(e), given the hands.
HoldersIn(g, e) == {t \in Threads : g[t] = e}

\* A thread that takes an event in its hand becomes one of its holders; read the
\* other way round, one that puts it away is a holder no more.
LEMMA HoldersChange ==
  ASSUME NEW t \in Threads, NEW x \in Events, NEW e \in Events,
         NEW g \in [Threads -> Events \cup {Nothing}], g[t] = Nothing
  PROVE  /\ Cardinality(HoldersIn(g, e)) \in Nat
         /\ Cardinality(HoldersIn([g EXCEPT ![t] = x], e)) =
              IF x = e THEN Cardinality(HoldersIn(g, e)) + 1 ELSE Cardinality(HoldersIn(g, e))
<1> DEFINE h == [g EXCEPT ![t] = x]
<1>1. IsFiniteSet(Threads)
  BY HistoryAssumption, FS_AddElement DEF HistoryAssumption, Threads
<1>2. IsFiniteSet(HoldersIn(g, e)) /\ Cardinality(HoldersIn(g, e)) \in Nat
  <2>1. HoldersIn(g, e) \in SUBSET Threads
    BY DEF HoldersIn
  <2> QED BY <1>1, <2>1, FS_Subset, FS_CardinalityType
<1>3. Nothing # e
  BY DEF Nothing, Events, Kinds
<1>4. t \notin HoldersIn(g, e)
  BY <1>3 DEF HoldersIn
<1>5. CASE x = e
  <2>1. HoldersIn(h, e) = HoldersIn(g, e) \cup {t}
    BY <1>5 DEF HoldersIn
  <2>2. Cardinality(HoldersIn(g, e) \cup {t}) = Cardinality(HoldersIn(g, e)) + 1
    BY <1>2, <1>4, FS_AddElement
  <2> QED BY <2>1, <2>2, <1>2, <1>5
<1>6. CASE x # e
  <2>1. HoldersIn(h, e) = HoldersIn(g, e)
    BY <1>3, <1>6 DEF HoldersIn
  <2> QED BY <2>1, <1>2, <1>6
<1> QED BY <1>5, <1>6

\* There are finitely many threads.
LEMMA HolderCount == \A e : Cardinality(Holders(e)) \in Nat
<1> TAKE e
<1>1. IsFiniteSet(Threads)
  BY HistoryAssumption, FS_AddElement DEF HistoryAssumption, Threads
<1>2. Holders(e) \in SUBSET Threads
  BY DEF Holders
<1> QED BY <1>1, <1>2, FS_Subset, FS_CardinalityType

-----------------------------------------------------------------------------
(* The invariant that holds for any number of registrations.               *)

StoringPlaces == {"storeMessages", "storeStatusChanges"}

\* Where threads can be, and what they hold there.
ThreadsOK ==
  /\ pc["saver"] \in {"off", "check", "lock", "wait", "woken"} \cup StoringPlaces
  /\ \A i \in Importers :
       /\ pc[i] \in {"off", "begin", "entries", "lock", "end"} \cup StoringPlaces
       /\ SomethingToSave = i <=> pc[i] \in StoringPlaces
  /\ SomethingToSave = "saver" => pc["saver"] \in StoringPlaces
  /\ \A t \in Threads : hand[t] # Nothing => pc[t] \in StoringPlaces

\* Each event waits in the queue of its kind; events of a kind are numbered as
\* they come.
QueuesOK ==
  /\ \A k \in Kinds : \A n \in 1..Len(Unsaved[k]) : Unsaved[k][n][1] = k
  /\ \A k \in Kinds : \A m, n \in 1..MaxEvents :
       m < n /\ queued[<<k, n>>] > 0 => queued[<<k, m>>] > 0

\* An event is in its queue, in the hand of a thread or in the database, as
\* often as it was queued.
Conserved ==
  \A e \in Events :
    Copies(Unsaved[e[1]], e) + Cardinality(Holders(e)) + Copies(rows, e) = queued[e]

ImportsOK ==
  \A i \in Importers :
    /\ pc[i] = "begin" => stored[i] = 0
    /\ pc[i] = "entries" =>
         i \notin imported /\ \A n \in 1..stored[i] : Contains(rows, <<i, n>>)
    /\ i \in imported => \A n \in 1..Entries : Contains(rows, <<i, n>>)

\* Without a storage an account is connected once at most, and nothing is saved
\* or imported.
ConnectionsOK ==
  /\ ~storage => connections <= 1 /\ pc["saver"] = "off"
  /\ ~storage \/ main = "unregister" => \A i \in Importers : pc[i] = "off"
  /\ main = "unregister" => connections = 0

BaseInv ==
  /\ TypeOK
  /\ ConnectionsOK
  /\ ThreadsOK
  /\ QueuesOK
  /\ Conserved
  /\ ImportsOK
  /\ ImportedChatIsOnDisk

Empty == \A k \in Kinds : Unsaved[k] = <<>>
LastStore == pc["saver"] \in StoringPlaces /\ SomethingToSave # "saver"

\* How the saving ends
EndInv ==
  /\ registrations = 0 => ~storage /\ ~Stopped
  /\ storage /\ (Stopped \/ pc["saver"] = "off" \/ LastStore) =>
       main \in {"unregister", "crash", "crashed"}
  /\ pc["saver"] # "off" => storage /\ main # "crashed"
  /\ (\E i \in Importers : pc[i] # "off") => storage /\ main # "unregister"
  /\ main = "unregister" => storage
  /\ pc["saver"] = "off" => Empty
  /\ LastStore /\ pc["saver"] = "storeStatusChanges" => Unsaved["message"] = <<>>
  /\ ~storage \/ main = "crashed" => committed = Len(rows)

\* Events come out of the queues as they were put in.
SortedInv ==
  /\ \A k \in Kinds : \A m, n \in 1..Len(Unsaved[k]) :
       m <= n => Unsaved[k][m][2] <= Unsaved[k][n][2]
  /\ \A t \in Threads : hand[t] # Nothing =>
       \A n \in 1..Len(Unsaved[hand[t][1]]) : hand[t][2] <= Unsaved[hand[t][1]][n][2]

-----------------------------------------------------------------------------
(* What a step does to the events on their way to the disk.                *)

Commits == committed' = committed \/ committed' = Len(rows)

\* Only taking, putting, queueing and importing move events and rows.
LEMMA DataStep ==
  ASSUME Next
  PROVE  \/ \E t \in Threads, k \in Kinds : Take(t, k)
         \/ \E t \in Threads : Put(t)
         \/ \E k \in Kinds : Enqueue(k)
         \/ \E i \in Importers : ImportEntry(i)
         \/ UNCHANGED <<Unsaved, rows, hand, queued>> /\ Commits
<1> USE DEF dataVars
<1>1. CASE Saver
  <2>1. CASE SaverStored
    BY <2>1 DEF SaverStored, Commit, Commits
  <2> QED
    BY <1>1, <2>1 DEF Saver, SaverChecksStopped, SaverLocks, SaverTimeout, SaverWakes, Threads,
                      MessagesStored, Commits
<1>2. ASSUME NEW i \in Importers, Import(i)
      PROVE  \/ \E t \in Threads, k \in Kinds : Take(t, k)
             \/ \E t \in Threads : Put(t)
             \/ ImportEntry(i)
             \/ UNCHANGED <<Unsaved, rows, hand, queued>> /\ Commits
  <2>1. CASE ImportSyncs(i)
    BY <2>1 DEF ImportSyncs, Commit, Commits
  <2> QED
    BY <1>2, <2>1 DEF Import, ImportBegins, ImportLeavesChat, ImportLocks, ImportEnds, Threads,
                      MessagesStored, Commits
<1>3. CASE Waits
  <2>1. CASE StorageDeleted
    BY <2>1 DEF StorageDeleted, Commits
  <2>2. CASE ImporterDestroyed
    BY <2>2 DEF ImporterDestroyed, Commits
  <2>3. CASE CrashHandled
    BY <2>3 DEF CrashHandled, Commits
  <2> QED BY <1>3, <2>1, <2>2, <2>3 DEF Waits
<1>4. CASE AccountAdded \/ RegisterStorage \/ UnregisterStorage \/ Crash
  BY <1>4 DEF AccountAdded, RegisterStorage, UnregisterStorage, Crash, Commits
<1>5. ASSUME NEW i \in Importers, StartImport(i) \/ CancelImport(i) \/ DestroyImporter(i)
      PROVE  UNCHANGED <<Unsaved, rows, hand, queued>> /\ Commits
  BY <1>5 DEF StartImport, CancelImport, DestroyImporter, Commits
<1> QED BY <1>1, <1>2, <1>3, <1>4, <1>5 DEF Next, Main

\* The thread that takes an event and what it takes.
LEMMA Taken ==
  ASSUME TypeOK, QueuesOK, NEW t \in Threads, NEW k \in Kinds, Take(t, k)
  PROVE  /\ Unsaved[k] \in Seq(Events) /\ Unsaved[k] # <<>>
         /\ Head(Unsaved[k]) \in Events /\ Head(Unsaved[k])[1] = k
         /\ Tail(Unsaved[k]) \in Seq(Events)
         /\ hand[t] = Nothing
         /\ hand' = [hand EXCEPT ![t] = Head(Unsaved[k])]
         /\ Unsaved' = [Unsaved EXCEPT ![k] = Tail(Unsaved[k])]
         /\ UNCHANGED <<rows, committed, queued>>
<1>1. Unsaved[k] \in Seq(Events) /\ Unsaved[k] # <<>>
  BY DEF TypeOK, Take
<1>2. Head(Unsaved[k]) = Unsaved[k][1] /\ 1 \in 1..Len(Unsaved[k])
  BY <1>1, HeadTailProperties, EmptySeq
<1> QED BY <1>1, <1>2, HeadTailProperties DEF TypeOK, QueuesOK, Take, Dequeue

\* How many events of a kind have been queued, and the number of the next.
Numbered(k) == {e \in Events : e[1] = k /\ queued[e] > 0}

\* The next number has not been used.
LEMMA NextNumber ==
  ASSUME TypeOK, QueuesOK, NEW k \in Kinds, NEW n, n = Cardinality(Numbered(k)) + 1,
         n <= MaxEvents
  PROVE  /\ n \in 1..MaxEvents /\ queued[<<k, n>>] = 0
         /\ \A m \in 1..MaxEvents : queued[<<k, m>>] > 0 <=> m < n
<1> DEFINE S == {m \in 1..MaxEvents : queued[<<k, m>>] > 0}
           f == [m \in S |-> <<k, m>>]
<1>1. MaxEvents \in Nat
  BY HistoryAssumption DEF HistoryAssumption
<1>2. IsFiniteSet(1..MaxEvents)
  BY <1>1, FS_Interval
<1>3. IsFiniteSet(S) /\ Cardinality(S) \in Nat
  <2>1. S \in SUBSET (1..MaxEvents)
    OBVIOUS
  <2> HIDE DEF S
  <2> QED BY <2>1, <1>2, FS_Subset, FS_CardinalityType
<1>4. f \in Bijection(S, Numbered(k))
  <2>1. f \in [S -> Numbered(k)]
    BY DEF Numbered, Events
  <2>2. \A a, b \in S : f[a] = f[b] => a = b
    OBVIOUS
  <2>3. \A e \in Numbered(k) : \E a \in S : f[a] = e
    <3> TAKE e \in Numbered(k)
    <3>1. e[2] \in S /\ e = <<k, e[2]>>
      BY DEF Numbered, Events
    <3> QED BY <3>1
  <2> HIDE DEF f, S
  <2> QED BY <2>1, <2>2, <2>3 DEF Bijection, Injection, Surjection, IsInjective
<1>5. Cardinality(Numbered(k)) = Cardinality(S)
  BY <1>3, <1>4, FS_Bijection DEF ExistsBijection
<1>6. \A m \in S : \A l \in 1..m : l \in S
  <2> TAKE m \in S
  <2> TAKE l \in 1..m
  <2>1. l \in 1..MaxEvents
    BY <1>1
  <2>2. CASE l = m
    BY <2>2
  <2>3. CASE l < m
    BY <2>1, <2>3 DEF QueuesOK
  <2> QED BY <2>2, <2>3, <1>1
<1> HIDE DEF S, f
<1>7. \A m \in S : m <= Cardinality(S)
  <2> TAKE m \in S
  <2>1. m \in Nat /\ 1..m \in SUBSET S
    BY <1>6, <1>1 DEF S
  <2>2. Cardinality(1..m) = m
    BY <2>1, FS_Interval
  <2> QED BY <2>1, <2>2, <1>3, FS_Subset
<1>8. \A m \in 1..MaxEvents : m \notin S => m > Cardinality(S)
  <2> TAKE m \in 1..MaxEvents
  <2> HAVE m \notin S
  <2>1. S \in SUBSET (1..(m - 1))
    <3> SUFFICES ASSUME NEW l \in S PROVE l \in 1..(m - 1)
      OBVIOUS
    <3>1. l \in 1..MaxEvents
      BY DEF S
    <3>2. ~(m <= l)
      <4>1. m <= l => m \in 1..l
        BY <3>1, <1>1
      <4> QED BY <4>1, <1>6
    <3> QED BY <3>1, <3>2, <1>1
  <2>2. IsFiniteSet(1..(m - 1)) /\ Cardinality(1..(m - 1)) = m - 1
    BY <1>1, FS_Interval
  <2>3. Cardinality(S) <= m - 1
    BY <2>1, <2>2, FS_Subset
  <2> QED BY <2>3, <1>3, <1>1
<1>9. n \in 1..MaxEvents
  BY <1>1, <1>3, <1>5
<1>10. \A m \in 1..MaxEvents : m \in S <=> m < n
  BY <1>1, <1>3, <1>5, <1>7, <1>8
<1>11. <<k, n>> \in Events /\ queued[<<k, n>>] \in 0..2
  BY <1>9 DEF Events, TypeOK
<1>12. ~(queued[<<k, n>>] > 0)
  BY <1>9, <1>10, <1>1 DEF S
<1> QED BY <1>9, <1>10, <1>11, <1>12 DEF S

-----------------------------------------------------------------------------
(* Queues stay queues and nothing is lost between them and the database.   *)

\* The queues keep to their kinds and numbers.
LEMMA QueuesStep == ASSUME BaseInv, Next PROVE QueuesOK'
<1> USE DEF BaseInv
<1>1. ASSUME NEW t \in Threads, NEW k \in Kinds, Take(t, k) PROVE QueuesOK'
  <2>1. ASSUME NEW n \in 1..Len(Tail(Unsaved[k])) PROVE Tail(Unsaved[k])[n][1] = k
    <3>1. Tail(Unsaved[k])[n] = Unsaved[k][n + 1] /\ n + 1 \in 1..Len(Unsaved[k])
      BY <1>1, Taken, HeadTailProperties
    <3> QED BY <3>1 DEF QueuesOK
  <2>2. Unsaved' = [Unsaved EXCEPT ![k] = Tail(Unsaved[k])] /\ queued' = queued
    BY <1>1, Taken
  <2>3. \A j \in Kinds : \A n \in 1..Len(Unsaved'[j]) : Unsaved'[j][n][1] = j
    BY <2>1, <2>2 DEF QueuesOK, TypeOK
  <2> QED BY <2>2, <2>3 DEF QueuesOK
<1>2. ASSUME NEW t \in Threads, Put(t) PROVE QueuesOK'
  BY <1>2 DEF Put, QueuesOK
<1>3. ASSUME NEW k \in Kinds, Enqueue(k) PROVE QueuesOK'
  <2> DEFINE n == Cardinality(Numbered(k)) + 1
             more == [c \in 1..connections |-> <<k, n>>]
  <2>1. /\ n <= MaxEvents /\ connections > 0
        /\ Unsaved' = [Unsaved EXCEPT ![k] = @ \o more]
        /\ queued' = [queued EXCEPT ![<<k, n>>] = connections]
    BY <1>3 DEF Enqueue, Numbered
  <2>2. n \in 1..MaxEvents /\ \A m \in 1..MaxEvents : queued[<<k, m>>] > 0 <=> m < n
    <3> HIDE DEF n
    <3> QED BY <2>1, NextNumber DEF n
  <2> HIDE DEF n
  <2>3. <<k, n>> \in Events
    BY <2>2 DEF Events
  <2>4. more \in Seq(Events) /\ \A m \in 1..Len(more) : more[m][1] = k
    BY <2>3 DEF TypeOK
  <2>5. \A m \in 1..Len(Unsaved[k] \o more) : (Unsaved[k] \o more)[m][1] = k
    <3> HIDE DEF more
    <3>1. Unsaved[k] \in Seq(Events)
      BY DEF TypeOK
    <3>2. /\ Len(Unsaved[k] \o more) = Len(Unsaved[k]) + Len(more)
          /\ \A m \in 1..(Len(Unsaved[k]) + Len(more)) :
               (Unsaved[k] \o more)[m] =
                 IF m <= Len(Unsaved[k]) THEN Unsaved[k][m] ELSE more[m - Len(Unsaved[k])]
      BY <3>1, <2>4, ConcatProperties
    <3> TAKE m \in 1..Len(Unsaved[k] \o more)
    <3>3. CASE m <= Len(Unsaved[k])
      BY <3>1, <3>2, <3>3 DEF QueuesOK
    <3>4. CASE ~(m <= Len(Unsaved[k]))
      <4>1. m - Len(Unsaved[k]) \in 1..Len(more)
        BY <3>1, <3>2, <3>4, <2>4
      <4> QED BY <3>2, <3>4, <4>1, <2>4
    <3> QED BY <3>3, <3>4
  <2>6. \A j \in Kinds : \A m \in 1..Len(Unsaved'[j]) : Unsaved'[j][m][1] = j
    <3> HIDE DEF more
    <3> QED BY <2>1, <2>5 DEF QueuesOK, TypeOK
  <2>7. ASSUME NEW j \in Kinds, NEW l \in 1..MaxEvents, NEW m \in 1..MaxEvents,
               l < m, queued'[<<j, m>>] > 0
        PROVE  queued'[<<j, l>>] > 0
    <3>1. <<j, l>> \in Events /\ <<j, m>> \in Events
      BY DEF Events
    <3>2. CASE j # k
      BY <3>1, <3>2, <2>1, <2>7 DEF QueuesOK, TypeOK
    <3>3. CASE j = k
      <4>1. queued'[<<k, l>>] = (IF l = n THEN connections ELSE queued[<<k, l>>])
        BY <3>1, <3>3, <2>1 DEF TypeOK
      <4>2. m = n \/ queued[<<k, m>>] > 0
        BY <3>1, <3>3, <2>1, <2>7 DEF TypeOK
      <4>3. MaxEvents \in Nat
        BY HistoryAssumption DEF HistoryAssumption
      <4> QED BY <4>1, <4>2, <4>3, <3>3, <2>1, <2>2, <2>7
    <3> QED BY <3>2, <3>3
  <2> QED BY <2>6, <2>7 DEF QueuesOK
<1>4. ASSUME NEW i \in Importers, ImportEntry(i) PROVE QueuesOK'
  BY <1>4 DEF ImportEntry, QueuesOK
<1>5. CASE UNCHANGED <<Unsaved, rows, hand, queued>>
  BY <1>5 DEF QueuesOK
<1> QED BY <1>1, <1>2, <1>3, <1>4, <1>5, DataStep

\* Nothing is lost and nothing doubled.
LEMMA ConservedStep == ASSUME BaseInv, Next PROVE Conserved'
<1> USE DEF BaseInv
<1> SUFFICES ASSUME NEW e \in Events
             PROVE  (Copies(Unsaved[e[1]], e) + Cardinality(Holders(e)) + Copies(rows, e)
                       = queued[e])'
  BY DEF Conserved
<1>0. /\ Copies(Unsaved[e[1]], e) + Cardinality(Holders(e)) + Copies(rows, e) = queued[e]
      /\ e[1] \in Kinds
      /\ Unsaved[e[1]] \in Seq(Events) /\ Copies(Unsaved[e[1]], e) \in Nat
      /\ rows \in Seq(Row) /\ Copies(rows, e) \in Nat
  <2>1. e[1] \in Kinds
    BY DEF Events
  <2>2. Unsaved[e[1]] \in Seq(Events) /\ rows \in Seq(Row)
    BY <2>1 DEF TypeOK
  <2> QED BY <2>1, <2>2, CopiesType DEF Conserved
<1>1. ASSUME NEW t \in Threads, NEW k \in Kinds, Take(t, k)
      PROVE  (Copies(Unsaved[e[1]], e) + Cardinality(Holders(e)) + Copies(rows, e) = queued[e])'
  <2> DEFINE x == Head(Unsaved[k])
  <2>1. /\ Unsaved[k] \in Seq(Events) /\ Unsaved[k] # <<>> /\ Tail(Unsaved[k]) \in Seq(Events)
        /\ x \in Events /\ x[1] = k
        /\ hand[t] = Nothing /\ hand' = [hand EXCEPT ![t] = x]
        /\ Unsaved' = [Unsaved EXCEPT ![k] = Tail(Unsaved[k])]
        /\ UNCHANGED <<rows, committed, queued>>
    BY <1>1, Taken
  <2>2. /\ Cardinality(Holders(e)) \in Nat
        /\ Cardinality(Holders(e))' =
             IF x = e THEN Cardinality(Holders(e)) + 1 ELSE Cardinality(Holders(e))
    <3>1. hand \in [Threads -> Events \cup {Nothing}]
      BY DEF TypeOK
    <3>2. Holders(e) = HoldersIn(hand, e) /\ Holders(e)' = HoldersIn(hand', e)
      BY DEF Holders, HoldersIn
    <3>3. /\ Cardinality(HoldersIn(hand, e)) \in Nat
          /\ Cardinality(HoldersIn(hand', e)) =
               IF x = e THEN Cardinality(HoldersIn(hand, e)) + 1 ELSE Cardinality(HoldersIn(hand, e))
      <4> HIDE DEF x
      <4> QED BY <2>1, <3>1, HoldersChange
    <3> QED BY <3>2, <3>3
  <2>3. CASE e[1] = k
    <3>1. Unsaved'[e[1]] = Tail(Unsaved[k])
      BY <2>1, <2>3, <1>0 DEF TypeOK
    <3>2. Copies(Unsaved[k], e) = IF x = e THEN Copies(Tail(Unsaved[k]), e) + 1
                                  ELSE Copies(Tail(Unsaved[k]), e)
      BY <2>1, CopiesTail
    <3>3. Copies(Tail(Unsaved[k]), e) \in Nat
      BY <2>1, CopiesType
    <3>4. Copies(rows, e)' = Copies(rows, e) /\ queued'[e] = queued[e]
          /\ Copies(Unsaved[e[1]], e)' = Copies(Tail(Unsaved[k]), e)
      BY <2>1, <3>1 DEF Copies
    <3> HIDE DEF x
    <3> QED BY <1>0, <2>2, <2>3, <3>2, <3>3, <3>4
  <2>4. CASE e[1] # k
    <3>1. Unsaved'[e[1]] = Unsaved[e[1]]
      BY <2>1, <2>4, <1>0 DEF TypeOK
    <3>2. x # e
      BY <2>1, <2>4
    <3>3. Copies(rows, e)' = Copies(rows, e) /\ queued'[e] = queued[e]
          /\ Copies(Unsaved[e[1]], e)' = Copies(Unsaved[e[1]], e)
      BY <2>1, <3>1 DEF Copies
    <3> HIDE DEF x
    <3> QED BY <1>0, <2>2, <3>2, <3>3
  <2> QED BY <2>3, <2>4
<1>2. ASSUME NEW t \in Threads, Put(t)
      PROVE  (Copies(Unsaved[e[1]], e) + Cardinality(Holders(e)) + Copies(rows, e) = queued[e])'
  <2>1. /\ hand[t] \in Events /\ hand' = [hand EXCEPT ![t] = Nothing]
        /\ rows' = Append(rows, hand[t])
        /\ UNCHANGED <<Unsaved, queued>>
    BY <1>2 DEF Put, AppendRow, TypeOK
  <2>2. hand' \in [Threads -> Events \cup {Nothing}] /\ hand'[t] = Nothing
        /\ hand = [hand' EXCEPT ![t] = hand[t]]
    BY <2>1 DEF TypeOK
  <2>3. /\ Cardinality(Holders(e))' \in Nat
        /\ Cardinality(Holders(e)) =
             IF hand[t] = e THEN Cardinality(Holders(e))' + 1 ELSE Cardinality(Holders(e))'
    <3>1. Holders(e) = HoldersIn(hand, e) /\ Holders(e)' = HoldersIn(hand', e)
      BY DEF Holders, HoldersIn
    <3> QED BY <2>1, <2>2, <3>1, HoldersChange
  <2>4. Copies(rows, e)' = IF hand[t] = e THEN Copies(rows, e) + 1 ELSE Copies(rows, e)
    <3>1. hand[t] \in Row
      BY <2>1 DEF Row
    <3>2. Copies(Append(rows, hand[t]), e) =
            IF hand[t] = e THEN Copies(rows, e) + 1 ELSE Copies(rows, e)
      BY <3>1, <1>0, CopiesAppend
    <3>3. Copies(rows, e)' = Copies(Append(rows, hand[t]), e)
      BY <2>1 DEF Copies
    <3> QED BY <3>2, <3>3
  <2>5. Copies(Unsaved[e[1]], e)' = Copies(Unsaved[e[1]], e) /\ queued'[e] = queued[e]
    BY <2>1 DEF Copies
  <2> QED BY <1>0, <2>3, <2>4, <2>5
<1>3. ASSUME NEW k \in Kinds, Enqueue(k)
      PROVE  (Copies(Unsaved[e[1]], e) + Cardinality(Holders(e)) + Copies(rows, e) = queued[e])'
  <2> DEFINE n == Cardinality(Numbered(k)) + 1
             more == [c \in 1..connections |-> <<k, n>>]
  <2>1. /\ n <= MaxEvents /\ connections \in 1..2
        /\ Unsaved' = [Unsaved EXCEPT ![k] = @ \o more]
        /\ queued' = [queued EXCEPT ![<<k, n>>] = connections]
        /\ rows' = rows /\ hand' = hand
    BY <1>3 DEF Enqueue, Numbered, TypeOK
  <2>2. n \in 1..MaxEvents /\ queued[<<k, n>>] = 0
    <3> HIDE DEF n
    <3> QED BY <2>1, NextNumber DEF n
  <2>3. Copies(rows, e)' = Copies(rows, e) /\ Holders(e)' = Holders(e)
    BY <2>1 DEF Copies, Holders
  <2> HIDE DEF n
  <2>4. <<k, n>> \in Events /\ e = <<e[1], e[2]>>
    BY <2>2 DEF Events
  <2>5. more \in Seq(Events) /\ Len(more) = connections /\ Only(more, <<k, n>>)
    <3>1. connections \in Nat
      BY <2>1
    <3>2. more \in Seq(Events) /\ Len(more) = connections
      BY <3>1, <2>4
    <3> QED BY <3>1, <3>2 DEF Only
  <2> HIDE DEF more
  <2>6. CASE e[1] = k
    <3>1. Unsaved'[e[1]] = Unsaved[e[1]] \o more
      BY <2>1, <2>6, <1>0 DEF TypeOK
    <3>2. Copies(Unsaved[e[1]] \o more, e) =
            IF <<k, n>> = e THEN Copies(Unsaved[e[1]], e) + Len(more) ELSE Copies(Unsaved[e[1]], e)
      <4>1. \A seq, m \in Seq(Events) : \A x : Only(m, x) =>
              Copies(seq \o m, e) = IF x = e THEN Copies(seq, e) + Len(m) ELSE Copies(seq, e)
        BY CopiesConcat
      <4> QED BY <2>5, <1>0, <4>1
    <3>3. Copies(Unsaved[e[1]], e)' = Copies(Unsaved[e[1]] \o more, e)
      BY <3>1 DEF Copies
    <3>4. queued'[e] = IF <<k, n>> = e THEN connections ELSE queued[e]
      BY <2>1, <2>4 DEF TypeOK
    <3>5. Cardinality(Holders(e)) \in Nat
      BY HolderCount
    <3>6. CASE <<k, n>> = e
      <4>1. queued[e] = 0 /\ queued'[e] = connections
        BY <2>2, <3>4, <3>6
      <4>2. Copies(Unsaved[e[1]], e)' = Copies(Unsaved[e[1]], e) + connections
        BY <2>5, <3>2, <3>3, <3>6
      <4> QED BY <1>0, <2>1, <2>3, <3>5, <4>1, <4>2
    <3>7. CASE <<k, n>> # e
      BY <1>0, <2>3, <3>2, <3>3, <3>4, <3>7
    <3> QED BY <3>6, <3>7
  <2>7. CASE e[1] # k
    <3>1. Unsaved'[e[1]] = Unsaved[e[1]] /\ queued'[e] = queued[e]
      BY <2>1, <2>4, <2>7, <1>0 DEF TypeOK
    <3>2. Copies(Unsaved[e[1]], e)' = Copies(Unsaved[e[1]], e)
      BY <3>1 DEF Copies
    <3> QED BY <1>0, <2>3, <3>1, <3>2
  <2> QED BY <2>6, <2>7
<1>4. ASSUME NEW i \in Importers, ImportEntry(i)
      PROVE  (Copies(Unsaved[e[1]], e) + Cardinality(Holders(e)) + Copies(rows, e) = queued[e])'
  <2> DEFINE x == <<i, stored[i] + 1>>
  <2>1. /\ stored[i] + 1 \in 1..Entries
        /\ rows' = Append(rows, x) /\ UNCHANGED <<Unsaved, hand, queued>>
    BY <1>4, HistoryAssumption DEF ImportEntry, AppendRow, TypeOK, HistoryAssumption
  <2>2. x \in Row /\ x # e
    BY <2>1, HistoryAssumption DEF Row, Old, Events, Kinds, HistoryAssumption
  <2>3. Copies(Append(rows, x), e) = Copies(rows, e)
    <3> HIDE DEF x
    <3> QED BY <2>2, <1>0, CopiesAppend
  <2>4. /\ Copies(rows, e)' = Copies(Append(rows, x), e) /\ Holders(e)' = Holders(e)
        /\ Copies(Unsaved[e[1]], e)' = Copies(Unsaved[e[1]], e) /\ queued'[e] = queued[e]
    BY <2>1 DEF Copies, Holders
  <2> QED BY <1>0, <2>3, <2>4
<1>5. CASE UNCHANGED <<Unsaved, rows, hand, queued>>
  BY <1>0, <1>5 DEF Copies, Holders
<1> QED BY <1>1, <1>2, <1>3, <1>4, <1>5, DataStep

-----------------------------------------------------------------------------
(* Types, places and imported chats.                                       *)

DataTypes ==
  /\ Unsaved \in [Kinds -> Seq(Events)]
  /\ hand \in [Threads -> Events \cup {Nothing}]
  /\ rows \in Seq(Row) /\ committed \in 0..Len(rows)
  /\ queued \in [Events -> 0..2]

\* The types of what is on its way to the disk.
LEMMA DataTypesStep == ASSUME BaseInv, Next PROVE DataTypes'
<1>0. DataTypes
  BY DEF BaseInv, TypeOK, DataTypes
<1>1. ASSUME NEW t \in Threads, NEW k \in Kinds, Take(t, k) PROVE DataTypes'
  <2>1. /\ Head(Unsaved[k]) \in Events /\ Tail(Unsaved[k]) \in Seq(Events)
        /\ hand' = [hand EXCEPT ![t] = Head(Unsaved[k])]
        /\ Unsaved' = [Unsaved EXCEPT ![k] = Tail(Unsaved[k])]
        /\ UNCHANGED <<rows, committed, queued>>
    BY <1>1, Taken DEF BaseInv
  <2> QED BY <1>0, <2>1 DEF DataTypes
<1>2. ASSUME NEW t \in Threads, Put(t) PROVE DataTypes'
  <2>1. /\ hand[t] \in Row /\ rows' = Append(rows, hand[t])
        /\ hand' = [hand EXCEPT ![t] = Nothing] /\ UNCHANGED <<Unsaved, committed, queued>>
    BY <1>0, <1>2 DEF Put, AppendRow, DataTypes, Row
  <2>2. rows' \in Seq(Row) /\ Len(rows') = Len(rows) + 1 /\ Len(rows) \in Nat
    BY <1>0, <2>1, AppendProperties DEF DataTypes
  <2> QED BY <1>0, <2>1, <2>2 DEF DataTypes
<1>3. ASSUME NEW k \in Kinds, Enqueue(k) PROVE DataTypes'
  <2> DEFINE n == Cardinality(Numbered(k)) + 1
             more == [c \in 1..connections |-> <<k, n>>]
  <2>1. /\ n <= MaxEvents /\ connections \in 1..2
        /\ Unsaved' = [Unsaved EXCEPT ![k] = @ \o more]
        /\ queued' = [queued EXCEPT ![<<k, n>>] = connections]
        /\ UNCHANGED <<rows, hand, committed>>
    BY <1>3 DEF Enqueue, Numbered, TypeOK, BaseInv
  <2>2. n \in 1..MaxEvents
    <3> HIDE DEF n
    <3> QED BY <2>1, NextNumber DEF n, BaseInv
  <2> HIDE DEF n
  <2>3. more \in Seq(Events)
    <3>1. <<k, n>> \in Events
      BY <2>2 DEF Events
    <3> QED BY <2>1, <3>1
  <2>4. Unsaved[k] \o more \in Seq(Events)
    BY <1>0, <2>3, ConcatProperties DEF DataTypes
  <2> HIDE DEF more
  <2>5. \A e \in Events : queued'[e] \in 0..2
    BY <1>0, <2>1 DEF DataTypes
  <2>6. queued' \in [Events -> 0..2]
    BY <1>0, <2>1, <2>5 DEF DataTypes
  <2> QED BY <1>0, <2>1, <2>4, <2>6 DEF DataTypes
<1>4. ASSUME NEW i \in Importers, ImportEntry(i) PROVE DataTypes'
  <2>1. stored[i] + 1 \in 1..Entries
    BY <1>4, HistoryAssumption DEF ImportEntry, BaseInv, TypeOK, HistoryAssumption
  <2>2. <<i, stored[i] + 1>> \in Row
    BY <2>1 DEF Row, Old
  <2>3. /\ rows' = Append(rows, <<i, stored[i] + 1>>)
        /\ UNCHANGED <<Unsaved, hand, committed, queued>>
    BY <1>4 DEF ImportEntry, AppendRow
  <2>4. rows' \in Seq(Row) /\ Len(rows') = Len(rows) + 1 /\ Len(rows) \in Nat
    BY <1>0, <2>2, <2>3, AppendProperties DEF DataTypes
  <2> QED BY <1>0, <2>3, <2>4 DEF DataTypes
<1>5. CASE UNCHANGED <<Unsaved, rows, hand, queued>> /\ Commits
  <2>1. Len(rows) \in Nat
    BY <1>0 DEF DataTypes
  <2> QED BY <1>0, <1>5, <2>1 DEF DataTypes, Commits
<1> QED BY <1>1, <1>2, <1>3, <1>4, <1>5, DataStep

ControlTypes ==
  /\ storage \in BOOLEAN /\ connections \in 0..2 /\ ConnectionsOK
  /\ main \in {"running", "unregister", "crash", "migration", "crashed"}
  /\ Enabled \in BOOLEAN /\ Stopped \in BOOLEAN
  /\ SomethingToSave \in Threads \cup {"free"}
  /\ pc \in [Threads -> {"off", "check", "lock", "storeMessages", "storeStatusChanges",
                         "wait", "woken", "begin", "entries", "end"}]
  /\ stored \in [Importers -> 0..Entries]
  /\ Canceled \in [Importers -> BOOLEAN] /\ CancelForced \in [Importers -> BOOLEAN]
  /\ imported \subseteq Importers
  /\ registrations \in 0..MaxRegistrations /\ imports \in 0..MaxImports

\* What is left of TypeOK, and where threads can be.
LEMMA ControlStep ==
  ASSUME ControlTypes, ThreadsOK, Next,
         hand \in [Threads -> Events \cup {Nothing}]
  PROVE  ControlTypes' /\ ThreadsOK'
<1> USE HistoryAssumption
    DEF ControlTypes, ConnectionsOK, ThreadsOK, HistoryAssumption, Threads, StoringPlaces, Goto, dataVars,
        importVars
<1>1. CASE Saver
  <2>1. CASE SaverChecksStopped
    BY <2>1 DEF SaverChecksStopped
  <2>2. CASE SaverLocks
    BY <2>2 DEF SaverLocks
  <2>3. CASE SaverStored
    BY <2>3 DEF SaverStored
  <2>4. CASE SaverTimeout
    BY <2>4 DEF SaverTimeout
  <2>5. CASE SaverWakes
    BY <2>5 DEF SaverWakes
  <2>6. ASSUME NEW k \in Kinds, Take("saver", k) PROVE ControlTypes' /\ ThreadsOK'
    BY <2>6 DEF Take, Dequeue, Storing, Kinds
  <2>7. CASE Put("saver")
    BY <2>7 DEF Put
  <2>8. CASE MessagesStored("saver")
    BY <2>8 DEF MessagesStored
  <2> QED BY <1>1, <2>1, <2>2, <2>3, <2>4, <2>5, <2>6, <2>7, <2>8 DEF Saver
<1>2. ASSUME NEW i \in Importers, Import(i) PROVE ControlTypes' /\ ThreadsOK'
  <2>1. CASE ImportBegins(i)
    BY <2>1 DEF ImportBegins
  <2>2. CASE ImportEntry(i)
    BY <2>2 DEF ImportEntry
  <2>3. CASE ImportLeavesChat(i)
    BY <2>3 DEF ImportLeavesChat
  <2>4. CASE ImportLocks(i)
    BY <2>4 DEF ImportLocks
  <2>5. CASE ImportSyncs(i)
    BY <2>5 DEF ImportSyncs
  <2>6. CASE ImportEnds(i)
    BY <2>6 DEF ImportEnds
  <2>7. ASSUME NEW k \in Kinds, Take(i, k) PROVE ControlTypes' /\ ThreadsOK'
    BY <2>7 DEF Take, Dequeue, Storing, Kinds
  <2>8. CASE Put(i)
    BY <2>8 DEF Put
  <2>9. CASE MessagesStored(i)
    BY <2>9 DEF MessagesStored
  <2> QED
    BY <1>2, <2>1, <2>2, <2>3, <2>4, <2>5, <2>6, <2>7, <2>8, <2>9 DEF Import
<1>3. CASE Main
  <2>1. ASSUME NEW k \in Kinds, Enqueue(k) PROVE ControlTypes' /\ ThreadsOK'
    BY <2>1 DEF Enqueue, WakeAll
  <2>2. CASE AccountAdded
    BY <2>2 DEF AccountAdded
  <2>3. CASE RegisterStorage
    <3>1. connections' = connections + 1 /\ connections \in {0, 1} /\ connections' \in 0..2
      BY <2>3 DEF RegisterStorage
    <3>2. registrations' = registrations + 1 /\ registrations' \in 0..MaxRegistrations
      BY <2>3 DEF RegisterStorage
    <3> QED BY <2>3, <3>1, <3>2 DEF RegisterStorage
  <2>4. CASE UnregisterStorage
    BY <2>4 DEF UnregisterStorage, StopSaveThread, WakeAll
  <2>5. CASE Crash
    BY <2>5 DEF Crash, StopSaveThread, WakeAll
  <2>6. ASSUME NEW i \in Importers, StartImport(i) PROVE ControlTypes' /\ ThreadsOK'
    BY <2>6 DEF StartImport
  <2>7. ASSUME NEW i \in Importers, CancelImport(i) PROVE ControlTypes' /\ ThreadsOK'
    BY <2>7 DEF CancelImport
  <2>8. ASSUME NEW i \in Importers, DestroyImporter(i) PROVE ControlTypes' /\ ThreadsOK'
    BY <2>8 DEF DestroyImporter
  <2>9. CASE StorageDeleted
    <3>1. /\ main = "unregister" /\ pc["saver"] = "off" /\ main' = "running" /\ storage' = FALSE
          /\ UNCHANGED <<connections, Enabled, Stopped, SomethingToSave, pc, hand, stored, Canceled,
                         CancelForced, imported, imports, registrations>>
      BY <2>9 DEF StorageDeleted
    <3>2. ConnectionsOK'
      BY <3>1
    <3>3. ThreadsOK'
      BY <3>1
    <3> QED BY <3>1, <3>2, <3>3
  <2>10. CASE ImporterDestroyed
    BY <2>10 DEF ImporterDestroyed
  <2>11. CASE CrashHandled
    BY <2>11 DEF CrashHandled
  <2> QED
    BY <1>3, <2>1, <2>2, <2>3, <2>4, <2>5, <2>6, <2>7, <2>8, <2>9, <2>10, <2>11 DEF Main, Waits
<1> QED BY <1>1, <1>2, <1>3 DEF Next

\* What a step does to the import of one chat.
ChatStep(i) ==
  \/ pc'[i] = pc[i] /\ stored'[i] = stored[i] /\ (i \in imported' <=> i \in imported)
  \/ ImportEntry(i)
  \/ /\ pc[i] = "entries" /\ pc'[i] = "lock"
     /\ stored' = stored /\ stored[i] = Entries /\ i \in imported'
  \/ /\ i \in imported' <=> i \in imported
     /\ \/ pc[i] = "off" /\ pc'[i] = "begin" /\ stored'[i] = 0
        \/ pc[i] = "begin" /\ pc'[i] = "entries" /\ stored' = stored /\ i \notin imported
        \/ pc[i] \in {"begin", "end"} /\ pc'[i] \in {"end", "off"}
        \/ pc[i] = "entries" /\ pc'[i] = "end"
        \/ pc'[i] \in StoringPlaces
        \/ pc'[i] = "end" /\ rows' = rows /\ committed' = Len(rows)

\* The steps of an import are those of its thread, apart from its start.
LEMMA ImportControl ==
  ASSUME BaseInv, Next, NEW i \in Importers
  PROVE  ChatStep(i)
<1> USE HistoryAssumption DEF BaseInv, TypeOK, HistoryAssumption, Threads, Goto, importVars
<1>1. CASE Saver
  <2>1. pc'[i] = pc[i] /\ UNCHANGED importVars
    BY <1>1 DEF Saver, SaverChecksStopped, SaverLocks, SaverStored, SaverTimeout, SaverWakes,
                Take, Put, MessagesStored
  <2> QED BY <2>1 DEF ChatStep
<1>2. ASSUME NEW j \in Importers, Import(j), j # i PROVE ChatStep(i)
  <2>1. pc'[i] = pc[i] /\ stored'[i] = stored[i] /\ (i \in imported' <=> i \in imported)
    BY <1>2 DEF Import, ImportBegins, ImportEntry, ImportLeavesChat, ImportLocks, ImportSyncs,
                ImportEnds, Take, Put, MessagesStored
  <2> QED BY <2>1 DEF ChatStep
<1>3. CASE Import(i)
  <2>1. CASE ImportBegins(i)
    BY <2>1 DEF ImportBegins, ChatStep
  <2>2. CASE ImportEntry(i)
    BY <2>2 DEF ChatStep
  <2>3. CASE ImportLeavesChat(i)
    BY <2>3 DEF ImportLeavesChat, ChatStep
  <2>4. CASE ImportLocks(i)
    BY <2>4 DEF ImportLocks, ChatStep, StoringPlaces
  <2>5. CASE ImportSyncs(i)
    BY <2>5 DEF ImportSyncs, Commit, ChatStep
  <2>6. CASE ImportEnds(i)
    BY <2>6 DEF ImportEnds, ChatStep
  <2>7. ASSUME NEW k \in Kinds, Take(i, k) PROVE ChatStep(i)
    BY <2>7 DEF Take, ChatStep
  <2>8. CASE Put(i)
    BY <2>8 DEF Put, ChatStep
  <2>9. CASE MessagesStored(i)
    BY <2>9 DEF MessagesStored, ChatStep, StoringPlaces
  <2> QED BY <1>3, <2>1, <2>2, <2>3, <2>4, <2>5, <2>6, <2>7, <2>8, <2>9 DEF Import
<1>4. CASE Main
  <2>1. ASSUME NEW j \in Importers, StartImport(j) PROVE ChatStep(i)
    BY <2>1 DEF StartImport, ChatStep
  <2>2. ASSUME NEW j \in Importers, CancelImport(j) \/ DestroyImporter(j) PROVE ChatStep(i)
    BY <2>2 DEF CancelImport, DestroyImporter, ChatStep
  <2>3. CASE (\E k \in Kinds : Enqueue(k)) \/ AccountAdded \/ RegisterStorage
             \/ UnregisterStorage \/ Crash
    <3>1. pc'[i] = pc[i] /\ UNCHANGED importVars
      BY <2>3 DEF Enqueue, AccountAdded, RegisterStorage, UnregisterStorage, Crash, StopSaveThread,
                  WakeAll
    <3> QED BY <3>1 DEF ChatStep
  <2>4. CASE Waits
    <3>1. pc' = pc /\ UNCHANGED importVars
      BY <2>4 DEF Waits, StorageDeleted, ImporterDestroyed, CrashHandled
    <3> QED BY <3>1 DEF ChatStep
  <2> QED BY <1>4, <2>1, <2>2, <2>3, <2>4 DEF Main
<1> QED BY <1>1, <1>2, <1>3, <1>4 DEF Next

\* The entries of a chat are stored one after the other, and rows stay.
LEMMA ImportsStep == ASSUME BaseInv, Next PROVE ImportsOK'
<1> USE HistoryAssumption DEF BaseInv, HistoryAssumption
<1> DEFINE Stored(seq, i, n) == \E m \in 1..Len(seq) : seq[m] = <<i, n>>
<1>1. rows \in Seq(Row) /\ Len(rows) \in Nat
  BY DEF TypeOK
<1>2. rows' = rows \/ \E x \in Row : rows' = Append(rows, x)
  <2>1. ASSUME NEW t \in Threads, Put(t) PROVE \E x \in Row : rows' = Append(rows, x)
    BY <2>1 DEF Put, AppendRow, TypeOK, Row
  <2>2. ASSUME NEW i \in Importers, ImportEntry(i) PROVE \E x \in Row : rows' = Append(rows, x)
    <3>1. <<i, stored[i] + 1>> \in Row
      BY <2>2 DEF ImportEntry, TypeOK, Row, Old
    <3> QED BY <2>2, <3>1 DEF ImportEntry, AppendRow
  <2> QED BY <2>1, <2>2, DataStep DEF Take, Enqueue
<1>3. ASSUME NEW i, NEW n, Stored(rows, i, n) PROVE Stored(rows', i, n)
  <2>1. CASE rows' = rows
    BY <1>3, <2>1
  <2>2. ASSUME NEW x \in Row, rows' = Append(rows, x) PROVE Stored(rows', i, n)
    <3>1. Len(rows') = Len(rows) + 1 /\ \A m \in 1..Len(rows) : rows'[m] = rows[m]
      BY <2>2, <1>1, AppendProperties
    <3> QED BY <1>1, <1>3, <3>1
  <2> QED BY <1>2, <2>1, <2>2
<1>4. ASSUME NEW i \in Importers
      PROVE  /\ pc'[i] = "begin" => stored'[i] = 0
             /\ pc'[i] = "entries" =>
                  i \notin imported' /\ \A n \in 1..stored'[i] : Stored(rows', i, n)
             /\ i \in imported' => \A n \in 1..Entries : Stored(rows', i, n)
  <2>0. /\ pc[i] = "begin" => stored[i] = 0
        /\ pc[i] = "entries" => i \notin imported /\ \A n \in 1..stored[i] : Stored(rows', i, n)
        /\ i \in imported => \A n \in 1..Entries : Stored(rows', i, n)
    BY <1>3 DEF ImportsOK, Contains
  <2>1. CASE ImportEntry(i)
    <3>1. /\ pc[i] = "entries" /\ pc' = pc /\ imported' = imported /\ stored[i] \in Nat
          /\ stored'[i] = stored[i] + 1 /\ rows' = Append(rows, <<i, stored[i] + 1>>)
      BY <2>1 DEF ImportEntry, AppendRow, TypeOK
    <3>2. Stored(rows', i, stored[i] + 1)
      <4>1. Len(rows') = Len(rows) + 1 /\ rows'[Len(rows) + 1] = <<i, stored[i] + 1>>
        BY <1>1, <3>1
      <4> QED BY <1>1, <4>1
    <3> HIDE DEF Stored
    <3>3. ASSUME NEW n \in 1..stored'[i] PROVE Stored(rows', i, n)
      <4>1. n \in 1..stored[i] \/ n = stored[i] + 1
        BY <3>1
      <4> QED BY <2>0, <3>1, <3>2, <4>1
    <3> QED BY <2>0, <3>1, <3>3
  <2> HIDE DEF Stored
  <2>2. CASE ~ImportEntry(i)
    <3>1. ChatStep(i)
      BY ImportControl
    <3> QED BY <2>0, <2>2, <3>1 DEF ChatStep, StoringPlaces
  <2> QED BY <2>1, <2>2
<1> QED BY <1>4 DEF ImportsOK, Contains

\* What is on the disk are the rows committed.
LEMMA DiskRows ==
  ASSUME NEW seq \in Seq(Row), NEW c \in 0..Len(seq)
  PROVE  /\ SubSeq(seq, 1, c) \in Seq(Row) /\ Len(SubSeq(seq, 1, c)) = c
         /\ \A m \in 1..c : SubSeq(seq, 1, c)[m] = seq[m]
<1>1. Len(seq) \in Nat /\ c \in Nat
  OBVIOUS
<1>2. \A m \in 1..c : seq[m] \in Row
  BY <1>1
<1> QED BY <1>1, <1>2

\* A chat that is flagged reaches the disk before its thread goes on, and what
\* is on the disk stays there.
LEMMA OnDiskStep ==
  ASSUME BaseInv, DataTypes', ImportsOK', imported' \subseteq Importers, Next
  PROVE  ImportedChatIsOnDisk'
<1> USE DEF BaseInv
<1> DEFINE Within(seq, c, i, n) == \E m \in 1..c : seq[m] = <<i, n>>
<1>1. ASSUME NEW seq \in Seq(Row), NEW c \in 0..Len(seq), NEW i, NEW n
      PROVE  Contains(SubSeq(seq, 1, c), <<i, n>>) <=> Within(seq, c, i, n)
  BY DiskRows DEF Contains
<1>2. /\ rows \in Seq(Row) /\ committed \in 0..Len(rows)
      /\ rows' \in Seq(Row) /\ committed' \in 0..Len(rows')
  BY DEF TypeOK, DataTypes
<1>3. committed <= committed' /\ \A m \in 1..committed : rows'[m] = rows[m]
  <2>1. ASSUME NEW x, rows' = Append(rows, x), committed' = committed
        PROVE  committed <= committed' /\ \A m \in 1..committed : rows'[m] = rows[m]
    BY <1>2, <2>1, AppendProperties
  <2>2. ASSUME NEW t \in Threads, Put(t)
        PROVE  \E x : rows' = Append(rows, x) /\ committed' = committed
    BY <2>2 DEF Put, AppendRow
  <2>3. ASSUME NEW i \in Importers, ImportEntry(i)
        PROVE  \E x : rows' = Append(rows, x) /\ committed' = committed
    BY <2>3 DEF ImportEntry, AppendRow
  <2>4. CASE rows' = rows /\ Commits
    BY <1>2, <2>4 DEF Commits
  <2> QED BY <1>2, <2>1, <2>2, <2>3, <2>4, DataStep DEF Take, Enqueue, Commits
<1>4. ASSUME NEW i \in imported', NEW n \in 1..Entries PROVE Contains(rows, <<i, n>>)'
  BY <1>4 DEF ImportsOK
<1>5. ASSUME NEW i \in imported', NEW n \in 1..Entries, main' = "crashed",
             pc'[i] \notin {"off", "begin", "end"}
      PROVE  Within(rows', committed', i, n)
  <2>1. CrashHandled
    BY <1>5 DEF Next, Main, Waits, Saver, Import, SaverChecksStopped, SaverLocks, SaverStored,
                SaverTimeout, SaverWakes, Take, Put, MessagesStored, ImportBegins, ImportEntry,
                ImportLeavesChat, ImportLocks, ImportSyncs, ImportEnds, Enqueue, AccountAdded,
                RegisterStorage, UnregisterStorage, StopSaveThread, Crash, StartImport,
                CancelImport, DestroyImporter, StorageDeleted, ImporterDestroyed
  <2>2. storage
    BY <1>5, <2>1 DEF CrashHandled, ConnectionsOK
  <2>3. committed' = Len(rows')
    BY <2>1, <2>2 DEF CrashHandled
  <2> QED BY <1>4, <1>5, <2>3 DEF Contains
<1>6. ASSUME NEW i \in imported', pc'[i] \in {"off", "begin", "end"}, NEW n \in 1..Entries
      PROVE  Within(rows', committed', i, n)
  <2>0. i \in Importers
    BY <1>6
  <2>1. ChatStep(i)
    BY <2>0, ImportControl
  <2>2. i \in imported /\ pc[i] \in {"off", "begin", "end"} => Within(rows, committed, i, n)
    <3>1. Contains(OnDisk, <<i, n>>) <=> Within(rows, committed, i, n)
      <4> HIDE DEF Within
      <4>1. \A seq \in Seq(Row) : \A c \in 0..Len(seq) :
              Contains(SubSeq(seq, 1, c), <<i, n>>) <=> Within(seq, c, i, n)
        BY <1>1
      <4> QED BY <1>2, <4>1 DEF OnDisk
    <3> QED BY <3>1, <1>6 DEF ImportedChatIsOnDisk
  <2>3. Within(rows, committed, i, n) => Within(rows', committed', i, n)
    BY <1>2, <1>3
  <2>4. i \in imported => Within(rows, Len(rows), i, n)
    BY <2>0, <1>6 DEF ImportsOK, Contains
  <2>5. pc[i] = "entries" => i \notin imported
    BY <2>0 DEF ImportsOK
  <2> HIDE DEF Within
  <2>6. CASE rows' = rows /\ committed' = Len(rows) /\ (i \in imported' <=> i \in imported)
    BY <1>6, <2>4, <2>6
  <2>7. ~ImportEntry(i)
    <3>1. pc[i] # "entries" \/ pc'[i] # "entries"
      BY <1>6
    <3> QED BY <3>1, <1>6 DEF ImportEntry
  <2> QED BY <1>6, <2>1, <2>2, <2>3, <2>5, <2>6, <2>7 DEF ChatStep, StoringPlaces
<1>7. ASSUME NEW i \in imported', NEW n \in 1..Entries,
             pc'[i] \in {"off", "begin", "end"} \/ main' = "crashed"
      PROVE  Contains(OnDisk, <<i, n>>)'
  <2>1. Within(rows', committed', i, n)
    BY <1>5, <1>6, <1>7
  <2> HIDE DEF Within
  <2>2. \A seq \in Seq(Row) : \A c \in 0..Len(seq) :
          Contains(SubSeq(seq, 1, c), <<i, n>>) <=> Within(seq, c, i, n)
    BY <1>1
  <2> QED BY <1>2, <2>1, <2>2 DEF OnDisk
<1> QED BY <1>4, <1>7 DEF ImportedChatIsOnDisk

-----------------------------------------------------------------------------
(* The invariant and what it says.                                         *)

LEMMA BaseInit == ASSUME Init PROVE BaseInv
<1> USE HistoryAssumption DEF Init, HistoryAssumption
<1>1. TypeOK
  <2>1. \A k \in Kinds : Unsaved[k] \in Seq(Events)
    OBVIOUS
  <2>2. rows \in Seq(Row) /\ Len(rows) = 0
    OBVIOUS
  <2>3. DataTypes
    BY <2>1, <2>2 DEF DataTypes
  <2>4. registrations \in 0..MaxRegistrations /\ imports \in 0..MaxImports
    OBVIOUS
  <2>5. stored \in [Importers -> 0..Entries] /\ connections \in 0..2
    OBVIOUS
  <2> QED BY <2>3, <2>4, <2>5 DEF TypeOK, DataTypes, Threads
<1>2. ConnectionsOK /\ ThreadsOK
  BY DEF ConnectionsOK, ThreadsOK, Threads, StoringPlaces
<1>3. QueuesOK
  BY DEF QueuesOK, Events, Kinds
<1>4. Conserved
  <2> SUFFICES ASSUME NEW e \in Events
               PROVE  Copies(Unsaved[e[1]], e) + Cardinality(Holders(e)) + Copies(rows, e) = 0
    BY DEF Conserved
  <2>1. Copies(Unsaved[e[1]], e) = 0 /\ Copies(rows, e) = 0
    <3>1. Unsaved[e[1]] = <<>>
      BY DEF Events
    <3> QED BY <3>1, CopiesEmpty
  <2>2. Cardinality(Holders(e)) = 0
    <3>1. Holders(e) = {}
      BY DEF Holders, Nothing, Events, Kinds
    <3> QED BY <3>1, FS_EmptySet
  <2> QED BY <2>1, <2>2
<1>5. ImportsOK /\ ImportedChatIsOnDisk
  BY DEF ImportsOK, ImportedChatIsOnDisk, Threads
<1> QED BY <1>1, <1>2, <1>3, <1>4, <1>5 DEF BaseInv

LEMMA BaseStep == ASSUME BaseInv, [Next]_vars PROVE BaseInv'
<1>1. CASE Next
  <2>1. DataTypes' /\ QueuesOK' /\ Conserved' /\ ImportsOK'
    BY <1>1, DataTypesStep, QueuesStep, ConservedStep, ImportsStep DEF BaseInv
  <2>2. ControlTypes /\ ThreadsOK /\ hand \in [Threads -> Events \cup {Nothing}]
    BY DEF BaseInv, TypeOK, ControlTypes
  <2>3. ControlTypes' /\ ThreadsOK'
    BY <1>1, <2>2, ControlStep
  <2>4. ImportedChatIsOnDisk'
    BY <1>1, <2>1, <2>3, OnDiskStep DEF ControlTypes
  <2>5. TypeOK' /\ ConnectionsOK'
    BY <2>1, <2>3 DEF TypeOK, DataTypes, ControlTypes
  <2> QED BY <2>1, <2>3, <2>4, <2>5 DEF BaseInv
<1>2. CASE UNCHANGED vars
  <2> USE <1>2 DEF BaseInv, vars, dataVars, importVars
  <2>1. TypeOK' /\ ConnectionsOK' /\ ThreadsOK' /\ QueuesOK'
    BY DEF TypeOK, ConnectionsOK, ThreadsOK, QueuesOK
  <2>2. Conserved'
    BY DEF Conserved, Copies, Holders
  <2>3. ImportsOK' /\ ImportedChatIsOnDisk'
    BY DEF ImportsOK, ImportedChatIsOnDisk, OnDisk
  <2> QED BY <2>1, <2>2, <2>3
<1> QED BY <1>1, <1>2

\* However often the storage is registered, the invariant holds.
LEMMA BaseCorrect == Spec => []BaseInv
<1> QED BY BaseInit, BaseStep, PTL DEF Spec

\* Type correctness, for any number of threads, events and registrations.
THEOREM TypeCorrect == Spec => []TypeOK
<1>1. BaseInv => TypeOK
  BY DEF BaseInv
<1> QED BY <1>1, BaseCorrect, PTL

\* An event that was queued waits, is in the hand of a thread or is in the
\* database, as often as it was queued: no thread loses it or stores it twice,
\* whatever is unregistered, registered again, canceled or crashes.
THEOREM NothingIsLostOrDoubled == Spec => []Conserved
<1>1. BaseInv => Conserved
  BY DEF BaseInv
<1> QED BY <1>1, BaseCorrect, PTL

\* A chat flagged as imported is never imported again; it is in the open
\* transaction from then on, and on the disk when the thread that flagged it has
\* gone on or a crash was handled, wherever the import is canceled.
THEOREM FlaggedChatIsOnDisk == Spec => []ImportedChatIsOnDisk
<1>1. BaseInv => ImportedChatIsOnDisk
  BY DEF BaseInv
<1> QED BY <1>1, BaseCorrect, PTL

-----------------------------------------------------------------------------
(* How the saving ends, while the storage has been registered only once.   *)
(* (A storage that is registered again finds Stopped set: its save thread  *)
(* saves once and is gone.)                                                *)

LEMMA EndStep ==
  ASSUME BaseInv, EndInv, Next, registrations' <= 1
  PROVE  EndInv'
<1>0. /\ ConnectionsOK /\ ThreadsOK /\ registrations \in Nat
      /\ pc \in [Threads -> {"off", "check", "lock", "storeMessages", "storeStatusChanges",
                             "wait", "woken", "begin", "entries", "end"}]
      /\ Unsaved \in [Kinds -> Seq(Events)]
      /\ SomethingToSave \in Threads \cup {"free"}
  BY HistoryAssumption DEF BaseInv, TypeOK, HistoryAssumption
<1> USE <1>0, HistoryAssumption
    DEF EndInv, Empty, LastStore, ConnectionsOK, ThreadsOK, HistoryAssumption, Threads, Kinds,
        StoringPlaces, Goto, dataVars, importVars
<1>1. main # "crashed"
  BY DEF Next
<1>2. CASE Saver
  <2>1. CASE SaverChecksStopped
    BY <1>1, <2>1 DEF SaverChecksStopped
  <2>2. CASE SaverLocks
    BY <1>1, <2>2 DEF SaverLocks
  <2>3. CASE SaverStored
    BY <1>1, <2>3 DEF SaverStored
  <2>4. CASE SaverTimeout
    BY <1>1, <2>4 DEF SaverTimeout
  <2>5. CASE SaverWakes
    BY <1>1, <2>5 DEF SaverWakes
  <2>6. ASSUME NEW k \in Kinds, Take("saver", k) PROVE EndInv'
    BY <1>1, <2>6 DEF Take, Dequeue, Storing
  <2>7. CASE Put("saver")
    BY <1>1, <2>7 DEF Put
  <2>8. CASE MessagesStored("saver")
    BY <1>1, <2>8 DEF MessagesStored
  <2> QED BY <1>2, <2>1, <2>2, <2>3, <2>4, <2>5, <2>6, <2>7, <2>8 DEF Saver
<1>3. ASSUME NEW i \in Importers, Import(i) PROVE EndInv'
  <2>1. CASE ImportBegins(i)
    BY <1>1, <2>1 DEF ImportBegins
  <2>2. CASE ImportEntry(i)
    BY <1>1, <2>2 DEF ImportEntry
  <2>3. CASE ImportLeavesChat(i)
    BY <1>1, <2>3 DEF ImportLeavesChat
  <2>4. CASE ImportLocks(i)
    BY <1>1, <2>4 DEF ImportLocks
  <2>5. CASE ImportSyncs(i)
    BY <1>1, <2>5 DEF ImportSyncs
  <2>6. CASE ImportEnds(i)
    BY <1>1, <2>6 DEF ImportEnds
  <2>7. ASSUME NEW k \in Kinds, Take(i, k) PROVE EndInv'
    BY <1>1, <2>7 DEF Take, Dequeue, Storing
  <2>8. CASE Put(i)
    BY <1>1, <2>8 DEF Put
  <2>9. CASE MessagesStored(i)
    BY <1>1, <2>9 DEF MessagesStored
  <2> QED
    BY <1>3, <2>1, <2>2, <2>3, <2>4, <2>5, <2>6, <2>7, <2>8, <2>9 DEF Import
<1>4. CASE Main
  <2>1. ASSUME NEW k \in Kinds, Enqueue(k) PROVE EndInv'
    BY <1>1, <2>1 DEF Enqueue, WakeAll
  <2>2. CASE AccountAdded
    BY <1>1, <2>2 DEF AccountAdded
  <2>3. CASE RegisterStorage
    BY <1>1, <2>3 DEF RegisterStorage
  <2>4. CASE UnregisterStorage
    BY <1>1, <2>4 DEF UnregisterStorage, StopSaveThread, WakeAll
  <2>5. CASE Crash
    BY <1>1, <2>5 DEF Crash, StopSaveThread, WakeAll
  <2>6. ASSUME NEW i \in Importers, StartImport(i) PROVE EndInv'
    BY <1>1, <2>6 DEF StartImport
  <2>7. ASSUME NEW i \in Importers, CancelImport(i) PROVE EndInv'
    BY <1>1, <2>7 DEF CancelImport
  <2>8. ASSUME NEW i \in Importers, DestroyImporter(i) PROVE EndInv'
    BY <1>1, <2>8 DEF DestroyImporter
  <2>9. CASE StorageDeleted
    BY <1>1, <2>9 DEF StorageDeleted
  <2>10. CASE ImporterDestroyed
    BY <1>1, <2>10 DEF ImporterDestroyed
  <2>11. CASE CrashHandled
    BY <1>1, <2>11 DEF CrashHandled
  <2> QED
    BY <1>4, <2>1, <2>2, <2>3, <2>4, <2>5, <2>6, <2>7, <2>8, <2>9, <2>10, <2>11 DEF Main, Waits
<1> QED BY <1>2, <1>3, <1>4 DEF Next

OneStorage == registrations <= 1 => EndInv

LEMMA EndCorrect == Spec => []OneStorage
<1>1. ASSUME Init PROVE OneStorage
  BY <1>1 DEF Init, OneStorage, EndInv, Empty, LastStore, StoringPlaces, Threads
<1>2. ASSUME BaseInv, OneStorage, [Next]_vars PROVE OneStorage'
  <2>1. CASE Next
    <3>1. registrations \in Nat /\ registrations' \in {registrations, registrations + 1}
      <4>1. registrations \in Nat
        BY <1>2, HistoryAssumption DEF BaseInv, TypeOK, HistoryAssumption
      <4>2. CASE RegisterStorage
        BY <4>1, <4>2 DEF RegisterStorage
      <4>3. CASE ~RegisterStorage
        BY <2>1, <4>1, <4>3
           DEF Next, Main, Waits, Saver, Import, SaverChecksStopped, SaverLocks, SaverStored,
               SaverTimeout, SaverWakes, Take, Put, MessagesStored, ImportBegins, ImportEntry,
               ImportLeavesChat, ImportLocks, ImportSyncs, ImportEnds, Enqueue, AccountAdded,
               UnregisterStorage, Crash, StartImport, CancelImport, DestroyImporter,
               StorageDeleted, ImporterDestroyed, CrashHandled
      <4> QED BY <4>2, <4>3
    <3>2. registrations' <= 1 => registrations <= 1
      BY <3>1
    <3> QED BY <1>2, <2>1, <3>2, EndStep DEF OneStorage
  <2>2. CASE UNCHANGED vars
    BY <1>2, <2>2 DEF vars, dataVars, importVars, OneStorage, EndInv, Empty, LastStore
  <2> QED BY <1>2, <2>1, <2>2
<1> QED BY <1>1, <1>2, BaseCorrect, PTL DEF Spec

\* Once the storage is gone its queues and all hands are empty and all rows are on
\* the disk, and after a crash everything queued is on the disk but what import threads are just storing.
\* This fails when the storage is registered a second time: see the hazards.
THEOREM OneStorageLeavesNothing == Spec => [](registrations <= 1 => NothingIsLeftBehind)
<1>1. ASSUME BaseInv, EndInv PROVE ClosedStorageIsComplete
  <2>1. ASSUME ~storage PROVE pc["saver"] = "off" /\ \A i \in Importers : pc[i] = "off"
    BY <1>1, <2>1 DEF EndInv
  <2> QED
    BY <1>1, <2>1 DEF ClosedStorageIsComplete, BaseInv, ThreadsOK, EndInv, Empty, StoringPlaces,
                      Threads
<1>2. ASSUME BaseInv, EndInv, main = "crashed", storage, NEW e \in Events
      PROVE  Copies(OnDisk, e) + Cardinality(Holders(e) \cap Importers) = queued[e]
  <2>1. pc["saver"] = "off" /\ committed = Len(rows)
    BY <1>2 DEF EndInv
  <2>2. Unsaved[e[1]] = <<>>
    BY <1>2, <2>1 DEF EndInv, Empty, Events
  <2>3. Holders(e) \cap Importers = Holders(e)
    <3>1. hand["saver"] = Nothing
      BY <1>2, <2>1 DEF BaseInv, ThreadsOK, StoringPlaces, Threads
    <3>2. Nothing # e
      BY DEF Nothing, Events, Kinds
    <3> QED BY <3>1, <3>2 DEF Holders, Threads
  <2>4. OnDisk = rows
    <3>1. rows \in Seq(Row)
      BY <1>2 DEF BaseInv, TypeOK
    <3> QED BY <2>1, <3>1 DEF OnDisk
  <2>5. Copies(Unsaved[e[1]], e) = 0
    BY <2>2, CopiesEmpty
  <2>6. Copies(Unsaved[e[1]], e) + Cardinality(Holders(e)) + Copies(rows, e) = queued[e]
    BY <1>2 DEF BaseInv, Conserved
  <2>7. Cardinality(Holders(e)) \in Nat /\ Copies(rows, e) \in Nat
    <3>1. rows \in Seq(Row)
      BY <1>2 DEF BaseInv, TypeOK
    <3> QED BY <3>1, HolderCount, CopiesType
  <2>8. Copies(OnDisk, e) = Copies(rows, e)
    BY <2>4
  <2>9. Cardinality(Holders(e)) + Copies(rows, e) = queued[e]
    BY <2>5, <2>6, <2>7
  <2>10. Copies(rows, e) + Cardinality(Holders(e)) = queued[e]
    BY <2>7, <2>9
  <2> QED BY <2>3, <2>8, <2>10
<1>3. BaseInv /\ OneStorage => (registrations <= 1 => NothingIsLeftBehind)
  BY <1>1, <1>2 DEF OneStorage, NothingIsLeftBehind, CrashSavesHistory
<1> QED BY <1>3, BaseCorrect, EndCorrect, PTL

-----------------------------------------------------------------------------
(* The rows of a kind.                                                     *)

\* A set of numbers has a least one: instead of an induction over a sequence,
\* take the least length at which it would fail.
LEMMA Least ==
  ASSUME NEW T \in SUBSET Nat, T # {}
  PROVE  \E x \in T : \A y \in T : x <= y
<1> DEFINE W == {0..n : n \in T}
<1>1. IsWellFoundedOn(StrictSubsetOrdering(Nat), FiniteSubsetsOf(Nat))
  BY FS_StrictSubsetOrderingWellFounded
<1>2. W \subseteq FiniteSubsetsOf(Nat) /\ W # {}
  <2>1. \A n \in T : 0..n \in SUBSET Nat /\ IsFiniteSet(0..n)
    BY FS_Interval
  <2>2. \A n \in T : 0..n \in FiniteSubsetsOf(Nat)
    BY <2>1 DEF FiniteSubsetsOf
  <2> QED BY <2>2
<1>3. PICK w \in W : \A v \in W : <<v, w>> \notin StrictSubsetOrdering(Nat)
  <2> HIDE DEF W
  <2> QED BY <1>1, <1>2, WFMin
<1>4. PICK x \in T : w = 0..x
  OBVIOUS
<1>5. ASSUME NEW y \in T, y < x PROVE FALSE
  <2>1. 0..y \subseteq 0..x /\ x \in 0..x /\ x \notin 0..y
    BY <1>5
  <2>2. <<0..y, 0..x>> \in StrictSubsetOrdering(Nat)
    <3>1. 0..y # 0..x
      BY <2>1
    <3> QED BY <2>1, <3>1 DEF StrictSubsetOrdering
  <2>3. 0..y \in W
    OBVIOUS
  <2> QED BY <1>3, <1>4, <2>2, <2>3
<1> QED BY <1>5

\* The function OfKind computes.
IsPart(f, seq, k, N) ==
  f = [n \in 0..N |->
        IF n = 0 THEN <<>>
        ELSE IF seq[n][1] = k THEN Append(f[n - 1], seq[n]) ELSE f[n - 1]]

\* It exists up to every length.
LEMMA PartExists ==
  ASSUME NEW seq, NEW k, NEW N \in Nat
  PROVE  \E f : IsPart(f, seq, k, N)
<1> DEFINE T == {n \in Nat : ~ \E f : IsPart(f, seq, k, n)}
<1> SUFFICES ASSUME T # {} PROVE FALSE
  OBVIOUS
<1>1. PICK x \in T : \A y \in T : x <= y
  <2>1. T \in SUBSET Nat
    OBVIOUS
  <2> HIDE DEF T
  <2> QED BY <2>1, Least
<1>2. CASE x = 0
  <2> DEFINE f == [n \in 0..0 |-> <<>>]
  <2>1. IsPart(f, seq, k, 0)
    BY DEF IsPart
  <2> QED BY <2>1, <1>2, <1>1
<1>3. CASE x # 0
  <2>1. x - 1 \in Nat /\ x - 1 \notin T
    BY <1>1, <1>3
  <2>2. PICK f : IsPart(f, seq, k, x - 1)
    BY <2>1
  <2>3. \A n \in 0..(x - 1) : f[n] =
          IF n = 0 THEN <<>>
          ELSE IF seq[n][1] = k THEN Append(f[n - 1], seq[n]) ELSE f[n - 1]
    BY <2>2, Zenon DEF IsPart
  <2> DEFINE last == IF seq[x][1] = k THEN Append(f[x - 1], seq[x]) ELSE f[x - 1]
             g == [n \in 0..x |-> IF n = x THEN last ELSE f[n]]
  <2>4. ASSUME NEW n \in 0..x
        PROVE  g[n] = IF n = 0 THEN <<>>
                      ELSE IF seq[n][1] = k THEN Append(g[n - 1], seq[n]) ELSE g[n - 1]
    <3>1. CASE n = x
      <4>1. g[n] = last /\ n # 0 /\ g[n - 1] = f[x - 1]
        BY <1>1, <1>3, <3>1
      <4> QED BY <3>1, <4>1
    <3>2. CASE n # x
      <4>1. n \in 0..(x - 1) /\ (n # 0 => n - 1 \in 0..(x - 1) /\ n - 1 # x)
        BY <1>1, <3>2
      <4>2. g[n] = f[n] /\ (n # 0 => g[n - 1] = f[n - 1])
        BY <1>1, <3>2, <4>1
      <4> QED BY <2>3, <4>1, <4>2
    <3> QED BY <3>1, <3>2
  <2>5. IsPart(g, seq, k, x)
    BY <2>4 DEF IsPart
  <2> QED BY <2>5, <1>1
<1> QED BY <1>2, <1>3

\* What it is at each length.
PartAt(f, seq, k, n) ==
  f[n] = IF n = 0 THEN <<>>
         ELSE IF seq[n][1] = k THEN Append(f[n - 1], seq[n]) ELSE f[n - 1]

LEMMA PartValue ==
  ASSUME NEW f, NEW seq, NEW k, NEW N, IsPart(f, seq, k, N)
  PROVE  \A n \in 0..N : PartAt(f, seq, k, n)
BY Zenon DEF IsPart, PartAt

SamePrefix(seq, long, N) == \A n \in 1..N : long[n] = seq[n]

\* It depends on the rows up to there only.
LEMMA PartAgrees ==
  ASSUME NEW seq, NEW long, NEW k, NEW f, NEW g, NEW N \in Nat, NEW M \in Nat, N <= M,
         SamePrefix(seq, long, N), IsPart(f, seq, k, N), IsPart(g, long, k, M)
  PROVE  f[N] = g[N]
<1> DEFINE T == {n \in 0..N : f[n] # g[n]}
<1>1. /\ \A n \in 0..N : PartAt(f, seq, k, n)
      /\ \A n \in 0..M : PartAt(g, long, k, n)
  BY PartValue
<1>2. CASE T = {}
  BY <1>2
<1>3. CASE T # {}
  <2>1. PICK x \in T : \A y \in T : x <= y
    <3>1. T \in SUBSET Nat
      OBVIOUS
    <3> HIDE DEF T
    <3> QED BY <3>1, <1>3, Least
  <2>2. x # 0
    <3>1. PartAt(f, seq, k, 0) /\ PartAt(g, long, k, 0)
      BY <1>1
    <3> QED BY <3>1 DEF PartAt
  <2>3. f[x - 1] = g[x - 1] /\ long[x] = seq[x]
    BY <2>1, <2>2 DEF SamePrefix
  <2> QED BY <1>1, <2>2, <2>3 DEF PartAt
<1> QED BY <1>2, <1>3

\* It consists of rows.
LEMMA PartType ==
  ASSUME NEW S, NEW seq \in Seq(S), NEW k, NEW f, IsPart(f, seq, k, Len(seq))
  PROVE  f[Len(seq)] \in Seq(S)
<1> DEFINE N == Len(seq)
           T == {n \in 0..N : f[n] \notin Seq(S)}
<1>1. N \in Nat /\ \A n \in 0..N : PartAt(f, seq, k, n)
  BY PartValue
<1>2. \A n \in 1..N : seq[n] \in S
  OBVIOUS
<1> HIDE DEF N
<1>3. CASE T = {}
  BY <1>1, <1>3 DEF N
<1>4. CASE T # {}
  <2>1. PICK x \in T : \A y \in T : x <= y
    <3>1. T \in SUBSET Nat
      BY <1>1
    <3> HIDE DEF T
    <3> QED BY <3>1, <1>4, Least
  <2>2. x # 0
    <3>1. f[0] = <<>> /\ <<>> \in Seq(S)
      BY <1>1 DEF PartAt
    <3> QED BY <3>1
  <2>3. f[x - 1] \in Seq(S) /\ seq[x] \in S
    BY <1>1, <1>2, <2>1, <2>2
  <2>4. Append(f[x - 1], seq[x]) \in Seq(S)
    BY <2>3
  <2> QED BY <1>1, <2>2, <2>3, <2>4 DEF PartAt
<1> QED BY <1>3, <1>4

LEMMA OfKindPart ==
  ASSUME NEW S, NEW seq \in Seq(S), NEW k
  PROVE  \E f : IsPart(f, seq, k, Len(seq)) /\ OfKind(seq, k) = f[Len(seq)]
<1>1. \E f : IsPart(f, seq, k, Len(seq))
  BY PartExists
<1> QED BY <1>1, Zenon DEF OfKind, IsPart

\* There are none before the first, and one more at the end is appended if it is
\* of the kind.
LEMMA OfKindEmpty == \A k : OfKind(<<>>, k) = <<>>
<1> TAKE k
<1>1. <<>> \in Seq({}) /\ Len(<<>>) = 0
  OBVIOUS
<1>2. PICK f : IsPart(f, <<>>, k, 0) /\ OfKind(<<>>, k) = f[0]
  <2>1. \A seq \in Seq({}) : \E f : IsPart(f, seq, k, Len(seq)) /\ OfKind(seq, k) = f[Len(seq)]
    BY OfKindPart
  <2> QED BY <1>1, <2>1
<1>3. PartAt(f, <<>>, k, 0)
  BY <1>2, PartValue
<1> QED BY <1>2, <1>3 DEF PartAt

LEMMA OfKindAppend ==
  ASSUME NEW S, NEW seq \in Seq(S), NEW x \in S, NEW k
  PROVE  /\ OfKind(seq, k) \in Seq(S)
         /\ OfKind(Append(seq, x), k) =
              IF x[1] = k THEN Append(OfKind(seq, k), x) ELSE OfKind(seq, k)
<1> DEFINE long == Append(seq, x)
           N == Len(seq)
<1>1. /\ N \in Nat /\ long \in Seq(S) /\ Len(long) = N + 1 /\ long[N + 1] = x
      /\ SamePrefix(seq, long, N)
  BY AppendProperties DEF SamePrefix
<1>2. PICK f : IsPart(f, seq, k, N) /\ OfKind(seq, k) = f[N]
  BY OfKindPart
<1> HIDE DEF long
<1>3. PICK g : IsPart(g, long, k, N + 1) /\ OfKind(long, k) = g[N + 1]
  BY <1>1, OfKindPart
<1>4. f[N] = g[N]
  <2>1. N + 1 \in Nat /\ N <= N + 1
    BY <1>1
  <2>2. \A n, m \in Nat : n <= m /\ SamePrefix(seq, long, n) /\ IsPart(f, seq, k, n)
                               /\ IsPart(g, long, k, m) => f[n] = g[n]
    BY PartAgrees
  <2> HIDE DEF N
  <2> QED BY <1>1, <1>2, <1>3, <2>1, <2>2
<1>5. f[N] \in Seq(S)
  BY <1>2, PartType
<1>6. PartAt(g, long, k, N + 1)
  <2>1. N + 1 \in 0..(N + 1)
    BY <1>1
  <2>2. \A n \in 0..(N + 1) : PartAt(g, long, k, n)
    BY <1>3, PartValue
  <2> QED BY <2>1, <2>2
<1>7. N + 1 # 0 /\ (N + 1) - 1 = N
  BY <1>1
<1> HIDE DEF N
<1> QED BY <1>1, <1>2, <1>3, <1>4, <1>5, <1>6, <1>7 DEF PartAt, long

-----------------------------------------------------------------------------
(* Events come out of the queues as they were put in.                      *)

\* What waits or is in a hand has been queued.
LEMMA HasBeenQueued ==
  ASSUME BaseInv
  PROVE  /\ \A k \in Kinds : \A n \in 1..Len(Unsaved[k]) : queued[Unsaved[k][n]] > 0
         /\ \A t \in Threads : hand[t] # Nothing => queued[hand[t]] > 0
<1>1. ASSUME NEW e \in Events
      PROVE  /\ Copies(Unsaved[e[1]], e) \in Nat /\ Copies(rows, e) \in Nat
             /\ Cardinality(Holders(e)) \in Nat
             /\ Copies(Unsaved[e[1]], e) + Cardinality(Holders(e)) + Copies(rows, e) = queued[e]
  <2>1. Unsaved[e[1]] \in Seq(Events) /\ rows \in Seq(Row)
    BY DEF BaseInv, TypeOK, Events
  <2> QED BY <2>1, CopiesType, HolderCount DEF BaseInv, Conserved
<1>2. ASSUME NEW k \in Kinds, NEW n \in 1..Len(Unsaved[k]) PROVE queued[Unsaved[k][n]] > 0
  <2> DEFINE e == Unsaved[k][n]
  <2>1. Unsaved[k] \in Seq(Events)
    BY DEF BaseInv, TypeOK
  <2>2. e \in Events /\ e[1] = k
    BY <2>1 DEF BaseInv, QueuesOK
  <2>3. Copies(Unsaved[k], e) # 0
    BY <2>1, CopiesType
  <2> HIDE DEF e
  <2>4. queued[e] > 0
    BY <1>1, <2>2, <2>3
  <2> QED BY <2>4 DEF e
<1>3. ASSUME NEW t \in Threads, hand[t] # Nothing PROVE queued[hand[t]] > 0
  <2>1. hand[t] \in Events
    BY <1>3 DEF BaseInv, TypeOK
  <2>2. Cardinality(Holders(hand[t])) # 0
    <3>1. t \in Holders(hand[t])
      BY DEF Holders
    <3>2. Holders(hand[t]) \in SUBSET Threads /\ IsFiniteSet(Threads)
      BY HistoryAssumption, FS_AddElement DEF HistoryAssumption, Threads, Holders
    <3> QED BY <3>1, <3>2, FS_Subset, FS_EmptySet
  <2> QED BY <1>1, <2>1, <2>2
<1> QED BY <1>2, <1>3

LEMMA SortedStep == ASSUME BaseInv, SortedInv, Next PROVE SortedInv'
<1>0. /\ \A k \in Kinds : Unsaved[k] \in Seq(Events)
      /\ hand \in [Threads -> Events \cup {Nothing}]
      /\ \A e \in Events : e[1] \in Kinds /\ e[2] \in Nat
  BY DEF BaseInv, TypeOK, Events
<1>1. ASSUME NEW t \in Threads, NEW k \in Kinds, Take(t, k) PROVE SortedInv'
  <2>1. /\ Unsaved[k] \in Seq(Events) /\ Unsaved[k] # <<>>
        /\ Head(Unsaved[k]) \in Events /\ Head(Unsaved[k])[1] = k
        /\ hand' = [hand EXCEPT ![t] = Head(Unsaved[k])]
        /\ Unsaved' = [Unsaved EXCEPT ![k] = Tail(Unsaved[k])]
    BY <1>1, Taken DEF BaseInv
  <2>2. /\ Len(Unsaved[k]) \in Nat \ {0} /\ Head(Unsaved[k]) = Unsaved[k][1]
        /\ Len(Tail(Unsaved[k])) = Len(Unsaved[k]) - 1
        /\ \A n \in 1..Len(Tail(Unsaved[k])) : Tail(Unsaved[k])[n] = Unsaved[k][n + 1]
    BY <2>1, HeadTailProperties, EmptySeq
  <2>3. ASSUME NEW j \in Kinds
        PROVE  \/ Unsaved'[j] = Unsaved[j] /\ j # k
               \/ /\ j = k /\ Len(Unsaved'[j]) = Len(Unsaved[j]) - 1
                  /\ \A n \in 1..Len(Unsaved'[j]) : Unsaved'[j][n] = Unsaved[j][n + 1]
    BY <2>1, <2>2 DEF BaseInv, TypeOK
  <2>4. ASSUME NEW j \in Kinds, NEW m \in 1..Len(Unsaved'[j]), NEW n \in 1..Len(Unsaved'[j]),
               m <= n
        PROVE  Unsaved'[j][m][2] <= Unsaved'[j][n][2]
    <3>1. CASE j # k
      BY <2>3, <2>4, <3>1 DEF SortedInv
    <3>2. CASE j = k
      <4>1. m + 1 \in 1..Len(Unsaved[j]) /\ n + 1 \in 1..Len(Unsaved[j]) /\ m + 1 <= n + 1
        BY <2>2, <2>3, <2>4, <3>2
      <4> QED BY <2>3, <2>4, <3>2, <4>1 DEF SortedInv
    <3> QED BY <3>1, <3>2
  <2>5. ASSUME NEW u \in Threads, hand'[u] # Nothing, NEW n \in 1..Len(Unsaved'[hand'[u][1]])
        PROVE  hand'[u][2] <= Unsaved'[hand'[u][1]][n][2]
    <3>1. CASE u = t
      <4>1. hand'[u] = Unsaved[k][1] /\ hand'[u][1] = k
        BY <1>0, <2>1, <2>2, <3>1
      <4>2. n + 1 \in 1..Len(Unsaved[k]) /\ 1 \in 1..Len(Unsaved[k]) /\ 1 <= n + 1
        BY <2>2, <2>3, <2>5, <4>1
      <4> QED BY <2>3, <2>5, <4>1, <4>2 DEF SortedInv
    <3>2. CASE u # t
      <4>1. hand'[u] = hand[u] /\ hand[u] # Nothing /\ hand[u][1] \in Kinds
        BY <1>0, <2>1, <2>5, <3>2
      <4>2. CASE hand[u][1] # k
        BY <2>3, <2>5, <4>1, <4>2 DEF SortedInv
      <4>3. CASE hand[u][1] = k
        <5>1. n + 1 \in 1..Len(Unsaved[k])
          BY <2>2, <2>3, <2>5, <4>1, <4>3
        <5> QED BY <2>3, <2>5, <4>1, <4>3, <5>1 DEF SortedInv
      <4> QED BY <4>2, <4>3
    <3> QED BY <3>1, <3>2
  <2> QED BY <2>4, <2>5 DEF SortedInv
<1>2. ASSUME NEW t \in Threads, Put(t) PROVE SortedInv'
  BY <1>0, <1>2 DEF Put, SortedInv
<1>3. ASSUME NEW k \in Kinds, Enqueue(k) PROVE SortedInv'
  <2> DEFINE n == Cardinality(Numbered(k)) + 1
             more == [c \in 1..connections |-> <<k, n>>]
  <2>1. /\ n <= MaxEvents /\ connections \in 1..2 /\ hand' = hand
        /\ Unsaved' = [Unsaved EXCEPT ![k] = @ \o more]
    BY <1>3 DEF Enqueue, Numbered, TypeOK, BaseInv
  <2>2. /\ n \in 1..MaxEvents
        /\ \A m \in 1..MaxEvents : queued[<<k, m>>] > 0 <=> m < n
    <3> HIDE DEF n
    <3> QED BY <2>1, NextNumber DEF n, BaseInv
  <2> HIDE DEF n
  <2>3. \A e \in Events : e[1] = k /\ queued[e] > 0 => e[2] <= n
    <3> TAKE e \in Events
    <3>1. e = <<e[1], e[2]>> /\ e[2] \in 1..MaxEvents /\ MaxEvents \in Nat
      BY HistoryAssumption DEF HistoryAssumption, Events
    <3> QED BY <2>2, <3>1
  <2>4. /\ more \in Seq(Events) /\ Len(more) = connections
        /\ \A c \in 1..connections : more[c] = <<k, n>>
    <3>1. <<k, n>> \in Events
      BY <2>2 DEF Events
    <3> QED BY <2>1, <3>1
  <2>5. /\ Len(Unsaved[k] \o more) = Len(Unsaved[k]) + connections
        /\ \A m \in 1..Len(Unsaved[k] \o more) :
             (Unsaved[k] \o more)[m] = IF m <= Len(Unsaved[k]) THEN Unsaved[k][m]
                                       ELSE more[m - Len(Unsaved[k])]
    <3> HIDE DEF more
    <3>1. \A u, v \in Seq(Events) :
            /\ Len(u \o v) = Len(u) + Len(v)
            /\ \A m \in 1..Len(u) + Len(v) :
                 (u \o v)[m] = IF m <= Len(u) THEN u[m] ELSE v[m - Len(u)]
      BY ConcatProperties
    <3>2. Unsaved[k] \in Seq(Events)
      BY <1>0
    <3>3. more \in Seq(Events) /\ Len(more) = connections
      BY <2>4
    <3>4. /\ Len(Unsaved[k] \o more) = Len(Unsaved[k]) + Len(more)
          /\ \A m \in 1..Len(Unsaved[k]) + Len(more) :
               (Unsaved[k] \o more)[m] = IF m <= Len(Unsaved[k]) THEN Unsaved[k][m]
                                         ELSE more[m - Len(Unsaved[k])]
      BY <3>1, <3>2, <3>3, Zenon
    <3> QED BY <3>3, <3>4, Zenon
  <2>6. ASSUME NEW m \in 1..Len(Unsaved'[k])
        PROVE  \/ m \in 1..Len(Unsaved[k]) /\ Unsaved'[k][m] = Unsaved[k][m]
               \/ m > Len(Unsaved[k]) /\ Unsaved'[k][m][2] = n
    <3> HIDE DEF more
    <3>1. Unsaved'[k] = Unsaved[k] \o more
      BY <2>1 DEF BaseInv, TypeOK
    <3>2. Len(Unsaved[k]) \in Nat
      BY <1>0
    <3>3. m <= Len(Unsaved[k]) \/ m - Len(Unsaved[k]) \in 1..connections
      BY <2>1, <2>5, <3>1, <3>2
    <3>4. CASE m <= Len(Unsaved[k])
      BY <2>5, <3>1, <3>2, <3>4
    <3>5. CASE ~(m <= Len(Unsaved[k]))
      BY <2>4, <2>5, <3>1, <3>2, <3>3, <3>5
    <3> QED BY <3>4, <3>5
  <2>7. \A j \in Kinds : j # k => Unsaved'[j] = Unsaved[j]
    BY <2>1 DEF BaseInv, TypeOK
  <2>8. \A m \in 1..Len(Unsaved[k]) : Unsaved[k][m][2] <= n
    <3> TAKE m \in 1..Len(Unsaved[k])
    <3>1. Unsaved[k][m] \in Events /\ Unsaved[k][m][1] = k
      BY <1>0 DEF BaseInv, QueuesOK
    <3> QED BY <2>3, <3>1, HasBeenQueued
  <2>9. ASSUME NEW j \in Kinds, NEW a \in 1..Len(Unsaved'[j]), NEW b \in 1..Len(Unsaved'[j]),
               a <= b
        PROVE  Unsaved'[j][a][2] <= Unsaved'[j][b][2]
    <3>1. CASE j # k
      BY <2>7, <2>9, <3>1 DEF SortedInv
    <3>2. CASE j = k
      <4>1. Len(Unsaved[k]) \in Nat /\ n \in Nat
        BY <1>0, <2>2
      <4>2. CASE b \in 1..Len(Unsaved[k])
        <5>1. a \in 1..Len(Unsaved[k]) /\ Unsaved'[k][a] = Unsaved[k][a]
              /\ Unsaved'[k][b] = Unsaved[k][b]
          BY <2>6, <2>9, <3>2, <4>1, <4>2
        <5> QED BY <2>9, <3>2, <4>2, <5>1 DEF SortedInv
      <4>3. CASE b > Len(Unsaved[k])
        <5>1. Unsaved'[k][b][2] = n
          BY <2>6, <3>2, <4>1, <4>3
        <5>2. Unsaved'[k][a][2] <= n
          BY <2>6, <2>8, <3>2, <4>1
        <5> QED BY <3>2, <5>1, <5>2
      <4> QED BY <2>6, <3>2, <4>2, <4>3
    <3> QED BY <3>1, <3>2
  <2>10. ASSUME NEW u \in Threads, hand[u] # Nothing, NEW a \in 1..Len(Unsaved'[hand[u][1]])
         PROVE  hand[u][2] <= Unsaved'[hand[u][1]][a][2]
    <3>1. hand[u] \in Events /\ hand[u][1] \in Kinds
      BY <1>0, <2>10
    <3>2. CASE hand[u][1] # k
      BY <2>7, <2>10, <3>1, <3>2 DEF SortedInv
    <3>3. CASE hand[u][1] = k
      <4>1. hand[u][2] <= n
        BY <2>3, <2>10, <3>1, <3>3, HasBeenQueued
      <4> QED BY <2>6, <2>10, <3>3, <4>1 DEF SortedInv
    <3> QED BY <3>2, <3>3
  <2> QED BY <2>1, <2>9, <2>10 DEF SortedInv
<1>4. ASSUME NEW i \in Importers, ImportEntry(i) PROVE SortedInv'
  BY <1>4 DEF ImportEntry, SortedInv
<1>5. CASE UNCHANGED <<Unsaved, rows, hand, queued>>
  BY <1>5 DEF SortedInv
<1> QED BY <1>1, <1>2, <1>3, <1>4, <1>5, DataStep

-----------------------------------------------------------------------------
(* The queues the abstract specification sees.                             *)

\* InHand, given the hands and who has the mutex.
HandIn(g, t, k) == IF g[t][1] = k THEN <<g[t]>> ELSE <<>>

OtherHand(g, s, k) == IF s \in Importers THEN HandIn(g, s, k) ELSE <<>>

InHandOf(g, s, k) ==
  LET own == HandIn(g, "saver", k)
      other == OtherHand(g, s, k)
  IN  IF own # <<>> /\ other # <<>> /\ g["saver"][2] < g[s][2]
      THEN own \o other ELSE other \o own

LEMMA InHandIs ==
  \A k : InHand(k) = InHandOf(hand, SomethingToSave, k)
BY DEF InHand, InHandOf, HandOf, HandIn, OtherHand

Hands == [Threads -> Events \cup {Nothing}]

\* A hand is empty or holds one event.
LEMMA HandIs ==
  ASSUME NEW g \in Hands, NEW t \in Threads, NEW k \in Kinds
  PROVE  /\ HandIn(g, t, k) \in Seq(Events)
         /\ HandIn(g, t, k) =
              IF g[t] \in Events /\ g[t][1] = k THEN <<g[t]>> ELSE <<>>
<1>1. g[t] \in Events \/ g[t] = Nothing
  BY DEF Hands
<1>2. Nothing[1] # k
  BY DEF Nothing, Kinds
<1>3. Nothing \notin Events
  BY DEF Nothing, Events, Kinds
<1> QED BY <1>1, <1>2, <1>3 DEF HandIn

\* One hand is simply what it holds; two are ordered by the numbers of their events.
LEMMA InHandValue ==
  ASSUME NEW g \in Hands, NEW s \in Threads \cup {"free"}, NEW k \in Kinds
  PROVE  /\ OtherHand(g, s, k) \in Seq(Events) /\ InHandOf(g, s, k) \in Seq(Events)
         /\ HandIn(g, "saver", k) = <<>> => InHandOf(g, s, k) = OtherHand(g, s, k)
         /\ OtherHand(g, s, k) = <<>> => InHandOf(g, s, k) = HandIn(g, "saver", k)
         /\ HandIn(g, "saver", k) # <<>> /\ OtherHand(g, s, k) # <<>> =>
              InHandOf(g, s, k) =
                IF g["saver"][2] < g[s][2]
                THEN HandIn(g, "saver", k) \o OtherHand(g, s, k)
                ELSE OtherHand(g, s, k) \o HandIn(g, "saver", k)
<1> DEFINE own == HandIn(g, "saver", k)
           other == OtherHand(g, s, k)
<1>1. own \in Seq(Events)
  BY HandIs DEF Threads
<1>2. other \in Seq(Events)
  BY HandIs DEF Threads, OtherHand
<1>3. InHandOf(g, s, k) =
        IF own # <<>> /\ other # <<>> /\ g["saver"][2] < g[s][2]
        THEN own \o other ELSE other \o own
  BY DEF InHandOf
<1> HIDE DEF own, other
<1>4. /\ own \o other \in Seq(Events) /\ other \o own \in Seq(Events)
      /\ other \o <<>> = other /\ <<>> \o own = own
  BY <1>1, <1>2, ConcatProperties, ConcatEmptySeq
<1> QED BY <1>1, <1>2, <1>3, <1>4 DEF own, other

\* Thread t takes x, which comes after what is in the other hands.
MayTake(g, s, t, k, x) ==
  /\ t = "saver" \/ t = s
  /\ x[1] = k /\ g[t] = Nothing
  /\ \A u \in Threads : g[u] \in Events /\ g[u][1] = k => g[u][2] <= x[2]

Taking(g, s, t, k, x, j) ==
  InHandOf([g EXCEPT ![t] = x], s, j) =
    IF j = k THEN InHandOf(g, s, k) \o <<x>> ELSE InHandOf(g, s, j)

LEMMA TakeInHand ==
  ASSUME NEW g \in Hands, NEW s \in Threads \cup {"free"}, NEW k \in Kinds, NEW j \in Kinds,
         NEW t \in Threads, NEW x \in Events, MayTake(g, s, t, k, x)
  PROVE  Taking(g, s, t, k, x, j)
<1> USE DEF MayTake, Taking
<1> DEFINE h == [g EXCEPT ![t] = x]
<1>1. h \in Hands /\ h[t] = x /\ \A u \in Threads : u # t => h[u] = g[u]
  BY DEF Hands
<1>2. Nothing \notin Events /\ "saver" \in Threads /\ "saver" \notin Importers
      /\ Importers \subseteq Threads
  BY HistoryAssumption DEF HistoryAssumption, Threads, Nothing, Events, Kinds
<1>3. HandIn(g, t, j) = <<>>
  BY <1>2, HandIs
<1>4. HandIn(h, t, j) = IF j = k THEN <<x>> ELSE <<>>
  <2> HIDE DEF h
  <2> QED BY <1>1, HandIs
<1>5. \A u \in Threads : u # t => HandIn(h, u, j) = HandIn(g, u, j)
  BY <1>1 DEF HandIn
<1> HIDE DEF h
<1>6. CASE j # k
  <2>1. HandIn(h, "saver", j) = HandIn(g, "saver", j) /\ OtherHand(h, s, j) = OtherHand(g, s, j)
    BY <1>2, <1>3, <1>4, <1>5, <1>6 DEF OtherHand
  <2>2. HandIn(g, "saver", j) # <<>> /\ OtherHand(g, s, j) # <<>> =>
          h["saver"] = g["saver"] /\ h[s] = g[s]
    BY <1>1, <1>2, <1>3 DEF OtherHand
  <2>3. \A f \in Hands :
          /\ HandIn(f, "saver", j) = <<>> => InHandOf(f, s, j) = OtherHand(f, s, j)
          /\ OtherHand(f, s, j) = <<>> => InHandOf(f, s, j) = HandIn(f, "saver", j)
          /\ HandIn(f, "saver", j) # <<>> /\ OtherHand(f, s, j) # <<>> =>
               InHandOf(f, s, j) =
                 IF f["saver"][2] < f[s][2]
                 THEN HandIn(f, "saver", j) \o OtherHand(f, s, j)
                 ELSE OtherHand(f, s, j) \o HandIn(f, "saver", j)
    BY InHandValue
  <2>4. InHandOf(h, s, j) = InHandOf(g, s, j)
    BY <1>1, <2>1, <2>2, <2>3
  <2> QED BY <1>6, <2>4 DEF h
<1>7. CASE j = k /\ t = "saver"
  <2>1. /\ HandIn(g, "saver", k) = <<>> /\ HandIn(h, "saver", k) = <<x>>
        /\ OtherHand(h, s, k) = OtherHand(g, s, k)
    BY <1>2, <1>3, <1>4, <1>5, <1>7 DEF OtherHand
  <2>2. InHandOf(g, s, k) = OtherHand(g, s, k) /\ OtherHand(g, s, k) \in Seq(Events)
    BY <2>1, InHandValue
  <2>3. CASE OtherHand(g, s, k) = <<>>
    <3>1. InHandOf(h, s, k) = <<x>>
      BY <1>1, <2>1, <2>3, InHandValue
    <3>2. <<>> \o <<x>> = <<x>>
      OBVIOUS
    <3> QED BY <1>7, <2>2, <2>3, <3>1, <3>2 DEF h
  <2>4. CASE OtherHand(g, s, k) # <<>>
    <3>1. s \in Importers /\ s \in Threads /\ s # t
      BY <1>2, <1>7, <2>4 DEF OtherHand
    <3>2. g[s] \in Events /\ g[s][1] = k /\ h[s] = g[s]
      BY <1>1, <2>4, <3>1, HandIs DEF OtherHand
    <3>3. ~(h["saver"][2] < h[s][2])
      <4>1. g[s][2] <= x[2] /\ g[s][2] \in Nat /\ x[2] \in Nat
        BY <3>1, <3>2 DEF Events
      <4> QED BY <1>1, <1>7, <3>2, <4>1
    <3>4. <<x>> # <<>>
      OBVIOUS
    <3>5. InHandOf(h, s, k) = OtherHand(h, s, k) \o HandIn(h, "saver", k)
      BY <1>1, <2>1, <2>4, <3>3, <3>4, InHandValue
    <3> QED BY <1>7, <2>1, <2>2, <3>5 DEF h
  <2> QED BY <2>3, <2>4
<1>8. CASE j = k /\ t # "saver"
  <2>1. t = s /\ s \in Importers
    BY <1>8 DEF Threads
  <2>2. /\ OtherHand(g, s, k) = <<>> /\ OtherHand(h, s, k) = <<x>>
        /\ HandIn(h, "saver", k) = HandIn(g, "saver", k)
    BY <1>2, <1>3, <1>4, <1>5, <1>8, <2>1 DEF OtherHand
  <2>3. InHandOf(g, s, k) = HandIn(g, "saver", k) /\ HandIn(g, "saver", k) \in Seq(Events)
    BY <1>2, <2>2, InHandValue, HandIs
  <2>4. CASE HandIn(g, "saver", k) = <<>>
    <3>1. InHandOf(h, s, k) = <<x>>
      BY <1>1, <2>2, <2>4, InHandValue
    <3>2. <<>> \o <<x>> = <<x>>
      OBVIOUS
    <3> QED BY <1>8, <2>3, <2>4, <3>1, <3>2 DEF h
  <2>5. CASE HandIn(g, "saver", k) # <<>>
    <3> DEFINE y == g["saver"]
    <3>1. y \in Events /\ y[1] = k /\ HandIn(g, "saver", k) = <<y>> /\ h["saver"] = y
      BY <1>1, <1>2, <1>8, <2>5, HandIs
    <3>2. y[2] <= x[2] /\ y[2] \in Nat /\ x[2] \in Nat
      BY <1>2, <3>1 DEF Events
    <3>3. <<x>> # <<>>
      OBVIOUS
    <3>4. h[s] = x
      BY <1>1, <2>1
    <3> HIDE DEF y
    <3>5. InHandOf(h, s, k) = IF y[2] < x[2] THEN <<y>> \o <<x>> ELSE <<x>> \o <<y>>
      <4>1. HandIn(h, "saver", k) # <<>>
        BY <2>2, <2>5
      <4>2. HandIn(h, "saver", k) = <<y>>
        BY <2>2, <3>1
      <4> QED BY <1>1, <2>2, <3>1, <3>3, <3>4, <4>1, <4>2, InHandValue
    <3>6. ~(y[2] < x[2]) => y = x
      <4>1. y = <<y[1], y[2]>> /\ x = <<x[1], x[2]>>
        BY <3>1 DEF Events
      <4> QED BY <3>1, <3>2, <4>1
    <3> QED BY <1>8, <2>3, <3>1, <3>5, <3>6 DEF h
  <2> QED BY <2>4, <2>5
<1> QED BY <1>6, <1>7, <1>8

\* An event that is put away was the first of those in hand, unless two threads
\* hold one.
Putting(g, s, t, j) ==
  IF g[t][1] # j
  THEN InHandOf([g EXCEPT ![t] = Nothing], s, j) = InHandOf(g, s, j)
  ELSE \E p, q \in Seq(Events) :
         /\ InHandOf(g, s, j) = p \o (<<g[t]>> \o q)
         /\ InHandOf([g EXCEPT ![t] = Nothing], s, j) = p \o q
         /\ p = <<>> \/ (g["saver"] # Nothing /\ s \in Importers /\ g[s] # Nothing)

LEMMA PutInHand ==
  ASSUME NEW g \in Hands, NEW s \in Threads \cup {"free"}, NEW j \in Kinds,
         NEW t \in Threads, t = "saver" \/ t = s, NEW x \in Events, g[t] = x
  PROVE  Putting(g, s, t, j)
<1> USE DEF Putting
<1> DEFINE h == [g EXCEPT ![t] = Nothing]
<1>1. h \in Hands /\ h[t] = Nothing /\ \A u \in Threads : u # t => h[u] = g[u]
  BY DEF Hands
<1>2. Nothing \notin Events /\ "saver" \in Threads /\ "saver" \notin Importers
      /\ Importers \subseteq Threads
  BY HistoryAssumption DEF HistoryAssumption, Threads, Nothing, Events, Kinds
<1>3. HandIn(h, t, j) = <<>>
  <2> HIDE DEF h
  <2> QED BY <1>1, <1>2, HandIs
<1>4. HandIn(g, t, j) = IF x[1] = j THEN <<x>> ELSE <<>>
  BY HandIs
<1>5. \A u \in Threads : u # t => HandIn(h, u, j) = HandIn(g, u, j)
  BY <1>1 DEF HandIn
<1> HIDE DEF h
<1>6. /\ <<>> \in Seq(Events) /\ <<x>> \in Seq(Events) /\ <<x>> # <<>>
      /\ \A u \in Seq(Events) : u \o <<>> = u /\ <<>> \o u = u
  BY ConcatEmptySeq
<1>7. CASE x[1] # j
  <2>1. HandIn(h, "saver", j) = HandIn(g, "saver", j) /\ OtherHand(h, s, j) = OtherHand(g, s, j)
    BY <1>2, <1>3, <1>4, <1>5, <1>7 DEF OtherHand
  <2>2. HandIn(g, "saver", j) # <<>> /\ OtherHand(g, s, j) # <<>> =>
          h["saver"] = g["saver"] /\ h[s] = g[s]
    BY <1>1, <1>2, <1>4, <1>7 DEF OtherHand
  <2>3. \A f \in Hands :
          /\ HandIn(f, "saver", j) = <<>> => InHandOf(f, s, j) = OtherHand(f, s, j)
          /\ OtherHand(f, s, j) = <<>> => InHandOf(f, s, j) = HandIn(f, "saver", j)
          /\ HandIn(f, "saver", j) # <<>> /\ OtherHand(f, s, j) # <<>> =>
               InHandOf(f, s, j) =
                 IF f["saver"][2] < f[s][2]
                 THEN HandIn(f, "saver", j) \o OtherHand(f, s, j)
                 ELSE OtherHand(f, s, j) \o HandIn(f, "saver", j)
    BY InHandValue
  <2>4. InHandOf(h, s, j) = InHandOf(g, s, j)
    BY <1>1, <2>1, <2>2, <2>3
  <2> QED BY <1>7, <2>4 DEF h
<1>8. CASE x[1] = j
  <2> DEFINE rest == IF t = "saver" THEN OtherHand(g, s, j) ELSE HandIn(g, "saver", j)
  <2>1. t # "saver" => t = s /\ s \in Importers
    BY DEF Threads
  <2>2. InHandOf(h, s, j) = rest /\ rest \in Seq(Events)
    <3>1. CASE t = "saver"
      <4>1. HandIn(h, "saver", j) = <<>> /\ OtherHand(h, s, j) = OtherHand(g, s, j)
        BY <1>2, <1>3, <1>5, <3>1 DEF OtherHand
      <4> QED BY <1>1, <3>1, <4>1, InHandValue
    <3>2. CASE t # "saver"
      <4>1. OtherHand(h, s, j) = <<>> /\ HandIn(h, "saver", j) = HandIn(g, "saver", j)
        BY <1>2, <1>3, <1>5, <2>1, <3>2 DEF OtherHand
      <4>2. HandIn(g, "saver", j) \in Seq(Events)
        BY <1>2, HandIs
      <4> QED BY <1>1, <3>2, <4>1, <4>2, InHandValue
    <3> QED BY <3>1, <3>2
  <2>3. CASE rest = <<>>
    <3>1. InHandOf(g, s, j) = <<x>>
      <4>1. CASE t = "saver"
        BY <1>4, <1>8, <2>3, <4>1, InHandValue
      <4>2. CASE t # "saver"
        <5>1. OtherHand(g, s, j) = <<x>>
          BY <1>4, <1>8, <2>1, <4>2 DEF OtherHand
        <5> QED BY <2>3, <4>2, <5>1, InHandValue
      <4> QED BY <4>1, <4>2
    <3>2. <<x>> = <<>> \o (<<x>> \o <<>>) /\ <<>> \o <<>> = <<>>
      BY <1>6
    <3> HIDE DEF rest
    <3> QED BY <1>6, <1>8, <2>2, <2>3, <3>1, <3>2 DEF h
  <2>4. CASE rest # <<>>
    <3>1. g["saver"] # Nothing /\ s \in Importers /\ g[s] # Nothing
      <4>1. CASE t = "saver"
        <5>1. s \in Importers /\ HandIn(g, s, j) # <<>>
          BY <2>4, <4>1 DEF OtherHand
        <5>2. g[s] \in Events
          BY <1>2, <5>1, HandIs
        <5> QED BY <1>2, <4>1, <5>1, <5>2
      <4>2. CASE t # "saver"
        <5>1. g["saver"] \in Events
          BY <1>2, <2>4, <4>2, HandIs
        <5> QED BY <1>2, <2>1, <4>2, <5>1
      <4> QED BY <4>1, <4>2
    <3>2. InHandOf(g, s, j) = <<x>> \o rest \/ InHandOf(g, s, j) = rest \o <<x>>
      <4> DEFINE own == HandIn(g, "saver", j)
                 other == OtherHand(g, s, j)
      <4>1. (own = <<x>> /\ other = rest) \/ (own = rest /\ other = <<x>>)
        <5>1. CASE t = "saver"
          <6>1. own = HandIn(g, t, j) /\ rest = other
            BY <5>1
          <6> HIDE DEF own, other, rest
          <6> QED BY <1>4, <1>8, <6>1
        <5>2. CASE t # "saver"
          <6>1. other = <<x>>
            BY <1>4, <1>8, <2>1, <5>2 DEF OtherHand
          <6> QED BY <5>2, <6>1
        <5> QED BY <5>1, <5>2
      <4>2. own # <<>> /\ other # <<>> =>
              InHandOf(g, s, j) = IF g["saver"][2] < g[s][2] THEN own \o other ELSE other \o own
        BY InHandValue
      <4> HIDE DEF own, other, rest
      <4> QED BY <1>6, <2>4, <4>1, <4>2
    <3> HIDE DEF rest
    <3>3. CASE InHandOf(g, s, j) = <<x>> \o rest
      <4>1. <<x>> \o rest \in Seq(Events)
        BY <1>6, <2>2, ConcatProperties
      <4>2. <<x>> \o rest = <<>> \o (<<x>> \o rest) /\ rest = <<>> \o rest
        BY <1>6, <2>2, <4>1
      <4> QED BY <1>6, <1>8, <2>2, <3>3, <4>2 DEF h
    <3>4. CASE InHandOf(g, s, j) = rest \o <<x>>
      <4>1. rest \o <<x>> = rest \o (<<x>> \o <<>>) /\ rest = rest \o <<>>
        BY <1>6, <2>2
      <4> QED BY <1>6, <1>8, <2>2, <3>1, <3>4, <4>1 DEF h
    <3> QED BY <3>2, <3>3, <3>4
  <2> QED BY <2>3, <2>4
<1> QED BY <1>7, <1>8

\* Hands are full only where they may be: those of import threads with the mutex.
LEMMA HandsOK ==
  ASSUME BaseInv
  PROVE  /\ hand \in Hands /\ SomethingToSave \in Threads \cup {"free"}
         /\ \A t \in Threads : hand[t] # Nothing => t = "saver" \/ t = SomethingToSave
BY DEF BaseInv, TypeOK, ThreadsOK, Hands, Threads

\* Two hands are full only while the program crashes.
LEMMA TwoHands ==
  ASSUME BaseInv, EndInv, main # "crashed",
         hand["saver"] # Nothing, SomethingToSave \in Importers
  PROVE  main = "crash"
<1>1. pc["saver"] \in StoringPlaces
  BY DEF BaseInv, ThreadsOK, Threads
<1>2. SomethingToSave # "saver" /\ pc["saver"] # "off"
  BY <1>1, HistoryAssumption DEF HistoryAssumption, StoringPlaces
<1>3. pc[SomethingToSave] # "off"
  BY DEF BaseInv, ThreadsOK, StoringPlaces
<1> QED BY <1>1, <1>2, <1>3 DEF EndInv, LastStore

\* What threads have taken and what waits, as one queue.
Waiting(k) == InHand(k) \o Unsaved[k]

\* Taking an event moves it within the queue.
LEMMA TakeKeepsQueue ==
  ASSUME BaseInv, SortedInv, NEW t \in Threads, NEW k \in Kinds, Take(t, k), NEW j \in Kinds
  PROVE  Waiting(j)' = Waiting(j)
<1> DEFINE x == Head(Unsaved[k])
<1>1. /\ Unsaved[k] \in Seq(Events) /\ Unsaved[k] # <<>> /\ Tail(Unsaved[k]) \in Seq(Events)
      /\ x \in Events /\ x[1] = k
      /\ hand[t] = Nothing /\ hand' = [hand EXCEPT ![t] = x]
      /\ Unsaved' = [Unsaved EXCEPT ![k] = Tail(Unsaved[k])]
  BY Taken DEF BaseInv
<1>2. SomethingToSave' = SomethingToSave /\ Unsaved \in [Kinds -> Seq(Events)]
  BY DEF Take, BaseInv, TypeOK
<1>3. t = "saver" \/ t = SomethingToSave
  <2>1. pc[t] \in StoringPlaces
    BY DEF Take, Storing, Kinds, StoringPlaces
  <2> QED BY <2>1 DEF BaseInv, ThreadsOK, Threads
<1>4. \A u \in Threads : hand[u] \in Events /\ hand[u][1] = k => hand[u][2] <= x[2]
  <2>1. x = Unsaved[k][1] /\ 1 \in 1..Len(Unsaved[k])
    BY <1>1, HeadTailProperties, EmptySeq
  <2>2. Nothing \notin Events
    BY DEF Nothing, Events, Kinds
  <2> HIDE DEF x
  <2> QED BY <2>1, <2>2 DEF SortedInv
<1>5. InHand(j)' = IF j = k THEN InHand(j) \o <<x>> ELSE InHand(j)
  <2>1. InHand(j) = InHandOf(hand, SomethingToSave, j)
    BY InHandIs
  <2>2. InHand(j)' = InHandOf(hand', SomethingToSave, j)
    BY <1>2 DEF InHand, InHandOf, HandOf, HandIn, OtherHand
  <2> HIDE DEF x
  <2>3. InHandOf([hand EXCEPT ![t] = x], SomethingToSave, j) =
          IF j = k THEN InHandOf(hand, SomethingToSave, k) \o <<x>>
          ELSE InHandOf(hand, SomethingToSave, j)
    <3>1. hand \in Hands /\ SomethingToSave \in Threads \cup {"free"}
      BY HandsOK
    <3>2. x \in Events /\ x[1] = k /\ hand[t] = Nothing
      BY <1>1
    <3>3. MayTake(hand, SomethingToSave, t, k, x)
      BY <1>3, <1>4, <3>2 DEF MayTake
    <3>4. Taking(hand, SomethingToSave, t, k, x, j)
      BY <3>1, <3>2, <3>3, TakeInHand
    <3> QED BY <3>4 DEF Taking
  <2> QED BY <1>1, <2>1, <2>2, <2>3
<1>6. CASE j # k
  BY <1>1, <1>2, <1>5, <1>6 DEF Waiting
<1>7. CASE j = k
  <2>1. Unsaved'[k] = Tail(Unsaved[k])
    BY <1>1, <1>2
  <2>2. InHand(k) \in Seq(Events)
    BY HandsOK, InHandIs, InHandValue
  <2>3. <<x>> \o Tail(Unsaved[k]) = Unsaved[k]
    <3>1. x = Unsaved[k][1]
      BY <1>1
    <3> QED BY <1>1, <3>1
  <2>4. (InHand(k) \o <<x>>) \o Tail(Unsaved[k]) = InHand(k) \o Unsaved[k]
    <3>1. <<x>> \in Seq(Events)
      BY <1>1
    <3> HIDE DEF x
    <3>2. (InHand(k) \o <<x>>) \o Tail(Unsaved[k]) = InHand(k) \o (<<x>> \o Tail(Unsaved[k]))
      <4>0. Associates(Events)
        BY Associative, Zenon
      <4>1. \A a, b, c \in Seq(Events) : (a \o b) \o c = a \o (b \o c)
        BY <4>0, Zenon DEF Associates
      <4> QED BY <1>1, <2>2, <3>1, <4>1, Zenon
    <3> QED BY <2>3, <3>2
  <2> QED BY <1>5, <1>7, <2>1, <2>4 DEF Waiting
<1> QED BY <1>6, <1>7

Regrouped(p, r, q, u) ==
  /\ (p \o (r \o q)) \o u = p \o (r \o (q \o u))
  /\ (p \o q) \o u = p \o (q \o u)

LEMMA Regroup ==
  ASSUME NEW S, NEW p \in Seq(S), NEW r \in Seq(S), NEW q \in Seq(S), NEW u \in Seq(S)
  PROVE  Regrouped(p, r, q, u)
<1>0. Associates(S)
  BY Associative, Zenon
<1>1. \A a, b, c \in Seq(S) : (a \o b) \o c = a \o (b \o c)
  BY <1>0, Zenon DEF Associates
<1>2. (p \o (r \o q)) \o u = p \o ((r \o q) \o u)
  <2>1. r \o q \in Seq(S)
    BY ConcatProperties
  <2> QED BY <1>1, <2>1, Zenon
<1>3. (r \o q) \o u = r \o (q \o u)
  BY <1>1, Zenon
<1>4. (p \o q) \o u = p \o (q \o u)
  BY <1>1, Zenon
<1> QED BY <1>2, <1>3, <1>4 DEF Regrouped

\* Removing x from between p and u.
Removes(w, i, x, rest) == i \in DOMAIN w /\ w[i] = x /\ RemoveAt(w, i) = rest

LEMMA Removed ==
  ASSUME NEW S, NEW p \in Seq(S), NEW u \in Seq(S), NEW x \in S
  PROVE  Removes(p \o (<<x>> \o u), Len(p) + 1, x, p \o u)
<1> DEFINE w == p \o (<<x>> \o u)
           i == Len(p) + 1
           L == Len(p)
           M == Len(u)
<1>1. <<x>> \o u \in Seq(S) /\ Len(<<x>> \o u) = M + 1 /\ (<<x>> \o u)[1] = x
      /\ (\A n \in 1..M : (<<x>> \o u)[n + 1] = u[n]) /\ L \in Nat /\ M \in Nat
  OBVIOUS
<1>2. /\ w \in Seq(S) /\ Len(w) = L + M + 1
      /\ \A n \in 1..L : w[n] = p[n]
      /\ \A n \in 1..(M + 1) : w[L + n] = (<<x>> \o u)[n]
  <2> DEFINE v == <<x>> \o u
  <2>1. v \in Seq(S)
    BY <1>1
  <2> HIDE DEF v
  <2>2. /\ p \o v \in Seq(S) /\ Len(p \o v) = L + Len(v)
        /\ \A n \in 1..L + Len(v) : (p \o v)[n] = IF n <= L THEN p[n] ELSE v[n - L]
    BY <2>1, ConcatProperties
  <2>3. Len(v) = M + 1
    BY <1>1 DEF v
  <2> HIDE DEF L, M
  <2>4. \A n \in 1..(M + 1) : (p \o v)[L + n] = v[n]
    BY <1>1, <2>2, <2>3
  <2>5. \A n \in 1..L : (p \o v)[n] = p[n]
    BY <1>1, <2>2, <2>3
  <2> QED BY <1>1, <2>2, <2>3, <2>4, <2>5 DEF v
<1> HIDE DEF w, L, M
<1>3. i = L + 1 /\ i \in DOMAIN w /\ w[i] = x
  BY <1>1, <1>2 DEF L
<1>4. SubSeq(w, 1, i - 1) = p
  <2>1. \A n \in 1..L : w[n] \in S
    BY <1>1, <1>2 DEF L
  <2>2. /\ SubSeq(w, 1, L) \in Seq(S) /\ Len(SubSeq(w, 1, L)) = L
        /\ \A n \in 1..L : SubSeq(w, 1, L)[n] = w[n]
    BY <1>1, <2>1, SubSeqProperties
  <2>3. SubSeq(w, 1, L) = p
    BY <1>2, <2>2, SeqEqual DEF L
  <2> QED BY <1>1, <1>3, <2>3
<1>5. SubSeq(w, i + 1, Len(w)) = u
  <2>1. \A n \in 1..M : w[L + 1 + n] = u[n]
    <3> TAKE n \in 1..M
    <3>1. n + 1 \in 1..(M + 1) /\ L + (n + 1) = L + 1 + n
      BY <1>1
    <3>2. w[L + (n + 1)] = (<<x>> \o u)[n + 1]
      BY <1>2, <3>1
    <3> QED BY <1>1, <3>1, <3>2
  <2>2. \A n \in (L + 2)..(L + M + 1) : w[n] \in S
    <3>1. Len(w) = L + M + 1 /\ w \in Seq(S)
      BY <1>2
    <3> QED BY <1>1, <3>1
  <2>3. /\ SubSeq(w, L + 2, L + M + 1) \in Seq(S) /\ Len(SubSeq(w, L + 2, L + M + 1)) = M
        /\ \A n \in 1..M : SubSeq(w, L + 2, L + M + 1)[n] = w[L + 1 + n]
    <3>1. L + 2 \in Int /\ L + M + 1 \in Int
      BY <1>1
    <3>2. /\ SubSeq(w, L + 2, L + M + 1) \in Seq(S)
          /\ Len(SubSeq(w, L + 2, L + M + 1)) =
               IF L + 2 <= L + M + 1 THEN (L + M + 1) - (L + 2) + 1 ELSE 0
          /\ \A n \in 1..((L + M + 1) - (L + 2) + 1) :
               SubSeq(w, L + 2, L + M + 1)[n] = w[(L + 2) + n - 1]
      BY <2>2, <3>1, SubSeqProperties
    <3>3. (L + M + 1) - (L + 2) + 1 = M /\ \A n \in 1..M : (L + 2) + n - 1 = L + 1 + n
      BY <1>1
    <3> QED BY <1>1, <3>2, <3>3
  <2>4. SubSeq(w, L + 2, L + M + 1) = u
    BY <2>1, <2>3, SeqEqual DEF M
  <2>5. i + 1 = L + 2
    BY <1>1, <1>3
  <2> QED BY <1>2, <2>4, <2>5
<1> HIDE DEF i
<1>6. RemoveAt(w, i) = p \o u
  BY <1>4, <1>5 DEF RemoveAt
<1> QED BY <1>3, <1>6 DEF w, i, L, Removes

\* Handing the mutex over does not change what is in hand.
LEMMA HandsKept ==
  ASSUME BaseInv, BaseInv', hand' = hand, NEW k \in Kinds
  PROVE  InHand(k)' = InHand(k)
<1> DEFINE s == SomethingToSave
           z == SomethingToSave'
<1>1. /\ hand \in Hands /\ s \in Threads \cup {"free"} /\ z \in Threads \cup {"free"}
      /\ \A t \in Threads : hand[t] # Nothing => (t = "saver" \/ t = s) /\ (t = "saver" \/ t = z)
  BY DEF BaseInv, TypeOK, ThreadsOK, Hands, Threads
<1>2. InHand(k) = InHandOf(hand, s, k) /\ InHand(k)' = InHandOf(hand, z, k)
  BY DEF InHand, InHandOf, HandOf, HandIn, OtherHand
<1>3. Nothing \notin Events /\ "saver" \notin Importers /\ Importers \subseteq Threads
  BY HistoryAssumption DEF HistoryAssumption, Threads, Nothing, Events, Kinds
<1> HIDE DEF s, z
<1>4. OtherHand(hand, s, k) # <<>> => z = s
  <2>1. ASSUME s \in Importers, HandIn(hand, s, k) # <<>> PROVE hand[s] # Nothing
    BY <1>1, <1>3, <2>1, HandIs
  <2> QED BY <1>1, <1>3, <2>1 DEF OtherHand
<1>5. OtherHand(hand, z, k) # <<>> => z = s
  <2>1. ASSUME z \in Importers, HandIn(hand, z, k) # <<>> PROVE hand[z] # Nothing
    BY <1>1, <1>3, <2>1, HandIs
  <2> QED BY <1>1, <1>3, <2>1 DEF OtherHand
<1>6. OtherHand(hand, s, k) = <<>> => InHandOf(hand, s, k) = HandIn(hand, "saver", k)
  BY <1>1, InHandValue
<1>7. OtherHand(hand, z, k) = <<>> => InHandOf(hand, z, k) = HandIn(hand, "saver", k)
  BY <1>1, InHandValue
<1> QED BY <1>2, <1>4, <1>5, <1>6, <1>7

\* Rows that are appended are not on the disk yet.
LEMMA DiskKept ==
  ASSUME NEW seq \in Seq(Row), NEW c \in 0..Len(seq), NEW x \in Row
  PROVE  SubSeq(Append(seq, x), 1, c) = SubSeq(seq, 1, c)
<1> DEFINE long == Append(seq, x)
<1>1. /\ long \in Seq(Row) /\ Len(long) = Len(seq) + 1
      /\ \A m \in 1..Len(seq) : long[m] = seq[m]
  BY AppendProperties
<1>2. Len(seq) \in Nat /\ c \in 0..Len(long)
  BY <1>1
<1> HIDE DEF long
<1>3. /\ SubSeq(seq, 1, c) \in Seq(Row) /\ Len(SubSeq(seq, 1, c)) = c
      /\ \A m \in 1..c : SubSeq(seq, 1, c)[m] = seq[m]
  BY DiskRows
<1>4. /\ SubSeq(long, 1, c) \in Seq(Row) /\ Len(SubSeq(long, 1, c)) = c
      /\ \A m \in 1..c : SubSeq(long, 1, c)[m] = long[m]
  BY <1>1, <1>2, DiskRows
<1>5. \A m \in 1..c : SubSeq(long, 1, c)[m] = SubSeq(seq, 1, c)[m]
  BY <1>1, <1>2, <1>3, <1>4
<1>6. SubSeq(long, 1, c) = SubSeq(seq, 1, c)
  BY <1>3, <1>4, <1>5, SeqEqual
<1> QED BY <1>6 DEF long

\* The event a thread stores leaves the queue and follows what is stored.
Saves(k) ==
  \E i \in DOMAIN Waiting(k) :
    /\ i = 1 \/ main = "crash"
    /\ Waiting(k)' = RemoveAt(Waiting(k), i)
    /\ OfKind(rows, k)' = Append(OfKind(rows, k), Waiting(k)[i])

LEMMA PutSaves ==
  ASSUME BaseInv, EndInv, main # "crashed", NEW t \in Threads, Put(t),
         NEW x, hand[t] = x, NEW k, x[1] = k
  PROVE  /\ k \in Kinds /\ Saves(k)
         /\ \A j \in Kinds : j # k => Waiting(j)' = Waiting(j) /\ OfKind(rows, j)' = OfKind(rows, j)
         /\ OnDisk' = OnDisk
         /\ main' = main
<1>1. /\ x \in Events /\ x \in Row /\ k \in Kinds /\ hand \in Hands
      /\ hand' = [hand EXCEPT ![t] = Nothing] /\ rows' = Append(rows, x)
      /\ UNCHANGED <<Unsaved, committed, SomethingToSave, main>>
      /\ rows \in Seq(Row) /\ committed \in 0..Len(rows)
      /\ \A j \in Kinds : Unsaved[j] \in Seq(Events)
  BY DEF Put, AppendRow, BaseInv, TypeOK, Row, Events, Hands
<1>2. t = "saver" \/ t = SomethingToSave
  BY HandsOK DEF Put
<1>3. ASSUME NEW j \in Kinds
      PROVE  OfKind(rows, j)' = IF k = j THEN Append(OfKind(rows, j), x) ELSE OfKind(rows, j)
  <2>1. OfKind(Append(rows, x), j) = IF x[1] = j THEN Append(OfKind(rows, j), x) ELSE OfKind(rows, j)
    BY <1>1, OfKindAppend
  <2>2. OfKind(rows, j)' = OfKind(Append(rows, x), j)
    <3>1. OfKind(rows, j)' = OfKind(rows', j)
      BY DEF OfKind
    <3> QED BY <1>1, <3>1
  <2> QED BY <2>1, <2>2
<1>4. OnDisk' = OnDisk
  <2>1. OnDisk' = SubSeq(Append(rows, x), 1, committed)
    BY <1>1 DEF OnDisk
  <2> QED BY <1>1, <2>1, DiskKept DEF OnDisk
<1>5. ASSUME NEW j \in Kinds PROVE Putting(hand, SomethingToSave, t, j)
  BY <1>1, <1>2, HandsOK, PutInHand
<1>6. ASSUME NEW j \in Kinds
      PROVE  /\ InHand(j) = InHandOf(hand, SomethingToSave, j)
             /\ InHand(j)' = InHandOf([hand EXCEPT ![t] = Nothing], SomethingToSave, j)
  BY <1>1 DEF InHand, InHandOf, HandOf, HandIn, OtherHand
<1>7. ASSUME NEW j \in Kinds, j # k PROVE Waiting(j)' = Waiting(j)
  BY <1>1, <1>5, <1>6, <1>7 DEF Putting, Waiting
<1>8. PICK p, q \in Seq(Events) :
        /\ InHand(k) = p \o (<<x>> \o q) /\ InHand(k)' = p \o q
        /\ p = <<>> \/ (hand["saver"] # Nothing /\ SomethingToSave \in Importers)
  <2>1. Putting(hand, SomethingToSave, t, k)
    BY <1>1, <1>5
  <2>2. /\ InHand(k) = InHandOf(hand, SomethingToSave, k)
        /\ InHand(k)' = InHandOf([hand EXCEPT ![t] = Nothing], SomethingToSave, k)
    BY <1>1, <1>6
  <2> QED BY <2>1, <2>2 DEF Putting
<1> DEFINE u == q \o Unsaved[k]
<1>9. /\ u \in Seq(Events) /\ p \in Seq(Events) /\ q \in Seq(Events) /\ <<x>> \in Seq(Events)
      /\ <<x>> \o q \in Seq(Events) /\ Unsaved[k] \in Seq(Events)
  BY <1>1, ConcatProperties
<1>10. /\ (p \o (<<x>> \o q)) \o Unsaved[k] = p \o (<<x>> \o u)
       /\ (p \o q) \o Unsaved[k] = p \o u
  <2>1. Regrouped(p, <<x>>, q, Unsaved[k])
    <3> HIDE DEF u
    <3> QED BY <1>9, Regroup
  <2> QED BY <2>1 DEF Regrouped
<1>11. Waiting(k) = p \o (<<x>> \o u)
  BY <1>8, <1>10 DEF Waiting
<1>12. Waiting(k)' = p \o u
  BY <1>1, <1>8, <1>10 DEF Waiting
<1> HIDE DEF u
<1>13. /\ Len(p) + 1 \in DOMAIN Waiting(k) /\ Waiting(k)[Len(p) + 1] = x
       /\ Waiting(k)' = RemoveAt(Waiting(k), Len(p) + 1)
  <2> DEFINE w == p \o (<<x>> \o u)
  <2>1. /\ Len(p) + 1 \in DOMAIN w /\ w[Len(p) + 1] = x
        /\ RemoveAt(w, Len(p) + 1) = p \o u
    <3>1. \A a, b \in Seq(Events) : \A y \in Events :
            Removes(a \o (<<y>> \o b), Len(a) + 1, y, a \o b)
      BY Removed
    <3>2. Removes(w, Len(p) + 1, x, p \o u)
      BY <1>1, <1>9, <3>1, Zenon
    <3> QED BY <3>2 DEF Removes
  <2> HIDE DEF w
  <2>2. Waiting(k) = w
    BY <1>11 DEF w
  <2> QED BY <1>12, <2>1, <2>2
<1>14. Len(p) + 1 = 1 \/ main = "crash"
  BY <1>8, TwoHands
<1>15. OfKind(rows, k)' = Append(OfKind(rows, k), x)
  BY <1>1, <1>3
<1>16. Saves(k)
  BY <1>13, <1>14, <1>15 DEF Saves
<1> QED BY <1>1, <1>3, <1>4, <1>7, <1>16

\* An event is queued at the end, once for every connection.
Queues(k) ==
  \E e \in ToSet(Waiting(k)'), n \in 1..Len(Waiting(k)') :
    Waiting(k)' = Waiting(k) \o [c \in 1..n |-> e]

LEMMA EnqueueQueues ==
  ASSUME BaseInv, NEW k \in Kinds, Enqueue(k)
  PROVE  /\ Queues(k)
         /\ \A j \in Kinds : j # k => Waiting(j)' = Waiting(j)
<1> DEFINE m == Cardinality(Numbered(k)) + 1
           more == [c \in 1..connections |-> <<k, m>>]
<1>1. /\ m <= MaxEvents /\ connections \in 1..2
      /\ Unsaved' = [Unsaved EXCEPT ![k] = @ \o more]
      /\ UNCHANGED <<hand, SomethingToSave>>
      /\ Unsaved \in [Kinds -> Seq(Events)]
  BY DEF Enqueue, Numbered, TypeOK, BaseInv
<1>2. m \in 1..MaxEvents
  <2> HIDE DEF m
  <2> QED BY <1>1, NextNumber DEF m, BaseInv
<1> HIDE DEF m
<1>3. \A j : InHand(j)' = InHand(j)
  BY <1>1 DEF InHand, HandOf
<1>4. \A j \in Kinds : j # k => Waiting(j)' = Waiting(j)
  BY <1>1, <1>3 DEF Waiting
<1>5. /\ more \in Seq(Events) /\ Len(more) = connections
      /\ \A c \in 1..connections : more[c] = <<k, m>>
  <2>1. <<k, m>> \in Events
    BY <1>2 DEF Events
  <2> QED BY <1>1, <2>1
<1>6. InHand(k) \in Seq(Events) /\ Unsaved[k] \in Seq(Events)
  BY <1>1, HandsOK, InHandIs, InHandValue
<1>7. Waiting(k)' = Waiting(k) \o more /\ Waiting(k) \in Seq(Events)
  <2>1. Waiting(k)' = InHand(k) \o (Unsaved[k] \o more)
    BY <1>1, <1>3 DEF Waiting
  <2>2. Regrouped(InHand(k), <<>>, Unsaved[k], more)
    <3>1. <<>> \in Seq(Events)
      OBVIOUS
    <3> HIDE DEF more
    <3> QED BY <1>5, <1>6, <3>1, Regroup
  <2> HIDE DEF more
  <2>3. Waiting(k) \in Seq(Events)
    BY <1>6, ConcatProperties DEF Waiting
  <2> QED BY <2>1, <2>2, <2>3 DEF Waiting, Regrouped
<1>8. /\ connections \in 1..Len(Waiting(k)')
      /\ <<k, m>> \in ToSet(Waiting(k)')
  <2> DEFINE w == Waiting(k)
  <2>1. w \in Seq(Events) /\ more \in Seq(Events)
    BY <1>5, <1>7
  <2> HIDE DEF w, more
  <2>2. /\ Len(w \o more) = Len(w) + Len(more) /\ w \o more \in Seq(Events)
        /\ \A n \in 1..Len(w) + Len(more) :
             (w \o more)[n] = IF n <= Len(w) THEN w[n] ELSE more[n - Len(w)]
    BY <2>1, ConcatProperties
  <2>3. Len(w) \in Nat /\ Len(more) = connections /\ connections \in 1..2
    BY <1>1, <1>5, <2>1
  <2>4. /\ Len(w) + 1 \in 1..Len(w) + Len(more) /\ ~(Len(w) + 1 <= Len(w))
        /\ (Len(w) + 1) - Len(w) = 1 /\ 1 \in 1..connections
    BY <2>3
  <2>5. (w \o more)[Len(w) + 1] = <<k, m>>
    BY <1>5, <2>2, <2>4
  <2>6. Len(w) + 1 \in DOMAIN (w \o more)
    BY <2>2, <2>4
  <2>7. <<k, m>> \in ToSet(w \o more)
    BY <2>5, <2>6 DEF ToSet
  <2>8. connections \in 1..Len(w \o more)
    BY <2>2, <2>3
  <2> QED BY <1>7, <2>7, <2>8 DEF w
<1> QED BY <1>4, <1>7, <1>8 DEF Queues

\* The rows an import appends are no events, and not on the disk yet.
LEMMA ImportKeepsQueue ==
  ASSUME BaseInv, NEW i \in Importers, ImportEntry(i)
  PROVE  /\ \A j \in Kinds : Waiting(j)' = Waiting(j) /\ OfKind(rows, j)' = OfKind(rows, j)
         /\ OnDisk' = OnDisk /\ main' = main
<1> DEFINE x == <<i, stored[i] + 1>>
<1>1. /\ rows' = Append(rows, x)
      /\ UNCHANGED <<Unsaved, committed, hand, SomethingToSave, main>>
      /\ rows \in Seq(Row) /\ committed \in 0..Len(rows)
  BY DEF ImportEntry, AppendRow, BaseInv, TypeOK
<1>2. x \in Row /\ x[1] \notin Kinds
  <2>1. stored[i] + 1 \in 1..Entries
    BY HistoryAssumption DEF ImportEntry, BaseInv, TypeOK, HistoryAssumption
  <2> QED BY <2>1, HistoryAssumption DEF Row, Old, Kinds, HistoryAssumption
<1> HIDE DEF x
<1>3. ASSUME NEW j \in Kinds PROVE OfKind(rows, j)' = OfKind(rows, j)
  <2>1. OfKind(Append(rows, x), j) = IF x[1] = j THEN Append(OfKind(rows, j), x) ELSE OfKind(rows, j)
    BY <1>1, <1>2, OfKindAppend
  <2>2. OfKind(rows, j)' = OfKind(Append(rows, x), j)
    <3>1. OfKind(rows, j)' = OfKind(rows', j)
      BY DEF OfKind
    <3> QED BY <1>1, <3>1
  <2> QED BY <1>2, <2>1, <2>2
<1>4. OnDisk' = OnDisk
  <2>1. OnDisk' = SubSeq(Append(rows, x), 1, committed)
    BY <1>1 DEF OnDisk
  <2> QED BY <1>1, <1>2, <2>1, DiskKept DEF OnDisk
<1>5. \A j : Waiting(j)' = Waiting(j)
  BY <1>1 DEF Waiting, InHand, HandOf
<1> QED BY <1>1, <1>3, <1>4, <1>5

\* All other steps keep the queue; they commit, or the program goes down.
Crashing == main \in {"crash", "crashed"}

LEMMA CommitOrGoDown ==
  ASSUME BaseInv, Next, UNCHANGED <<Unsaved, rows, hand, queued>>, Commits
  PROVE  \/ committed' = committed /\ (Crashing' = Crashing \/ Crashing' = TRUE)
         \/ committed' = Len(rows) /\ Crashing' = Crashing
<1>1. CASE Crash
  BY <1>1 DEF Crash, Crashing, StopSaveThread, dataVars
<1>2. CASE ~Crash
  <2>1. Crashing' = Crashing
    <3>1. CASE Saver \/ \E i \in Importers : Import(i)
      <4>1. main' = main
        BY <3>1 DEF Saver, Import, SaverChecksStopped, SaverLocks, SaverStored,
                    SaverTimeout, SaverWakes, Take, Put, MessagesStored, ImportBegins, ImportEntry,
                    ImportLeavesChat, ImportLocks, ImportSyncs, ImportEnds
      <4> QED BY <4>1 DEF Crashing
    <3>2. CASE (\E k \in Kinds : Enqueue(k)) \/ AccountAdded \/ RegisterStorage \/ UnregisterStorage
      <4>1. main = "running" /\ main' \in {"running", "unregister"}
        BY <3>2 DEF Enqueue, AccountAdded, RegisterStorage, UnregisterStorage, StopSaveThread
      <4> QED BY <4>1 DEF Crashing
    <3>3. ASSUME NEW i \in Importers, StartImport(i) \/ CancelImport(i) \/ DestroyImporter(i)
          PROVE  Crashing' = Crashing
      <4>1. main = "running" /\ main' \in {"running", "migration"}
        BY <3>3 DEF StartImport, CancelImport, DestroyImporter
      <4> QED BY <4>1 DEF Crashing
    <3>4. CASE Waits
      BY <3>4 DEF Waits, StorageDeleted, ImporterDestroyed, CrashHandled, Crashing
    <3> QED BY <1>2, <3>1, <3>2, <3>3, <3>4 DEF Next, Main
  <2> QED BY <2>1 DEF Commits
<1> QED BY <1>1, <1>2

-----------------------------------------------------------------------------
(* HistorySaving implements SaveQueue.                                     *)

\* The variables of SaveQueue.
WaitingOf == [k \in Kinds |-> InHand(k) \o Unsaved[k]]
SavedOf == [k \in Kinds |-> OfKind(rows, k)]
DurableOf == [k \in Kinds |-> OfKind(OnDisk, k)]

LEMMA QueueVars ==
  SaveQueue!queueVars = <<WaitingOf, SavedOf, DurableOf, Crashing>>
BY DEF SaveQueue!queueVars, WaitingOf, SavedOf, DurableOf, Crashing

LEMMA QueueInitially == ASSUME Init PROVE SaveQueue!QueueInit
<1>1. ASSUME NEW k \in Kinds
      PROVE  InHand(k) \o Unsaved[k] = <<>> /\ OfKind(rows, k) = <<>> /\ OfKind(OnDisk, k) = <<>>
  <2>1. hand["saver"] = Nothing /\ SomethingToSave \notin Importers /\ Unsaved[k] = <<>>
    BY HistoryAssumption DEF Init, Threads, HistoryAssumption
  <2>2. InHand(k) = <<>> \o <<>>
    <3>1. Nothing[1] # k
      BY DEF Nothing, Kinds
    <3> QED BY <2>1, <3>1 DEF InHand, HandOf
  <2>3. <<>> \o <<>> = <<>>
    OBVIOUS
  <2>4. rows = <<>> /\ OnDisk = <<>>
    <3>1. rows = <<>> /\ committed = 0
      BY DEF Init
    <3> QED BY <3>1 DEF OnDisk
  <2> QED BY <2>1, <2>2, <2>3, <2>4, OfKindEmpty
<1>2. ~(main \in {"crash", "crashed"})
  BY DEF Init
<1> QED BY <1>1, <1>2 DEF SaveQueue!QueueInit

LEMMA QueueStutters ==
  ASSUME WaitingOf' = WaitingOf, SavedOf' = SavedOf, DurableOf' = DurableOf, Crashing' = Crashing
  PROVE  UNCHANGED SaveQueue!queueVars
BY DEF SaveQueue!queueVars, WaitingOf, SavedOf, DurableOf, Crashing

LEMMA QueueSaves ==
  ASSUME NEW k \in Kinds,
         \E i \in DOMAIN WaitingOf[k] :
           /\ i = 1 \/ Crashing
           /\ WaitingOf' = [WaitingOf EXCEPT ![k] = RemoveAt(@, i)]
           /\ SavedOf' = [SavedOf EXCEPT ![k] = Append(@, WaitingOf[k][i])],
         DurableOf' = DurableOf, Crashing' = Crashing
  PROVE  SaveQueue!Save(k)
BY DEF SaveQueue!Save, WaitingOf, SavedOf, DurableOf, Crashing, RemoveAt, SaveQueue!RemoveAt

LEMMA QueueQueues ==
  ASSUME NEW k \in Kinds, ~Crashing,
         \E e \in ToSet(WaitingOf'[k]), n \in 1..Len(WaitingOf'[k]) :
           WaitingOf' = [WaitingOf EXCEPT ![k] = @ \o [c \in 1..n |-> e]],
         SavedOf' = SavedOf, DurableOf' = DurableOf, Crashing' = Crashing
  PROVE  SaveQueue!Queue(k)
BY DEF SaveQueue!Queue, WaitingOf, SavedOf, DurableOf, Crashing, ToSet, SaveQueue!ToSet

LEMMA QueueSyncs ==
  ASSUME WaitingOf' = WaitingOf, SavedOf' = SavedOf, DurableOf' = SavedOf, Crashing' = Crashing
  PROVE  SaveQueue!Sync
BY DEF SaveQueue!Sync, WaitingOf, SavedOf, DurableOf, Crashing

LEMMA QueueGoesDown ==
  ASSUME WaitingOf' = WaitingOf, SavedOf' = SavedOf, DurableOf' = DurableOf, Crashing' = TRUE
  PROVE  SaveQueue!GoDown
BY DEF SaveQueue!GoDown, WaitingOf, SavedOf, DurableOf, Crashing

\* Every step is one of the queues, or none.
LEMMA QueueStep ==
  ASSUME BaseInv, BaseInv', EndInv, SortedInv, Next
  PROVE  [SaveQueue!QueueNext]_(SaveQueue!queueVars)
<1>0. /\ WaitingOf = [k \in Kinds |-> Waiting(k)]
      /\ WaitingOf' = [k \in Kinds |-> Waiting(k)']
      /\ SavedOf = [k \in Kinds |-> OfKind(rows, k)]
      /\ SavedOf' = [k \in Kinds |-> OfKind(rows, k)']
      /\ DurableOf = [k \in Kinds |-> OfKind(OnDisk, k)]
      /\ DurableOf' = [k \in Kinds |-> OfKind(OnDisk, k)']
  BY DEF WaitingOf, SavedOf, DurableOf, Waiting
<1>1. OnDisk' = OnDisk => DurableOf' = DurableOf
  BY DEF DurableOf, OfKind
<1>2. ASSUME NEW t \in Threads, NEW k \in Kinds, Take(t, k)
      PROVE  UNCHANGED SaveQueue!queueVars
  <2>1. WaitingOf' = WaitingOf
    <3>1. \A j \in Kinds : Waiting(j)' = Waiting(j)
      BY <1>2, TakeKeepsQueue
    <3> QED BY <1>0, <3>1
  <2>2. UNCHANGED <<rows, committed, main>>
    BY <1>2 DEF Take
  <2>3. SavedOf' = SavedOf /\ DurableOf' = DurableOf /\ Crashing' = Crashing
    BY <2>2 DEF SavedOf, DurableOf, OnDisk, OfKind, Crashing
  <2> QED BY <2>1, <2>3, QueueStutters
<1>3. ASSUME NEW t \in Threads, Put(t)
      PROVE  \E k \in Kinds : SaveQueue!Save(k)
  <2>1. PICK x, k : x = hand[t] /\ k = x[1]
    OBVIOUS
  <2>2. /\ k \in Kinds /\ Saves(k)
        /\ \A j \in Kinds : j # k => Waiting(j)' = Waiting(j) /\ OfKind(rows, j)' = OfKind(rows, j)
        /\ OnDisk' = OnDisk
        /\ main' = main
    <3>1. main # "crashed"
      BY DEF Next
    <3> QED BY <1>3, <2>1, <3>1, PutSaves
  <2>3. DurableOf' = DurableOf /\ Crashing' = Crashing
    BY <1>1, <2>2 DEF Crashing
  <2>4. PICK i \in DOMAIN Waiting(k) :
          /\ i = 1 \/ main = "crash"
          /\ Waiting(k)' = RemoveAt(Waiting(k), i)
          /\ OfKind(rows, k)' = Append(OfKind(rows, k), Waiting(k)[i])
    BY <2>2 DEF Saves
  <2>5. /\ i \in DOMAIN WaitingOf[k] /\ (i = 1 \/ Crashing)
        /\ WaitingOf' = [WaitingOf EXCEPT ![k] = RemoveAt(@, i)]
        /\ SavedOf' = [SavedOf EXCEPT ![k] = Append(@, WaitingOf[k][i])]
    BY <1>0, <2>2, <2>4 DEF Crashing
  <2> QED BY <2>2, <2>3, <2>5, QueueSaves
<1>4. ASSUME NEW k \in Kinds, Enqueue(k)
      PROVE  SaveQueue!Queue(k)
  <2>1. Queues(k) /\ \A j \in Kinds : j # k => Waiting(j)' = Waiting(j)
    BY <1>4, EnqueueQueues
  <2>2. main = "running" /\ UNCHANGED <<rows, committed, main>>
    BY <1>4 DEF Enqueue
  <2>3. SavedOf' = SavedOf /\ DurableOf' = DurableOf /\ Crashing' = Crashing /\ ~Crashing
    BY <2>2 DEF SavedOf, DurableOf, OnDisk, OfKind, Crashing
  <2>4. PICK e \in ToSet(Waiting(k)'), n \in 1..Len(Waiting(k)') :
          Waiting(k)' = Waiting(k) \o [c \in 1..n |-> e]
    BY <2>1 DEF Queues
  <2>5. /\ e \in ToSet(WaitingOf'[k]) /\ n \in 1..Len(WaitingOf'[k])
        /\ WaitingOf' = [WaitingOf EXCEPT ![k] = @ \o [c \in 1..n |-> e]]
    BY <1>0, <2>1, <2>4
  <2> QED BY <2>3, <2>5, QueueQueues
<1>5. ASSUME NEW i \in Importers, ImportEntry(i)
      PROVE  UNCHANGED SaveQueue!queueVars
  <2>1. /\ \A j \in Kinds : Waiting(j)' = Waiting(j) /\ OfKind(rows, j)' = OfKind(rows, j)
        /\ OnDisk' = OnDisk /\ main' = main
    BY <1>5, ImportKeepsQueue
  <2>2. WaitingOf' = WaitingOf /\ SavedOf' = SavedOf
    BY <1>0, <2>1
  <2>3. DurableOf' = DurableOf /\ Crashing' = Crashing
    BY <1>1, <2>1 DEF Crashing
  <2> QED BY <2>2, <2>3, QueueStutters
<1>6. CASE UNCHANGED <<Unsaved, rows, hand, queued>> /\ Commits
  <2>1. WaitingOf' = WaitingOf
    <3>1. \A k \in Kinds : InHand(k)' = InHand(k)
      BY <1>6, HandsKept
    <3>2. \A k \in Kinds : Waiting(k)' = Waiting(k)
      BY <1>6, <3>1 DEF Waiting
    <3> QED BY <1>0, <3>2
  <2>2. SavedOf' = SavedOf
    BY <1>6 DEF SavedOf, OfKind
  <2>3. \/ committed' = committed /\ (Crashing' = Crashing \/ Crashing' = TRUE)
        \/ committed' = Len(rows) /\ Crashing' = Crashing
    BY <1>6, CommitOrGoDown
  <2>4. committed' = committed => DurableOf' = DurableOf
    BY <1>1, <1>6 DEF OnDisk
  <2>5. committed' = Len(rows) => DurableOf' = SavedOf
    <3>1. rows \in Seq(Row)
      BY DEF BaseInv, TypeOK
    <3>2. committed' = Len(rows) => OnDisk' = rows
      BY <1>6, <3>1, SubSeqFull DEF OnDisk
    <3> QED BY <3>2 DEF DurableOf, SavedOf, OfKind
  <2>6. UNCHANGED SaveQueue!queueVars \/ SaveQueue!Sync \/ SaveQueue!GoDown
    BY <2>1, <2>2, <2>3, <2>4, <2>5, QueueStutters, QueueSyncs, QueueGoesDown
  <2> QED BY <2>6 DEF SaveQueue!QueueNext
<1> QED BY <1>2, <1>3, <1>4, <1>5, <1>6, DataStep DEF SaveQueue!QueueNext

\* The history implements the queues: events are stored one by one, as often as
\* and in the order they were queued, whichever threads store them.
THEOREM HistoryImplementsQueue == Spec /\ [](registrations <= 1) => ImplementsQueue
<1>1. ASSUME Init PROVE SortedInv
  <2>1. \A k \in Kinds : Unsaved[k] = <<>>
    BY <1>1 DEF Init
  <2>2. \A t \in Threads : hand[t] = Nothing
    BY <1>1 DEF Init
  <2> QED BY <2>1, <2>2 DEF SortedInv
<1>2. ASSUME BaseInv, SortedInv, [Next]_vars PROVE SortedInv'
  <2>1. CASE UNCHANGED vars
    BY <1>2, <2>1 DEF vars, dataVars, SortedInv
  <2> QED BY <1>2, <2>1, SortedStep
<1>3. Spec => []SortedInv
  BY <1>1, <1>2, BaseCorrect, PTL DEF Spec
<1>4. ASSUME BaseInv, BaseInv', OneStorage, registrations <= 1, SortedInv, [Next]_vars
      PROVE  [SaveQueue!QueueNext]_(SaveQueue!queueVars)
  <2>1. CASE Next
    BY <1>4, <2>1, QueueStep DEF OneStorage
  <2>2. CASE UNCHANGED vars
    <3>1. UNCHANGED <<Unsaved, hand, SomethingToSave, rows, committed, main>>
      BY <2>2 DEF vars, dataVars
    <3>2. /\ WaitingOf' = WaitingOf /\ SavedOf' = SavedOf /\ DurableOf' = DurableOf
          /\ Crashing' = Crashing
      BY <3>1 DEF WaitingOf, InHand, HandOf, SavedOf, DurableOf, OnDisk, OfKind, Crashing
    <3> QED BY <3>2, QueueStutters
  <2> QED BY <1>4, <2>1, <2>2
<1>5. Init => SaveQueue!QueueInit
  BY QueueInitially
<1> QED
  BY <1>3, <1>4, <1>5, BaseCorrect, EndCorrect, PTL DEF Spec, ImplementsQueue, SaveQueue!QueueSpec
=============================================================================
