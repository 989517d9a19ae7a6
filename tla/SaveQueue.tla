----------------------------- MODULE SaveQueue -----------------------------
(***************************************************************************)
(* What saving history promises: for each kind of event one queue whose    *)
(* events are stored one by one, each as often and in the order it was     *)
(* queued, and which reach the disk together.  HistorySaving implements    *)
(* it with three kinds of threads, two mutexes and a database.             *)
(***************************************************************************)
EXTENDS Sequences, SequencesExt

CONSTANT Kind   \* kinds of events, each with a queue of its own

VARIABLES waiting,   \* waiting[k]: events queued and not yet stored
          saved,     \* saved[k]: events stored
          durable,   \* durable[k]: those of them that are on the disk
          crashing   \* the program is going down

queueVars == <<waiting, saved, durable, crashing>>

QueueInit ==
  /\ waiting = [k \in Kind |-> <<>>]
  /\ saved = [k \in Kind |-> <<>>]
  /\ durable = [k \in Kind |-> <<>>]
  /\ crashing = FALSE

\* One event is queued, once or several times.
Queue(k) ==
  /\ ~crashing
  /\ \E e \in ToSet(waiting'[k]), n \in 1..Len(waiting'[k]) :
       waiting' = [waiting EXCEPT ![k] = @ \o [i \in 1..n |-> e]]
  /\ UNCHANGED <<saved, durable, crashing>>

\* The first event is stored.  While the program is going down, threads that
\* store do not wait for each other, and another one may come first.
Save(k) ==
  /\ \E i \in DOMAIN waiting[k] :
       /\ i = 1 \/ crashing
       /\ waiting' = [waiting EXCEPT ![k] = RemoveAt(@, i)]
       /\ saved' = [saved EXCEPT ![k] = Append(@, waiting[k][i])]
  /\ UNCHANGED <<durable, crashing>>

\* Everything stored reaches the disk, at the latest when the program is gone.
Sync ==
  /\ durable' = saved
  /\ UNCHANGED <<waiting, saved, crashing>>

GoDown == crashing' = TRUE /\ UNCHANGED <<waiting, saved, durable>>

QueueNext == (\E k \in Kind : Queue(k) \/ Save(k)) \/ Sync \/ GoDown

QueueSpec == QueueInit /\ [][QueueNext]_queueVars
=============================================================================
