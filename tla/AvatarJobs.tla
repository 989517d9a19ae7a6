----------------------------- MODULE AvatarJobs -----------------------------
(***************************************************************************)
(* The queue of avatars to fetch (kadu-core/avatars/avatar-job-manager.cpp *)
(* and avatar-job-runner.cpp): one runner at a time asks the avatar        *)
(* service of its contact's account, which may answer, refuse at once, or  *)
(* never answer; protocol handlers, and their services, come and go.       *)
(***************************************************************************)
EXTENDS Naturals, FiniteSets

CONSTANTS
    Contact,
    Account,
    AccountOf,    \* AccountOf[c]: the account of contact c
    MaxWakeUps,   \* bound on the calls of runJob that are queued
    MaxFetches    \* bound on the requests of one contact under way

ASSUME AvatarJobsAssumption ==
    /\ AccountOf \in [Contact -> Account]
    /\ IsFiniteSet(Contact)
    /\ MaxWakeUps \in Nat /\ MaxFetches \in Nat

VARIABLES
    Jobs,          \* contacts waiting
    IsJobRunning,
    wakeUps,       \* runJob calls queued by QTimer::singleShot
    runners,       \* contacts of the runners with a timer that can still finish
    services,      \* accounts whose protocol handler has an avatar service
    fetches        \* requests of each contact under way, children of the service

vars == <<Jobs, IsJobRunning, wakeUps, runners, services, fetches>>

Init ==
    /\ Jobs = {}
    /\ IsJobRunning = FALSE
    /\ wakeUps = 0
    /\ runners = {}
    /\ services \in SUBSET Account
    /\ fetches = [c \in Contact |-> 0]

\* scheduleJob, given the jobs and whether one runs.
ScheduleJob(jobs, running, queued) ==
    IF ~running /\ jobs # {} THEN queued + 1 ELSE queued

\* Mutant: the next job waits for somebody to add one.
ScheduleOnly(jobs, queued) == IsJobRunning' = FALSE /\ wakeUps' = queued

\* The slot jobFinished.
JobFinished(jobs, queued) ==
    /\ IsJobRunning' = FALSE
    /\ wakeUps' = ScheduleJob(jobs, FALSE, queued)

\* Called for new contacts, after logging in, and for everyone every 5 minutes.
AddJob(c) ==
    /\ wakeUps < MaxWakeUps
    /\ Jobs' = Jobs \cup {c}
    /\ wakeUps' = ScheduleJob(Jobs', IsJobRunning, wakeUps)
    /\ UNCHANGED <<IsJobRunning, runners, services, fetches>>

\* runJob when there is nothing to do.
RunNothing ==
    /\ wakeUps > 0
    /\ IsJobRunning \/ Jobs = {}
    /\ wakeUps' = wakeUps - 1
    /\ UNCHANGED <<Jobs, IsJobRunning, runners, services, fetches>>

\* Mutant: several calls of runJob that are queued start several jobs.
NextJobUnchecked(c) ==
    /\ wakeUps > 0
    /\ c \in Jobs
    /\ Jobs' = Jobs \ {c}

\* runJob takes any job: the order of a QSet is arbitrary.
NextJob(c) ==
    /\ wakeUps > 0 /\ ~IsJobRunning
    /\ c \in Jobs
    /\ Jobs' = Jobs \ {c}

\* AvatarJobRunner::runJob returns: nobody will tell that the job is finished.
RunWithoutService(c) ==
    /\ NextJob(c)
    /\ AccountOf[c] \notin services
    /\ IsJobRunning' = TRUE
    /\ wakeUps' = wakeUps - 1
    /\ UNCHANGED <<runners, services, fetches>>

\* The service refuses within fetchAvatar, as Jabber does while disconnected;
\* the timer is started for a runner that is already to be deleted.
RunRefused(c) ==
    /\ NextJob(c)
    /\ AccountOf[c] \in services
    /\ JobFinished(Jobs', wakeUps - 1)
    /\ UNCHANGED <<runners, services, fetches>>

RunFetch(c) ==
    /\ NextJob(c)
    /\ AccountOf[c] \in services
    /\ fetches[c] < MaxFetches
    /\ IsJobRunning' = TRUE
    /\ wakeUps' = wakeUps - 1
    /\ runners' = runners \cup {c}
    /\ fetches' = [fetches EXCEPT ![c] = @ + 1]
    /\ UNCHANGED services

\* fetchAvatar ignores a contact without an id; the runner waits for its timer.
RunEmptyId(c) ==
    /\ NextJob(c)
    /\ AccountOf[c] \in services
    /\ IsJobRunning' = TRUE
    /\ wakeUps' = wakeUps - 1
    /\ runners' = runners \cup {c}
    /\ UNCHANGED <<services, fetches>>

\* A request of c ends.  Every runner of c hears it, also if the request was
\* made by an earlier one that has timed out.
AvatarFetched(c) ==
    /\ fetches[c] > 0
    /\ fetches' = [fetches EXCEPT ![c] = @ - 1]
    /\ IF c \in runners
       THEN JobFinished(Jobs, wakeUps) /\ runners' = runners \ {c}
       ELSE UNCHANGED <<IsJobRunning, wakeUps, runners>>
    /\ UNCHANGED <<Jobs, services>>

\* Mutant: the timer is made for the request and is gone with it.
TimeoutOfRequest(c) ==
    /\ c \in runners /\ fetches[c] > 0
    /\ runners' = runners \ {c}
    /\ JobFinished(Jobs, wakeUps)
    /\ UNCHANGED <<Jobs, services, fetches>>

\* The runner's 15 seconds are over; its request goes on.
Timeout(c) ==
    /\ c \in runners
    /\ runners' = runners \ {c}
    /\ JobFinished(Jobs, wakeUps)
    /\ UNCHANGED <<Jobs, services, fetches>>

\* A protocol handler is deleted, with its service and the requests.
ServiceGone(a) ==
    /\ a \in services
    /\ services' = services \ {a}
    /\ fetches' = [c \in Contact |-> IF AccountOf[c] = a THEN 0 ELSE fetches[c]]
    /\ UNCHANGED <<Jobs, IsJobRunning, wakeUps, runners>>

ServiceMade(a) ==
    /\ a \notin services
    /\ services' = services \cup {a}
    /\ UNCHANGED <<Jobs, IsJobRunning, wakeUps, runners, fetches>>

RunJob ==
    \/ RunNothing
    \/ \E c \in Contact : RunWithoutService(c) \/ RunRefused(c) \/ RunFetch(c) \/ RunEmptyId(c)

Next ==
    \/ RunJob
    \/ \E c \in Contact : AddJob(c) \/ AvatarFetched(c) \/ Timeout(c)
    \/ \E a \in Account : ServiceGone(a) \/ ServiceMade(a)

Spec == Init /\ [][Next]_vars

\* Queued calls are made and timers fire; a server need not answer.
Fairness == WF_vars(RunJob) /\ \A c \in Contact : WF_vars(Timeout(c))

FairSpec == Spec /\ Fairness

-----------------------------------------------------------------------------
(* Properties.                                                             *)

TypeOK ==
    /\ Jobs \subseteq Contact
    /\ IsJobRunning \in BOOLEAN
    /\ wakeUps \in Nat
    /\ runners \subseteq Contact
    /\ services \subseteq Account
    /\ fetches \in [Contact -> 0..MaxFetches]
    /\ \A c \in Contact : fetches[c] > 0 => AccountOf[c] \in services

\* ChangeLog: "avatars are now fetched one after another, not all at once":
\* however many calls of runJob are queued and however late a server answers,
\* there is never a second runner, and none while IsJobRunning is false.
OneRunnerAtATime ==
    /\ \A c, d \in runners : c = d
    /\ runners # {} => IsJobRunning

\* A job that waits is not forgotten: one is running, or runJob is going to be
\* called, though calls are queued and used up by jobs that end at once.
NoJobForgotten == Jobs # {} /\ ~IsJobRunning => wakeUps > 0

\* A job that has asked its avatar service ends, whether the server answers,
\* the handler is deleted meanwhile, or nothing happens at all.
AskedJobsEnd == \A c \in Contact : c \in runners ~> ~IsJobRunning

\* ChangeLog: "added timeout to avatar jobs, so buggy servers do not stop avatar
\* fetching": every job that runs ends, and the next one gets its turn.
JobsDoNotStop == IsJobRunning ~> ~IsJobRunning
=============================================================================
