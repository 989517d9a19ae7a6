-------------------------- MODULE AvatarJobsProofs --------------------------
(***************************************************************************)
(* The safety properties of AvatarJobs hold for any contacts and accounts. *)
(***************************************************************************)
EXTENDS AvatarJobs, TLAPS

IInv == TypeOK /\ OneRunnerAtATime /\ NoJobForgotten

\* jobFinished leaves no job without a call of runJob to come.
LEMMA FinishedSchedules ==
    ASSUME NEW jobs, NEW queued \in Nat, JobFinished(jobs, queued)
    PROVE  /\ IsJobRunning' = FALSE
           /\ wakeUps' \in Nat
           /\ jobs # {} => wakeUps' > 0
BY DEF JobFinished, ScheduleJob

\* At the start nothing waits and nothing runs.
LEMMA InitIInv == Init => IInv
<1> SUFFICES ASSUME Init PROVE IInv
    OBVIOUS
<1>0. 0 \in 0..MaxFetches
    BY AvatarJobsAssumption DEF AvatarJobsAssumption
<1>1. /\ fetches \in [Contact -> 0..MaxFetches]
      /\ \A c \in Contact : fetches[c] > 0 => AccountOf[c] \in services
    BY <1>0 DEF Init
<1>2. TypeOK
    BY <1>1 DEF Init, TypeOK
<1> QED
    BY <1>2 DEF Init, IInv, OneRunnerAtATime, NoJobForgotten

\* Every step keeps the three properties together: a runner is made only while
\* IsJobRunning is false, and then there is no other.
LEMMA NextIInv == IInv /\ [Next]_vars => IInv'
<1> SUFFICES ASSUME IInv, [Next]_vars PROVE IInv'
    OBVIOUS
<1> USE AvatarJobsAssumption DEF AvatarJobsAssumption, IInv, TypeOK, OneRunnerAtATime, NoJobForgotten
<1>1. CASE UNCHANGED vars
    BY <1>1 DEF vars
<1>2. CASE RunNothing
    BY <1>2 DEF RunNothing
<1>3. ASSUME NEW c \in Contact, RunWithoutService(c) PROVE IInv'
    BY <1>3 DEF RunWithoutService, NextJob
<1>4. ASSUME NEW c \in Contact, RunRefused(c) PROVE IInv'
    <2>1. wakeUps - 1 \in Nat
        BY <1>4 DEF RunRefused, NextJob
    <2>2. /\ IsJobRunning' = FALSE /\ wakeUps' \in Nat
          /\ Jobs' # {} => wakeUps' > 0
        BY <1>4, <2>1, FinishedSchedules DEF RunRefused
    <2> QED
        BY <1>4, <2>2 DEF RunRefused, NextJob
<1>5. ASSUME NEW c \in Contact, RunFetch(c) PROVE IInv'
    BY <1>5 DEF RunFetch, NextJob
<1>6. ASSUME NEW c \in Contact, RunEmptyId(c) PROVE IInv'
    BY <1>6 DEF RunEmptyId, NextJob
<1>7. ASSUME NEW c \in Contact, AddJob(c) PROVE IInv'
    BY <1>7 DEF AddJob, ScheduleJob
<1>8. ASSUME NEW c \in Contact, AvatarFetched(c) PROVE IInv'
    <2>0. /\ fetches' \in [Contact -> 0..MaxFetches]
          /\ \A d \in Contact : fetches'[d] > 0 => AccountOf[d] \in services'
        BY <1>8 DEF AvatarFetched
    <2>1. CASE c \in runners
        <3>1. /\ IsJobRunning' = FALSE /\ wakeUps' \in Nat
              /\ Jobs # {} => wakeUps' > 0
            BY <1>8, <2>1, FinishedSchedules DEF AvatarFetched
        <3>2. runners' = {}
            BY <1>8, <2>1 DEF AvatarFetched
        <3> QED
            BY <1>8, <2>0, <3>1, <3>2 DEF AvatarFetched
    <2>2. CASE c \notin runners
        BY <1>8, <2>0, <2>2 DEF AvatarFetched
    <2> QED
        BY <2>1, <2>2
<1>9. ASSUME NEW c \in Contact, Timeout(c) PROVE IInv'
    <2>1. /\ IsJobRunning' = FALSE /\ wakeUps' \in Nat
          /\ Jobs # {} => wakeUps' > 0
        BY <1>9, FinishedSchedules DEF Timeout
    <2>2. runners' = {}
        BY <1>9 DEF Timeout
    <2> QED
        BY <1>9, <2>1, <2>2 DEF Timeout
<1>10. ASSUME NEW a \in Account, ServiceGone(a) PROVE IInv'
    BY <1>10 DEF ServiceGone
<1>11. ASSUME NEW a \in Account, ServiceMade(a) PROVE IInv'
    BY <1>11 DEF ServiceMade
<1> QED
    BY <1>1, <1>2, <1>3, <1>4, <1>5, <1>6, <1>7, <1>8, <1>9, <1>10, <1>11 DEF Next, RunJob

\* Every reachable state has the three properties.
THEOREM AvatarJobsInvariance == Spec => []IInv
BY InitIInv, NextIInv, PTL DEF Spec

\* The variables of the queue keep their types; requests belong to a service.
THEOREM AvatarJobsTypeCorrect == Spec => []TypeOK
BY AvatarJobsInvariance, PTL DEF IInv

\* However many calls of runJob are queued, jobs are done one after another.
THEOREM OneAfterAnother == Spec => []OneRunnerAtATime
BY AvatarJobsInvariance, PTL DEF IInv

\* No job waits without a running job or a call of runJob to come.
THEOREM NoneForgotten == Spec => []NoJobForgotten
BY AvatarJobsInvariance, PTL DEF IInv
=============================================================================
