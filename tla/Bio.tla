--------------------------------- MODULE Bio ---------------------------------
(***************************************************************************)
(* The background job system (bio.c) for one job type: a thread that       *)
(* processes a list of jobs, the threads that add jobs to it, and the      *)
(* threads that wait for it.  The types share nothing, so one is enough.   *)
(*                                                                         *)
(* bio_mutex protects the list and the counter.  What a thread does        *)
(* between taking and releasing it is one step, for nothing else can       *)
(* observe the states in between; a cond_wait ends such a step and the     *)
(* return from it begins another.  The broadcast on bio_step_cond is made  *)
(* without the mutex and is a step of its own.                             *)
(*                                                                         *)
(* Jobs are numbered in the order they are submitted.                      *)
(***************************************************************************)
EXTENDS Integers, Sequences

CONSTANTS
    Waiters,    \* threads that call bioWaitStepOfType
    BioMaxJobs     \* bound: jobs ever submitted

ASSUME BioAssumption == BioMaxJobs \in Nat

VARIABLES
    bio_jobs,       \* the list; its first node is the job being processed
    bio_pending,    \* the counter kept beside it
    worker,         \* state of the processing thread
    waiter,         \* thread -> its state in bioWaitStepOfType
    val,            \* thread -> the value its last call returned
    submitted,      \* number of jobs submitted so far
    processed       \* the jobs processed so far, in order

bioJobVars == <<bio_jobs, bio_pending, worker, waiter, val, submitted, processed>>

\* "locking" is a thread about to take the mutex, at start or after a signal;
\* "sleeping" is inside pthread_cond_wait on bio_newjob_cond.
WorkerStates == {"locking", "sleeping", "processing", "processed", "retiring"}
WaiterStates == {"outside", "waiting", "woken"}

BioInit ==
    /\ bio_jobs = << >>
    /\ bio_pending = 0
    /\ worker = "locking"
    /\ waiter = [t \in Waiters |-> "outside"]
    /\ val = [t \in Waiters |-> 0]
    /\ submitted = 0
    /\ processed = << >>

\* The head of the processing loop, entered with the mutex held.
LoopHead(list) == IF list = << >> THEN "sleeping" ELSE "processing"

\* Fault: the job goes to the head of the list.
CreateAtHead ==
    /\ submitted < BioMaxJobs
    /\ submitted' = submitted + 1
    /\ bio_jobs' = <<submitted'>> \o bio_jobs
    /\ bio_pending' = bio_pending + 1
    /\ worker' = IF worker = "sleeping" THEN "locking" ELSE worker
    /\ UNCHANGED <<waiter, val, processed>>

bioCreateBackgroundJob ==
    /\ submitted < BioMaxJobs
    /\ submitted' = submitted + 1
    /\ bio_jobs' = Append(bio_jobs, submitted')
    /\ bio_pending' = bio_pending + 1
    /\ worker' = IF worker = "sleeping" THEN "locking" ELSE worker
    /\ UNCHANGED <<waiter, val, processed>>

\* Fault: the job is counted as done when it is taken.
StartCountedDown ==
    /\ worker = "locking"
    /\ worker' = LoopHead(bio_jobs)
    /\ bio_pending' = IF bio_jobs = << >> THEN bio_pending ELSE bio_pending - 1
    /\ UNCHANGED <<bio_jobs, waiter, val, submitted, processed>>

\* The thread gets the mutex, and sleeps again if there is nothing to do.
WorkerStart ==
    /\ worker = "locking"
    /\ worker' = LoopHead(bio_jobs)
    /\ UNCHANGED <<bio_jobs, bio_pending, waiter, val, submitted, processed>>

\* The job is executed and freed; its node stays in the list.
WorkerProcess ==
    /\ worker = "processing"
    /\ processed' = Append(processed, Head(bio_jobs))
    /\ worker' = "processed"
    /\ UNCHANGED <<bio_jobs, bio_pending, waiter, val, submitted>>

\* Fault: the thread goes on only when somebody waits for it.
BroadcastToSomebody ==
    /\ worker = "processed"
    /\ \E t \in Waiters : waiter[t] = "waiting"
    /\ waiter' = [t \in Waiters |->
                    IF waiter[t] = "waiting" THEN "woken" ELSE waiter[t]]
    /\ worker' = "retiring"
    /\ UNCHANGED <<bio_jobs, bio_pending, val, submitted, processed>>

WorkerBroadcast ==
    /\ worker = "processed"
    /\ waiter' = [t \in Waiters |->
                    IF waiter[t] = "waiting" THEN "woken" ELSE waiter[t]]
    /\ worker' = "retiring"
    /\ UNCHANGED <<bio_jobs, bio_pending, val, submitted, processed>>

\* With the mutex taken again: listDelNode, the counter, and the loop head.
WorkerRetire ==
    /\ worker = "retiring"
    /\ bio_jobs' = Tail(bio_jobs)
    /\ bio_pending' = bio_pending - 1
    /\ worker' = LoopHead(bio_jobs')
    /\ UNCHANGED <<waiter, val, submitted, processed>>

\* bioWaitStepOfType up to its return or its pthread_cond_wait.
bioWaitStepOfType(t) ==
    /\ waiter[t] = "outside"
    /\ IF bio_pending # 0
       THEN waiter' = [waiter EXCEPT ![t] = "waiting"] /\ UNCHANGED val
       ELSE val' = [val EXCEPT ![t] = 0] /\ UNCHANGED waiter
    /\ UNCHANGED <<bio_jobs, bio_pending, worker, submitted, processed>>

\* Mutant: the node being processed is taken for done.
CountsOneLess(t) ==
    /\ waiter[t] = "woken"
    /\ val' = [val EXCEPT ![t] = IF bio_pending > 0 THEN bio_pending - 1 ELSE 0]
    /\ waiter' = [waiter EXCEPT ![t] = "outside"]
    /\ UNCHANGED <<bio_jobs, bio_pending, worker, submitted, processed>>

\* ... and after the wait: the counter is read again and returned.
WaitReturn(t) ==
    /\ waiter[t] = "woken"
    /\ val' = [val EXCEPT ![t] = bio_pending]
    /\ waiter' = [waiter EXCEPT ![t] = "outside"]
    /\ UNCHANGED <<bio_jobs, bio_pending, worker, submitted, processed>>

\* pthread_cond_wait may return without a signal.
SpuriousWakeup ==
    /\ worker = "sleeping"
    /\ worker' = "locking"
    /\ UNCHANGED <<bio_jobs, bio_pending, waiter, val, submitted, processed>>

WorkerStep == WorkerStart \/ WorkerProcess \/ WorkerBroadcast \/ WorkerRetire

BioNext ==
    \/ bioCreateBackgroundJob
    \/ WorkerStep
    \/ \E t \in Waiters : bioWaitStepOfType(t) \/ WaitReturn(t)
    \/ SpuriousWakeup

BioSpec == BioInit /\ [][BioNext]_bioJobVars

-----------------------------------------------------------------------------
\* The state of the job system is in its domain.
BioTypeOK ==
    /\ bio_jobs \in Seq(Nat)
    /\ bio_pending \in Nat
    /\ worker \in WorkerStates
    /\ waiter \in [Waiters -> WaiterStates]
    /\ val \in [Waiters -> Nat]
    /\ submitted \in Nat
    /\ processed \in Seq(Nat)

\* Jobs are processed in the order they were submitted, none twice and none
\* skipped, although a job stays in the list while it is being processed.
ProcessedInOrder ==
    \A i \in 1 .. Len(processed) : processed[i] = i

\* "The main thread will just wait that there are no longer jobs of this type
\* to be executed" (bio.c:70-75): when the counter reads 0 every job ever
\* submitted has been processed.
NoPendingMeansAllDone ==
    bio_pending = 0 => Len(processed) = submitted

\* The thread never sleeps on a list that holds a job: no signal is lost.
NeverSleepsOnWork == worker = "sleeping" => bio_jobs = << >>

\* Jobs of the list that are processed and not yet removed.
Retiring == IF worker \in {"processed", "retiring"} THEN 1 ELSE 0

\* The inductive strengthening: the list holds the last submitted numbers in
\* order, the counter is its length, and what is processed is what left the
\* list plus the node waiting to be removed.
ListInv ==
    /\ BioTypeOK
    /\ Len(bio_jobs) <= submitted
    /\ \A i \in 1 .. Len(bio_jobs) :
          bio_jobs[i] = submitted - Len(bio_jobs) + i
    /\ bio_pending = Len(bio_jobs)
    /\ Len(processed) = submitted - Len(bio_jobs) + Retiring
    /\ ProcessedInOrder
    /\ worker \in {"processing", "processed", "retiring"} => bio_jobs # << >>
    /\ NeverSleepsOnWork

\* Every submitted job is processed, whatever else happens.
JobsGetProcessed ==
    \A n \in 1 .. BioMaxJobs : (submitted >= n) ~> (Len(processed) >= n)

\* "the function blocks and waits that the next job was processed"
\* (bio.c:265): a caller that blocks while a job is to be processed, or
\* before the broadcast for the last one, returns.  (One that comes between the
\* broadcast for the last job and its removal sleeps until the next job.)
WaitStepReturns ==
    \A t \in Waiters : (waiter[t] = "waiting" /\ (worker = "processed" \/ Len(processed) < submitted)) ~> (waiter[t] # "waiting")

\* "The function returns the number of jobs still to process" (bio.c:269): the
\* value a call returns counts every job that was not processed, and at most
\* one that was, the node waiting to be removed.
WaitStepCounts ==
    [][\A t \in Waiters : WaitReturn(t) =>
          val'[t] - (submitted - Len(processed)) \in 0 .. Retiring]_bioJobVars

\* What bio.c promises its callers: jobs of a type are processed in the order of
\* their creation, bioPendingJobsOfType returning 0 means that every job is
\* done, and the worker never sleeps on a list with jobs.
BioKeepsPromises ==
    /\ ProcessedInOrder
    /\ NoPendingMeansAllDone
    /\ NeverSleepsOnWork

\* Every job is processed, and a caller of bioWaitStepOfType that blocks before
\* the broadcast for the last job returns.
BioProceeds ==
    /\ JobsGetProcessed
    /\ WaitStepReturns
=============================================================================
