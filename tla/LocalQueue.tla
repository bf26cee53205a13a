------------------------------ MODULE LocalQueue ------------------------------
(***************************************************************************)
(* The local workbench: the job table of packages/storage/src/repository.ts *)
(* shared by two processes, the API (apps/api) and one worker (apps/worker) *)
(* that runs one job at a time.                                            *)
(*                                                                         *)
(* A job is identified by its idempotency key.  Every SQL statement or     *)
(* transaction and every await of the worker is a step; between two steps  *)
(* the reviewer may cancel or retry the job through the API, and the API   *)
(* may restart and recover stale jobs.                                     *)
(***************************************************************************)
EXTENDS Naturals, FiniteSets

CONSTANTS
    Jobs,           \* idempotency keys, hence jobs
    Demos,          \* demo SHA-256 values
    None,           \* no job, no demo
    MaxAttempts,    \* L4DSTATS_MAX_JOB_ATTEMPTS, 3 by default
    RetryCap,       \* bound: retries a reviewer asks for, per job
    Faults          \* the kinds of failure the environment produces

FaultKinds == {"crash",     \* the worker process dies
               "samepid",   \* a restarted worker gets its old process id
               "source",    \* the demo cannot be read or downloaded
               "engine",    \* the parser child fails
               "slow"}      \* a running job reports nothing for five minutes

ASSUME LocalAssumption ==
    /\ None \notin Jobs \cup Demos
    /\ MaxAttempts \in Nat \ {0}
    /\ RetryCap \in Nat
    /\ Faults \subseteq FaultKinds

VARIABLES
    job,        \* jobs: one row per idempotency key
    retries,    \* how often a reviewer retried each job
    recorded,   \* job_analyses: the jobs whose analysis is persisted
    store,      \* the objects of the content-addressed store
    leftover,   \* temporary files named after the worker's process id
    pc,         \* where the worker is
    mine,       \* the job the worker runs
    recovery    \* rows the API selected at startup and has yet to update

workerVars == <<pc, mine>>
files      == <<store, leftover>>
vars       == <<job, retries, recorded, files, workerVars, recovery>>

-----------------------------------------------------------------------------
(* Values *)

JobState == {"absent", "queued", "running", "succeeded", "failed", "cancelled"}

\* stale: updated_at lies more than five minutes back.
Row == [state : JobState, demo : Demos \cup {None}, attempt : Nat,
        stale : BOOLEAN]

Object == {"demo", "result"} \X Demos

WorkerPc == {"dead", "idle", "start", "read", "open demo", "rename demo",
             "check", "progress", "parse", "check again", "open result",
             "rename result", "record", "report", "finish", "finishing",
             "fail", "failing"}

LocalTypeOK ==
    /\ job \in [Jobs -> Row]
    /\ retries \in [Jobs -> Nat]
    /\ recorded \subseteq Jobs
    /\ store \subseteq Object
    /\ leftover \subseteq Object
    /\ pc \in WorkerPc
    /\ mine \in Jobs \cup {None}
    /\ recovery \subseteq Jobs \X Nat

Init ==
    /\ job = [j \in Jobs |-> [state |-> "absent", demo |-> None,
                              attempt |-> 0, stale |-> FALSE]]
    /\ retries = [j \in Jobs |-> 0]
    /\ recorded = {}
    /\ store = {}
    /\ leftover = {}
    /\ pc = "idle"
    /\ mine = None
    /\ recovery = {}

\* Slip: the update forgets updated_at.
SetJobTimeless(j, state, attempt) ==
    job' = [job EXCEPT ![j] = [state |-> state, demo |-> job[j].demo,
                               attempt |-> attempt]]

\* UPDATE jobs SET state, attempt, updated_at
SetJob(j, state, attempt) ==
    job' = [job EXCEPT ![j] = [state |-> state, demo |-> job[j].demo,
                               attempt |-> attempt, stale |-> FALSE]]

-----------------------------------------------------------------------------
(* The API: enqueue, cancel, retry, recovery at startup *)

\* The API is one process that recovers before it listens: no request is served
\* in the middle of a recovery.
Listening == recovery = {}

\* enqueue inserts a new key; a known key returns the existing job, whatever
\* its state (nothing changes then).
Enqueue(j, d) ==
    /\ Listening
    /\ job[j].state = "absent"
    /\ job' = [job EXCEPT ![j] = [state |-> "queued", demo |-> d,
                                  attempt |-> 0, stale |-> FALSE]]
    /\ UNCHANGED <<retries, recorded, files, workerVars, recovery>>

Cancel(j) ==
    /\ Listening
    /\ job[j].state \in {"queued", "running"}
    /\ SetJob(j, "cancelled", job[j].attempt)
    /\ UNCHANGED <<retries, recorded, files, workerVars, recovery>>

\* retry keeps the attempts already made.
Retry(j) ==
    /\ Listening
    /\ job[j].state \in {"failed", "cancelled"}
    /\ retries[j] < RetryCap
    /\ SetJob(j, "queued", job[j].attempt)
    /\ retries' = [retries EXCEPT ![j] = @ + 1]
    /\ UNCHANGED <<recorded, files, workerVars, recovery>>

\* The API starts, perhaps after dying in a recovery: recoverStaleRunning selects
\* the stale rows.
SelectStale ==
    /\ recovery' = {<<j, job[j].attempt>> :
                      j \in {k \in Jobs : job[k].state = "running" /\ job[k].stale}}
    /\ UNCHANGED <<job, retries, recorded, files, workerVars>>

\* Slip: one attempt more than the cap.
ExhaustedLate(attempt) == attempt > MaxAttempts

Exhausted(attempt) == attempt >= MaxAttempts

\* Slip: an exhausted row is skipped instead of failed.
RecoverUnexhausted(j, attempt) ==
    /\ <<j, attempt>> \in recovery
    /\ recovery' = recovery \ {<<j, attempt>>}
    /\ IF job[j].state = "running" /\ ~Exhausted(attempt)
       THEN SetJob(j, "queued", job[j].attempt)
       ELSE UNCHANGED job
    /\ UNCHANGED <<retries, recorded, files, workerVars>>

\* One update per selected row, guarded by the state only: the worker, another
\* process, goes on between the selection and the updates.
RecoverStale(j, attempt) ==
    /\ <<j, attempt>> \in recovery
    /\ recovery' = recovery \ {<<j, attempt>>}
    /\ IF job[j].state = "running"
       THEN SetJob(j, IF Exhausted(attempt) THEN "failed" ELSE "queued",
                   job[j].attempt)
       ELSE UNCHANGED job
    /\ UNCHANGED <<retries, recorded, files, workerVars>>

-----------------------------------------------------------------------------
(* The worker: helpers *)

Running(j)   == job[j].state = "running"
Cancelled(j) == job[j].state = "cancelled"

Step(from, to) == pc = from /\ pc' = to

\* Slip: an update that changed no row is not an error.
UnguardedUpdate(j) == TRUE

\* finish: UPDATE ... WHERE id=? AND state='running', or it throws.
Finishable(j) == Running(j)

Idle == pc' = "idle" /\ mine' = None
Dies == pc' = "dead" /\ mine' = None

-----------------------------------------------------------------------------
(* The worker: runOnce and the engine's job handler *)

\* claimNext, one transaction.  The code takes the oldest queued job, here any.
Claim(j) ==
    /\ Step("idle", "start")
    /\ job[j].state = "queued"
    /\ mine' = j
    /\ SetJob(j, "running", job[j].attempt + 1)
    /\ UNCHANGED <<retries, recorded, files, recovery>>

\* The three awaited progress updates: they throw when the job is no longer
\* running.
AfterProgress(at) == CASE at = "start" -> "read"
                       [] at = "progress" -> "parse"
                       [] at = "report" -> "finish"

Progress ==
    /\ pc \in {"start", "progress", "report"}
    /\ IF Running(mine)
       THEN /\ SetJob(mine, "running", job[mine].attempt)
            /\ pc' = AfterProgress(pc)
       ELSE UNCHANGED job /\ pc' = "fail"
    /\ UNCHANGED <<mine, retries, recorded, files, recovery>>

\* prepareDemo reads or downloads the demo and checks its hash; a download is
\* aborted when the job is seen cancelled.
ReadSource ==
    /\ \/ Step("read", "open demo")
       \/ Step("read", "fail") /\ ("source" \in Faults \/ Cancelled(mine))
    /\ UNCHANGED <<job, mine, retries, recorded, files, recovery>>

PutObject == IF pc \in {"open demo", "rename demo"} THEN <<"demo", job[mine].demo>>
                                                   ELSE <<"result", job[mine].demo>>
AfterPut == IF pc \in {"open demo", "rename demo"} THEN "check" ELSE "record"

\* ContentAddressedStore.put creates `<target>.<pid>.tmp` exclusively; when that
\* file exists the error is swallowed and put returns as if it had stored.
OpenTemporary ==
    /\ pc \in {"open demo", "open result"}
    /\ IF PutObject \in leftover
       THEN pc' = AfterPut /\ UNCHANGED leftover
       ELSE /\ pc' = IF pc = "open demo" THEN "rename demo" ELSE "rename result"
            /\ leftover' = leftover \cup {PutObject}
    /\ UNCHANGED <<job, mine, retries, recorded, store, recovery>>

RenameTemporary ==
    /\ pc \in {"rename demo", "rename result"}
    /\ leftover' = leftover \ {PutObject}
    /\ store' = store \cup {PutObject}
    /\ pc' = AfterPut
    /\ UNCHANGED <<job, mine, retries, recorded, recovery>>

\* The handler returns early from a cancelled job.
CheckCancelled ==
    /\ \/ pc = "check" /\ pc' = IF Cancelled(mine) THEN "finish" ELSE "progress"
       \/ pc = "check again"
          /\ pc' = IF Cancelled(mine) THEN "finish" ELSE "open result"
    /\ UNCHANGED <<job, mine, retries, recorded, files, recovery>>

\* The parser child ends: it reads the stored demo, and it is killed when the
\* job is seen cancelled.
ChildEnds ==
    /\ \/ Step("parse", "check again") /\ <<"demo", job[mine].demo>> \in store
       \/ /\ Step("parse", "fail")
          /\ \/ "engine" \in Faults
             \/ Cancelled(mine)
             \/ <<"demo", job[mine].demo>> \notin store
    /\ UNCHANGED <<job, mine, retries, recorded, files, recovery>>

\* The heartbeat timer reports progress while the child runs.  Nothing catches
\* what it throws when the job is no longer running: the process dies.
Heartbeat ==
    /\ pc = "parse"
    /\ IF Running(mine)
       THEN SetJob(mine, "running", job[mine].attempt) /\ UNCHANGED workerVars
       ELSE UNCHANGED job /\ Dies
    /\ UNCHANGED <<retries, recorded, files, recovery>>

\* persistAnalysis, one transaction: recordJobAnalysis inserts under the
\* primary key job_id, so a second analysis of a job is refused.
Record ==
    /\ pc = "record"
    /\ IF mine \in recorded
       THEN pc' = "fail" /\ UNCHANGED recorded
       ELSE pc' = "report" /\ recorded' = recorded \cup {mine}
    /\ UNCHANGED <<job, mine, retries, files, recovery>>

\* runOnce asks again whether the job was cancelled before it finishes it.
BeforeFinish ==
    /\ \/ pc = "finish" /\ IF Cancelled(mine) THEN Idle
                           ELSE pc' = "finishing" /\ UNCHANGED mine
       \/ pc = "fail" /\ IF Cancelled(mine) THEN Idle
                         ELSE pc' = "failing" /\ UNCHANGED mine
    /\ UNCHANGED <<job, retries, recorded, files, recovery>>

FinishSucceeded ==
    /\ pc = "finishing"
    /\ IF Finishable(mine)
       THEN SetJob(mine, "succeeded", job[mine].attempt) /\ Idle
       ELSE UNCHANGED <<job, mine>> /\ pc' = "fail"
    /\ UNCHANGED <<retries, recorded, files, recovery>>

\* Slip: the error of a job is not recorded.
FinishFailedSilently ==
    /\ pc = "failing"
    /\ Idle
    /\ UNCHANGED <<job, retries, recorded, files, recovery>>

\* finish(failed) inside the catch block: when it throws, runOnce rejects and
\* nobody handles the rejection.
FinishFailed ==
    /\ pc = "failing"
    /\ IF Finishable(mine)
       THEN SetJob(mine, "failed", job[mine].attempt) /\ Idle
       ELSE UNCHANGED job /\ Dies
    /\ UNCHANGED <<retries, recorded, files, recovery>>

\* The process is killed, at any step.
Crash ==
    /\ "crash" \in Faults
    /\ pc # "dead"
    /\ Dies
    /\ UNCHANGED <<job, retries, recorded, files, recovery>>

\* The container restarts it; the process id may be the same.
Restart ==
    /\ Step("dead", "idle")
    /\ \/ leftover' = {}
       \/ "samepid" \in Faults /\ UNCHANGED leftover
    /\ UNCHANGED <<job, mine, retries, recorded, store, recovery>>

WorkerStep ==
    \/ \E j \in Jobs : Claim(j)
    \/ Progress \/ ReadSource \/ OpenTemporary \/ RenameTemporary
    \/ CheckCancelled \/ ChildEnds \/ Record
    \/ BeforeFinish \/ FinishSucceeded \/ FinishFailed
    \/ Restart

\* Five minutes without an update: the worker is gone, or its parser is slow.
GrowStale(j) ==
    /\ Running(j) /\ ~job[j].stale
    /\ mine = j => "slow" \in Faults
    /\ job' = [job EXCEPT ![j].stale = TRUE]
    /\ UNCHANGED <<retries, recorded, files, workerVars, recovery>>

Next ==
    \/ \E j \in Jobs : \/ \E d \in Demos : Enqueue(j, d)
                       \/ Cancel(j) \/ Retry(j) \/ GrowStale(j)
    \/ SelectStale
    \/ \E r \in recovery : RecoverStale(r[1], r[2])
    \/ WorkerStep
    \/ Heartbeat
    \/ Crash

Spec == Init /\ [][Next]_vars

-----------------------------------------------------------------------------
(* Safety *)

\* A succeeded job has its analysis, although the handler returns early from a
\* cancelled job through the same path and a retry may undo the cancellation in
\* between.
SucceededIsRecorded ==
    \A j \in Jobs : job[j].state = "succeeded" => j \in recorded

\* The worker never puts a job down that is still running: no cancellation,
\* retry, failed child or uncaught error makes it poll again and leave such a row
\* behind.  (A killed worker does; its successor starts from "dead".)
NoRunningJobIsDropped ==
    [][\A j \in Jobs : mine = j /\ pc' = "idle" => job'[j].state # "running"]_vars

\* Recovery requeues an abandoned job a bounded number of times "instead of
\* looping forever": attempts beyond the cap are retries a reviewer asked for,
\* whatever the worker did to the row after recovery selected it.
AttemptsAreBounded ==
    \A j \in Jobs : job[j].attempt <= MaxAttempts + retries[j]

\* A terminal state only ever changes by a retry: neither the worker that still
\* runs a cancelled job nor a late recovery overwrites what the reviewer saw.
OutcomeIsStable ==
    [][\A j \in Jobs :
          /\ job[j].state \in {"succeeded", "failed", "cancelled"}
          /\ job'[j].state # job[j].state
          => job[j].state # "succeeded" /\ retries'[j] > retries[j]]_vars

-----------------------------------------------------------------------------
(* Liveness *)

\* The worker's awaits settle and the container restarts it; its poll timer keeps
\* firing, also when the process is killed again and again: in the end it lives
\* until the first poll.  The API is started again now and then, and recovers what
\* has been silent for five minutes.
FairSpec ==
    /\ Spec
    /\ WF_vars(WorkerStep)
    /\ SF_vars(\E j \in Jobs : Claim(j))
    /\ \A j \in Jobs : WF_vars(GrowStale(j))
    /\ WF_vars(\E r \in recovery : RecoverStale(r[1], r[2]))
    /\ WF_vars(SelectStale)

\* A queued job is run to an outcome, or cancelled, although workers are killed
\* and their jobs recovered: "exhausted jobs fail after the configured attempt
\* cap instead of looping forever".
QueuedJobEnds ==
    \A j \in Jobs : job[j].state = "queued"
        ~> job[j].state \in {"succeeded", "failed", "cancelled"}
=============================================================================
