--------------------------- MODULE LocalQueueProofs ---------------------------
(***************************************************************************)
(* Proofs about the local workbench's job queue, for every set of jobs and *)
(* demos, every attempt cap and every combination of failures.             *)
(***************************************************************************)
EXTENDS LocalQueue, TLAPS

\* What the position of the worker says about its job.  A handler that returned
\* early left a cancelled job, and only the worker itself could make it run
\* again.
WorkerInv ==
    /\ \A j \in Jobs : job[j].state # "absent" => job[j].demo \in Demos
    /\ pc \notin {"dead", "idle"} =>
           mine \in Jobs /\ job[mine].demo \in Demos
    /\ pc = "report" => mine \in recorded
    /\ pc \in {"finish", "finishing"} => mine \in recorded \/ ~Running(mine)

\* Attempts are paid for: by the cap, or by a retry; a queued job has one to
\* spend.  A row that recovery selected with attempt a has been claimed again
\* since only after a retry.
AttemptInv ==
    /\ \A j \in Jobs :
          /\ job[j].attempt <= MaxAttempts + retries[j]
          /\ job[j].state = "queued" =>
                 job[j].attempt + 1 <= MaxAttempts + retries[j]
    /\ \A j \in Jobs, a \in Nat : <<j, a>> \in recovery =>
          /\ job[j].state # "absent"
          /\ job[j].attempt <= a + retries[j]
          /\ job[j].state = "queued" => job[j].attempt + 1 <= a + retries[j]
          /\ \A b \in Nat : <<j, b>> \in recovery => b = a

IInv ==
    /\ LocalTypeOK
    /\ WorkerInv
    /\ SucceededIsRecorded
    /\ AttemptInv

LEMMA InitIInv == Init => IInv
BY LocalAssumption DEF Init, IInv, LocalTypeOK, WorkerInv, SucceededIsRecorded,
   AttemptInv, Row, JobState, WorkerPc, Running

\* One row changes, to a row of the right type.
LEMMA SetJobType ==
  ASSUME LocalTypeOK, NEW j \in Jobs, NEW state \in JobState,
         NEW attempt \in Nat, SetJob(j, state, attempt)
  PROVE  /\ job' \in [Jobs -> Row]
         /\ job'[j].state = state
         /\ job'[j].attempt = attempt
         /\ job'[j].demo = job[j].demo
         /\ \A k \in Jobs : k # j => job'[k] = job[k]
<1>1. [state |-> state, demo |-> job[j].demo, attempt |-> attempt,
       stale |-> FALSE] \in Row
  BY DEF LocalTypeOK, Row
<1> QED BY <1>1 DEF SetJob, LocalTypeOK

LEMMA ObjectType ==
  ASSUME LocalTypeOK, WorkerInv, pc \notin {"dead", "idle"}
  PROVE  PutObject \in Object
BY DEF LocalTypeOK, WorkerInv, PutObject, Object

\* The worker sets the state of its own job, or leaves the row.
MineStep(state) ==
    \/ UNCHANGED job
    \/ Running(mine) /\ SetJob(mine, state, job[mine].attempt)

LEMMA MineStepKeeps ==
  ASSUME IInv, pc \notin {"dead", "idle"}, UNCHANGED <<retries, recovery>>,
         NEW state \in {"running", "succeeded", "failed"}, MineStep(state)
  PROVE  /\ job' \in [Jobs -> Row]
         /\ AttemptInv'
         /\ \A j \in Jobs : /\ job'[j].demo = job[j].demo
                            /\ job'[j].state = "absent" <=> job[j].state = "absent"
                            /\ Running(j)' => Running(j)
                            /\ job'[j].state = "succeeded" =>
                                  \/ job[j].state = "succeeded"
                                  \/ j = mine /\ state = "succeeded" /\ Running(j)
<1>1. mine \in Jobs
  BY DEF IInv, WorkerInv
<1>2. CASE UNCHANGED job
  BY <1>2 DEF IInv, LocalTypeOK, AttemptInv, Running
<1>3. CASE Running(mine) /\ SetJob(mine, state, job[mine].attempt)
  <2>1. state \in JobState /\ job[mine].attempt \in Nat
    BY <1>1 DEF IInv, LocalTypeOK, Row, JobState
  <2>2. /\ job' \in [Jobs -> Row]
        /\ job'[mine].state = state
        /\ job'[mine].attempt = job[mine].attempt
        /\ job'[mine].demo = job[mine].demo
        /\ \A k \in Jobs : k # mine => job'[k] = job[k]
    BY <1>1, <1>3, <2>1, SetJobType DEF IInv
  <2>3. AttemptInv'
    BY <1>1, <1>3, <2>2 DEF IInv, AttemptInv, Running
  <2> QED BY <1>1, <1>3, <2>2, <2>3 DEF Running
<1> QED BY <1>2, <1>3 DEF MineStep

LEMMA RecoverStaleStep ==
  ASSUME IInv, NEW j \in Jobs, NEW a \in Nat, RecoverStale(j, a)
  PROVE  IInv'
<1>1. CASE ~Running(j)
  <2>1. UNCHANGED job
    BY <1>1 DEF RecoverStale, Running
  <2> QED BY <2>1 DEF RecoverStale, IInv, LocalTypeOK, WorkerInv, AttemptInv,
          SucceededIsRecorded, Running, files, workerVars
<1>2. CASE Running(j)
  <2> DEFINE state == IF Exhausted(a) THEN "failed" ELSE "queued"
  <2>1. state \in JobState /\ job[j].attempt \in Nat
    BY DEF IInv, LocalTypeOK, Row, JobState
  <2>2. SetJob(j, state, job[j].attempt)
    BY <1>2 DEF RecoverStale, Running
  <2> HIDE DEF state
  <2>3. /\ job' \in [Jobs -> Row]
        /\ job'[j].state = state
        /\ job'[j].attempt = job[j].attempt
        /\ job'[j].demo = job[j].demo
        /\ \A k \in Jobs : k # j => job'[k] = job[k]
    BY <2>1, <2>2, SetJobType DEF IInv
  <2>4. LocalTypeOK'
    BY <2>3 DEF IInv, LocalTypeOK, RecoverStale, files, workerVars
  <2>5. WorkerInv'
    BY <1>2, <2>3 DEF IInv, WorkerInv, RecoverStale, Running, files,
       workerVars, state
  <2>6. SucceededIsRecorded'
    BY <2>3 DEF IInv, SucceededIsRecorded, RecoverStale, state
  <2>7. AttemptInv'
    <3>1. state = "queued" => a + 1 <= MaxAttempts
      BY LocalAssumption DEF state, Exhausted
    <3>2. job[j].attempt <= a + retries[j] /\ retries[j] \in Nat
      BY DEF IInv, AttemptInv, RecoverStale, LocalTypeOK
    <3>3. \A b \in Nat : <<j, b>> \notin recovery'
      BY DEF IInv, AttemptInv, RecoverStale
    <3>4. \A k \in Jobs, b \in Nat : <<k, b>> \in recovery' => <<k, b>> \in recovery
      BY DEF RecoverStale
    <3>5. UNCHANGED retries
      BY DEF RecoverStale
    <3>6. \A k \in Jobs : /\ job'[k].attempt <= MaxAttempts + retries'[k]
                          /\ job'[k].state = "queued" =>
                               job'[k].attempt + 1 <= MaxAttempts + retries'[k]
      BY <2>1, <2>3, <3>1, <3>2, <3>5, LocalAssumption DEF IInv, AttemptInv
    <3> QED BY <2>3, <3>3, <3>4, <3>5, <3>6 DEF IInv, AttemptInv
  <2> QED BY <2>4, <2>5, <2>6, <2>7 DEF IInv
<1> QED BY <1>1, <1>2

LEMMA EnqueueStep ==
  ASSUME IInv, NEW j \in Jobs, NEW d \in Demos, Enqueue(j, d)
  PROVE  IInv'
<1>1. /\ job' \in [Jobs -> Row]
      /\ job'[j].state = "queued" /\ job[j].state = "absent"
      /\ job'[j].attempt = 0
      /\ job'[j].demo = d
      /\ \A k \in Jobs : k # j => job'[k] = job[k]
  <2>1. [state |-> "queued", demo |-> d, attempt |-> 0, stale |-> FALSE] \in Row
    BY DEF Row, JobState
  <2> QED BY <2>1 DEF Enqueue, IInv, LocalTypeOK
<1>2. LocalTypeOK'
  BY <1>1, LocalAssumption DEF IInv, LocalTypeOK, WorkerInv, Enqueue, Row,
     JobState, WorkerPc, files, workerVars
<1>3. WorkerInv'
  BY <1>1 DEF IInv, LocalTypeOK, WorkerInv, Enqueue, Running, files,
     workerVars
<1>4. SucceededIsRecorded'
  BY <1>1, LocalAssumption DEF IInv, LocalTypeOK, WorkerInv,
     SucceededIsRecorded, Enqueue, Running, files, workerVars
<1>5. AttemptInv'
  BY <1>1, LocalAssumption DEF IInv, LocalTypeOK, AttemptInv, Enqueue,
     Running, files, workerVars
<1> QED BY <1>2, <1>3, <1>4, <1>5 DEF IInv

LEMMA CancelStep ==
  ASSUME IInv, NEW j \in Jobs, Cancel(j)
  PROVE  IInv'
<1>1. /\ job' \in [Jobs -> Row]
      /\ job'[j].state = "cancelled"
      /\ job'[j].attempt = job[j].attempt
      /\ job'[j].demo = job[j].demo
      /\ \A k \in Jobs : k # j => job'[k] = job[k]
  <2>1. job[j].attempt \in Nat /\ "cancelled" \in JobState
    BY DEF IInv, LocalTypeOK, Row, JobState
  <2> QED BY <2>1, SetJobType DEF IInv, Cancel
<1>2. LocalTypeOK'
  BY <1>1, LocalAssumption DEF IInv, LocalTypeOK, WorkerInv, Cancel, Row,
     JobState, WorkerPc, files, workerVars
<1>3. WorkerInv'
  BY <1>1 DEF IInv, LocalTypeOK, WorkerInv, Cancel, Running, files,
     workerVars
<1>4. SucceededIsRecorded'
  BY <1>1, LocalAssumption DEF IInv, LocalTypeOK, WorkerInv,
     SucceededIsRecorded, Cancel, Running, files, workerVars
<1>5. AttemptInv'
  BY <1>1, LocalAssumption DEF IInv, LocalTypeOK, AttemptInv, Cancel,
     Running, files, workerVars
<1> QED BY <1>2, <1>3, <1>4, <1>5 DEF IInv

LEMMA RetryStep ==
  ASSUME IInv, NEW j \in Jobs, Retry(j)
  PROVE  IInv'
<1>1. /\ job' \in [Jobs -> Row]
      /\ job'[j].state = "queued"
      /\ job'[j].attempt = job[j].attempt
      /\ job'[j].demo = job[j].demo
      /\ \A k \in Jobs : k # j => job'[k] = job[k]
  <2>1. job[j].attempt \in Nat /\ "queued" \in JobState
    BY DEF IInv, LocalTypeOK, Row, JobState
  <2> QED BY <2>1, SetJobType DEF IInv, Retry
<1>2. /\ retries' \in [Jobs -> Nat]
      /\ retries'[j] = retries[j] + 1
      /\ \A k \in Jobs : k # j => retries'[k] = retries[k]
      /\ \A k \in Jobs : retries[k] \in Nat /\ job[k].attempt \in Nat
  BY DEF IInv, LocalTypeOK, Retry, Row
<1>3. LocalTypeOK'
  BY <1>1, <1>2 DEF IInv, LocalTypeOK, Retry, files, workerVars
<1>4. WorkerInv'
  BY <1>1 DEF IInv, LocalTypeOK, WorkerInv, Retry, Running, files, workerVars
<1>5. SucceededIsRecorded'
  BY <1>1 DEF IInv, SucceededIsRecorded, Retry
<1>6. AttemptInv'
  <2>1. \A k \in Jobs :
           /\ job'[k].attempt <= MaxAttempts + retries'[k]
           /\ job'[k].state = "queued" =>
                  job'[k].attempt + 1 <= MaxAttempts + retries'[k]
    BY <1>1, <1>2, LocalAssumption DEF IInv, AttemptInv
  <2>2. ASSUME NEW k \in Jobs, NEW a \in Nat, <<k, a>> \in recovery'
        PROVE  /\ job'[k].state # "absent"
               /\ job'[k].attempt <= a + retries'[k]
               /\ job'[k].state = "queued" =>
                      job'[k].attempt + 1 <= a + retries'[k]
               /\ \A b \in Nat : <<k, b>> \in recovery' => b = a
    <3>1. <<k, a>> \in recovery /\ recovery' = recovery
      BY <2>2 DEF Retry
    <3>2. CASE k = j
      BY <1>1, <1>2, <3>1, <3>2 DEF IInv, AttemptInv
    <3>3. CASE k # j
      BY <1>1, <1>2, <3>1, <3>3 DEF IInv, AttemptInv
    <3> QED BY <3>2, <3>3
  <2> QED BY <2>1, <2>2 DEF AttemptInv
<1> QED BY <1>3, <1>4, <1>5, <1>6 DEF IInv

LEMMA SelectStaleStep ==
  ASSUME IInv, SelectStale
  PROVE  IInv'
<1>1. /\ recovery' \subseteq Jobs \X Nat
      /\ \A j \in Jobs : retries[j] \in Nat /\ job[j].attempt \in Nat
  <2>1. \A j \in Jobs : job[j].attempt \in Nat /\ retries[j] \in Nat
    BY DEF IInv, LocalTypeOK, Row
  <2> QED BY <2>1 DEF SelectStale
<1>2. LocalTypeOK'
  BY <1>1, LocalAssumption DEF IInv, LocalTypeOK, WorkerInv, SelectStale,
     Row, JobState, WorkerPc, files, workerVars
<1>3. WorkerInv'
  BY <1>1 DEF IInv, LocalTypeOK, WorkerInv, SelectStale, Running, files,
     workerVars
<1>4. SucceededIsRecorded'
  BY <1>1, LocalAssumption DEF IInv, LocalTypeOK, WorkerInv,
     SucceededIsRecorded, SelectStale, Running, files, workerVars
<1>5. AttemptInv'
  BY <1>1, LocalAssumption DEF IInv, LocalTypeOK, AttemptInv, SelectStale,
     Running, files, workerVars
<1> QED BY <1>2, <1>3, <1>4, <1>5 DEF IInv

LEMMA ClaimStep ==
  ASSUME IInv, NEW j \in Jobs, Claim(j)
  PROVE  IInv'
<1>1. /\ job' \in [Jobs -> Row]
      /\ job'[j].state = "running"
      /\ job'[j].attempt = job[j].attempt + 1
      /\ job'[j].demo = job[j].demo
      /\ \A k \in Jobs : k # j => job'[k] = job[k]
  <2>1. job[j].attempt + 1 \in Nat /\ "running" \in JobState
    BY DEF IInv, LocalTypeOK, Row, JobState
  <2> QED BY <2>1, SetJobType DEF IInv, Claim
<1>2. LocalTypeOK'
  BY <1>1, LocalAssumption DEF IInv, LocalTypeOK, WorkerInv, Claim, Step,
     Row, JobState, WorkerPc, files, workerVars
<1>3. WorkerInv'
  BY <1>1 DEF IInv, LocalTypeOK, WorkerInv, Claim, Step, Running, files,
     workerVars
<1>4. SucceededIsRecorded'
  BY <1>1, LocalAssumption DEF IInv, LocalTypeOK, WorkerInv,
     SucceededIsRecorded, Claim, Step, Running, files, workerVars
<1>5. AttemptInv'
  BY <1>1, LocalAssumption DEF IInv, LocalTypeOK, AttemptInv, Claim, Step,
     Running, files, workerVars
<1> QED BY <1>2, <1>3, <1>4, <1>5 DEF IInv

LEMMA GrowStaleStep ==
  ASSUME IInv, NEW j \in Jobs, GrowStale(j)
  PROVE  IInv'
<1>1. /\ job' \in [Jobs -> Row]
      /\ job'[j].state = job[j].state
      /\ job'[j].attempt = job[j].attempt
      /\ job'[j].demo = job[j].demo
      /\ \A k \in Jobs : k # j => job'[k] = job[k]
  <2>1. [job[j] EXCEPT !.stale = TRUE] \in Row
    BY DEF IInv, LocalTypeOK, Row
  <2> QED BY <2>1 DEF GrowStale, IInv, LocalTypeOK
<1>2. LocalTypeOK'
  BY <1>1, LocalAssumption DEF IInv, LocalTypeOK, WorkerInv, GrowStale, Row,
     JobState, WorkerPc, files, workerVars
<1>3. WorkerInv'
  BY <1>1 DEF IInv, LocalTypeOK, WorkerInv, GrowStale, Running, files,
     workerVars
<1>4. SucceededIsRecorded'
  BY <1>1, LocalAssumption DEF IInv, LocalTypeOK, WorkerInv,
     SucceededIsRecorded, GrowStale, Running, files, workerVars
<1>5. AttemptInv'
  BY <1>1, LocalAssumption DEF IInv, LocalTypeOK, AttemptInv, GrowStale,
     Running, files, workerVars
<1> QED BY <1>2, <1>3, <1>4, <1>5 DEF IInv

LEMMA ReadSourceStep ==
  ASSUME IInv, ReadSource
  PROVE  IInv'
<1>2. LocalTypeOK'
  BY LocalAssumption DEF IInv, LocalTypeOK, WorkerInv, ReadSource, Step,
     Row, JobState, WorkerPc, files, workerVars
<1>3. WorkerInv'
  BY DEF IInv, LocalTypeOK, WorkerInv, ReadSource, Step, Running, files,
     workerVars
<1>4. SucceededIsRecorded'
  BY LocalAssumption DEF IInv, LocalTypeOK, WorkerInv, SucceededIsRecorded,
     ReadSource, Step, Running, files, workerVars
<1>5. AttemptInv'
  BY LocalAssumption DEF IInv, LocalTypeOK, AttemptInv, ReadSource, Step,
     Running, files, workerVars
<1> QED BY <1>2, <1>3, <1>4, <1>5 DEF IInv

LEMMA CheckCancelledStep ==
  ASSUME IInv, CheckCancelled
  PROVE  IInv'
<1>2. LocalTypeOK'
  BY LocalAssumption DEF IInv, LocalTypeOK, WorkerInv, CheckCancelled,
     Cancelled, Row, JobState, WorkerPc, files, workerVars
<1>3. WorkerInv'
  BY DEF IInv, LocalTypeOK, WorkerInv, CheckCancelled, Cancelled, Running,
     files, workerVars
<1>4. SucceededIsRecorded'
  BY LocalAssumption DEF IInv, LocalTypeOK, WorkerInv, SucceededIsRecorded,
     CheckCancelled, Cancelled, Running, files, workerVars
<1>5. AttemptInv'
  BY LocalAssumption DEF IInv, LocalTypeOK, AttemptInv, CheckCancelled,
     Cancelled, Running, files, workerVars
<1> QED BY <1>2, <1>3, <1>4, <1>5 DEF IInv

LEMMA ChildEndsStep ==
  ASSUME IInv, ChildEnds
  PROVE  IInv'
<1>2. LocalTypeOK'
  BY LocalAssumption DEF IInv, LocalTypeOK, WorkerInv, ChildEnds, Step, Row,
     JobState, WorkerPc, files, workerVars
<1>3. WorkerInv'
  BY DEF IInv, LocalTypeOK, WorkerInv, ChildEnds, Step, Running, files,
     workerVars
<1>4. SucceededIsRecorded'
  BY LocalAssumption DEF IInv, LocalTypeOK, WorkerInv, SucceededIsRecorded,
     ChildEnds, Step, Running, files, workerVars
<1>5. AttemptInv'
  BY LocalAssumption DEF IInv, LocalTypeOK, AttemptInv, ChildEnds, Step,
     Running, files, workerVars
<1> QED BY <1>2, <1>3, <1>4, <1>5 DEF IInv

LEMMA RecordStep ==
  ASSUME IInv, Record
  PROVE  IInv'
<1>2. LocalTypeOK'
  BY LocalAssumption DEF IInv, LocalTypeOK, WorkerInv, Record, Row,
     JobState, WorkerPc, files, workerVars
<1>3. WorkerInv'
  BY DEF IInv, LocalTypeOK, WorkerInv, Record, Running, files, workerVars
<1>4. SucceededIsRecorded'
  BY LocalAssumption DEF IInv, LocalTypeOK, WorkerInv, SucceededIsRecorded,
     Record, Running, files, workerVars
<1>5. AttemptInv'
  BY LocalAssumption DEF IInv, LocalTypeOK, AttemptInv, Record, Running,
     files, workerVars
<1> QED BY <1>2, <1>3, <1>4, <1>5 DEF IInv

LEMMA BeforeFinishStep ==
  ASSUME IInv, BeforeFinish
  PROVE  IInv'
<1>2. LocalTypeOK'
  BY LocalAssumption DEF IInv, LocalTypeOK, WorkerInv, BeforeFinish, Idle,
     Cancelled, Row, JobState, WorkerPc, files, workerVars
<1>3. WorkerInv'
  BY DEF IInv, LocalTypeOK, WorkerInv, BeforeFinish, Idle, Cancelled,
     Running, files, workerVars
<1>4. SucceededIsRecorded'
  BY LocalAssumption DEF IInv, LocalTypeOK, WorkerInv, SucceededIsRecorded,
     BeforeFinish, Idle, Cancelled, Running, files, workerVars
<1>5. AttemptInv'
  BY LocalAssumption DEF IInv, LocalTypeOK, AttemptInv, BeforeFinish, Idle,
     Cancelled, Running, files, workerVars
<1> QED BY <1>2, <1>3, <1>4, <1>5 DEF IInv

LEMMA CrashStep ==
  ASSUME IInv, Crash
  PROVE  IInv'
<1>2. LocalTypeOK'
  BY LocalAssumption DEF IInv, LocalTypeOK, WorkerInv, Crash, Dies, Row,
     JobState, WorkerPc, files, workerVars
<1>3. WorkerInv'
  BY DEF IInv, LocalTypeOK, WorkerInv, Crash, Dies, Running, files,
     workerVars
<1>4. SucceededIsRecorded'
  BY LocalAssumption DEF IInv, LocalTypeOK, WorkerInv, SucceededIsRecorded,
     Crash, Dies, Running, files, workerVars
<1>5. AttemptInv'
  BY LocalAssumption DEF IInv, LocalTypeOK, AttemptInv, Crash, Dies,
     Running, files, workerVars
<1> QED BY <1>2, <1>3, <1>4, <1>5 DEF IInv

LEMMA RestartStep ==
  ASSUME IInv, Restart
  PROVE  IInv'
<1>2. LocalTypeOK'
  BY LocalAssumption DEF IInv, LocalTypeOK, WorkerInv, Restart, Step, Row,
     JobState, WorkerPc, files, workerVars
<1>3. WorkerInv'
  BY DEF IInv, LocalTypeOK, WorkerInv, Restart, Step, Running, files,
     workerVars
<1>4. SucceededIsRecorded'
  BY LocalAssumption DEF IInv, LocalTypeOK, WorkerInv, SucceededIsRecorded,
     Restart, Step, Running, files, workerVars
<1>5. AttemptInv'
  BY LocalAssumption DEF IInv, LocalTypeOK, AttemptInv, Restart, Step,
     Running, files, workerVars
<1> QED BY <1>2, <1>3, <1>4, <1>5 DEF IInv

LEMMA OpenTemporaryStep ==
  ASSUME IInv, OpenTemporary
  PROVE  IInv'
<1>1. PutObject \in Object
  BY ObjectType DEF IInv, OpenTemporary
<1>2. LocalTypeOK'
  BY <1>1, LocalAssumption DEF IInv, LocalTypeOK, WorkerInv, OpenTemporary,
     AfterPut, Row, JobState, WorkerPc, files, workerVars
<1>3. WorkerInv'
  BY <1>1 DEF IInv, LocalTypeOK, WorkerInv, OpenTemporary, AfterPut,
     Running, files, workerVars
<1>4. SucceededIsRecorded'
  BY <1>1, LocalAssumption DEF IInv, LocalTypeOK, WorkerInv,
     SucceededIsRecorded, OpenTemporary, AfterPut, Running, files,
     workerVars
<1>5. AttemptInv'
  BY <1>1, LocalAssumption DEF IInv, LocalTypeOK, AttemptInv, OpenTemporary,
     AfterPut, Running, files, workerVars
<1> QED BY <1>2, <1>3, <1>4, <1>5 DEF IInv

LEMMA RenameTemporaryStep ==
  ASSUME IInv, RenameTemporary
  PROVE  IInv'
<1>1. PutObject \in Object
  BY ObjectType DEF IInv, RenameTemporary
<1>2. LocalTypeOK'
  BY <1>1, LocalAssumption DEF IInv, LocalTypeOK, WorkerInv,
     RenameTemporary, AfterPut, Row, JobState, WorkerPc, files, workerVars
<1>3. WorkerInv'
  BY <1>1 DEF IInv, LocalTypeOK, WorkerInv, RenameTemporary, AfterPut,
     Running, files, workerVars
<1>4. SucceededIsRecorded'
  BY <1>1, LocalAssumption DEF IInv, LocalTypeOK, WorkerInv,
     SucceededIsRecorded, RenameTemporary, AfterPut, Running, files,
     workerVars
<1>5. AttemptInv'
  BY <1>1, LocalAssumption DEF IInv, LocalTypeOK, AttemptInv,
     RenameTemporary, AfterPut, Running, files, workerVars
<1> QED BY <1>2, <1>3, <1>4, <1>5 DEF IInv

LEMMA ProgressStep ==
  ASSUME IInv, Progress
  PROVE  IInv'
<1>1. pc \notin {"dead", "idle"} /\ MineStep("running")
  BY DEF Progress, MineStep
<1>2. UNCHANGED <<retries, recorded, files, recovery>>
  BY DEF Progress
<1>3. LocalTypeOK'
  BY <1>1, <1>2, MineStepKeeps DEF IInv, LocalTypeOK, Progress, files, workerVars,
     WorkerPc, Idle, Dies, AfterProgress
<1>4. WorkerInv'
  BY <1>1, <1>2, MineStepKeeps DEF IInv, WorkerInv, Progress, Running, workerVars,
     Idle, Dies, AfterProgress, MineStep
<1>5. SucceededIsRecorded'
  BY <1>1, <1>2, MineStepKeeps DEF IInv, WorkerInv, SucceededIsRecorded, Progress
<1>6. AttemptInv'
  BY <1>1, <1>2, MineStepKeeps
<1> QED BY <1>3, <1>4, <1>5, <1>6 DEF IInv

LEMMA HeartbeatStep ==
  ASSUME IInv, Heartbeat
  PROVE  IInv'
<1>1. pc \notin {"dead", "idle"} /\ MineStep("running")
  BY DEF Heartbeat, MineStep, workerVars
<1>2. UNCHANGED <<retries, recorded, files, recovery>>
  BY DEF Heartbeat
<1>3. LocalTypeOK'
  BY <1>1, <1>2, MineStepKeeps DEF IInv, LocalTypeOK, Heartbeat, files, workerVars,
     WorkerPc, Idle, Dies, AfterProgress
<1>4. WorkerInv'
  BY <1>1, <1>2, MineStepKeeps DEF IInv, WorkerInv, Heartbeat, Running, workerVars,
     Idle, Dies, AfterProgress, MineStep
<1>5. SucceededIsRecorded'
  BY <1>1, <1>2, MineStepKeeps DEF IInv, WorkerInv, SucceededIsRecorded, Heartbeat, workerVars
<1>6. AttemptInv'
  BY <1>1, <1>2, MineStepKeeps
<1> QED BY <1>3, <1>4, <1>5, <1>6 DEF IInv

LEMMA FinishSucceededStep ==
  ASSUME IInv, FinishSucceeded
  PROVE  IInv'
<1>1. pc \notin {"dead", "idle"} /\ MineStep("succeeded")
  BY DEF FinishSucceeded, MineStep, Finishable
<1>2. UNCHANGED <<retries, recorded, files, recovery>>
  BY DEF FinishSucceeded
<1>3. LocalTypeOK'
  BY <1>1, <1>2, MineStepKeeps DEF IInv, LocalTypeOK, FinishSucceeded, files, workerVars,
     WorkerPc, Idle, Dies, AfterProgress
<1>4. WorkerInv'
  BY <1>1, <1>2, MineStepKeeps DEF IInv, WorkerInv, FinishSucceeded, Running, workerVars,
     Idle, Dies, AfterProgress, MineStep
<1>5. SucceededIsRecorded'
  BY <1>1, <1>2, MineStepKeeps DEF IInv, WorkerInv, SucceededIsRecorded, FinishSucceeded, Finishable
<1>6. AttemptInv'
  BY <1>1, <1>2, MineStepKeeps
<1> QED BY <1>3, <1>4, <1>5, <1>6 DEF IInv

LEMMA FinishFailedStep ==
  ASSUME IInv, FinishFailed
  PROVE  IInv'
<1>1. pc \notin {"dead", "idle"} /\ MineStep("failed")
  BY DEF FinishFailed, MineStep, Finishable
<1>2. UNCHANGED <<retries, recorded, files, recovery>>
  BY DEF FinishFailed
<1>3. LocalTypeOK'
  BY <1>1, <1>2, MineStepKeeps DEF IInv, LocalTypeOK, FinishFailed, files, workerVars,
     WorkerPc, Idle, Dies, AfterProgress
<1>4. WorkerInv'
  BY <1>1, <1>2, MineStepKeeps DEF IInv, WorkerInv, FinishFailed, Running, workerVars,
     Idle, Dies, AfterProgress, MineStep
<1>5. SucceededIsRecorded'
  BY <1>1, <1>2, MineStepKeeps DEF IInv, WorkerInv, SucceededIsRecorded, FinishFailed, Finishable
<1>6. AttemptInv'
  BY <1>1, <1>2, MineStepKeeps
<1> QED BY <1>3, <1>4, <1>5, <1>6 DEF IInv

LEMMA NextIInv == IInv /\ [Next]_vars => IInv'
<1> SUFFICES ASSUME IInv, [Next]_vars PROVE IInv'
  OBVIOUS
<1>1. CASE UNCHANGED vars
  BY <1>1 DEF vars, files, workerVars, IInv, LocalTypeOK, WorkerInv,
     SucceededIsRecorded, AttemptInv, Running
<1>2. CASE \E r \in recovery : RecoverStale(r[1], r[2])
  <2>1. PICK r \in recovery : RecoverStale(r[1], r[2])
    BY <1>2
  <2>2. r[1] \in Jobs /\ r[2] \in Nat
    BY DEF IInv, LocalTypeOK
  <2> QED BY <2>1, <2>2, RecoverStaleStep
<1>3. CASE WorkerStep
  BY <1>3, ClaimStep, ProgressStep, ReadSourceStep, OpenTemporaryStep,
     RenameTemporaryStep, CheckCancelledStep, ChildEndsStep, RecordStep,
     BeforeFinishStep, FinishSucceededStep, FinishFailedStep, RestartStep
     DEF WorkerStep
<1> QED BY <1>1, <1>2, <1>3, EnqueueStep, CancelStep, RetryStep, GrowStaleStep,
        SelectStaleStep, HeartbeatStep, CrashStep DEF Next

THEOREM Invariant == Spec => []IInv
BY InitIInv, NextIInv, PTL DEF Spec

\* A succeeded job has its analysis, whatever the reviewer cancels and retries
\* while the worker runs it and whenever the processes die.
THEOREM SuccessIsRecorded == Spec => []SucceededIsRecorded
<1>1. IInv => SucceededIsRecorded
  BY DEF IInv
<1> QED BY <1>1, Invariant, PTL

\* Abandoned jobs do not loop: beyond the cap every attempt was asked for.
THEOREM AttemptBound == Spec => []AttemptsAreBounded
<1>1. IInv => AttemptsAreBounded
  BY DEF IInv, AttemptInv, AttemptsAreBounded
<1> QED BY <1>1, Invariant, PTL

\* A terminal state is only left by a retry: the worker and a late recovery
\* touch running rows only, whatever they read before.
THEOREM OutcomesStand == Spec => OutcomeIsStable
<1> DEFINE Left(j) == /\ job[j].state \in {"succeeded", "failed", "cancelled"}
                      /\ job'[j].state # job[j].state
           Stable == \A j \in Jobs : Left(j) =>
                       job[j].state # "succeeded" /\ retries'[j] > retries[j]
<1>1. ASSUME IInv, [Next]_vars PROVE Stable
  <2>1. ASSUME UNCHANGED job PROVE Stable
    BY <2>1
  <2>2. ASSUME NEW j \in Jobs, NEW state, NEW attempt,
               SetJob(j, state, attempt),
               job[j].state \in {"queued", "running"}
        PROVE  Stable
    BY <1>1, <2>2 DEF SetJob, IInv, LocalTypeOK
  <2>3. CASE UNCHANGED vars
    BY <2>1, <2>3 DEF vars
  <2>4. ASSUME NEW j \in Jobs, NEW d \in Demos, Enqueue(j, d) PROVE Stable
    BY <1>1, <2>4 DEF Enqueue, IInv, LocalTypeOK
  <2>5. ASSUME NEW j \in Jobs, Retry(j) PROVE Stable
    <3>1. /\ job[j].state # "succeeded"
          /\ \A k \in Jobs : k # j => job'[k] = job[k]
          /\ retries[j] \in Nat /\ retries'[j] = retries[j] + 1
      BY <1>1, <2>5 DEF Retry, SetJob, IInv, LocalTypeOK
    <3> QED BY <3>1
  <2>6. ASSUME NEW j \in Jobs, Cancel(j) \/ Claim(j) PROVE Stable
    BY <2>2, <2>6 DEF Cancel, Claim
  <2>7. ASSUME NEW j \in Jobs, GrowStale(j) PROVE Stable
    BY <1>1, <2>7 DEF GrowStale, IInv, LocalTypeOK
  <2>8. CASE \E r \in recovery : RecoverStale(r[1], r[2])
    <3>1. PICK r \in recovery : RecoverStale(r[1], r[2])
      BY <2>8
    <3>2. r[1] \in Jobs
      BY <1>1 DEF IInv, LocalTypeOK
    <3> QED BY <2>1, <2>2, <3>1, <3>2 DEF RecoverStale
  <2>9. CASE Progress \/ Heartbeat \/ FinishSucceeded \/ FinishFailed
    <3>1. mine \in Jobs
      BY <1>1, <2>9 DEF Progress, Heartbeat, FinishSucceeded, FinishFailed,
         IInv, WorkerInv
    <3>2. CASE ~Running(mine)
      BY <2>1, <2>9, <3>2 DEF Progress, Heartbeat, FinishSucceeded,
         FinishFailed, Finishable
    <3>3. CASE Running(mine)
      BY <2>2, <2>9, <3>1, <3>3 DEF Progress, Heartbeat, FinishSucceeded,
         FinishFailed, Finishable, Running
    <3> QED BY <3>2, <3>3
  <2>10. CASE SelectStale \/ ReadSource \/ OpenTemporary \/ RenameTemporary
              \/ CheckCancelled \/ ChildEnds \/ Record \/ BeforeFinish
              \/ Crash \/ Restart
    BY <2>1, <2>10 DEF SelectStale, ReadSource, OpenTemporary,
       RenameTemporary, CheckCancelled, ChildEnds, Record, BeforeFinish,
       Crash, Restart
  <2> QED BY <1>1, <2>3, <2>4, <2>5, <2>6, <2>7, <2>8, <2>9, <2>10
          DEF Next, WorkerStep
<1> QED BY <1>1, Invariant, PTL DEF Spec, OutcomeIsStable

\* A worker that polls or is dead has no job.
IdleIsFree == pc \in {"dead", "idle"} => mine = None

LEMMA IdleIsFreeStep == IdleIsFree /\ [Next]_vars => IdleIsFree'
<1> SUFFICES ASSUME IdleIsFree, [Next]_vars PROVE IdleIsFree'
  OBVIOUS
<1>1. ASSUME UNCHANGED workerVars PROVE IdleIsFree'
  BY <1>1 DEF IdleIsFree, workerVars
<1>2. CASE WorkerStep
  BY <1>2 DEF WorkerStep, Claim, Progress, AfterProgress, ReadSource, OpenTemporary,
     RenameTemporary, AfterPut, CheckCancelled, ChildEnds, Record, BeforeFinish,
     FinishSucceeded, FinishFailed, Restart, Step, Idle, Dies, IdleIsFree
<1>3. CASE Heartbeat \/ Crash
  BY <1>1, <1>3 DEF Heartbeat, Crash, Dies, IdleIsFree
<1> QED
  BY <1>1, <1>2, <1>3 DEF Next, Enqueue, Cancel, Retry, GrowStale, SelectStale,
     RecoverStale, vars, workerVars

\* The worker polls again only when its job has left "running": it was cancelled,
\* or the worker wrote its outcome; an update that finds the row no longer its own
\* ends the process instead (runOnce, packages/storage/src/repository.ts).
THEOREM NoneDropped == Spec => NoRunningJobIsDropped
<1> DEFINE Kept == \A j \in Jobs : mine = j /\ pc' = "idle" => job'[j].state # "running"
<1>1. ASSUME IInv, IdleIsFree, [Next]_vars PROVE Kept
  <2> SUFFICES ASSUME mine \in Jobs, pc' = "idle" PROVE job'[mine].state # "running"
    OBVIOUS
  <2>1. pc \notin {"dead", "idle"}
    BY <1>1, LocalAssumption DEF IdleIsFree
  <2>2. CASE BeforeFinish
    BY <2>2 DEF BeforeFinish, Idle, Cancelled
  <2>3. CASE FinishSucceeded \/ FinishFailed
    <3>1. PICK state \in {"succeeded", "failed"} : SetJob(mine, state, job[mine].attempt)
      BY <2>3 DEF FinishSucceeded, FinishFailed, Dies
    <3> QED BY <1>1, <3>1 DEF SetJob, IInv, LocalTypeOK
  <2>4. CASE WorkerStep /\ ~(BeforeFinish \/ FinishSucceeded \/ FinishFailed)
    BY <2>1, <2>4 DEF WorkerStep, Claim, Progress, AfterProgress, ReadSource, OpenTemporary,
       RenameTemporary, AfterPut, CheckCancelled, ChildEnds, Record, Restart, Step
  <2> QED
    BY <1>1, <2>1, <2>2, <2>3, <2>4 DEF Next, Enqueue, Cancel, Retry, GrowStale,
       SelectStale, RecoverStale, Heartbeat, Crash, Dies, vars, workerVars
<1>2. Init => IdleIsFree
  BY DEF Init, IdleIsFree
<1> QED BY <1>1, <1>2, IdleIsFreeStep, Invariant, PTL DEF Spec, NoRunningJobIsDropped
=============================================================================
