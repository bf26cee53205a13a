---------------------------- MODULE HostedPipeline ----------------------------
(***************************************************************************)
(* The hosted analysis pipeline: the upload request and the queue consumer *)
(* of apps/edge/src/index.ts over the job, lease and analysis tables of    *)
(* packages/storage/src/hosted.ts.                                         *)
(*                                                                         *)
(* A job is identified by the demo it analyses, because its idempotency    *)
(* key is `upload:<sha256>`.  Upload requests and queue deliveries run     *)
(* concurrently; every await of the code is a step of its own.  Cloudflare *)
(* Queues, R2 and Turso are external and are modelled by what the code     *)
(* relies on: at-least-once delivery, atomic single statements and atomic  *)
(* object operations.                                                      *)
(***************************************************************************)
EXTENDS Naturals, FiniteSets

CONSTANTS
    Demos,          \* source SHA-256 values, hence jobs
    Uploads,        \* upload ids, the R2 keys uploads/<id>
    Builds,         \* parser builds: one demo has one result per build
    Messages,       \* slots of the queue
    Handlers,       \* queue consumer invocations, hence lease owner ids
    None,           \* SQL NULL and absent objects
    MaxAttempts,    \* 3 in queueHandler
    MaxRetries,     \* max_retries of the queue consumer, 20 in wrangler
    PutsPerUpload,  \* bound: PUT requests a client makes for one upload id
    AttemptCap,     \* bound: attempts counted when leases are taken over
    Faults          \* the kinds of failure the environment produces

FaultKinds == {"abort",      \* an upload request dies or a call of it throws
               "crash",      \* an invocation dies between two awaits
               "call",       \* a call of the try block throws, before or
                             \* after its effect
               "recovery",   \* a call of the catch block throws, likewise
               "send",       \* ANALYSIS_QUEUE.send throws
               "duplicate",  \* the queue delivers a message twice
               "overrun",    \* a lease expires under a live invocation
               "lifecycle",  \* the R2 lifecycle rule deletes a source
               "result"}     \* the container answers with an error

ASSUME HostedAssumption ==
    /\ None \notin Demos \cup Uploads \cup Builds \cup Messages \cup Handlers
    /\ MaxAttempts \in Nat \ {0}
    /\ MaxRetries \in Nat
    /\ PutsPerUpload \in Nat
    /\ AttemptCap \in Nat
    /\ Faults \subseteq FaultKinds

VARIABLES
    job,        \* hosted_jobs: one row per demo
    analysis,   \* hosted_analyses: the build whose result was accepted
    indexed,    \* demos whose game and player statistics are materialised
    temporary,  \* TEMPORARY_DEMOS: what each upload key holds
    derived,    \* DERIVED_ARTIFACTS: the results stored, by content
    client,     \* upload requests: where each is and the demo it carries
    puts,       \* PUT requests made so far for each upload id
    queue,      \* ANALYSIS_QUEUE
    pc,         \* where each consumer invocation is
    msg,        \* the message an invocation was given
    seen,       \* the job row an invocation holds in memory
    built,      \* the parser result an invocation holds in memory
    failure     \* the category of the exception being handled

tables   == <<job, analysis, indexed>>
buckets  == <<temporary, derived>>
requests == <<client, puts>>
locals   == <<msg, seen, built, failure>>
vars     == <<tables, buckets, requests, queue, pc, locals>>

-----------------------------------------------------------------------------
(* Values *)

JobState == {"absent", "queued", "running", "succeeded", "failed"}

Row == [state : JobState, source : Uploads \cup {None}, attempt : Nat,
        owner : Handlers \cup {None}, lease : {"none", "live", "expired"}]

\* A row that no invocation owns.
Unclaimed(state, source, attempt) ==
    [state |-> state, source |-> source, attempt |-> attempt,
     owner |-> None, lease |-> "none"]

NoRow == Unclaimed("absent", None, 0)

ClientPc == {"idle", "stored", "select", "insert", "revive", "reread",
             "send", "drop"}

\* The body of the try block in queueHandler, one label per await.
TryPc == {"claim", "unclaimable", "load", "source", "start", "parse",
          "validate", "store", "commit", "record", "index", "delete",
          "head", "finish"}

\* Its catch block.
CatchPc == {"catch", "defer", "purge", "fail", "retry"}

HandlerPc == {"idle", "ack", "release"} \cup TryPc \cup CatchPc

Failure == {"none", "capacity", "deterministic", "other"}

Seen == [source : Uploads \cup {None}, attempt : Nat]
NotClaimed == [source |-> None, attempt |-> 0]

Slot == [status : {"free", "ready", "leased", "dead"},
         demo : Demos \cup {None}, deliveries : Nat]
FreeSlot == [status |-> "free", demo |-> None, deliveries |-> 0]

HostedTypeOK ==
    /\ job \in [Demos -> Row]
    /\ analysis \in [Demos -> Builds \cup {None}]
    /\ indexed \subseteq Demos
    /\ temporary \in [Uploads -> Demos \cup {None}]
    /\ derived \subseteq Demos \X Builds
    /\ client \in [Uploads -> [pc : ClientPc, demo : Demos \cup {None}]]
    /\ puts \in [Uploads -> Nat]
    /\ queue \in [Messages -> Slot]
    /\ pc \in [Handlers -> HandlerPc]
    /\ msg \in [Handlers -> Messages \cup {None}]
    /\ seen \in [Handlers -> Seen]
    /\ built \in [Handlers -> Builds \cup {None}]
    /\ failure \in [Handlers -> Failure]

Init ==
    /\ job = [d \in Demos |-> NoRow]
    /\ analysis = [d \in Demos |-> None]
    /\ indexed = {}
    /\ temporary = [u \in Uploads |-> None]
    /\ derived = {}
    /\ client = [u \in Uploads |-> [pc |-> "idle", demo |-> None]]
    /\ puts = [u \in Uploads |-> 0]
    /\ queue = [m \in Messages |-> FreeSlot]
    /\ pc = [h \in Handlers |-> "idle"]
    /\ msg = [h \in Handlers |-> None]
    /\ seen = [h \in Handlers |-> NotClaimed]
    /\ built = [h \in Handlers |-> None]
    /\ failure = [h \in Handlers |-> "none"]

-----------------------------------------------------------------------------
(* The upload request: PUT /api/uploads/<id> *)

ClientAt(u, at) == client[u].pc = at
ClientTo(u, at) == client' = [client EXCEPT ![u].pc = at]

\* TEMPORARY_DEMOS.put of a request that passed the header checks.  A client
\* may send the same upload id again, with the same or with another demo.
PutSource(u, d) ==
    /\ ClientAt(u, "idle")
    /\ puts[u] < PutsPerUpload
    /\ puts' = [puts EXCEPT ![u] = @ + 1]
    /\ temporary' = [temporary EXCEPT ![u] = d]
    /\ client' = [client EXCEPT ![u] = [pc |-> "stored", demo |-> d]]
    /\ UNCHANGED <<tables, derived, queue, pc, locals>>

\* The stored size is the declared one, or the object is deleted again.
CheckStoredSize(u) ==
    /\ ClientAt(u, "stored")
    /\ \/ ClientTo(u, "select") /\ UNCHANGED temporary
       \/ /\ temporary' = [temporary EXCEPT ![u] = None]
          /\ ClientTo(u, "idle")
    /\ UNCHANGED <<tables, derived, puts, queue, pc, locals>>

\* enqueue: SELECT by idempotency key.
SelectJob(u) ==
    LET row == job[client[u].demo] IN
    /\ ClientAt(u, "select")
    /\ ClientTo(u, CASE row.state = "absent" -> "insert"
                     [] row.state = "failed" -> "revive"
                     [] row.state \notin {"absent", "failed"} ->
                            IF row.source = u THEN "send" ELSE "drop")
    /\ UNCHANGED <<tables, buckets, puts, queue, pc, locals>>

QueuedRow(u) == Unclaimed("queued", u, 0)

\* enqueue: INSERT, which the UNIQUE key refuses when another request was
\* first (the request then fails and leaves its object in the bucket).
InsertJob(u) ==
    LET d == client[u].demo IN
    /\ ClientAt(u, "insert")
    /\ IF job[d].state = "absent"
       THEN /\ job' = [job EXCEPT ![d] = QueuedRow(u)]
            /\ ClientTo(u, "reread")
       ELSE ClientTo(u, "idle") /\ UNCHANGED job
    /\ UNCHANGED <<analysis, indexed, buckets, puts, queue, pc, locals>>

\* Slip: the UPDATE trusts the SELECT before it.
ReviveJobUnchecked(u) ==
    /\ ClientAt(u, "revive")
    /\ job' = [job EXCEPT ![client[u].demo] = QueuedRow(u)]
    /\ ClientTo(u, "reread")
    /\ UNCHANGED <<analysis, indexed, buckets, puts, queue, pc, locals>>

\* enqueue: a failed job is revived with the new source and no attempts.
ReviveJob(u) ==
    LET d == client[u].demo IN
    /\ ClientAt(u, "revive")
    /\ IF job[d].state = "failed"
       THEN job' = [job EXCEPT ![d] = QueuedRow(u)]
       ELSE UNCHANGED job
    /\ ClientTo(u, "reread")
    /\ UNCHANGED <<analysis, indexed, buckets, puts, queue, pc, locals>>

\* Slip: a duplicate is recognised by its state.
RereadJobByState(u) ==
    /\ ClientAt(u, "reread")
    /\ ClientTo(u, IF job[client[u].demo].state = "queued"
                   THEN "drop" ELSE "send")
    /\ UNCHANGED <<tables, buckets, puts, queue, pc, locals>>

\* enqueue returns getJob(id); upload compares its source key with its own.
RereadJob(u) ==
    /\ ClientAt(u, "reread")
    /\ ClientTo(u, IF job[client[u].demo].source = u THEN "send" ELSE "drop")
    /\ UNCHANGED <<tables, buckets, puts, queue, pc, locals>>

\* Slip: the key is taken from the job.
DropSourceOfJob(u) ==
    /\ ClientAt(u, "drop")
    /\ temporary' = [temporary EXCEPT ![job[client[u].demo].source] = None]
    /\ ClientTo(u, "idle")
    /\ UNCHANGED <<tables, derived, puts, queue, pc, locals>>

\* A duplicate upload deletes its own object.
DropDuplicate(u) ==
    /\ ClientAt(u, "drop")
    /\ temporary' = [temporary EXCEPT ![u] = None]
    /\ ClientTo(u, "idle")
    /\ UNCHANGED <<tables, derived, puts, queue, pc, locals>>

Enqueued(m, d) ==
    /\ queue[m].status = "free"
    /\ queue' = [queue EXCEPT
                    ![m] = [status |-> "ready", demo |-> d, deliveries |-> 0]]

\* ANALYSIS_QUEUE.send
SendMessage(u) ==
    /\ ClientAt(u, "send")
    /\ \E m \in Messages : Enqueued(m, client[u].demo)
    /\ ClientTo(u, "idle")
    /\ UNCHANGED <<tables, buckets, puts, pc, locals>>

\* send throws, whether or not the queue took the message: the request
\* deletes the source and fails, the row stays.
SendFails(u) ==
    /\ "send" \in Faults
    /\ ClientAt(u, "send")
    /\ UNCHANGED queue \/ \E m \in Messages : Enqueued(m, client[u].demo)
    /\ temporary' = [temporary EXCEPT ![u] = None]
    /\ ClientTo(u, "idle")
    /\ UNCHANGED <<tables, derived, puts, pc, locals>>

\* The request dies, or a call of it throws: nothing is undone.
UploadAborts(u) ==
    /\ "abort" \in Faults
    /\ ~ClientAt(u, "idle")
    /\ ClientTo(u, "idle")
    /\ UNCHANGED <<tables, buckets, puts, queue, pc, locals>>

UploadStep(u) ==
    \/ \E d \in Demos : PutSource(u, d)
    \/ CheckStoredSize(u)
    \/ SelectJob(u)
    \/ InsertJob(u)
    \/ ReviveJob(u)
    \/ RereadJob(u)
    \/ DropDuplicate(u)
    \/ SendMessage(u)
    \/ SendFails(u)
    \/ UploadAborts(u)

-----------------------------------------------------------------------------
(* The queue consumer: helpers *)

demoOf(h) == queue[msg[h]].demo
RowOf(h)  == job[demoOf(h)]

At(h, at) == pc[h] = at
Goto(h, at) == pc' = [pc EXCEPT ![h] = at]

\* Slip: the update asks for the state and forgets the owner.
FencedByState(h) == RowOf(h).state = "running"

\* WHERE id=? AND state='running' AND lease_owner=?
Fenced(h) == RowOf(h).state = "running" /\ RowOf(h).owner = h

SetRow(h, row) == job' = [job EXCEPT ![demoOf(h)] = row]

\* The exception leaves the try block with its category.
Throw(h, kind) == Goto(h, "catch") /\ failure' = [failure EXCEPT ![h] = kind]
NoThrow == UNCHANGED failure

\* An update is followed by an audit insert: when that throws, the caller
\* sees a failure of what has been done.
ThenAudit(h, next) ==
    \/ Goto(h, next) /\ NoThrow
    \/ "call" \in Faults /\ Throw(h, "other")

\* Returned to the queue: redelivered until max_retries, then dead-lettered.
Returned(m) ==
    LET slot == queue[m] IN
    queue' = [queue EXCEPT
                ![m] = IF slot.deliveries < MaxRetries
                       THEN [status |-> "ready", demo |-> slot.demo,
                             deliveries |-> slot.deliveries + 1]
                       ELSE [slot EXCEPT !.status = "dead"]]

Done(h) ==
    /\ Goto(h, "idle")
    /\ msg' = [msg EXCEPT ![h] = None]
    /\ seen' = [seen EXCEPT ![h] = NotClaimed]
    /\ built' = [built EXCEPT ![h] = None]
    /\ failure' = [failure EXCEPT ![h] = "none"]

-----------------------------------------------------------------------------
(* The queue consumer: claiming *)

\* The consumer takes a message under a fresh owner id: an invocation name is
\* used again only when no row mentions it.
Deliver(h, m) ==
    /\ At(h, "idle")
    /\ queue[m].status = "ready"
    /\ \A d \in Demos : job[d].owner # h
    /\ queue' = [queue EXCEPT ![m].status = "leased"]
    /\ msg' = [msg EXCEPT ![h] = m]
    /\ Goto(h, "claim")
    /\ UNCHANGED <<tables, buckets, requests, seen, built, failure>>

\* Slip: any job that nobody is running may be claimed.
ClaimableUnlessRunning(row) == row.state # "running" \/ row.lease = "expired"

\* UPDATE ... WHERE id=? AND (queued OR running with an expired lease)
Claimable(row) ==
    \/ row.state = "queued"
    \/ row.state = "running" /\ row.lease = "expired"

Claim(h) ==
    LET row == RowOf(h) IN
    /\ At(h, "claim")
    /\ IF Claimable(row)
       THEN /\ row.attempt < AttemptCap
            /\ SetRow(h, [state |-> "running", source |-> row.source,
                          attempt |-> row.attempt + 1,
                          owner |-> h, lease |-> "live"])
            /\ \/ /\ Goto(h, "load")
                  /\ NoThrow
                  /\ seen' = [seen EXCEPT ![h] = [source |-> row.source,
                                            attempt |-> row.attempt + 1]]
               \/ "call" \in Faults /\ Throw(h, "other") /\ UNCHANGED seen
       ELSE Goto(h, "unclaimable") /\ UNCHANGED <<job, seen, failure>>
    /\ UNCHANGED <<analysis, indexed, buckets, requests, queue, msg, built>>

\* Slip: every unclaimable delivery is acknowledged.
AcknowledgeableAlways(state) == TRUE

\* shouldAcknowledgeUnclaimableState
Acknowledgeable(state) == state \in {"succeeded", "running", "failed"}

Unclaimable(h) ==
    /\ At(h, "unclaimable")
    /\ IF Acknowledgeable(RowOf(h).state)
       THEN Goto(h, "ack") /\ NoThrow
       ELSE Throw(h, "other")
    /\ UNCHANGED <<tables, buckets, requests, queue, msg, seen, built>>

-----------------------------------------------------------------------------
(* The queue consumer: the try block after a successful claim *)

ProgressPc == {"load", "start", "validate", "commit"}

\* Slip: the reference is recorded before the artifact is written.
AfterProgressUnstored(at) ==
    CASE at = "load" -> "source"
      [] at = "start" -> "parse"
      [] at = "validate" -> "record"
      [] at = "commit" -> "record"

AfterProgress(at) ==
    CASE at = "load" -> "source"
      [] at = "start" -> "parse"
      [] at = "validate" -> "store"
      [] at = "commit" -> "record"

\* progress(): fenced, and it changes nothing the properties look at.
Progress(h) ==
    /\ pc[h] \in ProgressPc
    /\ IF Fenced(h) THEN Goto(h, AfterProgress(pc[h])) /\ NoThrow
                    ELSE Throw(h, "other")
    /\ UNCHANGED <<tables, buckets, requests, queue, msg, seen, built>>

\* TEMPORARY_DEMOS.get and the size check: another demo under the key has
\* another size.
LoadSource(h) ==
    /\ At(h, "source")
    /\ IF temporary[seen[h].source] = demoOf(h)
       THEN Goto(h, "start") /\ NoThrow
       ELSE Throw(h, "other")
    /\ UNCHANGED <<tables, buckets, requests, queue, msg, seen, built>>

\* container.fetch: the result of some parser build, or an error response.
Parse(h) ==
    /\ At(h, "parse")
    /\ \/ \E b \in Builds :
            /\ built' = [built EXCEPT ![h] = b]
            /\ Goto(h, "validate") /\ NoThrow
       \/ /\ "result" \in Faults
          /\ \E kind \in {"capacity", "deterministic", "other"} : Throw(h, kind)
          /\ UNCHANGED built
    /\ UNCHANGED <<tables, buckets, requests, queue, msg, seen>>

\* DERIVED_ARTIFACTS.put under the hash of the result.
StoreDerived(h) ==
    /\ At(h, "store")
    /\ derived' = derived \cup {<<demoOf(h), built[h]>>}
    /\ ThenAudit(h, "commit")
    /\ UNCHANGED <<tables, temporary, requests, queue, msg, seen, built>>

\* Slip: the upsert has no WHERE and the last writer wins.
UpsertedLast(current, b) == b

\* recordAnalysis: INSERT ... ON CONFLICT DO UPDATE ... WHERE same result,
\* then a read back that rejects a conflicting artifact.  It is not fenced.
Upserted(current, b) == IF current = None THEN b ELSE current

RecordAnalysis(h) ==
    LET d == demoOf(h) IN
    /\ At(h, "record")
    /\ analysis' = [analysis EXCEPT ![d] = Upserted(@, built[h])]
    /\ IF analysis'[d] = built[h] THEN ThenAudit(h, "index")
                                  ELSE Throw(h, "other")
    /\ UNCHANGED <<job, indexed, buckets, requests, queue, msg, seen, built>>

\* assignGame and materializeAnalysisStats
IndexAnalysis(h) ==
    /\ At(h, "index")
    /\ indexed' = indexed \cup {demoOf(h)}
    /\ ThenAudit(h, "delete")
    /\ UNCHANGED <<job, analysis, buckets, requests, queue, msg, seen, built>>

\* TEMPORARY_DEMOS.delete
DeleteSource(h) ==
    /\ At(h, "delete")
    /\ temporary' = [temporary EXCEPT ![seen[h].source] = None]
    /\ ThenAudit(h, "head")
    /\ UNCHANGED <<tables, derived, requests, queue, msg, seen, built>>

\* TEMPORARY_DEMOS.head: the deletion must be confirmed.
ConfirmDeletion(h) ==
    /\ At(h, "head")
    /\ IF temporary[seen[h].source] = None
       THEN Goto(h, "finish") /\ NoThrow
       ELSE Throw(h, "other")
    /\ UNCHANGED <<tables, buckets, requests, queue, msg, seen, built>>

\* Slip: the lease columns are not cleared to what an unclaimed row holds.
ReleasedToNull(row, state) ==
    [Unclaimed(state, row.source, row.attempt) EXCEPT !.lease = None]

Released(row, state) == Unclaimed(state, row.source, row.attempt)

\* finish succeeded
Succeed(h) ==
    /\ At(h, "finish")
    /\ IF Fenced(h)
       THEN SetRow(h, Released(RowOf(h), "succeeded")) /\ ThenAudit(h, "ack")
       ELSE UNCHANGED job /\ Throw(h, "other")
    /\ UNCHANGED <<analysis, indexed, buckets, requests, queue, msg, seen,
                   built>>

\* A call of the try block throws before it had any effect.
CallFails(h) ==
    /\ "call" \in Faults
    /\ pc[h] \in TryPc
    /\ Throw(h, "other")
    /\ UNCHANGED <<tables, buckets, requests, queue, msg, seen, built>>

-----------------------------------------------------------------------------
(* The queue consumer: the catch block *)

\* What the catch block does with a job it believes to be running.
Verdict(h, attempt) ==
    IF failure[h] = "capacity" THEN "defer"
    ELSE IF failure[h] = "deterministic" \/ attempt >= MaxAttempts
         THEN "purge" ELSE "retry"

\* claimed ?? getJob(id): an invocation that did claim decides on the row it
\* read then, not on the current one.
Catch(h) ==
    LET row == RowOf(h) IN
    /\ At(h, "catch")
    /\ IF seen[h] # NotClaimed
       THEN Goto(h, Verdict(h, seen[h].attempt)) /\ UNCHANGED seen
       ELSE IF row.state = "running"
       THEN /\ Goto(h, Verdict(h, row.attempt))
            /\ seen' = [seen EXCEPT ![h] = [source |-> row.source,
                                            attempt |-> row.attempt]]
       ELSE Goto(h, "release") /\ UNCHANGED seen
    /\ UNCHANGED <<tables, buckets, requests, queue, msg, built, failure>>

\* An update of the catch block: fenced, and the invocation rejects (which
\* returns the message) when the lease is lost or the audit insert fails.
CatchUpdate(h, row, next) ==
    /\ IF Fenced(h)
       THEN /\ SetRow(h, row)
            /\ \/ Goto(h, next)
               \/ "recovery" \in Faults /\ Goto(h, "release")
       ELSE UNCHANGED job /\ Goto(h, "release")
    /\ UNCHANGED <<analysis, indexed, buckets, requests, queue, locals>>

\* defer: back to queued, and this attempt does not count.
Defer(h) ==
    LET row == RowOf(h) IN
    /\ At(h, "defer")
    /\ CatchUpdate(h, Unclaimed("queued", row.source,
                          IF row.attempt > 0 THEN row.attempt - 1 ELSE 0),
                      "release")

\* Slip: the message of a retried job is acknowledged.
RetryThenAck(h) ==
    /\ At(h, "retry")
    /\ CatchUpdate(h, Released(RowOf(h), "queued"), "ack")

\* retry: back to queued.
Retry(h) ==
    /\ At(h, "retry")
    /\ CatchUpdate(h, Released(RowOf(h), "queued"), "release")

\* The source of a job about to fail is deleted; an error is ignored.
PurgeSource(h) ==
    /\ At(h, "purge")
    /\ \/ temporary' = [temporary EXCEPT ![seen[h].source] = None]
       \/ "recovery" \in Faults /\ UNCHANGED temporary
    /\ Goto(h, "fail")
    /\ UNCHANGED <<tables, derived, requests, queue, locals>>

\* finish failed
Fail(h) ==
    /\ At(h, "fail")
    /\ CatchUpdate(h, Released(RowOf(h), "failed"), "ack")

\* message.ack
Ack(h) ==
    /\ At(h, "ack")
    /\ queue' = [queue EXCEPT ![msg[h]] = FreeSlot]
    /\ Done(h)
    /\ UNCHANGED <<tables, buckets, requests>>

\* message.retry, or the invocation rejected: the queue delivers it again.
Release(h) ==
    /\ At(h, "release")
    /\ Returned(msg[h])
    /\ Done(h)
    /\ UNCHANGED <<tables, buckets, requests>>

\* A call of the catch block throws before it had any effect.
CatchFails(h) ==
    /\ "recovery" \in Faults
    /\ pc[h] \in CatchPc \ {"purge"}
    /\ Goto(h, "release")
    /\ UNCHANGED <<tables, buckets, requests, queue, locals>>

\* The isolate is evicted: memory is gone, the row and the message stay.
Crash(h) ==
    /\ "crash" \in Faults
    /\ pc[h] # "idle"
    /\ Returned(msg[h])
    /\ Done(h)
    /\ UNCHANGED <<tables, buckets, requests>>

HandlerStep(h) ==
    \/ \E m \in Messages : Deliver(h, m)
    \/ Claim(h) \/ Unclaimable(h)
    \/ Progress(h) \/ LoadSource(h) \/ Parse(h) \/ StoreDerived(h)
    \/ RecordAnalysis(h) \/ IndexAnalysis(h)
    \/ DeleteSource(h) \/ ConfirmDeletion(h) \/ Succeed(h)
    \/ CallFails(h)
    \/ Catch(h) \/ Defer(h) \/ Retry(h) \/ PurgeSource(h) \/ Fail(h)
    \/ CatchFails(h)
    \/ Ack(h) \/ Release(h)
    \/ Crash(h)

-----------------------------------------------------------------------------
(* The platform *)

\* Ten minutes pass.  The owner is usually gone by then: the parser's own
\* limit is five minutes.
LeaseExpires(d) ==
    /\ job[d].lease = "live"
    /\ "overrun" \in Faults \/ pc[job[d].owner] = "idle"
    /\ job' = [job EXCEPT ![d].lease = "expired"]
    /\ UNCHANGED <<analysis, indexed, buckets, requests, queue, pc, locals>>

\* At-least-once delivery: a message in flight is delivered once more, which
\* counts as one of its deliveries.
Duplicate(m) ==
    LET again(status) == [status |-> status, demo |-> queue[m].demo,
                          deliveries |-> queue[m].deliveries + 1] IN
    /\ "duplicate" \in Faults
    /\ queue[m].status = "leased"
    /\ queue[m].deliveries < MaxRetries
    /\ \E n \in Messages :
         /\ queue[n].status = "free"
         /\ queue' = [queue EXCEPT ![m] = again("leased"), ![n] = again("ready")]
    /\ UNCHANGED <<tables, buckets, requests, pc, locals>>

\* The bucket's lifecycle rule deletes a source after 24 hours.
LifecycleExpires(u) ==
    /\ "lifecycle" \in Faults
    /\ temporary[u] # None
    /\ ClientAt(u, "idle")
    /\ temporary' = [temporary EXCEPT ![u] = None]
    /\ UNCHANGED <<tables, derived, requests, queue, pc, locals>>

Next ==
    \/ \E u \in Uploads : UploadStep(u) \/ LifecycleExpires(u)
    \/ \E h \in Handlers : HandlerStep(h)
    \/ \E d \in Demos : LeaseExpires(d)
    \/ \E m \in Messages : Duplicate(m)

Spec == Init /\ [][Next]_vars
-----------------------------------------------------------------------------
(* Safety *)

\* A job reported as succeeded has an accepted result, whose derived artifact
\* is stored and whose game and statistics are materialised: "A job may be
\* reported as successful only after ..." (the completion protocol), in every
\* order of crashes, lost leases and repeated deliveries.
SucceededIsComplete ==
    \A d \in Demos :
        job[d].state = "succeeded" =>
            /\ analysis[d] # None
            /\ <<d, analysis[d]>> \in derived
            /\ d \in indexed

\* The accepted result of a job is never replaced, although recordAnalysis is
\* not fenced by the lease and parsers of two builds may both finish.
AcceptedIsImmutable ==
    [][\A d \in Demos : analysis[d] # None => analysis'[d] = analysis[d]]_vars

\* A running job leaves its owner only by a step of that owner, or because
\* its lease ran out: an invocation that lost the lease cannot finish, retry or
\* defer the job of its successor.
OnlyTheOwnerReleases ==
    [][\A d \in Demos :
          job[d].state = "running" /\ job'[d].owner # job[d].owner =>
              job[d].lease = "expired" \/ pc'[job[d].owner] # pc[job[d].owner]]_vars

\* A message for demo d, wherever it is.
Carries(m, d) == queue[m].status # "free" /\ queue[m].demo = d

\* A job that is not terminal is still going to be worked on: the queue holds a
\* message for it (a dead-lettered one counts, an operator sees it), or the
\* upload request that queued it has yet to send one.
NoStrandedJob ==
    \A d \in Demos :
        job[d].state \in {"queued", "running"} =>
            \/ \E m \in Messages : Carries(m, d)
            \/ \E u \in Uploads : /\ client[u].demo = d
                                  /\ client[u].pc \in {"reread", "send"}

\* The source of a job is not deleted under the invocation that holds its live
\* lease and has yet to read it: neither by a duplicate upload of its demo nor
\* by an older upload or attempt that is still cleaning up.
SourceKeptForOwner ==
    [][\A h \in Handlers :
          /\ pc[h] \in {"load", "source"} /\ pc'[h] = pc[h]
          /\ Fenced(h) /\ RowOf(h).lease = "live"
          /\ temporary[seen[h].source] = demoOf(h)
          => temporary'[seen[h].source] = demoOf(h)]_vars

\* A job waiting in the queue has its source: no duplicate upload, failed
\* request or retried attempt deletes what the next attempt must read.
QueuedHasSource ==
    \A d \in Demos : job[d].state = "queued" => temporary[job[d].source] = d

-----------------------------------------------------------------------------
(* Refinement *)

Contract == INSTANCE HostedJobContract WITH
    state    <- [d \in Demos |-> job[d].state],
    accepted <- analysis

\* Every behaviour of the pipeline, with all its failures, is a life of a job as
\* the contract tells it: success is final and follows acceptance, a result is
\* accepted once, and only a failed job is queued again by an upload.
ImplementsContract == Contract!Spec

-----------------------------------------------------------------------------
(* Liveness *)

\* The steps a consumer takes when the platform lets it run.
HandlerWork(h) ==
    \/ Claim(h) \/ Unclaimable(h)
    \/ Progress(h) \/ LoadSource(h) \/ Parse(h) \/ StoreDerived(h)
    \/ RecordAnalysis(h) \/ IndexAnalysis(h)
    \/ DeleteSource(h) \/ ConfirmDeletion(h) \/ Succeed(h)
    \/ Catch(h) \/ Defer(h) \/ Retry(h) \/ PurgeSource(h) \/ Fail(h)
    \/ Ack(h) \/ Release(h)

UploadWork(u) ==
    \/ CheckStoredSize(u) \/ SelectJob(u) \/ InsertJob(u) \/ ReviveJob(u)
    \/ RereadJob(u) \/ DropDuplicate(u) \/ SendMessage(u)

\* A started request and a started invocation go on (their awaits settle: every
\* call has a limit), and the queue delivers what is ready.
Fairness ==
    /\ \A u \in Uploads : WF_vars(UploadWork(u))
    /\ \A h \in Handlers : WF_vars(HandlerWork(h))
    /\ \A m \in Messages : WF_vars(\E h \in Handlers : Deliver(h, m))

FairSpec == Spec /\ Fairness

Settled(d) ==
    \/ job[d].state \in {"succeeded", "failed"}
    \/ \E m \in Messages : queue[m].status = "dead" /\ queue[m].demo = d

\* A queued job eventually succeeds, fails, or has its message dead-lettered.
QueuedJobSettles ==
    \A d \in Demos : job[d].state = "queued" ~> Settled(d)
=============================================================================
