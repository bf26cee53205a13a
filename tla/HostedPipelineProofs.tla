------------------------- MODULE HostedPipelineProofs -------------------------
(***************************************************************************)
(* Proofs about the hosted pipeline for every set of demos, uploads,       *)
(* builds, messages and consumers and for every combination of failures:   *)
(* its inductive invariant; that it implements the contract of the job     *)
(* table, never replaces an accepted result, and only the owner of a live  *)
(* lease releases it; and that the source of a queued or leased job is not *)
(* deleted under it.                                                       *)
(***************************************************************************)
EXTENDS HostedPipeline, TLAPS

\* Every message names a demo whose job exists; so does every request that
\* saw its row.
MessagesNameJobs ==
    /\ \A m \in Messages :
          queue[m].status # "free" =>
              queue[m].demo \in Demos /\ job[queue[m].demo].state # "absent"
    /\ \A u \in Uploads :
          /\ client[u].pc # "idle" => client[u].demo \in Demos
          /\ client[u].pc \in {"revive", "reread", "send"} =>
                 job[client[u].demo].state # "absent"

\* A consumer at work leases one message that no other consumer leases.
LeasesAreExclusive ==
    \A h \in Handlers : pc[h] # "idle" =>
        /\ msg[h] \in Messages
        /\ queue[msg[h]].status = "leased"
        /\ \A g \in Handlers : pc[g] # "idle" /\ msg[g] = msg[h] => g = h

\* What a consumer has done by the time it reaches a step.
StepsAreOrdered ==
    /\ \A h \in Handlers :
          /\ pc[h] \in {"validate", "store", "commit", "record"} =>
                 built[h] \in Builds
          /\ pc[h] \in {"commit", "record"} =>
                 <<demoOf(h), built[h]>> \in derived
          /\ pc[h] \in {"index", "delete", "head", "finish"} =>
                 analysis[demoOf(h)] # None
          /\ pc[h] \in {"delete", "head", "finish"} => demoOf(h) \in indexed
    /\ \A d \in Demos :
          analysis[d] # None => <<d, analysis[d]>> \in derived

\* The inductive invariant.
IInv ==
    /\ HostedTypeOK
    /\ MessagesNameJobs
    /\ LeasesAreExclusive
    /\ StepsAreOrdered
    /\ SucceededIsComplete

LEMMA InitIInv == Init => IInv
BY HostedAssumption DEF Init, IInv, HostedTypeOK, MessagesNameJobs, Unclaimed,
   LeasesAreExclusive, StepsAreOrdered, SucceededIsComplete, NoRow, Row,
   JobState, ClientPc, HandlerPc, Seen, NotClaimed, Slot, FreeSlot, Failure,
   demoOf

\* What the first three parts of the invariant say of a consumer at work.
Working(h) ==
    /\ pc[h] # "idle"
    /\ msg[h] \in Messages
    /\ queue[msg[h]].status = "leased"
    /\ demoOf(h) \in Demos
    /\ RowOf(h) \in Row
    /\ RowOf(h).state # "absent"

LEMMA WorkingConsumer ==
  ASSUME IInv, NEW h \in Handlers, pc[h] # "idle"
  PROVE  Working(h)
BY DEF Working, IInv, HostedTypeOK, MessagesNameJobs, LeasesAreExclusive,
   demoOf, RowOf

\* The changes of state that the pipeline makes to the row of d.
Allowed(d, new) ==
    \/ job[d].state \in {"absent", "failed"} /\ new = "queued"
    \/ job[d].state = "queued" /\ new = "running"
    \/ job[d].state = "running" /\ new \in {"running", "queued", "failed"}
    \/ /\ job[d].state = "running" /\ new = "succeeded"
       /\ analysis[d] # None
       /\ <<d, analysis[d]>> \in derived
       /\ d \in indexed

RowStep(d) ==
    \/ UNCHANGED job
    \/ \E r \in Row : job' = [job EXCEPT ![d] = r] /\ Allowed(d, r.state)

LEMMA RowStepKeeps ==
  ASSUME IInv, NEW d \in Demos, RowStep(d),
         UNCHANGED <<analysis, indexed, derived>>
  PROVE  /\ job' \in [Demos -> Row]
         /\ \A e \in Demos :
               job[e].state # "absent" => job'[e].state # "absent"
         /\ SucceededIsComplete'
BY DEF IInv, HostedTypeOK, RowStep, Allowed, SucceededIsComplete

LEMMA UnclaimedRow ==
  ASSUME NEW state \in JobState, NEW source \in Uploads \cup {None},
         NEW attempt \in Nat
  PROVE  /\ Unclaimed(state, source, attempt) \in Row
         /\ Unclaimed(state, source, attempt).state = state
BY HostedAssumption DEF Unclaimed, Row

LEMMA ReleasedRow ==
  ASSUME NEW row \in Row, NEW state \in JobState
  PROVE  /\ Released(row, state) \in Row
         /\ Released(row, state).state = state
<1>1. row.source \in Uploads \cup {None} /\ row.attempt \in Nat
  BY DEF Row
<1> QED BY <1>1, UnclaimedRow DEF Released

LEMMA PutSourceStep ==
  ASSUME IInv, NEW u \in Uploads, NEW d \in Demos, PutSource(u, d)
  PROVE  IInv'
<1>1. HostedTypeOK'
  <2>1. puts' \in [Uploads -> Nat]
    BY DEF IInv, HostedTypeOK, PutSource, ClientAt
  <2>2. temporary' \in [Uploads -> Demos \cup {None}]
    BY HostedAssumption DEF IInv, HostedTypeOK, PutSource, ClientAt
  <2>3. client' \in [Uploads -> [pc : ClientPc, demo : Demos \cup {None}]]
    BY DEF IInv, HostedTypeOK, PutSource, ClientAt, ClientPc
  <2> QED
    BY <2>1, <2>2, <2>3 DEF IInv, HostedTypeOK, PutSource, tables, buckets,
       requests, locals
<1>2. LeasesAreExclusive' /\ StepsAreOrdered' /\ SucceededIsComplete'
  BY DEF IInv, LeasesAreExclusive, StepsAreOrdered, SucceededIsComplete,
     demoOf, PutSource, tables, buckets, requests, locals
<1>3. MessagesNameJobs'
  BY HostedAssumption DEF IInv, HostedTypeOK, MessagesNameJobs, demoOf,
     PutSource, ClientAt, buckets, requests, locals, tables
<1> QED BY <1>1, <1>2, <1>3 DEF IInv

LEMMA CheckStoredSizeStep ==
  ASSUME IInv, NEW u \in Uploads, CheckStoredSize(u)
  PROVE  IInv'
<1>1. HostedTypeOK'
  <2>1. client' \in [Uploads -> [pc : ClientPc, demo : Demos \cup {None}]]
    BY DEF IInv, HostedTypeOK, CheckStoredSize, ClientAt, ClientTo, ClientPc
  <2>2. temporary' \in [Uploads -> Demos \cup {None}]
    BY HostedAssumption DEF IInv, HostedTypeOK, CheckStoredSize, ClientAt,
       ClientTo
  <2> QED
    BY <2>1, <2>2 DEF IInv, HostedTypeOK, CheckStoredSize, tables, buckets,
       requests, locals
<1>2. LeasesAreExclusive' /\ StepsAreOrdered' /\ SucceededIsComplete'
  BY DEF IInv, LeasesAreExclusive, StepsAreOrdered, SucceededIsComplete,
     demoOf, CheckStoredSize, tables, buckets, requests, locals
<1>3. MessagesNameJobs'
  BY HostedAssumption DEF IInv, HostedTypeOK, MessagesNameJobs, demoOf,
     CheckStoredSize, ClientAt, ClientTo, buckets, requests, locals, tables
<1> QED BY <1>1, <1>2, <1>3 DEF IInv

LEMMA SelectJobStep ==
  ASSUME IInv, NEW u \in Uploads, SelectJob(u)
  PROVE  IInv'
<1>1. HostedTypeOK'
  <2>1. client' \in [Uploads -> [pc : ClientPc, demo : Demos \cup {None}]]
    BY DEF IInv, HostedTypeOK, SelectJob, ClientAt, ClientTo, ClientPc
  <2> QED
    BY <2>1 DEF IInv, HostedTypeOK, SelectJob, tables, buckets, requests,
       locals
<1>2. LeasesAreExclusive' /\ StepsAreOrdered' /\ SucceededIsComplete'
  BY DEF IInv, LeasesAreExclusive, StepsAreOrdered, SucceededIsComplete,
     demoOf, SelectJob, tables, buckets, requests, locals
<1>3. MessagesNameJobs'
  BY HostedAssumption DEF IInv, HostedTypeOK, MessagesNameJobs, demoOf,
     SelectJob, ClientAt, ClientTo, buckets, requests, locals, tables
<1> QED BY <1>1, <1>2, <1>3 DEF IInv

LEMMA InsertJobRow ==
  ASSUME IInv, NEW u \in Uploads, InsertJob(u)
  PROVE  RowStep(client[u].demo) /\ client[u].demo \in Demos
<1>1. client[u].demo \in Demos
  BY DEF IInv, MessagesNameJobs, InsertJob, ClientAt
<1>2. QueuedRow(u) \in Row /\ QueuedRow(u).state = "queued"
  BY UnclaimedRow DEF QueuedRow, JobState
<1> QED BY <1>1, <1>2 DEF InsertJob, RowStep, Allowed

LEMMA InsertJobStep ==
  ASSUME IInv, NEW u \in Uploads, InsertJob(u)
  PROVE  IInv'
<1>1. RowStep(client[u].demo) /\ client[u].demo \in Demos
  BY InsertJobRow
<1>2. /\ job' \in [Demos -> Row]
      /\ \A e \in Demos : job[e].state # "absent" => job'[e].state # "absent"
      /\ SucceededIsComplete'
  BY <1>1, RowStepKeeps DEF InsertJob, buckets
<1>3. HostedTypeOK'
  <2>1. client' \in [Uploads -> [pc : ClientPc, demo : Demos \cup {None}]]
    <3>1. ASSUME NEW at \in ClientPc, ClientTo(u, at)
          PROVE  client' \in [Uploads -> [pc : ClientPc, demo : Demos \cup {None}]]
      BY <3>1 DEF IInv, HostedTypeOK, ClientTo
    <3>2. ClientTo(u, "reread") \/ ClientTo(u, "idle")
      BY DEF InsertJob
    <3> QED BY <3>1, <3>2 DEF ClientPc
  <2> QED
    BY <1>2, <2>1 DEF IInv, HostedTypeOK, InsertJob, tables, buckets,
       requests, locals
<1>4. LeasesAreExclusive' /\ StepsAreOrdered'
  BY DEF IInv, LeasesAreExclusive, StepsAreOrdered, demoOf, InsertJob,
     tables, buckets, requests, locals
<1>5. MessagesNameJobs'
  <2>1. /\ queue' = queue
        /\ \A w \in Uploads :
              /\ client'[w].demo = client[w].demo
              /\ client'[w].pc # "idle" => client[w].pc # "idle"
              /\ w # u => client'[w].pc = client[w].pc
              /\ client'[u].pc \in {"idle", "reread"}
    BY DEF InsertJob, ClientAt, ClientTo, IInv, HostedTypeOK, ClientPc
  <2>2. client'[u].pc = "reread" => job'[client[u].demo].state # "absent"
    <3>1. QueuedRow(u).state = "queued"
      BY DEF QueuedRow, Unclaimed
    <3> QED BY <1>1, <3>1 DEF InsertJob, ClientAt, ClientTo, IInv, HostedTypeOK, MessagesNameJobs
  <2> QED BY <1>2, <2>1, <2>2 DEF IInv, MessagesNameJobs
<1> QED BY <1>2, <1>3, <1>4, <1>5 DEF IInv

LEMMA ReviveJobRow ==
  ASSUME IInv, NEW u \in Uploads, ReviveJob(u)
  PROVE  RowStep(client[u].demo) /\ client[u].demo \in Demos
<1>1. client[u].demo \in Demos
  BY DEF IInv, MessagesNameJobs, ReviveJob, ClientAt
<1>2. QueuedRow(u) \in Row /\ QueuedRow(u).state = "queued"
  BY UnclaimedRow DEF QueuedRow, JobState
<1> QED BY <1>1, <1>2 DEF ReviveJob, RowStep, Allowed

LEMMA ReviveJobStep ==
  ASSUME IInv, NEW u \in Uploads, ReviveJob(u)
  PROVE  IInv'
<1>1. RowStep(client[u].demo) /\ client[u].demo \in Demos
  BY ReviveJobRow
<1>2. /\ job' \in [Demos -> Row]
      /\ \A e \in Demos : job[e].state # "absent" => job'[e].state # "absent"
      /\ SucceededIsComplete'
  BY <1>1, RowStepKeeps DEF ReviveJob, buckets
<1>3. HostedTypeOK'
  <2>1. client' \in [Uploads -> [pc : ClientPc, demo : Demos \cup {None}]]
    BY DEF IInv, HostedTypeOK, ReviveJob, ClientAt, ClientTo, QueuedRow,
       ClientPc
  <2> QED
    BY <1>2, <2>1 DEF IInv, HostedTypeOK, ReviveJob, tables, buckets,
       requests, locals
<1>4. LeasesAreExclusive' /\ StepsAreOrdered'
  BY DEF IInv, LeasesAreExclusive, StepsAreOrdered, demoOf, ReviveJob,
     tables, buckets, requests, locals
<1>5. MessagesNameJobs'
  <2>1. /\ queue' = queue
        /\ \A w \in Uploads :
              /\ client'[w].demo = client[w].demo
              /\ client'[w].pc # "idle" => client[w].pc # "idle"
              /\ w # u => client'[w].pc = client[w].pc
              /\ client'[u].pc \in {"idle", "reread"}
    BY DEF ReviveJob, ClientAt, ClientTo, IInv, HostedTypeOK, ClientPc
  <2>2. client'[u].pc = "reread" => job'[client[u].demo].state # "absent"
    <3>1. QueuedRow(u).state = "queued"
      BY DEF QueuedRow, Unclaimed
    <3> QED BY <1>1, <3>1 DEF ReviveJob, ClientAt, ClientTo, IInv, HostedTypeOK, MessagesNameJobs
  <2> QED BY <1>2, <2>1, <2>2 DEF IInv, MessagesNameJobs
<1> QED BY <1>2, <1>3, <1>4, <1>5 DEF IInv

LEMMA RereadJobStep ==
  ASSUME IInv, NEW u \in Uploads, RereadJob(u)
  PROVE  IInv'
<1>1. HostedTypeOK'
  <2>1. client' \in [Uploads -> [pc : ClientPc, demo : Demos \cup {None}]]
    BY DEF IInv, HostedTypeOK, RereadJob, ClientAt, ClientTo, ClientPc
  <2> QED
    BY <2>1 DEF IInv, HostedTypeOK, RereadJob, tables, buckets, requests,
       locals
<1>2. LeasesAreExclusive' /\ StepsAreOrdered' /\ SucceededIsComplete'
  BY DEF IInv, LeasesAreExclusive, StepsAreOrdered, SucceededIsComplete,
     demoOf, RereadJob, tables, buckets, requests, locals
<1>3. MessagesNameJobs'
  BY HostedAssumption DEF IInv, HostedTypeOK, MessagesNameJobs, demoOf,
     RereadJob, ClientAt, ClientTo, buckets, requests, locals, tables
<1> QED BY <1>1, <1>2, <1>3 DEF IInv

LEMMA DropDuplicateStep ==
  ASSUME IInv, NEW u \in Uploads, DropDuplicate(u)
  PROVE  IInv'
<1>1. HostedTypeOK'
  <2>1. client' \in [Uploads -> [pc : ClientPc, demo : Demos \cup {None}]]
    BY DEF IInv, HostedTypeOK, DropDuplicate, ClientAt, ClientTo, ClientPc
  <2>2. temporary' \in [Uploads -> Demos \cup {None}]
    BY HostedAssumption DEF IInv, HostedTypeOK, DropDuplicate, ClientAt,
       ClientTo
  <2> QED
    BY <2>1, <2>2 DEF IInv, HostedTypeOK, DropDuplicate, tables, buckets,
       requests, locals
<1>2. LeasesAreExclusive' /\ StepsAreOrdered' /\ SucceededIsComplete'
  BY DEF IInv, LeasesAreExclusive, StepsAreOrdered, SucceededIsComplete,
     demoOf, DropDuplicate, tables, buckets, requests, locals
<1>3. MessagesNameJobs'
  BY HostedAssumption DEF IInv, HostedTypeOK, MessagesNameJobs, demoOf,
     DropDuplicate, ClientAt, ClientTo, buckets, requests, locals, tables
<1> QED BY <1>1, <1>2, <1>3 DEF IInv

LEMMA SendMessageStep ==
  ASSUME IInv, NEW u \in Uploads, SendMessage(u)
  PROVE  IInv'
<1>1. HostedTypeOK'
  <2>1. client' \in [Uploads -> [pc : ClientPc, demo : Demos \cup {None}]]
    BY DEF IInv, HostedTypeOK, SendMessage, ClientAt, ClientTo, Enqueued,
       ClientPc
  <2>2. queue' \in [Messages -> Slot]
    BY DEF IInv, HostedTypeOK, MessagesNameJobs, SendMessage, ClientAt,
       ClientTo, Enqueued, Slot
  <2> QED
    BY <2>1, <2>2 DEF IInv, HostedTypeOK, SendMessage, tables, buckets,
       requests, locals
<1>2. SucceededIsComplete'
  BY DEF IInv, SucceededIsComplete, SendMessage, tables, buckets, requests,
     locals
<1>3. MessagesNameJobs'
  BY HostedAssumption DEF IInv, HostedTypeOK, MessagesNameJobs, demoOf,
     SendMessage, ClientAt, ClientTo, Enqueued, buckets, requests, locals,
     tables, FreeSlot
<1>4. LeasesAreExclusive'
  BY HostedAssumption DEF IInv, HostedTypeOK, LeasesAreExclusive, demoOf,
     SendMessage, ClientAt, ClientTo, Enqueued, buckets, requests, locals,
     tables, FreeSlot
<1>5. StepsAreOrdered'
  BY HostedAssumption DEF IInv, HostedTypeOK, LeasesAreExclusive,
     StepsAreOrdered, demoOf, SendMessage, ClientAt, ClientTo, Enqueued,
     buckets, requests, locals, tables, FreeSlot
<1> QED BY <1>1, <1>2, <1>3, <1>4, <1>5 DEF IInv

LEMMA SendFailsStep ==
  ASSUME IInv, NEW u \in Uploads, SendFails(u)
  PROVE  IInv'
<1>1. HostedTypeOK'
  <2>1. client' \in [Uploads -> [pc : ClientPc, demo : Demos \cup {None}]]
    BY DEF IInv, HostedTypeOK, SendFails, ClientAt, ClientTo, Enqueued,
       ClientPc
  <2>2. temporary' \in [Uploads -> Demos \cup {None}]
    BY HostedAssumption DEF IInv, HostedTypeOK, SendFails, ClientAt,
       ClientTo, Enqueued
  <2>3. queue' \in [Messages -> Slot]
    <3>1. [status |-> "ready", demo |-> client[u].demo, deliveries |-> 0] \in Slot
      BY DEF IInv, MessagesNameJobs, SendFails, ClientAt, Slot
    <3> QED BY <3>1 DEF IInv, HostedTypeOK, SendFails, Enqueued
  <2> QED
    BY <2>1, <2>2, <2>3 DEF IInv, HostedTypeOK, SendFails, tables, buckets,
       requests, locals
<1>2. SucceededIsComplete'
  BY DEF IInv, SucceededIsComplete, SendFails, tables, buckets, requests,
     locals
<1>3. MessagesNameJobs'
  <2>1. CASE UNCHANGED queue
    BY <2>1 DEF IInv, HostedTypeOK, MessagesNameJobs, SendFails, ClientAt,
       ClientTo, tables
  <2>2. CASE \E m \in Messages : Enqueued(m, client[u].demo)
    BY <2>2 DEF IInv, HostedTypeOK, MessagesNameJobs, SendFails, ClientAt,
       ClientTo, Enqueued, tables
  <2> QED BY <2>1, <2>2 DEF SendFails
<1>4. LeasesAreExclusive'
  BY HostedAssumption DEF IInv, HostedTypeOK, LeasesAreExclusive, demoOf,
     SendFails, ClientAt, ClientTo, Enqueued, buckets, requests, locals,
     tables, FreeSlot
<1>5. StepsAreOrdered'
  BY HostedAssumption DEF IInv, HostedTypeOK, LeasesAreExclusive,
     StepsAreOrdered, demoOf, SendFails, ClientAt, ClientTo, Enqueued,
     buckets, requests, locals, tables, FreeSlot
<1> QED BY <1>1, <1>2, <1>3, <1>4, <1>5 DEF IInv

LEMMA UploadAbortsStep ==
  ASSUME IInv, NEW u \in Uploads, UploadAborts(u)
  PROVE  IInv'
<1>1. HostedTypeOK'
  <2>1. client' \in [Uploads -> [pc : ClientPc, demo : Demos \cup {None}]]
    BY DEF IInv, HostedTypeOK, UploadAborts, ClientAt, ClientTo, ClientPc
  <2> QED
    BY <2>1 DEF IInv, HostedTypeOK, UploadAborts, tables, buckets, requests,
       locals
<1>2. LeasesAreExclusive' /\ StepsAreOrdered' /\ SucceededIsComplete'
  BY DEF IInv, LeasesAreExclusive, StepsAreOrdered, SucceededIsComplete,
     demoOf, UploadAborts, tables, buckets, requests, locals
<1>3. MessagesNameJobs'
  BY HostedAssumption DEF IInv, HostedTypeOK, MessagesNameJobs, demoOf,
     UploadAborts, ClientAt, ClientTo, buckets, requests, locals, tables
<1> QED BY <1>1, <1>2, <1>3 DEF IInv

LEMMA LifecycleExpiresStep ==
  ASSUME IInv, NEW u \in Uploads, LifecycleExpires(u)
  PROVE  IInv'
<1>1. HostedTypeOK'
  <2>1. temporary' \in [Uploads -> Demos \cup {None}]
    BY HostedAssumption DEF IInv, HostedTypeOK, LifecycleExpires, ClientAt
  <2> QED
    BY <2>1 DEF IInv, HostedTypeOK, LifecycleExpires, tables, buckets,
       requests, locals
<1>2. MessagesNameJobs' /\ LeasesAreExclusive' /\ StepsAreOrdered' /\ SucceededIsComplete'
  BY DEF IInv, MessagesNameJobs, LeasesAreExclusive, StepsAreOrdered,
     SucceededIsComplete, demoOf, LifecycleExpires, tables, buckets,
     requests, locals
<1> QED BY <1>1, <1>2 DEF IInv

LEMMA DeliverStep ==
  ASSUME IInv, NEW h \in Handlers, NEW m \in Messages, Deliver(h, m)
  PROVE  IInv'
<1>1. HostedTypeOK'
  <2>1. queue' \in [Messages -> Slot]
    BY DEF IInv, HostedTypeOK, MessagesNameJobs, Deliver, At, Goto, Slot
  <2>2. msg' \in [Handlers -> Messages \cup {None}]
    BY HostedAssumption DEF IInv, HostedTypeOK, Deliver, At, Goto
  <2>3. pc' \in [Handlers -> HandlerPc]
    BY DEF IInv, HostedTypeOK, Deliver, At, Goto, HandlerPc, TryPc, CatchPc
  <2> QED
    BY <2>1, <2>2, <2>3 DEF IInv, HostedTypeOK, Deliver, tables, buckets,
       requests, locals
<1>2. SucceededIsComplete'
  BY DEF IInv, SucceededIsComplete, Deliver, tables, buckets, requests,
     locals
<1>3. MessagesNameJobs'
  BY HostedAssumption DEF IInv, HostedTypeOK, MessagesNameJobs, demoOf,
     Deliver, At, Goto, buckets, requests, locals, tables, FreeSlot
<1>4. LeasesAreExclusive'
  BY HostedAssumption DEF IInv, HostedTypeOK, LeasesAreExclusive, demoOf,
     Deliver, At, Goto, buckets, requests, locals, tables, FreeSlot
<1>5. StepsAreOrdered'
  BY HostedAssumption DEF IInv, HostedTypeOK, LeasesAreExclusive,
     StepsAreOrdered, demoOf, Deliver, At, Goto, buckets, requests, locals,
     tables, FreeSlot
<1> QED BY <1>1, <1>2, <1>3, <1>4, <1>5 DEF IInv

LEMMA ClaimRow ==
  ASSUME IInv, NEW h \in Handlers, Claim(h)
  PROVE  RowStep(demoOf(h)) /\ demoOf(h) \in Demos
<1>0. Working(h)
  BY WorkingConsumer DEF Claim, At
<1> DEFINE row == [state |-> "running", source |-> RowOf(h).source,
                   attempt |-> RowOf(h).attempt + 1,
                   owner |-> h, lease |-> "live"]
<1>1. row \in Row /\ row.state = "running"
  BY <1>0 DEF Working, Row, JobState
<1> QED BY <1>0, <1>1 DEF Claim, Claimable, RowOf, SetRow, RowStep, Allowed, Working

LEMMA ClaimStep ==
  ASSUME IInv, NEW h \in Handlers, Claim(h)
  PROVE  IInv'
<1>0. Working(h)
  BY WorkingConsumer DEF Claim, At
<1>1. RowStep(demoOf(h)) /\ demoOf(h) \in Demos
  BY ClaimRow
<1>2. /\ job' \in [Demos -> Row]
      /\ \A e \in Demos : job[e].state # "absent" => job'[e].state # "absent"
      /\ SucceededIsComplete'
  BY <1>1, RowStepKeeps DEF Claim, buckets
<1>3. HostedTypeOK'
  <2>1. pc' \in [Handlers -> HandlerPc]
    BY <1>0 DEF IInv, HostedTypeOK, Working, Claim, At, Goto, SetRow, RowOf,
       Claimable, Throw, NoThrow, HandlerPc, TryPc, CatchPc
  <2>2. seen' \in [Handlers -> Seen]
    <3>1. [source |-> RowOf(h).source, attempt |-> RowOf(h).attempt + 1] \in Seen
      BY <1>0 DEF Working, Row, Seen
    <3> QED BY <3>1 DEF IInv, HostedTypeOK, Claim
  <2>3. failure' \in [Handlers -> Failure]
    BY <1>0 DEF IInv, HostedTypeOK, Working, Claim, At, Goto, SetRow, RowOf,
       Claimable, Throw, NoThrow, Failure
  <2> QED
    BY <1>2, <2>1, <2>2, <2>3 DEF IInv, HostedTypeOK, Claim, tables, buckets,
       requests, locals
<1>4. MessagesNameJobs'
  BY <1>0, <1>2, HostedAssumption DEF IInv, HostedTypeOK, MessagesNameJobs,
     LeasesAreExclusive, Working, demoOf, Claim, buckets, requests, locals,
     tables
<1>5. LeasesAreExclusive'
  BY <1>0, HostedAssumption DEF IInv, HostedTypeOK, LeasesAreExclusive,
     Working, demoOf, Claim, At, Goto, SetRow, RowOf, Claimable, Throw,
     NoThrow, buckets, requests, locals, tables
<1>6. StepsAreOrdered'
  BY <1>0, HostedAssumption DEF IInv, HostedTypeOK, LeasesAreExclusive,
     StepsAreOrdered, Working, demoOf, Claim, At, Goto, SetRow, RowOf,
     Claimable, Throw, NoThrow, buckets, requests, locals, tables
<1> QED BY <1>2, <1>3, <1>4, <1>5, <1>6 DEF IInv

LEMMA UnclaimableStep ==
  ASSUME IInv, NEW h \in Handlers, Unclaimable(h)
  PROVE  IInv'
<1>0. Working(h)
  BY WorkingConsumer DEF Unclaimable, At
<1>1. HostedTypeOK'
  <2>1. pc' \in [Handlers -> HandlerPc]
    BY <1>0 DEF IInv, HostedTypeOK, Working, Unclaimable, At, Goto, Throw,
       NoThrow, HandlerPc, TryPc, CatchPc
  <2>2. failure' \in [Handlers -> Failure]
    BY <1>0 DEF IInv, HostedTypeOK, Working, Unclaimable, At, Goto, Throw,
       NoThrow, Failure
  <2> QED
    BY <2>1, <2>2 DEF IInv, HostedTypeOK, Unclaimable, tables, buckets,
       requests, locals
<1>2. MessagesNameJobs' /\ SucceededIsComplete'
  BY DEF IInv, MessagesNameJobs, SucceededIsComplete, Unclaimable, tables,
     buckets, requests, locals
<1>3. LeasesAreExclusive'
  BY <1>0, HostedAssumption DEF IInv, HostedTypeOK, LeasesAreExclusive,
     Working, demoOf, Unclaimable, At, Goto, Throw, NoThrow, buckets,
     requests, locals, tables
<1>4. StepsAreOrdered'
  BY <1>0, HostedAssumption DEF IInv, HostedTypeOK, LeasesAreExclusive,
     StepsAreOrdered, Working, demoOf, Unclaimable, At, Goto, Throw, NoThrow,
     buckets, requests, locals, tables
<1> QED BY <1>1, <1>2, <1>3, <1>4 DEF IInv

LEMMA ProgressStep ==
  ASSUME IInv, NEW h \in Handlers, Progress(h)
  PROVE  IInv'
<1>0. Working(h)
  BY WorkingConsumer DEF Progress, ProgressPc
<1>1. HostedTypeOK'
  <2>1. pc' \in [Handlers -> HandlerPc]
    BY <1>0 DEF IInv, HostedTypeOK, Working, Progress, ProgressPc,
       AfterProgress, Goto, Throw, NoThrow, HandlerPc, TryPc, CatchPc
  <2>2. failure' \in [Handlers -> Failure]
    BY <1>0 DEF IInv, HostedTypeOK, Working, Progress, ProgressPc,
       AfterProgress, Goto, Throw, NoThrow, Failure
  <2> QED
    BY <2>1, <2>2 DEF IInv, HostedTypeOK, Progress, tables, buckets,
       requests, locals
<1>2. MessagesNameJobs' /\ SucceededIsComplete'
  BY DEF IInv, MessagesNameJobs, SucceededIsComplete, Progress, tables,
     buckets, requests, locals
<1>3. LeasesAreExclusive'
  BY <1>0, HostedAssumption DEF IInv, HostedTypeOK, LeasesAreExclusive,
     Working, demoOf, Progress, ProgressPc, AfterProgress, Goto, Throw,
     NoThrow, buckets, requests, locals, tables
<1>4. StepsAreOrdered'
  BY <1>0, HostedAssumption DEF IInv, HostedTypeOK, LeasesAreExclusive,
     StepsAreOrdered, Working, demoOf, Progress, ProgressPc, AfterProgress,
     Goto, Throw, NoThrow, buckets, requests, locals, tables
<1> QED BY <1>1, <1>2, <1>3, <1>4 DEF IInv

LEMMA LoadSourceStep ==
  ASSUME IInv, NEW h \in Handlers, LoadSource(h)
  PROVE  IInv'
<1>0. Working(h)
  BY WorkingConsumer DEF LoadSource, At
<1>1. HostedTypeOK'
  <2>1. pc' \in [Handlers -> HandlerPc]
    BY <1>0 DEF IInv, HostedTypeOK, Working, LoadSource, At, Goto, Throw,
       NoThrow, HandlerPc, TryPc, CatchPc
  <2>2. failure' \in [Handlers -> Failure]
    BY <1>0 DEF IInv, HostedTypeOK, Working, LoadSource, At, Goto, Throw,
       NoThrow, Failure
  <2> QED
    BY <2>1, <2>2 DEF IInv, HostedTypeOK, LoadSource, tables, buckets,
       requests, locals
<1>2. MessagesNameJobs' /\ SucceededIsComplete'
  BY DEF IInv, MessagesNameJobs, SucceededIsComplete, LoadSource, tables,
     buckets, requests, locals
<1>3. LeasesAreExclusive'
  BY <1>0, HostedAssumption DEF IInv, HostedTypeOK, LeasesAreExclusive,
     Working, demoOf, LoadSource, At, Goto, Throw, NoThrow, buckets,
     requests, locals, tables
<1>4. StepsAreOrdered'
  BY <1>0, HostedAssumption DEF IInv, HostedTypeOK, LeasesAreExclusive,
     StepsAreOrdered, Working, demoOf, LoadSource, At, Goto, Throw, NoThrow,
     buckets, requests, locals, tables
<1> QED BY <1>1, <1>2, <1>3, <1>4 DEF IInv

LEMMA ParseStep ==
  ASSUME IInv, NEW h \in Handlers, Parse(h)
  PROVE  IInv'
<1>0. Working(h)
  BY WorkingConsumer DEF Parse, At
<1>1. HostedTypeOK'
  <2>1. pc' \in [Handlers -> HandlerPc]
    BY <1>0 DEF IInv, HostedTypeOK, Working, Parse, At, Goto, Throw, NoThrow,
       HandlerPc, TryPc, CatchPc
  <2>2. failure' \in [Handlers -> Failure]
    BY <1>0 DEF IInv, HostedTypeOK, Working, Parse, At, Goto, Throw, NoThrow,
       Failure
  <2>3. built' \in [Handlers -> Builds \cup {None}]
    BY <1>0, HostedAssumption DEF IInv, HostedTypeOK, Working, Parse, At,
       Goto, Throw, NoThrow
  <2> QED
    BY <2>1, <2>2, <2>3 DEF IInv, HostedTypeOK, Parse, tables, buckets,
       requests, locals
<1>2. MessagesNameJobs' /\ SucceededIsComplete'
  BY DEF IInv, MessagesNameJobs, SucceededIsComplete, Parse, tables, buckets,
     requests, locals
<1>3. LeasesAreExclusive'
  BY <1>0, HostedAssumption DEF IInv, HostedTypeOK, LeasesAreExclusive,
     Working, demoOf, Parse, At, Goto, Throw, NoThrow, buckets, requests,
     locals, tables
<1>4. StepsAreOrdered'
  BY <1>0, HostedAssumption DEF IInv, HostedTypeOK, LeasesAreExclusive,
     StepsAreOrdered, Working, demoOf, Parse, At, Goto, Throw, NoThrow,
     buckets, requests, locals, tables
<1> QED BY <1>1, <1>2, <1>3, <1>4 DEF IInv

LEMMA StoreDerivedStep ==
  ASSUME IInv, NEW h \in Handlers, StoreDerived(h)
  PROVE  IInv'
<1>0. Working(h)
  BY WorkingConsumer DEF StoreDerived, At
<1>1. HostedTypeOK'
  <2>1. derived' \in SUBSET (Demos \X Builds)
    <3>1. built[h] \in Builds
      BY DEF IInv, StepsAreOrdered, StoreDerived, At
    <3> QED BY <1>0, <3>1 DEF IInv, HostedTypeOK, StoreDerived, Working
  <2>2. pc' \in [Handlers -> HandlerPc]
    BY <1>0 DEF IInv, HostedTypeOK, Working, StoreDerived, ThenAudit, At,
       Goto, Throw, NoThrow, HandlerPc, TryPc, CatchPc
  <2>3. failure' \in [Handlers -> Failure]
    BY <1>0 DEF IInv, HostedTypeOK, Working, StoreDerived, ThenAudit, At,
       Goto, Throw, NoThrow, Failure
  <2> QED
    BY <2>1, <2>2, <2>3 DEF IInv, HostedTypeOK, StoreDerived, tables,
       buckets, requests, locals
<1>2. MessagesNameJobs'
  BY DEF IInv, MessagesNameJobs, StoreDerived, tables, buckets, requests,
     locals
<1>3. LeasesAreExclusive'
  BY <1>0, HostedAssumption DEF IInv, HostedTypeOK, LeasesAreExclusive,
     Working, demoOf, StoreDerived, ThenAudit, At, Goto, Throw, NoThrow,
     buckets, requests, locals, tables
<1>4. StepsAreOrdered'
  BY <1>0, HostedAssumption DEF IInv, HostedTypeOK, LeasesAreExclusive,
     StepsAreOrdered, Working, demoOf, StoreDerived, ThenAudit, At, Goto,
     Throw, NoThrow, buckets, requests, locals, tables
<1>5. SucceededIsComplete'
  BY <1>0, HostedAssumption DEF IInv, HostedTypeOK, StepsAreOrdered,
     SucceededIsComplete, Working, demoOf, StoreDerived, ThenAudit, At, Goto,
     Throw, NoThrow, buckets, requests, locals, tables
<1> QED BY <1>1, <1>2, <1>3, <1>4, <1>5 DEF IInv

LEMMA RecordAnalysisStep ==
  ASSUME IInv, NEW h \in Handlers, RecordAnalysis(h)
  PROVE  IInv'
<1>0. Working(h)
  BY WorkingConsumer DEF RecordAnalysis, At
<1>1. HostedTypeOK'
  <2>1. analysis' \in [Demos -> Builds \cup {None}]
    BY <1>0, HostedAssumption DEF IInv, HostedTypeOK, Working,
       RecordAnalysis, Upserted, ThenAudit, At, Goto, Throw, NoThrow,
       StepsAreOrdered
  <2>2. pc' \in [Handlers -> HandlerPc]
    BY <1>0 DEF IInv, HostedTypeOK, Working, RecordAnalysis, Upserted,
       ThenAudit, At, Goto, Throw, NoThrow, HandlerPc, TryPc, CatchPc,
       StepsAreOrdered
  <2>3. failure' \in [Handlers -> Failure]
    BY <1>0 DEF IInv, HostedTypeOK, Working, RecordAnalysis, Upserted,
       ThenAudit, At, Goto, Throw, NoThrow, Failure, StepsAreOrdered
  <2> QED
    BY <2>1, <2>2, <2>3 DEF IInv, HostedTypeOK, RecordAnalysis, tables,
       buckets, requests, locals
<1>2. MessagesNameJobs'
  BY DEF IInv, MessagesNameJobs, RecordAnalysis, tables, buckets, requests,
     locals
<1>3. LeasesAreExclusive'
  BY <1>0, HostedAssumption DEF IInv, HostedTypeOK, LeasesAreExclusive,
     Working, demoOf, RecordAnalysis, Upserted, ThenAudit, At, Goto, Throw,
     NoThrow, buckets, requests, locals, tables
<1>4. StepsAreOrdered'
  BY <1>0, HostedAssumption DEF IInv, HostedTypeOK, LeasesAreExclusive,
     StepsAreOrdered, Working, demoOf, RecordAnalysis, Upserted, ThenAudit,
     At, Goto, Throw, NoThrow, buckets, requests, locals, tables
<1>5. SucceededIsComplete'
  BY <1>0, HostedAssumption DEF IInv, HostedTypeOK, StepsAreOrdered,
     SucceededIsComplete, Working, demoOf, RecordAnalysis, Upserted,
     ThenAudit, At, Goto, Throw, NoThrow, buckets, requests, locals, tables
<1> QED BY <1>1, <1>2, <1>3, <1>4, <1>5 DEF IInv

LEMMA IndexAnalysisStep ==
  ASSUME IInv, NEW h \in Handlers, IndexAnalysis(h)
  PROVE  IInv'
<1>0. Working(h)
  BY WorkingConsumer DEF IndexAnalysis, At
<1>1. HostedTypeOK'
  <2>1. indexed' \in SUBSET Demos
    BY <1>0 DEF IInv, HostedTypeOK, Working, IndexAnalysis, ThenAudit, At,
       Goto, Throw, NoThrow
  <2>2. pc' \in [Handlers -> HandlerPc]
    BY <1>0 DEF IInv, HostedTypeOK, Working, IndexAnalysis, ThenAudit, At,
       Goto, Throw, NoThrow, HandlerPc, TryPc, CatchPc
  <2>3. failure' \in [Handlers -> Failure]
    BY <1>0 DEF IInv, HostedTypeOK, Working, IndexAnalysis, ThenAudit, At,
       Goto, Throw, NoThrow, Failure
  <2> QED
    BY <2>1, <2>2, <2>3 DEF IInv, HostedTypeOK, IndexAnalysis, tables,
       buckets, requests, locals
<1>2. MessagesNameJobs'
  BY DEF IInv, MessagesNameJobs, IndexAnalysis, tables, buckets, requests,
     locals
<1>3. LeasesAreExclusive'
  BY <1>0, HostedAssumption DEF IInv, HostedTypeOK, LeasesAreExclusive,
     Working, demoOf, IndexAnalysis, ThenAudit, At, Goto, Throw, NoThrow,
     buckets, requests, locals, tables
<1>4. StepsAreOrdered'
  BY <1>0, HostedAssumption DEF IInv, HostedTypeOK, LeasesAreExclusive,
     StepsAreOrdered, Working, demoOf, IndexAnalysis, ThenAudit, At, Goto,
     Throw, NoThrow, buckets, requests, locals, tables
<1>5. SucceededIsComplete'
  BY <1>0, HostedAssumption DEF IInv, HostedTypeOK, StepsAreOrdered,
     SucceededIsComplete, Working, demoOf, IndexAnalysis, ThenAudit, At,
     Goto, Throw, NoThrow, buckets, requests, locals, tables
<1> QED BY <1>1, <1>2, <1>3, <1>4, <1>5 DEF IInv

LEMMA DeleteSourceStep ==
  ASSUME IInv, NEW h \in Handlers, DeleteSource(h)
  PROVE  IInv'
<1>0. Working(h)
  BY WorkingConsumer DEF DeleteSource, At
<1>1. HostedTypeOK'
  <2>1. temporary' \in [Uploads -> Demos \cup {None}]
    BY <1>0, HostedAssumption DEF IInv, HostedTypeOK, Working, DeleteSource,
       ThenAudit, At, Goto, Throw, NoThrow
  <2>2. pc' \in [Handlers -> HandlerPc]
    BY <1>0 DEF IInv, HostedTypeOK, Working, DeleteSource, ThenAudit, At,
       Goto, Throw, NoThrow, HandlerPc, TryPc, CatchPc
  <2>3. failure' \in [Handlers -> Failure]
    BY <1>0 DEF IInv, HostedTypeOK, Working, DeleteSource, ThenAudit, At,
       Goto, Throw, NoThrow, Failure
  <2> QED
    BY <2>1, <2>2, <2>3 DEF IInv, HostedTypeOK, DeleteSource, tables,
       buckets, requests, locals
<1>2. MessagesNameJobs' /\ SucceededIsComplete'
  BY DEF IInv, MessagesNameJobs, SucceededIsComplete, DeleteSource, tables,
     buckets, requests, locals
<1>3. LeasesAreExclusive'
  BY <1>0, HostedAssumption DEF IInv, HostedTypeOK, LeasesAreExclusive,
     Working, demoOf, DeleteSource, ThenAudit, At, Goto, Throw, NoThrow,
     buckets, requests, locals, tables
<1>4. StepsAreOrdered'
  BY <1>0, HostedAssumption DEF IInv, HostedTypeOK, LeasesAreExclusive,
     StepsAreOrdered, Working, demoOf, DeleteSource, ThenAudit, At, Goto,
     Throw, NoThrow, buckets, requests, locals, tables
<1> QED BY <1>1, <1>2, <1>3, <1>4 DEF IInv

LEMMA ConfirmDeletionStep ==
  ASSUME IInv, NEW h \in Handlers, ConfirmDeletion(h)
  PROVE  IInv'
<1>0. Working(h)
  BY WorkingConsumer DEF ConfirmDeletion, At
<1>1. HostedTypeOK'
  <2>1. pc' \in [Handlers -> HandlerPc]
    BY <1>0 DEF IInv, HostedTypeOK, Working, ConfirmDeletion, At, Goto,
       Throw, NoThrow, HandlerPc, TryPc, CatchPc
  <2>2. failure' \in [Handlers -> Failure]
    BY <1>0 DEF IInv, HostedTypeOK, Working, ConfirmDeletion, At, Goto,
       Throw, NoThrow, Failure
  <2> QED
    BY <2>1, <2>2 DEF IInv, HostedTypeOK, ConfirmDeletion, tables, buckets,
       requests, locals
<1>2. MessagesNameJobs' /\ SucceededIsComplete'
  BY DEF IInv, MessagesNameJobs, SucceededIsComplete, ConfirmDeletion,
     tables, buckets, requests, locals
<1>3. LeasesAreExclusive'
  BY <1>0, HostedAssumption DEF IInv, HostedTypeOK, LeasesAreExclusive,
     Working, demoOf, ConfirmDeletion, At, Goto, Throw, NoThrow, buckets,
     requests, locals, tables
<1>4. StepsAreOrdered'
  BY <1>0, HostedAssumption DEF IInv, HostedTypeOK, LeasesAreExclusive,
     StepsAreOrdered, Working, demoOf, ConfirmDeletion, At, Goto, Throw,
     NoThrow, buckets, requests, locals, tables
<1> QED BY <1>1, <1>2, <1>3, <1>4 DEF IInv

LEMMA SucceedRow ==
  ASSUME IInv, NEW h \in Handlers, Succeed(h)
  PROVE  RowStep(demoOf(h)) /\ demoOf(h) \in Demos
<1>0. Working(h)
  BY WorkingConsumer DEF Succeed, At
<1>1. /\ Released(RowOf(h), "succeeded") \in Row
      /\ Released(RowOf(h), "succeeded").state = "succeeded"
  BY <1>0, ReleasedRow DEF Working, JobState
<1>2. /\ analysis[demoOf(h)] # None
      /\ <<demoOf(h), analysis[demoOf(h)]>> \in derived
      /\ demoOf(h) \in indexed
  BY <1>0 DEF Succeed, At, IInv, StepsAreOrdered, Working
<1> QED BY <1>0, <1>1, <1>2 DEF Succeed, Fenced, RowOf, SetRow, RowStep, Allowed, Working

LEMMA SucceedStep ==
  ASSUME IInv, NEW h \in Handlers, Succeed(h)
  PROVE  IInv'
<1>0. Working(h)
  BY WorkingConsumer DEF Succeed, At
<1>1. RowStep(demoOf(h)) /\ demoOf(h) \in Demos
  BY SucceedRow
<1>2. /\ job' \in [Demos -> Row]
      /\ \A e \in Demos : job[e].state # "absent" => job'[e].state # "absent"
      /\ SucceededIsComplete'
  BY <1>1, RowStepKeeps DEF Succeed, buckets
<1>3. HostedTypeOK'
  <2>1. pc' \in [Handlers -> HandlerPc]
    BY <1>0 DEF IInv, HostedTypeOK, Working, Succeed, Fenced, RowOf, SetRow,
       Released, Unclaimed, ThenAudit, At, Goto, Throw, NoThrow, HandlerPc,
       TryPc, CatchPc
  <2>2. failure' \in [Handlers -> Failure]
    BY <1>0 DEF IInv, HostedTypeOK, Working, Succeed, Fenced, RowOf, SetRow,
       Released, Unclaimed, ThenAudit, At, Goto, Throw, NoThrow, Failure
  <2> QED
    BY <1>2, <2>1, <2>2 DEF IInv, HostedTypeOK, Succeed, tables, buckets,
       requests, locals
<1>4. MessagesNameJobs'
  BY <1>0, <1>2, HostedAssumption DEF IInv, HostedTypeOK, MessagesNameJobs,
     LeasesAreExclusive, Working, demoOf, Succeed, buckets, requests, locals,
     tables
<1>5. LeasesAreExclusive'
  BY <1>0, HostedAssumption DEF IInv, HostedTypeOK, LeasesAreExclusive,
     Working, demoOf, Succeed, Fenced, RowOf, SetRow, Released, Unclaimed,
     ThenAudit, At, Goto, Throw, NoThrow, buckets, requests, locals, tables
<1>6. StepsAreOrdered'
  BY <1>0, HostedAssumption DEF IInv, HostedTypeOK, LeasesAreExclusive,
     StepsAreOrdered, Working, demoOf, Succeed, Fenced, RowOf, SetRow,
     Released, Unclaimed, ThenAudit, At, Goto, Throw, NoThrow, buckets,
     requests, locals, tables
<1> QED BY <1>2, <1>3, <1>4, <1>5, <1>6 DEF IInv

LEMMA CallFailsStep ==
  ASSUME IInv, NEW h \in Handlers, CallFails(h)
  PROVE  IInv'
<1>0. Working(h)
  BY WorkingConsumer DEF CallFails, TryPc
<1>1. HostedTypeOK'
  <2>1. pc' \in [Handlers -> HandlerPc]
    BY <1>0 DEF IInv, HostedTypeOK, Working, CallFails, Goto, Throw,
       HandlerPc, TryPc, CatchPc
  <2>2. failure' \in [Handlers -> Failure]
    BY <1>0 DEF IInv, HostedTypeOK, Working, CallFails, Goto, Throw, Failure
  <2> QED
    BY <2>1, <2>2 DEF IInv, HostedTypeOK, CallFails, tables, buckets,
       requests, locals
<1>2. MessagesNameJobs' /\ SucceededIsComplete'
  BY DEF IInv, MessagesNameJobs, SucceededIsComplete, CallFails, tables,
     buckets, requests, locals
<1>3. LeasesAreExclusive'
  BY <1>0, HostedAssumption DEF IInv, HostedTypeOK, LeasesAreExclusive,
     Working, demoOf, CallFails, Goto, Throw, buckets, requests, locals,
     tables
<1>4. StepsAreOrdered'
  BY <1>0, HostedAssumption DEF IInv, HostedTypeOK, LeasesAreExclusive,
     StepsAreOrdered, Working, demoOf, CallFails, Goto, Throw, buckets,
     requests, locals, tables
<1> QED BY <1>1, <1>2, <1>3, <1>4 DEF IInv

LEMMA CatchStep ==
  ASSUME IInv, NEW h \in Handlers, Catch(h)
  PROVE  IInv'
<1>0. Working(h)
  BY WorkingConsumer DEF Catch, At
<1>1. HostedTypeOK'
  <2>1. pc' \in [Handlers -> HandlerPc]
    BY <1>0 DEF IInv, HostedTypeOK, Working, Catch, Verdict, At, Goto, RowOf,
       HandlerPc, TryPc, CatchPc
  <2>2. seen' \in [Handlers -> Seen]
    <3>1. [source |-> RowOf(h).source, attempt |-> RowOf(h).attempt] \in Seen
      BY <1>0 DEF Working, Row, Seen
    <3> QED BY <3>1 DEF IInv, HostedTypeOK, Catch
  <2> QED
    BY <2>1, <2>2 DEF IInv, HostedTypeOK, Catch, tables, buckets, requests,
       locals
<1>2. MessagesNameJobs' /\ SucceededIsComplete'
  BY DEF IInv, MessagesNameJobs, SucceededIsComplete, Catch, tables, buckets,
     requests, locals
<1>3. LeasesAreExclusive'
  BY <1>0, HostedAssumption DEF IInv, HostedTypeOK, LeasesAreExclusive,
     Working, demoOf, Catch, Verdict, At, Goto, RowOf, buckets, requests,
     locals, tables
<1>4. StepsAreOrdered'
  BY <1>0, HostedAssumption DEF IInv, HostedTypeOK, LeasesAreExclusive,
     StepsAreOrdered, Working, demoOf, Catch, Verdict, At, Goto, RowOf,
     buckets, requests, locals, tables
<1> QED BY <1>1, <1>2, <1>3, <1>4 DEF IInv

LEMMA DeferRow ==
  ASSUME IInv, NEW h \in Handlers, Defer(h)
  PROVE  RowStep(demoOf(h)) /\ demoOf(h) \in Demos
<1>0. Working(h)
  BY WorkingConsumer DEF Defer, At
<1> DEFINE attempt == IF RowOf(h).attempt > 0
                      THEN RowOf(h).attempt - 1 ELSE 0
           row == Unclaimed("queued", RowOf(h).source, attempt)
<1>1. attempt \in Nat
  BY <1>0 DEF Working, Row
<1>2. row \in Row /\ row.state = "queued"
  <2>1. RowOf(h).source \in Uploads \cup {None}
    BY <1>0 DEF Working, Row
  <2> QED BY <1>1, <2>1, UnclaimedRow DEF JobState
<1> QED BY <1>0, <1>2 DEF Defer, CatchUpdate, Fenced, RowOf, SetRow, RowStep, Allowed, Working

LEMMA DeferStep ==
  ASSUME IInv, NEW h \in Handlers, Defer(h)
  PROVE  IInv'
<1>0. Working(h)
  BY WorkingConsumer DEF Defer, At
<1>1. RowStep(demoOf(h)) /\ demoOf(h) \in Demos
  BY DeferRow
<1>2. /\ job' \in [Demos -> Row]
      /\ \A e \in Demos : job[e].state # "absent" => job'[e].state # "absent"
      /\ SucceededIsComplete'
  BY <1>1, RowStepKeeps DEF Defer, CatchUpdate, buckets
<1>3. HostedTypeOK'
  <2>1. pc' \in [Handlers -> HandlerPc]
    BY <1>0 DEF IInv, HostedTypeOK, Working, Defer, CatchUpdate, At, Goto,
       Fenced, RowOf, SetRow, Released, Unclaimed, HandlerPc, TryPc, CatchPc
  <2> QED
    BY <1>2, <2>1 DEF IInv, HostedTypeOK, Defer, CatchUpdate, tables,
       buckets, requests, locals
<1>4. MessagesNameJobs'
  BY <1>0, <1>2, HostedAssumption DEF IInv, HostedTypeOK, MessagesNameJobs,
     LeasesAreExclusive, Working, demoOf, Defer, CatchUpdate, buckets,
     requests, locals, tables
<1>5. LeasesAreExclusive'
  BY <1>0, HostedAssumption DEF IInv, HostedTypeOK, LeasesAreExclusive,
     Working, demoOf, Defer, CatchUpdate, At, Goto, Fenced, RowOf, SetRow,
     Released, Unclaimed, buckets, requests, locals, tables
<1>6. StepsAreOrdered'
  BY <1>0, HostedAssumption DEF IInv, HostedTypeOK, LeasesAreExclusive,
     StepsAreOrdered, Working, demoOf, Defer, CatchUpdate, At, Goto, Fenced,
     RowOf, SetRow, Released, Unclaimed, buckets, requests, locals, tables
<1> QED BY <1>2, <1>3, <1>4, <1>5, <1>6 DEF IInv

LEMMA RetryRow ==
  ASSUME IInv, NEW h \in Handlers, Retry(h)
  PROVE  RowStep(demoOf(h)) /\ demoOf(h) \in Demos
<1>0. Working(h)
  BY WorkingConsumer DEF Retry, At
<1>1. /\ Released(RowOf(h), "queued") \in Row
      /\ Released(RowOf(h), "queued").state = "queued"
  BY <1>0, ReleasedRow DEF Working, JobState
<1> QED BY <1>0, <1>1 DEF Retry, CatchUpdate, Fenced, RowOf, SetRow, RowStep, Allowed, Working

LEMMA RetryStep ==
  ASSUME IInv, NEW h \in Handlers, Retry(h)
  PROVE  IInv'
<1>0. Working(h)
  BY WorkingConsumer DEF Retry, At
<1>1. RowStep(demoOf(h)) /\ demoOf(h) \in Demos
  BY RetryRow
<1>2. /\ job' \in [Demos -> Row]
      /\ \A e \in Demos : job[e].state # "absent" => job'[e].state # "absent"
      /\ SucceededIsComplete'
  BY <1>1, RowStepKeeps DEF Retry, CatchUpdate, buckets
<1>3. HostedTypeOK'
  <2>1. pc' \in [Handlers -> HandlerPc]
    BY <1>0 DEF IInv, HostedTypeOK, Working, Retry, CatchUpdate, At, Goto,
       Fenced, RowOf, SetRow, Released, Unclaimed, HandlerPc, TryPc, CatchPc
  <2> QED
    BY <1>2, <2>1 DEF IInv, HostedTypeOK, Retry, CatchUpdate, tables,
       buckets, requests, locals
<1>4. MessagesNameJobs'
  BY <1>0, <1>2, HostedAssumption DEF IInv, HostedTypeOK, MessagesNameJobs,
     LeasesAreExclusive, Working, demoOf, Retry, CatchUpdate, buckets,
     requests, locals, tables
<1>5. LeasesAreExclusive'
  BY <1>0, HostedAssumption DEF IInv, HostedTypeOK, LeasesAreExclusive,
     Working, demoOf, Retry, CatchUpdate, At, Goto, Fenced, RowOf, SetRow,
     Released, Unclaimed, buckets, requests, locals, tables
<1>6. StepsAreOrdered'
  BY <1>0, HostedAssumption DEF IInv, HostedTypeOK, LeasesAreExclusive,
     StepsAreOrdered, Working, demoOf, Retry, CatchUpdate, At, Goto, Fenced,
     RowOf, SetRow, Released, Unclaimed, buckets, requests, locals, tables
<1> QED BY <1>2, <1>3, <1>4, <1>5, <1>6 DEF IInv

LEMMA PurgeSourceStep ==
  ASSUME IInv, NEW h \in Handlers, PurgeSource(h)
  PROVE  IInv'
<1>0. Working(h)
  BY WorkingConsumer DEF PurgeSource, At
<1>1. HostedTypeOK'
  <2>1. temporary' \in [Uploads -> Demos \cup {None}]
    BY <1>0, HostedAssumption DEF IInv, HostedTypeOK, Working, PurgeSource,
       At, Goto
  <2>2. pc' \in [Handlers -> HandlerPc]
    BY <1>0 DEF IInv, HostedTypeOK, Working, PurgeSource, At, Goto,
       HandlerPc, TryPc, CatchPc
  <2> QED
    BY <2>1, <2>2 DEF IInv, HostedTypeOK, PurgeSource, tables, buckets,
       requests, locals
<1>2. MessagesNameJobs' /\ SucceededIsComplete'
  BY DEF IInv, MessagesNameJobs, SucceededIsComplete, PurgeSource, tables,
     buckets, requests, locals
<1>3. LeasesAreExclusive'
  BY <1>0, HostedAssumption DEF IInv, HostedTypeOK, LeasesAreExclusive,
     Working, demoOf, PurgeSource, At, Goto, buckets, requests, locals,
     tables
<1>4. StepsAreOrdered'
  BY <1>0, HostedAssumption DEF IInv, HostedTypeOK, LeasesAreExclusive,
     StepsAreOrdered, Working, demoOf, PurgeSource, At, Goto, buckets,
     requests, locals, tables
<1> QED BY <1>1, <1>2, <1>3, <1>4 DEF IInv

LEMMA FailRow ==
  ASSUME IInv, NEW h \in Handlers, Fail(h)
  PROVE  RowStep(demoOf(h)) /\ demoOf(h) \in Demos
<1>0. Working(h)
  BY WorkingConsumer DEF Fail, At
<1>1. /\ Released(RowOf(h), "failed") \in Row
      /\ Released(RowOf(h), "failed").state = "failed"
  BY <1>0, ReleasedRow DEF Working, JobState
<1> QED BY <1>0, <1>1 DEF Fail, CatchUpdate, Fenced, RowOf, SetRow, RowStep, Allowed, Working

LEMMA FailStep ==
  ASSUME IInv, NEW h \in Handlers, Fail(h)
  PROVE  IInv'
<1>0. Working(h)
  BY WorkingConsumer DEF Fail, At
<1>1. RowStep(demoOf(h)) /\ demoOf(h) \in Demos
  BY FailRow
<1>2. /\ job' \in [Demos -> Row]
      /\ \A e \in Demos : job[e].state # "absent" => job'[e].state # "absent"
      /\ SucceededIsComplete'
  BY <1>1, RowStepKeeps DEF Fail, CatchUpdate, buckets
<1>3. HostedTypeOK'
  <2>1. pc' \in [Handlers -> HandlerPc]
    BY <1>0 DEF IInv, HostedTypeOK, Working, Fail, CatchUpdate, At, Goto,
       Fenced, RowOf, SetRow, Released, Unclaimed, HandlerPc, TryPc, CatchPc
  <2> QED
    BY <1>2, <2>1 DEF IInv, HostedTypeOK, Fail, CatchUpdate, tables, buckets,
       requests, locals
<1>4. MessagesNameJobs'
  BY <1>0, <1>2, HostedAssumption DEF IInv, HostedTypeOK, MessagesNameJobs,
     LeasesAreExclusive, Working, demoOf, Fail, CatchUpdate, buckets,
     requests, locals, tables
<1>5. LeasesAreExclusive'
  BY <1>0, HostedAssumption DEF IInv, HostedTypeOK, LeasesAreExclusive,
     Working, demoOf, Fail, CatchUpdate, At, Goto, Fenced, RowOf, SetRow,
     Released, Unclaimed, buckets, requests, locals, tables
<1>6. StepsAreOrdered'
  BY <1>0, HostedAssumption DEF IInv, HostedTypeOK, LeasesAreExclusive,
     StepsAreOrdered, Working, demoOf, Fail, CatchUpdate, At, Goto, Fenced,
     RowOf, SetRow, Released, Unclaimed, buckets, requests, locals, tables
<1> QED BY <1>2, <1>3, <1>4, <1>5, <1>6 DEF IInv

LEMMA CatchFailsStep ==
  ASSUME IInv, NEW h \in Handlers, CatchFails(h)
  PROVE  IInv'
<1>0. Working(h)
  BY WorkingConsumer DEF CatchFails, CatchPc
<1>1. HostedTypeOK'
  <2>1. pc' \in [Handlers -> HandlerPc]
    BY <1>0 DEF IInv, HostedTypeOK, Working, CatchFails, Goto, CatchPc,
       HandlerPc, TryPc
  <2> QED
    BY <2>1 DEF IInv, HostedTypeOK, CatchFails, tables, buckets, requests,
       locals
<1>2. MessagesNameJobs' /\ SucceededIsComplete'
  BY DEF IInv, MessagesNameJobs, SucceededIsComplete, CatchFails, tables,
     buckets, requests, locals
<1>3. LeasesAreExclusive'
  BY <1>0, HostedAssumption DEF IInv, HostedTypeOK, LeasesAreExclusive,
     Working, demoOf, CatchFails, Goto, CatchPc, buckets, requests, locals,
     tables
<1>4. StepsAreOrdered'
  BY <1>0, HostedAssumption DEF IInv, HostedTypeOK, LeasesAreExclusive,
     StepsAreOrdered, Working, demoOf, CatchFails, Goto, CatchPc, buckets,
     requests, locals, tables
<1> QED BY <1>1, <1>2, <1>3, <1>4 DEF IInv

LEMMA AckStep ==
  ASSUME IInv, NEW h \in Handlers, Ack(h)
  PROVE  IInv'
<1>0. Working(h)
  BY WorkingConsumer DEF Ack, At
<1>1. HostedTypeOK'
  <2>1. queue' \in [Messages -> Slot]
    BY <1>0 DEF IInv, HostedTypeOK, Working, MessagesNameJobs, Ack, Done, At,
       Goto, Slot, FreeSlot
  <2>2. pc' \in [Handlers -> HandlerPc]
    BY <1>0 DEF IInv, HostedTypeOK, Working, Ack, Done, At, Goto, HandlerPc,
       TryPc, CatchPc
  <2>3. msg' \in [Handlers -> Messages \cup {None}]
    BY <1>0, HostedAssumption DEF IInv, HostedTypeOK, Working, Ack, Done, At,
       Goto
  <2>4. seen' \in [Handlers -> Seen]
    BY <1>0 DEF IInv, HostedTypeOK, Working, Ack, Done, At, Goto, Seen,
       NotClaimed
  <2>5. built' \in [Handlers -> Builds \cup {None}]
    BY <1>0, HostedAssumption DEF IInv, HostedTypeOK, Working, Ack, Done, At,
       Goto
  <2>6. failure' \in [Handlers -> Failure]
    BY <1>0 DEF IInv, HostedTypeOK, Working, Ack, Done, At, Goto, Failure
  <2> QED
    BY <2>1, <2>2, <2>3, <2>4, <2>5, <2>6 DEF IInv, HostedTypeOK, Ack, Done,
       tables, buckets, requests, locals
<1>2. SucceededIsComplete'
  BY DEF IInv, SucceededIsComplete, Ack, tables, buckets, requests, locals
<1>3. MessagesNameJobs'
  BY <1>0, HostedAssumption DEF IInv, HostedTypeOK, MessagesNameJobs,
     LeasesAreExclusive, Working, demoOf, Ack, Done, At, Goto, buckets,
     requests, locals, tables, FreeSlot
<1>4. LeasesAreExclusive'
  BY <1>0, HostedAssumption DEF IInv, HostedTypeOK, LeasesAreExclusive,
     Working, demoOf, Ack, Done, At, Goto, buckets, requests, locals, tables,
     FreeSlot
<1>5. StepsAreOrdered'
  BY <1>0, HostedAssumption DEF IInv, HostedTypeOK, LeasesAreExclusive,
     StepsAreOrdered, Working, demoOf, Ack, Done, At, Goto, buckets,
     requests, locals, tables, FreeSlot
<1> QED BY <1>1, <1>2, <1>3, <1>4, <1>5 DEF IInv

LEMMA ReleaseStep ==
  ASSUME IInv, NEW h \in Handlers, Release(h)
  PROVE  IInv'
<1>0. Working(h)
  BY WorkingConsumer DEF Release, At
<1>1. HostedTypeOK'
  <2>1. queue' \in [Messages -> Slot]
    BY <1>0 DEF IInv, HostedTypeOK, Working, MessagesNameJobs, Release,
       Returned, Done, At, Goto, Slot
  <2>2. pc' \in [Handlers -> HandlerPc]
    BY <1>0 DEF IInv, HostedTypeOK, Working, Release, Returned, Done, At,
       Goto, HandlerPc, TryPc, CatchPc
  <2>3. msg' \in [Handlers -> Messages \cup {None}]
    BY <1>0, HostedAssumption DEF IInv, HostedTypeOK, Working, Release,
       Returned, Done, At, Goto
  <2>4. seen' \in [Handlers -> Seen]
    BY <1>0 DEF IInv, HostedTypeOK, Working, Release, Returned, Done, At,
       Goto, Seen, NotClaimed
  <2>5. built' \in [Handlers -> Builds \cup {None}]
    BY <1>0, HostedAssumption DEF IInv, HostedTypeOK, Working, Release,
       Returned, Done, At, Goto
  <2>6. failure' \in [Handlers -> Failure]
    BY <1>0 DEF IInv, HostedTypeOK, Working, Release, Returned, Done, At,
       Goto, Failure
  <2> QED
    BY <2>1, <2>2, <2>3, <2>4, <2>5, <2>6 DEF IInv, HostedTypeOK, Release,
       Done, tables, buckets, requests, locals
<1>2. SucceededIsComplete'
  BY DEF IInv, SucceededIsComplete, Release, tables, buckets, requests,
     locals
<1>3. MessagesNameJobs'
  BY <1>0, HostedAssumption DEF IInv, HostedTypeOK, MessagesNameJobs,
     LeasesAreExclusive, Working, demoOf, Release, Returned, Done, At, Goto,
     buckets, requests, locals, tables, FreeSlot
<1>4. LeasesAreExclusive'
  BY <1>0, HostedAssumption DEF IInv, HostedTypeOK, LeasesAreExclusive,
     Working, demoOf, Release, Returned, Done, At, Goto, buckets, requests,
     locals, tables, FreeSlot
<1>5. StepsAreOrdered'
  BY <1>0, HostedAssumption DEF IInv, HostedTypeOK, LeasesAreExclusive,
     StepsAreOrdered, Working, demoOf, Release, Returned, Done, At, Goto,
     buckets, requests, locals, tables, FreeSlot
<1> QED BY <1>1, <1>2, <1>3, <1>4, <1>5 DEF IInv

LEMMA CrashStep ==
  ASSUME IInv, NEW h \in Handlers, Crash(h)
  PROVE  IInv'
<1>0. Working(h)
  BY WorkingConsumer DEF Crash
<1>1. HostedTypeOK'
  <2>1. queue' \in [Messages -> Slot]
    BY <1>0 DEF IInv, HostedTypeOK, Working, MessagesNameJobs, Crash,
       Returned, Done, Goto, Slot
  <2>2. pc' \in [Handlers -> HandlerPc]
    BY <1>0 DEF IInv, HostedTypeOK, Working, Crash, Returned, Done, Goto,
       HandlerPc, TryPc, CatchPc
  <2>3. msg' \in [Handlers -> Messages \cup {None}]
    BY <1>0, HostedAssumption DEF IInv, HostedTypeOK, Working, Crash,
       Returned, Done, Goto
  <2>4. seen' \in [Handlers -> Seen]
    BY <1>0 DEF IInv, HostedTypeOK, Working, Crash, Returned, Done, Goto,
       Seen, NotClaimed
  <2>5. built' \in [Handlers -> Builds \cup {None}]
    BY <1>0, HostedAssumption DEF IInv, HostedTypeOK, Working, Crash,
       Returned, Done, Goto
  <2>6. failure' \in [Handlers -> Failure]
    BY <1>0 DEF IInv, HostedTypeOK, Working, Crash, Returned, Done, Goto,
       Failure
  <2> QED
    BY <2>1, <2>2, <2>3, <2>4, <2>5, <2>6 DEF IInv, HostedTypeOK, Crash,
       Done, tables, buckets, requests, locals
<1>2. SucceededIsComplete'
  BY DEF IInv, SucceededIsComplete, Crash, tables, buckets, requests, locals
<1>3. MessagesNameJobs'
  BY <1>0, HostedAssumption DEF IInv, HostedTypeOK, MessagesNameJobs,
     LeasesAreExclusive, Working, demoOf, Crash, Returned, Done, Goto,
     buckets, requests, locals, tables, FreeSlot
<1>4. LeasesAreExclusive'
  BY <1>0, HostedAssumption DEF IInv, HostedTypeOK, LeasesAreExclusive,
     Working, demoOf, Crash, Returned, Done, Goto, buckets, requests, locals,
     tables, FreeSlot
<1>5. StepsAreOrdered'
  BY <1>0, HostedAssumption DEF IInv, HostedTypeOK, LeasesAreExclusive,
     StepsAreOrdered, Working, demoOf, Crash, Returned, Done, Goto, buckets,
     requests, locals, tables, FreeSlot
<1> QED BY <1>1, <1>2, <1>3, <1>4, <1>5 DEF IInv

LEMMA LeaseExpiresStep ==
  ASSUME IInv, NEW d \in Demos, LeaseExpires(d)
  PROVE  IInv'
<1>1. HostedTypeOK'
  <2>1. job' \in [Demos -> Row]
    <3>1. [job[d] EXCEPT !.lease = "expired"] \in Row
      BY DEF IInv, HostedTypeOK, Row
    <3> QED BY <3>1 DEF IInv, HostedTypeOK, LeaseExpires
  <2> QED
    BY <2>1 DEF IInv, HostedTypeOK, LeaseExpires, tables, buckets, requests,
       locals
<1>2. LeasesAreExclusive' /\ StepsAreOrdered'
  BY DEF IInv, LeasesAreExclusive, StepsAreOrdered, demoOf, LeaseExpires,
     tables, buckets, requests, locals
<1>3. MessagesNameJobs'
  BY HostedAssumption DEF IInv, HostedTypeOK, MessagesNameJobs, demoOf,
     LeaseExpires, buckets, requests, locals, tables
<1>4. SucceededIsComplete'
  BY HostedAssumption DEF IInv, HostedTypeOK, StepsAreOrdered,
     SucceededIsComplete, demoOf, LeaseExpires, buckets, requests, locals,
     tables
<1> QED BY <1>1, <1>2, <1>3, <1>4 DEF IInv

LEMMA DuplicateStep ==
  ASSUME IInv, NEW m \in Messages, Duplicate(m)
  PROVE  IInv'
<1>1. HostedTypeOK'
  <2>1. queue' \in [Messages -> Slot]
    <3> DEFINE again(status) == [status |-> status, demo |-> queue[m].demo,
                                 deliveries |-> queue[m].deliveries + 1]
    <3>1. again("leased") \in Slot /\ again("ready") \in Slot
      <4>1. queue[m] \in Slot
        BY DEF IInv, HostedTypeOK
      <4> QED BY <4>1 DEF Slot
    <3>2. PICK n \in Messages :
             queue' = [queue EXCEPT ![m] = again("leased"),
                                    ![n] = again("ready")]
      BY DEF Duplicate
    <3> HIDE DEF again
    <3> QED BY <3>1, <3>2 DEF IInv, HostedTypeOK
  <2> QED
    BY <2>1 DEF IInv, HostedTypeOK, Duplicate, tables, buckets, requests,
       locals
<1>2. SucceededIsComplete'
  BY DEF IInv, SucceededIsComplete, Duplicate, tables, buckets, requests,
     locals
<1>3. MessagesNameJobs'
  BY HostedAssumption DEF IInv, HostedTypeOK, MessagesNameJobs, demoOf,
     Duplicate, buckets, requests, locals, tables, FreeSlot
<1>4. LeasesAreExclusive'
  BY HostedAssumption DEF IInv, HostedTypeOK, LeasesAreExclusive, demoOf,
     Duplicate, buckets, requests, locals, tables, FreeSlot
<1>5. StepsAreOrdered'
  BY HostedAssumption DEF IInv, HostedTypeOK, LeasesAreExclusive,
     StepsAreOrdered, demoOf, Duplicate, buckets, requests, locals, tables,
     FreeSlot
<1> QED BY <1>1, <1>2, <1>3, <1>4, <1>5 DEF IInv

LEMMA NextIInv == IInv /\ [Next]_vars => IInv'
<1> SUFFICES ASSUME IInv, [Next]_vars PROVE IInv'
  OBVIOUS
<1>1. CASE UNCHANGED vars
  BY <1>1 DEF vars, tables, buckets, requests, locals, IInv, HostedTypeOK,
     MessagesNameJobs, LeasesAreExclusive, StepsAreOrdered,
     SucceededIsComplete, demoOf
<1>2. ASSUME NEW u \in Uploads, UploadStep(u) \/ LifecycleExpires(u)
      PROVE  IInv'
  BY <1>2, PutSourceStep, CheckStoredSizeStep, SelectJobStep, InsertJobStep,
     ReviveJobStep, RereadJobStep, DropDuplicateStep, SendMessageStep,
     SendFailsStep, UploadAbortsStep, LifecycleExpiresStep DEF UploadStep
<1>3. ASSUME NEW h \in Handlers, HandlerStep(h)
      PROVE  IInv'
  BY <1>3, DeliverStep, ClaimStep, UnclaimableStep, ProgressStep,
     LoadSourceStep, ParseStep, StoreDerivedStep, RecordAnalysisStep,
     IndexAnalysisStep, DeleteSourceStep, ConfirmDeletionStep, SucceedStep,
     CallFailsStep, CatchStep, DeferStep, RetryStep, PurgeSourceStep,
     FailStep, CatchFailsStep, AckStep, ReleaseStep, CrashStep
     DEF HandlerStep
<1> QED BY <1>1, <1>2, <1>3, LeaseExpiresStep, DuplicateStep DEF Next

\* The invariant holds in every reachable state.
THEOREM Invariant == Spec => []IInv
BY InitIInv, NextIInv, PTL DEF Spec

\* Every variable of the pipeline keeps its type: a row always has a valid
\* state, attempts never underflow when an attempt is deferred.
THEOREM TypeCorrect == Spec => []HostedTypeOK
<1>1. IInv => HostedTypeOK
  BY DEF IInv
<1> QED BY <1>1, Invariant, PTL

\* Success is complete, whatever fails: a succeeded job has an accepted result
\* whose artifact is stored and whose statistics are materialised.
THEOREM Completeness == Spec => []SucceededIsComplete
<1>1. IInv => SucceededIsComplete
  BY DEF IInv
<1> QED BY <1>1, Invariant, PTL


-----------------------------------------------------------------------------
(* The contract *)

ContractStep == [Contract!Next]_(Contract!vars)

\* Which steps touch the job table and the accepted results.
JobUntouched == UNCHANGED <<job, analysis>>

LEMMA UploadTouches ==
  ASSUME NEW u \in Uploads, UploadStep(u) \/ LifecycleExpires(u)
  PROVE  JobUntouched \/ InsertJob(u) \/ ReviveJob(u)
BY DEF UploadStep, LifecycleExpires, JobUntouched, PutSource, CheckStoredSize,
   SelectJob, RereadJob, DropDuplicate, SendMessage, SendFails, UploadAborts,
   tables

LEMMA HandlerTouches ==
  ASSUME NEW h \in Handlers, HandlerStep(h)
  PROVE  \/ JobUntouched \/ RecordAnalysis(h)
         \/ Claim(h) \/ Succeed(h) \/ Defer(h) \/ Retry(h) \/ Fail(h)
<1>1. CASE \E m \in Messages : Deliver(h, m)
  BY <1>1 DEF Deliver, JobUntouched, tables
<1>2. CASE Unclaimable(h) \/ Progress(h) \/ LoadSource(h) \/ Parse(h)
           \/ StoreDerived(h) \/ IndexAnalysis(h) \/ DeleteSource(h)
           \/ ConfirmDeletion(h) \/ CallFails(h)
  BY <1>2 DEF JobUntouched, tables, Unclaimable, Progress, LoadSource, Parse,
     StoreDerived, IndexAnalysis, DeleteSource, ConfirmDeletion, CallFails
<1>3. CASE Catch(h) \/ PurgeSource(h) \/ CatchFails(h) \/ Ack(h)
           \/ Release(h) \/ Crash(h)
  BY <1>3 DEF JobUntouched, tables, Catch, PurgeSource, CatchFails, Ack,
     Release, Crash
<1> QED BY <1>1, <1>2, <1>3 DEF HandlerStep

\* The row of d moves by a transition the contract knows.
LEMMA RowStepImplements ==
  ASSUME IInv, NEW d \in Demos, RowStep(d), UNCHANGED analysis
  PROVE  ContractStep
<1>1. CASE UNCHANGED job
  BY <1>1 DEF ContractStep, Contract!vars
<1>2. ASSUME NEW r \in Row, job' = [job EXCEPT ![d] = r], Allowed(d, r.state)
      PROVE  ContractStep
  <2> DEFINE state == [e \in Demos |-> job[e].state]
             state2 == [e \in Demos |-> job'[e].state]
  <2>1. state2 = [state EXCEPT ![d] = r.state]
    BY <1>2 DEF IInv, HostedTypeOK
  <2>2. state[d] = job[d].state
    OBVIOUS
  <2>3. CASE r.state = job[d].state
    <3>1. state2 = state
      BY <2>1, <2>2, <2>3
    <3> QED BY <3>1 DEF ContractStep, Contract!vars
  <2>4. CASE r.state # job[d].state
    <3>1. \/ Contract!Enqueue(d) \/ Contract!Start(d) \/ Contract!GiveBack(d)
          \/ Contract!Fail(d) \/ Contract!Succeed(d)
      BY <1>2, <2>1, <2>2, <2>4 DEF Allowed, Contract!Enqueue, Contract!Start,
         Contract!GiveBack, Contract!Fail, Contract!Succeed, Contract!Becomes
    <3> QED BY <3>1 DEF ContractStep, Contract!Next
  <2> QED BY <2>3, <2>4
<1> QED BY <1>1, <1>2 DEF RowStep

LEMMA RecordAnalysisImplements ==
  ASSUME IInv, NEW h \in Handlers, RecordAnalysis(h)
  PROVE  ContractStep
<1>1. Working(h)
  BY WorkingConsumer DEF RecordAnalysis, At
<1>2. built[h] \in Builds
  BY DEF IInv, StepsAreOrdered, RecordAnalysis, At
<1>3. CASE analysis[demoOf(h)] = None
  <2>1. Contract!Accept(demoOf(h))
    BY <1>1, <1>2, <1>3 DEF RecordAnalysis, Upserted, Contract!Accept, Working,
       RowOf, IInv, HostedTypeOK
  <2> QED BY <1>1, <2>1 DEF ContractStep, Contract!Next, Working
<1>4. CASE analysis[demoOf(h)] # None
  <2>1. UNCHANGED <<job, analysis>>
    BY <1>1, <1>4 DEF RecordAnalysis, Upserted, Working, IInv, HostedTypeOK
  <2> QED BY <2>1 DEF ContractStep, Contract!vars
<1> QED BY <1>3, <1>4

LEMMA StepImplements == IInv /\ [Next]_vars => ContractStep
<1> SUFFICES ASSUME IInv, [Next]_vars PROVE ContractStep
  OBVIOUS
<1>1. ASSUME JobUntouched PROVE ContractStep
  BY <1>1 DEF JobUntouched, ContractStep, Contract!vars
<1>2. CASE UNCHANGED vars
  BY <1>1, <1>2 DEF vars, tables, JobUntouched
<1>3. ASSUME NEW u \in Uploads, UploadStep(u) \/ LifecycleExpires(u)
      PROVE  ContractStep
  <2>1. ASSUME InsertJob(u) \/ ReviveJob(u) PROVE ContractStep
    BY <2>1, InsertJobRow, ReviveJobRow, RowStepImplements
       DEF InsertJob, ReviveJob
  <2> QED BY <1>1, <1>3, <2>1, UploadTouches
<1>4. ASSUME NEW h \in Handlers, HandlerStep(h)
      PROVE  ContractStep
  <2>1. ASSUME Claim(h) \/ Succeed(h) \/ Defer(h) \/ Retry(h) \/ Fail(h)
        PROVE  ContractStep
    BY <2>1, ClaimRow, SucceedRow, DeferRow, RetryRow, FailRow,
       RowStepImplements DEF Claim, Succeed, Defer, Retry, Fail, CatchUpdate
  <2> QED BY <1>1, <1>4, <2>1, HandlerTouches, RecordAnalysisImplements
<1>5. ASSUME NEW d \in Demos, LeaseExpires(d) PROVE ContractStep
  <2>1. \A e \in Demos : job'[e].state = job[e].state
    BY <1>5 DEF LeaseExpires, IInv, HostedTypeOK
  <2> QED BY <1>5, <2>1 DEF LeaseExpires, ContractStep, Contract!vars
<1>6. ASSUME NEW m \in Messages, Duplicate(m) PROVE ContractStep
  BY <1>1, <1>6 DEF Duplicate, tables, JobUntouched
<1> QED BY <1>2, <1>3, <1>4, <1>5, <1>6 DEF Next

\* The pipeline, with every combination of failures, is an implementation of
\* the contract HostedJobContract states for the readers of the job table.
THEOREM Refinement == Spec => ImplementsContract
<1>1. Init => Contract!Init
  BY DEF Init, Contract!Init, NoRow, Unclaimed
<1>2. IInv /\ [Next]_vars => [Contract!Next]_(Contract!vars)
  BY StepImplements DEF ContractStep
<1> QED BY <1>1, <1>2, Invariant, PTL DEF Spec, ImplementsContract, Contract!Spec

\* An accepted result is never replaced: the upsert of recordAnalysis keeps the
\* first artifact whatever later attempts of other builds produce.
THEOREM AcceptedOnce == Spec => AcceptedIsImmutable
<1> DEFINE Keeps == \A d \in Demos : analysis[d] # None => analysis'[d] = analysis[d]
<1>1. IInv /\ [Next]_vars => Keeps
  <2> SUFFICES ASSUME IInv, [Next]_vars PROVE Keeps
    OBVIOUS
  <2>1. ASSUME UNCHANGED analysis PROVE Keeps
    BY <2>1
  <2>2. CASE UNCHANGED vars
    BY <2>1, <2>2 DEF vars, tables
  <2>3. ASSUME NEW u \in Uploads, UploadStep(u) \/ LifecycleExpires(u)
        PROVE  Keeps
    BY <2>1, <2>3, UploadTouches DEF JobUntouched, InsertJob, ReviveJob
  <2>4. ASSUME NEW h \in Handlers, HandlerStep(h) PROVE Keeps
    <3>1. ASSUME RecordAnalysis(h) PROVE Keeps
      BY <3>1 DEF RecordAnalysis, Upserted, IInv, HostedTypeOK
    <3> QED BY <2>1, <2>4, <3>1, HandlerTouches DEF JobUntouched, Claim,
            Succeed, Defer, Retry, Fail, CatchUpdate
  <2> QED BY <2>1, <2>2, <2>3, <2>4 DEF Next, LeaseExpires, Duplicate, tables
<1> QED BY <1>1, Invariant, PTL DEF Spec, AcceptedIsImmutable

\* Lease fencing: finish, retry and defer of an invocation that lost its lease
\* never touch the row of its successor.
THEOREM Fencing == Spec => OnlyTheOwnerReleases
<1> DEFINE LosesOwner(d) == job[d].state = "running" /\ job'[d].owner # job[d].owner
           Excused(d) == job[d].lease = "expired" \/ pc'[job[d].owner] # pc[job[d].owner]
           Safe == \A d \in Demos : LosesOwner(d) => Excused(d)
<1>1. IInv /\ [Next]_vars => Safe
  <2> SUFFICES ASSUME IInv, [Next]_vars PROVE Safe
    OBVIOUS
  <2>1. ASSUME UNCHANGED job PROVE Safe
    BY <2>1
  <2>2. CASE UNCHANGED vars
    BY <2>1, <2>2 DEF vars, tables
  <2>3. ASSUME NEW u \in Uploads, UploadStep(u) \/ LifecycleExpires(u)
        PROVE  Safe
    <3>1. ASSUME InsertJob(u) \/ ReviveJob(u) PROVE Safe
      BY <3>1 DEF InsertJob, ReviveJob, IInv, HostedTypeOK
    <3> QED BY <2>1, <2>3, <3>1, UploadTouches DEF JobUntouched
  <2>4. ASSUME NEW h \in Handlers, HandlerStep(h) PROVE Safe
    <3>1. ASSUME Claim(h) PROVE Safe
      BY <3>1 DEF Claim, Claimable, RowOf, SetRow, IInv, HostedTypeOK
    <3>2. ASSUME Succeed(h) PROVE Safe
      <4>1. pc'[h] # pc[h]
        BY <3>2 DEF Succeed, At, Goto, ThenAudit, Throw, IInv, HostedTypeOK
      <4> QED BY <3>2, <4>1 DEF Succeed, Fenced, RowOf, SetRow, IInv, HostedTypeOK
    <3>3. ASSUME Defer(h) \/ Retry(h) \/ Fail(h) PROVE Safe
      <4>1. pc'[h] # pc[h]
        BY <3>3 DEF Defer, Retry, Fail, CatchUpdate, At, Goto, IInv, HostedTypeOK
      <4> QED BY <3>3, <4>1 DEF Defer, Retry, Fail, CatchUpdate, Fenced, RowOf,
              SetRow, IInv, HostedTypeOK
    <3> QED BY <2>1, <2>4, <3>1, <3>2, <3>3, HandlerTouches DEF JobUntouched,
            RecordAnalysis
  <2>5. ASSUME NEW d \in Demos, LeaseExpires(d) PROVE Safe
    BY <2>5 DEF LeaseExpires, IInv, HostedTypeOK
  <2> QED BY <2>1, <2>2, <2>3, <2>4, <2>5 DEF Next, Duplicate, tables
<1> QED BY <1>1, Invariant, PTL DEF Spec, OnlyTheOwnerReleases

-----------------------------------------------------------------------------
(* The sources: no upload, attempt or cleanup takes the object that a queued *)
(* or leased job is to be read from.  The argument is for a pipeline whose   *)
(* requests may die at any point, whose parser may answer with any error,    *)
(* whose leases may run out under a slow attempt, and whose clients never    *)
(* send an upload id twice.  Together with these, every other fault takes    *)
(* the source of a queued job away, and so does a second PUT of an id.       *)

Undisturbed ==
    /\ Faults \subseteq {"abort", "result", "overrun"}
    /\ PutsPerUpload <= 1

\* The steps a consumer takes on a row it owns.
OwnerPc == (TryPc \ {"claim", "unclaimable"}) \cup CatchPc

\* A message that may still be worked on: its consumer, if it has one, has not
\* decided to acknowledge it.
Live(m) ==
    \/ queue[m].status \in {"ready", "dead"}
    \/ \E h \in Handlers : msg[h] = m /\ pc[h] \notin {"idle", "ack"}

LiveFor(m, d) == Live(m) /\ queue[m].demo = d

\* A job's source is the one object that the upload which queued it has put.
SourcesAreOwned ==
    \A d \in Demos :
        /\ job[d].state \in {"queued", "running"} => job[d].source # None
        /\ job[d].source # None =>
              /\ client[job[d].source].demo = d
              /\ client[job[d].source].pc \in {"idle", "reread", "send"}
              /\ puts[job[d].source] # 0

\* Until it knows the job's row, a request has its object.
RequestsHaveObjects ==
    \A u \in Uploads :
        /\ client[u].pc # "idle" => puts[u] # 0
        /\ client[u].pc \notin {"idle", "send", "drop"} => temporary[u] = client[u].demo

\* The request that queued a job is the first to send a message for it.
SendersAreFirst ==
    \A u \in Uploads :
        /\ client[u].pc = "send" => job[client[u].demo].source = u
        /\ client[u].pc \in {"reread", "send"} /\ job[client[u].demo].source = u =>
              /\ job[client[u].demo].state = "queued"
              /\ \A m \in Messages : ~LiveFor(m, client[u].demo)

\* A job has one message that is worked on, and no row but a queued one is
\* waiting for it.
OneMessageEach ==
    /\ \A m, n \in Messages : Live(m) /\ Live(n) /\ queue[m].demo = queue[n].demo => m = n
    /\ \A m \in Messages :
          queue[m].status \in {"ready", "dead"} => job[queue[m].demo].state = "queued"
    /\ \A h \in Handlers : pc[h] \in {"claim", "release"} => RowOf(h).state = "queued"

\* A consumer at work owns its row, and the source is there until it deletes it.
OwnersHaveSources ==
    \A h \in Handlers :
        /\ pc[h] # "unclaimable"
        /\ pc[h] \in OwnerPc =>
              Fenced(h) /\ seen[h].source = RowOf(h).source
        /\ pc[h] \in OwnerPc \ {"head", "finish", "fail"} =>
              temporary[seen[h].source] = demoOf(h)
        /\ pc[h] = "head" => temporary[seen[h].source] = None

SourceInv ==
    /\ SourcesAreOwned /\ RequestsHaveObjects /\ SendersAreFirst
    /\ OneMessageEach /\ OwnersHaveSources /\ QueuedHasSource

LEMMA InitSourceInv == Init => SourceInv
BY HostedAssumption DEF Init, SourceInv, SourcesAreOwned, RequestsHaveObjects,
   SendersAreFirst, OneMessageEach, OwnersHaveSources, QueuedHasSource,
   OwnerPc, TryPc, CatchPc, LiveFor, Live, NoRow, Unclaimed, FreeSlot

\* A message that is worked on names a job that is not terminal.
LEMMA LiveNeedsWork ==
  ASSUME IInv, SourceInv, NEW m \in Messages, Live(m)
  PROVE  /\ queue[m].demo \in Demos
         /\ job[queue[m].demo].state \in {"queued", "running"}
<1>1. CASE queue[m].status \in {"ready", "dead"}
  BY <1>1 DEF IInv, MessagesNameJobs, SourceInv, OneMessageEach
<1>2. ASSUME NEW h \in Handlers, msg[h] = m, pc[h] \notin {"idle", "ack"}
      PROVE  /\ queue[m].demo \in Demos
             /\ job[queue[m].demo].state \in {"queued", "running"}
  <2>1. queue[m].demo \in Demos
    BY <1>2, WorkingConsumer DEF Working, demoOf
  <2>2. pc[h] \in {"claim", "release"} \cup OwnerPc
    BY <1>2 DEF IInv, HostedTypeOK, HandlerPc, OwnerPc, SourceInv,
       OwnersHaveSources
  <2>3. CASE pc[h] \in {"claim", "release"}
    BY <1>2, <2>1, <2>3 DEF SourceInv, OneMessageEach, RowOf, demoOf
  <2>4. CASE pc[h] \in OwnerPc
    BY <1>2, <2>1, <2>4 DEF SourceInv, OwnersHaveSources, Fenced, RowOf, demoOf
  <2> QED BY <2>1, <2>2, <2>3, <2>4
<1> QED BY <1>1, <1>2 DEF Live

\* The message of a consumer that has not decided to acknowledge it is worked
\* on; no other consumer works on the same job, and no request is about to
\* send another message for it.
LEMMA AtWork ==
  ASSUME IInv, SourceInv, NEW h \in Handlers, pc[h] \notin {"idle", "ack"}
  PROVE  /\ Working(h)
         /\ Live(msg[h])
         /\ \A m \in Messages : LiveFor(m, demoOf(h)) => m = msg[h]
         /\ \A g \in Handlers :
               pc[g] \notin {"idle", "ack"} /\ demoOf(g) = demoOf(h) => g = h
         /\ \A u \in Uploads :
               client[u].pc \in {"reread", "send"} /\ client[u].demo = demoOf(h)
                   => job[demoOf(h)].source # u
<1>1. Working(h) /\ Live(msg[h])
  BY WorkingConsumer DEF Live, Working
<1>2. \A m \in Messages : LiveFor(m, demoOf(h)) => m = msg[h]
  BY <1>1 DEF LiveFor, demoOf, SourceInv, OneMessageEach, Working
<1>3. \A g \in Handlers :
        pc[g] \notin {"idle", "ack"} /\ demoOf(g) = demoOf(h) => g = h
  <2> SUFFICES ASSUME NEW g \in Handlers, pc[g] \notin {"idle", "ack"},
                      demoOf(g) = demoOf(h)
               PROVE  g = h
    OBVIOUS
  <2>1. Working(g) /\ Live(msg[g])
    BY WorkingConsumer DEF Live, Working
  <2>2. msg[g] = msg[h]
    BY <1>2, <2>1 DEF LiveFor, demoOf, Working
  <2> QED BY <2>2 DEF IInv, LeasesAreExclusive
<1>4. ASSUME NEW u \in Uploads, client[u].pc \in {"reread", "send"},
             client[u].demo = demoOf(h), job[demoOf(h)].source = u
      PROVE  FALSE
  <2>1. ~LiveFor(msg[h], demoOf(h))
    BY <1>1, <1>4 DEF SourceInv, SendersAreFirst, Working
  <2> QED BY <1>1, <2>1 DEF LiveFor, demoOf
<1> QED BY <1>1, <1>2, <1>3, <1>4

\* An upload is the source of no job but that of its demo, and of none at all
\* before it has queued one.
LEMMA SourcesByDemo ==
  ASSUME SourceInv, NEW u \in Uploads, NEW d \in Demos, job[d].source = u, u # None
  PROVE  /\ client[u].demo = d
         /\ client[u].pc \in {"idle", "reread", "send"}
         /\ puts[u] # 0
BY DEF SourceInv, SourcesAreOwned

-----------------------------------------------------------------------------
(* Steps of a request *)

\* A request that moves one step and leaves the queue, the consumers and every
\* object but its own alone.
LEMMA RequestMoves ==
  ASSUME IInv, SourceInv, NEW u \in Uploads, NEW at \in ClientPc,
         client' = [client EXCEPT ![u].pc = at],
         UNCHANGED <<job, puts, queue, pc, msg, seen>>,
         \/ UNCHANGED temporary
         \/ at = "idle" /\ temporary' = [temporary EXCEPT ![u] = None],
         client[u].pc # "idle",
         client[u].pc \in {"reread", "send"} => UNCHANGED temporary,
         client[u].pc = "drop" => at = "idle",
         client[u].pc = "send" => at = "idle",
         client[u].pc = "reread" =>
            \/ at = "idle"
            \/ at = "send" /\ job[client[u].demo].source = u
            \/ at = "drop" /\ job[client[u].demo].source # u,
         client[u].pc \notin {"reread", "send"} => at # "send"
  PROVE  SourceInv'
<1>1. \A d \in Demos : job[d].source = u => client[u].demo = d
                                          /\ client[u].pc \in {"reread", "send"}
  BY HostedAssumption DEF SourceInv, SourcesAreOwned
<1>2. \A m \in Messages : Live(m)' <=> Live(m)
  BY DEF Live
<1>3. SourcesAreOwned'
  BY <1>1 DEF SourceInv, SourcesAreOwned, IInv, HostedTypeOK
<1>4. RequestsHaveObjects'
  BY DEF SourceInv, RequestsHaveObjects, IInv, HostedTypeOK
<1>5. SendersAreFirst'
  <2>1. client[u].demo \in Demos
    BY DEF IInv, MessagesNameJobs
  <2> QED BY <1>1, <1>2, <2>1 DEF SourceInv, SendersAreFirst, LiveFor, IInv,
          HostedTypeOK
<1>6. OneMessageEach'
  BY <1>2 DEF SourceInv, OneMessageEach, RowOf, demoOf
<1>7. QueuedHasSource'
  <2> SUFFICES ASSUME NEW d \in Demos, job[d].state = "queued"
               PROVE  temporary'[job[d].source] = d
    BY DEF QueuedHasSource
  <2>1. job[d].source \in Uploads /\ temporary[job[d].source] = d
    BY DEF IInv, HostedTypeOK, Row, SourceInv, SourcesAreOwned, QueuedHasSource
  <2>2. CASE UNCHANGED temporary
    BY <2>1, <2>2
  <2>3. CASE /\ temporary' = [temporary EXCEPT ![u] = None]
             /\ client[u].pc \notin {"reread", "send"}
    BY <1>1, <2>1, <2>3 DEF IInv, HostedTypeOK
  <2> QED BY <2>2, <2>3
<1>8. OwnersHaveSources'
  <2> SUFFICES ASSUME NEW h \in Handlers PROVE
        /\ pc[h] # "unclaimable"
        /\ pc[h] \in OwnerPc =>
              Fenced(h) /\ seen[h].source = RowOf(h).source
        /\ pc[h] \in OwnerPc \ {"head", "finish", "fail"} =>
              temporary'[seen[h].source] = demoOf(h)
        /\ pc[h] = "head" => temporary'[seen[h].source] = None
    BY DEF OwnersHaveSources, Fenced, RowOf, demoOf
  <2>1. CASE UNCHANGED temporary
    BY <2>1 DEF SourceInv, OwnersHaveSources
  <2>2. CASE /\ temporary' = [temporary EXCEPT ![u] = None]
             /\ client[u].pc \notin {"reread", "send"}
    <3>1. ASSUME pc[h] \in OwnerPc
          PROVE  seen[h].source # u
      BY <1>1, <2>2, <3>1, WorkingConsumer DEF Working, RowOf, SourceInv,
         OwnersHaveSources, OwnerPc, TryPc, CatchPc
    <3> QED BY <2>2, <3>1 DEF SourceInv, OwnersHaveSources, IInv, HostedTypeOK,
            OwnerPc, TryPc
  <2> QED BY <2>1, <2>2
<1> QED BY <1>3, <1>4, <1>5, <1>6, <1>7, <1>8 DEF SourceInv

LEMMA PutSourceKeeps ==
  ASSUME Undisturbed, IInv, SourceInv,
         NEW u \in Uploads, NEW d \in Demos, PutSource(u, d)
  PROVE  SourceInv'
<1>1. puts[u] = 0
  <2>1. puts[u] \in Nat
    BY DEF IInv, HostedTypeOK
  <2>2. puts[u] < PutsPerUpload /\ PutsPerUpload <= 1 /\ PutsPerUpload \in Nat
    BY HostedAssumption DEF Undisturbed, PutSource
  <2> QED BY <2>1, <2>2
<1>2. \A e \in Demos : job[e].source # u
  BY <1>1, HostedAssumption DEF SourceInv, SourcesAreOwned
<1>3. client[u].pc = "idle" /\ u # None
  BY HostedAssumption DEF PutSource, ClientAt
<1>4. UNCHANGED <<job, queue, pc, msg, seen>>
  BY DEF PutSource, tables, locals
<1>5. /\ client' = [client EXCEPT ![u] = [pc |-> "stored", demo |-> d]]
      /\ temporary' = [temporary EXCEPT ![u] = d]
      /\ puts' = [puts EXCEPT ![u] = @ + 1]
  BY DEF PutSource
<1>6. \A m \in Messages : Live(m)' <=> Live(m)
  BY <1>4 DEF Live
<1>7. SourcesAreOwned'
  BY <1>2, <1>4, <1>5 DEF SourceInv, SourcesAreOwned, IInv, HostedTypeOK, Row
<1>8. RequestsHaveObjects'
  BY <1>1, <1>5 DEF SourceInv, RequestsHaveObjects, IInv, HostedTypeOK
<1>9. SendersAreFirst'
  BY <1>4, <1>5, <1>6 DEF SourceInv, SendersAreFirst, LiveFor, IInv, HostedTypeOK
<1>10. OneMessageEach'
  BY <1>4, <1>6 DEF SourceInv, OneMessageEach, RowOf, demoOf
<1>11. QueuedHasSource'
  <2> SUFFICES ASSUME NEW e \in Demos, job[e].state = "queued"
               PROVE  temporary'[job[e].source] = e
    BY <1>4 DEF QueuedHasSource
  <2>1. job[e].source \in Uploads /\ temporary[job[e].source] = e
    BY DEF IInv, HostedTypeOK, Row, SourceInv, SourcesAreOwned, QueuedHasSource
  <2> QED BY <1>2, <1>5, <2>1 DEF IInv, HostedTypeOK
<1>12. OwnersHaveSources'
  <2> SUFFICES ASSUME NEW h \in Handlers PROVE
        /\ pc[h] # "unclaimable"
        /\ pc[h] \in OwnerPc =>
              Fenced(h) /\ seen[h].source = RowOf(h).source
        /\ pc[h] \in OwnerPc \ {"head", "finish", "fail"} =>
              temporary'[seen[h].source] = demoOf(h)
        /\ pc[h] = "head" => temporary'[seen[h].source] = None
    BY <1>4 DEF OwnersHaveSources, Fenced, RowOf, demoOf
  <2>1. ASSUME pc[h] \in OwnerPc
        PROVE  seen[h].source # u
    BY <1>2, <2>1, WorkingConsumer DEF Working, RowOf, SourceInv,
       OwnersHaveSources, OwnerPc, TryPc, CatchPc
  <2> QED BY <1>5, <2>1 DEF SourceInv, OwnersHaveSources, IInv, HostedTypeOK,
          OwnerPc, TryPc
<1> QED BY <1>7, <1>8, <1>9, <1>10, <1>11, <1>12 DEF SourceInv

\* The steps that only move the request, or give its object up.
LEMMA RequestStepKeeps ==
  ASSUME IInv, SourceInv, NEW u \in Uploads,
         \/ CheckStoredSize(u) \/ SelectJob(u) \/ RereadJob(u)
         \/ DropDuplicate(u) \/ UploadAborts(u)
  PROVE  SourceInv'
<1>1. CASE CheckStoredSize(u)
  <2> USE <1>1 DEF CheckStoredSize, ClientAt, ClientTo, tables, buckets,
               requests, locals, ClientPc
  <2>1. CASE client' = [client EXCEPT ![u].pc = "select"] /\ UNCHANGED temporary
    BY <2>1, RequestMoves
  <2>2. CASE /\ client' = [client EXCEPT ![u].pc = "idle"]
             /\ temporary' = [temporary EXCEPT ![u] = None]
    BY <2>2, RequestMoves
  <2> QED BY <2>1, <2>2
<1>2. CASE SelectJob(u)
  <2> USE <1>2 DEF SelectJob, ClientAt, ClientTo, tables, buckets,
               requests, locals, ClientPc
  <2>1. client[u].demo \in Demos /\ u # None
    BY HostedAssumption DEF IInv, MessagesNameJobs
  <2>2. job[client[u].demo].source # u
    BY <2>1, SourcesByDemo
  <2>3. \E at \in {"insert", "revive", "drop"} : client' = [client EXCEPT ![u].pc = at]
    BY <2>1, <2>2 DEF IInv, HostedTypeOK, Row, JobState
  <2> QED BY <2>3, RequestMoves
<1>3. CASE RereadJob(u)
  <2> USE <1>3 DEF RereadJob, ClientAt, ClientTo, tables, buckets,
               requests, locals, ClientPc
  <2>1. CASE job[client[u].demo].source = u
    <3>1. client' = [client EXCEPT ![u].pc = "send"]
      BY <2>1
    <3> QED BY <2>1, <3>1, RequestMoves
  <2>2. CASE job[client[u].demo].source # u
    <3>1. client' = [client EXCEPT ![u].pc = "drop"]
      BY <2>2
    <3> QED BY <2>2, <3>1, RequestMoves
  <2> QED BY <2>1, <2>2
<1>4. CASE DropDuplicate(u)
  BY <1>4, RequestMoves DEF DropDuplicate, ClientAt, ClientTo, tables, buckets,
     requests, locals, ClientPc
<1>5. CASE UploadAborts(u)
  BY <1>5, RequestMoves DEF UploadAborts, ClientAt, ClientTo, tables, buckets,
     requests, locals, ClientPc
<1> QED BY <1>1, <1>2, <1>3, <1>4, <1>5

\* A request writes its source into a row that nobody waits for or works on.
LEMMA QueueingKeeps ==
  ASSUME IInv, SourceInv, NEW u \in Uploads, NEW d \in Demos,
         client[u].demo = d, client[u].pc \in {"insert", "revive"},
         job[d].state \in {"absent", "failed"},
         job' = [job EXCEPT ![d] = QueuedRow(u)],
         client' = [client EXCEPT ![u].pc = "reread"],
         UNCHANGED <<temporary, puts, queue, pc, msg, seen>>
  PROVE  SourceInv'
<1>0. /\ QueuedRow(u).state = "queued" /\ QueuedRow(u).source = u
      /\ u # None
  BY HostedAssumption DEF QueuedRow, Unclaimed
<1>1. \A m \in Messages : ~LiveFor(m, d)
  BY LiveNeedsWork DEF LiveFor
<1>2. \A m \in Messages : Live(m)' <=> Live(m)
  BY DEF Live
<1>3. \A e \in Demos : job[e].source # u
  BY <1>0, SourcesByDemo
<1>4. temporary[u] = d /\ puts[u] # 0
  BY DEF SourceInv, RequestsHaveObjects
<1>5. \A h \in Handlers : pc[h] \notin {"idle", "ack"} => demoOf(h) # d
  BY <1>1, AtWork DEF LiveFor, demoOf, Working
<1>6. \A e \in Demos : IF e = d THEN job'[e] = QueuedRow(u) ELSE job'[e] = job[e]
  BY DEF IInv, HostedTypeOK
<1>7. SourcesAreOwned'
  BY <1>0, <1>3, <1>4, <1>6 DEF SourceInv, SourcesAreOwned, IInv, HostedTypeOK
<1>8. RequestsHaveObjects'
  BY DEF SourceInv, RequestsHaveObjects, IInv, HostedTypeOK
<1>9. SendersAreFirst'
  <2> SUFFICES ASSUME NEW v \in Uploads
               PROVE  /\ client'[v].pc = "send" => job'[client'[v].demo].source = v
                      /\ client'[v].pc \in {"reread", "send"} /\ job'[client'[v].demo].source = v =>
                            /\ job'[client'[v].demo].state = "queued"
                            /\ \A m \in Messages : ~LiveFor(m, client'[v].demo)
    BY <1>2 DEF SendersAreFirst, LiveFor
  <2>1. CASE v = u
    BY <1>0, <1>1, <1>6, <2>1 DEF IInv, HostedTypeOK
  <2>2. CASE v # u
    <3>1. client'[v] = client[v]
      BY <2>2 DEF IInv, HostedTypeOK
    <3>2. CASE client[v].pc \in {"reread", "send"}
      <4>1. client[v].demo \in Demos
        BY <3>2 DEF IInv, MessagesNameJobs
      <4>2. CASE client[v].demo = d
        BY <1>0, <1>6, <2>2, <3>1, <3>2, <4>2 DEF SourceInv, SendersAreFirst
      <4>3. CASE client[v].demo # d
        BY <1>6, <3>1, <4>1, <4>3 DEF SourceInv, SendersAreFirst
      <4> QED BY <4>2, <4>3
    <3> QED BY <3>1, <3>2
  <2> QED BY <2>1, <2>2
<1>10. OneMessageEach'
  <2>1. \A m, n \in Messages :
          Live(m) /\ Live(n) /\ queue[m].demo = queue[n].demo => m = n
    BY DEF SourceInv, OneMessageEach
  <2>2. \A m \in Messages : queue[m].status \in {"ready", "dead"} =>
           queue[m].demo \in Demos /\ job[queue[m].demo].state = "queued"
    BY DEF SourceInv, OneMessageEach, IInv, MessagesNameJobs
  <2>3. \A h \in Handlers : pc[h] \in {"claim", "release"} =>
           demoOf(h) \in Demos /\ RowOf(h).state = "queued"
    BY WorkingConsumer DEF SourceInv, OneMessageEach, Working
  <2> QED BY <1>0, <1>2, <1>6, <2>1, <2>2, <2>3 DEF OneMessageEach, RowOf, demoOf
<1>11. QueuedHasSource'
  BY <1>0, <1>4, <1>6 DEF SourceInv, QueuedHasSource
<1>12. OwnersHaveSources'
  <2> SUFFICES ASSUME NEW h \in Handlers PROVE
        /\ pc[h] # "unclaimable"
        /\ pc[h] \in OwnerPc =>
              Fenced(h)' /\ seen[h].source = RowOf(h)'.source
        /\ pc[h] \in OwnerPc \ {"head", "finish", "fail"} =>
              temporary[seen[h].source] = demoOf(h)
        /\ pc[h] = "head" => temporary[seen[h].source] = None
    BY DEF OwnersHaveSources, Fenced, RowOf, demoOf
  <2>1. pc[h] \in OwnerPc => demoOf(h) \in Demos /\ RowOf(h)' = RowOf(h)
    BY <1>5, <1>6, WorkingConsumer DEF Working, RowOf, demoOf, OwnerPc, TryPc, CatchPc
  <2> QED BY <2>1 DEF SourceInv, OwnersHaveSources, Fenced
<1> QED BY <1>7, <1>8, <1>9, <1>10, <1>11, <1>12 DEF SourceInv

LEMMA InsertOrReviveKeeps ==
  ASSUME IInv, SourceInv, NEW u \in Uploads, InsertJob(u) \/ ReviveJob(u)
  PROVE  SourceInv'
<1> DEFINE d == client[u].demo
<1>1. /\ d \in Demos /\ client[u].pc \in {"insert", "revive"}
      /\ UNCHANGED <<temporary, puts, queue, pc, msg, seen>>
  BY DEF IInv, MessagesNameJobs, InsertJob, ReviveJob, ClientAt, buckets, locals
<1>2. CASE /\ job[d].state \in {"absent", "failed"}
           /\ job' = [job EXCEPT ![d] = QueuedRow(u)]
           /\ client' = [client EXCEPT ![u].pc = "reread"]
  BY <1>1, <1>2, QueueingKeeps
<1>3. CASE UNCHANGED job /\ client' = [client EXCEPT ![u].pc = "idle"]
  BY <1>1, <1>3, RequestMoves DEF ClientPc
<1>4. CASE UNCHANGED job /\ client' = [client EXCEPT ![u].pc = "reread"]
  BY <1>1, <1>4, RequestMoves DEF ClientPc
<1> QED BY <1>2, <1>3, <1>4 DEF InsertJob, ReviveJob, ClientTo

LEMMA SendMessageKeeps ==
  ASSUME IInv, SourceInv, NEW u \in Uploads, SendMessage(u)
  PROVE  SourceInv'
<1> DEFINE d == client[u].demo
<1>1. /\ client[u].pc = "send" /\ d \in Demos
      /\ client' = [client EXCEPT ![u].pc = "idle"]
      /\ UNCHANGED <<job, temporary, puts, pc, msg, seen>>
  BY DEF SendMessage, ClientAt, ClientTo, IInv, MessagesNameJobs, tables,
     buckets, locals
<1>2. PICK n \in Messages : Enqueued(n, d)
  BY DEF SendMessage
<1>3. /\ job[d].source = u /\ job[d].state = "queued"
      /\ \A m \in Messages : ~LiveFor(m, d)
  BY <1>1 DEF SourceInv, SendersAreFirst
<1>4. /\ queue[n].status = "free"
      /\ \A m \in Messages \ {n} : queue'[m] = queue[m]
      /\ queue'[n].status = "ready" /\ queue'[n].demo = d
  BY <1>2 DEF Enqueued, IInv, HostedTypeOK
<1>5. \A h \in Handlers : pc[h] # "idle" =>
        msg[h] # n /\ demoOf(h)' = demoOf(h) /\ RowOf(h)' = RowOf(h)
  BY <1>1, <1>4, WorkingConsumer DEF Working, demoOf, RowOf
<1>6. /\ \A m \in Messages \ {n} : Live(m)' <=> Live(m)
      /\ \A m \in Messages \ {n} : LiveFor(m, d)' <=> LiveFor(m, d)
  BY <1>1, <1>4 DEF Live, LiveFor
<1>7. SourcesAreOwned'
  BY <1>1 DEF SourceInv, SourcesAreOwned, IInv, HostedTypeOK
<1>8. RequestsHaveObjects'
  BY <1>1 DEF SourceInv, RequestsHaveObjects, IInv, HostedTypeOK
<1>9. SendersAreFirst'
  <2>1. ASSUME NEW v \in Uploads, client'[v].pc \in {"reread", "send"}
        PROVE  /\ client'[v] = client[v]
               /\ client[v].pc = "send" => job[client[v].demo].source = v
               /\ job[client[v].demo].source = v =>
                     /\ job[client[v].demo].state = "queued"
                     /\ \A m \in Messages : Live(m)' => queue'[m].demo # client[v].demo
    <3>1. v # u /\ client'[v] = client[v]
      BY <1>1, <2>1 DEF IInv, HostedTypeOK
    <3>2. job[client[v].demo].source = v => client[v].demo # d
      BY <1>3, <3>1
    <3>3. job[client[v].demo].source = v =>
            \A m \in Messages : Live(m) => queue[m].demo # client[v].demo
      BY <2>1, <3>1 DEF SourceInv, SendersAreFirst, LiveFor
    <3>4. job[client[v].demo].source = v =>
            \A m \in Messages : Live(m)' => queue'[m].demo # client[v].demo
      BY <1>4, <1>6, <3>2, <3>3
    <3> QED BY <2>1, <3>1, <3>4 DEF SourceInv, SendersAreFirst
  <2>2. \A v \in Uploads : client'[v].pc = "send" => client'[v].pc \in {"reread", "send"}
    OBVIOUS
  <2> QED BY <1>1, <2>1, <2>2 DEF SendersAreFirst, LiveFor
<1>10. OneMessageEach'
  <2>1. \A m \in Messages \ {n} : Live(m)' => queue'[m].demo # d
    BY <1>3, <1>4, <1>6 DEF LiveFor
  <2>2. \A m, k \in Messages :
          Live(m)' /\ Live(k)' /\ queue'[m].demo = queue'[k].demo => m = k
    BY <1>4, <1>6, <2>1 DEF SourceInv, OneMessageEach
  <2>3. \A m \in Messages : queue'[m].status \in {"ready", "dead"} =>
          job[queue'[m].demo].state = "queued"
    BY <1>3, <1>4 DEF SourceInv, OneMessageEach
  <2>4. \A h \in Handlers : pc[h] \in {"claim", "release"} => RowOf(h)'.state = "queued"
    BY <1>5 DEF SourceInv, OneMessageEach
  <2> QED BY <1>1, <2>2, <2>3, <2>4 DEF OneMessageEach
<1>11. QueuedHasSource'
  BY <1>1 DEF SourceInv, QueuedHasSource
<1>12. OwnersHaveSources'
  <2> SUFFICES ASSUME NEW h \in Handlers PROVE
        /\ pc[h] # "unclaimable"
        /\ pc[h] \in OwnerPc =>
              Fenced(h)' /\ seen[h].source = RowOf(h)'.source
        /\ pc[h] \in OwnerPc \ {"head", "finish", "fail"} =>
              temporary[seen[h].source] = demoOf(h)'
        /\ pc[h] = "head" => temporary[seen[h].source] = None
    BY <1>1 DEF OwnersHaveSources, Fenced, RowOf, demoOf
  <2>1. pc[h] \in OwnerPc => pc[h] # "idle"
    BY DEF OwnerPc, TryPc, CatchPc
  <2> QED BY <1>5, <2>1 DEF SourceInv, OwnersHaveSources, Fenced
<1> QED BY <1>7, <1>8, <1>9, <1>10, <1>11, <1>12 DEF SourceInv

-----------------------------------------------------------------------------
(* Steps of a consumer *)

LEMMA DeliverKeeps ==
  ASSUME IInv, SourceInv, NEW h \in Handlers, NEW m \in Messages, Deliver(h, m)
  PROVE  SourceInv'
<1>1. /\ pc[h] = "idle" /\ queue[m].status = "ready"
      /\ queue' = [queue EXCEPT ![m].status = "leased"]
      /\ msg' = [msg EXCEPT ![h] = m]
      /\ pc' = [pc EXCEPT ![h] = "claim"]
      /\ UNCHANGED <<job, temporary, client, puts, seen>>
  BY DEF Deliver, At, Goto, tables, buckets, requests
<1>2. /\ \A n \in Messages : queue'[n].demo = queue[n].demo
      /\ \A n \in Messages \ {m} : queue'[n] = queue[n]
      /\ queue'[m].status = "leased"
  BY <1>1 DEF IInv, HostedTypeOK, Slot
<1>3. /\ \A g \in Handlers \ {h} : pc'[g] = pc[g] /\ msg'[g] = msg[g]
      /\ pc'[h] = "claim" /\ msg'[h] = m
  BY <1>1 DEF IInv, HostedTypeOK
<1>4. \A g \in Handlers \ {h} : pc[g] # "idle" =>
        demoOf(g)' = demoOf(g) /\ RowOf(g)' = RowOf(g)
  BY <1>1, <1>2, <1>3, WorkingConsumer DEF Working, demoOf, RowOf
<1>5. \A n \in Messages : Live(n)' => Live(n)
  BY <1>1, <1>2, <1>3 DEF Live
<1>6. \A n \in Messages : LiveFor(n, queue[n].demo)' => LiveFor(n, queue[n].demo)
  BY <1>2, <1>5 DEF LiveFor
<1>7. SourcesAreOwned' /\ RequestsHaveObjects' /\ QueuedHasSource'
  BY <1>1 DEF SourceInv, SourcesAreOwned, RequestsHaveObjects, QueuedHasSource
<1>8. SendersAreFirst'
  BY <1>1, <1>2, <1>5 DEF SourceInv, SendersAreFirst, LiveFor
<1>9. OneMessageEach'
  <2>1. \A n, k \in Messages :
          Live(n)' /\ Live(k)' /\ queue'[n].demo = queue'[k].demo => n = k
    BY <1>2, <1>5 DEF SourceInv, OneMessageEach
  <2>2. \A n \in Messages : queue'[n].status \in {"ready", "dead"} =>
          job[queue'[n].demo].state = "queued"
    BY <1>2 DEF SourceInv, OneMessageEach
  <2>3. RowOf(h)'.state = "queued"
    BY <1>1, <1>2, <1>3 DEF SourceInv, OneMessageEach, RowOf, demoOf
  <2>4. \A g \in Handlers : pc'[g] \in {"claim", "release"} => RowOf(g)'.state = "queued"
    BY <1>3, <1>4, <2>3 DEF SourceInv, OneMessageEach
  <2> QED BY <1>1, <2>1, <2>2, <2>4 DEF OneMessageEach
<1>10. OwnersHaveSources'
  <2> SUFFICES ASSUME NEW g \in Handlers PROVE
        /\ pc'[g] # "unclaimable"
        /\ pc'[g] \in OwnerPc =>
              Fenced(g)' /\ seen[g].source = RowOf(g)'.source
        /\ pc'[g] \in OwnerPc \ {"head", "finish", "fail"} =>
              temporary[seen[g].source] = demoOf(g)'
        /\ pc'[g] = "head" => temporary[seen[g].source] = None
    BY <1>1 DEF OwnersHaveSources, Fenced, RowOf, demoOf
  <2>1. CASE g = h
    BY <1>3, <2>1 DEF OwnerPc, TryPc, CatchPc
  <2>2. CASE g # h
    <3>1. pc[g] \in OwnerPc => pc[g] # "idle"
      BY DEF OwnerPc, TryPc, CatchPc
    <3> QED BY <1>3, <1>4, <2>2, <3>1 DEF SourceInv, OwnersHaveSources, Fenced
  <2> QED BY <2>1, <2>2
<1> QED BY <1>7, <1>8, <1>9, <1>10 DEF SourceInv

\* The consumer takes the row it was woken for: it is queued, so its source is
\* there.
LEMMA ClaimKeeps ==
  ASSUME Undisturbed, IInv, SourceInv, NEW h \in Handlers, Claim(h)
  PROVE  SourceInv'
<1> DEFINE d == demoOf(h)
<1>0. /\ pc[h] = "claim" /\ Working(h) /\ RowOf(h).state = "queued"
  BY WorkingConsumer DEF Claim, At, SourceInv, OneMessageEach
<1>1. PICK r : /\ r = [state |-> "running", source |-> job[d].source,
                       attempt |-> job[d].attempt + 1,
                       owner |-> h, lease |-> "live"]
               /\ job' = [job EXCEPT ![d] = r]
  BY <1>0 DEF Claim, Claimable, SetRow, RowOf
<1>2. /\ pc' = [pc EXCEPT ![h] = "load"]
      /\ seen' = [seen EXCEPT ![h] = [source |-> job[d].source,
                                      attempt |-> job[d].attempt + 1]]
      /\ UNCHANGED <<temporary, client, puts, queue, msg>>
  BY <1>0 DEF Claim, Claimable, RowOf, Undisturbed, Goto, buckets, requests
<1>3. /\ \A e \in Demos \ {d} : job'[e] = job[e]
      /\ job'[d] = r /\ d \in Demos /\ job[d].state = "queued"
  BY <1>0, <1>1 DEF IInv, HostedTypeOK, Working, RowOf
<1>4. /\ \A g \in Handlers \ {h} : pc'[g] = pc[g] /\ seen'[g] = seen[g]
      /\ pc'[h] = "load" /\ seen'[h].source = job[d].source
  BY <1>2 DEF IInv, HostedTypeOK
<1>5. \A g \in Handlers : demoOf(g)' = demoOf(g)
  BY <1>2 DEF demoOf
<1>6. /\ Live(msg[h])
      /\ \A m \in Messages : LiveFor(m, d) => m = msg[h]
      /\ \A g \in Handlers : pc[g] \notin {"idle", "ack"} /\ demoOf(g) = d => g = h
      /\ \A u \in Uploads : client[u].pc \in {"reread", "send"} /\ client[u].demo = d
             => job[d].source # u
  BY <1>0, AtWork
<1>7. \A m \in Messages : Live(m)' <=> Live(m)
  BY <1>0, <1>2, <1>4 DEF Live
<1>8. SourcesAreOwned'
  BY <1>1, <1>2, <1>3 DEF SourceInv, SourcesAreOwned
<1>9. RequestsHaveObjects'
  BY <1>2 DEF SourceInv, RequestsHaveObjects
<1>10. SendersAreFirst'
  <2>1. \A u \in Uploads : client[u].pc \in {"reread", "send"} => client[u].demo \in Demos
    BY DEF IInv, MessagesNameJobs
  <2> QED BY <1>1, <1>2, <1>3, <1>6, <1>7, <2>1 DEF SourceInv, SendersAreFirst, LiveFor
<1>11. OneMessageEach'
  <2>1. \A m, n \in Messages :
          Live(m)' /\ Live(n)' /\ queue'[m].demo = queue'[n].demo => m = n
    BY <1>2, <1>7 DEF SourceInv, OneMessageEach
  <2>2. ASSUME NEW m \in Messages, queue'[m].status \in {"ready", "dead"}
        PROVE  job'[queue'[m].demo].state = "queued"
    <3>1. Live(m) /\ m # msg[h]
      BY <1>0, <1>2, <2>2 DEF Live, Working
    <3>2. queue[m].demo \in Demos \ {d}
      BY <1>2, <1>6, <2>2, <3>1 DEF LiveFor, IInv, MessagesNameJobs
    <3> QED BY <1>2, <1>3, <2>2, <3>2 DEF SourceInv, OneMessageEach
  <2>3. ASSUME NEW g \in Handlers, pc'[g] \in {"claim", "release"}
        PROVE  RowOf(g)'.state = "queued"
    <3>1. g # h /\ pc[g] \in {"claim", "release"}
      BY <1>4, <2>3
    <3>2. demoOf(g) \in Demos \ {d}
      BY <1>6, <3>1, WorkingConsumer DEF Working
    <3> QED BY <1>3, <1>5, <3>1, <3>2 DEF SourceInv, OneMessageEach, RowOf
  <2> QED BY <2>1, <2>2, <2>3 DEF OneMessageEach
<1>12. QueuedHasSource'
  BY <1>1, <1>2, <1>3 DEF SourceInv, QueuedHasSource
<1>13. OwnersHaveSources'
  <2> SUFFICES ASSUME NEW g \in Handlers PROVE
        /\ pc'[g] # "unclaimable"
        /\ pc'[g] \in OwnerPc =>
              Fenced(g)' /\ seen'[g].source = RowOf(g)'.source
        /\ pc'[g] \in OwnerPc \ {"head", "finish", "fail"} =>
              temporary[seen'[g].source] = demoOf(g)
        /\ pc'[g] = "head" => temporary[seen'[g].source] = None
    BY <1>2, <1>5 DEF OwnersHaveSources, Fenced, RowOf
  <2>1. CASE g = h
    BY <1>1, <1>3, <1>4, <1>5, <2>1 DEF SourceInv, QueuedHasSource, Fenced, RowOf
  <2>2. CASE g # h
    <3>1. pc[g] \in OwnerPc => pc[g] \notin {"idle", "ack"}
      BY DEF OwnerPc, TryPc, CatchPc
    <3>2. pc[g] \in OwnerPc => RowOf(g)' = RowOf(g)
      BY <1>3, <1>5, <1>6, <2>2, <3>1, WorkingConsumer DEF RowOf, Working
    <3> QED BY <1>4, <2>2, <3>2 DEF SourceInv, OwnersHaveSources, Fenced
  <2> QED BY <2>1, <2>2
<1> QED BY <1>8, <1>9, <1>10, <1>11, <1>12, <1>13 DEF SourceInv

\* What a consumer that owns its row holds.
LEMMA OwnerAtWork ==
  ASSUME IInv, SourceInv, NEW h \in Handlers, pc[h] \in OwnerPc
  PROVE  /\ Working(h)
         /\ RowOf(h).state = "running" /\ Fenced(h)
         /\ seen[h].source = RowOf(h).source
         /\ seen[h].source \in Uploads /\ seen[h].source # None
         /\ seen[h] # NotClaimed
         /\ client[seen[h].source].demo = demoOf(h)
         /\ client[seen[h].source].pc = "idle" /\ puts[seen[h].source] # 0
<1>1. pc[h] \notin {"idle", "ack"}
  BY DEF OwnerPc, TryPc, CatchPc
<1>2. Working(h) /\ Fenced(h) /\ seen[h].source = RowOf(h).source
  BY <1>1, WorkingConsumer DEF SourceInv, OwnersHaveSources
<1>3. RowOf(h).state = "running" /\ demoOf(h) \in Demos
  BY <1>2 DEF Fenced, Working
<1>4. seen[h].source \in Uploads /\ seen[h].source # None
  BY <1>2, <1>3, HostedAssumption DEF SourceInv, SourcesAreOwned, RowOf, IInv,
     HostedTypeOK, Row
<1>5. /\ client[seen[h].source].demo = demoOf(h)
      /\ client[seen[h].source].pc \in {"idle", "reread", "send"}
      /\ puts[seen[h].source] # 0
  BY <1>2, <1>3, <1>4, SourcesByDemo DEF RowOf
<1>6. client[seen[h].source].pc = "idle"
  BY <1>1, <1>2, <1>4, <1>5, AtWork DEF RowOf
<1>7. seen[h] # NotClaimed
  BY <1>4 DEF NotClaimed
<1> QED BY <1>2, <1>3, <1>4, <1>5, <1>6, <1>7

\* An owner goes on.  It may delete the source, when it will not read it again.
LEMMA OwnerMoves ==
  ASSUME IInv, SourceInv, NEW h \in Handlers, NEW at \in OwnerPc,
         pc[h] \in OwnerPc,
         pc' = [pc EXCEPT ![h] = at],
         UNCHANGED <<job, client, puts, queue, msg, seen>>,
         \/ /\ UNCHANGED temporary
            /\ at \notin {"head", "finish", "fail"} =>
                  pc[h] \notin {"head", "finish", "fail"}
            /\ at # "head"
         \/ /\ temporary' = [temporary EXCEPT ![seen[h].source] = None]
            /\ at \in {"head", "fail"}
  PROVE  SourceInv'
<1> DEFINE s == seen[h].source
<1>0. /\ Working(h) /\ s \in Uploads /\ RowOf(h).state = "running"
      /\ client[s].demo = demoOf(h) /\ client[s].pc = "idle"
      /\ s = job[demoOf(h)].source
  BY OwnerAtWork DEF RowOf
<1>1. pc[h] \notin {"idle", "ack", "claim", "release", "unclaimable"}
  BY DEF OwnerPc, TryPc, CatchPc
<1>2. at \notin {"idle", "ack", "claim", "release", "unclaimable"}
  BY DEF OwnerPc, TryPc, CatchPc
<1>3. /\ \A g \in Handlers \ {h} : pc'[g] = pc[g]
      /\ pc'[h] = at
  BY DEF IInv, HostedTypeOK
<1>4. \A g \in Handlers : demoOf(g)' = demoOf(g) /\ RowOf(g)' = RowOf(g)
  BY DEF demoOf, RowOf
<1>5. \A m \in Messages : Live(m)' <=> Live(m)
  BY <1>1, <1>2, <1>3 DEF Live
<1>6. \A u \in Uploads \ {s} : temporary'[u] = temporary[u]
  BY DEF IInv, HostedTypeOK
<1>7. SourcesAreOwned'
  BY DEF SourceInv, SourcesAreOwned
<1>8. RequestsHaveObjects'
  BY <1>0, <1>6 DEF SourceInv, RequestsHaveObjects
<1>9. SendersAreFirst'
  BY <1>5 DEF SourceInv, SendersAreFirst, LiveFor
<1>10. OneMessageEach'
  BY <1>2, <1>3, <1>4, <1>5 DEF SourceInv, OneMessageEach
<1>11. QueuedHasSource'
  <2> SUFFICES ASSUME NEW d \in Demos, job[d].state = "queued"
               PROVE  temporary'[job[d].source] = d
    BY DEF QueuedHasSource
  <2>1. job[d].source \in Uploads /\ temporary[job[d].source] = d
    BY DEF IInv, HostedTypeOK, Row, SourceInv, SourcesAreOwned, QueuedHasSource
  <2>2. d # demoOf(h)
    BY <1>0 DEF RowOf
  <2>3. job[d].source # s
    BY <1>0, <2>1, <2>2 DEF SourceInv, SourcesAreOwned
  <2> QED BY <1>6, <2>1, <2>3
<1>12. OwnersHaveSources'
  <2> SUFFICES ASSUME NEW g \in Handlers PROVE
        /\ pc'[g] # "unclaimable"
        /\ pc'[g] \in OwnerPc =>
              Fenced(g) /\ seen[g].source = RowOf(g).source
        /\ pc'[g] \in OwnerPc \ {"head", "finish", "fail"} =>
              temporary'[seen[g].source] = demoOf(g)
        /\ pc'[g] = "head" => temporary'[seen[g].source] = None
    BY <1>4 DEF OwnersHaveSources, Fenced
  <2>1. CASE g = h
    <3>1. Fenced(h) /\ seen[h].source = RowOf(h).source
      BY DEF SourceInv, OwnersHaveSources
    <3>2. ASSUME at = "head" PROVE temporary'[s] = None
      BY <1>0, <3>2 DEF IInv, HostedTypeOK
    <3>3. ASSUME at \notin {"head", "finish", "fail"} PROVE temporary'[s] = demoOf(h)
      BY <3>3 DEF SourceInv, OwnersHaveSources
    <3> QED BY <1>2, <1>3, <2>1, <3>1, <3>2, <3>3
  <2>2. CASE g # h
    <3>1. pc'[g] = pc[g]
      BY <1>3, <2>2
    <3>2. ASSUME pc[g] \in OwnerPc PROVE seen[g].source \in Uploads \ {s}
      <4>1. demoOf(g) # demoOf(h)
        BY <1>1, <2>2, <3>2, AtWork DEF OwnerPc, TryPc, CatchPc
      <4> QED BY <1>0, <3>2, <4>1, OwnerAtWork
    <3>3. pc[g] = "head" => pc[g] \in OwnerPc
      BY DEF OwnerPc, TryPc
    <3> QED BY <1>6, <3>1, <3>2, <3>3 DEF SourceInv, OwnersHaveSources
  <2> QED BY <2>1, <2>2
<1> QED BY <1>7, <1>8, <1>9, <1>10, <1>11, <1>12 DEF SourceInv

\* An owner gives its row up: to the queue with the source it still has, or
\* for good.
LEMMA OwnerLeaves ==
  ASSUME IInv, SourceInv, NEW h \in Handlers, pc[h] \in OwnerPc,
         NEW r \in Row, r.source = RowOf(h).source,
         job' = [job EXCEPT ![demoOf(h)] = r],
         NEW at, pc' = [pc EXCEPT ![h] = at],
         UNCHANGED <<temporary, client, puts, queue, msg, seen>>,
         \/ /\ at = "release" /\ r.state = "queued"
            /\ pc[h] \notin {"head", "finish", "fail"}
         \/ at = "ack" /\ r.state \in {"succeeded", "failed"}
  PROVE  SourceInv'
<1> DEFINE d == demoOf(h)
<1>0. /\ Working(h) /\ d \in Demos /\ RowOf(h).state = "running"
      /\ seen[h].source = job[d].source
  BY OwnerAtWork DEF RowOf, Working
<1>1. pc[h] \notin {"idle", "ack", "claim", "release", "unclaimable"}
  BY DEF OwnerPc, TryPc, CatchPc
<1>2. /\ Live(msg[h])
      /\ \A m \in Messages : LiveFor(m, d) => m = msg[h]
      /\ \A g \in Handlers : pc[g] \notin {"idle", "ack"} /\ demoOf(g) = d => g = h
      /\ \A u \in Uploads : client[u].pc \in {"reread", "send"} /\ client[u].demo = d
             => job[d].source # u
  BY <1>1, AtWork
<1>3. /\ \A g \in Handlers \ {h} : pc'[g] = pc[g]
      /\ pc'[h] = at
  BY DEF IInv, HostedTypeOK
<1>4. /\ \A e \in Demos \ {d} : job'[e] = job[e]
      /\ job'[d] = r /\ r.source = job[d].source
  BY <1>0 DEF IInv, HostedTypeOK, RowOf
<1>5. \A g \in Handlers : demoOf(g)' = demoOf(g)
  BY DEF demoOf
<1>6. \A m \in Messages : Live(m)' => Live(m)
  BY <1>1, <1>3 DEF Live
<1>7. SourcesAreOwned'
  BY <1>0, <1>4 DEF SourceInv, SourcesAreOwned, RowOf
<1>8. RequestsHaveObjects'
  BY DEF SourceInv, RequestsHaveObjects
<1>9. SendersAreFirst'
  <2>1. \A u \in Uploads : client[u].pc \in {"reread", "send"} => client[u].demo \in Demos
    BY DEF IInv, MessagesNameJobs
  <2> QED BY <1>2, <1>4, <1>6, <2>1 DEF SourceInv, SendersAreFirst, LiveFor
<1>10. OneMessageEach'
  <2>1. \A m, n \in Messages :
          Live(m)' /\ Live(n)' /\ queue'[m].demo = queue'[n].demo => m = n
    BY <1>6 DEF SourceInv, OneMessageEach
  <2>2. ASSUME NEW m \in Messages, queue'[m].status \in {"ready", "dead"}
        PROVE  job'[queue'[m].demo].state = "queued"
    <3>1. Live(m) /\ m # msg[h]
      BY <1>0, <2>2 DEF Live, Working
    <3>2. queue[m].demo \in Demos \ {d}
      BY <1>2, <2>2, <3>1 DEF LiveFor, IInv, MessagesNameJobs
    <3> QED BY <1>4, <2>2, <3>2 DEF SourceInv, OneMessageEach
  <2>3. ASSUME NEW g \in Handlers, pc'[g] \in {"claim", "release"}
        PROVE  RowOf(g)'.state = "queued"
    <3>1. CASE g = h
      BY <1>3, <1>4, <1>5, <2>3, <3>1 DEF RowOf
    <3>2. CASE g # h
      <4>1. pc[g] \in {"claim", "release"}
        BY <1>3, <2>3, <3>2
      <4>2. demoOf(g) \in Demos \ {d}
        BY <1>2, <3>2, <4>1, WorkingConsumer DEF Working
      <4> QED BY <1>4, <1>5, <4>1, <4>2 DEF SourceInv, OneMessageEach, RowOf
    <3> QED BY <3>1, <3>2
  <2> QED BY <2>1, <2>2, <2>3 DEF OneMessageEach
<1>11. QueuedHasSource'
  <2>1. r.state = "queued" => temporary[job[d].source] = d
    BY <1>0 DEF SourceInv, OwnersHaveSources
  <2> QED BY <1>4, <2>1 DEF SourceInv, QueuedHasSource
<1>12. OwnersHaveSources'
  <2> SUFFICES ASSUME NEW g \in Handlers PROVE
        /\ pc'[g] # "unclaimable"
        /\ pc'[g] \in OwnerPc =>
              Fenced(g)' /\ seen[g].source = RowOf(g)'.source
        /\ pc'[g] \in OwnerPc \ {"head", "finish", "fail"} =>
              temporary[seen[g].source] = demoOf(g)
        /\ pc'[g] = "head" => temporary[seen[g].source] = None
    BY <1>5 DEF OwnersHaveSources, Fenced, RowOf
  <2>1. CASE g = h
    <3>1. at \notin OwnerPc \cup {"unclaimable", "head"}
      BY DEF OwnerPc, TryPc, CatchPc
    <3> QED BY <1>3, <2>1, <3>1
  <2>2. CASE g # h
    <3>1. pc[g] \in OwnerPc => pc[g] \notin {"idle", "ack"}
      BY DEF OwnerPc, TryPc, CatchPc
    <3>2. pc[g] \in OwnerPc => RowOf(g)' = RowOf(g)
      BY <1>2, <1>4, <1>5, <2>2, <3>1, WorkingConsumer DEF RowOf, Working
    <3> QED BY <1>3, <2>2, <3>2 DEF SourceInv, OwnersHaveSources, Fenced
  <2> QED BY <2>1, <2>2
<1> QED BY <1>7, <1>8, <1>9, <1>10, <1>11, <1>12 DEF SourceInv

\* The steps of an owner that leave its row and its source alone.
LEMMA OwnerStepKeeps ==
  ASSUME Undisturbed, IInv, SourceInv, NEW h \in Handlers,
         \/ Progress(h) \/ LoadSource(h) \/ Parse(h) \/ StoreDerived(h)
         \/ RecordAnalysis(h) \/ IndexAnalysis(h) \/ ConfirmDeletion(h)
         \/ Catch(h)
  PROVE  SourceInv'
<1>1. /\ pc[h] \in OwnerPc
      /\ UNCHANGED <<job, client, puts, queue, msg, temporary>>
  BY DEF Progress, ProgressPc, LoadSource, Parse, StoreDerived, RecordAnalysis,
     IndexAnalysis, ConfirmDeletion, Catch, At, OwnerPc, TryPc, CatchPc, tables,
     buckets, requests
<1>2. /\ Fenced(h) /\ seen[h] # NotClaimed
      /\ pc[h] = "head" => temporary[seen[h].source] = None
  BY <1>1, OwnerAtWork DEF SourceInv, OwnersHaveSources
<1>3. ASSUME pc[h] \notin {"head", "finish", "fail"}, UNCHANGED seen,
             \E at \in OwnerPc \ {"head", "finish"} : pc' = [pc EXCEPT ![h] = at]
      PROVE  SourceInv'
  <2>1. PICK at \in OwnerPc \ {"head", "finish"} : pc' = [pc EXCEPT ![h] = at]
    BY <1>3
  <2> QED BY <1>1, <1>3, <2>1, OwnerMoves
<1>4. CASE Progress(h)
  <2>1. /\ AfterProgress(pc[h]) \in OwnerPc \ {"head", "finish"}
        /\ pc[h] \notin {"head", "finish", "fail"}
    BY <1>4 DEF Progress, ProgressPc, AfterProgress, OwnerPc, TryPc
  <2>2. pc' = [pc EXCEPT ![h] = AfterProgress(pc[h])] /\ UNCHANGED seen
    BY <1>2, <1>4 DEF Progress, Goto
  <2> QED BY <1>3, <2>1, <2>2
<1>5. CASE LoadSource(h)
  <2>1. pc[h] = "source" /\ UNCHANGED seen
        /\ \E at \in {"start", "catch"} : pc' = [pc EXCEPT ![h] = at]
    BY <1>5 DEF LoadSource, At, Goto, Throw
  <2> QED BY <1>3, <2>1 DEF OwnerPc, TryPc, CatchPc
<1>6. CASE Parse(h)
  <2>1. pc[h] = "parse" /\ UNCHANGED seen
        /\ \E at \in {"validate", "catch"} : pc' = [pc EXCEPT ![h] = at]
    BY <1>6 DEF Parse, At, Goto, Throw
  <2> QED BY <1>3, <2>1 DEF OwnerPc, TryPc, CatchPc
<1>7. CASE StoreDerived(h)
  <2>1. pc[h] = "store" /\ UNCHANGED seen /\ pc' = [pc EXCEPT ![h] = "commit"]
    BY <1>7 DEF StoreDerived, At, Goto, ThenAudit, Undisturbed
  <2> QED BY <1>3, <2>1 DEF OwnerPc, TryPc, CatchPc
<1>8. CASE RecordAnalysis(h)
  <2>1. pc[h] = "record" /\ UNCHANGED seen
        /\ \E at \in {"index", "catch"} : pc' = [pc EXCEPT ![h] = at]
    BY <1>8 DEF RecordAnalysis, At, Goto, ThenAudit, Throw, Undisturbed
  <2> QED BY <1>3, <2>1 DEF OwnerPc, TryPc, CatchPc
<1>9. CASE IndexAnalysis(h)
  <2>1. pc[h] = "index" /\ UNCHANGED seen /\ pc' = [pc EXCEPT ![h] = "delete"]
    BY <1>9 DEF IndexAnalysis, At, Goto, ThenAudit, Undisturbed
  <2> QED BY <1>3, <2>1 DEF OwnerPc, TryPc, CatchPc
<1>10. CASE ConfirmDeletion(h)
  <2>1. pc[h] = "head" /\ UNCHANGED seen /\ pc' = [pc EXCEPT ![h] = "finish"]
    BY <1>2, <1>10 DEF ConfirmDeletion, At, Goto
  <2>2. "finish" \in OwnerPc
    BY DEF OwnerPc, TryPc
  <2> QED BY <1>1, <2>1, <2>2, OwnerMoves
<1>11. CASE Catch(h)
  <2>1. pc[h] = "catch" /\ UNCHANGED seen
        /\ pc' = [pc EXCEPT ![h] = Verdict(h, seen[h].attempt)]
    BY <1>2, <1>11 DEF Catch, At, Goto
  <2>2. Verdict(h, seen[h].attempt) \in {"defer", "purge", "retry"}
    BY DEF Verdict
  <2> QED BY <1>3, <2>1, <2>2 DEF OwnerPc, TryPc, CatchPc
<1> QED BY <1>4, <1>5, <1>6, <1>7, <1>8, <1>9, <1>10, <1>11

\* The steps that delete the source, after the result is accepted or when the
\* job is about to fail.
LEMMA DeletionKeeps ==
  ASSUME Undisturbed, IInv, SourceInv, NEW h \in Handlers,
         DeleteSource(h) \/ PurgeSource(h)
  PROVE  SourceInv'
<1>1. /\ pc[h] \in OwnerPc
      /\ UNCHANGED <<job, client, puts, queue, msg, seen>>
      /\ temporary' = [temporary EXCEPT ![seen[h].source] = None]
  BY DEF DeleteSource, PurgeSource, At, OwnerPc, TryPc, CatchPc, tables,
     requests, locals, Undisturbed
<1>2. \E at \in {"head", "fail"} : pc' = [pc EXCEPT ![h] = at]
  BY DEF DeleteSource, PurgeSource, Goto, ThenAudit, Undisturbed
<1> QED BY <1>1, <1>2, OwnerMoves DEF OwnerPc, TryPc, CatchPc

\* The steps by which an owner gives its row up.
LEMMA LeavingKeeps ==
  ASSUME Undisturbed, IInv, SourceInv, NEW h \in Handlers,
         Succeed(h) \/ Defer(h) \/ Retry(h) \/ Fail(h)
  PROVE  SourceInv'
<1>1. /\ pc[h] \in {"finish", "defer", "retry", "fail"} /\ pc[h] \in OwnerPc
      /\ UNCHANGED <<temporary, client, puts, queue, msg, seen>>
  BY DEF Succeed, Defer, Retry, Fail, CatchUpdate, At, OwnerPc, TryPc, CatchPc,
     buckets, requests, locals
<1>2. Fenced(h) /\ RowOf(h) \in Row
  BY <1>1, OwnerAtWork DEF Working
<1>3. \A state \in JobState :
        /\ Released(RowOf(h), state) \in Row
        /\ Released(RowOf(h), state).state = state
        /\ Released(RowOf(h), state).source = RowOf(h).source
  BY <1>2, ReleasedRow DEF Released, Unclaimed
<1>4. CASE Succeed(h)
  <2>1. /\ job' = [job EXCEPT ![demoOf(h)] = Released(RowOf(h), "succeeded")]
        /\ pc' = [pc EXCEPT ![h] = "ack"]
    BY <1>2, <1>4 DEF Succeed, SetRow, ThenAudit, Goto, Undisturbed
  <2> QED BY <1>1, <1>3, <2>1, OwnerLeaves DEF JobState
<1>5. CASE Fail(h)
  <2>1. /\ job' = [job EXCEPT ![demoOf(h)] = Released(RowOf(h), "failed")]
        /\ pc' = [pc EXCEPT ![h] = "ack"]
    BY <1>2, <1>5 DEF Fail, CatchUpdate, SetRow, Goto, Undisturbed
  <2> QED BY <1>1, <1>3, <2>1, OwnerLeaves DEF JobState
<1>6. CASE Retry(h)
  <2>1. /\ job' = [job EXCEPT ![demoOf(h)] = Released(RowOf(h), "queued")]
        /\ pc' = [pc EXCEPT ![h] = "release"] /\ pc[h] = "retry"
    BY <1>2, <1>6 DEF Retry, CatchUpdate, SetRow, Goto, Undisturbed, At
  <2> QED BY <1>1, <1>3, <2>1, OwnerLeaves DEF JobState
<1>7. CASE Defer(h)
  <2> DEFINE n == IF RowOf(h).attempt > 0 THEN RowOf(h).attempt - 1 ELSE 0
  <2>1. /\ job' = [job EXCEPT ![demoOf(h)] = Unclaimed("queued", RowOf(h).source, n)]
        /\ pc' = [pc EXCEPT ![h] = "release"] /\ pc[h] = "defer"
    BY <1>2, <1>7 DEF Defer, CatchUpdate, SetRow, Goto, Undisturbed, At
  <2>2. RowOf(h).source \in Uploads \cup {None} /\ n \in Nat
    BY <1>2 DEF Row
  <2>3. /\ Unclaimed("queued", RowOf(h).source, n) \in Row
        /\ Unclaimed("queued", RowOf(h).source, n).state = "queued"
    BY <2>2, UnclaimedRow DEF JobState
  <2>4. Unclaimed("queued", RowOf(h).source, n).source = RowOf(h).source
    BY DEF Unclaimed
  <2> QED BY <1>1, <2>1, <2>3, <2>4, OwnerLeaves
<1> QED BY <1>4, <1>5, <1>6, <1>7

\* The consumer acknowledges its message, or hands it back to the queue.
LEMMA SettlingKeeps ==
  ASSUME IInv, SourceInv, NEW h \in Handlers, Ack(h) \/ Release(h)
  PROVE  SourceInv'
<1>0. PICK m \in Messages : m = msg[h]
  BY WorkingConsumer DEF Ack, Release, At, Working
<1>1. /\ Working(h) /\ pc[h] \in {"ack", "release"} /\ m \in Messages
      /\ pc' = [pc EXCEPT ![h] = "idle"]
      /\ msg' = [msg EXCEPT ![h] = None]
      /\ seen' = [seen EXCEPT ![h] = NotClaimed]
      /\ UNCHANGED <<job, temporary, client, puts>>
  BY WorkingConsumer DEF Ack, Release, Done, At, Goto, tables, buckets, requests,
     Working
<1>2. /\ \A n \in Messages \ {m} : queue'[n] = queue[n]
      /\ \/ queue'[m].status = "free" /\ pc[h] = "ack"
         \/ /\ queue'[m].status \in {"ready", "dead"}
            /\ queue'[m].demo = queue[m].demo
            /\ pc[h] = "release"
  BY <1>0, <1>1 DEF Ack, Release, Returned, FreeSlot, At, IInv, HostedTypeOK, Slot
<1>3. /\ \A g \in Handlers \ {h} : pc'[g] = pc[g] /\ msg'[g] = msg[g] /\ seen'[g] = seen[g]
      /\ pc'[h] = "idle"
  BY <1>1 DEF IInv, HostedTypeOK
<1>4. \A g \in Handlers \ {h} : pc[g] # "idle" =>
        /\ msg[g] # m /\ msg[g] \in Messages
        /\ demoOf(g)' = demoOf(g) /\ RowOf(g)' = RowOf(g)
  <2>1. \A g \in Handlers \ {h} : pc[g] # "idle" => msg[g] # m /\ msg[g] \in Messages
    BY <1>0, <1>1 DEF IInv, LeasesAreExclusive
  <2> QED BY <1>1, <1>2, <1>3, <2>1 DEF demoOf, RowOf
<1>5. /\ \A n \in Messages : Live(n)' => Live(n)
      /\ \A n \in Messages : Live(n)' => queue'[n].demo = queue[n].demo
  <2>1. \A n \in Messages \ {m} : Live(n)' => Live(n)
    BY <1>2, <1>3 DEF Live
  <2>2. ASSUME Live(m)' PROVE Live(m) /\ queue'[m].demo = queue[m].demo
    <3>1. \A g \in Handlers : pc'[g] # "idle" => msg'[g] # m
      BY <1>3, <1>4
    <3>2. queue'[m].status \in {"ready", "dead"}
      BY <2>2, <3>1 DEF Live
    <3> QED BY <1>0, <1>2, <3>2 DEF Live
  <2> QED BY <1>2, <2>1, <2>2
<1>6. SourcesAreOwned' /\ RequestsHaveObjects' /\ QueuedHasSource'
  BY <1>1 DEF SourceInv, SourcesAreOwned, RequestsHaveObjects, QueuedHasSource
<1>7. SendersAreFirst'
  BY <1>1, <1>5 DEF SourceInv, SendersAreFirst, LiveFor
<1>8. OneMessageEach'
  <2>1. \A n, k \in Messages :
          Live(n)' /\ Live(k)' /\ queue'[n].demo = queue'[k].demo => n = k
    BY <1>5 DEF SourceInv, OneMessageEach
  <2>2. ASSUME NEW n \in Messages, queue'[n].status \in {"ready", "dead"}
        PROVE  job'[queue'[n].demo].state = "queued"
    <3>1. CASE n = m
      BY <1>0, <1>1, <1>2, <2>2, <3>1 DEF SourceInv, OneMessageEach, RowOf, demoOf
    <3>2. CASE n # m
      BY <1>1, <1>2, <2>2, <3>2 DEF SourceInv, OneMessageEach
    <3> QED BY <3>1, <3>2
  <2>3. \A g \in Handlers : pc'[g] \in {"claim", "release"} => RowOf(g)'.state = "queued"
    BY <1>3, <1>4 DEF SourceInv, OneMessageEach
  <2> QED BY <2>1, <2>2, <2>3 DEF OneMessageEach
<1>9. OwnersHaveSources'
  <2> SUFFICES ASSUME NEW g \in Handlers PROVE
        /\ pc'[g] # "unclaimable"
        /\ pc'[g] \in OwnerPc =>
              Fenced(g)' /\ seen'[g].source = RowOf(g)'.source
        /\ pc'[g] \in OwnerPc \ {"head", "finish", "fail"} =>
              temporary[seen'[g].source] = demoOf(g)'
        /\ pc'[g] = "head" => temporary[seen'[g].source] = None
    BY <1>1 DEF OwnersHaveSources, Fenced, RowOf, demoOf
  <2>1. CASE g = h
    BY <1>3, <2>1 DEF OwnerPc, TryPc, CatchPc
  <2>2. CASE g # h
    <3>1. pc[g] \in OwnerPc => pc[g] # "idle"
      BY DEF OwnerPc, TryPc, CatchPc
    <3> QED BY <1>3, <1>4, <2>2, <3>1 DEF SourceInv, OwnersHaveSources, Fenced
  <2> QED BY <2>1, <2>2
<1> QED BY <1>6, <1>7, <1>8, <1>9 DEF SourceInv

\* A lease that runs out leaves the row to its owner until somebody claims it,
\* which takes a message that nobody has.
LEMMA LeaseExpiresKeeps ==
  ASSUME IInv, SourceInv, NEW d \in Demos, LeaseExpires(d)
  PROVE  SourceInv'
<1>1. /\ job' = [job EXCEPT ![d].lease = "expired"]
      /\ UNCHANGED <<temporary, client, puts, queue, pc, msg, seen>>
  BY DEF LeaseExpires, buckets, requests, locals
<1>2. /\ \A e \in Demos : job'[e].state = job[e].state /\ job'[e].source = job[e].source
      /\ \A e \in Demos : job'[e].owner = job[e].owner
  BY <1>1 DEF IInv, HostedTypeOK, Row
<1>3. \A m \in Messages : Live(m)' <=> Live(m)
  BY <1>1 DEF Live
<1>4. \A h \in Handlers : demoOf(h)' = demoOf(h)
  BY <1>1 DEF demoOf
<1>5. \A h \in Handlers : pc[h] # "idle" =>
        demoOf(h) \in Demos /\ RowOf(h)'.state = RowOf(h).state
  BY <1>2, <1>4, WorkingConsumer DEF Working, RowOf
<1>6. SourcesAreOwned' /\ RequestsHaveObjects' /\ QueuedHasSource'
  BY <1>1, <1>2 DEF SourceInv, SourcesAreOwned, RequestsHaveObjects, QueuedHasSource
<1>7. SendersAreFirst'
  <2>1. \A u \in Uploads : client[u].pc \in {"reread", "send"} => client[u].demo \in Demos
    BY DEF IInv, MessagesNameJobs
  <2> QED BY <1>1, <1>2, <1>3, <2>1 DEF SourceInv, SendersAreFirst, LiveFor
<1>8. OneMessageEach'
  <2>1. \A m \in Messages : queue[m].status \in {"ready", "dead"} => queue[m].demo \in Demos
    BY DEF IInv, MessagesNameJobs
  <2> QED BY <1>1, <1>2, <1>3, <1>5, <2>1 DEF SourceInv, OneMessageEach
<1>9. OwnersHaveSources'
  <2>1. ASSUME NEW h \in Handlers, pc[h] \in OwnerPc
        PROVE  Fenced(h)' /\ RowOf(h)'.source = RowOf(h).source
    BY <1>1, <1>2, <1>4, <2>1, OwnerAtWork DEF Fenced, RowOf, Working
  <2> QED BY <1>1, <1>4, <2>1 DEF SourceInv, OwnersHaveSources
<1> QED BY <1>6, <1>7, <1>8, <1>9 DEF SourceInv

LEMMA NextSourceInv ==
  ASSUME Undisturbed, IInv, SourceInv, [Next]_vars
  PROVE  SourceInv'
<1>1. CASE UNCHANGED vars
  BY <1>1 DEF vars, tables, buckets, requests, locals, SourceInv,
     SourcesAreOwned, RequestsHaveObjects, SendersAreFirst, OneMessageEach,
     OwnersHaveSources, QueuedHasSource, LiveFor, Live, Fenced, RowOf, demoOf
<1>2. ASSUME NEW u \in Uploads, UploadStep(u) \/ LifecycleExpires(u)
      PROVE  SourceInv'
  BY <1>2, PutSourceKeeps, RequestStepKeeps, InsertOrReviveKeeps,
     SendMessageKeeps DEF UploadStep, LifecycleExpires, SendFails, Undisturbed
<1>3. ASSUME NEW h \in Handlers, HandlerStep(h)
      PROVE  SourceInv'
  <2>1. pc[h] # "unclaimable"
    BY DEF SourceInv, OwnersHaveSources
  <2>2. ~Unclaimable(h) /\ ~CallFails(h) /\ ~CatchFails(h) /\ ~Crash(h)
    BY <2>1 DEF Unclaimable, At, CallFails, CatchFails, Crash, Undisturbed
  <2> QED BY <1>3, <2>2, DeliverKeeps, ClaimKeeps, OwnerStepKeeps,
          DeletionKeeps, LeavingKeeps, SettlingKeeps DEF HandlerStep
<1>4. ASSUME NEW d \in Demos, LeaseExpires(d) PROVE SourceInv'
  BY <1>4, LeaseExpiresKeeps
<1> QED BY <1>1, <1>2, <1>3, <1>4 DEF Next, Duplicate, Undisturbed

\* A job waiting in the queue has its source: no duplicate upload, aborted
\* request or retried attempt deletes what the next attempt must read.
THEOREM SourceStays ==
  ASSUME Undisturbed
  PROVE  Spec => []QueuedHasSource
<1>1. Init => SourceInv
  BY InitSourceInv
<1>2. IInv /\ SourceInv /\ [Next]_vars => SourceInv'
  BY NextSourceInv
<1>3. SourceInv => QueuedHasSource
  BY DEF SourceInv
<1> QED BY <1>1, <1>2, <1>3, Invariant, PTL DEF Spec

\* Neither a duplicate upload nor another attempt that is cleaning up deletes
\* the source under the consumer that holds the live lease and has to read it.
THEOREM SourceStaysForOwner ==
  ASSUME Undisturbed
  PROVE  Spec => SourceKeptForOwner
<1> DEFINE Reading(h) == /\ pc[h] \in {"load", "source"} /\ pc'[h] = pc[h]
                         /\ Fenced(h) /\ RowOf(h).lease = "live"
                         /\ temporary[seen[h].source] = demoOf(h)
           Kept == \A h \in Handlers : Reading(h) =>
                      temporary'[seen[h].source] = demoOf(h)
<1>1. IInv /\ SourceInv /\ [Next]_vars /\ SourceInv' => Kept
  <2> SUFFICES ASSUME IInv, SourceInv, [Next]_vars, SourceInv' PROVE Kept
    OBVIOUS
  <2>1. ASSUME UNCHANGED temporary PROVE Kept
    BY <2>1
  <2>2. ASSUME UNCHANGED <<queue, msg, seen>> PROVE Kept
    BY <2>2 DEF SourceInv, OwnersHaveSources, OwnerPc, TryPc, demoOf
  <2>3. ASSUME NEW u \in Uploads, UploadStep(u) \/ LifecycleExpires(u)
        PROVE  UNCHANGED temporary \/ UNCHANGED <<queue, msg, seen>>
    BY <2>3 DEF UploadStep, LifecycleExpires, PutSource, CheckStoredSize,
       SelectJob, InsertJob, ReviveJob, RereadJob, DropDuplicate, SendMessage,
       SendFails, Undisturbed, UploadAborts, buckets, locals
  <2>4. ASSUME NEW h \in Handlers, HandlerStep(h)
        PROVE  UNCHANGED temporary \/ UNCHANGED <<queue, msg, seen>>
    <3>1. CASE DeleteSource(h) \/ PurgeSource(h)
      BY <3>1 DEF DeleteSource, PurgeSource, locals
    <3>2. CASE \/ \E m \in Messages : Deliver(h, m)
               \/ Claim(h) \/ Unclaimable(h) \/ Progress(h) \/ LoadSource(h)
               \/ Parse(h) \/ StoreDerived(h) \/ RecordAnalysis(h)
               \/ IndexAnalysis(h) \/ ConfirmDeletion(h)
      BY <3>2 DEF Deliver, Claim, Unclaimable, Progress, LoadSource, Parse,
         StoreDerived, RecordAnalysis, IndexAnalysis, ConfirmDeletion, buckets
    <3>3. CASE \/ Succeed(h) \/ CallFails(h) \/ Catch(h) \/ Defer(h) \/ Retry(h)
               \/ Fail(h) \/ CatchFails(h) \/ Ack(h) \/ Release(h) \/ Crash(h)
      BY <3>3 DEF Succeed, CallFails, Catch, Defer, Retry, Fail, CatchUpdate,
         CatchFails, Ack, Release, Crash, buckets
    <3> QED BY <2>4, <3>1, <3>2, <3>3 DEF HandlerStep
  <2>5. CASE UNCHANGED vars
    BY <2>1, <2>5 DEF vars, buckets
  <2>6. ASSUME NEW d \in Demos, LeaseExpires(d) PROVE Kept
    BY <2>1, <2>6 DEF LeaseExpires, buckets
  <2> QED BY <2>1, <2>2, <2>3, <2>4, <2>5, <2>6 DEF Next, Duplicate, Undisturbed
<1>2. Init => SourceInv
  BY InitSourceInv
<1>3. IInv /\ SourceInv /\ [Next]_vars => SourceInv'
  BY NextSourceInv
<1> QED BY <1>1, <1>2, <1>3, Invariant, PTL DEF Spec, SourceKeptForOwner
=============================================================================
