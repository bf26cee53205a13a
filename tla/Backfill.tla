------------------------------- MODULE Backfill -------------------------------
(***************************************************************************)
(* The operator's backfill (apps/backfill): one process that lists a       *)
(* catalogue of recordings, keeps a checkpoint of it in SQLite, and works  *)
(* off the games of the catalogue with a few concurrent loops.  A loop     *)
(* downloads an item into the shared object store, expands and parses it,  *)
(* publishes the result to the hosted service, and releases the objects.   *)
(*                                                                         *)
(* Every await is a step.  The process may be killed between two of them   *)
(* and started again: checkpoint, store and hosted service survive.  One   *)
(* process runs at a time.                                                 *)
(***************************************************************************)
EXTENDS Naturals, FiniteSets

CONSTANTS
    Items,          \* recordings the source may list
    Groups,         \* its games
    Workers,        \* the loops of parallel(), one per concurrency
    None,           \* no item
    GroupOf,        \* the game of an item
    SourceOf,       \* the hash of its compressed file
    DemoOf,         \* the hash of the expanded demo
    Refused,        \* items whose content is not acceptable
    Limit,          \* --max-demos
    Faults,         \* the kinds of failure the environment produces
    FailureCap      \* bound: how many of them

FaultKinds == {"crash",     \* the process is killed
               "abort",     \* the first SIGINT or SIGTERM
               "call",      \* a download, a parser or a hosted call fails
               "slow"}      \* a lease of ten minutes runs out under its owner

Sources == {SourceOf[i] : i \in Items}
Demos   == {DemoOf[i] : i \in Items}
Objects == Sources \cup Demos

ASSUME BackfillAssumption ==
    /\ GroupOf \in [Items -> Groups]
    /\ IsFiniteSet(Workers)
    /\ None \notin Items
    /\ Sources \cap Demos = {}
    /\ Objects \cap Workers = {}
    /\ Workers \cap {"absent", "cut", "whole"} = {}
    /\ Refused \subseteq Items
    /\ Limit \in Nat \ {0}
    /\ Faults \subseteq FaultKinds
    /\ FailureCap \in Nat

VARIABLES
    row,        \* source_items: state and whether its retry is due
    quiet,      \* the games that are settled and mature
    phase,      \* where the process is
    aborted,    \* the abort signal
    selected,   \* the items of each game this run works on
    waiting,    \* games no loop has taken
    pc,         \* where each loop is
    todo,       \* what is left of its game
    item,       \* its item
    held,       \* the objects it has retained
    active,     \* activeObjects, the reference counts
    store,      \* the content-addressed store
    temporary,  \* demos whose temporary file is open
    derived,    \* results in the hosted bucket
    job,        \* hosted_jobs, one row per demo
    analysed,   \* hosted_analyses, with its game
    finalising, \* games the last loop has yet to look at
    grouped,    \* hosted_source_groups: the demos of each game
    failures    \* failures so far

loop     == <<pc, todo, item, held>>
files    == <<active, store, temporary>>
hosted   == <<derived, job, analysed>>
run      == <<phase, aborted, selected, waiting, finalising>>
vars     == <<row, quiet, run, loop, files, hosted, grouped, failures>>

-----------------------------------------------------------------------------
(* Values *)

ItemState == {"unknown", "discovered", "processing", "complete", "retryable",
              "permanent"}

LoopPc == {"free", "next", "download", "copy", "retain source", "open source",
           "open demo", "rename demo", "retain demo", "parse", "upload",
           "enqueue", "claim", "record", "finish", "complete", "undo",
           "fail", "give up", "release", "unlink demo", "unlink source"}

\* owned: this process is the lease owner; leased: the lease has not run out.
Job == [state : {"absent", "queued", "running", "succeeded", "failed"},
        owned : BOOLEAN, leased : BOOLEAN]

\* A file of the store is being copied by a loop, was left cut short, or whole.
File == {"absent", "cut", "whole"} \cup Workers

BackfillTypeOK ==
    /\ row \in [Items -> [state : ItemState, due : BOOLEAN]]
    /\ quiet \subseteq Groups
    /\ phase \in {"stopped", "discover", "work", "finalise"}
    /\ aborted \in BOOLEAN
    /\ selected \in [Groups -> SUBSET Items]
    /\ waiting \subseteq Groups
    /\ pc \in [Workers -> LoopPc]
    /\ todo \in [Workers -> SUBSET Items]
    /\ item \in [Workers -> Items \cup {None}]
    /\ held \in [Workers -> SUBSET Objects]
    /\ active \in [Objects -> Nat]
    /\ store \in [Objects -> File]
    /\ temporary \subseteq Demos
    /\ derived \subseteq Demos
    /\ job \in [Demos -> Job]
    /\ analysed \subseteq Demos
    /\ finalising \subseteq Groups
    /\ grouped \in [Groups -> SUBSET Demos]
    /\ failures \in Nat

NothingSelected == [g \in Groups |-> {}]

Init ==
    /\ row = [i \in Items |-> [state |-> "unknown", due |-> TRUE]]
    /\ quiet = {}
    /\ phase = "stopped"
    /\ aborted = FALSE
    /\ selected = NothingSelected
    /\ waiting = {}
    /\ pc = [w \in Workers |-> "free"]
    /\ todo = [w \in Workers |-> {}]
    /\ item = [w \in Workers |-> None]
    /\ held = [w \in Workers |-> {}]
    /\ active = [o \in Objects |-> 0]
    /\ store = [o \in Objects |-> "absent"]
    /\ temporary = {}
    /\ derived = {}
    /\ job = [d \in Demos |-> [state |-> "absent", owned |-> FALSE,
                               leased |-> FALSE]]
    /\ analysed = {}
    /\ finalising = {}
    /\ grouped = [g \in Groups |-> {}]
    /\ failures = 0

Listed(g)   == {i \in Items : GroupOf[i] = g /\ row[i].state # "unknown"}
Complete(i) == row[i].state = "complete"

SetRow(i, state, due) ==
    row' = [row EXCEPT ![i] = [state |-> state, due |-> due]]

-----------------------------------------------------------------------------
(* Discovery and selection: the checkpoint *)

Start ==
    /\ phase = "stopped"
    /\ phase' = "discover"
    /\ UNCHANGED <<row, quiet, aborted, selected, waiting, finalising, loop,
                   files, hosted, grouped, failures>>

\* Another moment without a new member: the game is settled, and its chapters
\* reach the minimum.
Settle(g) ==
    /\ g \notin quiet
    /\ quiet' = quiet \cup {g}
    /\ UNCHANGED <<row, run, loop, files, hosted, grouped, failures>>

\* upsertDiscovered inserts what is new and keeps the state of what is known.
Upserted(new) ==
    [i \in Items |-> IF i \in new /\ row[i].state = "unknown"
                     THEN [state |-> "discovered", due |-> TRUE]
                     ELSE row[i]]

\* A game with a new member is settled only if that member is an old one.
Disturbed(new) == {GroupOf[i] : i \in {k \in new : row[k].state = "unknown"}}

\* Slip: an item that a killed run left in processing is not selected again.
EligibleIdle(rows, settled, g) ==
    {i \in Items : /\ GroupOf[i] = g /\ g \in settled
                   /\ rows[i].state \in {"discovered", "retryable"}
                   /\ rows[i].due}

\* pending: unfinished items that are due, of settled games, ...
Eligible(rows, settled, g) ==
    {i \in Items : /\ GroupOf[i] = g /\ g \in settled
                   /\ rows[i].state \notin {"unknown", "complete", "permanent"}
                   /\ rows[i].due}

Total(choice, games) == Cardinality(UNION {choice[g] : g \in games})

\* ... whole games in the order of the catalogue, here any order: the first
\* whatever its size, each further one if it fits, until the limit is reached.
Selection(choice, games) ==
    /\ \A g \in games : choice[g] # {}
    /\ Total(choice, games) <= Limit \/ Cardinality(games) = 1
    /\ \A g \in Groups \ games : choice[g] # {} =>
          /\ games # {}
          /\ Total(choice, games) + Cardinality(choice[g]) > Limit

\* Nothing is awaited between the listing and the selection.
Discover ==
    /\ phase = "discover"
    /\ \E new \in SUBSET Items : \E old \in SUBSET Disturbed(new) :
          /\ row' = Upserted(new)
          /\ quiet' = (quiet \ Disturbed(new)) \cup old
    /\ LET choice == [g \in Groups |-> Eligible(row', quiet', g)]
       IN \E games \in SUBSET Groups :
             /\ Selection(choice, games)
             /\ selected' = [g \in Groups |-> IF g \in games THEN choice[g]
                                                             ELSE {}]
             /\ waiting' = games
    /\ phase' = "work"
    /\ UNCHANGED <<aborted, finalising, loop, files, hosted, grouped, failures>>

Fails == failures < FailureCap /\ failures' = failures + 1

\* The process ends: by itself, by an error, or killed.  The next one has another
\* id, so the leases of this one are not its own.
Stop ==
    /\ phase' = "stopped"
    /\ job' = [d \in Demos |-> [job[d] EXCEPT !.owned = FALSE]]
    /\ aborted' = FALSE
    /\ selected' = NothingSelected
    /\ waiting' = {}
    /\ finalising' = {}

DiscoveryFails ==
    /\ phase = "discover"
    /\ \/ "call" \in Faults /\ Fails
       \/ aborted /\ UNCHANGED failures
    /\ Stop
    /\ UNCHANGED <<row, quiet, loop, files, derived, analysed, grouped>>

Abort ==
    /\ "abort" \in Faults /\ Fails
    /\ phase # "stopped" /\ ~aborted
    /\ aborted' = TRUE
    /\ UNCHANGED <<row, quiet, phase, selected, waiting, finalising, loop,
                   files, hosted, grouped>>

\* The retry time of a failed item passes: 2^attempts minutes, a day at most.
FallDue(i) ==
    /\ ~row[i].due
    /\ SetRow(i, row[i].state, TRUE)
    /\ UNCHANGED <<quiet, run, loop, files, hosted, grouped, failures>>

-----------------------------------------------------------------------------
(* A loop: one game after the other, its items one by one *)

Goto(w, to)       == pc' = [pc EXCEPT ![w] = to]
Step(w, from, to) == pc[w] = from /\ Goto(w, to)

\* The chronological order inside a game does not matter to the properties.
TakeGroup(w, g) ==
    /\ phase = "work"
    /\ g \in waiting
    /\ Step(w, "free", "next")
    /\ waiting' = waiting \ {g}
    /\ todo' = [todo EXCEPT ![w] = selected[g]]
    /\ UNCHANGED <<row, quiet, phase, aborted, selected, finalising, item, held,
                   files, hosted, grouped, failures>>

NextItem(w, i) ==
    /\ i \in todo[w]
    /\ ~aborted
    /\ Step(w, "next", "download")
    /\ todo' = [todo EXCEPT ![w] = @ \ {i}]
    /\ item' = [item EXCEPT ![w] = i]
    /\ SetRow(i, "processing", TRUE)
    /\ UNCHANGED <<quiet, run, held, files, hosted, grouped, failures>>

LeaveGroup(w) ==
    /\ todo[w] = {} \/ aborted
    /\ Step(w, "next", "free")
    /\ todo' = [todo EXCEPT ![w] = {}]
    /\ item' = [item EXCEPT ![w] = None]
    /\ UNCHANGED <<row, quiet, run, held, files, hosted, grouped, failures>>

Source(w) == SourceOf[item[w]]
Demo(w)   == DemoOf[item[w]]

\* acquire copies the finished download to its hash with COPYFILE_EXCL; a file
\* that exists is taken for the object, whole or not.
Download(w) ==
    /\ pc[w] = "download"
    /\ IF store[Source(w)] = "absent"
       THEN Goto(w, "copy") /\ store' = [store EXCEPT ![Source(w)] = w]
       ELSE Goto(w, "retain source") /\ UNCHANGED store
    /\ UNCHANGED <<row, quiet, run, todo, item, held, active, temporary, hosted,
                   grouped, failures>>

\* The file may have been unlinked meanwhile: then the copy goes nowhere.
Copied(w) ==
    /\ Step(w, "copy", "retain source")
    /\ store' = IF store[Source(w)] = w THEN [store EXCEPT ![Source(w)] = "whole"]
                                        ELSE store
    /\ UNCHANGED <<row, quiet, run, todo, item, held, active, temporary, hosted,
                   grouped, failures>>

\* Slip: one reference however many loops hold the object.
RetainOnce(w, o) ==
    /\ active' = [active EXCEPT ![o] = 1]
    /\ held' = [held EXCEPT ![w] = @ \cup {o}]

Retain(w, o) ==
    /\ active' = [active EXCEPT ![o] = @ + 1]
    /\ held' = [held EXCEPT ![w] = @ \cup {o}]

RetainObject(w) ==
    /\ \/ Step(w, "retain source", "open source") /\ Retain(w, Source(w))
       \/ Step(w, "retain demo", "parse") /\ Retain(w, Demo(w))
    /\ UNCHANGED <<row, quiet, run, todo, item, store, temporary, hosted,
                   grouped, failures>>

\* readFile and prepareUploadedDemo: a missing file is a retryable error; a
\* file cut short fails in one way or the other, depending on where it ends.
OpenSource(w) ==
    /\ \/ /\ Step(w, "open source", "open demo")
          /\ store[Source(w)] = "whole" /\ item[w] \notin Refused
       \/ Step(w, "open source", "fail") /\ store[Source(w)] # "whole"
       \/ /\ Step(w, "open source", "give up")
          /\ \/ store[Source(w)] = "whole" /\ item[w] \in Refused
             \/ store[Source(w)] \notin {"absent", "whole"}
    /\ UNCHANGED <<row, quiet, run, todo, item, held, files, hosted, grouped,
                   failures>>

\* put: a temporary file named by hash and process, then a rename.  When another
\* loop has the temporary file open, put returns before there is an object.
OpenTemporary(w) ==
    /\ pc[w] = "open demo"
    /\ IF Demo(w) \in temporary
       THEN Goto(w, "retain demo") /\ UNCHANGED temporary
       ELSE /\ Goto(w, "rename demo")
            /\ temporary' = temporary \cup {Demo(w)}
    /\ UNCHANGED <<row, quiet, run, todo, item, held, active, store, hosted,
                   grouped, failures>>

RenameTemporary(w) ==
    /\ Step(w, "rename demo", "retain demo")
    /\ temporary' = temporary \ {Demo(w)}
    /\ store' = [store EXCEPT ![Demo(w)] = "whole"]
    /\ UNCHANGED <<row, quiet, run, todo, item, held, active, hosted, grouped,
                   failures>>

\* analyzeLocalDemo checks the stored demo against its hash.
Parse(w) ==
    /\ pc[w] = "parse"
    /\ IF store[Demo(w)] = "whole" THEN Goto(w, "upload")
                                   ELSE Goto(w, "fail")
    /\ UNCHANGED <<row, quiet, run, todo, item, held, files, hosted, grouped,
                   failures>>

-----------------------------------------------------------------------------
(* publish *)

\* Slip: the job is created although R2 did not confirm the artifact.
UploadUnverified(w) ==
    /\ Step(w, "upload", "enqueue")
    /\ \/ derived' = derived \cup {Demo(w)}
       \/ UNCHANGED derived
    /\ UNCHANGED <<row, quiet, run, todo, item, held, files, job, analysed,
                   grouped, failures>>

\* The result is put and confirmed by its size and hash.
Upload(w) ==
    /\ Step(w, "upload", "enqueue")
    /\ derived' = derived \cup {Demo(w)}
    /\ UNCHANGED <<row, quiet, run, todo, item, held, files, job, analysed,
                   grouped, failures>>

SetJob(d, state, owned) ==
    job' = [job EXCEPT ![d] = [state |-> state, owned |-> owned,
                               leased |-> owned]]

\* enqueue inserts the job or revives a failed one; a job that succeeded before
\* is taken as it is, if it holds the same analysis and has a game.
Enqueue(w) ==
    /\ pc[w] = "enqueue"
    /\ IF job[Demo(w)].state = "succeeded"
       THEN Goto(w, IF Demo(w) \in analysed THEN "complete" ELSE "fail")
       ELSE Goto(w, "claim")
    /\ IF job[Demo(w)].state \in {"absent", "failed"}
       THEN SetJob(Demo(w), "queued", FALSE)
       ELSE UNCHANGED job
    /\ UNCHANGED <<row, quiet, run, todo, item, held, files, derived, analysed,
                   grouped, failures>>

Claimable(d) == \/ job[d].state = "queued"
                \/ job[d].state = "running" /\ ~job[d].leased

Claim(w) ==
    /\ pc[w] = "claim"
    /\ IF Claimable(Demo(w))
       THEN Goto(w, "record") /\ SetJob(Demo(w), "running", TRUE)
       ELSE Goto(w, "fail") /\ UNCHANGED job
    /\ UNCHANGED <<row, quiet, run, todo, item, held, files, derived, analysed,
                   grouped, failures>>

\* recordAnalysis, with the game and the statistics of the demo.
Record(w) ==
    /\ Step(w, "record", "finish")
    /\ analysed' = analysed \cup {Demo(w)}
    /\ UNCHANGED <<row, quiet, run, todo, item, held, files, derived, job,
                   grouped, failures>>

\* Every loop of a process names the same lease owner.
Owned(d) == job[d].state = "running" /\ job[d].owned

\* Slip: a lost lease is not an error.
FinishUnchecked(w) ==
    /\ Step(w, "finish", "complete")
    /\ IF Owned(Demo(w)) THEN SetJob(Demo(w), "succeeded", FALSE)
                         ELSE UNCHANGED job
    /\ UNCHANGED <<row, quiet, run, todo, item, held, files, derived, analysed,
                   grouped, failures>>

Finish(w) ==
    /\ pc[w] = "finish"
    /\ IF Owned(Demo(w))
       THEN Goto(w, "complete") /\ SetJob(Demo(w), "succeeded", FALSE)
       ELSE Goto(w, "undo") /\ UNCHANGED job
    /\ UNCHANGED <<row, quiet, run, todo, item, held, files, derived, analysed,
                   grouped, failures>>

\* finish(failed) in the catch block of publish, whose own errors are dropped.
Undo(w) ==
    /\ Step(w, "undo", "fail")
    /\ IF Owned(Demo(w)) THEN SetJob(Demo(w), "failed", FALSE) ELSE UNCHANGED job
    /\ UNCHANGED <<row, quiet, run, todo, item, held, files, derived, analysed,
                   grouped, failures>>

-----------------------------------------------------------------------------
(* The end of an item *)

CompleteItem(w) ==
    /\ Step(w, "complete", "release")
    /\ SetRow(item[w], "complete", TRUE)
    /\ UNCHANGED <<quiet, run, todo, item, held, files, hosted, grouped,
                   failures>>

\* Slip: the objects of a failed item are not released.
FailItemUnreleased(w) ==
    /\ \/ Step(w, "fail", "next") /\ SetRow(item[w], "retryable", FALSE)
       \/ Step(w, "give up", "next") /\ SetRow(item[w], "permanent", TRUE)
    /\ UNCHANGED <<quiet, run, todo, item, held, files, hosted, grouped,
                   failures>>

\* permanent() looks at the text of the error.
FailItem(w) ==
    /\ \/ Step(w, "fail", "release") /\ SetRow(item[w], "retryable", FALSE)
       \/ Step(w, "give up", "release") /\ SetRow(item[w], "permanent", TRUE)
    /\ UNCHANGED <<quiet, run, todo, item, held, files, hosted, grouped,
                   failures>>

\* A call throws: what it was to do is not done, or was done one step earlier and
\* its answer is lost.  A lost answer of claim fails the item with the job claimed.
CallFails(w) ==
    /\ \/ "call" \in Faults /\ Fails
       \/ aborted /\ pc[w] \in {"download", "parse"} /\ UNCHANGED failures
    /\ \/ /\ pc[w] \in {"download", "parse", "upload", "enqueue", "claim",
                        "record", "complete"}
          /\ Goto(w, "fail")
       \/ /\ pc[w] \in {"record", "finish"}
          /\ Goto(w, "undo")
       \/ Step(w, "undo", "fail")
    /\ UNCHANGED <<row, quiet, run, todo, item, held, files, hosted, grouped>>

\* release(demoHash), then release(sourceHash): the last reference unlinks.
Release(w) ==
    /\ pc[w] = "release"
    /\ IF held[w] = {}
       THEN Goto(w, "next") /\ UNCHANGED <<held, active>>
       ELSE LET o == IF Demo(w) \in held[w] THEN Demo(w) ELSE Source(w)
            IN /\ held' = [held EXCEPT ![w] = @ \ {o}]
               /\ active' = [active EXCEPT ![o] = @ - 1]
               /\ Goto(w, IF active[o] > 1 THEN "release"
                          ELSE IF o = Demo(w) THEN "unlink demo"
                                              ELSE "unlink source")
    /\ UNCHANGED <<row, quiet, run, todo, item, store, temporary, hosted,
                   grouped, failures>>

Unlink(w) ==
    /\ \/ /\ Step(w, "unlink demo", "release")
          /\ store' = [store EXCEPT ![Demo(w)] = "absent"]
       \/ /\ Step(w, "unlink source", "release")
          /\ store' = [store EXCEPT ![Source(w)] = "absent"]
    /\ UNCHANGED <<row, quiet, run, todo, item, held, active, temporary, hosted,
                   grouped, failures>>

-----------------------------------------------------------------------------
(* Finalisation *)

AllFree == waiting = {} /\ \A w \in Workers : pc[w] = "free"

BeginFinalise ==
    /\ phase = "work"
    /\ AllFree
    /\ phase' = "finalise"
    /\ finalising' = {g \in Groups : selected[g] # {}}
    /\ UNCHANGED <<row, quiet, aborted, selected, waiting, loop, files, hosted,
                   grouped, failures>>

\* Slip: the jobs of this run only.
JobIdsOfRun(g) == {DemoOf[i] : i \in {k \in selected[g] : Complete(k)}}

\* completedJobIdsForGroup: nothing unless every listed member is complete.
CompletedJobIds(g) == IF \A i \in Listed(g) : Complete(i)
                      THEN {DemoOf[i] : i \in Listed(g)}
                      ELSE {}

FinaliseGroup(g) ==
    /\ g \in finalising
    /\ finalising' = finalising \ {g}
    /\ grouped' = [grouped EXCEPT ![g] = @ \cup CompletedJobIds(g)]
    /\ UNCHANGED <<row, quiet, phase, aborted, selected, waiting, loop, files,
                   hosted, failures>>

\* An error of one game (a failed call, or demos that name different campaigns)
\* ends the run: the games after it are not looked at.
FinaliseFails(g) ==
    /\ g \in finalising /\ CompletedJobIds(g) # {}
    /\ "call" \in Faults /\ Fails
    /\ Stop
    /\ UNCHANGED <<row, quiet, loop, files, derived, analysed, grouped>>

EndRun ==
    /\ phase = "finalise"
    /\ finalising = {}
    /\ Stop
    /\ UNCHANGED <<row, quiet, loop, files, derived, analysed, grouped, failures>>

-----------------------------------------------------------------------------
(* Time and crashes *)

Publishing(d) ==
    \E w \in Workers : pc[w] \in {"record", "finish", "undo"} /\ Demo(w) = d

\* Ten minutes after a claim, while a loop still publishes only if it is slow.
LeaseRunsOut(d) ==
    /\ job[d].leased
    /\ Publishing(d) => "slow" \in Faults
    /\ job' = [job EXCEPT ![d].leased = FALSE]
    /\ UNCHANGED <<row, quiet, run, loop, files, derived, analysed, grouped,
                   failures>>

\* Killed: memory is lost, files being copied stay as they are.
Crash ==
    /\ "crash" \in Faults /\ Fails
    /\ phase # "stopped"
    /\ Stop
    /\ pc' = [w \in Workers |-> "free"]
    /\ todo' = [w \in Workers |-> {}]
    /\ item' = [w \in Workers |-> None]
    /\ held' = [w \in Workers |-> {}]
    /\ active' = [o \in Objects |-> 0]
    /\ store' = [o \in Objects |-> IF store[o] \in Workers THEN "cut" ELSE store[o]]
    /\ temporary' = {}
    /\ UNCHANGED <<row, quiet, derived, analysed, grouped>>

-----------------------------------------------------------------------------

LoopStep(w) ==
    \/ \E g \in Groups : TakeGroup(w, g)
    \/ \E i \in Items : NextItem(w, i)
    \/ LeaveGroup(w)
    \/ Download(w) \/ Copied(w) \/ RetainObject(w) \/ OpenSource(w)
    \/ OpenTemporary(w) \/ RenameTemporary(w) \/ Parse(w)
    \/ Upload(w) \/ Enqueue(w) \/ Claim(w) \/ Record(w) \/ Finish(w) \/ Undo(w)
    \/ CompleteItem(w) \/ FailItem(w) \/ Release(w) \/ Unlink(w)

RunStep ==
    \/ Start \/ Discover \/ BeginFinalise \/ EndRun
    \/ \E g \in Groups : FinaliseGroup(g)

Next ==
    \/ RunStep
    \/ \E w \in Workers : LoopStep(w) \/ CallFails(w)
    \/ \E g \in Groups : Settle(g) \/ FinaliseFails(g)
    \/ \E i \in Items : FallDue(i)
    \/ \E d \in Demos : LeaseRunsOut(d)
    \/ DiscoveryFails \/ Abort \/ Crash

Spec == Init /\ [][Next]_vars

-----------------------------------------------------------------------------
(* Safety *)

\* An item marked complete is published: its hosted job succeeded and holds the
\* analysis, although loops of one process share a lease owner and may fail or
\* take over each other's job.
CompleteIsPublished ==
    \A i \in Items : Complete(i) =>
        job[DemoOf[i]].state = "succeeded" /\ DemoOf[i] \in analysed

\* "Only after verification does the application create" a job: whatever crashes
\* and retries did, a job and a reference to a result mean the result is stored.
JobsHaveResults ==
    \A d \in Demos : job[d].state # "absent" \/ d \in analysed => d \in derived

\* activeObjects counts exactly the loops that hold an object.
CountsAreUses ==
    \A o \in Objects : active[o] = Cardinality({w \in Workers : o \in held[w]})

\* When the loops of a run that was not killed are done, no bytes of a recording
\* are left in the store; and when it ends by itself, each of its games whose listed
\* members are all complete is one hosted game that holds all of them, those of
\* earlier runs too.
RunsEndClean ==
    phase = "finalise" =>
        /\ \A o \in Objects : store[o] = "absent"
        /\ finalising = {} =>
              \A g \in Groups : selected[g] # {} /\ (\A i \in Listed(g) : Complete(i)) =>
                  \A i \in Listed(g) : DemoOf[i] \in grouped[g]

\* A hosted game holds succeeded jobs only, and is never formed from a part of
\* what the catalogue lists.
GamesAreWhole ==
    [][\A g \in Groups : grouped'[g] # grouped[g] =>
          \A i \in Listed(g) : /\ DemoOf[i] \in grouped'[g]
                               /\ job[DemoOf[i]].state = "succeeded"]_vars

-----------------------------------------------------------------------------
(* Liveness *)

\* The operator runs the command again and again, awaits settle, time passes.
FairSpec ==
    /\ Spec
    /\ WF_vars(RunStep)
    /\ \A w \in Workers : WF_vars(LoopStep(w))
    /\ \A g \in Groups : WF_vars(Settle(g))
    /\ \A i \in Items : WF_vars(FallDue(i))
    /\ \A d \in Demos : WF_vars(LeaseRunsOut(d))

\* A listed item is published or given up: killed processes, leases they leave,
\* failed calls and the demo limit only delay it.
ListedItemEnds ==
    \A i \in Items : row[i].state = "discovered"
        ~> row[i].state \in {"complete", "permanent"}
=============================================================================
