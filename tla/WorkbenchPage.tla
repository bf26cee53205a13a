----------------------------- MODULE WorkbenchPage -----------------------------
(***************************************************************************)
(* One page of the local workbench and the API it calls: the upload items  *)
(* of apps/web/src/App.tsx, their uploads, polls and reanalyses, routes to *)
(* a saved game and to a saved analysis, and the refresh of the games when *)
(* all is done (apps/web/src/api.ts, apps/api/src/server.ts).              *)
(*                                                                         *)
(* A call is answered by the server at one moment and received by the page *)
(* at a later one; calls of different items overtake each other.  React's  *)
(* effect is part of the step that changes the items.  Jobs are those of   *)
(* this page: other clients may cancel them, and add none.  A running job  *)
(* or item is "queued" here: the page tells them apart in words only.      *)
(***************************************************************************)
EXTENDS Integers, Sequences, FiniteSets

LOCAL INSTANCE FiniteSetsExt
LOCAL INSTANCE Functions
LOCAL INSTANCE SequencesExt

CONSTANTS
    Batches,     \* sequences of demos the user may select at once
    Saved,       \* the succeeded jobs the server starts with
    Nothing,     \* not there, or not yet
    Null,        \* an answer without an analysis
    Failure,     \* the answer of a call that failed
    MaxDemos,    \* MAX_DEMOS
    MaxActs,     \* bound: what the user does
    MaxFailures  \* bound: calls that fail, and jobs that do

ASSUME PageAssumption == MaxDemos \in Nat /\ MaxActs \in Nat /\ MaxFailures \in Nat

VARIABLES
    items,      \* the items, in order: [demo, state, job, shown, calls]
    route,      \* the call for a saved game: Nothing, or [game, answer]
    error,      \* uploadError is set by a failed reanalysis
    refreshed,  \* refreshedGames
    refresh,    \* the refresh under way: a function from items to answers
    jobs,       \* the jobs of the server: [demo, state, upload, game]
    created,    \* games created so far; older games have smaller numbers
    failures,   \* calls that failed
    acts        \* what the user did, in order: "open" for a route, "add", "reanalyze"

page == <<items, route, error, refreshed, refresh, acts>>
server == <<jobs, created>>
pageVars == <<page, server, failures>>

-----------------------------------------------------------------------------
\* What an item waits for: an upload, the reanalysis of a job or news of one, on the
\* path of the function that will handle a failure.
Call(path, kind, job) == [path |-> path, kind |-> kind, job |-> job, answer |-> Nothing]

Working(item) == item.state \in {"uploading", "queued"}
Completed(list) == {i \in DOMAIN list : list[i].state = "succeeded" /\ list[i].shown # Nothing}
IsWorking == \E i \in DOMAIN items : Working(items[i])

\* Files are added in the phases landing and results, nothing is asked in the others.
Phase ==
    IF route # Nothing THEN "loading"
    ELSE IF items = << >> THEN "landing"
    ELSE IF IsWorking \/ Completed(items) = {} THEN "loading"
    ELSE "results"

\* The analysis of a job, as the server gives it: the job's game is looked up.
AnalysisOf(j) == [job |-> j, game |-> jobs[j].game]

\* A demo that was analysed twice is two items of its game.
SavedItem(j) ==
    [demo |-> jobs[j].demo, state |-> "succeeded", job |-> Nothing, shown |-> AnalysisOf(j),
     calls |-> << >>]

JobOf(d, state, upload) == [demo |-> d, state |-> state, upload |-> upload, game |-> Nothing]
Games(list) == {list[j].game : j \in DOMAIN list} \ {Nothing}
Demos == UNION {Range(batch) : batch \in Batches}

\* The item of an analysis that is loading.
RouteItem(j) ==
    [demo |-> jobs[j].demo, state |-> "queued", job |-> Nothing, shown |-> Nothing,
     calls |-> <<Call("route", "poll", j)>>]

\* The page is opened at no route, at a game, which may not exist, or at the analysis
\* of a job, which may wait or have failed.
PageInit ==
    /\ created = Max({0} \cup Games(Saved))
    /\ \/ jobs = Saved /\ items = << >> /\ route = Nothing /\ acts = << >>
       \/ /\ jobs = Saved /\ items = << >> /\ acts = <<"open">>
          /\ route \in {[game |-> g, answer |-> Nothing] : g \in 1..created + 1}
       \/ /\ jobs \in {Saved} \cup
                {Append(Saved, JobOf(d, state, FALSE)) : d \in Demos, state \in {"queued", "failed"}}
          /\ items = <<RouteItem(Len(jobs))>> /\ route = Nothing /\ acts = <<"open">>
    /\ error = FALSE /\ refreshed = FALSE /\ refresh = << >> /\ failures = 0

-----------------------------------------------------------------------------
(* The effect that refreshes the games *)

\* Slip: as soon as an analysis is there.
NeedsRefreshEarly(list) == ~refreshed /\ Completed(list) # {}

NeedsRefresh(list) ==
    /\ ~refreshed /\ Completed(list) # {}
    /\ \A i \in DOMAIN list : ~Working(list[i])

\* The new items, and once in the life of a page the calls for all jobs of what
\* has been completed.
Render(list) ==
    /\ items' = list
    /\ IF NeedsRefresh(list)
       THEN /\ refreshed' = TRUE
            /\ refresh' = [i \in Completed(list) |->
                             [job |-> list[i].job,
                              answer |-> IF list[i].job = Nothing THEN Null ELSE Nothing]]
       ELSE UNCHANGED <<refreshed, refresh>>

-----------------------------------------------------------------------------
(* The user *)

\* addFiles
AddFiles(batch) ==
    /\ Phase \in {"landing", "results"}
    /\ Len(items) + Len(batch) <= MaxDemos /\ Len(acts) < MaxActs
    /\ Render(items \o [n \in 1..Len(batch) |->
                [demo |-> batch[n], state |-> "uploading", job |-> Nothing, shown |-> Nothing,
                 calls |-> <<Call("upload", "upload", Nothing)>>]])
    /\ error' = FALSE /\ acts' = Append(acts, "add")
    /\ UNCHANGED <<route, server, failures>>

\* reanalyzeLegacy: every target keeps its state until its new job is there, and may
\* be asked for once more.
Reanalyze ==
    /\ Phase = "results" /\ Len(acts) < MaxActs
    /\ items' = [i \in DOMAIN items |->
                   IF i \notin Completed(items) THEN items[i]
                   ELSE [items[i] EXCEPT !.calls = Append(@, Call("again", "reanalyze",
                            IF items[i].job # Nothing THEN items[i].job ELSE items[i].shown.job))]]
    /\ acts' = Append(acts, "reanalyze")
    /\ UNCHANGED <<route, error, refreshed, refresh, server, failures>>

-----------------------------------------------------------------------------
(* The server *)

\* What is asked, and the jobs that leaves: an upload finds the job of an earlier one
\* by its digest, a reanalysis is a new job of the same demo.
Uploaded(demo) ==
    LET known == {j \in DOMAIN jobs : jobs[j].upload /\ jobs[j].demo = demo}
    IN IF known # {} THEN [jobs |-> jobs, job |-> Max(known)]
       ELSE [jobs |-> Append(jobs, JobOf(demo, "queued", TRUE)), job |-> Len(jobs) + 1]

Again(j) ==
    [jobs |-> Append(jobs, JobOf(jobs[j].demo, "queued", FALSE)), job |-> Len(jobs) + 1]

Polled(j) ==
    [jobs |-> jobs, state |-> jobs[j].state,
     shown |-> IF jobs[j].state = "succeeded" THEN AnalysisOf(j) ELSE Nothing]

Reply(demo, call) ==
    CASE call.kind = "upload" -> Uploaded(demo)
      [] call.kind = "reanalyze" -> Again(call.job)
      [] call.kind = "poll" -> Polled(call.job)

\* The bound on failures: one budget for calls and for jobs.
MayFail ==
    failures + Cardinality({j \in DOMAIN jobs : jobs[j].state \in {"failed", "cancelled"}}) < MaxFailures

Asked(i, k) == k \in DOMAIN items[i].calls /\ items[i].calls[k].answer = Nothing

Answer(i, k) ==
    /\ Asked(i, k)
    /\ LET reply == Reply(items[i].demo, items[i].calls[k])
           told == [f \in DOMAIN reply \ {"jobs"} |-> reply[f]]
       IN /\ jobs' = reply.jobs
          /\ items' = [items EXCEPT ![i].calls[k].answer = told]
    /\ UNCHANGED <<route, error, refreshed, refresh, acts, created, failures>>

FailCall(i, k) ==
    /\ Asked(i, k) /\ MayFail
    /\ items' = [items EXCEPT ![i].calls[k].answer = Failure]
    /\ failures' = failures + 1
    /\ UNCHANGED <<route, error, refreshed, refresh, acts, server>>

\* The worker takes the oldest job that waits.
Oldest(j) == jobs[j].state = "queued" /\ \A k \in 1..j - 1 : jobs[k].state # "queued"

\* A success puts the job into the oldest of the games it belongs to, which merges
\* the others; that of an earlier job of the demo is among them.  (Every demo here has
\* the tokens of its match: one without starts a game at every analysis.)
Succeed(j) ==
    /\ Oldest(j)
    /\ LET own == Games([k \in {l \in DOMAIN jobs : jobs[l].demo = jobs[j].demo} |-> jobs[k]])
       IN \E others \in SUBSET (Games(jobs) \ own) :
            LET candidates == own \cup others
                id == IF candidates = {} THEN created + 1 ELSE Min(candidates)
            IN /\ jobs' = [k \in DOMAIN jobs |->
                             IF k = j THEN [jobs[k] EXCEPT !.state = "succeeded", !.game = id]
                             ELSE IF jobs[k].game \in candidates THEN [jobs[k] EXCEPT !.game = id]
                             ELSE jobs[k]]
               /\ created' = Max({created, id})
    /\ UNCHANGED <<page, failures>>

\* It fails, or somebody cancels it.
Give(j, state) ==
    /\ MayFail
    /\ IF state = "cancelled" THEN jobs[j].state = "queued" ELSE Oldest(j)
    /\ jobs' = [jobs EXCEPT ![j].state = state]
    /\ UNCHANGED <<page, created, failures>>

-----------------------------------------------------------------------------
(* The page *)

Ended == {"succeeded", "failed", "cancelled"}

\* watchJob shows what it was told, and asks again until the job has ended.
Watched(item, k) ==
    LET told == item.calls[k].answer
        j == item.calls[k].job
    IN [item EXCEPT
          !.state = IF told.state = "cancelled" THEN "failed" ELSE told.state,
          !.job = j,
          !.shown = IF told.shown # Nothing THEN told.shown ELSE @,
          !.calls = IF told.state \in Ended THEN RemoveAt(@, k) ELSE [@ EXCEPT ![k].answer = Nothing]]

\* uploadDemo and reanalyzeJob are followed by watchJob.
Queued(item, k) ==
    LET call == item.calls[k]
    IN [item EXCEPT !.state = "queued", !.job = call.answer.job,
                    !.calls[k] = Call(call.path, "poll", call.answer.job)]

\* process and the route catch a failure; a reanalysis leaves the item as it is.
Caught(item, k) ==
    [item EXCEPT !.state = IF item.calls[k].path = "again" THEN @ ELSE "failed",
                 !.calls = RemoveAt(@, k)]

Receive(i, k) ==
    /\ k \in DOMAIN items[i].calls /\ items[i].calls[k].answer # Nothing
    /\ LET call == items[i].calls[k]
           failed == call.answer = Failure
       IN /\ Render([items EXCEPT ![i] =
                CASE failed -> Caught(@, k)
                  [] ~failed /\ call.kind = "poll" -> Watched(@, k)
                  [] OTHER -> Queued(@, k)])
          /\ error' = (error \/ (failed /\ call.path = "again"))
    /\ UNCHANGED <<route, acts, server, failures>>

AnswerRoute ==
    /\ route # Nothing /\ route.answer = Nothing
    /\ LET found == {j \in DOMAIN jobs : jobs[j].game = route.game}
       IN \/ /\ route' = [route EXCEPT !.answer =
                    IF found = {} THEN Failure ELSE SetToSeq({SavedItem(j) : j \in found})]
             /\ UNCHANGED failures
          \/ /\ MayFail /\ failures' = failures + 1
             /\ route' = [route EXCEPT !.answer = Failure]
    /\ UNCHANGED <<items, error, refreshed, refresh, acts, server>>

\* The items of the game, or one that says what failed.
OpenGame ==
    /\ route # Nothing /\ route.answer # Nothing
    /\ route' = Nothing
    /\ Render(IF route.answer # Failure THEN route.answer
              ELSE <<[demo |-> Nothing, state |-> "failed", job |-> Nothing, shown |-> Nothing,
                      calls |-> << >>]>>)
    /\ UNCHANGED <<error, acts, server, failures>>

AnswerRefresh(i) ==
    /\ refresh[i].answer = Nothing
    /\ \/ /\ refresh' = [refresh EXCEPT ![i].answer =
                LET j == refresh[i].job
                IN IF jobs[j].state = "succeeded" THEN AnalysisOf(j) ELSE Null]
          /\ UNCHANGED failures
       \/ /\ MayFail /\ failures' = failures + 1
          /\ refresh' = [refresh EXCEPT ![i].answer = Failure]
    /\ UNCHANGED <<items, route, error, refreshed, acts, server>>

\* Promise.all: all are there, or one has failed and nothing is done.
ApplyRefresh ==
    LET failed == \E i \in DOMAIN refresh : refresh[i].answer = Failure
        Shown(i) == [items[i] EXCEPT !.shown = refresh[i].answer, !.job = refresh[i].job]
    IN /\ refresh # << >>
       /\ failed \/ \A i \in DOMAIN refresh : refresh[i].answer # Nothing
       /\ items' = [i \in DOMAIN items |->
                      IF failed \/ i \notin DOMAIN refresh \/ refresh[i].answer = Null
                      THEN items[i] ELSE Shown(i)]
       /\ refresh' = << >>
       /\ UNCHANGED <<route, error, refreshed, acts, server, failures>>

-----------------------------------------------------------------------------
PageNext ==
    \/ \E batch \in Batches : AddFiles(batch)
    \/ Reanalyze
    \/ \E i \in DOMAIN items : \E k \in DOMAIN items[i].calls :
          Answer(i, k) \/ FailCall(i, k) \/ Receive(i, k)
    \/ AnswerRoute \/ OpenGame
    \/ \E i \in DOMAIN refresh : AnswerRefresh(i)
    \/ ApplyRefresh
    \/ \E j \in DOMAIN jobs :
          Succeed(j) \/ \E state \in {"failed", "cancelled"} : Give(j, state)

\* Calls are answered, answers are received, and the worker takes jobs and ends
\* them; the user need not do anything.
PageFairness ==
    /\ \A i \in 1..MaxDemos :
          /\ \A k \in 1..MaxActs :
                /\ WF_pageVars(i \in DOMAIN items /\ Answer(i, k))
                /\ WF_pageVars(i \in DOMAIN items /\ Receive(i, k))
          /\ WF_pageVars(i \in DOMAIN refresh /\ AnswerRefresh(i))
    /\ WF_pageVars(AnswerRoute) /\ WF_pageVars(OpenGame) /\ WF_pageVars(ApplyRefresh)
    /\ WF_pageVars(\E j \in DOMAIN jobs : Succeed(j) \/ Give(j, "failed"))

PageSpec == PageInit /\ [][PageNext]_pageVars /\ PageFairness

-----------------------------------------------------------------------------
(* Properties *)

\* The page comes to rest: whatever fails or is cancelled, in the end nothing is
\* shown as working, unless a reanalysis failed and says so; what is shown of an
\* item is an analysis of its demo, and of the job it stands for; and the games of
\* one batch are those of the server, though its first analyses were shown before
\* the last ones merged their games (App.tsx:763-782; not after a failed call, or
\* when more was added or reanalysed later).
PageComesToRest ==
    <>[](/\ route = Nothing /\ refresh = << >>
         /\ error \/ ~IsWorking
         /\ \A i \in Completed(items) :
               /\ jobs[items[i].shown.job].demo = items[i].demo
               /\ items[i].job \in {Nothing, items[i].shown.job}
               /\ Len(acts) <= 1 /\ failures = 0 => items[i].shown.game = jobs[items[i].shown.job].game
         /\ \A i \in DOMAIN items : items[i].state = "succeeded" => i \in Completed(items))
=============================================================================
