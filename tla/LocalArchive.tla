------------------------------ MODULE LocalArchive ------------------------------
(***************************************************************************)
(* What the local workbench keeps, and how it lets go of it: the           *)
(* transaction that persists an analysis (persistAnalysis in               *)
(* apps/worker/src/engine.ts, assignGame in                                *)
(* packages/storage/src/repository.ts) and the purge of old jobs           *)
(* (apps/api/src/retention.ts, purgeTerminalJobsBefore), which stages      *)
(* files by renaming them, deletes rows and then unlinks the files.        *)
(*                                                                         *)
(* The wrapper script stops the API and the worker while a purge runs.     *)
(* How jobs are claimed, cancelled and recovered is LocalQueue's subject;  *)
(* here a job is analysed in one step.                                     *)
(***************************************************************************)
EXTENDS Integers, FiniteSets, FiniteSetsExt

CONSTANTS
    Jobs,
    Demos,       \* demo objects, by hash
    Results,     \* result objects, by hash
    Uploads,     \* uploaded files
    Cases,
    Ids,         \* game ids, in the order in which they are drawn
    None,
    DemoOf,      \* the demo a job analyses
    ResultOf,    \* the object its result is stored as
    UploadOf,    \* its source below the upload root, or None
    CasesOf,     \* the cases the result for a demo holds
    Stable,      \* cases of a stable token; the others are of one demo
    SessionOf,   \* the session evidence in the result for a demo
    Rank,        \* the order of file names, uploads before objects
    MinShared,   \* 4 in hasStrongRosterOverlap
    PurgeCap     \* bound: purges

ASSUME ArchiveAssumption ==
    /\ Ids \subseteq Nat /\ PurgeCap \in Nat
    /\ DemoOf \in [Jobs -> Demos] /\ ResultOf \in [Jobs -> Results]
    /\ UploadOf \in [Jobs -> Uploads \cup {None}]
    /\ CasesOf \in [Demos -> SUBSET Cases] /\ Stable \subseteq Cases
    /\ Rank \in [Demos \cup Results \cup Uploads -> Nat]
    /\ None \notin Uploads \cup Ids
    /\ MinShared \in Nat \ {0}
    \* Uploads and objects are kept under different roots.
    /\ Uploads \cap (Demos \cup Results) = {}
    \* The roster is made of the players' tokens.
    /\ \A d \in Demos : SessionOf[d].players # {} => SessionOf[d].roster # None
    \* An epoch's id, and so its case's, begins with the hash of its demo.
    /\ \A c \in Cases \ Stable, d, e \in Demos :
          c \in CasesOf[d] \cap CasesOf[e] => d = e

VARIABLES
    job,        \* jobs.state; "absent" before and "purged" after the row
    analysed,   \* job_analyses
    game,       \* game_demos
    games,      \* games: the ids of its rows
    drawn,      \* ids drawn so far
    origin,     \* the demo whose session a game's row was made of
    confidence, \* games.confidence
    demosIn,    \* case_presentations: the demos of each case, {} without a row
    files,      \* uploads and objects under their own names
    pending,    \* files renamed to <name>.retention-<uuid>.pending
    expired,    \* jobs last updated before the cutoff of the purge
    step,       \* where the purge is
    plan,       \* its preview
    todo,       \* files it has yet to stage, restore or unlink
    staged,     \* files it has staged
    purges,
    disturbed   \* history: a purge was killed, or could not restore a file

rows == <<job, analysed, game, games, drawn, origin, confidence, demosIn>>
purge == <<expired, step, plan, todo, staged, purges, disturbed>>
vars == <<rows, files, pending, purge>>

-----------------------------------------------------------------------------
\* "stopped" is failed or cancelled: a retry leads out of both.
State == {"absent", "active", "succeeded", "stopped", "purged"}
Terminal == {"succeeded", "stopped"}
Confidence == {"none", "unassociated", "provisional", "high"}
Files == Demos \cup Results \cup Uploads
NoPlan == [jobs |-> {}, cases |-> {}, files |-> {}]
Plans == [jobs : SUBSET Jobs, cases : SUBSET Cases, files : SUBSET Files]

ArchiveTypeOK ==
    /\ job \in [Jobs -> State]
    /\ expired \subseteq Jobs /\ analysed \subseteq Jobs
    /\ games \subseteq drawn /\ drawn \subseteq Ids
    /\ game \in [Jobs -> games \cup {None}]
    /\ origin \in [Ids -> Demos \cup {None}]
    /\ confidence \in [Ids -> Confidence]
    /\ demosIn \in [Cases -> SUBSET Demos]
    /\ files \subseteq Files /\ pending \subseteq Files
    /\ step \in {"idle", "staging", "deleting", "unlinking", "restoring"}
    /\ plan \in Plans /\ todo \subseteq Files /\ staged \subseteq Files
    /\ purges \in Nat /\ disturbed \in BOOLEAN

Init ==
    /\ job = [j \in Jobs |-> "absent"]
    /\ expired = {} /\ analysed = {}
    /\ game = [j \in Jobs |-> None]
    /\ games = {} /\ drawn = {}
    /\ origin = [g \in Ids |-> None]
    /\ confidence = [g \in Ids |-> "none"]
    /\ demosIn = [c \in Cases |-> {}]
    /\ files = {} /\ pending = {}
    /\ step = "idle" /\ plan = NoPlan /\ todo = {} /\ staged = {} /\ purges = 0
    /\ disturbed = FALSE

-----------------------------------------------------------------------------
(* assignGame *)

Exists(j) == job[j] \notin {"absent", "purged"}
Session(j) == SessionOf[DemoOf[j]]
MembersOf(g) == {j \in Jobs : game[j] = g}
PlayersIn(g) == UNION {Session(j).players : j \in MembersOf(g)}
Identified(s) == s.server # None /\ s.roster # None

Near(a, b) == a = None \/ b = None \/ (a - b) \in {-1, 0, 1}

\* The SELECT of possible candidates: one demo of the game is near in both.
Possible(s) ==
    {g \in games :
        /\ Identified(s)
        /\ SessionOf[origin[g]].server = s.server
        /\ SessionOf[origin[g]].campaign = s.campaign
        /\ \E k \in MembersOf(g) : /\ Near(s.count, Session(k).count)
                                   /\ Near(s.chapter, Session(k).chapter)}

StrongOverlap(left, right) ==
    LET shared == Cardinality(left \cap right)
        smaller == Min({Cardinality(left), Cardinality(right)})
    IN  smaller >= MinShared /\ shared >= MinShared /\ 4 * shared >= 3 * smaller

Adjacent(s, t) ==
    /\ None \notin {s.count, s.chapter, t.count, t.chapter}
    /\ (s.count - t.count) \in {-1, 1}
    /\ (s.chapter - t.chapter) \in {-1, 1}

Accepts(g, j) ==
    LET s == Session(j) IN
    \/ \E k \in MembersOf(g) : DemoOf[k] = DemoOf[j]
    \/ /\ \/ SessionOf[origin[g]].roster = s.roster
          \/ /\ \E k \in MembersOf(g) : Adjacent(s, Session(k))
             /\ StrongOverlap(s.players, PlayersIn(g))
       /\ \A k \in MembersOf(g) :
             /\ s.count = None \/ Session(k).count # s.count
             /\ s.chapter = None \/ Session(k).chapter # s.chapter

GradeOf(s, count) ==
    CASE ~Identified(s) -> "unassociated"
      [] Identified(s) /\ count > 1 -> "high"
      [] OTHER -> "provisional"

\* The demo joins the oldest candidate, which the other candidates join too.
AssignGame(j) ==
    LET found == {g \in Possible(Session(j)) : Accepts(g, j)}
        fresh == Min(Ids \ drawn)
        g == IF found = {} THEN fresh ELSE Min(found)
        joined == [k \in Jobs |-> IF k = j \/ game[k] \in found THEN g ELSE game[k]]
    IN  /\ found = {} => Ids # drawn
        /\ game' = joined
        /\ games' = (games \ found) \cup {g}
        /\ drawn' = drawn \cup {g}
        /\ origin' = IF found = {} THEN [origin EXCEPT ![g] = DemoOf[j]] ELSE origin
        /\ confidence' = [confidence EXCEPT ![g] =
               GradeOf(Session(j), Cardinality({k \in Jobs : joined[k] = g}))]

-----------------------------------------------------------------------------
(* Jobs *)

\* The wrapper script stops the API and the worker for the time of a purge.
Running == step = "idle"

Submit(j) ==
    /\ Running /\ job[j] = "absent"
    /\ job' = [job EXCEPT ![j] = "active"]
    /\ files' = files \cup ({UploadOf[j]} \ {None})
    /\ UNCHANGED <<analysed, game, games, drawn, origin, confidence, demosIn, pending, purge>>

Retry(j) ==
    /\ Running /\ job[j] = "stopped"
    /\ job' = [job EXCEPT ![j] = "active"]
    /\ UNCHANGED <<analysed, game, games, drawn, origin, confidence, demosIn, files, pending, purge>>

\* It is cancelled, or its source is gone, or its parser fails: what
\* prepareDemo and persistAnalysis put in the store before that stays there.
EndEarly(j) ==
    /\ Running /\ job[j] = "active"
    /\ job' = [job EXCEPT ![j] = "stopped"]
    /\ \E stored \in {{}, {DemoOf[j], ResultOf[j]}} : files' = files \cup stored
    /\ UNCHANGED <<analysed, game, games, drawn, origin, confidence, demosIn, pending, purge>>

\* mergePresentation: only a stable token makes two results' cases one.
Collides(c, d) == demosIn[c] # {} /\ c \notin Stable

\* The transaction of persistAnalysis commits, and the job ends succeeded, or
\* cancelled when the reviewer was faster.
Persist(j) ==
    /\ Running /\ job[j] = "active"
    /\ UploadOf[j] # None => UploadOf[j] \in files
    /\ j \notin analysed
    /\ \A c \in CasesOf[DemoOf[j]] : ~Collides(c, DemoOf[j])
    /\ files' = files \cup {DemoOf[j], ResultOf[j]}
    /\ analysed' = analysed \cup {j}
    /\ AssignGame(j)
    /\ demosIn' = [c \in Cases |-> IF c \in CasesOf[DemoOf[j]]
                                   THEN demosIn[c] \cup {DemoOf[j]} ELSE demosIn[c]]
    /\ \E s \in {"succeeded", "stopped"} : job' = [job EXCEPT ![j] = s]
    /\ UNCHANGED <<pending, purge>>

\* It rolls back: the job has an analysis already, or a case collides.
PersistFails(j) ==
    /\ Running /\ job[j] = "active"
    /\ UploadOf[j] # None => UploadOf[j] \in files
    /\ j \in analysed \/ \E c \in CasesOf[DemoOf[j]] : Collides(c, DemoOf[j])
    /\ job' = [job EXCEPT ![j] = "stopped"]
    /\ files' = files \cup {DemoOf[j], ResultOf[j]}
    /\ UNCHANGED <<analysed, game, games, drawn, origin, confidence, demosIn, pending, purge>>

-----------------------------------------------------------------------------
(* The purge *)

Old == {j \in expired : job[j] \in Terminal}
Objects(S) == {DemoOf[j] : j \in S} \cup {ResultOf[j] : j \in S}
Sources(S) == {UploadOf[j] : j \in S} \ {None}

\* Objects and uploads that only old jobs name, whatever state the others are in.
RemovableOfAll(old) == Objects(old \cap analysed) \cup Sources(old)
Removable(old) ==
    (Objects(old \cap analysed) \ Objects(analysed \ old))
    \cup (Sources(old) \ Sources({j \in Jobs \ old : Exists(j)}))

\* Cases with a demo of which no analysis remains.
CaseGoesIfAllGo(c, old) ==
    demosIn[c] # {} /\ demosIn[c] \subseteq {DemoOf[j] : j \in old \cap analysed}
CaseGoes(c, old) ==
    \E d \in demosIn[c] : /\ d \in {DemoOf[j] : j \in old \cap analysed}
                          /\ d \notin {DemoOf[j] : j \in analysed \ old}

Plan(old) == [jobs |-> old, cases |-> {c \in Cases : CaseGoes(c, old)}, files |-> Removable(old)]

\* Which jobs are older than the cutoff is a matter of when they ended.
StartPurge ==
    /\ Running /\ purges < PurgeCap
    /\ purges' = purges + 1
    /\ \E old \in (SUBSET {j \in Jobs : job[j] \in Terminal}) \ {{}} :
          expired' = old /\ plan' = Plan(old) /\ todo' = Plan(old).files
    /\ staged' = {}
    /\ step' = "staging"
    /\ UNCHANGED <<rows, files, pending, disturbed>>

First(f) == f \in todo /\ \A e \in todo : Rank[f] <= Rank[e]
Last(f) == f \in todo /\ \A e \in todo : Rank[f] >= Rank[e]

\* A file that is not there is passed over.
StageFile(f) ==
    /\ step = "staging" /\ First(f)
    /\ todo' = todo \ {f}
    /\ IF f \in files
       THEN /\ files' = files \ {f} /\ pending' = pending \cup {f}
            /\ staged' = staged \cup {f}
       ELSE UNCHANGED <<files, pending, staged>>
    /\ UNCHANGED <<rows, expired, step, plan, purges, disturbed>>

\* A file cannot be staged, or the transaction rolls back.
AbortPurge ==
    /\ step = "staging"
    /\ step' = "restoring" /\ todo' = staged
    /\ UNCHANGED <<rows, files, pending, expired, plan, staged, purges, disturbed>>

RestoreFile(f) ==
    /\ step = "restoring" /\ Last(f)
    /\ todo' = todo \ {f}
    /\ files' = files \cup {f} /\ pending' = pending \ {f}
    /\ UNCHANGED <<rows, expired, step, plan, staged, purges, disturbed>>

\* A second failure is ignored.
RestoreFails(f) ==
    /\ step = "restoring" /\ Last(f)
    /\ todo' = todo \ {f}
    /\ disturbed' = TRUE
    /\ UNCHANGED <<rows, files, pending, expired, step, plan, staged, purges>>

RegradeNot(kept) == confidence

\* UPDATE games SET confidence for the games that lost demos.
Regrade(kept) ==
    [g \in Ids |->
        IF \E j \in Old : game[j] = g
        THEN GradeOf(SessionOf[origin[g]], Cardinality({j \in Jobs : kept[j] = g}))
        ELSE confidence[g]]

\* The plan is made again before the transaction that carries it out.
DeleteRows ==
    /\ step = "staging" /\ todo = {}
    /\ LET kept == [j \in Jobs |-> IF j \in Old THEN None ELSE game[j]] IN
       /\ job' = [j \in Jobs |-> IF j \in Old THEN "purged" ELSE job[j]]
       /\ analysed' = analysed \ Old
       /\ game' = kept
       /\ games' = {g \in games : \E j \in Jobs : kept[j] = g}
       /\ confidence' = Regrade(kept)
    /\ demosIn' = [c \in Cases |-> IF CaseGoes(c, Old) THEN {} ELSE demosIn[c]]
    \* assertSamePlan throws after the commit: nothing is unlinked.
    /\ IF plan = Plan(Old)
       THEN step' = "unlinking" /\ todo' = staged
       ELSE step' = "idle" /\ todo' = {}
    /\ UNCHANGED <<drawn, origin, files, pending, expired, plan, staged, purges, disturbed>>

Unlink(f) ==
    /\ step = "unlinking" /\ First(f)
    /\ todo' = todo \ {f} /\ pending' = pending \ {f}
    /\ UNCHANGED <<rows, files, expired, step, plan, staged, purges, disturbed>>

\* The services are started again: the purge is over, or an unlink failed.
EndPurge ==
    /\ \/ step = "restoring" /\ todo = {}
       \/ step = "unlinking"
    /\ step' = "idle" /\ todo' = {} /\ plan' = NoPlan /\ staged' = {} /\ expired' = {}
    /\ UNCHANGED <<rows, files, pending, purges, disturbed>>

\* The process is killed, and nothing is restored.
KillPurge ==
    /\ step \in {"staging", "restoring", "unlinking"}
    /\ disturbed' = (disturbed \/ (step # "unlinking" /\ staged # {}))
    /\ step' = "idle" /\ todo' = {} /\ plan' = NoPlan /\ staged' = {} /\ expired' = {}
    /\ UNCHANGED <<rows, files, pending, purges>>

-----------------------------------------------------------------------------
ArchiveNext ==
    \/ \E j \in Jobs : \/ Submit(j) \/ Retry(j) \/ EndEarly(j)
                       \/ Persist(j) \/ PersistFails(j)
    \/ \E f \in Files : StageFile(f) \/ RestoreFile(f) \/ RestoreFails(f) \/ Unlink(f)
    \/ StartPurge \/ AbortPurge \/ DeleteRows \/ EndPurge \/ KillPurge

Spec == Init /\ [][ArchiveNext]_vars

-----------------------------------------------------------------------------
(* Properties *)

\* "Active jobs, shared demo objects, shared upload paths ... survive", and "a
\* failure before the database commit restores staged files": once a purge is
\* over, whatever ended it short of a kill or a second failure, every row that
\* is left finds its files.
RowsFindTheirFiles ==
    Running /\ ~disturbed =>
        /\ Objects(analysed) \subseteq files
        /\ Sources({j \in Jobs : Exists(j)}) \subseteq files

\* Every demo a case presents has an analysis that can be opened, and the only
\* demo-local presentations are of one demo.
CasesAreBacked ==
    \A c \in Cases :
        /\ demosIn[c] \subseteq {DemoOf[j] : j \in analysed}
        /\ c \notin Stable => Cardinality(demosIn[c]) <= 1

\* Through assignments, merges and purges a game has demos, all of one server
\* and campaign, and "high" confidence when there is more than one.
GamesAreGraded ==
    \A g \in games :
        /\ MembersOf(g) # {} /\ MembersOf(g) \subseteq analysed
        /\ \A j \in MembersOf(g) :
              /\ Session(j).server = SessionOf[origin[g]].server
              /\ Session(j).campaign = SessionOf[origin[g]].campaign
        /\ confidence[g] = GradeOf(SessionOf[origin[g]], Cardinality(MembersOf(g)))
=============================================================================
