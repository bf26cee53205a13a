------------------------------ MODULE HostedGames ------------------------------
(***************************************************************************)
(* The association of hosted analyses with games, in                       *)
(* packages/storage/src/hosted.ts: assignGame, indexPlayers,               *)
(* assignAnalysisToGame, associateSourceGroup and getGame.                 *)
(*                                                                         *)
(* assignGame is a sequence of single statements without a transaction,    *)
(* run by queue consumers, by GET requests of a job, and by the backfill.  *)
(* Every statement is a step.  Ids are drawn in order, which is the order  *)
(* created_at,id of the queries.  Foreign keys are enforced as the schema  *)
(* declares them: a row cannot name a game that does not exist, and the    *)
(* deletion of a game deletes the rows that name it.                       *)
(***************************************************************************)
EXTENDS Integers, FiniteSets, FiniteSetsExt

CONSTANTS
    Jobs,       \* analyses, one per job
    Groups,     \* provider match keys, (source_id, source_group_key)
    Writers,    \* concurrent calls of the repository
    Ids,        \* game ids, in the order in which they are drawn
    Players,    \* Steam ids
    Sessions,   \* what the parser can find out about a demo
    GroupJobs,  \* the jobs of each provider group
    None,       \* SQL NULL
    MinShared,  \* 4 in hasStrongRosterOverlap
    CallCap,    \* bound: calls made
    FailCap     \* bound: calls that are cut short

ASSUME GamesAssumption ==
    /\ Ids \subseteq Nat
    /\ None \notin Ids \cup Jobs \cup Groups
    /\ GroupJobs \in [Groups -> SUBSET Jobs]
    /\ \A s \in Sessions : s.players \subseteq Players

VARIABLES
    session,     \* what was found in the demo of each job; never changes
    analyses,    \* hosted_analyses: the jobs that have a row
    games,       \* hosted_games: the ids of its rows
    used,        \* the ids drawn so far
    origin,      \* the job whose session a game's row was made of
    confidence,  \* hosted_games.confidence
    alias,       \* hosted_game_aliases
    demoGame,    \* hosted_game_demos: the game of each job
    playerGame,  \* hosted_player_demos: the game of each player of a job
    groupGame,   \* hosted_source_groups
    members,     \* history: the jobs with which a group was last finalised
    issued,      \* history: the game ids that responses have carried
    blended,     \* history: the games that took in the demos of a group
    pc, call,    \* where each writer is, and what it was called with
    todo,        \* the candidates, duplicates, jobs or players it has left
    chosen,      \* the games it found
    target,      \* gameId, or canonical
    graded,      \* whether it counted more than one demo in the game
    calls, fails

rows    == <<analyses, games, used, origin, confidence>>
links   == <<alias, demoGame, playerGame, groupGame>>
history == <<members, issued, blended>>
locals  == <<call, todo, chosen, target, graded>>
vars    == <<session, rows, links, history, pc, locals, calls, fails>>

-----------------------------------------------------------------------------
(* Values *)

Confidence == {"unassociated", "provisional", "high"}

Kind == {"none", "record", "view", "group"}
NoCall == [kind |-> "none", of |-> None]
Calls == [kind : Kind, of : Jobs \cup Groups \cup {None}]

Pc == {"idle", "select", "examine", "insert", "alias", "repoint", "groups",
       "demos", "players", "delete", "demo", "count", "confidence", "index",
       "gather", "canonical", "check", "commit"}

GamesTypeOK ==
    /\ session \in [Jobs -> Sessions]
    /\ analyses \subseteq Jobs
    /\ games \subseteq used /\ used \subseteq Ids
    /\ origin \in [Ids -> Jobs \cup {None}]
    /\ \A g \in games : origin[g] \in Jobs
    /\ confidence \in [Ids -> {"none"} \cup Confidence]
    /\ \A g \in games : confidence[g] \in Confidence
    /\ alias \in [Ids -> games \cup {None}]
    /\ demoGame \in [Jobs -> games \cup {None}]
    /\ playerGame \in [Jobs \X Players -> games \cup {None}]
    /\ groupGame \in [Groups -> games \cup {None}]
    /\ members \in [Groups -> SUBSET Jobs]
    /\ issued \subseteq used /\ blended \subseteq used
    /\ pc \in [Writers -> Pc]
    /\ call \in [Writers -> Calls]
    /\ todo \in [Writers -> SUBSET (Ids \cup Jobs \cup Players)]
    /\ chosen \in [Writers -> SUBSET used]
    /\ target \in [Writers -> used \cup {None}]
    /\ graded \in [Writers -> BOOLEAN]
    /\ calls \in Nat /\ fails \in Nat

Init ==
    /\ session \in [Jobs -> Sessions]
    /\ analyses = {} /\ games = {} /\ used = {}
    /\ origin = [g \in Ids |-> None]
    /\ confidence = [g \in Ids |-> "none"]
    /\ alias = [g \in Ids |-> None]
    /\ demoGame = [j \in Jobs |-> None]
    /\ playerGame = [r \in Jobs \X Players |-> None]
    /\ groupGame = [k \in Groups |-> None]
    /\ members = [k \in Groups |-> {}]
    /\ issued = {} /\ blended = {}
    /\ pc = [w \in Writers |-> "idle"]
    /\ call = [w \in Writers |-> NoCall]
    /\ todo = [w \in Writers |-> {}]
    /\ chosen = [w \in Writers |-> {}]
    /\ target = [w \in Writers |-> None]
    /\ graded = [w \in Writers |-> FALSE]
    /\ calls = 0 /\ fails = 0

-----------------------------------------------------------------------------
(* What the queries of assignGame look at *)

DemosOf(g) == {j \in Jobs : demoGame[j] = g}
PlayersIn(g) == {p \in Players : \E j \in Jobs : playerGame[<<j, p>>] = g}

Identified(s) == s.server # None /\ s.roster # None

\* ABS(a-b)<=1, where NULL passes.
Near(a, b) == a = None \/ b = None \/ (a - b) \in {-1, 0, 1}

PossibleInAnyCampaign(j) ==
    {g \in games : /\ Identified(session[j])
                   /\ session[origin[g]].server = session[j].server
                   /\ \E k \in DemosOf(g) : Near(session[j].chapter, session[k].chapter)}

\* The SELECT of possible games.
Possible(j) ==
    LET s == session[j] IN
    {g \in games :
        /\ Identified(s)
        /\ session[origin[g]].server = s.server
        /\ session[origin[g]].campaign = s.campaign
        /\ \E k \in DemosOf(g) : /\ Near(s.count, session[k].count)
                                 /\ Near(s.chapter, session[k].chapter)}

\* hasStrongRosterOverlap
StrongOverlap(left, right) ==
    LET shared == Cardinality(left \cap right)
        smaller == Min({Cardinality(left), Cardinality(right)})
    IN  smaller >= MinShared /\ shared >= MinShared /\ 4 * shared >= 3 * smaller

Adjacent(s, t) ==
    /\ None \notin {s.count, s.chapter, t.count, t.chapter}
    /\ (s.count - t.count) \in {-1, 1}
    /\ (s.chapter - t.chapter) \in {-1, 1}

RosterAccepted(g, j) ==
    \/ session[origin[g]].roster = session[j].roster
    \/ /\ \E k \in DemosOf(g) : Adjacent(session[j], session[k])
       /\ StrongOverlap(session[j].players, PlayersIn(g))

\* Number(column) === value, for a value that is not null: NULL reads as 0.
SameNumber(column, value) ==
    value # None /\ value = (IF column = None THEN 0 ELSE column)

\* A game of this roster takes the demo if it holds that very demo, or nothing
\* of the same server generation or chapter.
Accepts(g, j) ==
    /\ RosterAccepted(g, j)
    /\ \/ \E k \in DemosOf(g) : session[k].sha = session[j].sha
       \/ \A k \in DemosOf(g) :
            /\ ~SameNumber(session[k].count, session[j].count)
            /\ ~SameNumber(session[k].chapter, session[j].chapter)

-----------------------------------------------------------------------------
(* Steps of a call *)

At(w, place) == pc[w] = place
To(w, place) == pc' = [pc EXCEPT ![w] = place]
Job(w) == call[w].of

\* The call returns or throws; what it held in memory is gone.
Leave(w) ==
    /\ pc' = [pc EXCEPT ![w] = "idle"]
    /\ call' = [call EXCEPT ![w] = NoCall]
    /\ todo' = [todo EXCEPT ![w] = {}]
    /\ chosen' = [chosen EXCEPT ![w] = {}]
    /\ target' = [target EXCEPT ![w] = None]
    /\ graded' = [graded EXCEPT ![w] = FALSE]

Throw(w) == Leave(w) /\ UNCHANGED <<session, rows, links, history, calls, fails>>

\* A statement that makes rows name the game g.
Naming(w, g, Statement) == IF g \in games THEN Statement ELSE Throw(w)

\* Rows of a table that named the games of D name c.
Renamed(table, D, c) == [r \in DOMAIN table |-> IF table[r] \in D THEN c ELSE table[r]]

\* ON DELETE CASCADE
Without(table, D) == Renamed(table, D, None)

Begin(w, kind, of, place) ==
    /\ At(w, "idle")
    /\ calls < CallCap
    /\ calls' = calls + 1
    /\ call' = [call EXCEPT ![w] = [kind |-> kind, of |-> of]]
    /\ To(w, place)

\* recordAnalysis reaches assignGame: a first attempt or a repeated one.
Record(w, j) ==
    /\ Begin(w, "record", j, "select")
    /\ analyses' = analyses \cup {j}
    /\ UNCHANGED <<session, games, used, origin, confidence, links, history, todo, chosen, target, graded, fails>>

\* assignAnalysisToGame: GET of a job, or the backfill of statistics.
View(w, j) ==
    /\ j \in analyses
    /\ IF demoGame[j] = None
       THEN
         /\ Begin(w, "view", j, "select")
         /\ UNCHANGED <<session, rows, links, history, todo, chosen, target, graded, fails>>
       ELSE
         /\ Begin(w, "view", j, "index")
         /\ target' = [target EXCEPT ![w] = demoGame[j]]
         /\ todo' = [todo EXCEPT ![w] = session[j].players]
         /\ UNCHANGED <<session, rows, links, history, chosen, graded, fails>>

\* All candidates are known: the first one is the game, the others are merged.
Decide(w, found) ==
    /\ chosen' = [chosen EXCEPT ![w] = found]
    /\ IF found = {}
       THEN /\ todo' = [todo EXCEPT ![w] = {}]
            /\ To(w, "insert")
            /\ UNCHANGED target
       ELSE /\ target' = [target EXCEPT ![w] = Min(found)]
            /\ todo' = [todo EXCEPT ![w] = found \ {Min(found)}]
            /\ To(w, IF found = {Min(found)} THEN "demo" ELSE "alias")

Select(w) ==
    /\ At(w, "select")
    /\ IF Possible(Job(w)) = {}
       THEN Decide(w, {})
       ELSE /\ todo' = [todo EXCEPT ![w] = Possible(Job(w))]
            /\ To(w, "examine")
            /\ UNCHANGED <<chosen, target>>
    /\ UNCHANGED <<session, rows, links, history, call, graded, calls, fails>>

\* The demos, and where needed the players, of the next candidate.
Examine(w) ==
    /\ At(w, "examine")
    /\ LET g == Min(todo[w])
           found == IF Accepts(g, Job(w)) THEN chosen[w] \cup {g} ELSE chosen[w]
       IN  IF todo[w] = {g}
           THEN Decide(w, found)
           ELSE /\ chosen' = [chosen EXCEPT ![w] = found]
                /\ todo' = [todo EXCEPT ![w] = @ \ {g}]
                /\ UNCHANGED <<pc, target>>
    /\ UNCHANGED <<session, rows, links, history, call, graded, calls, fails>>

Grade(s, many) == IF ~Identified(s) THEN "unassociated"
                  ELSE IF many THEN "high" ELSE "provisional"

InsertGame(w) ==
    /\ At(w, "insert")
    /\ used # Ids
    /\ LET g == Min(Ids \ used) IN
       /\ used' = used \cup {g}
       /\ games' = games \cup {g}
       /\ origin' = [origin EXCEPT ![g] = Job(w)]
       /\ confidence' = [confidence EXCEPT ![g] = Grade(session[Job(w)], FALSE)]
       /\ target' = [target EXCEPT ![w] = g]
    /\ To(w, "demo")
    /\ UNCHANGED <<session, analyses, links, history, call, todo, chosen, graded, calls, fails>>

(* The merge of a duplicate, statement by statement *)

Duplicate(w) == Min(todo[w])

InsertAliasNot(w) ==
    /\ At(w, "alias")
    /\ To(w, "repoint")
    /\ UNCHANGED <<session, rows, links, history, locals, calls, fails>>

InsertAlias(w) ==
    /\ At(w, "alias")
    /\ Naming(w, target[w],
         /\ alias' = [alias EXCEPT ![Duplicate(w)] = target[w]]
         /\ To(w, "repoint")
         /\ UNCHANGED <<session, rows, demoGame, playerGame, groupGame,
                        history, locals, calls, fails>>)

\* UPDATE <table> SET game_id=target WHERE game_id=duplicate, of which only rows
\* that are there can break a foreign key.
Rename(w, table, Statement) ==
    IF \E r \in DOMAIN table : table[r] = Duplicate(w)
    THEN Naming(w, target[w], Statement)
    ELSE Statement

RepointAliases(w) ==
    /\ At(w, "repoint")
    /\ Rename(w, alias,
         /\ alias' = Renamed(alias, {Duplicate(w)}, target[w])
         /\ To(w, "groups")
         /\ UNCHANGED <<session, rows, demoGame, playerGame, groupGame,
                        history, locals, calls, fails>>)

RepointGroups(w) ==
    /\ At(w, "groups")
    /\ Rename(w, groupGame,
         /\ groupGame' = Renamed(groupGame, {Duplicate(w)}, target[w])
         /\ To(w, "demos")
         /\ UNCHANGED <<session, rows, alias, demoGame, playerGame,
                        history, locals, calls, fails>>)

MoveDemos(w) ==
    /\ At(w, "demos")
    /\ Rename(w, demoGame,
         /\ demoGame' = Renamed(demoGame, {Duplicate(w)}, target[w])
         /\ blended' = IF Duplicate(w) \in blended THEN blended \cup {target[w]} ELSE blended
         /\ To(w, "players")
         /\ UNCHANGED <<session, rows, alias, playerGame, groupGame,
                        members, issued, locals, calls, fails>>)

MovePlayersNot(w) ==
    /\ At(w, "players")
    /\ To(w, "delete")
    /\ UNCHANGED <<session, rows, links, history, locals, calls, fails>>

MovePlayers(w) ==
    /\ At(w, "players")
    /\ Rename(w, playerGame,
         /\ playerGame' = Renamed(playerGame, {Duplicate(w)}, target[w])
         /\ To(w, "delete")
         /\ UNCHANGED <<session, rows, alias, demoGame, groupGame,
                        history, locals, calls, fails>>)

\* Rows that name the games of D go with them.
Delete(D) ==
    /\ games' = games \ D
    /\ alias' = Without(alias, D)
    /\ demoGame' = Without(demoGame, D)
    /\ playerGame' = Without(playerGame, D)
    /\ groupGame' = Without(groupGame, D)

DeleteDuplicate(w) ==
    /\ At(w, "delete")
    /\ Delete({Duplicate(w)})
    /\ todo' = [todo EXCEPT ![w] = @ \ {Duplicate(w)}]
    /\ To(w, IF todo[w] = {Duplicate(w)} THEN "demo" ELSE "alias")
    /\ UNCHANGED <<session, analyses, used, origin, confidence, history, call,
                   chosen, target, graded, calls, fails>>

\* ON CONFLICT(job_id) DO NOTHING
InsertDemo(w) ==
    /\ At(w, "demo")
    /\ LET Insert(game) ==
             /\ demoGame' = [demoGame EXCEPT ![Job(w)] = game]
             /\ To(w, "count")
             /\ UNCHANGED <<session, rows, alias, playerGame, groupGame,
                            history, locals, calls, fails>>
       IN  IF demoGame[Job(w)] # None
           THEN Insert(demoGame[Job(w)])
           ELSE Naming(w, target[w], Insert(target[w]))

CountDemos(w) ==
    /\ At(w, "count")
    /\ graded' = [graded EXCEPT ![w] = Cardinality(DemosOf(target[w])) > 1]
    /\ To(w, "confidence")
    /\ UNCHANGED <<session, rows, links, history, call, todo, chosen, target, calls, fails>>

SetConfidence(w) ==
    /\ At(w, "confidence")
    /\ confidence' = [confidence EXCEPT ![target[w]] =
                        IF target[w] \in games
                        THEN Grade(session[Job(w)], graded[w]) ELSE @]
    /\ todo' = [todo EXCEPT ![w] = session[Job(w)].players]
    /\ To(w, "index")
    /\ UNCHANGED <<session, analyses, games, used, origin, links, history, call,
                   chosen, target, graded, calls, fails>>

\* indexPlayers: ON CONFLICT(steam_id64,job_id) DO NOTHING
IndexPlayer(w, p) ==
    /\ At(w, "index")
    /\ p \in todo[w]
    /\ LET Insert(game) ==
             /\ playerGame' = [playerGame EXCEPT ![<<Job(w), p>>] = game]
             /\ todo' = [todo EXCEPT ![w] = @ \ {p}]
             /\ UNCHANGED <<session, rows, alias, demoGame, groupGame, history,
                            pc, call, chosen, target, graded, calls, fails>>
       IN  IF playerGame[<<Job(w), p>>] # None
           THEN Insert(playerGame[<<Job(w), p>>])
           ELSE Naming(w, target[w], Insert(target[w]))

\* The response to a viewer carries the game's id.
Return(w) ==
    /\ At(w, "index")
    /\ todo[w] = {}
    /\ issued' = IF call[w].kind = "view" THEN issued \cup {target[w]} ELSE issued
    /\ Leave(w)
    /\ UNCHANGED <<session, rows, links, members, blended, calls, fails>>

-----------------------------------------------------------------------------
(* associateSourceGroup *)

\* The backfill finalises a provider group with the jobs it has completed.
Associate(w, k) ==
    /\ \E j \in GroupJobs[k] : demoGame[j] # None
    /\ Begin(w, "group", k, "gather")
    /\ todo' = [todo EXCEPT ![w] = {j \in GroupJobs[k] : demoGame[j] # None}]
    /\ UNCHANGED <<session, rows, links, history, chosen, target, graded, fails>>

\* getGameIdForJob of one job; "source group job is unassociated"
Gather(w, j) ==
    /\ At(w, "gather")
    /\ j \in todo[w]
    /\ IF demoGame[j] = None
       THEN Throw(w)
       ELSE /\ chosen' = [chosen EXCEPT ![w] = @ \cup {demoGame[j]}]
            /\ todo' = [todo EXCEPT ![w] = @ \ {j}]
            /\ To(w, IF todo[w] = {j} THEN "canonical" ELSE "gather")
            /\ UNCHANGED <<session, rows, links, history, call, target, graded, calls, fails>>

\* The stored game of the group, else the game of the first job.
Canonical(w, g) ==
    /\ At(w, "canonical")
    /\ IF groupGame[Job(w)] # None THEN g = groupGame[Job(w)] ELSE g \in chosen[w]
    /\ target' = [target EXCEPT ![w] = g]
    /\ chosen' = [chosen EXCEPT ![w] = @ \cup {g}]
    /\ To(w, "check")
    /\ UNCHANGED <<session, rows, links, history, call, todo, graded, calls, fails>>

CampaignsOf(D) == {session[origin[g]].campaign : g \in D} \ {None}

\* "game is unavailable", "conflicting embedded campaigns"
Check(w) ==
    /\ At(w, "check")
    /\ IF chosen[w] \subseteq games /\ Cardinality(CampaignsOf(chosen[w])) <= 1
       THEN To(w, "commit") /\ UNCHANGED <<session, rows, links, history, locals, calls, fails>>
       ELSE Throw(w)

\* The transaction; it fails as a whole when the canonical game is gone.
Commit(w) ==
    /\ At(w, "commit")
    /\ LET c == target[w]
           D == chosen[w] \ {c}
           k == Job(w)
           aliased == [g \in Ids |-> IF g \in D THEN c ELSE alias[g]]
       IN  Naming(w, c,
             /\ alias' = Renamed(aliased, D, c)
             /\ demoGame' = Renamed(demoGame, D, c)
             /\ playerGame' = Renamed(playerGame, D, c)
             /\ groupGame' = [Renamed(groupGame, D, c) EXCEPT ![k] = c]
             /\ games' = games \ D
             /\ blended' = blended \cup {c}
             /\ members' = [members EXCEPT ![k] = {j \in GroupJobs[k] : demoGame[j] \in chosen[w]}]
             /\ Leave(w)
             /\ UNCHANGED <<session, analyses, used, origin, confidence, issued, calls, fails>>)

-----------------------------------------------------------------------------
\* A statement fails, or the process dies between two statements.
Interrupt(w) ==
    /\ ~At(w, "idle")
    /\ fails < FailCap
    /\ fails' = fails + 1
    /\ Leave(w)
    /\ UNCHANGED <<session, rows, links, history, calls>>

Merge(w) ==
    \/ InsertAlias(w) \/ RepointAliases(w) \/ RepointGroups(w)
    \/ MoveDemos(w) \/ MovePlayers(w) \/ DeleteDuplicate(w)

Step(w) ==
    \/ Select(w) \/ Examine(w) \/ InsertGame(w) \/ Merge(w)
    \/ InsertDemo(w) \/ CountDemos(w) \/ SetConfidence(w)
    \/ \E p \in Players : IndexPlayer(w, p)
    \/ Return(w)
    \/ \E j \in Jobs : Gather(w, j)
    \/ \E g \in Ids : Canonical(w, g)
    \/ Check(w) \/ Commit(w)

Next ==
    \E w \in Writers :
        \/ \E j \in Jobs : Record(w, j) \/ View(w, j)
        \/ \E k \in Groups : Associate(w, k)
        \/ Step(w)
        \/ Interrupt(w)

Spec == Init /\ [][Next]_vars

-----------------------------------------------------------------------------
(* getGame, and the properties *)

\* The game that GET /api/games/<id> shows: its own row, or one alias away.
Resolved(g) ==
    IF g \in games THEN g
    ELSE IF alias[g] # None /\ alias[g] \in games THEN alias[g] ELSE None

Quiet == \A w \in Writers : pc[w] = "idle"

\* "Durable aliases preserve all previously issued game URLs": an id that a
\* response carried always leads to a game, whatever was merged since.
IssuedUrlsResolve == \A g \in issued : Resolved(g) # None

\* When no call was cut short, the indexes of a game agree: the history of every
\* player of a demo links to the game that shows the demo, and the demos of a
\* finalised provider group stay in the one game of the group, through every
\* later merge.
IndexesAgree ==
    Quiet /\ fails = 0 =>
        /\ \A j \in Jobs : demoGame[j] # None =>
              \A p \in session[j].players : playerGame[<<j, p>>] = demoGame[j]
        /\ \A k \in Groups : \A j \in members[k] :
              groupGame[k] # None /\ demoGame[j] = groupGame[k]

\* Embedded evidence never joins demos of different servers or campaigns, nor
\* any demo without a server: only an external group does.
SessionsAgree ==
    \A j, k \in Jobs :
        (j # k /\ demoGame[j] # None /\ demoGame[j] = demoGame[k]
               /\ demoGame[j] \notin blended) =>
            /\ session[j].server # None
            /\ session[j].server = session[k].server
            /\ session[j].campaign = session[k].campaign
=============================================================================
