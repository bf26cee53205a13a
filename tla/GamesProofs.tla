------------------------------ MODULE GamesProofs ------------------------------
(***************************************************************************)
(* Hosted demos are associated with games of their own server and          *)
(* campaign, whatever calls interleave and whichever are cut short; a      *)
(* lone writer also keeps every issued id alive and the indexes of a game  *)
(* in agreement.  For any number of jobs, groups, players and games.       *)
(***************************************************************************)
EXTENDS HostedGames, WellFoundedInduction, TLAPS

\* Where a call of assignGame is, where in a merge, and where in a group.
MergePlaces == {"alias", "repoint", "groups", "demos", "players", "delete"}
AfterMerge == {"demo", "count", "confidence", "index"}
JobPlaces == {"select", "examine", "insert"} \cup MergePlaces \cup AfterMerge
GroupPlaces == {"gather", "canonical", "check", "commit"}

\* What a writer holds where it is.
PlaceInv(w) ==
    /\ pc[w] \in JobPlaces => Job(w) \in Jobs
    /\ pc[w] \in GroupPlaces => Job(w) \in Groups
    /\ pc[w] \in {"idle", "select"} => chosen[w] = {}
    /\ pc[w] \in {"examine"} \cup MergePlaces => todo[w] # {} /\ todo[w] \subseteq used
    /\ pc[w] \in MergePlaces \cup AfterMerge \cup {"check", "commit"} => target[w] \in used

\* The demo of j, and what it was compared with, are of one server and campaign.
Same(j, k) ==
    /\ session[j].server # None
    /\ session[j].server = session[k].server
    /\ session[j].campaign = session[k].campaign

\* The game was made of the demo or of one like it.
Fits(j, g) == j = origin[g] \/ Same(j, origin[g])

\* What a call compared its demo with: the games it looks at, merges or ends in.
SessionInv(w) ==
    /\ pc[w] = "examine" => \A g \in todo[w] \cup chosen[w] : Same(Job(w), origin[g])
    /\ pc[w] \in MergePlaces => \A g \in todo[w] \cup {target[w]} : Same(Job(w), origin[g])
    /\ pc[w] = "demo" => Fits(Job(w), target[w])

\* Demos are in games they agree with, unless an external group put them there.
DemosFit == \A j \in Jobs : demoGame[j] # None /\ demoGame[j] \notin blended => Fits(j, demoGame[j])

\* A lone writer's games are there, and it never merges a game into itself.
HoldInv(w) ==
    /\ pc[w] = "examine" => todo[w] \cup chosen[w] \subseteq games
    /\ pc[w] \in MergePlaces => todo[w] \subseteq games \ {target[w]}
    /\ pc[w] \in MergePlaces \cup AfterMerge => target[w] \in games

\* No row of the table names g.
Unnamed(table, g) == \A r \in DOMAIN table : table[r] # g

\* A merge gives every row of its duplicate away before it deletes it.
MergeInv(w) ==
    /\ pc[w] \in MergePlaces \ {"alias"} => alias[Duplicate(w)] = target[w]
    /\ pc[w] \in MergePlaces \ {"alias", "repoint"} => Unnamed(alias, Duplicate(w))
    /\ pc[w] \in {"demos", "players", "delete"} => Unnamed(groupGame, Duplicate(w))
    /\ pc[w] \in {"players", "delete"} => Unnamed(demoGame, Duplicate(w))
    /\ pc[w] = "delete" => Unnamed(playerGame, Duplicate(w))
    /\ pc[w] \in {"count", "confidence", "index"} => demoGame[Job(w)] # None

\* The row of a player follows the demo, but for the demos a merge has moved while
\* their players are still to move, and a demo whose players are still to index.
Follows(j, p) ==
    \/ playerGame[<<j, p>>] = demoGame[j]
    \/ \E w \in Writers :
         \/ pc[w] = "players" /\ playerGame[<<j, p>>] = Duplicate(w) /\ demoGame[j] = target[w]
         \/ /\ pc[w] \in {"count", "confidence", "index"} /\ Job(w) = j
            /\ pc[w] = "index" => p \in todo[w]
            /\ playerGame[<<j, p>>] = None /\ demoGame[j] = target[w]

\* A demo of a finalised group is in the game of the group, but for a merge that
\* has moved the group and is still to move its demos.
StaysIn(j, k) ==
    /\ groupGame[k] # None
    /\ \/ demoGame[j] = groupGame[k]
       \/ \E w \in Writers :
            pc[w] = "demos" /\ demoGame[j] = Duplicate(w) /\ groupGame[k] = target[w]

\* While no call was cut short, rows of players and of groups follow the demos.
IndexInv ==
    fails = 0 =>
      /\ \A j \in Jobs : demoGame[j] = None => \A p \in Players : playerGame[<<j, p>>] = None
      /\ \A j \in Jobs : \A p \in session[j].players : Follows(j, p)
      /\ \A k \in Groups : \A j \in members[k] : StaysIn(j, k)

-----------------------------------------------------------------------------
(* The least of a set of numbers *)

\* A non-empty set of natural numbers has a least element, which Min chooses.
LEMMA MinIn == ASSUME NEW S \in SUBSET Nat, S # {} PROVE Min(S) \in S
<1> DEFINE R == OpToRel(<, Nat)
<1>1. \A y, x \in Nat : y < x => <<y, x>> \in R
  BY DEF OpToRel
<1>2. PICK x \in S : \A y \in S : ~ (<<y, x>> \in R)
  BY NatLessThanWellFounded, WFMin
<1> HIDE DEF R
<1>3. ASSUME NEW y \in S PROVE x <= y
  <2>1. y \in Nat /\ x \in Nat
    OBVIOUS
  <2>2. ~ (<<y, x>> \in R)
    BY <1>2
  <2>3. ~(y < x)
    BY <1>1, <2>1, <2>2
  <2> QED BY <2>1, <2>3
<1> QED BY <1>3 DEF Min

-----------------------------------------------------------------------------
(* Types *)

TablesOK ==
    /\ session \in [Jobs -> Sessions]
    /\ analyses \subseteq Jobs
    /\ games \subseteq used /\ used \subseteq Ids
    /\ origin \in [Ids -> Jobs \cup {None}]
    /\ \A g \in games : origin[g] \in Jobs
    /\ confidence \in [Ids -> {"none"} \cup Confidence]
    /\ \A g \in games : confidence[g] \in Confidence
    /\ alias \in [Ids -> games \cup {None}]
    /\ demoGame \in [Jobs -> games \cup {None}]
    /\ playerGame \in [Jobs \X Players -> games \cup {None}]
    /\ groupGame \in [Groups -> games \cup {None}]
    /\ members \in [Groups -> SUBSET Jobs]
    /\ issued \subseteq used /\ blended \subseteq used
    /\ calls \in Nat /\ fails \in Nat

LocalsOK ==
    /\ pc \in [Writers -> Pc]
    /\ call \in [Writers -> Calls]
    /\ todo \in [Writers -> SUBSET (Ids \cup Jobs \cup Players)]
    /\ chosen \in [Writers -> SUBSET used]
    /\ target \in [Writers -> used \cup {None}]
    /\ graded \in [Writers -> BOOLEAN]
    /\ \A w \in Writers : PlaceInv(w)

TypeInv == TablesOK /\ LocalsOK

Places == JobPlaces \cup GroupPlaces \cup {"idle"}

LEMMA PcIsPlaces == Pc = Places
BY DEF Pc, Places, JobPlaces, GroupPlaces, MergePlaces, AfterMerge

LEMMA InitIsTyped == Init => TypeInv
<1> SUFFICES ASSUME Init PROVE TypeInv
  OBVIOUS
<1>1. TablesOK
  BY DEF Init, TablesOK, Confidence
<1>2. NoCall \in Calls
  BY DEF NoCall, Calls, Kind
<1>3. LocalsOK
  BY <1>2 DEF Init, LocalsOK, Pc, PlaceInv, JobPlaces, GroupPlaces, MergePlaces, AfterMerge
<1> QED BY <1>1, <1>3 DEF TypeInv

\* Only the locals of the writer that takes a step change.
Still(v) ==
    /\ pc'[v] = pc[v] /\ call'[v] = call[v] /\ todo'[v] = todo[v]
    /\ chosen'[v] = chosen[v] /\ target'[v] = target[v]

LEMMA StillIsTyped ==
  ASSUME NEW v \in Writers, PlaceInv(v), Still(v), used \subseteq used'
  PROVE  PlaceInv(v)'
BY DEF PlaceInv, Still, Job

\* What a writer's own locals become.
LocalsBecome(w, place, c, left, found, t) ==
    /\ pc' = [pc EXCEPT ![w] = place]
    /\ call' = [call EXCEPT ![w] = c]
    /\ todo' = [todo EXCEPT ![w] = left]
    /\ chosen' = [chosen EXCEPT ![w] = found]
    /\ target' = [target EXCEPT ![w] = t]

HeldWell(place, c, left, found, t, drawn) ==
    /\ place \in Pc /\ c \in Calls /\ left \subseteq Ids \cup Jobs \cup Players
    /\ found \subseteq drawn /\ t \in drawn \cup {None}
    /\ place \in JobPlaces => c.of \in Jobs
    /\ place \in GroupPlaces => c.of \in Groups
    /\ place \in {"idle", "select"} => found = {}
    /\ place \in {"examine"} \cup MergePlaces => left # {} /\ left \subseteq drawn
    /\ place \in MergePlaces \cup AfterMerge \cup {"check", "commit"} => t \in drawn

LEMMA BecomingOthers ==
  ASSUME LocalsOK, NEW w \in Writers, NEW place, NEW c, NEW left, NEW found, NEW t,
         LocalsBecome(w, place, c, left, found, t)
  PROVE  /\ \A v \in Writers : v # w => Still(v)
         /\ pc'[w] = place /\ call'[w] = c /\ todo'[w] = left
         /\ chosen'[w] = found /\ target'[w] = t
BY DEF LocalsOK, LocalsBecome, Still

LEMMA BecomingIsTyped ==
  ASSUME LocalsOK, NEW w \in Writers, NEW place, NEW c, NEW left, NEW found, NEW t,
         LocalsBecome(w, place, c, left, found, t),
         used \subseteq used', HeldWell(place, c, left, found, t, used'),
         graded' \in [Writers -> BOOLEAN]
  PROVE  LocalsOK'
<1>1. /\ pc' \in [Writers -> Pc] /\ call' \in [Writers -> Calls]
      /\ todo' \in [Writers -> SUBSET (Ids \cup Jobs \cup Players)]
      /\ chosen' \in [Writers -> SUBSET used'] /\ target' \in [Writers -> used' \cup {None}]
  BY DEF LocalsOK, LocalsBecome, HeldWell
<1>2. PlaceInv(w)'
  BY BecomingOthers DEF PlaceInv, HeldWell, Job
<1>3. ASSUME NEW v \in Writers PROVE PlaceInv(v)'
  BY <1>2, BecomingOthers, StillIsTyped DEF LocalsOK
<1> QED BY <1>1, <1>3 DEF LocalsOK

LEMMA StayIsTyped ==
  ASSUME LocalsOK, UNCHANGED locals, UNCHANGED pc, used \subseteq used' PROVE LocalsOK'
<1>1. ASSUME NEW v \in Writers PROVE PlaceInv(v)'
  BY StillIsTyped DEF LocalsOK, Still, locals
<1> QED BY <1>1 DEF LocalsOK, locals

LEMMA LeaveIsTyped ==
  ASSUME LocalsOK, NEW w \in Writers, Leave(w), used \subseteq used' PROVE LocalsOK'
<1>1. NoCall \in Calls
  BY DEF NoCall, Calls, Kind
<1>2. LocalsBecome(w, "idle", NoCall, {}, {}, None)
  BY DEF Leave, LocalsBecome
<1>3. HeldWell("idle", NoCall, {}, {}, None, used')
  BY <1>1 DEF HeldWell, Pc, JobPlaces, GroupPlaces, MergePlaces, AfterMerge
<1>4. graded' \in [Writers -> BOOLEAN]
  BY DEF Leave, LocalsOK
<1> QED BY <1>2, <1>3, <1>4, BecomingIsTyped

LEMMA ThrowIsTyped ==
  ASSUME TypeInv, NEW w \in Writers, Throw(w) PROVE TypeInv'
<1>1. UNCHANGED <<session, rows, links, history, calls, fails>> /\ Leave(w)
  BY DEF Throw
<1>2. used' = used
  BY <1>1 DEF rows
<1>3. TablesOK'
  BY <1>1 DEF TypeInv, TablesOK, rows, links, history
<1> QED BY <1>1, <1>2, <1>3, LeaveIsTyped DEF TypeInv

\* A step that changes no table.
LEMMA ReadIsTyped ==
  ASSUME TablesOK, UNCHANGED <<session, rows, links, history>>,
         calls' \in Nat, fails' \in Nat
  PROVE  TablesOK' /\ used' = used
BY DEF TablesOK, rows, links, history

LEMMA BeginIs ==
  ASSUME TypeInv, NEW w \in Writers, NEW kind \in Kind, NEW of \in Jobs \cup Groups, NEW place,
         Begin(w, kind, of, place)
  PROVE  /\ pc[w] = "idle" /\ chosen[w] = {} /\ calls' \in Nat
         /\ [kind |-> kind, of |-> of] \in Calls
<1>1. calls' \in Nat
  BY DEF Begin, TypeInv, TablesOK
<1>2. [kind |-> kind, of |-> of] \in Calls
  BY DEF Calls
<1>3. pc[w] = "idle" /\ chosen[w] = {}
  BY DEF Begin, At, TypeInv, LocalsOK, PlaceInv
<1> QED BY <1>1, <1>2, <1>3

LEMMA RecordIsTyped ==
  ASSUME TypeInv, NEW w \in Writers, NEW j \in Jobs, Record(w, j) PROVE TypeInv'
<1> DEFINE c == [kind |-> "record", of |-> j]
<1>0. Begin(w, "record", j, "select") /\ "record" \in Kind
  BY DEF Record, Kind
<1>1. pc[w] = "idle" /\ chosen[w] = {} /\ calls' \in Nat /\ c \in Calls /\ c.of = j
  BY <1>0, BeginIs
<1>2. LocalsBecome(w, "select", c, todo[w], chosen[w], target[w])
  BY DEF Record, Begin, To, LocalsBecome, TypeInv, LocalsOK
<1>3. used' = used /\ graded' = graded
  BY DEF Record
<1> HIDE DEF c
<1>4. HeldWell("select", c, todo[w], chosen[w], target[w], used')
  BY <1>1, <1>3 DEF HeldWell, Pc, JobPlaces, GroupPlaces, MergePlaces, AfterMerge, TypeInv, LocalsOK
<1>5. LocalsOK'
  BY <1>2, <1>3, <1>4, BecomingIsTyped DEF TypeInv, LocalsOK
<1>6. TablesOK'
  BY <1>1 DEF Record, TypeInv, TablesOK, links, history
<1> QED BY <1>5, <1>6 DEF TypeInv

LEMMA ViewIsTyped ==
  ASSUME TypeInv, NEW w \in Writers, NEW j \in Jobs, View(w, j) PROVE TypeInv'
<1> DEFINE c == [kind |-> "view", of |-> j]
<1>0. "view" \in Kind
  BY DEF Kind
<1>1. UNCHANGED <<session, rows, links, history>> /\ fails' = fails /\ graded' = graded
  BY DEF View
<1>2. calls' \in Nat /\ c \in Calls /\ c.of = j /\ chosen[w] = {}
  BY <1>0, BeginIs DEF View
<1>3. TablesOK' /\ used' = used
  BY <1>1, <1>2, ReadIsTyped DEF TypeInv, TablesOK
<1>4. CASE demoGame[j] = None
  <2>1. LocalsBecome(w, "select", c, todo[w], chosen[w], target[w])
    BY <1>4 DEF View, Begin, To, LocalsBecome, TypeInv, LocalsOK
  <2> HIDE DEF c
  <2>2. HeldWell("select", c, todo[w], chosen[w], target[w], used')
    BY <1>2, <1>3 DEF HeldWell, Pc, JobPlaces, GroupPlaces, MergePlaces, AfterMerge, TypeInv, LocalsOK
  <2> QED BY <1>1, <1>3, <2>1, <2>2, BecomingIsTyped DEF TypeInv, LocalsOK
<1>5. CASE demoGame[j] # None
  <2>1. LocalsBecome(w, "index", c, session[j].players, chosen[w], demoGame[j])
    BY <1>5 DEF View, Begin, To, LocalsBecome, TypeInv, LocalsOK
  <2> HIDE DEF c
  <2>2. demoGame[j] \in used /\ session[j].players \subseteq Players
    BY <1>5, GamesAssumption DEF TypeInv, TablesOK
  <2>3. HeldWell("index", c, session[j].players, chosen[w], demoGame[j], used')
    BY <1>2, <1>3, <2>2 DEF HeldWell, Pc, JobPlaces, GroupPlaces, MergePlaces, AfterMerge, TypeInv, LocalsOK
  <2> QED BY <1>1, <1>3, <2>1, <2>3, BecomingIsTyped DEF TypeInv, LocalsOK
<1> QED BY <1>4, <1>5

LEMMA AssociateIsTyped ==
  ASSUME TypeInv, NEW w \in Writers, NEW k \in Groups, Associate(w, k) PROVE TypeInv'
<1> DEFINE c == [kind |-> "group", of |-> k]
           left == {j \in GroupJobs[k] : demoGame[j] # None}
<1>1. UNCHANGED <<session, rows, links, history>> /\ fails' = fails /\ graded' = graded
  BY DEF Associate
<1>2. "group" \in Kind /\ Begin(w, "group", k, "gather")
  BY DEF Kind, Associate
<1>3. calls' \in Nat /\ c \in Calls /\ c.of = k
  BY <1>2, BeginIs
<1>4. TablesOK' /\ used' = used
  BY <1>1, <1>3, ReadIsTyped DEF TypeInv, TablesOK
<1>5. LocalsBecome(w, "gather", c, left, chosen[w], target[w])
  BY DEF Associate, Begin, To, LocalsBecome, TypeInv, LocalsOK
<1>6. left \subseteq Jobs
  BY GamesAssumption
<1> HIDE DEF c, left
<1>7. HeldWell("gather", c, left, chosen[w], target[w], used')
  BY <1>3, <1>4, <1>6 DEF HeldWell, Pc, JobPlaces, GroupPlaces, MergePlaces, AfterMerge, TypeInv, LocalsOK
<1> QED BY <1>1, <1>4, <1>5, <1>7, BecomingIsTyped DEF TypeInv, LocalsOK

LEMMA GatherIsTyped ==
  ASSUME TypeInv, NEW w \in Writers, NEW j \in Jobs, Gather(w, j) PROVE TypeInv'
<1>1. CASE demoGame[j] = None
  BY <1>1, ThrowIsTyped DEF Gather
<1>2. CASE demoGame[j] # None
  <2> DEFINE place == IF todo[w] = {j} THEN "canonical" ELSE "gather"
             left == todo[w] \ {j}
             found == chosen[w] \cup {demoGame[j]}
  <2>1. LocalsBecome(w, place, call[w], left, found, target[w])
    BY <1>2 DEF Gather, To, LocalsBecome, TypeInv, LocalsOK
  <2>2. UNCHANGED <<session, rows, links, history, calls, fails, graded>> /\ pc[w] = "gather"
    BY <1>2 DEF Gather, At
  <2>3. demoGame[j] \in used
    BY <1>2 DEF TypeInv, TablesOK
  <2>4. place \in {"gather", "canonical"} /\ found \subseteq used /\ left \subseteq todo[w]
    BY <2>3 DEF TypeInv, LocalsOK
  <2>5. Job(w) \in Groups
    BY <2>2 DEF TypeInv, LocalsOK, PlaceInv, GroupPlaces
  <2>6. TablesOK' /\ used' = used
    BY <2>2, ReadIsTyped DEF TypeInv, TablesOK
  <2> HIDE DEF place, left, found
  <2>7. HeldWell(place, call[w], left, found, target[w], used')
    BY <2>4, <2>5, <2>6 DEF HeldWell, Job, Pc, JobPlaces, GroupPlaces, MergePlaces, AfterMerge, TypeInv, LocalsOK
  <2> QED BY <2>1, <2>2, <2>6, <2>7, BecomingIsTyped DEF TypeInv, LocalsOK
<1> QED BY <1>1, <1>2

LEMMA CanonicalIsTyped ==
  ASSUME TypeInv, NEW w \in Writers, NEW g \in Ids, Canonical(w, g) PROVE TypeInv'
<1>1. UNCHANGED <<session, rows, links, history, calls, fails, graded>> /\ pc[w] = "canonical"
  BY DEF Canonical, At
<1>2. Job(w) \in Groups
  BY <1>1 DEF TypeInv, LocalsOK, PlaceInv, GroupPlaces
<1>3. g \in used
  <2>1. groupGame[Job(w)] \in used \cup {None}
    BY <1>2 DEF TypeInv, TablesOK
  <2>2. CASE groupGame[Job(w)] # None
    BY <2>1, <2>2 DEF Canonical
  <2>3. CASE groupGame[Job(w)] = None
    BY <2>3 DEF Canonical, TypeInv, LocalsOK
  <2> QED BY <2>2, <2>3
<1>4. TablesOK' /\ used' = used
  BY <1>1, ReadIsTyped DEF TypeInv, TablesOK
<1>5. LocalsBecome(w, "check", call[w], todo[w], chosen[w] \cup {g}, g)
  BY DEF Canonical, To, LocalsBecome, TypeInv, LocalsOK
<1>6. HeldWell("check", call[w], todo[w], chosen[w] \cup {g}, g, used')
  BY <1>2, <1>3, <1>4 DEF HeldWell, Job, Pc, JobPlaces, GroupPlaces, MergePlaces, AfterMerge, TypeInv, LocalsOK
<1> QED BY <1>1, <1>4, <1>5, <1>6, BecomingIsTyped DEF TypeInv, LocalsOK

LEMMA CheckIsTyped ==
  ASSUME TypeInv, NEW w \in Writers, Check(w) PROVE TypeInv'
<1>1. CASE Throw(w)
  BY <1>1, ThrowIsTyped
<1>2. CASE To(w, "commit") /\ UNCHANGED <<session, rows, links, history, locals, calls, fails>>
  <2>1. LocalsBecome(w, "commit", call[w], todo[w], chosen[w], target[w])
    BY <1>2 DEF To, LocalsBecome, locals, TypeInv, LocalsOK
  <2>2. pc[w] = "check"
    BY DEF Check, At
  <2>3. Job(w) \in Groups /\ target[w] \in used
    BY <2>2 DEF TypeInv, LocalsOK, PlaceInv, GroupPlaces
  <2>4. TablesOK' /\ used' = used
    BY <1>2, ReadIsTyped DEF TypeInv, TablesOK
  <2>5. HeldWell("commit", call[w], todo[w], chosen[w], target[w], used')
    BY <2>3, <2>4 DEF HeldWell, Job, Pc, JobPlaces, GroupPlaces, MergePlaces, AfterMerge, TypeInv, LocalsOK
  <2> QED BY <1>2, <2>1, <2>4, <2>5, BecomingIsTyped DEF TypeInv, LocalsOK, locals
<1> QED BY <1>1, <1>2 DEF Check

LEMMA PossibleIsUsed ==
  ASSUME TypeInv, NEW j PROVE Possible(j) \subseteq games /\ Possible(j) \subseteq used
BY DEF Possible, TypeInv, TablesOK

\* The decision that a search ends in.
Decided(w, found) ==
    IF found = {}
    THEN LocalsBecome(w, "insert", call[w], {}, {}, target[w])
    ELSE LocalsBecome(w, IF found = {Min(found)} THEN "demo" ELSE "alias", call[w],
                      found \ {Min(found)}, found, Min(found))

LEMMA DecideIs ==
  ASSUME TypeInv, NEW w \in Writers, NEW found \in SUBSET used, Decide(w, found), call' = call
  PROVE  Decided(w, found)
BY DEF Decide, Decided, LocalsBecome, To, TypeInv, LocalsOK

LEMMA LeastIsFound ==
  ASSUME TypeInv, NEW found \in SUBSET used, found # {} PROVE Min(found) \in found
<1>1. found \in SUBSET Nat
  BY GamesAssumption DEF TypeInv, TablesOK
<1> QED BY <1>1, MinIn

LEMMA DecidedIsTyped ==
  ASSUME TypeInv, NEW w \in Writers, NEW found \in SUBSET used, Decided(w, found),
         Job(w) \in Jobs, used' = used, graded' = graded
  PROVE  LocalsOK'
<1>0. call[w] \in Calls /\ target[w] \in used \cup {None} /\ graded \in [Writers -> BOOLEAN] /\ used \subseteq Ids
  BY DEF TypeInv, LocalsOK, TablesOK
<1>1. CASE found = {}
  <2>1. LocalsBecome(w, "insert", call[w], {}, {}, target[w])
    BY <1>1 DEF Decided
  <2>2. HeldWell("insert", call[w], {}, {}, target[w], used')
    BY <1>0 DEF HeldWell, Job, Pc, JobPlaces, GroupPlaces, MergePlaces, AfterMerge
  <2> QED BY <1>0, <2>1, <2>2, BecomingIsTyped DEF TypeInv
<1>2. CASE found # {}
  <2> DEFINE place == IF found = {Min(found)} THEN "demo" ELSE "alias"
             left == found \ {Min(found)}
             t == Min(found)
  <2>1. LocalsBecome(w, place, call[w], left, found, t)
    BY <1>2 DEF Decided
  <2>2. place \in {"demo", "alias"} /\ t \in used /\ left \subseteq used /\ (place = "alias" => left # {})
    BY <1>2, LeastIsFound
  <2> HIDE DEF place, left, t
  <2>3. HeldWell(place, call[w], left, found, t, used')
    BY <1>0, <2>2 DEF HeldWell, Job, Pc, JobPlaces, GroupPlaces, MergePlaces, AfterMerge
  <2> QED BY <1>0, <2>1, <2>3, BecomingIsTyped DEF TypeInv
<1> QED BY <1>1, <1>2

LEMMA SelectIs ==
  ASSUME TypeInv, NEW w \in Writers, Select(w)
  PROVE  /\ pc[w] = "select" /\ Job(w) \in Jobs /\ chosen[w] = {}
         /\ UNCHANGED <<session, rows, links, history, graded, calls, fails>>
         /\ IF Possible(Job(w)) = {}
            THEN Decided(w, {})
            ELSE LocalsBecome(w, "examine", call[w], Possible(Job(w)), {}, target[w])
<1>1. pc[w] = "select" /\ UNCHANGED <<session, rows, links, history, graded, calls, fails>> /\ call' = call
  BY DEF Select, At
<1>2. Job(w) \in Jobs /\ chosen[w] = {}
  BY <1>1 DEF TypeInv, LocalsOK, PlaceInv, JobPlaces
<1>3. CASE Possible(Job(w)) = {}
  <2>1. Decide(w, {})
    BY <1>3 DEF Select
  <2> QED BY <1>1, <1>2, <1>3, <2>1, DecideIs
<1>4. CASE Possible(Job(w)) # {}
  <2>1. LocalsBecome(w, "examine", call[w], Possible(Job(w)), chosen[w], target[w])
    BY <1>4 DEF Select, LocalsBecome, To, TypeInv, LocalsOK
  <2> QED BY <1>1, <1>2, <1>4, <2>1
<1> QED BY <1>3, <1>4

LEMMA SelectIsTyped == ASSUME TypeInv, NEW w \in Writers, Select(w) PROVE TypeInv'
<1>1. UNCHANGED <<session, rows, links, history, calls, fails>> /\ graded' = graded /\ Job(w) \in Jobs
  BY SelectIs
<1>2. TablesOK' /\ used' = used
  BY <1>1, ReadIsTyped DEF TypeInv, TablesOK
<1>3. CASE Possible(Job(w)) = {}
  BY <1>1, <1>2, <1>3, SelectIs, DecidedIsTyped DEF TypeInv
<1>4. CASE Possible(Job(w)) # {}
  <2> DEFINE left == Possible(Job(w))
  <2>1. LocalsBecome(w, "examine", call[w], left, {}, target[w])
    BY <1>4, SelectIs
  <2>2. left \subseteq used /\ left # {}
    BY <1>4, PossibleIsUsed
  <2> HIDE DEF left
  <2>3. HeldWell("examine", call[w], left, {}, target[w], used')
    BY <1>1, <1>2, <2>2 DEF HeldWell, Job, Pc, JobPlaces, GroupPlaces, MergePlaces, AfterMerge, TypeInv, LocalsOK, TablesOK
  <2> QED BY <1>1, <1>2, <2>1, <2>3, BecomingIsTyped DEF TypeInv, LocalsOK
<1> QED BY <1>3, <1>4

\* The candidate that is examined next, and what is found with it.
Nearest(w) == Min(todo[w])
Found(w) == IF Accepts(Nearest(w), Job(w)) THEN chosen[w] \cup {Nearest(w)} ELSE chosen[w]

LEMMA ExamineIs ==
  ASSUME TypeInv, NEW w \in Writers, Examine(w)
  PROVE  /\ pc[w] = "examine" /\ Job(w) \in Jobs
         /\ Nearest(w) \in todo[w] /\ todo[w] \subseteq used /\ Found(w) \subseteq used
         /\ Found(w) \subseteq chosen[w] \cup todo[w]
         /\ UNCHANGED <<session, rows, links, history, graded, calls, fails>>
         /\ IF todo[w] = {Nearest(w)}
            THEN Decided(w, Found(w))
            ELSE LocalsBecome(w, "examine", call[w], todo[w] \ {Nearest(w)}, Found(w), target[w])
<1>1. pc[w] = "examine" /\ UNCHANGED <<session, rows, links, history, graded, calls, fails>> /\ call' = call
  BY DEF Examine, At
<1>2. Job(w) \in Jobs /\ todo[w] \subseteq used /\ todo[w] # {}
  BY <1>1 DEF TypeInv, LocalsOK, PlaceInv, JobPlaces
<1>3. Nearest(w) \in todo[w]
  BY <1>2, LeastIsFound DEF Nearest
<1>4. Found(w) \subseteq used /\ Found(w) \subseteq chosen[w] \cup todo[w]
  BY <1>2, <1>3 DEF Found, TypeInv, LocalsOK
<1>5. CASE todo[w] = {Nearest(w)}
  <2>1. Decide(w, Found(w))
    BY <1>5 DEF Examine, Found, Nearest
  <2> QED BY <1>1, <1>2, <1>3, <1>4, <1>5, <2>1, DecideIs
<1>6. CASE todo[w] # {Nearest(w)}
  <2>1. LocalsBecome(w, "examine", call[w], todo[w] \ {Nearest(w)}, Found(w), target[w])
    BY <1>1, <1>6 DEF Examine, Found, Nearest, LocalsBecome, To, TypeInv, LocalsOK
  <2> QED BY <1>1, <1>2, <1>3, <1>4, <1>6, <2>1
<1> QED BY <1>5, <1>6

LEMMA ExamineIsTyped == ASSUME TypeInv, NEW w \in Writers, Examine(w) PROVE TypeInv'
<1>1. /\ UNCHANGED <<session, rows, links, history, calls, fails>> /\ graded' = graded
      /\ Job(w) \in Jobs /\ Nearest(w) \in todo[w] /\ todo[w] \subseteq used /\ Found(w) \subseteq used
  BY ExamineIs
<1>2. TablesOK' /\ used' = used
  BY <1>1, ReadIsTyped DEF TypeInv, TablesOK
<1>3. CASE todo[w] = {Nearest(w)}
  BY <1>1, <1>2, <1>3, ExamineIs, DecidedIsTyped DEF TypeInv
<1>4. CASE todo[w] # {Nearest(w)}
  <2> DEFINE left == todo[w] \ {Nearest(w)}
  <2>1. LocalsBecome(w, "examine", call[w], left, Found(w), target[w])
    BY <1>4, ExamineIs
  <2>2. left \subseteq used /\ left # {}
    BY <1>1, <1>4
  <2> HIDE DEF left
  <2>3. HeldWell("examine", call[w], left, Found(w), target[w], used')
    BY <1>1, <1>2, <2>2 DEF HeldWell, Job, Pc, JobPlaces, GroupPlaces, MergePlaces, AfterMerge, TypeInv, LocalsOK, TablesOK
  <2> QED BY <1>1, <1>2, <2>1, <2>3, BecomingIsTyped DEF TypeInv, LocalsOK
<1> QED BY <1>3, <1>4

\* The id a new game gets.
Fresh == Min(Ids \ used)

LEMMA InsertGameIs ==
  ASSUME TypeInv, NEW w \in Writers, InsertGame(w)
  PROVE  /\ pc[w] = "insert" /\ Job(w) \in Jobs /\ Fresh \in Ids \ used
         /\ used' = used \cup {Fresh} /\ games' = games \cup {Fresh}
         /\ origin' = [origin EXCEPT ![Fresh] = Job(w)]
         /\ confidence' = [confidence EXCEPT ![Fresh] = Grade(session[Job(w)], FALSE)]
         /\ LocalsBecome(w, "demo", call[w], todo[w], chosen[w], Fresh)
         /\ UNCHANGED <<session, analyses, links, history, graded, calls, fails>>
<1>1. Ids \ used # {} /\ Ids \ used \in SUBSET Nat
  BY GamesAssumption DEF InsertGame, TypeInv, TablesOK
<1>2. Fresh \in Ids \ used
  BY <1>1, MinIn DEF Fresh
<1>3. pc[w] = "insert" /\ Job(w) \in Jobs
  BY DEF InsertGame, At, TypeInv, LocalsOK, PlaceInv, JobPlaces
<1>4. LocalsBecome(w, "demo", call[w], todo[w], chosen[w], Fresh)
  BY DEF InsertGame, To, LocalsBecome, TypeInv, LocalsOK, Fresh
<1> QED BY <1>2, <1>3, <1>4 DEF InsertGame, Fresh

LEMMA GradeIsConfidence == ASSUME NEW s, NEW many PROVE Grade(s, many) \in Confidence
BY DEF Grade, Confidence

LEMMA InsertGameIsTyped == ASSUME TypeInv, NEW w \in Writers, InsertGame(w) PROVE TypeInv'
<1> DEFINE grade == Grade(session[Job(w)], FALSE)
<1>1. grade \in Confidence
  BY GradeIsConfidence
<1>2. /\ Job(w) \in Jobs /\ Fresh \in Ids \ used
      /\ used' = used \cup {Fresh} /\ games' = games \cup {Fresh}
      /\ origin' = [origin EXCEPT ![Fresh] = Job(w)]
      /\ confidence' = [confidence EXCEPT ![Fresh] = grade]
      /\ LocalsBecome(w, "demo", call[w], todo[w], chosen[w], Fresh)
      /\ UNCHANGED <<session, analyses, links, history, graded, calls, fails>>
  BY InsertGameIs
<1> HIDE DEF grade
<1>3. TablesOK'
  BY <1>1, <1>2 DEF TypeInv, TablesOK, links, history
<1>4. HeldWell("demo", call[w], todo[w], chosen[w], Fresh, used')
  BY <1>2 DEF HeldWell, Job, Pc, JobPlaces, GroupPlaces, MergePlaces, AfterMerge, TypeInv, LocalsOK
<1> QED BY <1>2, <1>3, <1>4, BecomingIsTyped DEF TypeInv, LocalsOK

(* The merge *)

LEMMA RenamedIsTyped ==
  ASSUME NEW S, NEW G, NEW D, NEW none, NEW c, NEW table \in [S -> G \cup {none}]
  PROVE  Renamed(table, D, c) \in [S -> (G \ D) \cup {c, none}]
BY DEF Renamed

\* A statement that renames goes through when it has nothing to rename, or
\* renames it to a game that is there.
Movable(w, table) == target[w] \in games \/ Unnamed(table, Duplicate(w))

LEMMA MovedIsTyped ==
  ASSUME NEW S, NEW w, NEW table \in [S -> games \cup {None}], Movable(w, table)
  PROVE  Renamed(table, {Duplicate(w)}, target[w]) \in [S -> games \cup {None}]
<1>1. CASE target[w] \in games
  BY <1>1 DEF Renamed
<1>2. CASE Unnamed(table, Duplicate(w))
  BY <1>2 DEF Renamed, Unnamed
<1> QED BY <1>1, <1>2 DEF Movable

\* A merge that does not throw goes on to the next statement.
Onward(w, place) ==
    /\ To(w, place)
    /\ UNCHANGED <<session, rows, members, issued, locals, calls, fails>>

LEMMA InsertAliasIs ==
  ASSUME NEW w \in Writers, InsertAlias(w)
  PROVE  \/ Throw(w) /\ target[w] \notin games
         \/ /\ target[w] \in games
            /\ alias' = [alias EXCEPT ![Duplicate(w)] = target[w]]
            /\ Onward(w, "repoint")
            /\ UNCHANGED <<demoGame, playerGame, groupGame, blended>>
BY DEF InsertAlias, Naming, Onward, history

LEMMA RepointAliasesIs ==
  ASSUME NEW w \in Writers, RepointAliases(w)
  PROVE  \/ Throw(w) /\ target[w] \notin games
         \/ /\ Movable(w, alias)
            /\ alias' = Renamed(alias, {Duplicate(w)}, target[w])
            /\ Onward(w, "groups")
            /\ UNCHANGED <<demoGame, playerGame, groupGame, blended>>
BY DEF RepointAliases, Rename, Naming, Onward, history, Movable, Unnamed

LEMMA RepointGroupsIs ==
  ASSUME NEW w \in Writers, RepointGroups(w)
  PROVE  \/ Throw(w) /\ target[w] \notin games
         \/ /\ Movable(w, groupGame)
            /\ groupGame' = Renamed(groupGame, {Duplicate(w)}, target[w])
            /\ Onward(w, "demos")
            /\ UNCHANGED <<alias, demoGame, playerGame, blended>>
BY DEF RepointGroups, Rename, Naming, Onward, history, Movable, Unnamed

LEMMA MoveDemosIs ==
  ASSUME NEW w \in Writers, MoveDemos(w)
  PROVE  \/ Throw(w) /\ target[w] \notin games
         \/ /\ Movable(w, demoGame)
            /\ demoGame' = Renamed(demoGame, {Duplicate(w)}, target[w])
            /\ blended' = IF Duplicate(w) \in blended THEN blended \cup {target[w]} ELSE blended
            /\ Onward(w, "players")
            /\ UNCHANGED <<alias, playerGame, groupGame>>
BY DEF MoveDemos, Rename, Naming, Onward, Movable, Unnamed

LEMMA MovePlayersIs ==
  ASSUME NEW w \in Writers, MovePlayers(w)
  PROVE  \/ Throw(w) /\ target[w] \notin games
         \/ /\ Movable(w, playerGame)
            /\ playerGame' = Renamed(playerGame, {Duplicate(w)}, target[w])
            /\ Onward(w, "delete")
            /\ UNCHANGED <<alias, demoGame, groupGame, blended>>
BY DEF MovePlayers, Rename, Naming, Onward, history, Movable, Unnamed

LEMMA MergingIs ==
  ASSUME TypeInv, NEW w \in Writers, pc[w] \in MergePlaces
  PROVE  /\ Job(w) \in Jobs /\ Duplicate(w) \in todo[w] /\ todo[w] \subseteq used
         /\ target[w] \in used
<1>1. Job(w) \in Jobs /\ todo[w] \subseteq used /\ todo[w] # {} /\ target[w] \in used
  BY DEF TypeInv, LocalsOK, PlaceInv, JobPlaces
<1> QED BY <1>1, LeastIsFound DEF Duplicate

LEMMA OnwardIsTyped ==
  ASSUME TypeInv, NEW w \in Writers, pc[w] \in MergePlaces, NEW place \in MergePlaces,
         Onward(w, place)
  PROVE  LocalsOK'
<1>1. LocalsBecome(w, place, call[w], todo[w], chosen[w], target[w]) /\ graded' = graded /\ used' = used
  BY DEF Onward, To, LocalsBecome, locals, rows, TypeInv, LocalsOK
<1>2. Job(w) \in Jobs /\ todo[w] # {} /\ todo[w] \subseteq used /\ target[w] \in used
  BY MergingIs
<1>3. HeldWell(place, call[w], todo[w], chosen[w], target[w], used')
  BY <1>1, <1>2 DEF HeldWell, Job, Pc, JobPlaces, GroupPlaces, MergePlaces, AfterMerge, TypeInv, LocalsOK
<1> QED BY <1>1, <1>3, BecomingIsTyped DEF TypeInv, LocalsOK

LEMMA MoveIsTyped ==
  ASSUME TypeInv, NEW w \in Writers,
         \/ InsertAlias(w) \/ RepointAliases(w) \/ RepointGroups(w)
         \/ MoveDemos(w) \/ MovePlayers(w)
  PROVE  TypeInv'
<1>0. pc[w] \in MergePlaces
  BY DEF InsertAlias, RepointAliases, RepointGroups, MoveDemos, MovePlayers, At, MergePlaces
<1>1. Duplicate(w) \in Ids /\ target[w] \in used
  BY <1>0, MergingIs DEF TypeInv, TablesOK
<1>2. CASE Throw(w)
  BY <1>2, ThrowIsTyped
<1>3. CASE InsertAlias(w) /\ ~Throw(w)
  <2>1. /\ target[w] \in games /\ alias' = [alias EXCEPT ![Duplicate(w)] = target[w]]
        /\ Onward(w, "repoint") /\ UNCHANGED <<demoGame, playerGame, groupGame, blended>>
    BY <1>3, InsertAliasIs
  <2>2. TablesOK'
    BY <1>1, <2>1 DEF TypeInv, TablesOK, Onward, rows
  <2> QED BY <1>0, <2>1, <2>2, OnwardIsTyped DEF TypeInv, MergePlaces
<1>4. CASE RepointAliases(w) /\ ~Throw(w)
  <2>1. /\ Movable(w, alias) /\ alias' = Renamed(alias, {Duplicate(w)}, target[w])
        /\ Onward(w, "groups") /\ UNCHANGED <<demoGame, playerGame, groupGame, blended>>
    BY <1>4, RepointAliasesIs
  <2>2. alias' \in [Ids -> games \cup {None}]
    BY <2>1, MovedIsTyped DEF TypeInv, TablesOK
  <2>3. TablesOK'
    BY <2>1, <2>2 DEF TypeInv, TablesOK, Onward, rows
  <2> QED BY <1>0, <2>1, <2>3, OnwardIsTyped DEF TypeInv, MergePlaces
<1>5. CASE RepointGroups(w) /\ ~Throw(w)
  <2>1. /\ Movable(w, groupGame) /\ groupGame' = Renamed(groupGame, {Duplicate(w)}, target[w])
        /\ Onward(w, "demos") /\ UNCHANGED <<alias, demoGame, playerGame, blended>>
    BY <1>5, RepointGroupsIs
  <2>2. groupGame' \in [Groups -> games \cup {None}]
    BY <2>1, MovedIsTyped DEF TypeInv, TablesOK
  <2>3. TablesOK'
    BY <2>1, <2>2 DEF TypeInv, TablesOK, Onward, rows
  <2> QED BY <1>0, <2>1, <2>3, OnwardIsTyped DEF TypeInv, MergePlaces
<1>6. CASE MoveDemos(w) /\ ~Throw(w)
  <2>1. /\ Movable(w, demoGame) /\ demoGame' = Renamed(demoGame, {Duplicate(w)}, target[w])
        /\ blended' = IF Duplicate(w) \in blended THEN blended \cup {target[w]} ELSE blended
        /\ Onward(w, "players") /\ UNCHANGED <<alias, playerGame, groupGame>>
    BY <1>6, MoveDemosIs
  <2>2. demoGame' \in [Jobs -> games \cup {None}]
    BY <2>1, MovedIsTyped DEF TypeInv, TablesOK
  <2>3. blended' \subseteq used
    BY <1>1, <2>1 DEF TypeInv, TablesOK
  <2>4. TablesOK'
    BY <2>1, <2>2, <2>3 DEF TypeInv, TablesOK, Onward, rows
  <2> QED BY <1>0, <2>1, <2>4, OnwardIsTyped DEF TypeInv, MergePlaces
<1>7. CASE MovePlayers(w) /\ ~Throw(w)
  <2>1. /\ Movable(w, playerGame) /\ playerGame' = Renamed(playerGame, {Duplicate(w)}, target[w])
        /\ Onward(w, "delete") /\ UNCHANGED <<alias, demoGame, groupGame, blended>>
    BY <1>7, MovePlayersIs
  <2>2. playerGame' \in [Jobs \X Players -> games \cup {None}]
    BY <2>1, MovedIsTyped DEF TypeInv, TablesOK
  <2>3. TablesOK'
    BY <2>1, <2>2 DEF TypeInv, TablesOK, Onward, rows
  <2> QED BY <1>0, <2>1, <2>3, OnwardIsTyped DEF TypeInv, MergePlaces
<1> QED BY <1>2, <1>3, <1>4, <1>5, <1>6, <1>7

LEMMA DeleteIs ==
  ASSUME TypeInv, NEW w \in Writers, DeleteDuplicate(w)
  PROVE  /\ pc[w] = "delete" /\ Delete({Duplicate(w)})
         /\ LocalsBecome(w, IF todo[w] = {Duplicate(w)} THEN "demo" ELSE "alias", call[w],
                         todo[w] \ {Duplicate(w)}, chosen[w], target[w])
         /\ UNCHANGED <<session, analyses, used, origin, confidence, history, graded, calls, fails>>
BY DEF DeleteDuplicate, At, To, LocalsBecome, TypeInv, LocalsOK

LEMMA DeleteIsTyped == ASSUME TypeInv, NEW w \in Writers, DeleteDuplicate(w) PROVE TypeInv'
<1> DEFINE place == IF todo[w] = {Duplicate(w)} THEN "demo" ELSE "alias"
           left == todo[w] \ {Duplicate(w)}
           D == {Duplicate(w)}
<1>1. /\ pc[w] = "delete" /\ Delete(D)
      /\ LocalsBecome(w, place, call[w], left, chosen[w], target[w])
      /\ UNCHANGED <<session, analyses, used, origin, confidence, history, graded, calls, fails>>
  BY DeleteIs
<1>2. /\ Job(w) \in Jobs /\ Duplicate(w) \in todo[w] /\ todo[w] \subseteq used /\ target[w] \in used
  BY <1>1, MergingIs DEF MergePlaces
<1>3. place \in {"demo", "alias"} /\ left \subseteq used /\ (place = "alias" => left # {})
  BY <1>2
<1> HIDE DEF place, left, D
<1>4. /\ alias' \in [Ids -> games' \cup {None}] /\ demoGame' \in [Jobs -> games' \cup {None}]
      /\ playerGame' \in [Jobs \X Players -> games' \cup {None}]
      /\ groupGame' \in [Groups -> games' \cup {None}]
  BY <1>1 DEF Delete, Without, Renamed, TypeInv, TablesOK
<1>5. TablesOK'
  BY <1>1, <1>4 DEF Delete, TypeInv, TablesOK, history
<1>6. HeldWell(place, call[w], left, chosen[w], target[w], used')
  BY <1>1, <1>2, <1>3 DEF HeldWell, Job, Pc, JobPlaces, GroupPlaces, MergePlaces, AfterMerge, TypeInv, LocalsOK, TablesOK
<1>7. LocalsOK'
  BY <1>1, <1>6, BecomingIsTyped DEF TypeInv, LocalsOK
<1> QED BY <1>5, <1>7 DEF TypeInv

(* The rows of a demo *)

LEMMA InsertDemoIs ==
  ASSUME TypeInv, NEW w \in Writers, InsertDemo(w)
  PROVE  /\ pc[w] = "demo" /\ Job(w) \in Jobs /\ target[w] \in used
         /\ \/ Throw(w) /\ target[w] \notin games
            \/ /\ IF demoGame[Job(w)] # None
                  THEN demoGame' = demoGame
                  ELSE target[w] \in games /\ demoGame' = [demoGame EXCEPT ![Job(w)] = target[w]]
               /\ LocalsBecome(w, "count", call[w], todo[w], chosen[w], target[w])
               /\ UNCHANGED <<session, rows, alias, playerGame, groupGame, history, graded, calls, fails>>
<1>1. pc[w] = "demo" /\ Job(w) \in Jobs /\ target[w] \in used
  BY DEF InsertDemo, At, TypeInv, LocalsOK, PlaceInv, JobPlaces, AfterMerge
<1>2. CASE demoGame[Job(w)] # None
  <2>1. demoGame' = demoGame
    BY <1>1, <1>2 DEF InsertDemo, TypeInv, TablesOK
  <2>2. To(w, "count") /\ UNCHANGED <<session, rows, alias, playerGame, groupGame, history, locals, calls, fails>>
    BY <1>2 DEF InsertDemo
  <2>3. LocalsBecome(w, "count", call[w], todo[w], chosen[w], target[w])
    BY <2>2 DEF To, LocalsBecome, locals, TypeInv, LocalsOK
  <2> QED BY <1>1, <1>2, <2>1, <2>2, <2>3 DEF locals
<1>3. CASE demoGame[Job(w)] = None /\ target[w] \in games
  <2>1. /\ demoGame' = [demoGame EXCEPT ![Job(w)] = target[w]] /\ To(w, "count")
        /\ UNCHANGED <<session, rows, alias, playerGame, groupGame, history, locals, calls, fails>>
    BY <1>3 DEF InsertDemo, Naming
  <2>2. LocalsBecome(w, "count", call[w], todo[w], chosen[w], target[w])
    BY <2>1 DEF To, LocalsBecome, locals, TypeInv, LocalsOK
  <2> QED BY <1>1, <1>3, <2>1, <2>2 DEF locals
<1>4. CASE demoGame[Job(w)] = None /\ target[w] \notin games
  BY <1>1, <1>4 DEF InsertDemo, Naming
<1> QED BY <1>2, <1>3, <1>4

LEMMA InsertDemoIsTyped == ASSUME TypeInv, NEW w \in Writers, InsertDemo(w) PROVE TypeInv'
<1>1. Job(w) \in Jobs /\ target[w] \in used
  BY InsertDemoIs
<1>2. CASE Throw(w)
  BY <1>2, ThrowIsTyped
<1>3. CASE ~Throw(w)
  <2>1. /\ IF demoGame[Job(w)] # None
           THEN demoGame' = demoGame
           ELSE target[w] \in games /\ demoGame' = [demoGame EXCEPT ![Job(w)] = target[w]]
        /\ LocalsBecome(w, "count", call[w], todo[w], chosen[w], target[w])
        /\ UNCHANGED <<session, rows, alias, playerGame, groupGame, history, graded, calls, fails>>
    BY <1>3, InsertDemoIs
  <2>2. demoGame' \in [Jobs -> games \cup {None}]
    BY <1>1, <2>1 DEF TypeInv, TablesOK
  <2>3. TablesOK' /\ used' = used
    BY <2>1, <2>2 DEF TypeInv, TablesOK, rows, history
  <2>4. HeldWell("count", call[w], todo[w], chosen[w], target[w], used')
    BY <1>1, <2>3 DEF HeldWell, Job, Pc, JobPlaces, GroupPlaces, MergePlaces, AfterMerge, TypeInv, LocalsOK
  <2> QED BY <2>1, <2>3, <2>4, BecomingIsTyped DEF TypeInv, LocalsOK
<1> QED BY <1>2, <1>3

LEMMA FinishingIs ==
  ASSUME TypeInv, NEW w \in Writers, pc[w] \in {"count", "confidence", "index"}
  PROVE  Job(w) \in Jobs /\ target[w] \in used
BY DEF TypeInv, LocalsOK, PlaceInv, JobPlaces, AfterMerge

LEMMA CountDemosIs ==
  ASSUME TypeInv, NEW w \in Writers, CountDemos(w)
  PROVE  /\ pc[w] = "count"
         /\ LocalsBecome(w, "confidence", call[w], todo[w], chosen[w], target[w])
         /\ graded' \in [Writers -> BOOLEAN]
         /\ UNCHANGED <<session, rows, links, history, calls, fails>>
<1> DEFINE many == Cardinality(DemosOf(target[w])) > 1
<1>1. many \in BOOLEAN /\ graded' = [graded EXCEPT ![w] = many]
  BY DEF CountDemos
<1> HIDE DEF many
<1>2. graded' \in [Writers -> BOOLEAN]
  BY <1>1 DEF TypeInv, LocalsOK
<1> QED BY <1>2 DEF CountDemos, At, To, LocalsBecome, TypeInv, LocalsOK

LEMMA SetConfidenceIs ==
  ASSUME TypeInv, NEW w \in Writers, SetConfidence(w)
  PROVE  /\ pc[w] = "confidence"
         /\ LocalsBecome(w, "index", call[w], session[Job(w)].players, chosen[w], target[w])
         /\ UNCHANGED <<session, analyses, games, used, origin, links, history, graded, calls, fails>>
BY DEF SetConfidence, At, To, LocalsBecome, TypeInv, LocalsOK

LEMMA IndexPlayerIs ==
  ASSUME TypeInv, NEW w \in Writers, NEW p \in Players, IndexPlayer(w, p)
  PROVE  /\ pc[w] = "index" /\ p \in todo[w] /\ Job(w) \in Jobs
         /\ \/ Throw(w) /\ target[w] \notin games
            \/ /\ IF playerGame[<<Job(w), p>>] # None
                  THEN playerGame' = playerGame
                  ELSE /\ target[w] \in games
                       /\ playerGame' = [playerGame EXCEPT ![<<Job(w), p>>] = target[w]]
               /\ LocalsBecome(w, "index", call[w], todo[w] \ {p}, chosen[w], target[w])
               /\ UNCHANGED <<session, rows, alias, demoGame, groupGame, history, graded, calls, fails>>
<1>1. pc[w] = "index" /\ p \in todo[w] /\ Job(w) \in Jobs
  BY FinishingIs DEF IndexPlayer, At
<1>2. CASE playerGame[<<Job(w), p>>] # None
  <2>1. playerGame' = playerGame
    BY <1>1, <1>2 DEF IndexPlayer, TypeInv, TablesOK
  <2>2. LocalsBecome(w, "index", call[w], todo[w] \ {p}, chosen[w], target[w])
    BY <1>1, <1>2 DEF IndexPlayer, LocalsBecome, TypeInv, LocalsOK
  <2>3. UNCHANGED <<session, rows, alias, demoGame, groupGame, history, graded, calls, fails>>
    BY <1>2 DEF IndexPlayer
  <2> QED BY <1>1, <1>2, <2>1, <2>2, <2>3
<1>3. CASE playerGame[<<Job(w), p>>] = None /\ target[w] \in games
  <2>1. playerGame' = [playerGame EXCEPT ![<<Job(w), p>>] = target[w]]
    BY <1>3 DEF IndexPlayer, Naming
  <2>2. LocalsBecome(w, "index", call[w], todo[w] \ {p}, chosen[w], target[w])
    BY <1>1, <1>3 DEF IndexPlayer, Naming, LocalsBecome, TypeInv, LocalsOK
  <2>3. UNCHANGED <<session, rows, alias, demoGame, groupGame, history, graded, calls, fails>>
    BY <1>3 DEF IndexPlayer, Naming
  <2> QED BY <1>1, <1>3, <2>1, <2>2, <2>3
<1>4. CASE playerGame[<<Job(w), p>>] = None /\ target[w] \notin games
  BY <1>1, <1>4 DEF IndexPlayer, Naming
<1> QED BY <1>2, <1>3, <1>4

LEMMA FinishIsTyped ==
  ASSUME TypeInv, NEW w \in Writers,
         CountDemos(w) \/ SetConfidence(w) \/ Return(w) \/ \E p \in Players : IndexPlayer(w, p)
  PROVE  TypeInv'
<1>1. CASE CountDemos(w)
  <2>1. TablesOK' /\ used' = used
    BY <1>1, CountDemosIs, ReadIsTyped DEF TypeInv, TablesOK
  <2>2. Job(w) \in Jobs /\ target[w] \in used
    BY <1>1, CountDemosIs, FinishingIs
  <2>3. HeldWell("confidence", call[w], todo[w], chosen[w], target[w], used')
    BY <2>1, <2>2 DEF HeldWell, Job, Pc, JobPlaces, GroupPlaces, MergePlaces, AfterMerge, TypeInv, LocalsOK
  <2> QED BY <1>1, <2>1, <2>3, CountDemosIs, BecomingIsTyped DEF TypeInv
<1>2. CASE SetConfidence(w)
  <2>1. /\ pc[w] = "confidence"
        /\ LocalsBecome(w, "index", call[w], session[Job(w)].players, chosen[w], target[w])
        /\ UNCHANGED <<session, analyses, games, used, origin, links, history, graded, calls, fails>>
    BY <1>2, SetConfidenceIs
  <2>2. Job(w) \in Jobs /\ target[w] \in used
    BY <2>1, FinishingIs
  <2>3. session[Job(w)].players \subseteq Players
    BY <2>2, GamesAssumption DEF TypeInv, TablesOK
  <2> DEFINE grade == Grade(session[Job(w)], graded[w])
  <2>4. grade \in Confidence /\ confidence' = [confidence EXCEPT ![target[w]] =
                                                IF target[w] \in games THEN grade ELSE @]
    BY <1>2, GradeIsConfidence DEF SetConfidence
  <2> HIDE DEF grade
  <2>5. confidence' \in [Ids -> {"none"} \cup Confidence] /\ \A g \in games : confidence'[g] \in Confidence
    BY <2>2, <2>4 DEF TypeInv, TablesOK
  <2>6. TablesOK'
    BY <2>1, <2>5 DEF TypeInv, TablesOK, links, history
  <2>7. HeldWell("index", call[w], session[Job(w)].players, chosen[w], target[w], used')
    BY <2>1, <2>2, <2>3 DEF HeldWell, Job, Pc, JobPlaces, GroupPlaces, MergePlaces, AfterMerge, TypeInv, LocalsOK
  <2> QED BY <2>1, <2>6, <2>7, BecomingIsTyped DEF TypeInv, LocalsOK
<1>3. CASE Return(w)
  <2>1. pc[w] = "index" /\ UNCHANGED <<session, rows, links, members, blended, calls, fails>> /\ Leave(w)
    BY <1>3 DEF Return, At
  <2>2. issued' \subseteq used
    BY <1>3, <2>1, FinishingIs DEF Return, TypeInv, TablesOK
  <2>3. TablesOK' /\ used' = used
    BY <2>1, <2>2 DEF TypeInv, TablesOK, rows, links
  <2> QED BY <2>1, <2>3, LeaveIsTyped DEF TypeInv
<1>4. ASSUME NEW p \in Players, IndexPlayer(w, p) PROVE TypeInv'
  <2>1. pc[w] = "index" /\ Job(w) \in Jobs /\ target[w] \in used
    BY <1>4, IndexPlayerIs, FinishingIs
  <2>2. CASE Throw(w)
    BY <2>2, ThrowIsTyped
  <2>3. CASE ~Throw(w)
    <3>1. /\ IF playerGame[<<Job(w), p>>] # None
             THEN playerGame' = playerGame
             ELSE /\ target[w] \in games
                  /\ playerGame' = [playerGame EXCEPT ![<<Job(w), p>>] = target[w]]
          /\ LocalsBecome(w, "index", call[w], todo[w] \ {p}, chosen[w], target[w])
          /\ UNCHANGED <<session, rows, alias, demoGame, groupGame, history, graded, calls, fails>>
      BY <1>4, <2>3, IndexPlayerIs
    <3>2. playerGame' \in [Jobs \X Players -> games \cup {None}]
      BY <2>1, <3>1 DEF TypeInv, TablesOK
    <3>3. TablesOK' /\ used' = used
      BY <3>1, <3>2 DEF TypeInv, TablesOK, rows, history
    <3>4. HeldWell("index", call[w], todo[w] \ {p}, chosen[w], target[w], used')
      BY <2>1, <3>3 DEF HeldWell, Job, Pc, JobPlaces, GroupPlaces, MergePlaces, AfterMerge, TypeInv, LocalsOK
    <3> QED BY <3>1, <3>3, <3>4, BecomingIsTyped DEF TypeInv, LocalsOK
  <2> QED BY <2>2, <2>3
<1> QED BY <1>1, <1>2, <1>3, <1>4

(* The transaction of a group *)

\* The games that a group's transaction merges.
Others(w) == chosen[w] \ {target[w]}

LEMMA CommitIs ==
  ASSUME TypeInv, NEW w \in Writers, Commit(w)
  PROVE  /\ pc[w] = "commit" /\ Job(w) \in Groups
         /\ \/ Throw(w)
            \/ /\ target[w] \in games
               /\ alias' = Renamed([g \in Ids |-> IF g \in Others(w) THEN target[w] ELSE alias[g]],
                                   Others(w), target[w])
               /\ demoGame' = Renamed(demoGame, Others(w), target[w])
               /\ playerGame' = Renamed(playerGame, Others(w), target[w])
               /\ groupGame' = [Renamed(groupGame, Others(w), target[w]) EXCEPT ![Job(w)] = target[w]]
               /\ games' = games \ Others(w)
               /\ blended' = blended \cup {target[w]}
               /\ members' = [members EXCEPT ![Job(w)] =
                                {j \in GroupJobs[Job(w)] : demoGame[j] \in chosen[w]}]
               /\ Leave(w)
               /\ UNCHANGED <<session, analyses, used, origin, confidence, issued, calls, fails>>
<1>1. pc[w] = "commit" /\ Job(w) \in Groups
  BY DEF Commit, At, TypeInv, LocalsOK, PlaceInv, GroupPlaces
<1>2. CASE target[w] \in games
  BY <1>1, <1>2 DEF Commit, Naming, Others
<1>3. CASE target[w] \notin games
  BY <1>1, <1>3 DEF Commit, Naming
<1> QED BY <1>2, <1>3

LEMMA CommitIsTyped == ASSUME TypeInv, NEW w \in Writers, Commit(w) PROVE TypeInv'
<1>1. CASE Throw(w)
  BY <1>1, ThrowIsTyped
<1>2. CASE ~Throw(w)
  <2> DEFINE D == Others(w)
             c == target[w]
             aliased == [g \in Ids |-> IF g \in D THEN c ELSE alias[g]]
             joined == {j \in GroupJobs[Job(w)] : demoGame[j] \in chosen[w]}
  <2>1. /\ Job(w) \in Groups /\ c \in games
        /\ alias' = Renamed(aliased, D, c) /\ demoGame' = Renamed(demoGame, D, c)
        /\ playerGame' = Renamed(playerGame, D, c)
        /\ groupGame' = [Renamed(groupGame, D, c) EXCEPT ![Job(w)] = c]
        /\ games' = games \ D /\ blended' = blended \cup {c}
        /\ members' = [members EXCEPT ![Job(w)] = joined]
        /\ Leave(w) /\ UNCHANGED <<session, analyses, used, origin, confidence, issued, calls, fails>>
    BY <1>2, CommitIs
  <2>2. joined \subseteq Jobs
    BY <2>1, GamesAssumption
  <2>3. c \notin D
    BY DEF Others
  <2>4. aliased \in [Ids -> games \cup {None}]
    BY <2>1 DEF TypeInv, TablesOK
  <2> HIDE DEF D, c, aliased, joined
  <2>5. /\ alias' \in [Ids -> games' \cup {None}] /\ demoGame' \in [Jobs -> games' \cup {None}]
        /\ playerGame' \in [Jobs \X Players -> games' \cup {None}]
    BY <2>1, <2>3, <2>4 DEF Renamed, TypeInv, TablesOK
  <2>6. groupGame' \in [Groups -> games' \cup {None}]
    BY <2>1, <2>3 DEF Renamed, TypeInv, TablesOK
  <2>7. members' \in [Groups -> SUBSET Jobs] /\ blended' \subseteq used
    BY <2>1, <2>2 DEF TypeInv, TablesOK
  <2>8. TablesOK'
    BY <2>1, <2>5, <2>6, <2>7 DEF TypeInv, TablesOK
  <2> QED BY <2>1, <2>8, LeaveIsTyped DEF TypeInv
<1> QED BY <1>1, <1>2

LEMMA InterruptIsTyped == ASSUME TypeInv, NEW w \in Writers, Interrupt(w) PROVE TypeInv'
<1>1. UNCHANGED <<session, rows, links, history, calls>> /\ fails' = fails + 1 /\ Leave(w)
  BY DEF Interrupt
<1>2. TablesOK' /\ used' = used
  BY <1>1, ReadIsTyped DEF TypeInv, TablesOK
<1> QED BY <1>1, <1>2, LeaveIsTyped DEF TypeInv

LEMMA StepIsTyped == TypeInv /\ [Next]_vars => TypeInv'
<1> SUFFICES ASSUME TypeInv, [Next]_vars PROVE TypeInv'
  OBVIOUS
<1>1. CASE UNCHANGED vars
  BY <1>1, ReadIsTyped, StayIsTyped DEF vars, TypeInv, TablesOK
<1>2. ASSUME NEW w \in Writers, NEW j \in Jobs, Record(w, j) \/ View(w, j) PROVE TypeInv'
  BY <1>2, RecordIsTyped, ViewIsTyped
<1>3. ASSUME NEW w \in Writers, NEW k \in Groups, Associate(w, k) PROVE TypeInv'
  BY <1>3, AssociateIsTyped
<1>4. ASSUME NEW w \in Writers, Merge(w) PROVE TypeInv'
  BY <1>4, MoveIsTyped, DeleteIsTyped DEF Merge
<1>5. ASSUME NEW w \in Writers, Step(w) PROVE TypeInv'
  BY <1>4, <1>5, SelectIsTyped, ExamineIsTyped, InsertGameIsTyped, InsertDemoIsTyped,
     FinishIsTyped, GatherIsTyped, CanonicalIsTyped, CheckIsTyped, CommitIsTyped DEF Step
<1>6. ASSUME NEW w \in Writers, Interrupt(w) PROVE TypeInv'
  BY <1>6, InterruptIsTyped
<1> QED BY <1>1, <1>2, <1>3, <1>5, <1>6 DEF Next

LEMMA TypesAreKept == Spec => []TypeInv
BY InitIsTyped, StepIsTyped, PTL DEF Spec

\* Every statement leaves the tables and the calls well typed: no row names a
\* game that is gone (ON DELETE CASCADE and the foreign keys of the schema).
THEOREM GamesTypeCorrect == Spec => []GamesTypeOK
<1>1. TypeInv => GamesTypeOK
  BY DEF TypeInv, TablesOK, LocalsOK, GamesTypeOK
<1> QED BY <1>1, TypesAreKept, PTL

-----------------------------------------------------------------------------
(* Sessions *)

SessionsInv == DemosFit /\ \A w \in Writers : SessionInv(w)

\* What a row was made of never changes.
OriginsStand == session' = session /\ \A g \in used : origin'[g] = origin[g]

LEMMA ComparisonsStand ==
  ASSUME OriginsStand, NEW j, NEW g \in used
  PROVE  /\ Same(j, origin[g]) => Same(j, origin[g])'
         /\ Fits(j, g) => Fits(j, g)'
BY DEF Fits, Same, OriginsStand

LEMMA DemosStillFit ==
  ASSUME TypeInv, DemosFit, OriginsStand, blended \subseteq blended',
         \A j \in Jobs : demoGame'[j] \in {demoGame[j], None}
  PROVE  DemosFit'
<1> SUFFICES ASSUME NEW j \in Jobs, NEW g, demoGame'[j] = g, g # None, g \notin blended'
             PROVE  Fits(j, g)'
  BY DEF DemosFit
<1>1. g \in used /\ g = demoGame[j] /\ g \notin blended
  BY DEF TypeInv, TablesOK
<1>2. Fits(j, g)
  BY <1>1 DEF DemosFit
<1> QED BY <1>1, <1>2, ComparisonsStand

\* The writer is at a place with games that its demo agrees with.
Agreeing(place, j, left, found, t) ==
    /\ place = "examine" => left \cup found \subseteq used /\ \A g \in left \cup found : Same(j, origin[g])
    /\ place \in MergePlaces => left \cup {t} \subseteq used /\ \A g \in left \cup {t} : Same(j, origin[g])
    /\ place = "demo" => t \in used /\ Fits(j, t)

LEMMA WritersAgree ==
  ASSUME TypeInv, SessionsInv, NEW w \in Writers
  PROVE  Agreeing(pc[w], Job(w), todo[w], chosen[w], target[w])
BY DEF Agreeing, TypeInv, LocalsOK, PlaceInv, SessionsInv, SessionInv, AfterMerge

LEMMA AgreementStands ==
  ASSUME OriginsStand, NEW v \in Writers, NEW place, NEW c, NEW left, NEW found, NEW t,
         Agreeing(place, c.of, left, found, t),
         pc'[v] = place, call'[v] = c, todo'[v] = left, chosen'[v] = found, target'[v] = t
  PROVE  SessionInv(v)'
<1>1. place = "examine" => \A g \in left \cup found : Same(c.of, origin[g])'
  BY ComparisonsStand DEF Agreeing
<1>2. place \in MergePlaces => \A g \in left \cup {t} : Same(c.of, origin[g])'
  BY ComparisonsStand DEF Agreeing
<1>3. place = "demo" => Fits(c.of, t)'
  BY ComparisonsStand DEF Agreeing
<1> QED BY <1>1, <1>2, <1>3 DEF SessionInv, Job

LEMMA BecomingAgrees ==
  ASSUME TypeInv, SessionsInv, OriginsStand, NEW w \in Writers,
         NEW place, NEW c, NEW left, NEW found, NEW t,
         LocalsBecome(w, place, c, left, found, t), Agreeing(place, c.of, left, found, t)
  PROVE  \A v \in Writers : SessionInv(v)'
<1>1. SessionInv(w)'
  BY BecomingOthers, AgreementStands DEF TypeInv
<1>2. ASSUME NEW v \in Writers, v # w PROVE SessionInv(v)'
  <2>1. Still(v)
    BY <1>2, BecomingOthers DEF TypeInv
  <2>2. Agreeing(pc[v], call[v].of, todo[v], chosen[v], target[v])
    BY WritersAgree DEF Job
  <2> QED BY <2>1, <2>2, AgreementStands DEF Still
<1> QED BY <1>1, <1>2

\* A place where nothing is compared.
LEMMA BecomingIdleAgrees ==
  ASSUME TypeInv, SessionsInv, OriginsStand, NEW w \in Writers,
         NEW place, NEW c, NEW left, NEW found, NEW t,
         LocalsBecome(w, place, c, left, found, t), place \notin {"examine", "demo"} \cup MergePlaces
  PROVE  \A v \in Writers : SessionInv(v)'
<1>1. Agreeing(place, c.of, left, found, t)
  BY DEF Agreeing
<1> QED BY <1>1, BecomingAgrees

LEMMA LeaveAgrees ==
  ASSUME TypeInv, SessionsInv, OriginsStand, NEW w \in Writers, Leave(w)
  PROVE  \A v \in Writers : SessionInv(v)'
<1>1. LocalsBecome(w, "idle", NoCall, {}, {}, None)
  BY DEF Leave, LocalsBecome
<1> QED BY <1>1, BecomingIdleAgrees DEF MergePlaces

LEMMA TablesStandStillFit ==
  ASSUME TypeInv, SessionsInv, UNCHANGED <<session, rows, links, blended>>
  PROVE  OriginsStand /\ DemosFit'
<1>1. OriginsStand
  BY DEF OriginsStand, rows
<1> QED BY <1>1, DemosStillFit DEF SessionsInv, links

LEMMA ThrowAgrees ==
  ASSUME TypeInv, SessionsInv, NEW w \in Writers, Throw(w) PROVE SessionsInv'
<1>1. UNCHANGED <<session, rows, links, blended>> /\ Leave(w)
  BY DEF Throw, history
<1> QED BY <1>1, TablesStandStillFit, LeaveAgrees DEF SessionsInv

LEMMA ReadersAgree ==
  ASSUME TypeInv, SessionsInv, NEW w \in Writers,
         \/ CountDemos(w) \/ Check(w) \/ Return(w) \/ Interrupt(w)
         \/ \E k \in Groups : Associate(w, k)
         \/ \E j \in Jobs : Gather(w, j) \/ View(w, j)
         \/ \E g \in Ids : Canonical(w, g)
  PROVE  SessionsInv'
<1>1. CASE CountDemos(w)
  <2>1. UNCHANGED <<session, rows, links, blended>>
    BY <1>1, CountDemosIs DEF history
  <2> QED BY <1>1, <2>1, CountDemosIs, TablesStandStillFit, BecomingIdleAgrees DEF SessionsInv, MergePlaces
<1>2. CASE Check(w)
  <2>1. CASE Throw(w)
    BY <2>1, ThrowAgrees
  <2>2. CASE To(w, "commit") /\ UNCHANGED <<session, rows, links, history, locals, calls, fails>>
    <3>1. LocalsBecome(w, "commit", call[w], todo[w], chosen[w], target[w])
      BY <2>2 DEF To, LocalsBecome, locals, TypeInv, LocalsOK
    <3>2. UNCHANGED <<session, rows, links, blended>>
      BY <2>2 DEF history
    <3> QED BY <3>1, <3>2, TablesStandStillFit, BecomingIdleAgrees DEF SessionsInv, MergePlaces
  <2> QED BY <1>2, <2>1, <2>2 DEF Check
<1>3. CASE Return(w)
  <2>1. UNCHANGED <<session, rows, links, blended>> /\ Leave(w)
    BY <1>3 DEF Return
  <2> QED BY <2>1, TablesStandStillFit, LeaveAgrees DEF SessionsInv
<1>4. CASE Interrupt(w)
  <2>1. UNCHANGED <<session, rows, links, blended>> /\ Leave(w)
    BY <1>4 DEF Interrupt, history
  <2> QED BY <2>1, TablesStandStillFit, LeaveAgrees DEF SessionsInv
<1>5. ASSUME NEW k \in Groups, Associate(w, k) PROVE SessionsInv'
  <2> DEFINE c == [kind |-> "group", of |-> k]
             left == {j \in GroupJobs[k] : demoGame[j] # None}
  <2>1. LocalsBecome(w, "gather", c, left, chosen[w], target[w])
    BY <1>5 DEF Associate, Begin, To, LocalsBecome, TypeInv, LocalsOK
  <2>2. UNCHANGED <<session, rows, links, blended>>
    BY <1>5 DEF Associate, history
  <2> HIDE DEF c, left
  <2> QED BY <2>1, <2>2, TablesStandStillFit, BecomingIdleAgrees DEF SessionsInv, MergePlaces
<1>6. ASSUME NEW j \in Jobs, Gather(w, j) PROVE SessionsInv'
  <2>1. CASE demoGame[j] = None
    BY <1>6, <2>1, ThrowAgrees DEF Gather
  <2>2. CASE demoGame[j] # None
    <3> DEFINE place == IF todo[w] = {j} THEN "canonical" ELSE "gather"
               left == todo[w] \ {j}
               found == chosen[w] \cup {demoGame[j]}
    <3>1. LocalsBecome(w, place, call[w], left, found, target[w])
      BY <1>6, <2>2 DEF Gather, To, LocalsBecome, TypeInv, LocalsOK
    <3>2. UNCHANGED <<session, rows, links, blended>>
      BY <1>6, <2>2 DEF Gather, history
    <3>3. place \notin {"examine", "demo"} \cup MergePlaces
      BY DEF MergePlaces
    <3> HIDE DEF place, left, found
    <3> QED BY <3>1, <3>2, <3>3, TablesStandStillFit, BecomingIdleAgrees DEF SessionsInv
  <2> QED BY <2>1, <2>2
<1>7. ASSUME NEW j \in Jobs, View(w, j) PROVE SessionsInv'
  <2> DEFINE c == [kind |-> "view", of |-> j]
  <2>1. UNCHANGED <<session, rows, links, blended>>
    BY <1>7 DEF View, history
  <2>2. CASE demoGame[j] = None
    <3>1. LocalsBecome(w, "select", c, todo[w], chosen[w], target[w])
      BY <1>7, <2>2 DEF View, Begin, To, LocalsBecome, TypeInv, LocalsOK
    <3> HIDE DEF c
    <3> QED BY <2>1, <3>1, TablesStandStillFit, BecomingIdleAgrees DEF SessionsInv, MergePlaces
  <2>3. CASE demoGame[j] # None
    <3>1. LocalsBecome(w, "index", c, session[j].players, chosen[w], demoGame[j])
      BY <1>7, <2>3 DEF View, Begin, To, LocalsBecome, TypeInv, LocalsOK
    <3> HIDE DEF c
    <3> QED BY <2>1, <3>1, TablesStandStillFit, BecomingIdleAgrees DEF SessionsInv, MergePlaces
  <2> QED BY <2>2, <2>3
<1>8. ASSUME NEW g \in Ids, Canonical(w, g) PROVE SessionsInv'
  <2>1. LocalsBecome(w, "check", call[w], todo[w], chosen[w] \cup {g}, g)
    BY <1>8 DEF Canonical, To, LocalsBecome, TypeInv, LocalsOK
  <2>2. UNCHANGED <<session, rows, links, blended>>
    BY <1>8 DEF Canonical, history
  <2> QED BY <2>1, <2>2, TablesStandStillFit, BecomingIdleAgrees DEF SessionsInv, MergePlaces
<1> QED BY <1>1, <1>2, <1>3, <1>4, <1>5, <1>6, <1>7, <1>8

\* Steps that change rows which no comparison looks at.
LEMMA IndexersAgree ==
  ASSUME TypeInv, SessionsInv, NEW w \in Writers,
         SetConfidence(w) \/ \E j \in Jobs : Record(w, j)
  PROVE  SessionsInv'
<1>1. CASE SetConfidence(w)
  <2>1. /\ LocalsBecome(w, "index", call[w], session[Job(w)].players, chosen[w], target[w])
        /\ OriginsStand /\ UNCHANGED <<demoGame, blended>>
    BY <1>1, SetConfidenceIs DEF OriginsStand, links, history
  <2> QED BY <2>1, DemosStillFit, BecomingIdleAgrees DEF SessionsInv, MergePlaces
<1>2. ASSUME NEW j \in Jobs, Record(w, j) PROVE SessionsInv'
  <2> DEFINE c == [kind |-> "record", of |-> j]
  <2>1. LocalsBecome(w, "select", c, todo[w], chosen[w], target[w])
    BY <1>2 DEF Record, Begin, To, LocalsBecome, TypeInv, LocalsOK
  <2>2. OriginsStand /\ UNCHANGED <<demoGame, blended>>
    BY <1>2 DEF Record, OriginsStand, links, history
  <2> HIDE DEF c
  <2> QED BY <2>1, <2>2, DemosStillFit, BecomingIdleAgrees DEF SessionsInv, MergePlaces
<1> QED BY <1>1, <1>2

LEMMA PlayersAgree ==
  ASSUME TypeInv, SessionsInv, NEW w \in Writers, NEW p \in Players, IndexPlayer(w, p)
  PROVE  SessionsInv'
<1>1. CASE Throw(w)
  BY <1>1, ThrowAgrees
<1>2. CASE ~Throw(w)
  <2>1. /\ LocalsBecome(w, "index", call[w], todo[w] \ {p}, chosen[w], target[w])
        /\ OriginsStand /\ UNCHANGED <<demoGame, blended>>
    BY <1>2, IndexPlayerIs DEF OriginsStand, rows, history
  <2> QED BY <2>1, DemosStillFit, BecomingIdleAgrees DEF SessionsInv, MergePlaces
<1> QED BY <1>1, <1>2

\* A candidate is of the server and the campaign of the demo.
LEMMA PossibleIsSame ==
  ASSUME NEW j, NEW g \in Possible(j) PROVE Same(j, origin[g])
BY DEF Possible, Identified, Same

LEMMA DecidedAgrees ==
  ASSUME TypeInv, SessionsInv, OriginsStand, NEW w \in Writers, NEW found \in SUBSET used,
         \A g \in found : Same(Job(w), origin[g]), Decided(w, found)
  PROVE  \A v \in Writers : SessionInv(v)'
<1>1. CASE found = {}
  <2>1. LocalsBecome(w, "insert", call[w], {}, {}, target[w])
    BY <1>1 DEF Decided
  <2> QED BY <2>1, BecomingIdleAgrees DEF MergePlaces
<1>2. CASE found # {}
  <2> DEFINE place == IF found = {Min(found)} THEN "demo" ELSE "alias"
             left == found \ {Min(found)}
             t == Min(found)
  <2>1. LocalsBecome(w, place, call[w], left, found, t)
    BY <1>2 DEF Decided
  <2>2. t \in found
    BY <1>2, LeastIsFound
  <2>3. place \in {"demo", "alias"} /\ left \subseteq found
    OBVIOUS
  <2> HIDE DEF place, left, t
  <2>4. Agreeing(place, call[w].of, left, found, t)
    BY <2>2, <2>3 DEF Agreeing, Fits, MergePlaces, Job
  <2> QED BY <2>1, <2>4, BecomingAgrees
<1> QED BY <1>1, <1>2

LEMMA SearchAgrees ==
  ASSUME TypeInv, SessionsInv, NEW w \in Writers, Select(w) \/ Examine(w)
  PROVE  SessionsInv'
<1>1. UNCHANGED <<session, rows, links, blended>>
  BY SelectIs, ExamineIs DEF history
<1>2. OriginsStand /\ DemosFit'
  BY <1>1, TablesStandStillFit
<1>3. CASE Select(w)
  <2>1. CASE Possible(Job(w)) = {}
    BY <1>2, <1>3, <2>1, SelectIs, DecidedAgrees DEF SessionsInv
  <2>2. CASE Possible(Job(w)) # {}
    <3> DEFINE left == Possible(Job(w))
    <3>1. LocalsBecome(w, "examine", call[w], left, {}, target[w])
      BY <1>3, <2>2, SelectIs
    <3>2. left \subseteq used /\ \A g \in left : Same(Job(w), origin[g])
      BY PossibleIsUsed, PossibleIsSame
    <3> HIDE DEF left
    <3>3. Agreeing("examine", call[w].of, left, {}, target[w])
      BY <3>2 DEF Agreeing, Job, MergePlaces
    <3> QED BY <1>2, <3>1, <3>3, BecomingAgrees DEF SessionsInv
  <2> QED BY <2>1, <2>2
<1>4. CASE Examine(w)
  <2>1. /\ todo[w] \subseteq used /\ Found(w) \subseteq used
        /\ \A g \in todo[w] \cup Found(w) : Same(Job(w), origin[g])
    BY <1>4, ExamineIs DEF SessionsInv, SessionInv
  <2>2. CASE todo[w] = {Nearest(w)}
    BY <1>2, <1>4, <2>1, <2>2, ExamineIs, DecidedAgrees DEF SessionsInv
  <2>3. CASE todo[w] # {Nearest(w)}
    <3> DEFINE left == todo[w] \ {Nearest(w)}
    <3>1. LocalsBecome(w, "examine", call[w], left, Found(w), target[w])
      BY <1>4, <2>3, ExamineIs
    <3>2. Agreeing("examine", call[w].of, left, Found(w), target[w])
      BY <2>1 DEF Agreeing, Job, MergePlaces
    <3> HIDE DEF left
    <3> QED BY <1>2, <3>1, <3>2, BecomingAgrees DEF SessionsInv
  <2> QED BY <2>2, <2>3
<1> QED BY <1>3, <1>4

LEMMA InsertGameAgrees ==
  ASSUME TypeInv, SessionsInv, NEW w \in Writers, InsertGame(w) PROVE SessionsInv'
<1>1. /\ Job(w) \in Jobs /\ Fresh \in Ids \ used
      /\ origin' = [origin EXCEPT ![Fresh] = Job(w)]
      /\ LocalsBecome(w, "demo", call[w], todo[w], chosen[w], Fresh)
      /\ session' = session /\ UNCHANGED <<demoGame, blended>>
  BY InsertGameIs DEF links, history
<1>2. OriginsStand
  BY <1>1 DEF OriginsStand
<1>3. DemosFit'
  BY <1>1, <1>2, DemosStillFit DEF SessionsInv
<1>4. origin'[Fresh] = Job(w)
  BY <1>1 DEF TypeInv, TablesOK
<1>5. PICK j, g : j = Job(w) /\ g = Fresh
  OBVIOUS
<1>6. Fits(j, g)'
  BY <1>4, <1>5 DEF Fits
<1>7. SessionInv(w)'
  <2>1. pc'[w] = "demo" /\ call'[w] = call[w] /\ target'[w] = g
    BY <1>1, <1>5, BecomingOthers DEF TypeInv
  <2>2. Job(w)' = j
    BY <2>1, <1>5 DEF Job
  <2> QED BY <1>6, <2>1, <2>2 DEF SessionInv, MergePlaces
<1>8. ASSUME NEW v \in Writers, v # w PROVE SessionInv(v)'
  <2>1. Still(v)
    BY <1>1, <1>8, BecomingOthers DEF TypeInv
  <2>2. Agreeing(pc[v], call[v].of, todo[v], chosen[v], target[v])
    BY WritersAgree DEF Job
  <2> QED BY <1>2, <2>1, <2>2, AgreementStands DEF Still
<1> QED BY <1>3, <1>7, <1>8 DEF SessionsInv

LEMMA OnwardAgrees ==
  ASSUME TypeInv, SessionsInv, NEW w \in Writers, pc[w] \in MergePlaces, NEW place \in MergePlaces,
         Onward(w, place)
  PROVE  OriginsStand /\ \A v \in Writers : SessionInv(v)'
<1>1. LocalsBecome(w, place, call[w], todo[w], chosen[w], target[w])
  BY DEF Onward, To, LocalsBecome, locals, TypeInv, LocalsOK
<1>2. OriginsStand
  BY DEF Onward, OriginsStand, rows
<1>3. Agreeing(place, call[w].of, todo[w], chosen[w], target[w])
  BY WritersAgree DEF Agreeing, MergePlaces, Job
<1> QED BY <1>1, <1>2, <1>3, BecomingAgrees

\* Two games that agree with one demo agree with each other's demos.
LEMMA SameIsShared ==
  ASSUME NEW j, NEW k, NEW a, NEW b, Same(j, a), Same(j, b), k = a \/ Same(k, a)
  PROVE  Same(k, b)
BY DEF Same

LEMMA MoveAgrees ==
  ASSUME TypeInv, SessionsInv, NEW w \in Writers,
         \/ InsertAlias(w) \/ RepointAliases(w) \/ RepointGroups(w)
         \/ MoveDemos(w) \/ MovePlayers(w)
  PROVE  SessionsInv'
<1>0. pc[w] \in MergePlaces
  BY DEF InsertAlias, RepointAliases, RepointGroups, MoveDemos, MovePlayers, At, MergePlaces
<1>1. CASE Throw(w)
  BY <1>1, ThrowAgrees
<1>2. CASE ~Throw(w) /\ ~MoveDemos(w)
  <2>1. PICK place \in MergePlaces : Onward(w, place) /\ UNCHANGED <<demoGame, blended>>
    BY <1>2, InsertAliasIs, RepointAliasesIs, RepointGroupsIs, MovePlayersIs DEF MergePlaces
  <2>2. OriginsStand /\ \A v \in Writers : SessionInv(v)'
    BY <1>0, <2>1, OnwardAgrees
  <2> QED BY <2>1, <2>2, DemosStillFit DEF SessionsInv
<1>3. CASE ~Throw(w) /\ MoveDemos(w)
  <2>1. /\ Movable(w, demoGame) /\ demoGame' = Renamed(demoGame, {Duplicate(w)}, target[w])
        /\ blended' = IF Duplicate(w) \in blended THEN blended \cup {target[w]} ELSE blended
        /\ Onward(w, "players")
    BY <1>3, MoveDemosIs
  <2>2. OriginsStand /\ \A v \in Writers : SessionInv(v)'
    BY <1>0, <2>1, OnwardAgrees DEF MergePlaces
  <2>3. SUFFICES ASSUME NEW j \in Jobs, NEW g, demoGame'[j] = g, g # None, g \notin blended'
                 PROVE  Fits(j, g)'
    BY <2>2 DEF SessionsInv, DemosFit
  <2>4. /\ Duplicate(w) \in todo[w] /\ todo[w] \subseteq used /\ target[w] \in used
        /\ \A h \in todo[w] \cup {target[w]} : Same(Job(w), origin[h])
    BY <1>0, MergingIs DEF SessionsInv, SessionInv
  <2>5. g = (IF demoGame[j] = Duplicate(w) THEN target[w] ELSE demoGame[j]) /\ g \notin blended
    BY <2>1, <2>3 DEF Renamed, TypeInv, TablesOK
  <2>6. CASE demoGame[j] = Duplicate(w)
    <3>1. g = target[w] /\ Duplicate(w) \notin blended
      BY <2>1, <2>3, <2>5, <2>6
    <3>2. Fits(j, Duplicate(w))
      <4>1. demoGame[j] # None /\ demoGame[j] \notin blended
        BY <2>4, <2>6, <3>1, GamesAssumption DEF TypeInv, TablesOK
      <4>2. Fits(j, demoGame[j])
        BY <4>1 DEF SessionsInv, DemosFit
      <4> QED BY <2>6, <4>2, Zenon
    <3>3. Same(j, origin[g])
      BY <2>4, <3>1, <3>2, SameIsShared DEF Fits
    <3> QED BY <2>2, <2>4, <3>1, <3>3, ComparisonsStand DEF Fits
  <2>7. CASE demoGame[j] # Duplicate(w)
    <3>1. g = demoGame[j] /\ g \in used
      BY <2>3, <2>5, <2>7 DEF TypeInv, TablesOK
    <3>2. Fits(j, g)
      BY <2>3, <2>5, <3>1 DEF SessionsInv, DemosFit
    <3> QED BY <2>2, <3>1, <3>2, ComparisonsStand
  <2> QED BY <2>6, <2>7
<1> QED BY <1>1, <1>2, <1>3

LEMMA DeleteAgrees ==
  ASSUME TypeInv, SessionsInv, NEW w \in Writers, DeleteDuplicate(w) PROVE SessionsInv'
<1> DEFINE place == IF todo[w] = {Duplicate(w)} THEN "demo" ELSE "alias"
           left == todo[w] \ {Duplicate(w)}
<1>1. /\ pc[w] = "delete" /\ Delete({Duplicate(w)})
      /\ LocalsBecome(w, place, call[w], left, chosen[w], target[w])
      /\ UNCHANGED <<session, origin, blended>>
  BY DeleteIs DEF history
<1>2. OriginsStand
  BY <1>1 DEF OriginsStand
<1>3. DemosFit'
  <2>1. \A j \in Jobs : demoGame'[j] \in {demoGame[j], None}
    BY <1>1 DEF Delete, Without, Renamed, TypeInv, TablesOK
  <2> QED BY <1>1, <1>2, <2>1, DemosStillFit DEF SessionsInv
<1>4. /\ todo[w] \subseteq used /\ target[w] \in used
      /\ \A h \in todo[w] \cup {target[w]} : Same(Job(w), origin[h])
  BY <1>1, MergingIs DEF SessionsInv, SessionInv, MergePlaces
<1>5. place \in {"demo", "alias"} /\ left \subseteq todo[w]
  OBVIOUS
<1> HIDE DEF place, left
<1>6. Agreeing(place, call[w].of, left, chosen[w], target[w])
  BY <1>4, <1>5 DEF Agreeing, Fits, MergePlaces, Job
<1> QED BY <1>1, <1>2, <1>3, <1>6, BecomingAgrees DEF SessionsInv

LEMMA InsertDemoAgrees ==
  ASSUME TypeInv, SessionsInv, NEW w \in Writers, InsertDemo(w) PROVE SessionsInv'
<1>1. CASE Throw(w)
  BY <1>1, ThrowAgrees
<1>2. CASE ~Throw(w)
  <2>1. /\ pc[w] = "demo" /\ Job(w) \in Jobs /\ target[w] \in used
        /\ IF demoGame[Job(w)] # None
           THEN demoGame' = demoGame
           ELSE target[w] \in games /\ demoGame' = [demoGame EXCEPT ![Job(w)] = target[w]]
        /\ LocalsBecome(w, "count", call[w], todo[w], chosen[w], target[w])
        /\ OriginsStand /\ blended' = blended
    BY <1>2, InsertDemoIs DEF OriginsStand, rows, history
  <2>2. SUFFICES ASSUME NEW j \in Jobs, NEW g, demoGame'[j] = g, g # None, g \notin blended'
                 PROVE  Fits(j, g)'
    BY <2>1, BecomingIdleAgrees DEF SessionsInv, DemosFit, MergePlaces
  <2>3. g = demoGame[j] \/ (j = Job(w) /\ g = target[w])
    BY <2>1, <2>2 DEF TypeInv, TablesOK
  <2>4. g \in used /\ Fits(j, g)
    BY <2>1, <2>2, <2>3 DEF SessionsInv, SessionInv, DemosFit, TypeInv, TablesOK
  <2> QED BY <2>1, <2>4, ComparisonsStand
<1> QED BY <1>1, <1>2

LEMMA CommitAgrees ==
  ASSUME TypeInv, SessionsInv, NEW w \in Writers, Commit(w) PROVE SessionsInv'
<1>1. CASE Throw(w)
  BY <1>1, ThrowAgrees
<1>2. CASE ~Throw(w)
  <2>1. /\ demoGame' = Renamed(demoGame, Others(w), target[w]) /\ blended' = blended \cup {target[w]}
        /\ OriginsStand /\ Leave(w)
    BY <1>2, CommitIs DEF OriginsStand
  <2>2. SUFFICES ASSUME NEW j \in Jobs, NEW g, demoGame'[j] = g, g # None, g \notin blended'
                 PROVE  Fits(j, g)'
    BY <2>1, LeaveAgrees DEF SessionsInv, DemosFit
  <2>3. g = demoGame[j] /\ g \notin blended
    BY <2>1, <2>2 DEF Renamed, TypeInv, TablesOK
  <2>4. g \in used /\ Fits(j, g)
    BY <2>2, <2>3 DEF SessionsInv, DemosFit, TypeInv, TablesOK
  <2> QED BY <2>1, <2>4, ComparisonsStand
<1> QED BY <1>1, <1>2

LEMMA InitAgrees == Init => SessionsInv
BY DEF Init, SessionsInv, DemosFit, SessionInv, MergePlaces

LEMMA StepAgrees == TypeInv /\ SessionsInv /\ [Next]_vars => SessionsInv'
<1> SUFFICES ASSUME TypeInv, SessionsInv, [Next]_vars PROVE SessionsInv'
  OBVIOUS
<1>1. CASE UNCHANGED vars
  <2>1. UNCHANGED <<session, rows, links, blended, pc, call, todo, chosen, target>>
    BY <1>1 DEF vars, locals, history
  <2>2. OriginsStand /\ DemosFit'
    BY <2>1, TablesStandStillFit
  <2>3. ASSUME NEW v \in Writers PROVE SessionInv(v)'
    <3>1. Agreeing(pc[v], call[v].of, todo[v], chosen[v], target[v])
      BY WritersAgree DEF Job
    <3> QED BY <2>1, <2>2, <3>1, AgreementStands
  <2> QED BY <2>2, <2>3 DEF SessionsInv
<1>2. ASSUME NEW w \in Writers, NEW j \in Jobs, Record(w, j) \/ View(w, j) PROVE SessionsInv'
  BY <1>2, IndexersAgree, ReadersAgree
<1>3. ASSUME NEW w \in Writers, NEW k \in Groups, Associate(w, k) PROVE SessionsInv'
  BY <1>3, ReadersAgree
<1>4. ASSUME NEW w \in Writers, Merge(w) PROVE SessionsInv'
  BY <1>4, MoveAgrees, DeleteAgrees DEF Merge
<1>5. ASSUME NEW w \in Writers, Step(w) PROVE SessionsInv'
  <2>1. CASE CountDemos(w) \/ Check(w) \/ Return(w) \/ (\E j \in Jobs : Gather(w, j)) \/ (\E g \in Ids : Canonical(w, g))
    BY <2>1, ReadersAgree
  <2>2. CASE SetConfidence(w)
    BY <2>2, IndexersAgree
  <2>3. ASSUME NEW p \in Players, IndexPlayer(w, p) PROVE SessionsInv'
    BY <2>3, PlayersAgree
  <2> QED BY <1>4, <1>5, <2>1, <2>2, <2>3, SearchAgrees, InsertGameAgrees, InsertDemoAgrees, CommitAgrees DEF Step
<1>6. ASSUME NEW w \in Writers, Interrupt(w) PROVE SessionsInv'
  BY <1>6, ReadersAgree
<1> QED BY <1>1, <1>2, <1>3, <1>5, <1>6 DEF Next

\* Whatever calls interleave and wherever they are cut short, embedded evidence
\* never joins demos of two servers or of two campaigns in one game.
THEOREM NoStrangersJoin == Spec => []SessionsAgree
<1>1. TypeInv /\ SessionsInv => SessionsAgree
  <2> SUFFICES ASSUME SessionsInv, NEW j \in Jobs, NEW k \in Jobs, j # k,
                      demoGame[j] # None, demoGame[j] = demoGame[k], demoGame[j] \notin blended
               PROVE  Same(j, k)
    BY DEF SessionsAgree, Same
  <2>1. Fits(j, demoGame[j]) /\ Fits(k, demoGame[j])
    BY DEF SessionsInv, DemosFit
  <2> QED BY <2>1 DEF Fits, Same
<1> QED BY <1>1, TypesAreKept, InitAgrees, StepAgrees, PTL DEF Spec

-----------------------------------------------------------------------------
(* A lone writer *)

\* No two calls of the repository run at a time.
Lone == \A v, w \in Writers : v = w

HoldsInv == \A w \in Writers : HoldInv(w) /\ MergeInv(w)

\* At these places a call holds no game.
Elsewhere == {"idle", "select", "insert", "gather", "canonical", "check", "commit"}

LEMMA NothingHeldElsewhere ==
  ASSUME Lone, NEW w \in Writers, pc'[w] \in Elsewhere PROVE HoldsInv'
BY DEF Lone, HoldsInv, HoldInv, MergeInv, Elsewhere, MergePlaces, AfterMerge

LEMMA LeftHoldsNothing ==
  ASSUME TypeInv, Lone, NEW w \in Writers, Leave(w) PROVE HoldsInv'
<1>1. pc'[w] = "idle"
  BY DEF Leave, TypeInv, LocalsOK
<1> QED BY <1>1, NothingHeldElsewhere DEF Elsewhere

\* The game of a call of assignGame is there: its statements never throw.
LEMMA NeverThrows ==
  ASSUME TypeInv, HoldsInv, NEW w \in Writers, pc[w] \in MergePlaces \cup AfterMerge
  PROVE  target[w] \in games
BY DEF HoldsInv, HoldInv

LEMMA ViewHolds ==
  ASSUME TypeInv, HoldsInv, Lone, NEW w \in Writers, NEW j \in Jobs, View(w, j) PROVE HoldsInv'
<1> DEFINE c == [kind |-> "view", of |-> j]
<1>1. CASE demoGame[j] = None
  <2>1. LocalsBecome(w, "select", c, todo[w], chosen[w], target[w])
    BY <1>1 DEF View, Begin, To, LocalsBecome, TypeInv, LocalsOK
  <2>2. pc'[w] = "select"
    BY <2>1, BecomingOthers DEF TypeInv
  <2> QED BY <2>2, NothingHeldElsewhere DEF Elsewhere
<1>2. CASE demoGame[j] # None
  <2>1. LocalsBecome(w, "index", c, session[j].players, chosen[w], demoGame[j])
    BY <1>2 DEF View, Begin, To, LocalsBecome, TypeInv, LocalsOK
  <2>2. pc'[w] = "index" /\ call'[w] = c /\ target'[w] = demoGame[j]
    BY <2>1, BecomingOthers DEF TypeInv
  <2>3. UNCHANGED <<games, demoGame>>
    BY <1>2 DEF View, rows, links
  <2>4. demoGame[j] \in games
    BY <1>2 DEF TypeInv, TablesOK
  <2>5. HoldInv(w)'
    BY <2>2, <2>3, <2>4 DEF HoldInv, MergePlaces
  <2>6. MergeInv(w)'
    BY <1>2, <2>2, <2>3 DEF MergeInv, MergePlaces, Job
  <2> QED BY <2>5, <2>6 DEF HoldsInv, Lone
<1> QED BY <1>1, <1>2

LEMMA DecidedHolds ==
  ASSUME TypeInv, Lone, NEW w \in Writers, NEW found \in SUBSET used, found \subseteq games,
         Decided(w, found), games' = games
  PROVE  HoldsInv'
<1>1. CASE found = {}
  <2>1. pc'[w] = "insert"
    BY <1>1 DEF Decided, LocalsBecome, TypeInv, LocalsOK
  <2> QED BY <2>1, NothingHeldElsewhere DEF Elsewhere
<1>2. CASE found # {}
  <2> DEFINE place == IF found = {Min(found)} THEN "demo" ELSE "alias"
             left == found \ {Min(found)}
             t == Min(found)
  <2>1. LocalsBecome(w, place, call[w], left, found, t)
    BY <1>2 DEF Decided
  <2>2. t \in games /\ left \subseteq games \ {t} /\ place \in {"demo", "alias"}
    BY <1>2, LeastIsFound
  <2> HIDE DEF place, left, t
  <2>3. pc'[w] = place /\ todo'[w] = left /\ target'[w] = t
    BY <2>1, BecomingOthers DEF TypeInv
  <2>4. HoldInv(w)' /\ MergeInv(w)'
    BY <2>2, <2>3 DEF HoldInv, MergeInv, MergePlaces, AfterMerge
  <2> QED BY <2>4 DEF HoldsInv, Lone
<1> QED BY <1>1, <1>2

LEMMA SearchHolds ==
  ASSUME TypeInv, HoldsInv, Lone, NEW w \in Writers, Select(w) \/ Examine(w) PROVE HoldsInv'
<1>1. games' = games
  BY SelectIs, ExamineIs DEF rows
<1>2. CASE Select(w)
  <2>1. CASE Possible(Job(w)) = {}
    BY <1>1, <1>2, <2>1, SelectIs, DecidedHolds
  <2>2. CASE Possible(Job(w)) # {}
    <3> DEFINE left == Possible(Job(w))
    <3>1. LocalsBecome(w, "examine", call[w], left, {}, target[w])
      BY <1>2, <2>2, SelectIs
    <3>2. left \subseteq games
      BY PossibleIsUsed
    <3> HIDE DEF left
    <3>3. pc'[w] = "examine" /\ todo'[w] = left /\ chosen'[w] = {}
      BY <3>1, BecomingOthers DEF TypeInv
    <3>4. HoldInv(w)' /\ MergeInv(w)'
      BY <1>1, <3>2, <3>3 DEF HoldInv, MergeInv, MergePlaces, AfterMerge
    <3> QED BY <3>4 DEF HoldsInv, Lone
  <2> QED BY <2>1, <2>2
<1>3. CASE Examine(w)
  <2>1. todo[w] \cup chosen[w] \subseteq games
    BY <1>3, ExamineIs DEF HoldsInv, HoldInv
  <2>2. Found(w) \subseteq games /\ Found(w) \subseteq used
    BY <1>3, <2>1, ExamineIs
  <2>3. CASE todo[w] = {Nearest(w)}
    BY <1>1, <1>3, <2>2, <2>3, ExamineIs, DecidedHolds
  <2>4. CASE todo[w] # {Nearest(w)}
    <3> DEFINE left == todo[w] \ {Nearest(w)}
    <3>1. LocalsBecome(w, "examine", call[w], left, Found(w), target[w])
      BY <1>3, <2>4, ExamineIs
    <3>2. left \subseteq games
      BY <2>1
    <3> HIDE DEF left
    <3>3. pc'[w] = "examine" /\ todo'[w] = left /\ chosen'[w] = Found(w)
      BY <3>1, BecomingOthers DEF TypeInv
    <3>4. HoldInv(w)' /\ MergeInv(w)'
      BY <1>1, <2>2, <3>2, <3>3 DEF HoldInv, MergeInv, MergePlaces, AfterMerge
    <3> QED BY <3>4 DEF HoldsInv, Lone
  <2> QED BY <2>3, <2>4
<1> QED BY <1>2, <1>3

LEMMA InsertGameHolds ==
  ASSUME TypeInv, HoldsInv, Lone, NEW w \in Writers, InsertGame(w) PROVE HoldsInv'
<1>1. games' = games \cup {Fresh} /\ LocalsBecome(w, "demo", call[w], todo[w], chosen[w], Fresh)
  BY InsertGameIs
<1>2. pc'[w] = "demo" /\ target'[w] = Fresh
  BY <1>1, BecomingOthers DEF TypeInv
<1>3. HoldInv(w)' /\ MergeInv(w)'
  BY <1>1, <1>2 DEF HoldInv, MergeInv, MergePlaces
<1> QED BY <1>3 DEF HoldsInv, Lone

\* What a merging call knows of its next duplicate.
LEMMA MergeHolds ==
  ASSUME TypeInv, HoldsInv, NEW w \in Writers, pc[w] \in MergePlaces
  PROVE  /\ Duplicate(w) \in games /\ target[w] \in games /\ Duplicate(w) # target[w]
         /\ Duplicate(w) \in Ids /\ target[w] \in Ids /\ Duplicate(w) # None /\ target[w] # None
         /\ todo[w] \subseteq games \ {target[w]} /\ Duplicate(w) \in todo[w]
         /\ Job(w) \in Jobs
<1>1. todo[w] \subseteq games \ {target[w]} /\ target[w] \in games
  BY DEF HoldsInv, HoldInv
<1>2. Duplicate(w) \in todo[w] /\ Job(w) \in Jobs
  BY MergingIs
<1>3. games \subseteq Ids
  BY DEF TypeInv, TablesOK
<1> QED BY <1>1, <1>2, <1>3, GamesAssumption

LEMMA OnwardIs ==
  ASSUME TypeInv, NEW w \in Writers, NEW place, Onward(w, place)
  PROVE  /\ pc'[w] = place /\ call'[w] = call[w] /\ todo'[w] = todo[w]
         /\ target'[w] = target[w] /\ Duplicate(w)' = Duplicate(w) /\ games' = games
BY DEF Onward, To, locals, rows, Duplicate, TypeInv, LocalsOK

\* A table that was renamed names the duplicate no more.
LEMMA RenamedIsUnnamed ==
  ASSUME NEW table, NEW d, NEW c, c # d PROVE Unnamed(Renamed(table, {d}, c), d)
BY DEF Renamed, Unnamed

LEMMA MoveHolds ==
  ASSUME TypeInv, HoldsInv, Lone, NEW w \in Writers,
         \/ InsertAlias(w) \/ RepointAliases(w) \/ RepointGroups(w)
         \/ MoveDemos(w) \/ MovePlayers(w)
  PROVE  HoldsInv'
<1> DEFINE d == Duplicate(w)
           t == target[w]
<1>0. pc[w] \in MergePlaces
  BY DEF InsertAlias, RepointAliases, RepointGroups, MoveDemos, MovePlayers, At, MergePlaces
<1>1. /\ t \in games /\ d # t /\ d \in Ids /\ todo[w] \subseteq games \ {t}
  BY <1>0, MergeHolds
<1>2. MergeInv(w)
  BY DEF HoldsInv
<1>3. SUFFICES HoldInv(w)' /\ MergeInv(w)'
  BY DEF HoldsInv, Lone
<1>4. CASE InsertAlias(w)
  <2>1. alias' = [alias EXCEPT ![d] = t] /\ Onward(w, "repoint")
    BY <1>1, <1>4, InsertAliasIs
  <2>2. /\ pc'[w] = "repoint" /\ todo'[w] = todo[w] /\ target'[w] = t
        /\ Duplicate(w)' = d /\ games' = games
    BY <2>1, OnwardIs
  <2> HIDE DEF d, t
  <2>3. alias'[d] = t
    BY <1>1, <2>1 DEF TypeInv, TablesOK
  <2> QED BY <1>1, <2>2, <2>3 DEF HoldInv, MergeInv, MergePlaces
<1>5. CASE RepointAliases(w)
  <2>1. alias' = Renamed(alias, {d}, t) /\ Onward(w, "groups") /\ pc[w] = "repoint"
    BY <1>1, <1>5, RepointAliasesIs DEF RepointAliases, At
  <2>2. /\ pc'[w] = "groups" /\ todo'[w] = todo[w] /\ target'[w] = t
        /\ Duplicate(w)' = d /\ games' = games
    BY <2>1, OnwardIs
  <2>3. alias[d] = t
    BY <1>2, <2>1 DEF MergeInv, MergePlaces
  <2> HIDE DEF d, t
  <2>4. alias'[d] = t
    BY <1>1, <2>1, <2>3 DEF TypeInv, TablesOK, Renamed
  <2>5. Unnamed(alias', d)
    BY <1>1, <2>1, RenamedIsUnnamed
  <2> QED BY <1>1, <2>2, <2>4, <2>5 DEF HoldInv, MergeInv, MergePlaces, Unnamed
<1>6. CASE RepointGroups(w)
  <2>1. /\ groupGame' = Renamed(groupGame, {d}, t) /\ Onward(w, "demos") /\ pc[w] = "groups"
        /\ alias' = alias
    BY <1>1, <1>6, RepointGroupsIs DEF RepointGroups, At
  <2>2. /\ pc'[w] = "demos" /\ todo'[w] = todo[w] /\ target'[w] = t
        /\ Duplicate(w)' = d /\ games' = games
    BY <2>1, OnwardIs
  <2>3. alias[d] = t /\ Unnamed(alias, d)
    BY <1>2, <2>1 DEF MergeInv, MergePlaces
  <2> HIDE DEF d, t
  <2>4. Unnamed(groupGame', d)
    BY <1>1, <2>1, RenamedIsUnnamed
  <2> QED BY <1>1, <2>1, <2>2, <2>3, <2>4 DEF HoldInv, MergeInv, MergePlaces, Unnamed
<1>7. CASE MoveDemos(w)
  <2>1. /\ demoGame' = Renamed(demoGame, {d}, t) /\ Onward(w, "players") /\ pc[w] = "demos"
        /\ UNCHANGED <<alias, groupGame>>
    BY <1>1, <1>7, MoveDemosIs DEF MoveDemos, At
  <2>2. /\ pc'[w] = "players" /\ todo'[w] = todo[w] /\ target'[w] = t
        /\ Duplicate(w)' = d /\ games' = games
    BY <2>1, OnwardIs
  <2>3. alias[d] = t /\ Unnamed(alias, d) /\ Unnamed(groupGame, d)
    BY <1>2, <2>1 DEF MergeInv, MergePlaces
  <2> HIDE DEF d, t
  <2>4. Unnamed(demoGame', d)
    BY <1>1, <2>1, RenamedIsUnnamed
  <2> QED BY <1>1, <2>1, <2>2, <2>3, <2>4 DEF HoldInv, MergeInv, MergePlaces, Unnamed
<1>8. CASE MovePlayers(w)
  <2>1. /\ playerGame' = Renamed(playerGame, {d}, t) /\ Onward(w, "delete") /\ pc[w] = "players"
        /\ UNCHANGED <<alias, groupGame, demoGame>>
    BY <1>1, <1>8, MovePlayersIs DEF MovePlayers, At
  <2>2. /\ pc'[w] = "delete" /\ todo'[w] = todo[w] /\ target'[w] = t
        /\ Duplicate(w)' = d /\ games' = games
    BY <2>1, OnwardIs
  <2>3. alias[d] = t /\ Unnamed(alias, d) /\ Unnamed(groupGame, d) /\ Unnamed(demoGame, d)
    BY <1>2, <2>1 DEF MergeInv, MergePlaces
  <2> HIDE DEF d, t
  <2>4. Unnamed(playerGame', d)
    BY <1>1, <2>1, RenamedIsUnnamed
  <2> QED BY <1>1, <2>1, <2>2, <2>3, <2>4 DEF HoldInv, MergeInv, MergePlaces, Unnamed
<1> QED BY <1>4, <1>5, <1>6, <1>7, <1>8

LEMMA DeleteHolds ==
  ASSUME TypeInv, HoldsInv, Lone, NEW w \in Writers, DeleteDuplicate(w) PROVE HoldsInv'
<1> DEFINE place == IF todo[w] = {Duplicate(w)} THEN "demo" ELSE "alias"
           left == todo[w] \ {Duplicate(w)}
<1>1. /\ pc[w] = "delete" /\ games' = games \ {Duplicate(w)}
      /\ LocalsBecome(w, place, call[w], left, chosen[w], target[w])
  BY DeleteIs DEF Delete
<1>2. /\ target[w] \in games /\ Duplicate(w) # target[w] /\ todo[w] \subseteq games \ {target[w]}
  BY <1>1, MergeHolds DEF MergePlaces
<1>3. place \in {"demo", "alias"} /\ left \subseteq games' \ {target[w]} /\ target[w] \in games'
  BY <1>1, <1>2
<1> HIDE DEF place, left
<1>4. pc'[w] = place /\ todo'[w] = left /\ target'[w] = target[w]
  BY <1>1, BecomingOthers DEF TypeInv
<1>5. HoldInv(w)' /\ MergeInv(w)'
  BY <1>3, <1>4 DEF HoldInv, MergeInv, MergePlaces, AfterMerge
<1> QED BY <1>5 DEF HoldsInv, Lone

LEMMA FinishHolds ==
  ASSUME TypeInv, HoldsInv, Lone, NEW w \in Writers,
         InsertDemo(w) \/ CountDemos(w) \/ SetConfidence(w) \/ \E p \in Players : IndexPlayer(w, p)
  PROVE  HoldsInv'
<1>1. CASE InsertDemo(w)
  <2>1. pc[w] = "demo" /\ target[w] \in games /\ Job(w) \in Jobs
    BY <1>1, InsertDemoIs, NeverThrows DEF AfterMerge
  <2>2. /\ IF demoGame[Job(w)] # None
           THEN demoGame' = demoGame
           ELSE demoGame' = [demoGame EXCEPT ![Job(w)] = target[w]]
        /\ LocalsBecome(w, "count", call[w], todo[w], chosen[w], target[w]) /\ games' = games
    BY <1>1, <2>1, InsertDemoIs DEF rows
  <2>3. pc'[w] = "count" /\ call'[w] = call[w] /\ target'[w] = target[w]
    BY <2>2, BecomingOthers DEF TypeInv
  <2>4. demoGame'[Job(w)] # None
    <3>1. target[w] # None
      BY <2>1, GamesAssumption DEF TypeInv, TablesOK
    <3> QED BY <2>1, <2>2, <3>1 DEF TypeInv, TablesOK
  <2>5. HoldInv(w)' /\ MergeInv(w)'
    BY <2>1, <2>2, <2>3, <2>4 DEF HoldInv, MergeInv, MergePlaces, Job
  <2> QED BY <2>5 DEF HoldsInv, Lone
<1>2. CASE CountDemos(w) \/ SetConfidence(w)
  <2>1. /\ pc[w] \in {"count", "confidence"} /\ games' = games /\ demoGame' = demoGame
        /\ pc'[w] \in {"confidence", "index"} /\ call'[w] = call[w] /\ target'[w] = target[w]
    <3>1. CASE CountDemos(w)
      BY <3>1, CountDemosIs, BecomingOthers DEF TypeInv, rows, links
    <3>2. CASE SetConfidence(w)
      <4>1. LocalsBecome(w, "index", call[w], session[Job(w)].players, chosen[w], target[w])
        BY <3>2, SetConfidenceIs
      <4>2. pc'[w] = "index" /\ call'[w] = call[w] /\ target'[w] = target[w]
        BY <4>1, BecomingOthers DEF TypeInv
      <4> QED BY <3>2, <4>2, SetConfidenceIs DEF links
    <3> QED BY <1>2, <3>1, <3>2
  <2>2. target[w] \in games /\ demoGame[Job(w)] # None
    BY <2>1 DEF HoldsInv, HoldInv, MergeInv, AfterMerge
  <2>3. HoldInv(w)' /\ MergeInv(w)'
    BY <2>1, <2>2 DEF HoldInv, MergeInv, MergePlaces, Job
  <2> QED BY <2>3 DEF HoldsInv, Lone
<1>3. ASSUME NEW p \in Players, IndexPlayer(w, p) PROVE HoldsInv'
  <2>1. pc[w] = "index" /\ target[w] \in games
    BY <1>3, IndexPlayerIs, NeverThrows DEF AfterMerge
  <2>2. /\ LocalsBecome(w, "index", call[w], todo[w] \ {p}, chosen[w], target[w])
        /\ games' = games /\ demoGame' = demoGame
    BY <1>3, <2>1, IndexPlayerIs DEF rows
  <2>3. pc'[w] = "index" /\ call'[w] = call[w] /\ target'[w] = target[w]
    BY <2>2, BecomingOthers DEF TypeInv
  <2>4. demoGame[Job(w)] # None
    BY <2>1 DEF HoldsInv, MergeInv
  <2>5. HoldInv(w)' /\ MergeInv(w)'
    BY <2>1, <2>2, <2>3, <2>4 DEF HoldInv, MergeInv, MergePlaces, Job
  <2> QED BY <2>5 DEF HoldsInv, Lone
<1> QED BY <1>1, <1>2, <1>3

LEMMA OtherStepsHold ==
  ASSUME TypeInv, Lone, NEW w \in Writers,
         \/ Return(w) \/ Interrupt(w) \/ Commit(w) \/ Check(w)
         \/ \E j \in Jobs : Record(w, j) \/ Gather(w, j)
         \/ \E k \in Groups : Associate(w, k)
         \/ \E g \in Ids : Canonical(w, g)
  PROVE  HoldsInv'
<1>1. CASE Leave(w)
  BY <1>1, LeftHoldsNothing
<1>2. CASE ~Leave(w)
  <2>1. pc'[w] \in Elsewhere
    <3>1. CASE Check(w)
      BY <1>2, <3>1 DEF Check, Throw, To, TypeInv, LocalsOK, Elsewhere
    <3>2. ASSUME NEW j \in Jobs, Record(w, j) PROVE pc'[w] \in Elsewhere
      BY <3>2 DEF Record, Begin, To, TypeInv, LocalsOK, Elsewhere
    <3>3. ASSUME NEW j \in Jobs, Gather(w, j) PROVE pc'[w] \in Elsewhere
      BY <1>2, <3>3 DEF Gather, Throw, To, TypeInv, LocalsOK, Elsewhere
    <3>4. ASSUME NEW k \in Groups, Associate(w, k) PROVE pc'[w] \in Elsewhere
      BY <3>4 DEF Associate, Begin, To, TypeInv, LocalsOK, Elsewhere
    <3>5. ASSUME NEW g \in Ids, Canonical(w, g) PROVE pc'[w] \in Elsewhere
      BY <3>5 DEF Canonical, To, TypeInv, LocalsOK, Elsewhere
    <3>6. CASE Return(w) \/ Interrupt(w) \/ Commit(w)
      BY <1>2, <3>6, CommitIs DEF Return, Interrupt, Throw
    <3> QED BY <3>1, <3>2, <3>3, <3>4, <3>5, <3>6
  <2> QED BY <2>1, NothingHeldElsewhere
<1> QED BY <1>1, <1>2

LEMMA StepHolds == Lone /\ TypeInv /\ HoldsInv /\ [Next]_vars => HoldsInv'
<1> SUFFICES ASSUME Lone, TypeInv, HoldsInv, [Next]_vars PROVE HoldsInv'
  OBVIOUS
<1>1. CASE UNCHANGED vars
  <2>1. UNCHANGED <<games, alias, demoGame, playerGame, groupGame, pc, call, todo, chosen, target>>
    BY <1>1 DEF vars, rows, links, locals
  <2> QED BY <2>1 DEF HoldsInv, HoldInv, MergeInv, Unnamed, Duplicate, Job
<1>2. ASSUME NEW w \in Writers, NEW j \in Jobs, Record(w, j) \/ View(w, j) PROVE HoldsInv'
  BY <1>2, OtherStepsHold, ViewHolds
<1>3. ASSUME NEW w \in Writers, NEW k \in Groups, Associate(w, k) PROVE HoldsInv'
  BY <1>3, OtherStepsHold
<1>4. ASSUME NEW w \in Writers, Step(w) PROVE HoldsInv'
  <2>1. CASE Merge(w)
    BY <2>1, MoveHolds, DeleteHolds DEF Merge
  <2>2. CASE Return(w) \/ Check(w) \/ Commit(w)
    BY <2>2, OtherStepsHold
  <2>3. ASSUME NEW j \in Jobs, Gather(w, j) PROVE HoldsInv'
    BY <2>3, OtherStepsHold
  <2>4. ASSUME NEW g \in Ids, Canonical(w, g) PROVE HoldsInv'
    BY <2>4, OtherStepsHold
  <2>5. ASSUME NEW p \in Players, IndexPlayer(w, p) PROVE HoldsInv'
    BY <2>5, FinishHolds
  <2>6. CASE InsertDemo(w) \/ CountDemos(w) \/ SetConfidence(w)
    BY <2>6, FinishHolds
  <2> QED BY <1>4, <2>1, <2>2, <2>3, <2>4, <2>5, <2>6, SearchHolds, InsertGameHolds DEF Step
<1>5. ASSUME NEW w \in Writers, Interrupt(w) PROVE HoldsInv'
  BY <1>5, OtherStepsHold
<1> QED BY <1>1, <1>2, <1>3, <1>4, <1>5 DEF Next

-----------------------------------------------------------------------------
(* Issued ids *)

Live(g) == g \in games \/ alias[g] \in games

UrlInv == \A g \in issued : Live(g)

LEMMA LiveIsResolved ==
  ASSUME TypeInv, UrlInv PROVE IssuedUrlsResolve
<1> SUFFICES ASSUME NEW g \in issued PROVE Resolved(g) # None
  BY DEF IssuedUrlsResolve
<1>1. g \in Ids /\ games \subseteq Ids /\ None \notin Ids
  BY GamesAssumption DEF TypeInv, TablesOK
<1>2. Live(g)
  BY DEF UrlInv
<1> QED BY <1>1, <1>2 DEF Live, Resolved

LEMMA UrlsStand ==
  ASSUME UrlInv, games \subseteq games', alias' = alias, issued' = issued PROVE UrlInv'
BY DEF UrlInv, Live

LEMMA AliasingKeepsUrls ==
  ASSUME TypeInv, HoldsInv, UrlInv, NEW w \in Writers, InsertAlias(w) \/ RepointAliases(w)
  PROVE  UrlInv'
<1> DEFINE d == Duplicate(w)
           t == target[w]
<1>0. pc[w] \in MergePlaces
  BY DEF InsertAlias, RepointAliases, At, MergePlaces
<1>1. d \in games /\ t \in games /\ d \in Ids
  BY <1>0, MergeHolds
<1>2. games' = games /\ issued' = issued
  BY <1>1, InsertAliasIs, RepointAliasesIs DEF Onward, rows
<1>3. alias' = [alias EXCEPT ![d] = t] \/ alias' = Renamed(alias, {d}, t)
  BY <1>1, InsertAliasIs, RepointAliasesIs
<1> HIDE DEF d, t
<1>4. \A g \in issued : g \in Ids
  BY DEF TypeInv, TablesOK
<1> QED BY <1>1, <1>2, <1>3, <1>4 DEF UrlInv, Live, Renamed, TypeInv, TablesOK

LEMMA DeletionKeepsUrls ==
  ASSUME TypeInv, HoldsInv, UrlInv, NEW w \in Writers, DeleteDuplicate(w) PROVE UrlInv'
<1> DEFINE d == Duplicate(w)
           t == target[w]
<1>1. /\ pc[w] = "delete" /\ games' = games \ {d} /\ alias' = Without(alias, {d})
      /\ issued' = issued
  BY DeleteIs DEF Delete, history
<1>2. d \in games /\ t \in games /\ d # t /\ d \in Ids
  BY <1>1, MergeHolds DEF MergePlaces
<1>3. alias[d] = t /\ Unnamed(alias, d)
  BY <1>1 DEF HoldsInv, MergeInv, MergePlaces
<1> HIDE DEF d, t
<1>4. alias' = alias
  BY <1>1, <1>3 DEF Without, Renamed, Unnamed, TypeInv, TablesOK
<1>5. ASSUME NEW g \in issued PROVE Live(g)'
  <2>1. g \in Ids /\ alias[g] # d
    BY <1>3 DEF Unnamed, TypeInv, TablesOK
  <2> QED BY <1>1, <1>2, <1>3, <1>4, <2>1 DEF UrlInv, Live
<1> QED BY <1>1, <1>5 DEF UrlInv

LEMMA CommitKeepsUrls ==
  ASSUME TypeInv, UrlInv, NEW w \in Writers, Commit(w) PROVE UrlInv'
<1>1. CASE Throw(w)
  BY <1>1, UrlsStand DEF Throw, rows, links, history
<1>2. CASE ~Throw(w)
  <2> DEFINE D == Others(w)
             c == target[w]
             aliased == [g \in Ids |-> IF g \in D THEN c ELSE alias[g]]
  <2>1. /\ c \in games /\ alias' = Renamed(aliased, D, c) /\ games' = games \ D /\ issued' = issued
    BY <1>2, CommitIs
  <2>2. c \notin D
    BY DEF Others
  <2> HIDE DEF D, c
  <2>3. ASSUME NEW g \in issued PROVE Live(g)'
    <3>1. g \in Ids
      BY DEF TypeInv, TablesOK
    <3>2. alias'[g] = IF g \in D \/ alias[g] \in D THEN c ELSE alias[g]
      BY <2>1, <2>2, <3>1 DEF Renamed
    <3> QED BY <2>1, <2>2, <3>2 DEF UrlInv, Live
  <2> QED BY <2>1, <2>3 DEF UrlInv
<1> QED BY <1>1, <1>2

LEMMA ReturnKeepsUrls ==
  ASSUME TypeInv, HoldsInv, UrlInv, NEW w \in Writers, Return(w) PROVE UrlInv'
<1>1. target[w] \in games
  BY NeverThrows DEF Return, At, AfterMerge
<1>2. games' = games /\ alias' = alias /\ issued' \subseteq issued \cup {target[w]}
  BY DEF Return, rows, links
<1> QED BY <1>1, <1>2 DEF UrlInv, Live

LEMMA StepKeepsUrls == TypeInv /\ HoldsInv /\ UrlInv /\ [Next]_vars => UrlInv'
<1> SUFFICES ASSUME TypeInv, HoldsInv, UrlInv, [Next]_vars PROVE UrlInv'
  OBVIOUS
<1>1. CASE UNCHANGED vars
  BY <1>1, UrlsStand DEF vars, rows, links, history
<1>2. ASSUME NEW w \in Writers, Throw(w) PROVE UrlInv'
  BY <1>2, UrlsStand DEF Throw, rows, links, history
<1>3. ASSUME NEW w \in Writers, NEW j \in Jobs, Record(w, j) \/ View(w, j) \/ Gather(w, j) PROVE UrlInv'
  BY <1>2, <1>3, UrlsStand DEF Record, View, Gather, rows, links, history
<1>4. ASSUME NEW w \in Writers, NEW k \in Groups, Associate(w, k) PROVE UrlInv'
  BY <1>4, UrlsStand DEF Associate, rows, links, history
<1>5. ASSUME NEW w \in Writers, RepointGroups(w) \/ MoveDemos(w) \/ MovePlayers(w) PROVE UrlInv'
  BY <1>2, <1>5, RepointGroupsIs, MoveDemosIs, MovePlayersIs, UrlsStand DEF Onward, rows
<1>6. ASSUME NEW w \in Writers, Select(w) \/ Examine(w) \/ InsertGame(w) PROVE UrlInv'
  BY <1>6, UrlsStand DEF Select, Examine, InsertGame, rows, links, history
<1>7. ASSUME NEW w \in Writers, InsertDemo(w) \/ CountDemos(w) \/ SetConfidence(w) PROVE UrlInv'
  BY <1>2, <1>7, InsertDemoIs, CountDemosIs, SetConfidenceIs, UrlsStand DEF rows, links, history
<1>8. ASSUME NEW w \in Writers, NEW p \in Players, IndexPlayer(w, p) PROVE UrlInv'
  BY <1>2, <1>8, IndexPlayerIs, UrlsStand DEF rows, history
<1>9. ASSUME NEW w \in Writers, NEW g \in Ids, Canonical(w, g) PROVE UrlInv'
  BY <1>9, UrlsStand DEF Canonical, rows, links, history
<1>10. ASSUME NEW w \in Writers, Check(w) \/ Interrupt(w) PROVE UrlInv'
  BY <1>2, <1>10, UrlsStand DEF Check, Interrupt, rows, links, history
<1>11. ASSUME NEW w \in Writers, Step(w) PROVE UrlInv'
  BY <1>3, <1>5, <1>6, <1>7, <1>8, <1>9, <1>10, <1>11, AliasingKeepsUrls, DeletionKeepsUrls,
     CommitKeepsUrls, ReturnKeepsUrls DEF Step, Merge
<1> QED BY <1>1, <1>3, <1>4, <1>10, <1>11 DEF Next

LEMMA InitHoldsNothing == Init => HoldsInv /\ UrlInv
BY DEF Init, HoldsInv, HoldInv, MergeInv, UrlInv, MergePlaces, AfterMerge

\* When calls do not overlap, an id that a response carried leads to a game,
\* whatever was merged since and wherever a call was cut short.
THEOREM DurableUrls ==
  ASSUME \A v, w \in Writers : v = w PROVE Spec => []IssuedUrlsResolve
<1>1. Lone
  BY DEF Lone
<1>2. TypeInv /\ HoldsInv /\ [Next]_vars => HoldsInv'
  BY <1>1, StepHolds
<1> QED BY <1>2, TypesAreKept, InitHoldsNothing, StepKeepsUrls, LiveIsResolved, PTL DEF Spec

-----------------------------------------------------------------------------
(* Indexes *)

RowsFollow == \A j \in Jobs : demoGame[j] = None => \A p \in Players : playerGame[<<j, p>>] = None
PlayersFollow == \A j \in Jobs : \A p \in session[j].players : Follows(j, p)
GroupsStay == \A k \in Groups : \A j \in members[k] : StaysIn(j, k)

LEMMA IndexInvIs == IndexInv <=> (fails = 0 => RowsFollow /\ PlayersFollow /\ GroupsStay)
BY DEF IndexInv, RowsFollow, PlayersFollow, GroupsStay

\* Nothing has failed before a step after which nothing has failed.
LEMMA NoFailureYet ==
  ASSUME TypeInv, fails' = fails \/ fails' = fails + 1, fails' = 0 PROVE fails = 0
BY DEF TypeInv, TablesOK

\* The rows agree while the lone writer is not about to change them.
LEMMA AtRest ==
  ASSUME Lone, NEW w \in Writers, PlayersFollow, GroupsStay
  PROVE  /\ pc[w] \notin {"players", "count", "confidence", "index"} =>
              \A j \in Jobs : \A p \in session[j].players : playerGame[<<j, p>>] = demoGame[j]
         /\ pc[w] # "demos" =>
              \A k \in Groups : \A j \in members[k] : groupGame[k] # None /\ demoGame[j] = groupGame[k]
<1>1. \A v \in Writers : v = w
  BY DEF Lone
<1>2. ASSUME pc[w] \notin {"players", "count", "confidence", "index"},
             NEW j \in Jobs, NEW p \in session[j].players
      PROVE  playerGame[<<j, p>>] = demoGame[j]
  <2>1. Follows(j, p)
    BY DEF PlayersFollow
  <2> QED BY <1>1, <1>2, <2>1 DEF Follows
<1>3. ASSUME pc[w] # "demos", NEW k \in Groups, NEW j \in members[k]
      PROVE  groupGame[k] # None /\ demoGame[j] = groupGame[k]
  <2>1. StaysIn(j, k)
    BY DEF GroupsStay
  <2> QED BY <1>1, <1>3, <2>1 DEF StaysIn
<1> QED BY <1>2, <1>3

\* Steps of a writer at rest that leave the rows alone.
LEMMA RestKeepsIndexes ==
  ASSUME Lone, TypeInv, IndexInv, NEW w \in Writers,
         pc[w] \notin {"players", "count", "confidence", "index", "demos"},
         UNCHANGED <<session, demoGame, playerGame, groupGame, members>>,
         fails' = fails \/ fails' = fails + 1
  PROVE  IndexInv'
<1> SUFFICES ASSUME fails' = 0 PROVE RowsFollow' /\ PlayersFollow' /\ GroupsStay'
  BY DEF IndexInv, RowsFollow, PlayersFollow, GroupsStay
<1>1. fails = 0
  BY NoFailureYet
<1>2. RowsFollow /\ PlayersFollow /\ GroupsStay
  BY <1>1, IndexInvIs
<1>3. RowsFollow'
  BY <1>2 DEF RowsFollow
<1>4. PlayersFollow'
  BY <1>2, AtRest DEF PlayersFollow, Follows
<1>5. GroupsStay'
  BY <1>2, AtRest DEF GroupsStay, StaysIn
<1> QED BY <1>3, <1>4, <1>5

LEMMA MovesKeepIndexes ==
  ASSUME Lone, TypeInv, HoldsInv, IndexInv, NEW w \in Writers,
         RepointGroups(w) \/ MoveDemos(w) \/ MovePlayers(w)
  PROVE  IndexInv'
<1> DEFINE d == Duplicate(w)
           t == target[w]
<1>0. pc[w] \in MergePlaces
  BY DEF RepointGroups, MoveDemos, MovePlayers, At, MergePlaces
<1>1. t \in games /\ d # None /\ t # None /\ d # t
  BY <1>0, MergeHolds
<1>2. PICK place \in {"demos", "players", "delete"} : Onward(w, place)
  BY <1>1, RepointGroupsIs, MoveDemosIs, MovePlayersIs
<1>3. /\ pc'[w] = place /\ todo'[w] = todo[w] /\ target'[w] = t /\ Duplicate(w)' = d
      /\ fails' = fails /\ session' = session /\ members' = members
  BY <1>2, OnwardIs DEF Onward
<1> SUFFICES ASSUME fails = 0 PROVE RowsFollow' /\ PlayersFollow' /\ GroupsStay'
  BY <1>3 DEF IndexInv, RowsFollow, PlayersFollow, GroupsStay
<1>4. RowsFollow /\ PlayersFollow /\ GroupsStay
  BY IndexInvIs
<1>5. \A v \in Writers : v = w
  BY DEF Lone
<1>6. CASE RepointGroups(w)
  <2>1. /\ pc[w] = "groups" /\ pc'[w] = "demos" /\ groupGame' = Renamed(groupGame, {d}, t)
        /\ UNCHANGED <<demoGame, playerGame>>
    BY <1>1, <1>6, RepointGroupsIs DEF RepointGroups, At, Onward, To, TypeInv, LocalsOK
  <2>2. RowsFollow' /\ PlayersFollow'
    BY <1>3, <1>4, <2>1, AtRest DEF RowsFollow, PlayersFollow, Follows
  <2>3. ASSUME NEW k \in Groups, NEW j \in members[k] PROVE StaysIn(j, k)'
    <3>1. groupGame[k] # None /\ demoGame[j] = groupGame[k]
      BY <1>4, <2>1, AtRest
    <3>2. groupGame'[k] = IF groupGame[k] = d THEN t ELSE groupGame[k]
      BY <2>1 DEF Renamed, TypeInv, TablesOK
    <3> HIDE DEF d, t
    <3> QED BY <1>1, <1>3, <2>1, <3>1, <3>2 DEF StaysIn
  <2> QED BY <1>3, <2>2, <2>3 DEF GroupsStay
<1>7. CASE MoveDemos(w)
  <2>1. /\ pc[w] = "demos" /\ pc'[w] = "players" /\ demoGame' = Renamed(demoGame, {d}, t)
        /\ UNCHANGED <<groupGame, playerGame>>
    BY <1>1, <1>7, MoveDemosIs DEF MoveDemos, At, Onward, To, TypeInv, LocalsOK
  <2>2. Unnamed(groupGame, d)
    BY <2>1 DEF HoldsInv, MergeInv
  <2>3. \A j \in Jobs : demoGame'[j] = IF demoGame[j] = d THEN t ELSE demoGame[j]
    BY <2>1 DEF Renamed, TypeInv, TablesOK
  <2>4. ASSUME NEW j \in Jobs, NEW p \in session[j].players PROVE Follows(j, p)'
    <3>1. playerGame[<<j, p>>] = demoGame[j]
      BY <1>4, <2>1, AtRest
    <3> HIDE DEF d, t
    <3> QED BY <1>3, <2>1, <2>3, <3>1 DEF Follows
  <2>5. ASSUME NEW k \in Groups, NEW j \in members[k] PROVE StaysIn(j, k)'
    <3>1. groupGame[k] # None /\ (demoGame[j] = groupGame[k] \/ (demoGame[j] = d /\ groupGame[k] = t))
      BY <1>4, <1>5 DEF GroupsStay, StaysIn
    <3>2. j \in Jobs /\ groupGame[k] # d
      BY <2>2 DEF Unnamed, TypeInv, TablesOK
    <3> HIDE DEF d, t
    <3> QED BY <2>1, <2>3, <3>1, <3>2 DEF StaysIn
  <2>6. RowsFollow'
    <3> HIDE DEF d, t
    <3> QED BY <1>1, <1>4, <2>1, <2>3 DEF RowsFollow
  <2> QED BY <1>3, <2>4, <2>5, <2>6 DEF PlayersFollow, GroupsStay
<1>8. CASE MovePlayers(w)
  <2>1. /\ pc[w] = "players" /\ pc'[w] = "delete" /\ playerGame' = Renamed(playerGame, {d}, t)
        /\ UNCHANGED <<groupGame, demoGame>>
    BY <1>1, <1>8, MovePlayersIs DEF MovePlayers, At, Onward, To, TypeInv, LocalsOK
  <2>2. Unnamed(demoGame, d)
    BY <2>1 DEF HoldsInv, MergeInv
  <2>3. \A r \in Jobs \X Players : playerGame'[r] = IF playerGame[r] = d THEN t ELSE playerGame[r]
    BY <2>1 DEF Renamed, TypeInv, TablesOK
  <2>4. ASSUME NEW j \in Jobs, NEW p \in session[j].players PROVE Follows(j, p)'
    <3>1. Follows(j, p) /\ <<j, p>> \in Jobs \X Players
      BY <1>4, GamesAssumption DEF PlayersFollow, TypeInv, TablesOK
    <3>2. playerGame[<<j, p>>] = demoGame[j] \/ (playerGame[<<j, p>>] = d /\ demoGame[j] = t)
      BY <1>5, <2>1, <3>1 DEF Follows
    <3>3. demoGame[j] # d
      BY <2>2 DEF Unnamed, TypeInv, TablesOK
    <3>4. playerGame'[<<j, p>>] = demoGame'[j]
      BY <2>1, <2>3, <3>1, <3>2, <3>3
    <3> QED BY <3>4 DEF Follows
  <2>5. ASSUME NEW k \in Groups, NEW j \in members[k] PROVE StaysIn(j, k)'
    BY <1>4, <2>1, AtRest DEF StaysIn
  <2>6. RowsFollow'
    <3> HIDE DEF d, t
    <3> QED BY <1>1, <1>4, <2>1, <2>3 DEF RowsFollow
  <2> QED BY <1>3, <2>4, <2>5, <2>6 DEF PlayersFollow, GroupsStay
<1> QED BY <1>6, <1>7, <1>8

LEMMA DeletionKeepsIndexes ==
  ASSUME Lone, TypeInv, HoldsInv, IndexInv, NEW w \in Writers, DeleteDuplicate(w)
  PROVE  IndexInv'
<1>1. /\ pc[w] = "delete" /\ Delete({Duplicate(w)})
      /\ UNCHANGED <<session, members, fails>>
  BY DeleteIs DEF history
<1>2. /\ Unnamed(groupGame, Duplicate(w)) /\ Unnamed(demoGame, Duplicate(w))
      /\ Unnamed(playerGame, Duplicate(w))
  BY <1>1 DEF HoldsInv, MergeInv
<1>3. UNCHANGED <<groupGame, demoGame, playerGame>>
  BY <1>1, <1>2 DEF Delete, Without, Renamed, Unnamed, TypeInv, TablesOK
<1> QED BY <1>1, <1>3, RestKeepsIndexes

LEMMA InsertDemoKeepsIndexes ==
  ASSUME Lone, TypeInv, HoldsInv, IndexInv, NEW w \in Writers, InsertDemo(w)
  PROVE  IndexInv'
<1> DEFINE i == Job(w)
           t == target[w]
<1>1. /\ pc[w] = "demo" /\ i \in Jobs /\ t \in games
  BY InsertDemoIs, NeverThrows DEF AfterMerge
<1>2. /\ IF demoGame[i] # None THEN demoGame' = demoGame ELSE demoGame' = [demoGame EXCEPT ![i] = t]
      /\ LocalsBecome(w, "count", call[w], todo[w], chosen[w], t)
      /\ UNCHANGED <<session, playerGame, groupGame, members, fails>>
  BY <1>1, InsertDemoIs DEF history
<1>3. CASE demoGame[i] # None
  BY <1>1, <1>2, <1>3, RestKeepsIndexes
<1>4. CASE demoGame[i] = None
  <2> SUFFICES ASSUME fails = 0 PROVE RowsFollow' /\ PlayersFollow' /\ GroupsStay'
    BY <1>2 DEF IndexInv, RowsFollow, PlayersFollow, GroupsStay
  <2>1. RowsFollow /\ PlayersFollow /\ GroupsStay
    BY IndexInvIs
  <2>2. pc'[w] = "count" /\ call'[w] = call[w] /\ target'[w] = t
    BY <1>2, BecomingOthers DEF TypeInv
  <2>3. Job(w)' = i
    BY <2>2 DEF Job
  <2>4. demoGame' = [demoGame EXCEPT ![i] = t]
    BY <1>2, <1>4
  <2> HIDE DEF i, t
  <2>5. \A j \in Jobs : demoGame'[j] = IF j = i THEN t ELSE demoGame[j]
    BY <1>1, <2>4 DEF TypeInv, TablesOK
  <2>6. t # None
    BY <1>1, GamesAssumption DEF TypeInv, TablesOK
  <2>7. RowsFollow'
    BY <1>2, <2>1, <2>5, <2>6 DEF RowsFollow
  <2>8. ASSUME NEW j \in Jobs, NEW p \in session[j].players PROVE Follows(j, p)'
    <3>1. playerGame[<<j, p>>] = demoGame[j] /\ p \in Players
      BY <1>1, <2>1, AtRest, GamesAssumption DEF TypeInv, TablesOK
    <3>2. CASE j # i
      BY <1>2, <2>5, <3>1, <3>2 DEF Follows
    <3>3. CASE j = i
      BY <1>2, <1>4, <2>2, <2>3, <2>5, <3>1, <3>3 DEF Follows
    <3> QED BY <3>2, <3>3
  <2>9. ASSUME NEW k \in Groups, NEW j \in members[k] PROVE StaysIn(j, k)'
    <3>1. groupGame[k] # None /\ demoGame[j] = groupGame[k] /\ j \in Jobs
      BY <1>1, <2>1, AtRest DEF TypeInv, TablesOK
    <3> QED BY <1>2, <1>4, <2>5, <3>1 DEF StaysIn
  <2> QED BY <1>2, <2>7, <2>8, <2>9 DEF PlayersFollow, GroupsStay
<1> QED BY <1>3, <1>4

\* Between the row of its demo and those of its players a call has yet to write
\* the rows of the players that are not indexed.
LEMMA FinishKeepsIndexes ==
  ASSUME Lone, TypeInv, HoldsInv, IndexInv, NEW w \in Writers, CountDemos(w) \/ SetConfidence(w)
  PROVE  IndexInv'
<1>1. /\ pc[w] \in {"count", "confidence"}
      /\ UNCHANGED <<session, demoGame, playerGame, groupGame, members, fails>>
  BY CountDemosIs, SetConfidenceIs DEF links, history
<1>2. /\ pc'[w] \in {"count", "confidence", "index"} /\ call'[w] = call[w] /\ target'[w] = target[w]
      /\ pc'[w] = "index" => todo'[w] = session[Job(w)].players
  <2>1. CASE CountDemos(w)
    BY <2>1, CountDemosIs, BecomingOthers DEF TypeInv
  <2>2. CASE SetConfidence(w)
    <3>1. LocalsBecome(w, "index", call[w], session[Job(w)].players, chosen[w], target[w])
      BY <2>2, SetConfidenceIs
    <3> QED BY <3>1, BecomingOthers DEF TypeInv
  <2> QED BY <2>1, <2>2
<1> SUFFICES ASSUME fails = 0 PROVE RowsFollow' /\ PlayersFollow' /\ GroupsStay'
  BY <1>1 DEF IndexInv, RowsFollow, PlayersFollow, GroupsStay
<1>3. RowsFollow /\ PlayersFollow /\ GroupsStay
  BY IndexInvIs
<1>4. RowsFollow'
  BY <1>1, <1>3 DEF RowsFollow
<1>5. GroupsStay'
  BY <1>1, <1>3, AtRest DEF GroupsStay, StaysIn
<1>6. ASSUME NEW j \in Jobs, NEW p \in session[j].players PROVE Follows(j, p)'
  <2>1. Follows(j, p)
    BY <1>3 DEF PlayersFollow
  <2>2. \/ playerGame[<<j, p>>] = demoGame[j]
        \/ Job(w) = j /\ playerGame[<<j, p>>] = None /\ demoGame[j] = target[w]
    BY <1>1, <2>1 DEF Follows, Lone
  <2>3. CASE playerGame[<<j, p>>] = demoGame[j]
    BY <1>1, <2>3 DEF Follows
  <2>4. CASE Job(w) = j /\ playerGame[<<j, p>>] = None /\ demoGame[j] = target[w]
    <3>1. Job(w)' = j
      BY <1>2, <2>4 DEF Job
    <3>2. pc'[w] = "index" => p \in todo'[w]
      BY <1>2, <2>4
    <3> QED BY <1>1, <1>2, <2>4, <3>1, <3>2 DEF Follows
  <2> QED BY <2>2, <2>3, <2>4
<1> QED BY <1>1, <1>4, <1>5, <1>6 DEF PlayersFollow

LEMMA IndexPlayerKeepsIndexes ==
  ASSUME Lone, TypeInv, HoldsInv, IndexInv, NEW w \in Writers, NEW q \in Players, IndexPlayer(w, q)
  PROVE  IndexInv'
<1> DEFINE i == Job(w)
           t == target[w]
           left == todo[w] \ {q}
<1>1. pc[w] = "index" /\ i \in Jobs /\ t \in games
  BY IndexPlayerIs, NeverThrows DEF AfterMerge
<1>2. /\ IF playerGame[<<i, q>>] # None THEN playerGame' = playerGame
         ELSE playerGame' = [playerGame EXCEPT ![<<i, q>>] = t]
      /\ LocalsBecome(w, "index", call[w], left, chosen[w], t)
      /\ UNCHANGED <<session, demoGame, groupGame, members, fails>>
  BY <1>1, IndexPlayerIs DEF history
<1> HIDE DEF left
<1>3. pc'[w] = "index" /\ call'[w] = call[w] /\ target'[w] = t /\ todo'[w] = left
  BY <1>2, BecomingOthers DEF TypeInv
<1>4. Job(w)' = i /\ demoGame[i] # None
  BY <1>1, <1>3 DEF Job, HoldsInv, MergeInv
<1> SUFFICES ASSUME fails = 0 PROVE RowsFollow' /\ PlayersFollow' /\ GroupsStay'
  BY <1>2 DEF IndexInv, RowsFollow, PlayersFollow, GroupsStay
<1>5. RowsFollow /\ PlayersFollow /\ GroupsStay
  BY IndexInvIs
<1>6. GroupsStay'
  BY <1>1, <1>2, <1>5, AtRest DEF GroupsStay, StaysIn
<1>7. left = todo[w] \ {q}
  BY DEF left
<1>8. ASSUME NEW j \in Jobs, NEW p \in Players, j # i \/ p # q PROVE playerGame'[<<j, p>>] = playerGame[<<j, p>>]
  <2>1. <<j, p>> # <<i, q>> /\ <<j, p>> \in Jobs \X Players
    BY <1>8
  <2> HIDE DEF i, t
  <2> QED BY <1>2, <2>1 DEF TypeInv, TablesOK
<1>9. playerGame'[<<i, q>>] = IF playerGame[<<i, q>>] # None THEN playerGame[<<i, q>>] ELSE t
  <2>1. <<i, q>> \in Jobs \X Players
    BY <1>1
  <2> HIDE DEF i, t
  <2> QED BY <1>2, <2>1 DEF TypeInv, TablesOK
<1>10. RowsFollow'
  <2> SUFFICES ASSUME NEW j \in Jobs, demoGame[j] = None, NEW p \in Players
               PROVE  playerGame'[<<j, p>>] = None
    BY <1>2 DEF RowsFollow
  <2>1. j # i /\ playerGame[<<j, p>>] = None
    BY <1>4, <1>5 DEF RowsFollow
  <2> QED BY <1>8, <2>1
<1>11. ASSUME NEW j \in Jobs, NEW p \in session[j].players PROVE Follows(j, p)'
  <2>1. Follows(j, p) /\ p \in Players
    BY <1>5, GamesAssumption DEF PlayersFollow, TypeInv, TablesOK
  <2>2. \/ playerGame[<<j, p>>] = demoGame[j]
        \/ i = j /\ p \in todo[w] /\ playerGame[<<j, p>>] = None /\ demoGame[j] = t
    BY <1>1, <2>1 DEF Follows, Lone
  <2>3. CASE j # i \/ p # q
    <3>1. playerGame'[<<j, p>>] = playerGame[<<j, p>>]
      BY <1>8, <2>1, <2>3
    <3>2. p \in todo[w] /\ j = i => p \in left
      BY <1>7, <2>3
    <3> HIDE DEF i, t
    <3> QED BY <1>2, <1>3, <1>4, <2>2, <3>1, <3>2 DEF Follows
  <2>4. CASE j = i /\ p = q
    <3>1. playerGame'[<<j, p>>] = demoGame[j]
      <4> HIDE DEF i, t
      <4> QED BY <1>4, <1>9, <2>2, <2>4
    <3> QED BY <1>2, <3>1 DEF Follows
  <2> QED BY <2>3, <2>4
<1> QED BY <1>2, <1>6, <1>10, <1>11 DEF PlayersFollow

LEMMA ReturnKeepsIndexes ==
  ASSUME Lone, TypeInv, IndexInv, NEW w \in Writers, Return(w) PROVE IndexInv'
<1>1. /\ pc[w] = "index" /\ todo[w] = {}
      /\ UNCHANGED <<session, demoGame, playerGame, groupGame, members, fails>>
  BY DEF Return, At, links
<1> SUFFICES ASSUME fails = 0 PROVE RowsFollow' /\ PlayersFollow' /\ GroupsStay'
  BY <1>1 DEF IndexInv, RowsFollow, PlayersFollow, GroupsStay
<1>2. RowsFollow /\ PlayersFollow /\ GroupsStay
  BY IndexInvIs
<1>3. RowsFollow'
  BY <1>1, <1>2 DEF RowsFollow
<1>4. GroupsStay'
  BY <1>1, <1>2, AtRest DEF GroupsStay, StaysIn
<1>5. ASSUME NEW j \in Jobs, NEW p \in session[j].players PROVE Follows(j, p)'
  <2>1. Follows(j, p)
    BY <1>2 DEF PlayersFollow
  <2>2. playerGame[<<j, p>>] = demoGame[j]
    BY <1>1, <2>1 DEF Follows, Lone
  <2> QED BY <1>1, <2>2 DEF Follows
<1> QED BY <1>1, <1>3, <1>4, <1>5 DEF PlayersFollow

LEMMA CommitKeepsIndexes ==
  ASSUME Lone, TypeInv, IndexInv, NEW w \in Writers, Commit(w) PROVE IndexInv'
<1>0. pc[w] = "commit" /\ Job(w) \in Groups
  BY CommitIs
<1>1. CASE Throw(w)
  <2>1. UNCHANGED <<session, demoGame, playerGame, groupGame, members, fails>>
    BY <1>1 DEF Throw, links, history
  <2> QED BY <1>0, <2>1, RestKeepsIndexes
<1>2. CASE ~Throw(w)
  <2> DEFINE D == Others(w)
             c == target[w]
             i == Job(w)
             joined == {j \in GroupJobs[i] : demoGame[j] \in chosen[w]}
  <2>1. /\ c \in games /\ demoGame' = Renamed(demoGame, D, c)
        /\ playerGame' = Renamed(playerGame, D, c)
        /\ groupGame' = [Renamed(groupGame, D, c) EXCEPT ![i] = c]
        /\ members' = [members EXCEPT ![i] = joined]
        /\ UNCHANGED <<session, fails>>
    BY <1>2, CommitIs
  <2> SUFFICES ASSUME fails = 0 PROVE RowsFollow' /\ PlayersFollow' /\ GroupsStay'
    BY <2>1 DEF IndexInv, RowsFollow, PlayersFollow, GroupsStay
  <2>2. RowsFollow /\ PlayersFollow /\ GroupsStay
    BY IndexInvIs
  <2>3. c # None /\ None \notin D /\ D \subseteq chosen[w] /\ chosen[w] \subseteq D \cup {c}
    BY <2>1, GamesAssumption DEF Others, TypeInv, TablesOK, LocalsOK
  <2>4. joined \subseteq Jobs /\ \A j \in joined : demoGame[j] \in D \cup {c}
    BY <1>0, <2>3, GamesAssumption
  <2> HIDE DEF D, c, joined
  <2>5. \A j \in Jobs : demoGame'[j] = IF demoGame[j] \in D THEN c ELSE demoGame[j]
    BY <2>1 DEF Renamed, TypeInv, TablesOK
  <2>6. \A r \in Jobs \X Players : playerGame'[r] = IF playerGame[r] \in D THEN c ELSE playerGame[r]
    BY <2>1 DEF Renamed, TypeInv, TablesOK
  <2>7. \A k \in Groups : groupGame'[k] = IF k = i \/ groupGame[k] \in D THEN c ELSE groupGame[k]
    BY <1>0, <2>1 DEF Renamed, TypeInv, TablesOK
  <2>8. RowsFollow'
    <3> SUFFICES ASSUME NEW j \in Jobs, demoGame'[j] = None, NEW p \in Players
                 PROVE  playerGame'[<<j, p>>] = None
      BY DEF RowsFollow
    <3>1. demoGame[j] = None
      BY <2>3, <2>5
    <3>2. playerGame[<<j, p>>] = None /\ <<j, p>> \in Jobs \X Players
      BY <2>2, <3>1 DEF RowsFollow
    <3> QED BY <2>3, <2>6, <3>2
  <2>9. ASSUME NEW j \in Jobs, NEW p \in session[j].players PROVE Follows(j, p)'
    <3>1. playerGame[<<j, p>>] = demoGame[j] /\ <<j, p>> \in Jobs \X Players
      BY <1>0, <2>2, AtRest, GamesAssumption DEF TypeInv, TablesOK
    <3>2. playerGame'[<<j, p>>] = demoGame'[j]
      BY <2>5, <2>6, <3>1
    <3> QED BY <3>2 DEF Follows
  <2>10. ASSUME NEW k \in Groups, NEW j \in members'[k] PROVE StaysIn(j, k)'
    <3>1. CASE k = i
      <4>1. j \in joined
        BY <1>0, <2>1, <2>10, <3>1 DEF TypeInv, TablesOK
      <4>2. demoGame'[j] = c /\ groupGame'[k] = c
        BY <2>4, <2>5, <2>7, <3>1, <4>1
      <4> QED BY <2>3, <4>2 DEF StaysIn
    <3>2. CASE k # i
      <4>1. j \in members[k] /\ j \in Jobs
        BY <2>1, <2>10, <3>2 DEF TypeInv, TablesOK
      <4>2. groupGame[k] # None /\ demoGame[j] = groupGame[k]
        BY <1>0, <2>2, <4>1, AtRest
      <4>3. groupGame'[k] # None /\ demoGame'[j] = groupGame'[k]
        BY <2>3, <2>5, <2>7, <3>2, <4>1, <4>2
      <4> QED BY <4>3 DEF StaysIn
    <3> QED BY <3>1, <3>2
  <2> QED BY <2>1, <2>8, <2>9, <2>10 DEF PlayersFollow, GroupsStay
<1> QED BY <1>1, <1>2

LEMMA InterruptKeepsIndexes ==
  ASSUME TypeInv, NEW w \in Writers, Interrupt(w) PROVE IndexInv'
<1>1. fails' # 0
  BY DEF Interrupt, TypeInv, TablesOK
<1> QED BY <1>1 DEF IndexInv

\* Every other step leaves the rows alone and starts where they agree.
LEMMA OtherStepsKeepIndexes ==
  ASSUME Lone, TypeInv, HoldsInv, IndexInv, NEW w \in Writers,
         \/ Select(w) \/ Examine(w) \/ InsertGame(w) \/ Check(w)
         \/ InsertAlias(w) \/ RepointAliases(w)
         \/ \E j \in Jobs : Record(w, j) \/ View(w, j) \/ Gather(w, j)
         \/ \E k \in Groups : Associate(w, k)
         \/ \E g \in Ids : Canonical(w, g)
  PROVE  IndexInv'
<1>1. pc[w] \notin {"players", "count", "confidence", "index", "demos"}
  BY DEF Select, Examine, InsertGame, Check, InsertAlias, RepointAliases, Record, View,
         Gather, Associate, Canonical, Begin, At
<1>2. UNCHANGED <<session, demoGame, playerGame, groupGame, members, fails>>
  <2>1. CASE Throw(w)
    BY <2>1 DEF Throw, links, history
  <2>2. CASE Select(w) \/ Examine(w) \/ InsertGame(w) \/ Check(w)
    BY <2>1, <2>2 DEF Select, Examine, InsertGame, Check, links, history
  <2>3. CASE InsertAlias(w) \/ RepointAliases(w)
    BY <2>1, <2>3, InsertAliasIs, RepointAliasesIs DEF Onward
  <2>4. ASSUME NEW j \in Jobs, Record(w, j) \/ View(w, j) \/ Gather(w, j)
        PROVE  UNCHANGED <<session, demoGame, playerGame, groupGame, members, fails>>
    BY <2>1, <2>4 DEF Record, View, Gather, links, history
  <2>5. ASSUME NEW k \in Groups, Associate(w, k)
        PROVE  UNCHANGED <<session, demoGame, playerGame, groupGame, members, fails>>
    BY <2>5 DEF Associate, links, history
  <2>6. ASSUME NEW g \in Ids, Canonical(w, g)
        PROVE  UNCHANGED <<session, demoGame, playerGame, groupGame, members, fails>>
    BY <2>6 DEF Canonical, links, history
  <2> QED BY <2>2, <2>3, <2>4, <2>5, <2>6
<1> QED BY <1>1, <1>2, RestKeepsIndexes

LEMMA StepKeepsIndexes == Lone /\ TypeInv /\ HoldsInv /\ IndexInv /\ [Next]_vars => IndexInv'
<1> SUFFICES ASSUME Lone, TypeInv, HoldsInv, IndexInv, [Next]_vars PROVE IndexInv'
  OBVIOUS
<1>1. CASE UNCHANGED vars
  <2>1. UNCHANGED <<session, fails, members, demoGame, playerGame, groupGame, pc, call, todo, target>>
    BY <1>1 DEF vars, links, locals, history
  <2> QED BY <2>1 DEF IndexInv, Follows, StaysIn, Duplicate, Job
<1>2. ASSUME NEW w \in Writers, NEW j \in Jobs, Record(w, j) \/ View(w, j) \/ Gather(w, j) PROVE IndexInv'
  BY <1>2, OtherStepsKeepIndexes
<1>3. ASSUME NEW w \in Writers, NEW k \in Groups, Associate(w, k) PROVE IndexInv'
  BY <1>3, OtherStepsKeepIndexes
<1>4. ASSUME NEW w \in Writers, NEW g \in Ids, Canonical(w, g) PROVE IndexInv'
  BY <1>4, OtherStepsKeepIndexes
<1>5. ASSUME NEW w \in Writers, Merge(w) PROVE IndexInv'
  BY <1>5, OtherStepsKeepIndexes, MovesKeepIndexes, DeletionKeepsIndexes DEF Merge
<1>6. ASSUME NEW w \in Writers, Select(w) \/ Examine(w) \/ InsertGame(w) \/ Check(w) PROVE IndexInv'
  BY <1>6, OtherStepsKeepIndexes
<1>7. ASSUME NEW w \in Writers, Step(w) PROVE IndexInv'
  BY <1>2, <1>4, <1>5, <1>6, <1>7, InsertDemoKeepsIndexes, FinishKeepsIndexes,
     IndexPlayerKeepsIndexes, ReturnKeepsIndexes, CommitKeepsIndexes DEF Step
<1>8. ASSUME NEW w \in Writers, Interrupt(w) PROVE IndexInv'
  BY <1>8, InterruptKeepsIndexes
<1> QED BY <1>1, <1>2, <1>3, <1>7, <1>8 DEF Next

LEMMA InitAgreesOnIndexes == Init => IndexInv
BY GamesAssumption DEF Init, IndexInv, Follows, StaysIn

\* When calls do not overlap and none was cut short, every player's history links
\* to the game that shows the demo, and the demos of a finalised provider group
\* stay in its one game through every later merge.
THEOREM ConsistentIndexes ==
  ASSUME \A v, w \in Writers : v = w PROVE Spec => []IndexesAgree
<1>1. Lone
  BY DEF Lone
<1>2. TypeInv /\ HoldsInv /\ [Next]_vars => HoldsInv'
  BY <1>1, StepHolds
<1>3. TypeInv /\ HoldsInv /\ IndexInv /\ [Next]_vars => IndexInv'
  BY <1>1, StepKeepsIndexes
<1>4. IndexInv => IndexesAgree
  BY DEF IndexInv, IndexesAgree, Quiet, Follows, StaysIn
<1> QED BY <1>2, <1>3, <1>4, TypesAreKept, InitHoldsNothing, InitAgreesOnIndexes, PTL DEF Spec
=============================================================================
