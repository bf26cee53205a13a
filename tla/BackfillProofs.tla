---------------------------- MODULE BackfillProofs ----------------------------
(***************************************************************************)
(* What holds of the backfill for every catalogue and every number of      *)
(* concurrent loops.                                                       *)
(***************************************************************************)
EXTENDS Backfill, FiniteSetTheorems, TLAPS

Users(o) == {w \in Workers : o \in held[w]}

\* A loop that is past the choice of an item has one.
LoopsHaveItems ==
    \A w \in Workers : pc[w] \notin {"free", "next"} => item[w] \in Items

\* What a loop holds at each step: it retains an object it does not hold yet.
HoldsNothing == {"free", "next", "download", "copy", "retain source"}
HoldsSource  == {"open source", "open demo", "rename demo", "retain demo"}

HeldInStages ==
    \A w \in Workers :
        /\ pc[w] \in HoldsNothing => held[w] = {}
        /\ pc[w] \in HoldsSource => held[w] \subseteq {Source(w)}
        /\ pc[w] \notin HoldsNothing => held[w] \subseteq {Source(w), Demo(w)}

\* What a loop that publishes has done.
PublishedInStages ==
    \A w \in Workers :
        /\ pc[w] \in {"enqueue", "claim", "record", "finish"} => Demo(w) \in derived
        /\ pc[w] \in {"finish", "complete"} => Demo(w) \in analysed
        /\ pc[w] = "complete" => job[Demo(w)].state = "succeeded"

IInv ==
    /\ BackfillTypeOK
    /\ LoopsHaveItems
    /\ HeldInStages
    /\ CountsAreUses
    /\ PublishedInStages
    /\ JobsHaveResults
    /\ CompleteIsPublished
-----------------------------------------------------------------------------
(* Lemmas *)

LEMMA ItemHashes ==
    ASSUME NEW i \in Items
    PROVE  /\ SourceOf[i] \in Sources /\ SourceOf[i] \in Objects
           /\ DemoOf[i] \in Demos /\ DemoOf[i] \in Objects
           /\ GroupOf[i] \in Groups
           /\ SourceOf[i] # DemoOf[i]
  BY BackfillAssumption DEF Sources, Demos, Objects

\* A count that equals the number of users is positive when there is one.
LEMMA UsedIsCounted ==
    ASSUME BackfillTypeOK, CountsAreUses, NEW w \in Workers, NEW o \in held[w]
    PROVE  o \in Objects /\ active[o] \in Nat \ {0}
<1>1. o \in Objects /\ active[o] \in Nat
  BY DEF BackfillTypeOK
<1>2. w \in Users(o) /\ Users(o) \subseteq Workers
  BY DEF Users
<1>3. IsFiniteSet(Users(o))
  BY <1>2, BackfillAssumption, FS_Subset
<1>4. Cardinality(Users(o)) # 0
  BY <1>2, <1>3, FS_EmptySet
<1> QED
  BY <1>1, <1>4 DEF CountsAreUses, Users

LEMMA LoopHashes ==
    ASSUME BackfillTypeOK, LoopsHaveItems, NEW w \in Workers,
           pc[w] \notin {"free", "next"}
    PROVE  /\ item[w] \in Items
           /\ Source(w) \in Sources /\ Source(w) \in Objects
           /\ Demo(w) \in Demos /\ Demo(w) \in Objects
           /\ Source(w) # Demo(w)
  BY ItemHashes DEF LoopsHaveItems, Source, Demo

LEMMA GotoType ==
    ASSUME BackfillTypeOK, NEW w \in Workers, NEW to \in LoopPc, Goto(w, to)
    PROVE  pc' \in [Workers -> LoopPc]
  BY DEF BackfillTypeOK, Goto

LEMMA SetJobType ==
    ASSUME BackfillTypeOK, NEW d \in Demos, NEW owned \in BOOLEAN,
           NEW state \in {"absent", "queued", "running", "succeeded", "failed"},
           SetJob(d, state, owned)
    PROVE  job' \in [Demos -> Job]
  BY DEF BackfillTypeOK, SetJob, Job

LEMMA SetRowType ==
    ASSUME BackfillTypeOK, NEW i \in Items, NEW due \in BOOLEAN,
           NEW state \in ItemState, SetRow(i, state, due)
    PROVE  row' \in [Items -> [state : ItemState, due : BOOLEAN]]
  BY DEF BackfillTypeOK, SetRow

-----------------------------------------------------------------------------
(* Type correctness *)

LEMMA TypeInit == Init => BackfillTypeOK
<1> SUFFICES ASSUME Init PROVE BackfillTypeOK
  OBVIOUS
<1>1. selected \in [Groups -> SUBSET Items] /\ grouped \in [Groups -> SUBSET Demos]
  BY DEF Init, NothingSelected
<1>2. job \in [Demos -> Job]
  BY DEF Init, Job
<1>3. row \in [Items -> [state : ItemState, due : BOOLEAN]]
  BY DEF Init, ItemState
<1>4. pc \in [Workers -> LoopPc] /\ store \in [Objects -> File]
  BY DEF Init, LoopPc, File
<1> QED
  BY <1>1, <1>2, <1>3, <1>4 DEF Init, BackfillTypeOK

\* The steps of a loop.
LEMMA TypeLoop ==
    ASSUME IInv, NEW w \in Workers, LoopStep(w) \/ CallFails(w)
    PROVE  BackfillTypeOK'
<1> USE DEF IInv, BackfillTypeOK
<1>1. ASSUME NEW g \in Groups, TakeGroup(w, g) PROVE BackfillTypeOK'
  BY <1>1 DEF TakeGroup, files, hosted, Step, Goto, LoopPc
<1>2. ASSUME NEW i \in Items, NextItem(w, i) PROVE BackfillTypeOK'
  BY <1>2 DEF NextItem, run, files, hosted, Step, Goto, LoopPc, SetRow, ItemState
<1>3. CASE LeaveGroup(w)
  BY <1>3 DEF LeaveGroup, run, files, hosted, Step, Goto, LoopPc
<1>4. CASE Download(w)
  BY <1>4 DEF Download, run, hosted, Step, Goto, LoopPc, File
<1>5. CASE Copied(w)
  BY <1>5 DEF Copied, run, hosted, Step, Goto, LoopPc, File
<1>6. CASE RetainObject(w)
  <2>1. pc[w] \notin {"free", "next"}
    BY <1>6 DEF RetainObject, Step
  <2>2. PICK o \in {Source(w), Demo(w)} : Retain(w, o)
    BY <1>6 DEF RetainObject
  <2>3. o \in Objects
    BY <2>1, LoopHashes
  <2>4. active' \in [Objects -> Nat] /\ held' \in [Workers -> SUBSET Objects]
    BY <2>2, <2>3 DEF Retain
  <2>5. pc' \in [Workers -> LoopPc]
    BY <1>6 DEF RetainObject, Step, Goto, LoopPc
  <2> QED
    BY <1>6, <2>4, <2>5 DEF RetainObject, run, hosted
<1>7. CASE OpenSource(w)
  BY <1>7 DEF OpenSource, run, files, hosted, Step, Goto, LoopPc
<1>8. CASE OpenTemporary(w)
  <2>1. Demo(w) \in Demos
    BY <1>8, LoopHashes DEF OpenTemporary
  <2> QED
    BY <1>8, <2>1 DEF OpenTemporary, run, hosted, Step, Goto, LoopPc
<1>9. CASE RenameTemporary(w)
  BY <1>9 DEF RenameTemporary, run, hosted, Step, Goto, LoopPc, File
<1>10. CASE Parse(w)
  BY <1>10 DEF Parse, run, files, hosted, Step, Goto, LoopPc
<1>11. CASE Upload(w)
  <2>1. Demo(w) \in Demos
    BY <1>11, LoopHashes DEF Upload, Step
  <2> QED
    BY <1>11, <2>1 DEF Upload, run, files, Step, Goto, LoopPc
<1>12. CASE Enqueue(w)
  <2>1. Demo(w) \in Demos
    BY <1>12, LoopHashes DEF Enqueue
  <2>2. job' \in [Demos -> Job]
    BY <1>12, <2>1, SetJobType DEF Enqueue
  <2>3. pc' \in [Workers -> LoopPc]
    BY <1>12, GotoType DEF Enqueue, LoopPc
  <2> QED
    BY <1>12, <2>2, <2>3 DEF Enqueue, run, files
<1>13. CASE Claim(w)
  <2>1. Demo(w) \in Demos
    BY <1>13, LoopHashes DEF Claim
  <2>2. job' \in [Demos -> Job]
    BY <1>13, <2>1, SetJobType DEF Claim
  <2> QED
    BY <1>13, <2>2 DEF Claim, run, files, Goto, LoopPc
<1>14. CASE Record(w)
  <2>1. Demo(w) \in Demos
    BY <1>14, LoopHashes DEF Record, Step
  <2> QED
    BY <1>14, <2>1 DEF Record, run, files, Step, Goto, LoopPc
<1>15. CASE Finish(w)
  <2>1. Demo(w) \in Demos
    BY <1>15, LoopHashes DEF Finish
  <2>2. job' \in [Demos -> Job]
    BY <1>15, <2>1, SetJobType DEF Finish
  <2> QED
    BY <1>15, <2>2 DEF Finish, run, files, Goto, LoopPc
<1>16. CASE Undo(w)
  <2>1. Demo(w) \in Demos
    BY <1>16, LoopHashes DEF Undo, Step
  <2>2. job' \in [Demos -> Job]
    BY <1>16, <2>1, SetJobType DEF Undo
  <2> QED
    BY <1>16, <2>2 DEF Undo, run, files, Step, Goto, LoopPc
<1>17. CASE CompleteItem(w)
  <2>1. item[w] \in Items
    BY <1>17, LoopHashes DEF CompleteItem, Step
  <2>2. row' \in [Items -> [state : ItemState, due : BOOLEAN]]
    BY <1>17, <2>1, SetRowType DEF CompleteItem, ItemState
  <2> QED
    BY <1>17, <2>2 DEF CompleteItem, run, files, hosted, Step, Goto, LoopPc
<1>18. CASE FailItem(w)
  <2>1. item[w] \in Items
    BY <1>18, LoopHashes DEF FailItem, Step
  <2>2. row' \in [Items -> [state : ItemState, due : BOOLEAN]]
    BY <1>18, <2>1, SetRowType DEF FailItem, ItemState
  <2> QED
    BY <1>18, <2>2 DEF FailItem, run, files, hosted, Step, Goto, LoopPc
<1>19. CASE Release(w)
  <2>1. CASE held[w] = {}
    BY <1>19, <2>1 DEF Release, run, hosted, Goto, LoopPc
  <2>2. CASE held[w] # {}
    <3> DEFINE o == IF Demo(w) \in held[w] THEN Demo(w) ELSE Source(w)
    <3>1. o \in held[w]
      BY <1>19, <2>2 DEF Release, HeldInStages, HoldsNothing
    <3>2. o \in Objects /\ active[o] \in Nat \ {0}
      BY <3>1, UsedIsCounted
    <3>3. /\ held' = [held EXCEPT ![w] = @ \ {o}]
          /\ active' = [active EXCEPT ![o] = @ - 1]
          /\ pc' \in [Workers -> LoopPc]
      BY <1>19, <2>2 DEF Release, Goto, LoopPc
    <3> HIDE DEF o
    <3>4. active' \in [Objects -> Nat]
      <4>1. active[o] - 1 \in Nat
        BY <3>2
      <4>2. active \in [Objects -> Nat] /\ active' = [active EXCEPT ![o] = active[o] - 1]
        BY <3>3
      <4> QED
        BY <4>1, <4>2
    <3>5. held' \in [Workers -> SUBSET Objects]
      <4>1. held[w] \ {o} \in SUBSET Objects
        OBVIOUS
      <4> QED
        BY <3>3, <4>1
    <3> QED
      BY <1>19, <3>3, <3>4, <3>5 DEF Release, run, hosted
  <2> QED
    BY <2>1, <2>2
<1>20. CASE Unlink(w)
  BY <1>20 DEF Unlink, run, hosted, Step, Goto, LoopPc, File
<1>21. CASE CallFails(w)
  <2>1. PICK to \in {"fail", "undo"} : Goto(w, to)
    BY <1>21 DEF CallFails, Step
  <2>2. pc' \in [Workers -> LoopPc]
    BY <2>1, GotoType DEF LoopPc
  <2>3. failures' \in Nat
    BY <1>21 DEF CallFails, Fails
  <2> QED
    BY <1>21, <2>2, <2>3 DEF CallFails, run, files, hosted
<1> QED
  BY <1>1, <1>2, <1>3, <1>4, <1>5, <1>6, <1>7, <1>8, <1>9, <1>10, <1>11, <1>12,
     <1>13, <1>14, <1>15, <1>16, <1>17, <1>18, <1>19, <1>20, <1>21 DEF LoopStep

\* The steps of the run, time and the environment.
LEMMA TypeRun ==
    ASSUME IInv, RunStep \/ DiscoveryFails \/ Abort \/ Crash
    PROVE  BackfillTypeOK'
<1> USE DEF IInv, BackfillTypeOK
<1> DEFINE JobUnowned == [d \in Demos |-> [job[d] EXCEPT !.owned = FALSE]]
<1>a. JobUnowned \in [Demos -> Job]
  BY DEF Job
<1>b. NothingSelected \in [Groups -> SUBSET Items]
  BY DEF NothingSelected
<1> HIDE DEF JobUnowned
<1>s. ASSUME Stop
      PROVE  /\ phase' = "stopped" /\ aborted' = FALSE /\ waiting' = {}
             /\ finalising' = {} /\ selected' = NothingSelected
             /\ job' = JobUnowned
  BY <1>s DEF Stop, JobUnowned
<1>1. CASE Start
  BY <1>1 DEF Start, loop, files, hosted
<1>2. CASE Discover
  <2>1. PICK new \in SUBSET Items : \E old \in SUBSET Disturbed(new) :
           row' = Upserted(new) /\ quiet' = (quiet \ Disturbed(new)) \cup old
    BY <1>2 DEF Discover
  <2>2. Disturbed(new) \subseteq Groups
    BY <2>1, ItemHashes DEF Disturbed
  <2>3. row' \in [Items -> [state : ItemState, due : BOOLEAN]]
    BY <2>1 DEF Upserted, ItemState
  <2>4. quiet' \subseteq Groups
    BY <2>1, <2>2
  <2> DEFINE choice == [g \in Groups |-> Eligible(row', quiet', g)]
  <2>5. choice \in [Groups -> SUBSET Items]
    BY DEF Eligible
  <2>6. PICK games \in SUBSET Groups :
           /\ selected' = [g \in Groups |-> IF g \in games THEN choice[g] ELSE {}]
           /\ waiting' = games
    BY <1>2 DEF Discover
  <2> HIDE DEF choice
  <2>7. selected' \in [Groups -> SUBSET Items]
    BY <2>5, <2>6
  <2> QED
    BY <1>2, <2>3, <2>4, <2>6, <2>7 DEF Discover, loop, files, hosted
<1>3. CASE BeginFinalise
  BY <1>3 DEF BeginFinalise, loop, files, hosted
<1>4. CASE EndRun
  BY <1>4, <1>a, <1>b, <1>s DEF EndRun, loop, files
<1>5. ASSUME NEW g \in Groups, FinaliseGroup(g) PROVE BackfillTypeOK'
  <2>1. CompletedJobIds(g) \subseteq Demos
    BY ItemHashes DEF CompletedJobIds, Listed
  <2> QED
    BY <1>5, <2>1 DEF FinaliseGroup, loop, files, hosted
<1>6. CASE DiscoveryFails
  BY <1>6, <1>a, <1>b, <1>s DEF DiscoveryFails, Fails, loop, files
<1>7. CASE Abort
  BY <1>7 DEF Abort, Fails, loop, files, hosted
<1>8. CASE Crash
  <2>1. /\ pc' \in [Workers -> LoopPc] /\ todo' \in [Workers -> SUBSET Items]
        /\ item' \in [Workers -> Items \cup {None}]
        /\ held' \in [Workers -> SUBSET Objects]
        /\ active' \in [Objects -> Nat]
    BY <1>8 DEF Crash, LoopPc
  <2>2. store' \in [Objects -> File] /\ temporary' = {}
    BY <1>8 DEF Crash, File
  <2>3. failures' \in Nat /\ Stop
    BY <1>8 DEF Crash, Fails
  <2> QED
    BY <1>8, <2>1, <2>2, <2>3, <1>a, <1>b, <1>s DEF Crash
<1> QED
  BY <1>1, <1>2, <1>3, <1>4, <1>5, <1>6, <1>7, <1>8 DEF RunStep

LEMMA TypeNext == IInv /\ [Next]_vars => BackfillTypeOK'
<1> SUFFICES ASSUME IInv, [Next]_vars PROVE BackfillTypeOK'
  OBVIOUS
<1> USE DEF IInv, BackfillTypeOK
<1>1. ASSUME NEW w \in Workers, LoopStep(w) \/ CallFails(w) PROVE BackfillTypeOK'
  BY <1>1, TypeLoop
<1>2. CASE RunStep \/ DiscoveryFails \/ Abort \/ Crash
  BY <1>2, TypeRun
<1>3. ASSUME NEW g \in Groups, Settle(g) PROVE BackfillTypeOK'
  BY <1>3 DEF Settle, run, loop, files, hosted
<1>4. ASSUME NEW g \in Groups, FinaliseFails(g) PROVE BackfillTypeOK'
  <2>1. [d \in Demos |-> [job[d] EXCEPT !.owned = FALSE]] \in [Demos -> Job]
    BY DEF Job
  <2>2. job' \in [Demos -> Job]
    BY <1>4, <2>1 DEF FinaliseFails, Stop
  <2>3. selected' \in [Groups -> SUBSET Items]
    BY <1>4 DEF FinaliseFails, Stop, NothingSelected
  <2>4. failures' \in Nat
    BY <1>4 DEF FinaliseFails, Fails
  <2> QED
    BY <1>4, <2>2, <2>3, <2>4 DEF FinaliseFails, Stop, loop, files
<1>5. ASSUME NEW i \in Items, FallDue(i) PROVE BackfillTypeOK'
  <2>1. row' \in [Items -> [state : ItemState, due : BOOLEAN]]
    BY <1>5, SetRowType DEF FallDue
  <2> QED
    BY <1>5, <2>1 DEF FallDue, run, loop, files, hosted
<1>6. ASSUME NEW d \in Demos, LeaseRunsOut(d) PROVE BackfillTypeOK'
  <2>1. job' \in [Demos -> Job]
    BY <1>6 DEF LeaseRunsOut, Job
  <2> QED
    BY <1>6, <2>1 DEF LeaseRunsOut, run, loop, files
<1>7. CASE UNCHANGED vars
  BY <1>7 DEF vars, run, loop, files, hosted
<1> QED
  BY <1>1, <1>2, <1>3, <1>4, <1>5, <1>6, <1>7 DEF Next

-----------------------------------------------------------------------------
(* Items and references *)

\* A step of a loop leaves the other loops alone.
LEMMA OthersStand ==
    ASSUME BackfillTypeOK, NEW w \in Workers, LoopStep(w) \/ CallFails(w),
           NEW u \in Workers, u # w
    PROVE  pc'[u] = pc[u] /\ item'[u] = item[u] /\ held'[u] = held[u]
<1> USE DEF BackfillTypeOK, Goto, Step
<1> DEFINE Same == pc'[u] = pc[u] /\ item'[u] = item[u] /\ held'[u] = held[u]
<1>1. ASSUME NEW g \in Groups, TakeGroup(w, g) PROVE Same
  BY <1>1 DEF TakeGroup
<1>2. ASSUME NEW i \in Items, NextItem(w, i) PROVE Same
  BY <1>2 DEF NextItem
<1>3. CASE LeaveGroup(w)
  BY <1>3 DEF LeaveGroup
<1>4. CASE Download(w)
  BY <1>4 DEF Download
<1>5. CASE Copied(w)
  BY <1>5 DEF Copied
<1>6. CASE RetainObject(w)
  BY <1>6 DEF RetainObject, Retain
<1>7. CASE OpenSource(w)
  BY <1>7 DEF OpenSource
<1>8. CASE OpenTemporary(w)
  BY <1>8 DEF OpenTemporary
<1>9. CASE RenameTemporary(w)
  BY <1>9 DEF RenameTemporary
<1>10. CASE Parse(w)
  BY <1>10 DEF Parse
<1>11. CASE Upload(w)
  BY <1>11 DEF Upload
<1>12. CASE Enqueue(w)
  BY <1>12 DEF Enqueue
<1>13. CASE Claim(w)
  BY <1>13 DEF Claim
<1>14. CASE Record(w)
  BY <1>14 DEF Record
<1>15. CASE Finish(w)
  BY <1>15 DEF Finish
<1>16. CASE Undo(w)
  BY <1>16 DEF Undo
<1>17. CASE CompleteItem(w)
  BY <1>17 DEF CompleteItem
<1>18. CASE FailItem(w)
  BY <1>18 DEF FailItem
<1>19. CASE Release(w)
  BY <1>19 DEF Release
<1>20. CASE Unlink(w)
  BY <1>20 DEF Unlink
<1>21. CASE CallFails(w)
  BY <1>21 DEF CallFails
<1> QED
  BY <1>1, <1>2, <1>3, <1>4, <1>5, <1>6, <1>7, <1>8, <1>9, <1>10, <1>11,
     <1>12, <1>13, <1>14, <1>15, <1>16, <1>17, <1>18, <1>19, <1>20, <1>21 DEF LoopStep

\* What the two stage invariants ask of one loop.
ItemOf(w) == pc[w] \notin {"free", "next"} => item[w] \in Items

HeldBy(w) ==
    /\ pc[w] \in HoldsNothing => held[w] = {}
    /\ pc[w] \in HoldsSource => held[w] \subseteq {Source(w)}
    /\ pc[w] \notin HoldsNothing => held[w] \subseteq {Source(w), Demo(w)}

LEMMA StagesLoop ==
    ASSUME IInv, NEW w \in Workers, LoopStep(w) \/ CallFails(w)
    PROVE  ItemOf(w)' /\ HeldBy(w)'
<1> DEFINE Goal == ItemOf(w)' /\ HeldBy(w)'
<1>0. ItemOf(w) /\ HeldBy(w)
  BY DEF IInv, LoopsHaveItems, HeldInStages, ItemOf, HeldBy
<1> USE <1>0 DEF IInv, BackfillTypeOK, Step, Goto, ItemOf, HeldBy, HoldsNothing,
             HoldsSource, Source, Demo
<1>1. ASSUME NEW g \in Groups, TakeGroup(w, g) PROVE Goal
  BY <1>1 DEF TakeGroup
<1>2. ASSUME NEW i \in Items, NextItem(w, i) PROVE Goal
  BY <1>2 DEF NextItem
<1>3. CASE LeaveGroup(w)
  BY <1>3 DEF LeaveGroup
<1>4. CASE Download(w)
  BY <1>4 DEF Download
<1>5. CASE Copied(w)
  BY <1>5 DEF Copied
<1>6. CASE RetainObject(w)
  <2>1. item' = item /\ item[w] \in Items
    BY <1>6 DEF RetainObject
  <2>2. CASE pc[w] = "retain source"
    <3>1. pc'[w] = "open source"
      BY <1>6, <2>2 DEF RetainObject
    <3>2. Retain(w, Source(w)) /\ held[w] = {}
      BY <1>6, <2>2 DEF RetainObject
    <3>3. held'[w] = {Source(w)}
      BY ONLY <3>2, IInv DEF Retain, IInv, BackfillTypeOK
    <3> QED
      BY <2>1, <3>1, <3>3
  <2>3. CASE pc[w] = "retain demo"
    <3>1. pc'[w] = "parse"
      BY <1>6, <2>3 DEF RetainObject
    <3>2. Retain(w, Demo(w)) /\ held[w] \subseteq {Source(w)}
      BY <1>6, <2>3 DEF RetainObject
    <3>3. held'[w] = held[w] \cup {Demo(w)}
      BY ONLY <3>2, IInv DEF Retain, IInv, BackfillTypeOK
    <3> QED
      BY <2>1, <3>1, <3>2, <3>3
  <2> QED
    BY <1>6, <2>2, <2>3 DEF RetainObject
<1>7. CASE OpenSource(w)
  BY <1>7 DEF OpenSource
<1>8. CASE OpenTemporary(w)
  BY <1>8 DEF OpenTemporary
<1>9. CASE RenameTemporary(w)
  BY <1>9 DEF RenameTemporary
<1>10. CASE Parse(w)
  BY <1>10 DEF Parse
<1>11. CASE Upload(w)
  BY <1>11 DEF Upload
<1>12. CASE Enqueue(w)
  BY <1>12 DEF Enqueue
<1>13. CASE Claim(w)
  BY <1>13 DEF Claim
<1>14. CASE Record(w)
  BY <1>14 DEF Record
<1>15. CASE Finish(w)
  BY <1>15 DEF Finish
<1>16. CASE Undo(w)
  BY <1>16 DEF Undo
<1>17. CASE CompleteItem(w)
  BY <1>17 DEF CompleteItem
<1>18. CASE FailItem(w)
  BY <1>18 DEF FailItem
<1>19. CASE Release(w)
  <2>1. pc[w] = "release" /\ item' = item /\ held[w] \subseteq {Source(w), Demo(w)}
    BY <1>19 DEF Release
  <2>2. CASE held[w] = {}
    BY <1>19, <2>1, <2>2 DEF Release
  <2>3. CASE held[w] # {}
    <3> DEFINE o == IF Demo(w) \in held[w] THEN Demo(w) ELSE Source(w)
    <3>0. /\ held' = [held EXCEPT ![w] = held[w] \ {o}]
          /\ Goto(w, IF active[o] > 1 THEN "release"
                     ELSE IF o = Demo(w) THEN "unlink demo" ELSE "unlink source")
      BY ONLY <1>19, <2>3 DEF Release
    <3> HIDE DEF o
    <3>1. pc'[w] \in {"release", "unlink demo", "unlink source"}
      BY ONLY <3>0, IInv DEF Goto, IInv, BackfillTypeOK
    <3>2. held'[w] \subseteq held[w]
      BY ONLY <3>0, IInv DEF IInv, BackfillTypeOK
    <3> QED
      BY <2>1, <3>1, <3>2
  <2> QED
    BY <2>2, <2>3
<1>20. CASE Unlink(w)
  BY <1>20 DEF Unlink
<1>21. CASE CallFails(w)
  BY <1>21 DEF CallFails
<1> QED
  BY <1>1, <1>2, <1>3, <1>4, <1>5, <1>6, <1>7, <1>8, <1>9, <1>10, <1>11,
     <1>12, <1>13, <1>14, <1>15, <1>16, <1>17, <1>18, <1>19, <1>20, <1>21 DEF LoopStep

LEMMA StagesNext ==
    IInv /\ [Next]_vars => LoopsHaveItems' /\ HeldInStages'
<1> SUFFICES ASSUME IInv, [Next]_vars, NEW u \in Workers
             PROVE  ItemOf(u)' /\ HeldBy(u)'
  BY DEF LoopsHaveItems, HeldInStages, ItemOf, HeldBy
<1>0. ItemOf(u) /\ HeldBy(u)
  BY DEF IInv, LoopsHaveItems, HeldInStages, ItemOf, HeldBy
<1>1. ASSUME pc'[u] = pc[u], item'[u] = item[u], held'[u] = held[u]
      PROVE  ItemOf(u)' /\ HeldBy(u)'
  BY <1>0, <1>1 DEF ItemOf, HeldBy, Source, Demo
<1>2. CASE UNCHANGED loop
  BY <1>1, <1>2 DEF loop
<1>3. ASSUME NEW w \in Workers, LoopStep(w) \/ CallFails(w)
      PROVE  ItemOf(u)' /\ HeldBy(u)'
  BY <1>1, <1>3, StagesLoop, OthersStand DEF IInv
<1>4. CASE Crash
  BY <1>4 DEF Crash, ItemOf, HeldBy, HoldsNothing, HoldsSource
<1> QED
  BY <1>2, <1>3, <1>4
     DEF Next, RunStep, Start, Discover, BeginFinalise, EndRun, FinaliseGroup,
         Settle, FinaliseFails, FallDue, LeaseRunsOut, DiscoveryFails, Abort, vars

\* The reference counts: only retain and release touch counts or holders.
LEMMA CountsNext == IInv /\ [Next]_vars => CountsAreUses'
<1> SUFFICES ASSUME IInv, [Next]_vars, NEW o \in Objects
             PROVE  (active[o] = Cardinality(Users(o)))'
  BY DEF CountsAreUses, Users
<1>0. /\ active[o] = Cardinality(Users(o)) /\ active[o] \in Nat
      /\ IsFiniteSet(Users(o)) /\ Users(o) \subseteq Workers
  <2>1. Users(o) \subseteq Workers
    BY DEF Users
  <2> QED
    BY <2>1, BackfillAssumption, FS_Subset
       DEF IInv, CountsAreUses, Users, BackfillTypeOK
<1>1. CASE UNCHANGED <<active, held>>
  BY <1>0, <1>1 DEF Users
<1>2. ASSUME NEW w \in Workers, NEW p \in Objects, Retain(w, p), p \notin held[w]
      PROVE  (active[o] = Cardinality(Users(o)))'
  <2>1. /\ active' = [active EXCEPT ![p] = active[p] + 1]
        /\ held' = [held EXCEPT ![w] = held[w] \cup {p}]
    BY <1>2 DEF Retain
  <2>2. CASE o = p
    <3>1. Users(o)' = Users(o) \cup {w} /\ w \notin Users(o)
      BY <1>2, <2>1, <2>2 DEF Users, IInv, BackfillTypeOK
    <3>2. Cardinality(Users(o) \cup {w}) = Cardinality(Users(o)) + 1
      BY <1>0, <3>1, FS_AddElement
    <3>3. active'[o] = active[o] + 1
      BY <2>1, <2>2 DEF IInv, BackfillTypeOK
    <3> QED
      BY <1>0, <3>1, <3>2, <3>3
  <2>3. CASE o # p
    BY <1>0, <2>1, <2>3 DEF Users, IInv, BackfillTypeOK
  <2> QED
    BY <2>2, <2>3
<1>3. ASSUME NEW w \in Workers, NEW p \in held[w],
             held' = [held EXCEPT ![w] = held[w] \ {p}],
             active' = [active EXCEPT ![p] = active[p] - 1]
      PROVE  (active[o] = Cardinality(Users(o)))'
  <2>1. CASE o = p
    <3>1. Users(o)' = Users(o) \ {w} /\ w \in Users(o)
      BY <1>3, <2>1 DEF Users, IInv, BackfillTypeOK
    <3>2. Cardinality(Users(o) \ {w}) = Cardinality(Users(o)) - 1
      BY <1>0, <3>1, FS_RemoveElement
    <3>3. active'[o] = active[o] - 1
      BY <1>3, <2>1 DEF IInv, BackfillTypeOK
    <3> QED
      BY <1>0, <3>1, <3>2, <3>3
  <2>2. CASE o # p
    BY <1>0, <1>3, <2>2 DEF Users, IInv, BackfillTypeOK
  <2> QED
    BY <2>1, <2>2
<1>4. ASSUME NEW w \in Workers, RetainObject(w)
      PROVE  (active[o] = Cardinality(Users(o)))'
  <2>1. Source(w) \in Objects /\ Demo(w) \in Objects /\ Source(w) # Demo(w)
    BY <1>4, LoopHashes DEF IInv, RetainObject, Step
  <2>2. CASE pc[w] = "retain source"
    <3>1. held[w] = {}
      BY <2>2 DEF IInv, HeldInStages, HoldsNothing
    <3> QED
      BY <1>2, <1>4, <2>1, <2>2, <3>1 DEF RetainObject, Step
  <2>3. CASE pc[w] = "retain demo"
    <3>1. held[w] \subseteq {Source(w)}
      BY <2>3 DEF IInv, HeldInStages, HoldsSource
    <3> QED
      BY <1>2, <1>4, <2>1, <2>3, <3>1 DEF RetainObject, Step
  <2> QED
    BY <1>4, <2>2, <2>3 DEF RetainObject, Step
<1>5. ASSUME NEW w \in Workers, Release(w)
      PROVE  (active[o] = Cardinality(Users(o)))'
  <2>1. CASE held[w] = {}
    BY <1>1, <1>5, <2>1 DEF Release
  <2>2. CASE held[w] # {}
    <3> DEFINE p == IF Demo(w) \in held[w] THEN Demo(w) ELSE Source(w)
    <3>1. p \in held[w]
      BY <1>5, <2>2 DEF Release, IInv, HeldInStages, HoldsNothing
    <3>2. /\ held' = [held EXCEPT ![w] = held[w] \ {p}]
          /\ active' = [active EXCEPT ![p] = active[p] - 1]
      BY <1>5, <2>2 DEF Release
    <3> HIDE DEF p
    <3> QED
      BY <1>3, <3>1, <3>2
  <2> QED
    BY <2>1, <2>2
<1>6. CASE Crash
  <2>1. Users(o)' = {} /\ active'[o] = 0
    BY <1>6 DEF Crash, Users
  <2> QED
    BY <2>1, FS_EmptySet
<1>7. ASSUME NEW w \in Workers, LoopStep(w) \/ CallFails(w)
      PROVE  (active[o] = Cardinality(Users(o)))'
  <2>1. CASE RetainObject(w) \/ Release(w)
    BY <1>4, <1>5, <2>1
  <2>2. CASE ~(RetainObject(w) \/ Release(w))
    <3>1. UNCHANGED <<active, held>>
      BY <1>7, <2>2
         DEF LoopStep, TakeGroup, NextItem, LeaveGroup, Download, Copied,
             OpenSource, OpenTemporary, RenameTemporary, Parse, Upload, Enqueue,
             Claim, Record, Finish, Undo, CompleteItem, FailItem, Unlink,
             CallFails, files
    <3> QED
      BY <1>1, <3>1
  <2> QED
    BY <2>1, <2>2
<1>8. CASE UNCHANGED <<files, loop>>
  BY <1>1, <1>8 DEF files, loop
<1> QED
  BY <1>6, <1>7, <1>8
     DEF Next, RunStep, Start, Discover, BeginFinalise, EndRun, FinaliseGroup,
         Settle, FinaliseFails, FallDue, LeaseRunsOut, DiscoveryFails, Abort, vars

-----------------------------------------------------------------------------
(* The hosted service *)

LEMMA SetJobState ==
    ASSUME BackfillTypeOK, NEW d \in Demos, NEW state, NEW owned,
           SetJob(d, state, owned), NEW e \in Demos
    PROVE  job'[e].state = IF e = d THEN state ELSE job[e].state
  BY DEF BackfillTypeOK, SetJob

\* A step of a loop that touches a job: which one, and what it makes of it.
LEMMA JobsOfLoop ==
    ASSUME IInv, NEW w \in Workers, LoopStep(w) \/ CallFails(w), NEW d \in Demos
    PROVE  \/ job'[d].state = job[d].state
           \/ /\ d = Demo(w)
              /\ \/ pc[w] = "enqueue" /\ job[d].state # "succeeded"
                 \/ job[d].state \in {"queued", "running"}
<1> DEFINE Goal == \/ job'[d].state = job[d].state
                   \/ /\ d = Demo(w)
                      /\ \/ pc[w] = "enqueue" /\ job[d].state # "succeeded"
                         \/ job[d].state \in {"queued", "running"}
<1>0. BackfillTypeOK /\ LoopsHaveItems
  BY DEF IInv
<1>1. CASE Enqueue(w)
  <2>1. pc[w] = "enqueue" /\ Demo(w) \in Demos
    BY <1>0, <1>1, LoopHashes DEF Enqueue
  <2>2. CASE UNCHANGED job
    BY <2>2
  <2>3. CASE /\ job[Demo(w)].state \in {"absent", "failed"}
             /\ SetJob(Demo(w), "queued", FALSE)
    BY <1>0, <2>1, <2>3, SetJobState
  <2> QED
    BY <1>1, <2>2, <2>3 DEF Enqueue
<1>2. CASE Claim(w)
  <2>1. Demo(w) \in Demos
    BY <1>0, <1>2, LoopHashes DEF Claim
  <2>2. CASE UNCHANGED job
    BY <2>2
  <2>3. CASE Claimable(Demo(w)) /\ SetJob(Demo(w), "running", TRUE)
    BY <1>0, <2>1, <2>3, SetJobState DEF Claimable
  <2> QED
    BY <1>2, <2>2, <2>3 DEF Claim
<1>3. CASE Finish(w)
  <2>1. Demo(w) \in Demos
    BY <1>0, <1>3, LoopHashes DEF Finish
  <2>2. CASE UNCHANGED job
    BY <2>2
  <2>3. CASE Owned(Demo(w)) /\ SetJob(Demo(w), "succeeded", FALSE)
    BY <1>0, <2>1, <2>3, SetJobState DEF Owned
  <2> QED
    BY <1>3, <2>2, <2>3 DEF Finish
<1>4. CASE Undo(w)
  <2>1. Demo(w) \in Demos
    BY <1>0, <1>4, LoopHashes DEF Undo, Step
  <2>2. CASE UNCHANGED job
    BY <2>2
  <2>3. CASE Owned(Demo(w)) /\ SetJob(Demo(w), "failed", FALSE)
    BY <1>0, <2>1, <2>3, SetJobState DEF Owned
  <2> QED
    BY <1>4, <2>2, <2>3 DEF Undo
<1>5. CASE ~(Enqueue(w) \/ Claim(w) \/ Finish(w) \/ Undo(w))
  <2>1. UNCHANGED job
    BY <1>5
       DEF LoopStep, TakeGroup, NextItem, LeaveGroup, Download, Copied,
           RetainObject, OpenSource, OpenTemporary, RenameTemporary, Parse,
           Upload, Record, CompleteItem, FailItem, Release, Unlink, CallFails,
           hosted
  <2> QED
    BY <2>1
<1> QED
  BY <1>1, <1>2, <1>3, <1>4, <1>5

\* The other steps that touch jobs touch their leases.
LEMMA StopJobs ==
    ASSUME BackfillTypeOK, Stop, NEW d \in Demos
    PROVE  job'[d].state = job[d].state
  BY DEF Stop, BackfillTypeOK, Job

LEMMA JobsNext ==
    ASSUME IInv, [Next]_vars, NEW d \in Demos
    PROVE  \/ job'[d].state = job[d].state
           \/ \E w \in Workers :
                 /\ LoopStep(w) \/ CallFails(w)
                 /\ d = Demo(w)
                 /\ \/ pc[w] = "enqueue" /\ job[d].state # "succeeded"
                    \/ job[d].state \in {"queued", "running"}
<1>1. ASSUME NEW w \in Workers, LoopStep(w) \/ CallFails(w)
      PROVE  \/ job'[d].state = job[d].state
             \/ /\ d = Demo(w)
                /\ \/ pc[w] = "enqueue" /\ job[d].state # "succeeded"
                   \/ job[d].state \in {"queued", "running"}
  BY <1>1, JobsOfLoop
<1>2. CASE Stop
  BY <1>2, StopJobs DEF IInv
<1>3. ASSUME NEW e \in Demos, LeaseRunsOut(e)
      PROVE  job'[d].state = job[d].state
  BY <1>3 DEF LeaseRunsOut, IInv, BackfillTypeOK, Job
<1>4. CASE UNCHANGED job
  BY <1>4
<1> QED
  BY <1>1, <1>2, <1>3, <1>4
     DEF Next, RunStep, Start, Discover, BeginFinalise, EndRun, FinaliseGroup,
         Settle, FinaliseFails, FallDue, DiscoveryFails, Abort, Crash, vars,
         hosted

\* What was published stays published.
LEMMA HostedGrows ==
    ASSUME IInv, [Next]_vars
    PROVE  /\ derived \subseteq derived'
           /\ analysed \subseteq analysed'
           /\ \A d \in Demos : job[d].state = "succeeded" => job'[d].state = "succeeded"
<1>1. \A d \in Demos : job[d].state = "succeeded" => job'[d].state = "succeeded"
  BY JobsNext
<1>2. ASSUME NEW w \in Workers, LoopStep(w) \/ CallFails(w)
      PROVE  derived \subseteq derived' /\ analysed \subseteq analysed'
  BY <1>2
     DEF LoopStep, TakeGroup, NextItem, LeaveGroup, Download, Copied,
         RetainObject, OpenSource, OpenTemporary, RenameTemporary, Parse, Upload,
         Enqueue, Claim, Record, Finish, Undo, CompleteItem, FailItem, Release,
         Unlink, CallFails, hosted
<1>3. CASE ~ \E w \in Workers : LoopStep(w) \/ CallFails(w)
  <2>1. derived' = derived /\ analysed' = analysed
    BY <1>3
       DEF Next, RunStep, Start, Discover, BeginFinalise, EndRun, FinaliseGroup,
           Settle, FinaliseFails, FallDue, LeaseRunsOut, DiscoveryFails, Abort,
           Crash, vars, hosted
  <2> QED
    BY <1>1, <2>1
<1> QED
  <2>1. derived \subseteq derived' /\ analysed \subseteq analysed'
    BY <1>2, <1>3
  <2> QED
    BY <1>1, <2>1

\* Results, then jobs and analyses.
LEMMA ResultsNext == IInv /\ [Next]_vars => JobsHaveResults'
<1> SUFFICES ASSUME IInv, [Next]_vars, NEW d \in Demos,
                    job'[d].state # "absent" \/ d \in analysed'
             PROVE  d \in derived'
  BY DEF JobsHaveResults
<1>1. derived \subseteq derived'
  BY HostedGrows
<1>2. CASE job[d].state # "absent" \/ d \in analysed
  BY <1>1, <1>2 DEF IInv, JobsHaveResults
<1>3. CASE job[d].state = "absent" /\ d \notin analysed
  <2>1. CASE job'[d].state # "absent"
    <3>1. PICK w \in Workers : d = Demo(w) /\ pc[w] = "enqueue"
      BY <1>3, <2>1, JobsNext
    <3> QED
      BY <1>1, <3>1 DEF IInv, PublishedInStages
  <2>2. CASE d \in analysed'
    <3>1. PICK w \in Workers : Record(w)
      BY <1>3, <2>2
         DEF Next, LoopStep, RunStep, Start, Discover, BeginFinalise, EndRun,
             FinaliseGroup, Settle, FinaliseFails, FallDue, LeaseRunsOut,
             DiscoveryFails, Abort, Crash, vars, hosted, TakeGroup, NextItem,
             LeaveGroup, Download, Copied, RetainObject, OpenSource,
             OpenTemporary, RenameTemporary, Parse, Upload, Enqueue, Claim,
             Finish, Undo, CompleteItem, FailItem, Release, Unlink, CallFails
    <3>2. d = Demo(w) /\ pc[w] = "record"
      BY <1>3, <2>2, <3>1 DEF Record, Step
    <3> QED
      BY <1>1, <3>2 DEF IInv, PublishedInStages
  <2> QED
    BY <2>1, <2>2
<1> QED
  BY <1>2, <1>3

\* What PublishedInStages asks of one loop.
PublishedBy(w) ==
    /\ pc[w] \in {"enqueue", "claim", "record", "finish"} => Demo(w) \in derived
    /\ pc[w] \in {"finish", "complete"} => Demo(w) \in analysed
    /\ pc[w] = "complete" => job[Demo(w)].state = "succeeded"

LEMMA PublishedLoop ==
    ASSUME IInv, NEW w \in Workers, LoopStep(w) \/ CallFails(w), [Next]_vars
    PROVE  PublishedBy(w)'
<1> DEFINE Goal == PublishedBy(w)'
<1>0. PublishedBy(w) /\ BackfillTypeOK /\ LoopsHaveItems
  BY DEF IInv, PublishedInStages, PublishedBy
<1>p. pc \in [Workers -> LoopPc]
  BY <1>0 DEF BackfillTypeOK
<1>1. CASE Upload(w)
  BY <1>1, <1>p DEF Upload, Step, Goto, PublishedBy, Demo
<1>2. CASE Enqueue(w)
  <2>1. item' = item /\ derived' = derived /\ analysed' = analysed
    BY <1>2 DEF Enqueue
  <2>2. Demo(w) \in derived
    BY <1>0, <1>2 DEF Enqueue, PublishedBy
  <2>3. CASE job[Demo(w)].state # "succeeded"
    <3>1. pc'[w] = "claim"
      BY <1>2, <1>p, <2>3 DEF Enqueue, Goto
    <3> QED
      BY <2>1, <2>2, <3>1 DEF PublishedBy, Demo
  <2>4. CASE job[Demo(w)].state = "succeeded" /\ Demo(w) \in analysed
    <3>1. pc'[w] = "complete" /\ job' = job
      BY <1>2, <1>p, <2>4 DEF Enqueue, Goto
    <3> QED
      BY <2>1, <2>4, <3>1 DEF PublishedBy, Demo
  <2>5. CASE job[Demo(w)].state = "succeeded" /\ Demo(w) \notin analysed
    <3>1. pc'[w] = "fail"
      BY <1>2, <1>p, <2>5 DEF Enqueue, Goto
    <3> QED
      BY <3>1 DEF PublishedBy
  <2> QED
    BY <2>3, <2>4, <2>5
<1>3. CASE Claim(w)
  <2>1. item' = item /\ derived' = derived /\ pc'[w] \in {"record", "fail"}
    BY <1>3, <1>p DEF Claim, Goto
  <2> QED
    BY <1>0, <1>3, <2>1 DEF Claim, PublishedBy, Demo
<1>4. CASE Record(w)
  BY <1>0, <1>4, <1>p DEF Record, Step, Goto, PublishedBy, Demo
<1>5. CASE Finish(w)
  <2>1. /\ item' = item /\ derived' = derived /\ analysed' = analysed
        /\ Demo(w) \in analysed /\ Demo(w) \in Demos
    BY <1>0, <1>5, LoopHashes DEF Finish, PublishedBy
  <2>2. CASE Owned(Demo(w))
    <3>1. pc'[w] = "complete" /\ SetJob(Demo(w), "succeeded", FALSE)
      BY <1>5, <1>p, <2>2 DEF Finish, Goto
    <3>2. job'[Demo(w)].state = "succeeded"
      BY <1>0, <2>1, <3>1, SetJobState
    <3> QED
      BY <2>1, <3>1, <3>2 DEF PublishedBy, Demo
  <2>3. CASE ~Owned(Demo(w))
    <3>1. pc'[w] = "undo"
      BY <1>5, <1>p, <2>3 DEF Finish, Goto
    <3> QED
      BY <3>1 DEF PublishedBy
  <2> QED
    BY <2>2, <2>3
<1>6. CASE ~(Upload(w) \/ Enqueue(w) \/ Claim(w) \/ Record(w) \/ Finish(w))
  <2>1. pc'[w] \notin {"enqueue", "claim", "record", "finish", "complete"}
    BY <1>6, <1>p
       DEF LoopStep, TakeGroup, NextItem, LeaveGroup, Download, Copied,
           RetainObject, OpenSource, OpenTemporary, RenameTemporary, Parse, Undo,
           CompleteItem, FailItem, Release, Unlink, CallFails, Step, Goto
  <2> QED
    BY <2>1 DEF PublishedBy
<1> QED
  BY <1>1, <1>2, <1>3, <1>4, <1>5, <1>6

LEMMA PublishedNext == IInv /\ [Next]_vars => PublishedInStages'
<1> SUFFICES ASSUME IInv, [Next]_vars, NEW u \in Workers
             PROVE  PublishedBy(u)'
  BY DEF PublishedInStages, PublishedBy
<1>0. PublishedBy(u) /\ BackfillTypeOK /\ LoopsHaveItems
  BY DEF IInv, PublishedInStages, PublishedBy
<1>1. ASSUME pc'[u] = pc[u], item'[u] = item[u]
      PROVE  PublishedBy(u)'
  <2>1. Demo(u)' = Demo(u)
    BY <1>1 DEF Demo
  <2>2. pc[u] = "complete" => Demo(u) \in Demos
    BY <1>0, LoopHashes
  <2> QED
    BY <1>0, <1>1, <2>1, <2>2, HostedGrows DEF PublishedBy
<1>2. CASE UNCHANGED loop
  BY <1>1, <1>2 DEF loop
<1>3. ASSUME NEW w \in Workers, LoopStep(w) \/ CallFails(w)
      PROVE  PublishedBy(u)'
  BY <1>0, <1>1, <1>3, PublishedLoop, OthersStand
<1>4. CASE Crash
  BY <1>4 DEF Crash, PublishedBy
<1> QED
  BY <1>2, <1>3, <1>4
     DEF Next, RunStep, Start, Discover, BeginFinalise, EndRun, FinaliseGroup,
         Settle, FinaliseFails, FallDue, LeaseRunsOut, DiscoveryFails, Abort, vars

-----------------------------------------------------------------------------
(* The checkpoint *)

\* Only a loop at the end of publish marks an item complete.
LEMMA CompletedBy ==
    ASSUME IInv, [Next]_vars, NEW i \in Items, row'[i].state = "complete",
           row[i].state # "complete"
    PROVE  \E w \in Workers : CompleteItem(w) /\ item[w] = i
<1>0. row \in [Items -> [state : ItemState, due : BOOLEAN]]
  BY DEF IInv, BackfillTypeOK
<1>1. ASSUME NEW w \in Workers, CompleteItem(w)
      PROVE  item[w] = i
  <2>1. SetRow(item[w], "complete", TRUE)
    BY <1>1 DEF CompleteItem
  <2> QED
    BY <1>0, <2>1 DEF SetRow
<1>2. ASSUME NEW w \in Workers, LoopStep(w) \/ CallFails(w), ~CompleteItem(w)
      PROVE  FALSE
  <2>1. \/ row' = row
        \/ \E k \in Items : SetRow(k, "processing", TRUE)
        \/ SetRow(item[w], "retryable", FALSE)
        \/ SetRow(item[w], "permanent", TRUE)
    BY <1>2
       DEF LoopStep, TakeGroup, NextItem, LeaveGroup, Download, Copied,
           RetainObject, OpenSource, OpenTemporary, RenameTemporary, Parse, Upload,
           Enqueue, Claim, Record, Finish, Undo, FailItem, Release, Unlink,
           CallFails
  <2> QED
    BY <1>0, <2>1 DEF SetRow
<1>3. ASSUME Discover PROVE FALSE
  <2>1. PICK new \in SUBSET Items : row' = Upserted(new)
    BY <1>3 DEF Discover
  <2> QED
    BY <2>1 DEF Upserted
<1>4. ASSUME NEW k \in Items, FallDue(k) PROVE FALSE
  BY <1>0, <1>4 DEF FallDue, SetRow
<1>5. row' # row
  OBVIOUS
<1> QED
  BY <1>1, <1>2, <1>3, <1>4, <1>5
     DEF Next, RunStep, Start, BeginFinalise, EndRun, FinaliseGroup, Settle,
         FinaliseFails, LeaseRunsOut, DiscoveryFails, Abort, Crash, vars

LEMMA CompleteNext == IInv /\ [Next]_vars => CompleteIsPublished'
<1> SUFFICES ASSUME IInv, [Next]_vars, NEW i \in Items,
                    row'[i].state = "complete"
             PROVE  job'[DemoOf[i]].state = "succeeded" /\ DemoOf[i] \in analysed'
  BY DEF CompleteIsPublished, Complete
<1>1. job[DemoOf[i]].state = "succeeded" /\ DemoOf[i] \in analysed
  <2>1. CASE row[i].state = "complete"
    BY <2>1 DEF IInv, CompleteIsPublished, Complete
  <2>2. CASE row[i].state # "complete"
    <3>1. PICK w \in Workers : CompleteItem(w) /\ item[w] = i
      BY <2>2, CompletedBy
    <3> QED
      BY <3>1 DEF IInv, PublishedInStages, CompleteItem, Step, Demo
  <2> QED
    BY <2>1, <2>2
<1> QED
  BY <1>1, HostedGrows, ItemHashes

-----------------------------------------------------------------------------
(* The theorems *)

LEMMA InvariantInit == Init => IInv
<1> SUFFICES ASSUME Init PROVE IInv
  OBVIOUS
<1>1. BackfillTypeOK
  BY TypeInit
<1>2. LoopsHaveItems /\ HeldInStages /\ PublishedInStages
  BY DEF Init, LoopsHaveItems, HeldInStages, HoldsNothing, HoldsSource,
         PublishedInStages
<1>3. CountsAreUses
  <2> SUFFICES ASSUME NEW o \in Objects
               PROVE  active[o] = Cardinality({w \in Workers : o \in held[w]})
    BY DEF CountsAreUses
  <2>1. {w \in Workers : o \in held[w]} = {} /\ active[o] = 0
    BY DEF Init
  <2> QED
    BY <2>1, FS_EmptySet
<1>4. JobsHaveResults
  BY DEF Init, JobsHaveResults
<1>5. CompleteIsPublished
  BY DEF Init, CompleteIsPublished, Complete
<1> QED
  BY <1>1, <1>2, <1>3, <1>4, <1>5 DEF IInv

LEMMA InvariantNext == IInv /\ [Next]_vars => IInv'
  BY TypeNext, StagesNext, CountsNext, PublishedNext, ResultsNext, CompleteNext
     DEF IInv

LEMMA Invariant == Spec => []IInv
  BY InvariantInit, InvariantNext, PTL DEF Spec

\* Every variable has its type, for any catalogue and any concurrency.
THEOREM BackfillTypeCorrect == Spec => []BackfillTypeOK
  BY Invariant, PTL DEF IInv

\* activeObjects counts the loops that hold an object: with it, release never
\* takes a count below zero and unlinks with the last holder only.
THEOREM ReferencesCounted == Spec => []CountsAreUses
  BY Invariant, PTL DEF IInv

\* No job and no recorded analysis without its confirmed result, whatever is
\* killed, fails or is tried again.
THEOREM ResultsFirst == Spec => []JobsHaveResults
  BY Invariant, PTL DEF IInv

\* The checkpoint says complete only of what the hosted service has published.
THEOREM CheckpointIsTrue == Spec => []CompleteIsPublished
  BY Invariant, PTL DEF IInv

\* Finalisation forms no hosted game from a part of what the catalogue lists,
\* and none with a job that did not succeed.
THEOREM NoPartialGame == Spec => GamesAreWhole
<1> DEFINE Whole == \A g \in Groups : grouped'[g] # grouped[g] =>
                        \A i \in Listed(g) : /\ DemoOf[i] \in grouped'[g]
                                             /\ job[DemoOf[i]].state = "succeeded"
<1>1. IInv /\ [Next]_vars => [Whole]_vars
  <2> SUFFICES ASSUME IInv, Next, NEW g \in Groups, grouped'[g] # grouped[g],
                      NEW i \in Listed(g)
               PROVE  DemoOf[i] \in grouped'[g] /\ job[DemoOf[i]].state = "succeeded"
    OBVIOUS
  <2>1. PICK h \in Groups : FinaliseGroup(h)
    BY DEF Next, LoopStep, RunStep, Start, Discover, BeginFinalise, EndRun, Settle,
           FinaliseFails, FallDue, LeaseRunsOut, DiscoveryFails, Abort, Crash,
           TakeGroup, NextItem, LeaveGroup, Download, Copied, RetainObject,
           OpenSource, OpenTemporary, RenameTemporary, Parse, Upload, Enqueue,
           Claim, Record, Finish, Undo, CompleteItem, FailItem, Release, Unlink,
           CallFails
  <2>2. /\ grouped' = [grouped EXCEPT ![h] = grouped[h] \cup CompletedJobIds(h)]
        /\ grouped \in [Groups -> SUBSET Demos]
    BY <2>1 DEF FinaliseGroup, IInv, BackfillTypeOK
  <2>3. h = g /\ grouped'[g] = grouped[g] \cup CompletedJobIds(g)
    BY <2>2
  <2>4. CompletedJobIds(g) # {}
    BY <2>3
  <2>5. /\ \A k \in Listed(g) : Complete(k)
        /\ CompletedJobIds(g) = {DemoOf[k] : k \in Listed(g)}
    BY <2>4 DEF CompletedJobIds
  <2>6. DemoOf[i] \in CompletedJobIds(g) /\ Complete(i) /\ i \in Items
    BY <2>5 DEF Listed
  <2> QED
    BY <2>3, <2>6 DEF IInv, CompleteIsPublished
<1> QED
  BY <1>1, Invariant, PTL DEF Spec, GamesAreWhole

-----------------------------------------------------------------------------
(* How runs end *)

\* Outside of the work phase no loop is at work, and only finalisation has games
\* left to look at.
PhasesInOrder ==
    /\ phase # "work" => AllFree
    /\ finalising # {} => phase = "finalise"

\* Finalisation has formed each game it is done with.
GamesFormed ==
    phase = "finalise" =>
        \A g \in Groups \ finalising :
            selected[g] # {} /\ (\A i \in Listed(g) : Complete(i)) =>
                \A i \in Listed(g) : DemoOf[i] \in grouped[g]

\* A file in the store is one that a loop holds, is about to retain, or is about
\* to unlink.
Minds(w, o) ==
    \/ o \in held[w]
    \/ pc[w] \in {"copy", "retain source", "unlink source"} /\ o = Source(w)
    \/ pc[w] \in {"retain demo", "unlink demo"} /\ o = Demo(w)

FilesAreMinded ==
    \A o \in Objects : store[o] # "absent" => \E w \in Workers : Minds(w, o)

\* The steps of the loops happen in the work phase.
LEMMA LoopsWork ==
    ASSUME PhasesInOrder, NEW w \in Workers, LoopStep(w) \/ CallFails(w)
    PROVE  phase = "work" /\ phase' = "work" /\ finalising' = finalising
<1>1. pc[w] # "free" \/ \E g \in Groups : TakeGroup(w, g)
  BY DEF LoopStep, NextItem, LeaveGroup, Download, Copied, RetainObject, OpenSource,
         OpenTemporary, RenameTemporary, Parse, Upload, Enqueue, Claim, Record, Finish,
         Undo, CompleteItem, FailItem, Release, Unlink, CallFails, Step
<1>2. phase = "work"
  BY <1>1 DEF PhasesInOrder, AllFree, TakeGroup
<1>3. UNCHANGED <<phase, finalising>>
  BY DEF LoopStep, TakeGroup, NextItem, LeaveGroup, Download, Copied, RetainObject,
         OpenSource, OpenTemporary, RenameTemporary, Parse, Upload, Enqueue, Claim,
         Record, Finish, Undo, CompleteItem, FailItem, Release, Unlink, CallFails, run
<1> QED BY <1>2, <1>3

LEMMA PhasesNext == PhasesInOrder /\ [Next]_vars => PhasesInOrder'
<1> SUFFICES ASSUME PhasesInOrder, [Next]_vars PROVE PhasesInOrder'
  OBVIOUS
<1>1. ASSUME NEW w \in Workers, LoopStep(w) \/ CallFails(w) PROVE PhasesInOrder'
  BY <1>1, LoopsWork DEF PhasesInOrder
<1>2. CASE Start \/ Discover \/ DiscoveryFails \/ Abort
  BY <1>2 DEF Start, Discover, DiscoveryFails, Stop, Abort, PhasesInOrder, AllFree, loop
<1>3. CASE BeginFinalise \/ EndRun
  BY <1>3 DEF BeginFinalise, EndRun, Stop, PhasesInOrder, AllFree, loop
<1>4. ASSUME NEW g \in Groups, Settle(g) \/ FinaliseGroup(g) \/ FinaliseFails(g)
      PROVE  PhasesInOrder'
  BY <1>4 DEF Settle, FinaliseGroup, FinaliseFails, Stop, PhasesInOrder, AllFree, loop, run
<1>5. CASE Crash
  BY <1>5 DEF Crash, Stop, PhasesInOrder, AllFree
<1>6. ASSUME UNCHANGED <<phase, waiting, finalising, pc>> PROVE PhasesInOrder'
  BY <1>6 DEF PhasesInOrder, AllFree
<1> QED
  BY <1>1, <1>2, <1>3, <1>4, <1>5, <1>6
     DEF Next, RunStep, FallDue, LeaseRunsOut, vars, run, loop

LEMMA GamesNext ==
    IInv /\ PhasesInOrder /\ GamesFormed /\ [Next]_vars => GamesFormed'
<1> SUFFICES ASSUME IInv, PhasesInOrder, GamesFormed, [Next]_vars, phase' = "finalise",
                    NEW g \in Groups, g \notin finalising', selected'[g] # {},
                    (\A i \in Listed(g) : Complete(i))',
                    NEW i \in Items, (i \in Listed(g))'
             PROVE  DemoOf[i] \in grouped'[g]
  BY DEF GamesFormed, Listed
<1>0. /\ row \in [Items -> [state : ItemState, due : BOOLEAN]]
      /\ grouped \in [Groups -> SUBSET Demos]
  BY DEF IInv, BackfillTypeOK
<1>1. ASSUME \A k \in Items : row'[k].state = row[k].state, selected' = selected,
             phase = "finalise"
      PROVE  /\ selected[g] # {} /\ i \in Listed(g)
             /\ \A k \in Listed(g) : Complete(k)
  BY <1>1 DEF Listed, Complete
<1>2. ASSUME NEW h \in Groups, FinaliseGroup(h) PROVE DemoOf[i] \in grouped'[g]
  <2>1. /\ selected[g] # {} /\ i \in Listed(g) /\ phase = "finalise"
        /\ \A k \in Listed(g) : Complete(k)
    BY <1>1, <1>2 DEF FinaliseGroup
  <2>2. grouped' = [grouped EXCEPT ![h] = @ \cup CompletedJobIds(h)]
    BY <1>2 DEF FinaliseGroup
  <2>3. CASE g = h
    BY <1>0, <2>1, <2>2, <2>3 DEF CompletedJobIds
  <2>4. CASE g # h
    <3>1. DemoOf[i] \in grouped[g]
      BY <1>2, <2>1, <2>4 DEF FinaliseGroup, GamesFormed
    <3> QED BY <1>0, <2>2, <2>4, <3>1
  <2> QED BY <2>3, <2>4
<1>3. ASSUME NEW w \in Workers, LoopStep(w) \/ CallFails(w) PROVE FALSE
  BY <1>3, LoopsWork
<1>4. CASE BeginFinalise
  BY <1>4 DEF BeginFinalise
<1>5. ASSUME \A k \in Items : row'[k].state = row[k].state,
             UNCHANGED <<selected, grouped, phase, finalising>>
      PROVE  DemoOf[i] \in grouped'[g]
  BY <1>1, <1>5 DEF GamesFormed
<1>6. ASSUME NEW k \in Items, FallDue(k) PROVE DemoOf[i] \in grouped'[g]
  <2>1. \A j \in Items : row'[j].state = row[j].state
    BY <1>0, <1>6 DEF FallDue, SetRow
  <2> QED BY <1>5, <1>6, <2>1 DEF FallDue, run
<1>7. CASE Abort
  BY <1>5, <1>7 DEF Abort
<1>8. CASE UNCHANGED <<row, run, grouped>>
  BY <1>5, <1>8 DEF run
<1>9. CASE Stop
  BY <1>9 DEF Stop
<1> QED
  BY <1>2, <1>3, <1>4, <1>6, <1>7, <1>8, <1>9
     DEF Next, RunStep, Start, Discover, EndRun, Settle, FinaliseFails, LeaseRunsOut,
         DiscoveryFails, Crash, vars


\* What a loop does not do any more, another one that minds the object goes on doing.
LEMMA OthersMind ==
    ASSUME IInv, NEW w \in Workers, LoopStep(w) \/ CallFails(w), NEW o \in Objects,
           NEW u \in Workers, u # w, Minds(u, o)
    PROVE  Minds(u, o)'
  BY OthersStand DEF IInv, Minds, Source, Demo

\* A file that appears is that of the loop that made it.
LEMMA NewFilesAreMinded ==
    ASSUME IInv, NEW w \in Workers, LoopStep(w) \/ CallFails(w), NEW o \in Objects,
           store[o] = "absent", store'[o] # "absent"
    PROVE  Minds(w, o)'
<1>0. /\ store \in [Objects -> File] /\ pc \in [Workers -> LoopPc]
      /\ "absent" \notin Workers
  BY BackfillAssumption DEF IInv, BackfillTypeOK
<1>1. CASE Download(w)
  BY <1>0, <1>1 DEF Download, Goto, Minds, Source
<1>2. CASE RenameTemporary(w)
  BY <1>0, <1>2 DEF RenameTemporary, Step, Goto, Minds, Demo
<1>3. CASE Copied(w)
  BY <1>0, <1>3 DEF Copied
<1>4. CASE Unlink(w)
  BY <1>0, <1>4 DEF Unlink
<1>5. CASE UNCHANGED store
  BY <1>5
<1> QED
  BY <1>1, <1>2, <1>3, <1>4, <1>5
     DEF LoopStep, TakeGroup, NextItem, LeaveGroup, RetainObject, OpenSource,
         OpenTemporary, Parse, Upload, Enqueue, Claim, Record, Finish, Undo,
         CompleteItem, FailItem, Release, CallFails, files

\* Two uses of an object are those of two loops.
LEMMA AnotherHolds ==
    ASSUME IInv, NEW w \in Workers, NEW o \in Objects, active[o] > 1
    PROVE  \E u \in Workers : u # w /\ o \in held[u]
<1> SUFFICES ASSUME \A u \in Workers : o \in held[u] => u = w PROVE FALSE
  OBVIOUS
<1>1. active[o] = Cardinality(Users(o)) /\ active[o] \in Nat
  BY DEF IInv, CountsAreUses, Users, BackfillTypeOK
<1>2. Users(o) = {} \/ Users(o) = {w}
  BY DEF Users
<1>3. Cardinality(Users(o)) \in {0, 1}
  BY <1>2, FS_EmptySet, FS_Singleton
<1> QED BY <1>1, <1>3

\* The last reference leads to the unlink.
LEMMA ReleasedFilesAreMinded ==
    ASSUME IInv, NEW w \in Workers, Release(w), NEW o \in Objects, Minds(w, o)
    PROVE  \E u \in Workers : Minds(u, o)'
<1>0. /\ pc \in [Workers -> LoopPc] /\ held \in [Workers -> SUBSET Objects]
      /\ active \in [Objects -> Nat] /\ pc[w] = "release"
  BY DEF IInv, BackfillTypeOK, Release
<1>1. o \in held[w] /\ held[w] \subseteq {Source(w), Demo(w)}
  BY <1>0 DEF Minds, IInv, HeldInStages, HoldsNothing
<1> DEFINE gone == IF Demo(w) \in held[w] THEN Demo(w) ELSE Source(w)
<1>2. /\ held' = [held EXCEPT ![w] = @ \ {gone}]
      /\ pc' = [pc EXCEPT ![w] = IF active[gone] > 1 THEN "release"
                                ELSE IF gone = Demo(w) THEN "unlink demo"
                                                       ELSE "unlink source"]
      /\ item' = item
  BY <1>1 DEF Release, Goto
<1>3. gone \in {Source(w), Demo(w)} /\ gone \in Objects
  BY <1>0, <1>1
<1> HIDE DEF gone
<1>4. CASE o # gone
  BY <1>0, <1>1, <1>2, <1>4 DEF Minds
<1>5. CASE o = gone /\ active[o] > 1
  <2>1. PICK u \in Workers : u # w /\ o \in held[u]
    BY <1>5, AnotherHolds
  <2> QED BY <1>0, <1>2, <2>1 DEF Minds
<1>6. CASE o = gone /\ ~(active[o] > 1)
  <2>1. pc'[w] = IF gone = Demo(w) THEN "unlink demo" ELSE "unlink source"
    BY <1>0, <1>2, <1>6
  <2>2. Source(w)' = Source(w) /\ Demo(w)' = Demo(w)
    BY <1>2 DEF Source, Demo
  <2> QED BY <1>3, <1>6, <2>1, <2>2 DEF Minds
<1> QED BY <1>4, <1>5, <1>6

\* A step of a loop that minds an object keeps it in mind, unless it unlinks it.
LEMMA OwnFilesAreMinded ==
    ASSUME IInv, NEW w \in Workers, LoopStep(w) \/ CallFails(w), NEW o \in Objects,
           Minds(w, o), store'[o] # "absent"
    PROVE  \E u \in Workers : Minds(u, o)'
<1>0. /\ store \in [Objects -> File] /\ pc \in [Workers -> LoopPc]
      /\ held \in [Workers -> SUBSET Objects]
  BY DEF IInv, BackfillTypeOK
<1>1. CASE Copied(w)
  BY <1>0, <1>1 DEF Copied, Step, Goto, Minds, Source
<1>2. CASE RetainObject(w)
  BY <1>0, <1>2 DEF RetainObject, Retain, Step, Goto, Minds
<1>3. CASE Release(w)
  BY <1>3, ReleasedFilesAreMinded
<1>4. CASE Unlink(w)
  <2>1. o \in held[w]
    BY <1>0, <1>4 DEF Unlink, Step, Minds
  <2>2. held' = held
    BY <1>4 DEF Unlink
  <2> QED BY <2>1, <2>2 DEF Minds
<1>5. CASE held' = held /\ pc[w] \notin {"copy", "retain source", "unlink source",
                                         "retain demo", "unlink demo"}
  BY <1>5 DEF Minds
<1> QED
  BY <1>1, <1>2, <1>3, <1>4, <1>5
     DEF LoopStep, TakeGroup, NextItem, LeaveGroup, Download, OpenSource,
         OpenTemporary, RenameTemporary, Parse, Upload, Enqueue, Claim, Record,
         Finish, Undo, CompleteItem, FailItem, CallFails, Step

LEMMA FilesNext ==
    ASSUME "crash" \notin Faults
    PROVE  IInv /\ FilesAreMinded /\ [Next]_vars => FilesAreMinded'
<1> SUFFICES ASSUME IInv, FilesAreMinded, [Next]_vars, NEW o \in Objects,
                    store'[o] # "absent"
             PROVE  \E u \in Workers : Minds(u, o)'
  BY DEF FilesAreMinded
<1>1. ASSUME NEW w \in Workers, LoopStep(w) \/ CallFails(w)
      PROVE  \E u \in Workers : Minds(u, o)'
  <2>1. CASE store[o] = "absent"
    BY <1>1, <2>1, NewFilesAreMinded
  <2>2. CASE store[o] # "absent"
    <3>1. PICK u \in Workers : Minds(u, o)
      BY <2>2 DEF FilesAreMinded
    <3> QED BY <1>1, <3>1, OthersMind, OwnFilesAreMinded
  <2> QED BY <2>1, <2>2
<1>2. ~Crash
  BY DEF Crash
<1>3. ASSUME UNCHANGED <<store, held, pc, item>> PROVE \E u \in Workers : Minds(u, o)'
  BY <1>3 DEF FilesAreMinded, Minds, Source, Demo
<1> QED
  BY <1>1, <1>2, <1>3
     DEF Next, RunStep, Start, Discover, BeginFinalise, EndRun, FinaliseGroup, Settle,
         FinaliseFails, FallDue, LeaseRunsOut, DiscoveryFails, Abort, vars, loop, files

\* The games part of RunsEndClean.
GamesAreFormed ==
    phase = "finalise" /\ finalising = {} =>
        \A g \in Groups : selected[g] # {} /\ (\A i \in Listed(g) : Complete(i)) =>
            \A i \in Listed(g) : DemoOf[i] \in grouped[g]

LEMMA GamesInvariant == Spec => [](PhasesInOrder /\ GamesFormed)
<1>1. Init => PhasesInOrder /\ GamesFormed
  BY DEF Init, PhasesInOrder, AllFree, GamesFormed
<1> QED BY <1>1, PhasesNext, GamesNext, Invariant, PTL DEF Spec

\* A run that ends by itself has made one hosted game of each of its games that
\* is complete, with every listed member, those of earlier runs too: also when
\* earlier runs were killed (finaliseCompletedGroups of apps/backfill).
THEOREM RunsFormGames == Spec => []GamesAreFormed
<1>1. GamesFormed => GamesAreFormed
  BY DEF GamesFormed, GamesAreFormed
<1> QED BY <1>1, GamesInvariant, PTL

\* Where no process is killed, a run also leaves no bytes in the store: whichever
\* of its calls fail, and however its loops share, miss and overwrite each
\* other's files (a killed one does leave what it was copying or had retained).
THEOREM RunsLeaveNothing ==
    ASSUME "crash" \notin Faults
    PROVE  Spec => []RunsEndClean
<1>1. Init => FilesAreMinded
  BY DEF Init, FilesAreMinded
<1>2. IInv /\ FilesAreMinded /\ [Next]_vars => FilesAreMinded'
  BY FilesNext
<1>3. IInv /\ PhasesInOrder /\ GamesFormed /\ FilesAreMinded => RunsEndClean
  <2> SUFFICES ASSUME IInv, PhasesInOrder, GamesFormed, FilesAreMinded, phase = "finalise"
               PROVE  /\ \A o \in Objects : store[o] = "absent"
                      /\ GamesAreFormed
    BY DEF RunsEndClean, GamesAreFormed
  <2>1. \A w \in Workers : pc[w] = "free" /\ held[w] = {}
    BY DEF PhasesInOrder, AllFree, IInv, HeldInStages, HoldsNothing
  <2>2. \A w \in Workers, o \in Objects : ~Minds(w, o)
    BY <2>1 DEF Minds
  <2> QED BY <2>2 DEF FilesAreMinded, GamesFormed, GamesAreFormed
<1> QED BY <1>1, <1>2, <1>3, Invariant, GamesInvariant, PTL DEF Spec


=============================================================================
