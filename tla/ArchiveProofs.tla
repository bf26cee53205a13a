----------------------------- MODULE ArchiveProofs -----------------------------
(***************************************************************************)
(* What the local workbench keeps is consistent through analyses and       *)
(* purges, whatever ends a purge, for any number of jobs, demos and files. *)
(***************************************************************************)
EXTENDS LocalArchive, FiniteSetTheorems, WellFoundedInduction, TLAPS

\* Files that a row names.
Needed == Objects(analysed) \cup Sources({j \in Jobs : Exists(j)})

\* Until a purge deletes rows, what it staged is all that may be missing, and it
\* stages only what the rows it will leave do not name; afterwards nothing is
\* missing, and until it ends a rollback has yet to put back what is.
FilesInv ==
    /\ step = "staging" => plan = Plan(Old) /\ staged \cup todo \subseteq plan.files
    /\ step = "restoring" => todo \subseteq staged
    /\ ~disturbed =>
          Needed \subseteq files \cup (CASE step = "staging" -> staged
                                         [] step = "restoring" -> todo
                                         [] OTHER -> {})

\* The members of a game are identified when the demo it was made of is.
GamesInv ==
    /\ GamesAreGraded
    /\ \A g \in games : \A j \in MembersOf(g) :
          Identified(Session(j)) <=> Identified(SessionOf[origin[g]])

IInv == ArchiveTypeOK /\ FilesInv /\ CasesAreBacked /\ GamesInv

-----------------------------------------------------------------------------
(* The least of a set of numbers, and who joins a game *)

\* A non-empty set of natural numbers has a least element, which Min chooses.
LEMMA MinIn == ASSUME NEW S \in SUBSET Nat, S # {} PROVE Min(S) \in S
<1> DEFINE R == OpToRel(<, Nat)
<1>1. \A y, x \in Nat : y < x => <<y, x>> \in R
  BY DEF OpToRel
<1>2. PICK x \in S : \A y \in S : ~ (<<y, x>> \in R)
  BY NatLessThanWellFounded, WFMin
<1> HIDE DEF R
<1>3. ASSUME NEW y \in S PROVE x <= y
  <2>1. y \in Nat /\ x \in Nat
    OBVIOUS
  <2>2. ~ (<<y, x>> \in R)
    BY <1>2
  <2>3. ~(y < x)
    BY <1>1, <2>1, <2>2
  <2> QED BY <2>1, <2>3
<1> QED BY <1>3 DEF Min

\* The games an analysis joins.
Found(j) == {g \in Possible(Session(j)) : Accepts(g, j)}

\* The game it ends in.
Joined(j) == IF Found(j) = {} THEN Min(Ids \ drawn) ELSE Min(Found(j))

\* The game of every job then.
Members(j) == [k \in Jobs |-> IF k = j \/ game[k] \in Found(j) THEN Joined(j) ELSE game[k]]

LEMMA Assigned ==
  ASSUME NEW j \in Jobs, AssignGame(j)
  PROVE  /\ Found(j) = {} => Ids # drawn
         /\ game' = Members(j)
         /\ games' = (games \ Found(j)) \cup {Joined(j)}
         /\ drawn' = drawn \cup {Joined(j)}
         /\ origin' = IF Found(j) = {} THEN [origin EXCEPT ![Joined(j)] = DemoOf[j]] ELSE origin
         /\ confidence' = [confidence EXCEPT ![Joined(j)] =
                GradeOf(Session(j), Cardinality({k \in Jobs : Members(j)[k] = Joined(j)}))]
BY DEF AssignGame, Found, Joined, Members

\* An analysis joins the oldest game it found, or one of an id never drawn.
LEMMA JoinedIsOpen ==
  ASSUME ArchiveTypeOK, NEW j \in Jobs, AssignGame(j)
  PROVE  /\ Found(j) \subseteq games
         /\ Joined(j) \in Ids
         /\ IF Found(j) = {} THEN Joined(j) \notin drawn ELSE Joined(j) \in Found(j)
<1>1. Found(j) \subseteq games
  BY DEF Found, Possible
<1>2. CASE Found(j) = {}
  <2>1. Ids \ drawn # {} /\ Ids \ drawn \in SUBSET Nat
    BY <1>2, Assigned, ArchiveAssumption DEF ArchiveTypeOK
  <2> QED BY <1>1, <1>2, <2>1, MinIn DEF Joined
<1>3. CASE Found(j) # {}
  <2>1. Found(j) \in SUBSET Nat
    BY <1>1, ArchiveAssumption DEF ArchiveTypeOK
  <2> QED BY <1>1, <1>3, <2>1, MinIn DEF Joined, ArchiveTypeOK
<1> QED BY <1>2, <1>3

-----------------------------------------------------------------------------
(* Types *)

LEMMA InitIsTyped == Init => ArchiveTypeOK
<1> SUFFICES ASSUME Init PROVE ArchiveTypeOK
  OBVIOUS
<1>1. NoPlan \in Plans
  BY DEF NoPlan, Plans
<1>2. /\ job \in [Jobs -> State] /\ game \in [Jobs -> games \cup {None}]
      /\ origin \in [Ids -> Demos \cup {None}] /\ confidence \in [Ids -> Confidence]
      /\ demosIn \in [Cases -> SUBSET Demos] /\ plan \in Plans /\ purges \in Nat
  BY <1>1 DEF Init, State, Confidence
<1> QED BY <1>2 DEF Init, ArchiveTypeOK

LEMMA GradeIsConfidence ==
  ASSUME NEW s, NEW n PROVE GradeOf(s, n) \in Confidence
BY DEF GradeOf, Confidence

LEMMA PlanIsTyped ==
  ASSUME ArchiveTypeOK, NEW S \in SUBSET Jobs
  PROVE  Plan(S) \in Plans /\ Plan(S).files \subseteq Files
<1>1. Objects(S \cap analysed) \subseteq Files /\ Sources(S) \subseteq Files
  BY ArchiveAssumption DEF Objects, Sources, Files, ArchiveTypeOK
<1>2. Removable(S) \subseteq Files
  BY <1>1 DEF Removable
<1> QED BY <1>2 DEF Plan, Plans

LEMMA AssignmentIsTyped ==
  ASSUME ArchiveTypeOK, NEW j \in Jobs, AssignGame(j)
  PROVE  /\ games' \subseteq drawn' /\ drawn' \subseteq Ids
         /\ game' \in [Jobs -> games' \cup {None}]
         /\ origin' \in [Ids -> Demos \cup {None}]
         /\ confidence' \in [Ids -> Confidence]
<1>1. games' \subseteq drawn' /\ drawn' \subseteq Ids
  BY Assigned, JoinedIsOpen DEF ArchiveTypeOK
<1>2. game' \in [Jobs -> games' \cup {None}]
  BY Assigned, JoinedIsOpen DEF ArchiveTypeOK, Members
<1>3. origin' \in [Ids -> Demos \cup {None}]
  <2>1. DemoOf[j] \in Demos
    BY ArchiveAssumption
  <2>2. [origin EXCEPT ![Joined(j)] = DemoOf[j]] \in [Ids -> Demos \cup {None}]
    BY <2>1 DEF ArchiveTypeOK
  <2> QED BY <2>2, Assigned DEF ArchiveTypeOK
<1>4. confidence' \in [Ids -> Confidence]
  <2> DEFINE grade == GradeOf(Session(j), Cardinality({k \in Jobs : Members(j)[k] = Joined(j)}))
  <2>1. grade \in Confidence
    BY GradeIsConfidence
  <2>2. confidence' = [confidence EXCEPT ![Joined(j)] = grade]
    BY Assigned
  <2> HIDE DEF grade
  <2> QED BY <2>1, <2>2 DEF ArchiveTypeOK
<1> QED BY <1>1, <1>2, <1>3, <1>4

LEMMA JobsAreTyped ==
  ASSUME ArchiveTypeOK, NEW j \in Jobs,
         Submit(j) \/ Retry(j) \/ EndEarly(j) \/ Persist(j) \/ PersistFails(j)
  PROVE  ArchiveTypeOK'
<1>1. UploadOf[j] \in Uploads \cup {None} /\ DemoOf[j] \in Demos /\ ResultOf[j] \in Results
  BY ArchiveAssumption
<1>2. CASE Submit(j)
  BY <1>1, <1>2 DEF Submit, ArchiveTypeOK, State, Files, purge
<1>3. CASE Retry(j)
  BY <1>3 DEF Retry, ArchiveTypeOK, State, purge
<1>4. CASE EndEarly(j)
  BY <1>1, <1>4 DEF EndEarly, ArchiveTypeOK, State, Files, purge
<1>5. CASE Persist(j)
  <2>1. job' \in [Jobs -> State] /\ analysed' \subseteq Jobs /\ files' \subseteq Files
    BY <1>1, <1>5 DEF Persist, ArchiveTypeOK, State, Files
  <2>2. demosIn' \in [Cases -> SUBSET Demos]
    BY <1>1, <1>5 DEF Persist, ArchiveTypeOK
  <2>3. AssignGame(j)
    BY <1>5 DEF Persist
  <2> QED BY <1>5, <2>1, <2>2, <2>3, AssignmentIsTyped DEF Persist, ArchiveTypeOK, purge
<1>6. CASE PersistFails(j)
  BY <1>1, <1>6 DEF PersistFails, ArchiveTypeOK, State, Files, purge
<1> QED BY <1>2, <1>3, <1>4, <1>5, <1>6

LEMMA PurgeIsTyped ==
  ASSUME ArchiveTypeOK,
         \/ \E f \in Files : StageFile(f) \/ RestoreFile(f) \/ RestoreFails(f) \/ Unlink(f)
         \/ StartPurge \/ AbortPurge \/ DeleteRows \/ EndPurge \/ KillPurge
  PROVE  ArchiveTypeOK'
<1>1. ASSUME NEW f \in Files, StageFile(f) PROVE ArchiveTypeOK'
  BY <1>1 DEF StageFile, ArchiveTypeOK, rows
<1>2. ASSUME NEW f \in Files, RestoreFile(f) PROVE ArchiveTypeOK'
  BY <1>2 DEF RestoreFile, ArchiveTypeOK, rows
<1>3. ASSUME NEW f \in Files, RestoreFails(f) PROVE ArchiveTypeOK'
  BY <1>3 DEF RestoreFails, ArchiveTypeOK, rows
<1>4. ASSUME NEW f \in Files, Unlink(f) PROVE ArchiveTypeOK'
  BY <1>4 DEF Unlink, ArchiveTypeOK, rows
<1>5. CASE StartPurge
  <2>1. PICK old \in SUBSET Jobs : expired' = old /\ plan' = Plan(old) /\ todo' = Plan(old).files
    BY <1>5 DEF StartPurge
  <2> QED BY <1>5, <2>1, PlanIsTyped DEF StartPurge, ArchiveTypeOK, rows
<1>6. CASE AbortPurge
  BY <1>6 DEF AbortPurge, ArchiveTypeOK, rows
<1>7. CASE DeleteRows
  <2> DEFINE kept == [j \in Jobs |-> IF j \in Old THEN None ELSE game[j]]
  <2>1. job' \in [Jobs -> State] /\ analysed' \subseteq Jobs
    BY <1>7 DEF DeleteRows, ArchiveTypeOK, State
  <2>2. /\ game' = kept
        /\ games' = {g \in games : \E j \in Jobs : kept[j] = g}
        /\ confidence' = Regrade(kept)
    BY <1>7 DEF DeleteRows
  <2>3. game' \in [Jobs -> games' \cup {None}] /\ games' \subseteq drawn
    BY <2>2 DEF ArchiveTypeOK
  <2>4. confidence' \in [Ids -> Confidence]
    BY <2>2, GradeIsConfidence DEF Regrade, ArchiveTypeOK
  <2>5. demosIn' \in [Cases -> SUBSET Demos]
    BY <1>7 DEF DeleteRows, ArchiveTypeOK
  <2>6. step' \in {"unlinking", "idle"} /\ todo' \subseteq Files
    BY <1>7 DEF DeleteRows, ArchiveTypeOK
  <2> QED BY <1>7, <2>1, <2>3, <2>4, <2>5, <2>6 DEF DeleteRows, ArchiveTypeOK
<1>8. CASE EndPurge
  BY <1>8 DEF EndPurge, ArchiveTypeOK, NoPlan, Plans, rows
<1>9. CASE KillPurge
  BY <1>9 DEF KillPurge, ArchiveTypeOK, NoPlan, Plans, rows
<1> QED BY <1>1, <1>2, <1>3, <1>4, <1>5, <1>6, <1>7, <1>8, <1>9

LEMMA StepIsTyped == ArchiveTypeOK /\ [ArchiveNext]_vars => ArchiveTypeOK'
<1> SUFFICES ASSUME ArchiveTypeOK, [ArchiveNext]_vars PROVE ArchiveTypeOK'
  OBVIOUS
<1>1. CASE UNCHANGED vars
  BY <1>1 DEF vars, rows, purge, ArchiveTypeOK
<1> QED BY <1>1, JobsAreTyped, PurgeIsTyped DEF ArchiveNext

-----------------------------------------------------------------------------
(* Files *)

\* Rows that stay do not need the files a purge may remove.
LEMMA RemovableIsSpare ==
  ASSUME ArchiveTypeOK, NEW old \in SUBSET Jobs, old \subseteq {j \in Jobs : Exists(j)}
  PROVE  Removable(old) \cap
            (Objects(analysed \ old) \cup Sources({j \in Jobs \ old : Exists(j)})) = {}
<1>1. \A S \in SUBSET Jobs : Objects(S) \subseteq Demos \cup Results /\ Sources(S) \subseteq Uploads
  BY ArchiveAssumption DEF Objects, Sources
<1>2. Objects(old \cap analysed) \subseteq Demos \cup Results /\ Sources(old) \subseteq Uploads
      /\ Objects(analysed \ old) \subseteq Demos \cup Results
      /\ Sources({j \in Jobs \ old : Exists(j)}) \subseteq Uploads
  <2>1. old \cap analysed \in SUBSET Jobs /\ analysed \ old \in SUBSET Jobs
        /\ {j \in Jobs \ old : Exists(j)} \in SUBSET Jobs
    BY DEF ArchiveTypeOK
  <2> QED BY <1>1, <2>1
<1>3. Uploads \cap (Demos \cup Results) = {}
  BY ArchiveAssumption
<1> QED BY <1>2, <1>3 DEF Removable

\* The jobs a purge ends have rows.
LEMMA OldIsSelected ==
  ASSUME Old \subseteq Jobs
  PROVE  Old \subseteq {j \in Jobs : Exists(j)}
BY DEF Old, Exists, Terminal

LEMMA JobsKeepFiles ==
  ASSUME ArchiveTypeOK, FilesInv, NEW j \in Jobs,
         Submit(j) \/ Retry(j) \/ EndEarly(j) \/ Persist(j) \/ PersistFails(j)
  PROVE  FilesInv'
<1>1. step = "idle" /\ step' = "idle" /\ disturbed' = disturbed
  BY DEF Submit, Retry, EndEarly, Persist, PersistFails, Running, purge
<1>2. files \subseteq files'
  BY DEF Submit, Retry, EndEarly, Persist, PersistFails
<1>3. {i \in Jobs : Exists(i)'} \subseteq {i \in Jobs : Exists(i)} \cup {j}
      /\ (Exists(j)' => Exists(j) \/ Submit(j))
  BY DEF Submit, Retry, EndEarly, Persist, PersistFails, Exists, ArchiveTypeOK
<1>4. analysed' = analysed \/ (Persist(j) /\ analysed' = analysed \cup {j})
  BY DEF Submit, Retry, EndEarly, Persist, PersistFails
<1>5. ~disturbed => Objects(analysed)' \subseteq files'
  <2> SUFFICES ASSUME ~disturbed PROVE Objects(analysed)' \subseteq files'
    OBVIOUS
  <2>1. Objects(analysed) \subseteq files
    BY <1>1 DEF FilesInv, Needed
  <2>2. CASE analysed' = analysed
    BY <1>2, <2>1, <2>2 DEF Objects
  <2>3. CASE Persist(j) /\ analysed' = analysed \cup {j}
    BY <1>2, <2>1, <2>3 DEF Objects, Persist
  <2> QED BY <1>4, <2>2, <2>3
<1>6. ~disturbed => Sources({i \in Jobs : Exists(i)})' \subseteq files'
  <2> SUFFICES ASSUME ~disturbed PROVE Sources({i \in Jobs : Exists(i)})' \subseteq files'
    OBVIOUS
  <2>1. Sources({i \in Jobs : Exists(i)}) \subseteq files
    BY <1>1 DEF FilesInv, Needed
  <2>2. Submit(j) => {UploadOf[j]} \ {None} \subseteq files'
    BY DEF Submit
  <2>3. Sources({i \in Jobs : Exists(i)})' \subseteq
          Sources({i \in Jobs : Exists(i)}) \cup (IF Submit(j) THEN {UploadOf[j]} \ {None} ELSE {})
    BY <1>3 DEF Sources
  <2> QED BY <1>2, <2>1, <2>2, <2>3
<1> QED BY <1>1, <1>5, <1>6 DEF FilesInv, Needed

LEMMA PurgeKeepsFiles ==
  ASSUME ArchiveTypeOK, FilesInv,
         \/ \E f \in Files : StageFile(f) \/ RestoreFile(f) \/ RestoreFails(f) \/ Unlink(f)
         \/ StartPurge \/ AbortPurge \/ EndPurge \/ KillPurge
  PROVE  FilesInv'
<1>1. UNCHANGED rows
  BY DEF StageFile, RestoreFile, RestoreFails, Unlink, StartPurge, AbortPurge, EndPurge, KillPurge
<1>2. Needed' = Needed
  BY <1>1 DEF rows, Needed, Objects, Sources, Exists
<1>3. Old' = IF expired' = expired THEN Old ELSE {j \in expired' : job[j] \in Terminal}
  BY <1>1 DEF rows, Old
<1>4. \A S : Plan(S)' = Plan(S)
  BY <1>1 DEF rows, Plan, CaseGoes, Removable, Objects, Sources, Exists
<1>5. ASSUME NEW f \in Files, StageFile(f) PROVE FilesInv'
  <2>1. step = "staging" /\ step' = "staging" /\ disturbed' = disturbed
        /\ plan' = plan /\ expired' = expired
    BY <1>5 DEF StageFile
  <2>2. plan' = Plan(Old)'
    BY <1>1, <2>1 DEF FilesInv, rows, Old, Plan, CaseGoes, Removable, Objects, Sources, Exists
  <2>3. staged' \cup todo' \subseteq plan' .files
    BY <1>5, <2>1 DEF StageFile, First, FilesInv
  <2>4. files \cup staged \subseteq files' \cup staged'
    BY <1>5 DEF StageFile
  <2> QED BY <1>2, <2>1, <2>2, <2>3, <2>4 DEF FilesInv
<1>6. ASSUME NEW f \in Files, RestoreFile(f) PROVE FilesInv'
  <2>1. step = "restoring" /\ step' = "restoring" /\ disturbed' = disturbed /\ staged' = staged
        /\ todo' = todo \ {f} /\ files' = files \cup {f}
    BY <1>6 DEF RestoreFile
  <2> QED BY <1>2, <2>1 DEF FilesInv
<1>7. ASSUME NEW f \in Files, RestoreFails(f) PROVE FilesInv'
  <2>1. step' = "restoring" /\ disturbed' = TRUE /\ staged' = staged /\ todo' \subseteq todo
        /\ step = "restoring"
    BY <1>7 DEF RestoreFails
  <2> QED BY <2>1 DEF FilesInv
<1>8. ASSUME NEW f \in Files, Unlink(f) PROVE FilesInv'
  <2>1. step = "unlinking" /\ step' = "unlinking" /\ disturbed' = disturbed /\ files' = files
    BY <1>8 DEF Unlink
  <2> QED BY <1>2, <2>1 DEF FilesInv
<1>9. CASE StartPurge
  <2>1. PICK old \in SUBSET {j \in Jobs : job[j] \in Terminal} :
           expired' = old /\ plan' = Plan(old) /\ todo' = Plan(old).files
    BY <1>9 DEF StartPurge
  <2>2. step = "idle" /\ step' = "staging" /\ staged' = {} /\ files' = files /\ disturbed' = disturbed
    BY <1>9 DEF StartPurge, Running
  <2>3. Old' = old
    BY <1>1, <2>1 DEF rows, Old
  <2>4. plan' = Plan(Old)'
    BY <1>1, <2>1, <2>3 DEF rows, Plan, CaseGoes, Removable, Objects, Sources, Exists
  <2> QED BY <1>2, <2>1, <2>2, <2>4 DEF FilesInv
<1>10. CASE AbortPurge
  <2>1. step = "staging" /\ step' = "restoring" /\ todo' = staged /\ staged' = staged
        /\ files' = files /\ disturbed' = disturbed
    BY <1>10 DEF AbortPurge
  <2> QED BY <1>2, <2>1 DEF FilesInv
<1>11. CASE EndPurge
  <2>1. /\ (step = "restoring" /\ todo = {}) \/ step = "unlinking"
        /\ step' = "idle" /\ files' = files /\ disturbed' = disturbed
    BY <1>11 DEF EndPurge
  <2> QED BY <1>2, <2>1 DEF FilesInv
<1>12. CASE KillPurge
  <2>1. /\ step \in {"staging", "restoring", "unlinking"}
        /\ step' = "idle" /\ files' = files
        /\ disturbed' = (disturbed \/ (step # "unlinking" /\ staged # {}))
    BY <1>12 DEF KillPurge
  <2> QED BY <1>2, <2>1 DEF FilesInv, ArchiveTypeOK
<1> QED BY <1>5, <1>6, <1>7, <1>8, <1>9, <1>10, <1>11, <1>12

\* The rows that stay find their files although the staged ones are gone.
LEMMA DeletionKeepsFiles ==
  ASSUME ArchiveTypeOK, FilesInv, DeleteRows
  PROVE  FilesInv'
<1>1. plan = Plan(Old) /\ staged \subseteq Removable(Old)
  BY DEF DeleteRows, FilesInv, Plan
<1>2. step' = "unlinking" /\ files' = files /\ disturbed' = disturbed /\ step = "staging"
  BY <1>1 DEF DeleteRows
<1>3. Old \subseteq Jobs /\ Old \subseteq {j \in Jobs : Exists(j)}
  BY OldIsSelected DEF Old, ArchiveTypeOK
<1>4. /\ analysed' = analysed \ Old
      /\ {j \in Jobs : Exists(j)'} = {j \in Jobs \ Old : Exists(j)}
  BY <1>3 DEF DeleteRows, Exists
<1>5. Needed' = Objects(analysed \ Old) \cup Sources({j \in Jobs \ Old : Exists(j)})
  BY <1>4 DEF Needed, Objects, Sources
<1>6. Needed' \subseteq Needed
  BY <1>5 DEF Needed, Objects, Sources
<1>7. Needed' \cap Removable(Old) = {}
  BY <1>3, <1>5, RemovableIsSpare
<1>8. ~disturbed => Needed \subseteq files \cup staged
  BY <1>2 DEF FilesInv
<1> QED BY <1>1, <1>2, <1>6, <1>7, <1>8 DEF FilesInv

-----------------------------------------------------------------------------
(* Cases *)

LEMMA CasesStayBacked ==
  ASSUME ArchiveTypeOK, CasesAreBacked, [ArchiveNext]_vars
  PROVE  CasesAreBacked'
<1>1. ASSUME UNCHANGED <<analysed, demosIn>> PROVE CasesAreBacked'
  BY <1>1 DEF CasesAreBacked
<1>2. ASSUME NEW j \in Jobs, Persist(j) PROVE CasesAreBacked'
  <2> SUFFICES ASSUME NEW c \in Cases
               PROVE  /\ demosIn'[c] \subseteq {DemoOf[i] : i \in analysed'}
                      /\ c \notin Stable => Cardinality(demosIn'[c]) <= 1
    BY DEF CasesAreBacked
  <2>1. analysed' = analysed \cup {j}
        /\ demosIn'[c] = IF c \in CasesOf[DemoOf[j]] THEN demosIn[c] \cup {DemoOf[j]} ELSE demosIn[c]
    BY <1>2 DEF Persist
  <2>2. demosIn[c] \subseteq {DemoOf[i] : i \in analysed}
        /\ (c \notin Stable => Cardinality(demosIn[c]) <= 1)
    BY DEF CasesAreBacked
  <2>3. CASE c \in CasesOf[DemoOf[j]] /\ c \notin Stable
    <3>1. demosIn'[c] = {DemoOf[j]}
      BY <1>2, <2>1, <2>3 DEF Persist, Collides
    <3> QED BY <2>1, <3>1, FS_Singleton
  <2> QED BY <2>1, <2>2, <2>3
<1>3. CASE DeleteRows
  <2> SUFFICES ASSUME NEW c \in Cases
               PROVE  /\ demosIn'[c] \subseteq {DemoOf[i] : i \in analysed'}
                      /\ c \notin Stable => Cardinality(demosIn'[c]) <= 1
    BY DEF CasesAreBacked
  <2>1. analysed' = analysed \ Old /\ demosIn'[c] = IF CaseGoes(c, Old) THEN {} ELSE demosIn[c]
    BY <1>3 DEF DeleteRows
  <2>2. demosIn[c] \subseteq {DemoOf[i] : i \in analysed}
        /\ (c \notin Stable => Cardinality(demosIn[c]) <= 1)
    BY DEF CasesAreBacked
  <2>3. CASE CaseGoes(c, Old)
    BY <2>1, <2>3, FS_EmptySet
  <2>4. CASE ~CaseGoes(c, Old)
    BY <2>1, <2>2, <2>4 DEF CaseGoes
  <2> QED BY <2>3, <2>4
<1> QED
  BY <1>1, <1>2, <1>3
     DEF ArchiveNext, vars, rows, Submit, Retry, EndEarly, PersistFails, StageFile, RestoreFile,
         RestoreFails, Unlink, StartPurge, AbortPurge, EndPurge, KillPurge

-----------------------------------------------------------------------------
(* Games *)

\* A game that takes an analysis without a provider's word was made of an
\* identified demo of the same server and campaign.
LEMMA FoundAgrees ==
  ASSUME ArchiveTypeOK, GamesInv, NEW j \in Jobs, NEW g \in Found(j)
  PROVE  /\ g \in games /\ Identified(Session(j))
         /\ Session(j).server = SessionOf[origin[g]].server
         /\ Session(j).campaign = SessionOf[origin[g]].campaign
         /\ Identified(SessionOf[origin[g]])
<1> DEFINE s == Session(j)
           o == SessionOf[origin[g]]
<1>1. g \in games /\ Identified(s) /\ o.server = s.server /\ o.campaign = s.campaign
  BY DEF Found, Possible
<1>2. Accepts(g, j)
  BY DEF Found
<1>3. \A k \in MembersOf(g) : Identified(Session(k)) <=> Identified(o)
  BY <1>1 DEF GamesInv
<1>4. CASE \E k \in MembersOf(g) : DemoOf[k] = DemoOf[j]
  BY <1>1, <1>3, <1>4 DEF Session
<1>5. CASE o.roster = s.roster
  BY <1>1, <1>5 DEF Identified
<1>6. CASE StrongOverlap(s.players, PlayersIn(g))
  <2>1. PlayersIn(g) # {}
    <3> SUFFICES ASSUME PlayersIn(g) = {} PROVE FALSE
      OBVIOUS
    <3>1. Cardinality(s.players \cap PlayersIn(g)) = 0
      <4>1. s.players \cap PlayersIn(g) = {}
        OBVIOUS
      <4> QED BY <4>1, FS_EmptySet
    <3>2. Cardinality(s.players \cap PlayersIn(g)) >= MinShared
      BY <1>6 DEF StrongOverlap
    <3> QED BY <3>1, <3>2, ArchiveAssumption
  <2>2. PICK k \in MembersOf(g) : Session(k).players # {}
    BY <2>1 DEF PlayersIn
  <2>3. Session(k).roster # None
    BY <2>2, ArchiveAssumption DEF Session, MembersOf
  <2>4. Session(k).server = o.server
    BY <1>1 DEF GamesInv, GamesAreGraded
  <2> QED BY <1>1, <1>3, <2>3, <2>4 DEF Identified
<1> QED BY <1>1, <1>2, <1>4, <1>5, <1>6 DEF Accepts

\* The members of the games after an analysis was assigned.
LEMMA MembersAfter ==
  ASSUME ArchiveTypeOK, GamesInv, NEW j \in Jobs, j \notin analysed, AssignGame(j),
         NEW J, J = Joined(j)
  PROVE  /\ MembersOf(J)' = {j} \cup {k \in Jobs : game[k] \in Found(j)}
         /\ \A g \in games \ Found(j) : MembersOf(g)' = MembersOf(g)
<1>1. game[j] \notin games
  BY DEF GamesInv, GamesAreGraded, MembersOf
<1>2. Found(j) \subseteq games /\ games \subseteq drawn
      /\ IF Found(j) = {} THEN J \notin drawn ELSE J \in Found(j)
  BY JoinedIsOpen DEF ArchiveTypeOK
<1>3. game' = Members(j) /\ game \in [Jobs -> games \cup {None}]
  BY Assigned DEF ArchiveTypeOK
<1>4. J # None
  BY JoinedIsOpen, ArchiveAssumption
<1>5. MembersOf(J)' = {k \in Jobs : Members(j)[k] = J}
  BY <1>3 DEF MembersOf
<1>6. \A k \in Jobs : Members(j)[k] = J <=> (k = j \/ game[k] \in Found(j))
  BY <1>2, <1>3, <1>4 DEF Members
<1>7. ASSUME NEW g \in games \ Found(j) PROVE MembersOf(g)' = MembersOf(g)
  <2>1. g # J
    BY <1>2
  <2>2. \A k \in Jobs : Members(j)[k] = g <=> game[k] = g
    BY <1>1, <2>1 DEF Members
  <2> QED BY <1>3, <2>2 DEF MembersOf
<1> QED BY <1>5, <1>6, <1>7

LEMMA AssignmentKeepsGames ==
  ASSUME ArchiveTypeOK, GamesInv, NEW j \in Jobs, j \notin analysed,
         analysed' = analysed \cup {j}, AssignGame(j)
  PROVE  GamesInv'
<1> DEFINE Graded(g) ==
        /\ MembersOf(g) # {} /\ MembersOf(g) \subseteq analysed
        /\ \A k \in MembersOf(g) :
              /\ Session(k).server = SessionOf[origin[g]].server
              /\ Session(k).campaign = SessionOf[origin[g]].campaign
              /\ Identified(Session(k)) <=> Identified(SessionOf[origin[g]])
        /\ confidence[g] = GradeOf(SessionOf[origin[g]], Cardinality(MembersOf(g)))
<1>1. \A g \in games : Graded(g)
  BY DEF GamesInv, GamesAreGraded
<1>2. games' = (games \ Found(j)) \cup {Joined(j)}
  BY Assigned
<1>7. \A g \in games \ Found(j) : g # Joined(j) /\ g \in Ids
  BY JoinedIsOpen DEF ArchiveTypeOK
<1>3. \A k \in Jobs : DemoOf[k] \in Demos
  BY ArchiveAssumption
<1>4. ASSUME NEW g \in games \ Found(j) PROVE Graded(g)'
  <2>1. origin'[g] = origin[g] /\ confidence'[g] = confidence[g]
    BY <1>7, Assigned DEF ArchiveTypeOK
  <2>2. MembersOf(g)' = MembersOf(g)
    BY MembersAfter
  <2>3. Graded(g)
    BY <1>1
  <2>4. \A k : Session(k)' = Session(k)
    BY DEF Session
  <2> QED BY <2>1, <2>2, <2>3 DEF Session
<1>5. ASSUME NEW J, J = Joined(j) PROVE Graded(J)'
  <2> DEFINE o == SessionOf[origin'[J]]
  <2>1. J \in Ids
    BY <1>5, JoinedIsOpen
  <2>2. MembersOf(J)' = {j} \cup {k \in Jobs : game[k] \in Found(j)}
    BY <1>5, MembersAfter
  <2>3. /\ o.server = Session(j).server /\ o.campaign = Session(j).campaign
        /\ Identified(o) <=> Identified(Session(j))
    <3>1. CASE Found(j) = {}
      <4>1. origin'[J] = DemoOf[j]
        BY <1>5, <2>1, <3>1, Assigned DEF ArchiveTypeOK
      <4> QED BY <4>1 DEF Session
    <3>2. CASE Found(j) # {}
      <4>1. origin' = origin /\ J \in Found(j)
        BY <1>5, <3>2, Assigned, JoinedIsOpen
      <4> QED BY <4>1, FoundAgrees
    <3> QED BY <3>1, <3>2
  <2>4. \A k \in Jobs : game[k] \in Found(j) =>
           /\ k \in analysed
           /\ Session(k).server = Session(j).server
           /\ Session(k).campaign = Session(j).campaign
           /\ Identified(Session(k)) <=> Identified(Session(j))
    <3> SUFFICES ASSUME NEW k \in Jobs, game[k] \in Found(j)
                 PROVE  /\ k \in analysed
                        /\ Session(k).server = Session(j).server
                        /\ Session(k).campaign = Session(j).campaign
                        /\ Identified(Session(k)) <=> Identified(Session(j))
      OBVIOUS
    <3>1. k \in MembersOf(game[k])
      BY DEF MembersOf
    <3>2. game[k] \in games
      BY FoundAgrees
    <3>3. Graded(game[k])
      BY <1>1, <3>2
    <3> QED BY <3>1, <3>3, FoundAgrees
  <2>5. confidence'[J] = GradeOf(Session(j), Cardinality(MembersOf(J)'))
    <3>1. MembersOf(J)' = {k \in Jobs : Members(j)[k] = J}
      BY <1>5, Assigned DEF MembersOf
    <3> QED BY <1>5, <2>1, <3>1, Assigned DEF ArchiveTypeOK
  <2>6. \A n : GradeOf(Session(j), n) = GradeOf(o, n)
    BY <2>3 DEF GradeOf
  <2>7. \A k : Session(k)' = Session(k)
    BY DEF Session
  <2> QED BY <2>2, <2>3, <2>4, <2>5, <2>6, <2>7
<1>6. \A g \in games' : Graded(g)'
  BY <1>2, <1>4, <1>5
<1> QED BY <1>6 DEF GamesInv, GamesAreGraded

LEMMA DeletionKeepsGames ==
  ASSUME ArchiveTypeOK, GamesInv, DeleteRows
  PROVE  GamesInv'
<1> DEFINE kept == [j \in Jobs |-> IF j \in Old THEN None ELSE game[j]]
<1>1. /\ analysed' = analysed \ Old /\ game' = kept /\ origin' = origin
      /\ games' = {g \in games : \E j \in Jobs : kept[j] = g}
      /\ confidence' = Regrade(kept)
  BY DEF DeleteRows
<1> SUFFICES ASSUME NEW g \in games'
             PROVE  /\ MembersOf(g)' # {} /\ MembersOf(g)' \subseteq analysed'
                    /\ \A j \in MembersOf(g)' :
                          /\ Session(j).server = SessionOf[origin[g]].server
                          /\ Session(j).campaign = SessionOf[origin[g]].campaign
                          /\ Identified(Session(j)) <=> Identified(SessionOf[origin[g]])
                    /\ confidence'[g] = GradeOf(SessionOf[origin[g]], Cardinality(MembersOf(g)'))
  BY <1>1 DEF GamesInv, GamesAreGraded, Session
<1>2. g \in games /\ g \in Ids /\ g # None
  BY <1>1, ArchiveAssumption DEF ArchiveTypeOK
<1>3. MembersOf(g)' = {j \in Jobs : kept[j] = g}
  BY <1>1 DEF MembersOf
<1>4. MembersOf(g)' = MembersOf(g) \ Old
  BY <1>2, <1>3 DEF MembersOf
<1>5. confidence'[g] = GradeOf(SessionOf[origin[g]], Cardinality(MembersOf(g)'))
  <2>1. CASE \E j \in Old : game[j] = g
    BY <1>1, <1>2, <1>3, <2>1 DEF Regrade
  <2>2. CASE ~ \E j \in Old : game[j] = g
    <3>1. MembersOf(g)' = MembersOf(g)
      BY <1>4, <2>2 DEF MembersOf
    <3>2. confidence'[g] = confidence[g]
      BY <1>1, <1>2, <2>2 DEF Regrade
    <3> QED BY <1>2, <3>1, <3>2 DEF GamesInv, GamesAreGraded
  <2> QED BY <2>1, <2>2
<1>6. MembersOf(g)' # {}
  BY <1>1, <1>3
<1> QED BY <1>1, <1>2, <1>4, <1>5, <1>6 DEF GamesInv, GamesAreGraded

LEMMA GamesStayGraded ==
  ASSUME ArchiveTypeOK, GamesInv, [ArchiveNext]_vars
  PROVE  GamesInv'
<1>1. ASSUME UNCHANGED <<analysed, game, games, origin, confidence>> PROVE GamesInv'
  BY <1>1 DEF GamesInv, GamesAreGraded, MembersOf, Session
<1>2. ASSUME NEW j \in Jobs, Persist(j) PROVE GamesInv'
  BY <1>2, AssignmentKeepsGames DEF Persist
<1>3. CASE DeleteRows
  BY <1>3, DeletionKeepsGames
<1> QED
  BY <1>1, <1>2, <1>3
     DEF ArchiveNext, vars, rows, Submit, Retry, EndEarly, PersistFails, StageFile, RestoreFile,
         RestoreFails, Unlink, StartPurge, AbortPurge, EndPurge, KillPurge

-----------------------------------------------------------------------------
(* Theorems *)

\* Rows, files and the purge keep their types, whatever ends a purge
\* (repository.ts, retention.ts).
THEOREM ArchiveTypeCorrect == Spec => []ArchiveTypeOK
<1>1. Init => ArchiveTypeOK
  BY InitIsTyped
<1>2. ArchiveTypeOK /\ [ArchiveNext]_vars => ArchiveTypeOK'
  BY StepIsTyped
<1> QED BY <1>1, <1>2, PTL DEF Spec

LEMMA InitIsKept == Init => IInv
<1> SUFFICES ASSUME Init PROVE IInv
  OBVIOUS
<1>1. FilesInv
  BY DEF Init, FilesInv, Needed, Objects, Sources, Exists
<1>2. CasesAreBacked
  BY FS_EmptySet DEF Init, CasesAreBacked
<1>3. GamesInv
  BY DEF Init, GamesInv, GamesAreGraded
<1> QED BY <1>1, <1>2, <1>3, InitIsTyped DEF IInv

LEMMA StepIsKept == IInv /\ [ArchiveNext]_vars => IInv'
<1> SUFFICES ASSUME IInv, [ArchiveNext]_vars PROVE IInv'
  OBVIOUS
<1>1. FilesInv'
  <2>1. CASE UNCHANGED vars
    BY <2>1 DEF IInv, FilesInv, vars, rows, purge, Needed, Objects, Sources, Exists, Plan, Old,
                CaseGoes, Removable
  <2>2. CASE ArchiveNext
    BY <2>2, JobsKeepFiles, PurgeKeepsFiles, DeletionKeepsFiles DEF IInv, ArchiveNext
  <2> QED BY <2>1, <2>2
<1> QED BY <1>1, StepIsTyped, CasesStayBacked, GamesStayGraded DEF IInv

LEMMA Kept == Spec => []IInv
BY InitIsKept, StepIsKept, PTL DEF Spec

\* Once a purge is over, and unless it was killed or failed twice, every
\* remaining row finds its files: also when staging failed half-way, when the
\* transaction rolled back, or when an unlink failed (retention.ts:65).
THEOREM FilesOutliveRows == Spec => []RowsFindTheirFiles
<1>1. IInv => RowsFindTheirFiles
  BY DEF IInv, FilesInv, Needed, RowsFindTheirFiles, Running
<1> QED BY <1>1, Kept, PTL

\* A case presents only demos that have an analysis left, through every
\* reanalysis and purge, and a demo-local case one demo (repository.ts:1345).
THEOREM CaseBacking == Spec => []CasesAreBacked
<1>1. IInv => CasesAreBacked
  BY DEF IInv
<1> QED BY <1>1, Kept, PTL

\* Games stay of one server and campaign, and their confidence is the grade of
\* their members, through merges and purges (repository.ts:943).
THEOREM Grading == Spec => []GamesAreGraded
<1>1. IInv => GamesAreGraded
  BY DEF IInv, GamesInv
<1> QED BY <1>1, Kept, PTL
================================================================================
