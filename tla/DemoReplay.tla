------------------------------- MODULE DemoReplay -------------------------------
(***************************************************************************)
(* From the entity frames of a demo to player observations: the identity   *)
(* timeline (crates/demo-source1-native/src/identity.rs), player epochs    *)
(* (projection.rs), compact rows (direct_wire.rs), their reading           *)
(* (apps/cli/src/native-projection.ts) and the identities that             *)
(* apps/cli/src/evidence-bundle.ts infers.                                 *)
(*                                                                         *)
(* The parser first reads the userinfo updates of the whole file and then  *)
(* its frames.  `touched` is therefore a prophecy: the slots whose         *)
(* userinfo an update will change.                                         *)
(***************************************************************************)
EXTENDS EntityFrames

CONSTANT PlayerSlots  \* the slots of clients; other entities have the others

\* What the userinfo table says of a slot; an epoch, with the player it is in truth;
\* a row, which carries its state or repeats the last.
Mapping == [slot : PlayerSlots, tick : Nat, user : Users \cup {None}]
Epoch   == [slot : Slots, lifetime : Nat, user : Users \cup {None}, from : Nat,
            to : Nat \cup {None}, owner : Users \cup {None}]
Reported == [epoch : Slots \X Nat, state : Known]

ASSUME ReplayAssumption ==
    /\ PlayerSlots \subseteq Slots /\ Local \in PlayerSlots \cup {None}
    /\ None \notin Epoch \cup Reported

VARIABLES
    occupant,   \* the user in each slot
    touched,
    mappings,   \* identity_mappings: slot, tick, and user or None
    active,     \* the open epoch of each slot
    completed,  \* those that ended
    lastRow,    \* last_l4d2_by_epoch of the writer of rows
    lastRead,   \* lastL4d2ByEpoch of their reader
    read,       \* the observation of each slot in the last frame, as read
    ended,      \* the recording is over and was projected
    attributed  \* the user that the evidence names for each epoch

identity == <<occupant, touched, mappings>>
projection == <<active, completed, lastRow, lastRead, read>>
replayVars == <<frameVars, identity, projection, ended, attributed>>

-----------------------------------------------------------------------------
\* The string table snapshot, whose mappings hold from tick 0 in the slots that
\* no update touches.
Init ==
    /\ FramesInit
    /\ occupant \in [PlayerSlots -> Users \cup {None}]
    /\ \A s, t \in PlayerSlots : s # t => occupant[s] = None \/ occupant[s] # occupant[t]
    /\ touched \in SUBSET PlayerSlots
    /\ mappings = {[slot |-> s, tick |-> 0, user |-> occupant[s]] :
                      s \in {t \in PlayerSlots \ touched : occupant[t] # None}}
    /\ active = Nothing /\ completed = {}
    /\ lastRow = <<>> /\ lastRead = <<>> /\ read = Nothing
    /\ ended = FALSE /\ attributed = {}

-----------------------------------------------------------------------------
(* The game *)

\* apply_changes and dedup_mappings: of two updates at one tick the last stays.
Recorded(s, user) ==
    {m \in mappings : m.slot # s \/ m.tick # tick + 1}
        \cup {[slot |-> s, tick |-> tick + 1, user |-> user]}

\* A player takes a free slot, or appears under another name in their own.
Join(s, u) ==
    /\ s \in touched
    /\ occupant[s] \in {None, u} /\ \A t \in PlayerSlots \ {s} : occupant[t] # u
    /\ occupant' = [occupant EXCEPT ![s] = u]
    /\ mappings' = Recorded(s, u)
    /\ UNCHANGED <<frameVars, touched, projection, ended, attributed>>

\* A player leaves: their entity goes, and the entry of the slot is cleared.
Part(s) ==
    /\ s \in touched /\ occupant[s] # None
    /\ occupant' = [occupant EXCEPT ![s] = None]
    /\ mappings' = Recorded(s, None)
    /\ IF world[s] # None THEN Despawn(s) ELSE UNCHANGED frameVars
    /\ UNCHANGED <<touched, projection, ended, attributed>>

Play ==
    /\ \/ \E s \in Slots, props \in [Props -> Values] :
            \/ s \in PlayerSlots /\ occupant[s] # None /\ Spawn(s, Player, occupant[s], props)
            \/ s \notin PlayerSlots /\ \E c \in Classes \ {Player} : Spawn(s, c, None, props)
            \/ Change(s, props)
       \/ \E s \in Slots : Despawn(s) \/ Move(s)
       \/ Acknowledge
    /\ UNCHANGED <<identity, projection, ended, attributed>>

-----------------------------------------------------------------------------
(* The projection *)

\* The mapping of a slot in effect at a tick.
UserAt(s, t) ==
    LET known == {m \in mappings : m.slot = s /\ m.tick <= t}
    IN  IF known = {} THEN None
        ELSE (CHOOSE m \in known : \A k \in known : k.tick <= m.tick).user

\* implicit_player_classes, in a player's recording.
ImplicitPlayers(t) ==
    IF Local = None THEN {} ELSE {s \in PlayerSlots : UserAt(s, t) # None}

\* project_core_with_observer: the epochs after the frame of tick t.
Seen(frame) == {s \in Slots : frame[s] # None /\ frame[s].active /\ frame[s].class = Player}

Continues(s, frame) == active[s] # None /\ active[s].lifetime = frame[s].lifetime

NewActive(frame, t) ==
    [s \in Slots |->
        CASE s \notin Seen(frame) -> None
          [] s \in Seen(frame) /\ Continues(s, frame) -> active[s]
          [] OTHER -> [slot |-> s, lifetime |-> frame[s].lifetime, user |-> UserAt(s, t),
                       from |-> t, to |-> None, owner |-> world[s].owner]]

NewCompleted(frame, t) ==
    completed \cup {[active[s] EXCEPT !.to = t] :
        s \in {r \in Slots : active[r] # None /\ ~(r \in Seen(frame) /\ Continues(r, frame))}}

\* An epoch's id is made of slot and lifetime.
Id(s, frame) == <<s, frame[s].lifetime>>

\* Slip: a row repeats whatever the epoch's last state was.
RowUncompared(s, frame) ==
    LET id == Id(s, frame)
    IN  [epoch |-> id, state |-> IF id \in DOMAIN lastRow THEN None ELSE frame[s].props]

\* DirectCompactObservations.push: a row repeats the state or carries it.
Row(s, frame) ==
    LET id == Id(s, frame)
        repeats == id \in DOMAIN lastRow /\ lastRow[id] = frame[s].props
    IN  [epoch |-> id, state |-> IF repeats THEN None ELSE frame[s].props]

\* readObservation.
Reading(row) ==
    [epoch |-> row.epoch, state |-> IF row.state = None THEN lastRead[row.epoch] ELSE row.state]

\* What a map by epoch holds after the rows of a frame.
Noted(last, entries) ==
    [id \in DOMAIN last \cup {e.epoch : e \in entries} |->
        IF \E e \in entries : e.epoch = id
        THEN (CHOOSE e \in entries : e.epoch = id).state ELSE last[id]]

Project(frame, t) ==
    LET seen == Seen(frame)
        observed == {[epoch |-> Id(s, frame), state |-> frame[s].props] : s \in seen}
    IN  /\ active' = NewActive(frame, t)
        /\ completed' = NewCompleted(frame, t)
        /\ lastRow' = Noted(lastRow, observed)
        /\ read' = [s \in Slots |-> IF s \in seen THEN Reading(Row(s, frame)) ELSE None]
        /\ lastRead' = Noted(lastRead, {Reading(Row(s, frame)) : s \in seen})

Record ==
    /\ \E n \in DOMAIN views \cup {0}, update \in BOOLEAN,
          omitted \in {{}, {Local} \cap visible} :
            Packet(n, update, omitted, ImplicitPlayers(tick + 1))
    /\ IF refused' THEN UNCHANGED projection ELSE Project(frames'[tick'], tick')
    /\ UNCHANGED <<identity, ended, attributed>>

-----------------------------------------------------------------------------
(* The evidence *)

Epochs == completed \cup {active[s] : s \in {t \in Slots : active[t] # None}}

\* Slip: the last user is taken, however many there were.
InferredLast(e) ==
    LET timed == {m \in mappings : m.slot = e.slot /\ m.user # None /\ m.tick >= e.from}
    IN  IF timed = {} THEN None
        ELSE (CHOOSE m \in timed : \A k \in timed : k.tick <= m.tick).user

\* buildEvidenceBundle: an epoch without a user takes the one user that its slot
\* had while it lasted, or, when it had none, the one it ever had.
Inferred(e) ==
    LET ofSlot == {m \in mappings : m.slot = e.slot /\ m.user # None}
        end == IF e.to = None THEN tick ELSE e.to
        timed == {m \in ofSlot : m.tick \in e.from..end}
        users == {m.user : m \in (IF timed # {} THEN timed ELSE ofSlot)}
    IN  IF Cardinality(users) = 1 THEN CHOOSE u \in users : TRUE ELSE None

End ==
    /\ tick > 0 /\ ~refused
    /\ \A s \in touched : \E m \in mappings : m.slot = s
    /\ ended' = TRUE
    /\ attributed' = {[epoch |-> e, user |-> IF e.user # None THEN e.user ELSE Inferred(e)] :
                         e \in Epochs}
    /\ UNCHANGED <<frameVars, identity, projection>>

Next ==
    /\ ~ended /\ ~refused
    /\ \/ /\ tick < PacketCap
          /\ \/ \E s \in PlayerSlots : Part(s) \/ \E u \in Users : Join(s, u)
             \/ Play
       \/ Record
       \/ End

Spec == Init /\ [][Next]_replayVars

-----------------------------------------------------------------------------
(* Properties *)

\* Whatever acknowledged frames and baselines the packets refer to, each is decoded,
\* and to what the server sent; only a recording player's own entity may be missing,
\* or be refused when their userinfo changes later in the file.
FramesAreSent ==
    /\ refused => Local \in touched
    /\ \A n \in DOMAIN frames \cap DOMAIN views, s \in Slots :
          LET f == frames[n][s]
              v == views[n][s]
          IN  \/ f = None /\ (v = None \/ s = Local)
              \/ f # None /\ v # None /\ Faithful(f, v)

\* An epoch is the life of one entity, and its rows are in it: each row that is read
\* belongs to the epoch that is open in its slot, epochs of a slot do not overlap,
\* and rows that repeat a state are read as the state that was projected, also when
\* an epoch's id comes back after an absence.
RowsAreLossless ==
    /\ \A s \in Slots :
          /\ (read[s] # None) <=> (active[s] # None)
          /\ read[s] # None => /\ read[s].epoch = <<s, active[s].lifetime>>
                               /\ refused \/ read[s].state = frames[tick][s].props
    /\ \A e, f \in Epochs : e.slot = f.slot /\ e # f =>
          /\ \/ e.to # None /\ e.to <= f.from
             \/ f.to # None /\ f.to <= e.from
          /\ e.lifetime = f.lifetime => e.owner = f.owner

\* An epoch that begins when its slot's user is on record is that user's in the
\* evidence, and one during which its own user is recorded is nobody else's.  The
\* others, which begin before the first update of a slot, may take the name of the
\* next player there.
EvidenceNamesThePlayer ==
    \A a \in attributed :
        LET e == a.epoch
            end == IF e.to = None THEN tick ELSE e.to
            ofSlot == {m \in mappings : m.slot = e.slot}
        IN  /\ (e.slot \notin touched \/ \E m \in ofSlot : m.tick <= e.from) => a.user = e.owner
            /\ (\E m \in ofSlot : m.user = e.owner /\ m.tick \in e.from..end)
                  => a.user \in {None, e.owner}
=============================================================================
