------------------------------ MODULE EntityFrames ------------------------------
(***************************************************************************)
(* Entity packets of a demo and their reconstruction, EntityReconstructor  *)
(* of crates/demo-source1-native/src/entities.rs.                          *)
(*                                                                         *)
(* The game server that was recorded is external.  It encodes each frame   *)
(* against a frame that its client acknowledged, not always the last one,  *)
(* and entering entities against a baseline: that of the class, or one of  *)
(* two sets that packets with the update flag refill in turns.  It is      *)
(* taken to fill these sets as the decoder does.  Serial numbers wrap at   *)
(* 1024, which no slot is reused within a history; here they are the       *)
(* number of the entity.                                                   *)
(***************************************************************************)
EXTENDS Integers, FiniteSets, FiniteSetsExt, Functions

CONSTANTS
    Slots,            \* entity indices
    Classes, Player,  \* server classes, and the one of CTerrorPlayer
    Users,
    Props, Values,    \* networked properties of an entity
    InstanceBaseline, \* the table instancebaseline
    Local,            \* slot of the recording player, or None for SourceTV
    None,
    MaxHistory,       \* 128 frames in visit_entity_frames_prepared
    PacketCap,        \* bound: packets of a demo
    EntityCap         \* bound: entities that are created

\* Properties as far as they are known; the server's entities; what a packet says
\* of one; the decoder's entity; a stored baseline.
Known    == [Props -> Values \cup {None}]
Entity   == [number : Nat, class : Classes, owner : Users \cup {None}, props : [Props -> Values]]
View     == [number : Nat, class : Classes, active : BOOLEAN, props : [Props -> Values]]
Snapshot == [class : Classes, serial : Nat \cup {None}, lifetime : Nat, active : BOOLEAN, props : Known]
Baseline == [class : Classes, props : Known]

ASSUME FramesAssumption ==
    /\ Slots \subseteq Nat \ {0} /\ IsFiniteSet(Slots) /\ Player \in Classes
    /\ InstanceBaseline \in [Classes -> Known]
    /\ Local \in Slots \cup {None} /\ None \notin Slots \cup Values \cup Classes \cup Users
    /\ None \notin Nat \cup Known \cup Entity \cup View \cup Snapshot \cup Baseline
    /\ MaxHistory \in Nat \ {0} /\ PacketCap \in Nat /\ EntityCap \in Nat

VARIABLES
    world,    \* the server's entities: None, or number, class, owner, properties
    visible,  \* slots whose entity is sent to the client
    created,  \* entities created so far
    views,    \* what each frame told the client, for the frames it may refer to
    given,    \* the two sets of baselines as the server has them
    used,     \* the set it encodes against
    pending,  \* an update of the other set is not acknowledged yet
    tick,     \* packets so far: the sequence number of the last one
    frames,   \* the decoder's frames, by sequence number
    dynamic,  \* its two sets of baselines
    lifetime, \* next_lifetime
    refused   \* the decoder returned an error

server == <<world, visible, created, views, given, used, pending>>
decoder == <<frames, dynamic, lifetime, refused>>
frameVars == <<server, tick, decoder>>

-----------------------------------------------------------------------------
Unknown == [p \in Props |-> None]
Nothing == [s \in Slots |-> None]
Silent == [kind |-> "none"]
FramesInit ==
    /\ world = Nothing /\ visible = {} /\ created = 0
    /\ views = <<>> /\ frames = <<>> /\ tick = 0
    /\ given = [b \in 0..1 |-> Nothing] /\ dynamic = [b \in 0..1 |-> Nothing]
    /\ used = 0 /\ pending = FALSE
    /\ lifetime = 1 /\ refused = FALSE

\* merge_properties.
Merge(base, sent) ==
    [p \in Props |-> IF p \in DOMAIN sent THEN sent[p] ELSE base[p]]

Difference(base, props) == Restrict(props, {p \in Props : base[p] # props[p]})

-----------------------------------------------------------------------------
(* The server *)

\* What the server encodes against: the frame with sequence number n, or
\* nothing for a full packet (n = 0).
Told(n) == IF n = 0 THEN Nothing ELSE views[n]

ServerBaseline(s, n) ==
    LET b == given[used][s]
    IN  IF n # 0 /\ b # None /\ b.class = world[s].class
        THEN b.props ELSE InstanceBaseline[world[s].class]

Enters(s, n) ==
    /\ s \in visible
    /\ LET old == Told(n)[s]
       IN  old = None \/ ~old.active \/ old.number # world[s].number

\* The frames that the packet after the next may refer to.
Acknowledgeable == {k \in 1..tick + 1 : k > tick + 1 - MaxHistory}

\* The update of slot s in a packet that refers to frame n.
Sent(s, n) ==
    LET old == Told(n)[s]
        new == world[s]
    IN  CASE Enters(s, n) -> [kind |-> "enter", class |-> new.class, serial |-> new.number,
                              props |-> Difference(ServerBaseline(s, n), new.props)]
          [] s \in visible /\ ~Enters(s, n) /\ old.props # new.props ->
                [kind |-> "delta", props |-> Difference(old.props, new.props)]
          [] s \notin visible /\ old # None /\ (new = None \/ new.number # old.number) ->
                [kind |-> "delete"]
          [] s \notin visible /\ old # None /\ new # None /\ new.number = old.number /\ old.active ->
                [kind |-> "leave"]
          [] OTHER -> Silent

\* What the client knows of slot s after that packet.
NewView(s, n) ==
    LET old == Told(n)[s]
        new == world[s]
    IN  CASE s \in visible -> [number |-> new.number, class |-> new.class,
                               active |-> TRUE, props |-> new.props]
          [] s \notin visible /\ old # None /\ new # None /\ new.number = old.number ->
                [old EXCEPT !.active = FALSE]
          [] OTHER -> None
-----------------------------------------------------------------------------
(* The decoder *)

\* decode_packet_entity_data: a delta carries no class.  It is that of the
\* entity in the frame referred to, or CTerrorPlayer in a slot whose user is
\* known in a player's recording.
ClassOf(s, source, implicit) ==
    IF source[s] # None THEN source[s].class
    ELSE IF s \in implicit THEN Player ELSE None

\* apply: an update that returns an error.
Refuses(u, s, source, implicit) ==
    \/ u.kind = "leave" /\ source[s] = None
    \/ /\ u.kind = "delta"
       /\ \/ ClassOf(s, source, implicit) = None
          \/ source[s] # None /\ ~source[s].active

\* Slip: the class of a stored baseline is not looked at.
DecoderBaselineOfAnyClass(s, class, n, baseline) ==
    LET b == dynamic[baseline][s]
    IN  IF n # 0 /\ b # None THEN b.props ELSE InstanceBaseline[class]

DecoderBaseline(s, class, n, baseline) ==
    LET b == dynamic[baseline][s]
    IN  IF n # 0 /\ b # None /\ b.class = class THEN b.props ELSE InstanceBaseline[class]

\* Slip: the serial number is not compared.
ResumesByClass(u, s, source) == source[s] # None /\ source[s].class = u.class

Resumes(u, s, source) ==
    source[s] # None /\ source[s].class = u.class /\ source[s].serial = u.serial

\* Updates that begin a lifetime.
Begins(u, s, source) ==
    \/ u.kind = "enter" /\ ~Resumes(u, s, source)
    \/ u.kind = "delta" /\ source[s] = None

\* apply: slot s of the new frame, where fresh is the lifetime it may take.
Applied(u, s, source, n, baseline, fresh) ==
    CASE u.kind = "none" -> source[s]
      [] u.kind = "delete" -> None
      [] u.kind = "leave" -> [source[s] EXCEPT !.active = FALSE]
      [] u.kind = "delta" /\ source[s] = None ->
            [class |-> Player, serial |-> None, lifetime |-> fresh, active |-> TRUE,
             props |-> Merge(Unknown, u.props)]
      [] u.kind = "delta" /\ source[s] # None ->
            [source[s] EXCEPT !.props = Merge(@, u.props)]
      [] u.kind = "enter" ->
            [class |-> u.class, serial |-> u.serial, active |-> TRUE,
             lifetime |-> IF Resumes(u, s, source) THEN source[s].lifetime ELSE fresh,
             props |-> Merge(DecoderBaseline(s, u.class, n, baseline), u.props)]

\* The frames that stay when the next is added.
Kept == {k \in DOMAIN frames : k > tick + 1 - MaxHistory}

\* apply: the frame kept under sequence number tick + 1, the baselines an update
\* stores, and the frames that are forgotten.
Decode(updates, n, baseline, update, implicit) ==
    LET source == IF n = 0 THEN Nothing ELSE frames[n]
        begun == {s \in Slots : Begins(updates[s], s, source)}
        Fresh(s) == lifetime + Cardinality({t \in begun : t < s})
        frame == [s \in Slots |-> Applied(updates[s], s, source, n, baseline, Fresh(s))]
        entered == {s \in Slots : updates[s].kind = "enter"}
    IN  IF \/ n # 0 /\ n \notin DOMAIN frames
           \/ \E s \in Slots : Refuses(updates[s], s, source, implicit)
        THEN refused' = TRUE /\ UNCHANGED <<frames, dynamic, lifetime>>
        ELSE /\ frames' = [k \in Kept \cup {tick + 1} |->
                              IF k = tick + 1 THEN frame ELSE frames[k]]
             /\ dynamic' = IF update
                   THEN [dynamic EXCEPT ![1 - baseline] = [s \in Slots |->
                           IF s \in entered
                           THEN [class |-> frame[s].class, props |-> frame[s].props]
                           ELSE @[s]]]
                   ELSE dynamic
             /\ lifetime' = lifetime + Cardinality(begun)
             /\ UNCHANGED refused

-----------------------------------------------------------------------------
(* Steps *)

\* Something happens in the game.
Spawn(s, class, owner, props) ==
    /\ created < EntityCap /\ world[s] = None
    /\ world' = [world EXCEPT ![s] = [number |-> created, class |-> class,
                                      owner |-> owner, props |-> props]]
    /\ visible' = visible \cup {s}
    /\ created' = created + 1
    /\ UNCHANGED <<views, given, used, pending, tick, decoder>>

Despawn(s) ==
    /\ world[s] # None
    /\ world' = [world EXCEPT ![s] = None]
    /\ visible' = visible \ {s}
    /\ UNCHANGED <<created, views, given, used, pending, tick, decoder>>

Change(s, props) ==
    /\ world[s] # None /\ props # world[s].props
    /\ world' = [world EXCEPT ![s].props = props]
    /\ UNCHANGED <<visible, created, views, given, used, pending, tick, decoder>>

\* An entity comes into the client's view or leaves it; a player's own stays.
Move(s) ==
    /\ world[s] # None /\ s # Local
    /\ visible' = IF s \in visible THEN visible \ {s} ELSE visible \cup {s}
    /\ UNCHANGED <<world, created, views, given, used, pending, tick, decoder>>

\* The client has stored an update of the baselines, and says so.
Acknowledge ==
    /\ pending
    /\ pending' = FALSE /\ used' = 1 - used
    /\ UNCHANGED <<world, visible, created, views, given, tick, decoder>>

\* One packet: encoded against frame n, with or without an update of the
\* baselines, and decoded.  The first full packet may leave out the recording
\* player's own entity.
Packet(n, update, omitted, implicit) ==
    LET updates == [s \in Slots |-> IF s \in omitted THEN Silent ELSE Sent(s, n)]
        entered == {s \in Slots \ omitted : Enters(s, n)}
    IN  /\ n = 0 \/ n \in DOMAIN views
        /\ update => ~pending
        /\ omitted # {} => n = 0
        /\ tick < PacketCap /\ ~refused
        /\ tick' = tick + 1
        /\ views' = [k \in Acknowledgeable |->
                        IF k = tick + 1 THEN [s \in Slots |-> NewView(s, n)] ELSE views[k]]
        /\ given' = IF update
              THEN [given EXCEPT ![1 - used] = [s \in Slots |->
                      IF s \in entered
                      THEN [class |-> world[s].class, props |-> world[s].props]
                      ELSE @[s]]]
              ELSE given
        /\ pending' = (pending \/ update)
        /\ Decode(updates, n, used, update, implicit)
        /\ UNCHANGED <<world, visible, created, used>>

-----------------------------------------------------------------------------
\* A decoded entity is the one the server sent, in every retained frame: with all
\* its properties if it was seen entering, and with no wrong one otherwise.
Faithful(snapshot, view) ==
    /\ snapshot.class = view.class /\ snapshot.active = view.active
    /\ snapshot.serial \in {None, view.number}
    /\ \A p \in Props :
          snapshot.props[p] = view.props[p] \/ (snapshot.serial = None /\ snapshot.props[p] = None)
=============================================================================
