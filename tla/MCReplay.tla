-------------------------------- MODULE MCReplay --------------------------------
(* DemoReplay on small instances, MatchEvidence on small recordings,       *)
(* PlayerRatings on two demos and ReviewScores on a few items.              *)
EXTENDS DemoReplay, MatchEvidence, PlayerRatings, ReviewScores, TLC

CONSTANTS player, weapon, witch, carry, pummel, charger, ellis, zoey, ann, bob, cat, dan

\* The players' class has an instance baseline, as has one of the others.
Baselines ==
    [c \in Classes |-> [p \in Props |-> IF c = witch THEN None ELSE 0]]

\* Bounds: the game has one entity at a time after the first packet, and the
\* baselines are updated only while nobody comes or goes.
SmallGame ==
    /\ tick > 0 => \A s, t \in Slots : world[s] # None /\ world[t] # None => s = t
    /\ touched # {} => ~pending

Symmetry == Permutations(Users)

-----------------------------------------------------------------------------
(* Recordings of four snapshots, which grow one by one *)

Snapshots == 4
Later     == recording.tick + 1

Free == [f \in PinFields |-> Nobody]
Look(pin) == [tick |-> Later, class |-> "Charger", pin |-> pin]

\* A charger seizes two survivors.  One of them is out of sight at most once, and
\* the charger dies at most once, by a survivor's hand or not.
GrowChase ==
    /\ recording.kind = "chase"
    /\ \E pin \in {Free, [Free EXCEPT ![carry] = ellis], [Free EXCEPT ![carry] = zoey],
                   [Free EXCEPT ![pummel] = ellis],
                   [Free EXCEPT ![carry] = ellis, ![pummel] = ellis]} :
       \E seen \in {{charger, ellis, zoey}, {charger, zoey}} :
       \E killer \in {zoey, Nobody, "nothing"} :
          /\ ellis \notin seen => Len(recording.rows[ellis]) = recording.tick
          /\ killer # "nothing" => recording.deaths = {}
          /\ recording' =
                [recording EXCEPT
                    !.tick = Later,
                    !.rows = [p \in {charger, ellis, zoey} |->
                                IF p \notin seen THEN @[p]
                                ELSE Append(@[p], Look(IF p = charger THEN pin ELSE Free))],
                    !.deaths = IF killer = "nothing" THEN @
                               ELSE {[tick |-> Later, victim |-> charger, actor |-> killer]}]

Body(team, class, ghost) ==
    [tick |-> Later, team |-> team, class |-> class, ghost |-> ghost]

\* One player is a survivor, a ghost, a hunter or a Tank, another a hunter.
GrowWalk ==
    /\ recording.kind = "walk"
    /\ \E one \in {Body("Survivor", "Survivor", FALSE), Body("Infected", "Hunter", FALSE),
                   Body("Infected", "Hunter", TRUE), Body("Infected", Tank, FALSE)} :
       \E ghost \in BOOLEAN : \E dead \in {{}, {Later}} :
          recording' =
            [recording EXCEPT
                !.tick = Later,
                !.rows = [@ EXCEPT ![ellis] = Append(@, one),
                                   ![zoey] = Append(@, Body("Infected", "Hunter", ghost))],
                !.deaths = IF @ = {} THEN dead ELSE @]

\* Samples of one survivor, with gaps between them.
GrowWound ==
    /\ recording.kind = "wound"
    /\ \E gap \in 1..2 : \E health \in {0, 1, 2, Nobody} : \E upright \in BOOLEAN :
          /\ health = Nobody => upright
          /\ recording' =
              [recording EXCEPT
                !.tick = @ + gap,
                !.samples = Append(@, [tick |-> recording.tick + gap, health |-> health,
                                       upright |-> upright])]

NoRows == [p \in {charger, ellis, zoey} |-> <<>>]

Blank == {[kind |-> k, tick |-> 0, rows |-> NoRows, deaths |-> {}, samples |-> <<>>] :
            k \in {"chase", "walk", "wound"}}

\* The second half begins at one of the ticks, at none, or it was all there was;
\* the flag is not known at first, or falls back.
State(t, second) == [tick |-> t, second |-> second]
Turns ==
    {<<>>, <<State(0, TRUE)>>, <<State(0, FALSE)>>,
     <<State(0, Nobody), State(1, FALSE), State(3, TRUE)>>}
        \cup {<<State(0, FALSE), State(t, TRUE), State(t + 1, FALSE)>> : t \in 2..4}

-----------------------------------------------------------------------------
(* Two demos of a game, in which ann and bob play cat and dan *)

Roster == <<ann, bob, cat, dan>>
Team(i, half) == IF (i <= 2) = (half = 1) THEN "Survivor" ELSE "Infected"

Person(id, slot, user, deaths) == [id |-> id, slot |-> slot, user |-> user, deaths |-> deaths]
Four == {Person(i, i, Roster[i], i % 3) : i \in 1..4}

Counters == (UNION {m.of : m \in Metrics}) \ {"clears", "controls", "pins"}

\* All count alike, or some more of some things than others.
Stats(id, side, luck) ==
    [player |-> id, side |-> side, seconds |-> 300,
     counts |-> [n \in Counters |->
                    1 + luck * (IF n \in {"kills", "damage", "revives"} THEN id % 3 ELSE id % 2)]]
Half(half, luck, extra) ==
    [start |-> 10 * half, end |-> 10 * half + 9,
     rows |-> [i \in 1..4 |-> Stats(i, Team(i, half), luck)] \o extra]

\* Two lives of a hunter and a Tank's for each infected player of a half.
Lives ==
    {[player |-> i, class |-> class, start |-> 10 * half + n, controls |-> 1, pins |-> 2] :
        <<i, half, n, class>> \in
            {x \in (1..4) \X (1..2) \X (0..2) \X {"Hunter", "Tank"} :
                Team(x[1], x[2]) = "Infected" /\ (x[3] = 2) = (x[4] = "Tank")}}

Match(players, luck, extra) ==
    [players |-> players, lives |-> Lives, clears |-> {[actor |-> 1, tick |-> 12]},
     halves |-> <<Half(1, luck, extra), Half(2, luck, <<>>)>>]

Ordinary(luck) == Match(Four, luck, <<>>)
Returned(slot, user, luck) ==
    Match(Four \cup {Person(5, slot, user, 1)}, luck, <<Stats(5, "Survivor", luck)>>)

\* A player of ann's slot came back, as herself or unknown; one came that nobody
\* knows; or not everything is known.
SecondDemo ==
    {Ordinary(1), Returned(1, ann, 1), Returned(1, Missing, 1), Returned(5, Missing, 1),
     Match({p \in Four : p.id # 1} \cup {Person(1, 1, ann, Missing)}, 1, <<>>),
     [Ordinary(1) EXCEPT !.clears = Missing],
     [Ordinary(1) EXCEPT !.halves[1].rows[1].counts["revives"] = Missing,
                        !.halves[2].rows[3].counts["hung"] = Missing]}

FirstDemo == {Ordinary(0), Returned(1, ann, 0)}

\* The hypothesis of the theorems about ratings.
ASSUME SeasonsArePlayed == \A d \in FirstDemo, e \in SecondDemo : Played(<<d, e>>)

Rate ==
    \/ Len(season) = 0 /\ \E d \in FirstDemo : season' = <<d>>
    \/ Len(season) = 1 /\ \E d \in SecondDemo : season' = Append(season, d)

-----------------------------------------------------------------------------
(* Evidence of two families, in two encounters of one demo and one of another *)

MaxItems == 3

MCCaps ==
    [detector |-> 100, familyInEncounter |-> 150, encounter |-> 200, familyInDemo |-> 200,
     familyOfPlayer |-> 300]
MCPolicy ==
    [encounters |-> 2, demos |-> 1, families |-> 1, reconstruction |-> 80,
     anomalousDemos |-> 2, anomalousFamilies |-> 2]

Accuse ==
    /\ Cardinality(evidence) < MaxItems
    /\ \E demo \in {"d1", "d2"}, e \in 1..2, detector \in {"snap", "track", "strafe"},
          strength \in 0..2, quality \in {65, 80} :
          /\ demo = "d2" => e = 1
          /\ strength # 1 => quality = 80
          /\ evidence' = evidence \cup
                {[demo |-> demo, encounter |-> e, detector |-> detector,
                  family |-> IF detector = "strafe" THEN "movement" ELSE "aim",
                  strength |-> strength, quality |-> quality,
                  reconstruction |-> IF strength = 0 THEN 70 ELSE 90]}

-----------------------------------------------------------------------------

\* A demo is replayed, a recording is looked at, players are rated or accused.
Unopened  == [kind |-> "none", tick |-> 0]

Idle == touched = {} /\ \A s \in PlayerSlots : occupant[s] = None

Begin ==
    /\ Init /\ season = <<>> /\ evidence = {}
    /\ recording \in {[Unopened EXCEPT !.kind = k] : k \in {"none", "season", "case"}} \cup Blank
    /\ recording.kind # "none" => Idle

Grow ==
    /\ recording.kind \in {"chase", "walk", "wound"} /\ Len(recording.samples) < Snapshots
    /\ recording.kind # "wound" => recording.tick < Snapshots
    /\ GrowChase \/ GrowWalk \/ GrowWound

Step ==
    \/ recording.kind = "none" /\ Next /\ UNCHANGED <<recording, season, evidence>>
    \/ Grow /\ UNCHANGED <<replayVars, season, evidence>>
    \/ recording.kind = "season" /\ Rate /\ UNCHANGED <<replayVars, recording, evidence>>
    \/ recording.kind = "case" /\ Accuse /\ UNCHANGED <<replayVars, recording, season>>

ReplaySpec == Begin /\ [][Step]_<<replayVars, recording, season, evidence>>
=============================================================================
