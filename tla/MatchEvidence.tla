----------------------------- MODULE MatchEvidence -----------------------------
(***************************************************************************)
(* How the evidence bundle tells a match from the rows of its players      *)
(* (apps/cli/src/evidence-bundle.ts), and how the web application tells    *)
(* the halves a reviewer selected (apps/web/src/demo-scope.ts): functions  *)
(* of a whole recording, without state of their own.                       *)
(*                                                                         *)
(* A row is a record with the tick of its snapshot; each function names    *)
(* the fields it reads.  Times are ticks of a known interval.              *)
(***************************************************************************)
EXTENDS Integers, FiniteSets, Sequences, SequencesExt

CONSTANTS
    PinFields,    \* the five netvars that name the victim of an infected player
    Tank,         \* the infected class whose lives are encounters, not hits
    Nobody,       \* undefined
    KillGap,      \* half a second, from the end of a pin to a death
    DeathGap,     \* 0.75 seconds, from the last row of a life to a death
    SpawnGap,     \* eight seconds, from the first to the last spawn of a hit
    SampleGap,    \* a quarter of a second, between two samples of health
    Second,       \* the ticks of a second
    MatchStates   \* bound: the match states a recording may hold

ASSUME MatchAssumption ==
    /\ Nobody \notin Int \cup {"Survivor"} /\ Tank \notin {Nobody, "Survivor"}
    /\ {KillGap, DeathGap, SpawnGap, SampleGap} \subseteq Nat /\ Second \in Nat \ {0}

VARIABLE recording  \* what has been recorded so far

-----------------------------------------------------------------------------
(* Pins and clears.  A chase has the rows of its players, [tick, class, pin], *)
(* and the deaths, [tick, victim, actor]. *)

At(chase, p, t) == \E i \in DOMAIN chase.rows[p] : chase.rows[p][i].tick = t

\* The player an entity handle stood for: one without a row has no name.
Named(chase, v, t) == IF v # Nobody /\ At(chase, v, t) THEN v ELSE Nobody

\* Where a field of a player's rows changes.
Changes(rows) ==
    {c \in (2..Len(rows)) \X PinFields :
        rows[c[1] - 1].pin[c[2]] # rows[c[1]].pin[c[2]]}

Event(type, row, actor, victim, field) ==
    [type |-> type, tick |-> row.tick, class |-> row.class, actor |-> actor,
     victim |-> victim, field |-> field]

PinStarts(chase, p) ==
    LET rows == chase.rows[p]
    IN {LET row == rows[c[1]]
        IN Event("pin_start", row, p, Named(chase, row.pin[c[2]], row.tick), c[2]) :
        c \in {x \in Changes(rows) : rows[x[1]].pin[x[2]] # Nobody}}

Releases(rows) == {c \in Changes(rows) : rows[c[1]].pin[c[2]] = Nobody}

Freed(chase, p, c) ==
    LET before == chase.rows[p][c[1] - 1]
    IN Named(chase, before.pin[c[2]], before.tick)

PinEnds(chase, p) ==
    {Event("pin_end", chase.rows[p][c[1]], p, Freed(chase, p, c), c[2]) :
        c \in Releases(chase.rows[p])}

\* Deaths of the pinner by somebody's hand around a tick; the first one counts.
Killings(chase, p, t) ==
    {d \in chase.deaths : /\ d.victim = p /\ d.actor # Nobody
                          /\ d.tick - t \in (- KillGap)..KillGap}

Killer(chase, p, t) ==
    (CHOOSE d \in Killings(chase, p, t) :
        \A e \in Killings(chase, p, t) : d.tick <= e.tick).actor

\* Slip: the victim may still be held by another field.
ReleasedByKillLoosely(chase, p, c) ==
    /\ Killings(chase, p, chase.rows[p][c[1]].tick) # {}
    /\ Freed(chase, p, c) # Nobody

\* The pinner was killed, and holds the victim by no other field.
ReleasedByKill(chase, p, c) ==
    LET rows == chase.rows[p]
    IN /\ Killings(chase, p, rows[c[1]].tick) # {}
       /\ Freed(chase, p, c) # Nobody
       /\ \A f \in PinFields : rows[c[1]].pin[f] # rows[c[1] - 1].pin[c[2]]

Clears(chase, p) ==
    LET rows == chase.rows[p]
    IN {Event("clear", rows[c[1]], Killer(chase, p, rows[c[1]].tick),
              Freed(chase, p, c), c[2]) :
        c \in {x \in Releases(rows) : ReleasedByKill(chase, p, x)}}

Timeline(chase) ==
    UNION {PinStarts(chase, p) \cup PinEnds(chase, p) \cup Clears(chase, p) :
            p \in DOMAIN chase.rows}

OfType(events, type) == {e \in events : e.type = type}

\* The starts of the pin whose end a clear names.
StartsOf(events, clear) ==
    {s \in OfType(events, "pin_start") :
        \E e \in OfType(events, "pin_end") :
            /\ e.tick = clear.tick /\ e.victim = clear.victim /\ e.class = clear.class
            /\ s.tick <= e.tick /\ s.actor = e.actor /\ s.victim = e.victim}

Response(events, clear) ==
    clear.tick - Max({s.tick : s \in StartsOf(events, clear)})

\* clearStats: one clear for each tick, clearer and victim.
ClearStats(events) ==
    {[tick |-> c.tick, clearer |-> c.actor, victim |-> c.victim,
      response |-> Response(events, c)] :
        c \in {x \in OfType(events, "clear") : StartsOf(events, x) # {}}}

-----------------------------------------------------------------------------
(* Lives of infected players: rows have [tick, team, class, ghost] *)

Active(row) ==
    row.team = "Infected" /\ row.class \notin {Nobody, "Survivor"} /\ ~row.ghost

SameLife(before, row) ==
    /\ Active(row)
    /\ before.team = "Infected" /\ before.class = row.class /\ ~before.ghost

Near(deaths, t) == \E d \in deaths : d - t \in (- DeathGap)..DeathGap

\* The life of rows a to b ends at the row that follows it.
Life(rows, deaths, a, b) ==
    [start |-> rows[a].tick,
     end   |-> IF b < Len(rows) THEN rows[b + 1].tick ELSE rows[b].tick,
     class |-> rows[a].class,
     begun |-> IF rows[a].class = Tank THEN "tank-control"
               ELSE IF a > 1 /\ rows[a - 1].ghost THEN "spawn" ELSE "already-active",
     ended |-> IF Near(deaths, rows[b].tick) THEN "death"
               ELSE IF b = Len(rows) THEN "demo-end"
               ELSE IF rows[b + 1].ghost THEN "ghost" ELSE "team-or-class-change"]

\* One row of the scan: `start` is the first row of the open life, 0 for none.
ScanRow(rows, deaths, before, i) ==
    LET active    == i <= Len(rows) /\ Active(rows[i])
        same      == active /\ i > 1 /\ SameLife(rows[i - 1], rows[i])
        ended     == before.start > 0 /\ ~same
    IN [start |-> IF same THEN before.start ELSE IF active THEN i ELSE 0,
        lives |-> IF ended THEN before.lives \cup {Life(rows, deaths, before.start, i - 1)}
                  ELSE before.lives]

\* infectedLives of one player.
InfectedLives(rows, deaths) ==
    LET scan[i \in 0..Len(rows) + 1] ==
            IF i = 0 THEN [start |-> 0, lives |-> {}]
            ELSE ScanRow(rows, deaths, scan[i - 1], i)
    IN scan[Len(rows) + 1].lives

-----------------------------------------------------------------------------
(* Hits *)

Signed(p, life) ==
    [player |-> p, start |-> life.start, end |-> life.end, class |-> life.class,
     begun |-> life.begun, ended |-> life.ended]

\* The lives of all players but those of Tanks, in the order of their spawns.
OrdinaryLives(walk) ==
    LET ordinary == {l \in UNION {{Signed(p, l) : l \in InfectedLives(walk.rows[p], walk.deaths)} :
                                    p \in DOMAIN walk.rows} : l.class # Tank}
    IN CHOOSE s \in SetToSeqs(ordinary) :
        \A i, j \in DOMAIN s : i < j => s[i].start <= s[j].start

\* Slip: each spawn is compared with the one before it.
OpensHitByChain(group, life) == life.start - group[Len(group)].start > SpawnGap

\* A spawn too late for the hit opens the next.
OpensHit(group, life) == life.start - group[1].start > SpawnGap

Groups(lives) ==
    FoldLeft(LAMBDA groups, life :
                 IF groups = <<>> \/ OpensHit(groups[Len(groups)], life)
                 THEN Append(groups, <<life>>)
                 ELSE [groups EXCEPT ![Len(groups)] = Append(@, life)],
             <<>>, lives)

\* clusterSpawnWindows: eight seconds after the last spawn, clipped to the last
\* death and to the next hit.
HitWindows(lives) ==
    LET groups == Groups(lives)
        Members(k) == {groups[k][i] : i \in DOMAIN groups[k]}
        First(k) == groups[k][1].start
        End(k) == Min({Max({l.end : l \in Members(k)}),
                       Max({l.start : l \in Members(k)}) + SpawnGap})
    IN [k \in DOMAIN groups |->
            [start |-> First(k), members |-> Members(k),
             end   |-> IF k = Len(groups) THEN End(k)
                       ELSE Max({First(k), Min({End(k), First(k + 1) - 1})})]]

-----------------------------------------------------------------------------
(* Health lost in a hit: samples of one survivor, [tick, health, upright] *)

\* Slip: "derivation v2 incorrectly included the 300-point incap pool".
ValidWithIncaps(sample) == sample.health # Nobody

Valid(sample) == sample.upright /\ sample.health # Nobody

Contiguous(before, sample) == sample.tick - before.tick \in 1..SampleGap

\* maximumObservedHealthDrawdown: the greatest fall from the peak of a segment.
Drawdown(samples) ==
    LET peak[i \in DOMAIN samples] ==
            IF ~Valid(samples[i]) THEN Nobody
            ELSE IF i = 1 THEN samples[i].health
            ELSE IF peak[i - 1] = Nobody \/ ~Contiguous(samples[i - 1], samples[i])
                 THEN samples[i].health
            ELSE Max({peak[i - 1], samples[i].health})
    IN Max({0} \cup {peak[i] - samples[i].health : i \in {j \in DOMAIN samples : Valid(samples[j])}})

-----------------------------------------------------------------------------
(* Halves: match states have [tick, second], the half being played *)

HalfRange(id, start, end) == [id |-> id, start |-> start, end |-> end]

HalfRanges(states, last) ==
    LET turned == {i \in DOMAIN states :
                    states[i].second = TRUE /\ \E j \in 1..i - 1 : states[j].second = FALSE}
        known  == {i \in DOMAIN states : states[i].second # Nobody}
        secondStart == states[Min(turned)].tick
    IN IF turned # {}
       THEN <<HalfRange("first", 0, Max({0, secondStart - 1})),
              HalfRange("second", secondStart, last)>>
       ELSE <<HalfRange(IF known = {} THEN "unknown"
                        ELSE IF states[Min(known)].second THEN "second" ELSE "first", 0, last)>>

-----------------------------------------------------------------------------
(* What the web application tells of the selected halves *)

InRanges(t, ranges) == \E r \in ranges : t \in r.start..r.end

\* deriveSurvivorHealthTraces: rows of one survivor, [tick, health, upright]; a
\* point for every change, and for every second.
HealthTrace(rows) ==
    LET Repeats(point, row) == /\ row.health = point.health /\ row.upright = point.upright
                               /\ row.tick \div Second = point.tick \div Second
    IN FoldLeft(LAMBDA points, row :
                    IF row.health = Nobody \/ (points # <<>> /\ Repeats(points[Len(points)], row))
                    THEN points ELSE Append(points, row),
                <<>>, rows)

\* Slip: the state a half begins with is not carried into it.
ScopeStatePointsInside(points, ranges) ==
    {points[i] : i \in {j \in DOMAIN points : InRanges(points[j].tick, ranges)}}

\* scopeStatePoints: the points of the ranges, and before each the last one.
ScopeStatePoints(points, ranges) ==
    UNION {LET prior == {j \in DOMAIN points : points[j].tick < r.start}
               inside == {j \in DOMAIN points : points[j].tick \in r.start..r.end}
           IN {points[i] : i \in inside \cup IF prior = {} THEN {} ELSE {Max(prior)}} :
               r \in ranges}

\* rebuildClearStats, from the events of the ranges: without looking for repeats.
RebuildClearStats(events, ranges) ==
    LET scoped == {e \in events : InRanges(e.tick, ranges)}
    IN {[tick |-> c.tick, clearer |-> c.actor, victim |-> c.victim, field |-> c.field,
         response |-> Response(scoped, c)] :
            c \in {x \in OfType(scoped, "clear") : StartsOf(scoped, x) # {}}}

-----------------------------------------------------------------------------
(* Properties, of the recordings looked at *)

Holds(row, v) == \E f \in PinFields : row.pin[f] = v

\* The victims a player lets go: in row i, v.
LetGo(rows, players) ==
    {k \in (2..Len(rows)) \X players : Holds(rows[k[1] - 1], k[2]) /\ ~Holds(rows[k[1]], k[2])}

\* The rows up to i in which a field of the player takes hold of v.
Grips(rows, v, i) ==
    {j \in 2..i : \E f \in PinFields : rows[j].pin[f] = v /\ rows[j - 1].pin[f] # v}

Kills(chase, p) ==
    LET rows == chase.rows[p]
    IN {[tick |-> rows[k[1]].tick, clearer |-> Killer(chase, p, rows[k[1]].tick),
         victim |-> k[2],
         response |-> rows[k[1]].tick - rows[Max(Grips(rows, k[2], k[1]))].tick] :
            k \in {x \in LetGo(rows, DOMAIN chase.rows) :
                    /\ Grips(rows, x[2], x[1]) # {}
                    /\ Killings(chase, p, rows[x[1]].tick) # {}}}

\* Everybody is seen in every snapshot, and no field passes from one to another.
Plain(chase) ==
    /\ \A p, q \in DOMAIN chase.rows :
          /\ Len(chase.rows[p]) = Len(chase.rows[q])
          /\ \A i \in DOMAIN chase.rows[p] : chase.rows[p][i].tick = chase.rows[q][i].tick
    /\ \A p \in DOMAIN chase.rows : \A c \in Changes(chase.rows[p]) :
          Nobody \in {chase.rows[p][c[1] - 1].pin[c[2]], chase.rows[p][c[1]].pin[c[2]]}

Who(clear) == <<clear.tick, clear.clearer, clear.victim>>

ClearsAreKillsIn(chase) ==
    LET stats == ClearStats(Timeline(chase))
        kills == UNION {Kills(chase, p) : p \in DOMAIN chase.rows}
    IN /\ {Who(c) : c \in stats} \subseteq {Who(k) : k \in kills}
       /\ Plain(chase) => stats = kills

\* "Only the narrow death-correlated clears are counted": each is a victim let go
\* by a pinner killed around that row, once, although a charger's carry and pummel
\* overlap or end together.  If everybody was in sight none is missed, and the
\* response is the time since the last grip.
ClearsAreKills == recording.kind = "chase" => ClearsAreKillsIn(recording)

LivesAreWhole(rows, deaths) ==
    LET Stretch(a, b) == \A i \in a..b : Active(rows[i]) /\ rows[i].class = rows[a].class
        longest == {k \in (DOMAIN rows) \X (DOMAIN rows) :
                        /\ k[1] <= k[2] /\ Stretch(k[1], k[2])
                        /\ k[1] = 1 \/ ~Stretch(k[1] - 1, k[2])
                        /\ k[2] = Len(rows) \/ ~Stretch(k[1], k[2] + 1)}
    IN InfectedLives(rows, deaths) = {Life(rows, deaths, k[1], k[2]) : k \in longest}

HitsAreApartIn(lives) ==
    LET hits == HitWindows(lives)
    IN /\ \A j, k \in DOMAIN hits : j < k => hits[j].end < hits[k].start
       /\ \A i \in DOMAIN lives : \E k \in DOMAIN hits :
              lives[i] \in hits[k].members /\ lives[i].start \in hits[k].start..hits[k].end
       /\ \A k \in DOMAIN hits :
              /\ \A l, m \in hits[k].members : l.start - m.start <= SpawnGap
              /\ \E l \in hits[k].members : hits[k].end <= l.end

LossIsOneFallIn(samples) ==
    LET Unbroken(a, b) == /\ \A i \in a..b : samples[i].upright /\ samples[i].health # Nobody
                          /\ \A i \in a + 1..b :
                                samples[i].tick - samples[i - 1].tick <= SampleGap
    IN Drawdown(samples) =
        Max({0} \cup {samples[k[1]].health - samples[k[2]].health :
                k \in {x \in (DOMAIN samples) \X (DOMAIN samples) :
                        x[1] <= x[2] /\ Unbroken(x[1], x[2])}})

\* The lives of a player are the longest stretches of rows as one class, and hits
\* divide them: each spawn lies in the window of its hit and of no other, a hit
\* spans eight seconds of spawns however they follow on each other, and no health
\* is lost in two windows, or in one that outlasts its lives.  What a survivor
\* loses in a window is the greatest fall between two samples without a gap, an
\* incapacitation or an unknown value between them: "healing and repeated state
\* oscillation are not counted twice".
HitsAreApart ==
    CASE recording.kind = "walk" ->
            /\ \A p \in DOMAIN recording.rows :
                  LivesAreWhole(recording.rows[p], recording.deaths)
            /\ HitsAreApartIn(OrdinaryLives(recording))
      [] recording.kind = "wound" -> LossIsOneFallIn(recording.samples)
      [] OTHER -> TRUE

\* Every tick belongs to one half.
HalvesPartition(ranges, last) ==
    \A t \in 0..last :
        Cardinality({k \in DOMAIN ranges : t \in ranges[k].start..ranges[k].end}) = 1

\* A chart shows at a tick the last point up to it.
ShownAt(points, t) ==
    {q \in points : q.tick <= t /\ \A o \in points : o.tick <= t => o.tick <= q.tick}

TraceAgrees(points, rows, range) ==
    \A row \in ToSet(rows) :
        row.health # Nobody /\ InRanges(row.tick, {range}) =>
            \E q \in ShownAt(ScopeStatePoints(points, {range}), row.tick) :
                q.health = row.health /\ q.upright = row.upright

ClearsAgree(events, clears, range) ==
    {Who(c) : c \in RebuildClearStats(events, {range})} \subseteq {Who(c) : c \in clears}

\* A half that is looked at alone says of the health in each of its rows what the
\* row said, although traces leave out what repeats, and has no clear that the
\* whole recording has not, wherever the second half begins.
HalvesAgree ==
    LET chased == recording.kind = "chase"
        points == IF recording.kind = "wound" THEN HealthTrace(recording.samples) ELSE <<>>
        events == IF chased THEN Timeline(recording) ELSE {}
        clears == ClearStats(events)
    IN recording.tick > 0 => \A states \in MatchStates :
        LET ranges == HalfRanges(states, recording.tick)
        IN /\ HalvesPartition(ranges, recording.tick)
           /\ \A k \in DOMAIN ranges :
                 /\ points # <<>> => TraceAgrees(points, recording.samples, ranges[k])
                 /\ ClearsAgree(events, clears, ranges[k])
=============================================================================
