----------------------------- MODULE PlayerRatings -----------------------------
(***************************************************************************)
(* The players of a game and their ratings: the totals the web application *)
(* sums over the demos of a game (apps/web/src/game-aggregation.ts), the   *)
(* inputs of a rating cut from them (packages/l4d2-rating), in the browser *)
(* for all demos at once and in the hosted store one demo at a time, and   *)
(* the rating itself.                                                      *)
(*                                                                         *)
(* A demo has players, one for each lifetime of an entity, [id, slot,      *)
(* user, deaths], halves, [start, end, rows], the lives of infected        *)
(* players, [player, class, start, controls, pins], and the clears,        *)
(* [actor, tick], or Missing.  A row is [player, side, seconds, counts],   *)
(* counts a function from the names of counters; the damage of the six     *)
(* ordinary classes is one.  Rates and indexes are in thousandths, rounded *)
(* down.                                                                   *)
(***************************************************************************)
EXTENDS Integers, FiniteSets, Sequences, Functions

CONSTANT Missing   \* undefined: not a count, not a user

ASSUME MissingIsNoCount == Missing \notin Int

VARIABLE season    \* the demos of a game, in order

\* A function, every value of it worked out once.
Table(f) == CHOOSE g \in {f} : g = f

\* One function, and another where it has no value.
Over(f, g) == [x \in DOMAIN f \cup DOMAIN g |-> IF x \in DOMAIN f THEN f[x] ELSE g[x]]

-----------------------------------------------------------------------------
(* What is rated *)

Metric(role, pillar, planned, weight, halfLife, per, of) ==
    [role |-> role, pillar |-> pillar, planned |-> planned, weight |-> weight,
     halfLife |-> halfLife, per |-> per, of |-> of]

\* Per cent of the role and of the pillar, the exposure that halves the
\* distance from neutral, what a count is divided by, and the counters it is
\* the sum of.
Metrics ==
  LET Survivor(pillar, planned, weight, of) ==
          Metric("Survivor", pillar, planned, weight, 300, "seconds", of)
      Infected(pillar, planned, weight, of) ==
          Metric("Infected", pillar, planned, weight, 4, "lives", of)
  IN {Survivor("removal", 45, 100, {"kills"}),
      Survivor("rescue", 20, 70, {"revives"}),
      Survivor("rescue", 20, 30, {"clears"}),
      Survivor("durability", 20, 35, {"deaths"}),
      Survivor("durability", 20, 30, {"incaps"}),
      Survivor("durability", 20, 35, {"damageTaken"}),
      Survivor("bosses", 15, 80, {"tankDamage"}),
      Survivor("bosses", 15, 20, {"witchDamage"}),
      Infected("conversion", 45, 50, {"damage"}),
      Infected("conversion", 45, 30, {"specialIncaps"}),
      Infected("conversion", 45, 20, {"pzKills"}),
      Infected("control", 30, 60, {"controls"}),
      Metric("Infected", "control", 30, 40, 4, "controls", {"pins"}),
      Infected("setup", 15, 35, {"bombed", "vomited"}),
      Infected("setup", 15, 25, {"pulled", "hung"}),
      Infected("setup", 15, 25, {"charged"}),
      Infected("setup", 15, 15, {"pounces"}),
      Metric("Infected", "tank", 10, 70, 1, "tanks", {"punches"}),
      Metric("Infected", "tank", 10, 30, 1, "tanks", {"throws"})}

\* The counters a player is better for having less of.
LowerIsBetter == {"deaths", "incaps", "damageTaken"}

-----------------------------------------------------------------------------
(* RatingProjectionStats: what a demo says *)

Tally == Nat \cup {Missing}

DerivedNames == {"clears", "lives", "controls", "pins", "tanks"}

\* A row of a half: its counts are known or missing, and none of them derived.
Line(row) ==
    /\ row = [player |-> row.player, side |-> row.side, seconds |-> row.seconds,
              counts |-> row.counts]
    /\ row.seconds \in Nat
    /\ row.counts \in [DOMAIN row.counts -> Tally]
    /\ DOMAIN row.counts \cap DerivedNames = {}

HalfOf(half, players) ==
    /\ half = [start |-> half.start, end |-> half.end, rows |-> half.rows]
    /\ half.rows = [r \in DOMAIN half.rows |-> half.rows[r]]
    /\ IsFiniteSet(DOMAIN half.rows)
    /\ \A r \in DOMAIN half.rows :
          Line(half.rows[r]) /\ \E p \in players : p.id = half.rows[r].player

Demo(demo) ==
    /\ demo = [players |-> demo.players, lives |-> demo.lives, clears |-> demo.clears,
               halves |-> demo.halves]
    /\ IsFiniteSet(demo.players)
    /\ \A p, q \in demo.players : p.id = q.id => p = q
    /\ \A p \in demo.players : p.deaths \in Tally
    /\ IsFiniteSet(demo.lives)
    /\ \A l \in demo.lives : l.controls \in Nat /\ l.pins \in Nat
    /\ demo.clears = Missing \/ IsFiniteSet(demo.clears)
    /\ demo.halves = [h \in DOMAIN demo.halves |-> demo.halves[h]]
    /\ IsFiniteSet(DOMAIN demo.halves)
    /\ \A h \in DOMAIN demo.halves : HalfOf(demo.halves[h], demo.players)

\* The demos of a game.  Who is known by a demo and an id is no user.
Played(demos) ==
    /\ demos = [d \in DOMAIN demos |-> demos[d]]
    /\ IsFiniteSet(DOMAIN demos)
    /\ \A d \in DOMAIN demos : Demo(demos[d])
    /\ \A d, e \in DOMAIN demos : \A p \in demos[d].players, q \in demos[e].players :
          p.user # <<e, q.id>>

-----------------------------------------------------------------------------
(* projectRatingInputs: what is known of a player in demos, by whoever a     *)
(* player of a demo is resolved to *)

\* The rows of the halves of the demos.
Places(demos) ==
    UNION {UNION {{<<d, h, r>> : r \in DOMAIN demos[d].halves[h].rows} :
                    h \in DOMAIN demos[d].halves} : d \in DOMAIN demos}

PlainRow(demos, place) == demos[place[1]].halves[place[2]].rows[place[3]]

PlayerAt(demos, place) ==
    CHOOSE p \in demos[place[1]].players : p.id = PlainRow(demos, place).player

Inside(half, tick) == half.start <= tick /\ tick <= half.end

\* What a half saw of a player that no counter counts.
Derived(demo, half, player) ==
    LET lives == {l \in demo.lives : l.player = player /\ Inside(half, l.start)}
        ordinary == {l \in lives : l.class # "Tank"}
    IN [clears   |-> IF demo.clears = Missing THEN Missing
                     ELSE Cardinality({c \in demo.clears :
                                          c.actor = player /\ Inside(half, c.tick)}),
        lives    |-> Cardinality(ordinary),
        controls |-> SumFunction([l \in ordinary |-> l.controls]),
        pins     |-> SumFunction([l \in ordinary |-> l.pins]),
        tanks    |-> Cardinality(lives \ ordinary)]

RowAt(demos, place) ==
    LET demo == demos[place[1]]
        row == PlainRow(demos, place)
    IN [row EXCEPT !.counts = Over(@, Derived(demo, demo.halves[place[2]], row.player))]

Counter(row, name) ==
    IF name \in DOMAIN row.counts THEN row.counts[name] ELSE Missing

\* A composite is known when every counter of it is.
Numerator(row, m) ==
    IF \E n \in m.of : Counter(row, n) = Missing THEN Missing
    ELSE SumFunction([n \in m.of |-> Counter(row, n)])

Exposure(row, m) ==
    IF m.per = "seconds" THEN row.seconds ELSE row.counts[m.per]

On(row, side) == {x \in DOMAIN row : row[x].side = side}

\* The rows in which a metric is known.
Adding(row, m) ==
    {x \in On(row, m.role) : Numerator(row[x], m) # Missing /\ Exposure(row[x], m) > 0}

\* The inputs of one resolved player, from his rows.
InputOf(row) ==
    [maps    |-> Cardinality({x[1] : x \in DOMAIN row}),
     seconds |-> SumFunction([x \in On(row, "Survivor") |-> row[x].seconds]),
     lives   |-> SumFunction([x \in On(row, "Infected") |-> row[x].counts["lives"]]),
     metrics |-> Table(
        [m \in {n \in Metrics : Adding(row, n) # {}} |->
            [total    |-> SumFunction([x \in Adding(row, m) |-> Numerator(row[x], m)]),
             exposure |-> SumFunction([x \in Adding(row, m) |-> Exposure(row[x], m)])]])]

\* who is the player that is rated at each place, or Missing.
RowsOf(demos, who, u) == Table([x \in {y \in DOMAIN who : who[y] = u} |-> RowAt(demos, x)])

ProjectInputs(demos, who) ==
    Table([u \in Range(who) \ {Missing} |-> InputOf(RowsOf(demos, who, u))])

\* The quotient of a metric does not survive: a total is the value times the
\* exposure it was divided by.
MergeInputs(inputs) ==
    LET With(m) == {i \in DOMAIN inputs : m \in DOMAIN inputs[i].metrics}
    IN [maps    |-> SumFunction([i \in DOMAIN inputs |-> inputs[i].maps]),
        seconds |-> SumFunction([i \in DOMAIN inputs |-> inputs[i].seconds]),
        lives   |-> SumFunction([i \in DOMAIN inputs |-> inputs[i].lives]),
        metrics |->
            [m \in {n \in Metrics : With(n) # {}} |->
                [total    |-> SumFunction([i \in With(m) |-> inputs[i].metrics[m].total]),
                 exposure |-> SumFunction([i \in With(m) |-> inputs[i].metrics[m].exposure])]]]

-----------------------------------------------------------------------------
(* Who the players of a game are *)

\* The users known in a slot of a demo.
SlotUsers(demo, slot) ==
    {p.user : p \in {q \in demo.players : q.slot = slot}} \ {Missing}

\* A player without an identity is the only user of his slot, or himself.
KeyOf(demo, d, p) ==
    LET users == SlotUsers(demo, p.slot)
    IN IF p.user # Missing THEN p.user
       ELSE IF Cardinality(users) = 1 THEN CHOOSE u \in users : TRUE
       ELSE <<d, p.id>>

\* sumOptional, within a demo: what is not known is left out.
SumKnown(f) ==
    LET known == {x \in DOMAIN f : f[x] # Missing}
    IN IF known = {} THEN Missing ELSE SumFunctionOnSet(f, known)

\* sumOptional, across demos: what is not known in one is not known at all.
SumStrict(f) == IF Missing \in Range(f) THEN Missing ELSE SumFunction(f)

EntriesIn(demo, d, k) == {p \in demo.players : KeyOf(demo, d, p) = k}

\* The deaths under a key, by demo.
DeathsOf(demos, k) ==
    [d \in {e \in DOMAIN demos : EntriesIn(demos[e], e, k) # {}} |->
        SumKnown([p \in EntriesIn(demos[d], d, k) |-> p.deaths])]

\* aggregateGamePlayers: the keys, and the deaths of each.
AggregatePlayers(demos) ==
    [k \in UNION {{KeyOf(demos[d], d, p) : p \in demos[d].players} : d \in DOMAIN demos} |->
        SumStrict(DeathsOf(demos, k))]

\* Slip: by what the player was summed under.
WebResolveByKey(demos, p, d) == KeyOf(demos[d], d, p)

\* A player with an identity by it, another by demo and id; whoever was summed
\* under the user of his slot is not found.
WebResolve(demos, p, d) ==
    IF p.user # Missing THEN p.user
    ELSE IF KeyOf(demos[d], d, p) = <<d, p.id>> THEN <<d, p.id>> ELSE Missing

\* rateGamePlayers
WebInputs(demos) ==
    ProjectInputs(demos,
        Table([x \in Places(demos) |-> WebResolve(demos, PlayerAt(demos, x), x[1])]))

\* materializeAnalysisStats: one demo at a time, identified players only.
MaterializedInputs(demo) ==
    ProjectInputs(<<demo>>, Table([x \in Places(<<demo>>) |-> PlayerAt(<<demo>>, x).user]))

\* getPlayerHistory and publicStats merge what was materialized of a user.
CareerInput(inputs, u) ==
    MergeInputs([d \in {e \in DOMAIN inputs : u \in DOMAIN inputs[e]} |-> inputs[d][u]])

-----------------------------------------------------------------------------
(* rateL4d2Match: inputs is a function from players *)

Neutral == 1000
Clamped(x) == IF x < 600 THEN 600 ELSE IF x > 1400 THEN 1400 ELSE x

Observed(input, m) ==
    /\ m \in DOMAIN input.metrics
    /\ input.metrics[m].total >= 0
    /\ input.metrics[m].exposure > 0

Value(o) == (1000 * o.total) \div o.exposure

\* The rate of a player among his peers, turned so that more is better.
DirectedUnturned(m, positive) == positive
Directed(m, positive) == IF m.of \subseteq LowerIsBetter THEN 2 * Neutral - positive ELSE positive

\* The indexes of a metric at least four players were observed in.
PeerIndex(inputs, m) ==
    LET peers == {p \in DOMAIN inputs : Observed(inputs[p], m)}
        value == Table([p \in peers |-> Value(inputs[p].metrics[m])])
        total == SumFunction(value)
    IN IF Cardinality(peers) < 4 THEN << >>
       ELSE Table([p \in peers |->
                IF total = 0 THEN Neutral
                ELSE Clamped(Directed(m, (Neutral * Cardinality(peers) * value[p]) \div total))])

\* The index, drawn to neutral when there was little to see.
Adjusted(index, o, m) ==
    Neutral + (o.exposure * (index - Neutral)) \div (o.exposure + m.halfLife)

\* The metrics a player was observed in, by the pillars of a role.
Pillars(index, p, role) ==
    LET seen == {m \in DOMAIN index : m.role = role /\ p \in DOMAIN index[m]}
    IN Table([q \in {m.pillar : m \in seen} |-> {m \in seen : m.pillar = q}])

Weight(members) == SumFunction([m \in members |-> m.weight])

PillarScore(input, index, p, members) ==
    LET Contribution(m) == m.weight * (Adjusted(index[m][p], input.metrics[m], m) - Neutral)
    IN Clamped(Neutral + SumFunction([m \in members |-> Contribution(m)]) \div Weight(members))

\* What a pillar was planned to weigh, by how much of it was observed.
Realized(members) == (CHOOSE m \in members : TRUE).planned * Weight(members)

Opportunity(input, role) ==
    IF role = "Survivor" THEN input.seconds >= 120 ELSE input.lives >= 3

\* The rating of a role: the mean of its pillars; Missing when too little was seen.
RoleScore(input, index, p, role) ==
    LET pillars == Pillars(index, p, role)
        realized == Table([q \in DOMAIN pillars |-> Realized(pillars[q])])
        PillarShare(q) == PillarScore(input, index, p, pillars[q]) * realized[q]
    IN IF /\ Opportunity(input, role)
          /\ SumFunction(realized) >= 7000 /\ Cardinality(DOMAIN pillars) >= 2
       THEN SumFunction([q \in DOMAIN pillars |-> PillarShare(q)]) \div SumFunction(realized)
       ELSE Missing

\* The rating of those who played two maps and both roles.
Overall(survivor, infected) ==
    IF survivor = Missing \/ infected = Missing THEN Missing ELSE (survivor + infected) \div 2

RatingsBy(inputs, index) ==
    Table([p \in DOMAIN inputs |->
             IF inputs[p].maps < 2 THEN Missing
             ELSE Overall(RoleScore(inputs[p], index, p, "Survivor"),
                          RoleScore(inputs[p], index, p, "Infected"))])

Ratings(inputs) == RatingsBy(inputs, Table([m \in Metrics |-> PeerIndex(inputs, m)]))

\* Whoever is within two hundredths of the best.
Leaders(rating) ==
    LET rated == {p \in DOMAIN rating : rating[p] # Missing}
    IN {p \in rated : \A q \in rated : rating[q] - rating[p] <= 20}

-----------------------------------------------------------------------------
(* Properties *)

Agree(page, career, u) == IF u \in DOMAIN page THEN page[u] = career ELSE career.maps = 0

\* The users of demos, their players, and those who have deaths.
Identified(demos) ==
    (UNION {{p.user : p \in demos[d].players} : d \in DOMAIN demos}) \ {Missing}
Entries(demos) == UNION {{<<d, p>> : p \in demos[d].players} : d \in DOMAIN demos}
Counted(demos) == {e \in Entries(demos) : e[2].deaths # Missing}

\* The totals of a game, and every player of every demo who has deaths.
CountedOnce(total, counted) ==
    Missing \notin Range(total) => SumFunction(total) = SumFunction([e \in counted |-> e[2].deaths])

\* The input a game gives its page and the input a career merges demo by demo are
\* the same for every identified user, though the page resolves players through
\* the totals it summed and the store through the identities of one demo
\* (player-rating.ts:4, hosted.ts:715 and :1076); and the totals of a game count
\* every player of every demo once, or are not known (game-aggregation.ts:160).
PageAndCareerAgree ==
    LET page == WebInputs(season)
        stored == [d \in DOMAIN season |-> MaterializedInputs(season[d])]
    IN season # << >> =>
       /\ \A u \in Identified(season) : Agree(page, CareerInput(stored, u), u)
       /\ CountedOnce(AggregatePlayers(season), Counted(season))

\* The season with one more counted at a place.
OneMore(demos, x, name) ==
    [demos EXCEPT ![x[1]].halves[x[2]].rows[x[3]].counts[name] = @ + 1]

\* Ratings before and after u did more, of what is bad or not.
Least(x, y) == x = y \/ (x # Missing /\ y # Missing /\ x <= y)

Pays(before, after, u, bad) ==
    /\ DOMAIN after = DOMAIN before
    /\ \A p \in DOMAIN before :
          IF (p = u) = bad THEN Least(after[p], before[p]) ELSE Least(before[p], after[p])
    /\ (u \in Leaders(before) /\ ~bad) => u \in Leaders(after)

\* One more of what a player does well never costs him rating, nor the lead, and
\* gains no peer any; one more of what he does badly gains him none and costs no
\* peer; neither makes or unmakes a rating (rating.ts:348, :401).
PlayPaysOff ==
    LET before == Ratings(WebInputs(season))
    IN season # << >> =>
       \A x \in Places(season) : \A name \in DOMAIN PlainRow(season, x).counts :
         PlainRow(season, x).counts[name] # Missing =>
           Pays(before, Ratings(WebInputs(OneMore(season, x, name))),
                WebResolve(season, PlayerAt(season, x), x[1]), name \in LowerIsBetter)
=============================================================================
