-------------------------------- MODULE MCGames --------------------------------
(* HostedGames on small instances, and the sessions that demos come from. *)
EXTENDS HostedGames, TLC

CONSTANTS j1, j2, j3, k1, w1, w2, p1, p2, s1, r1, r2, a1, a2

\* A recording of one map of the campaign a: its server generation counts with
\* the chapters, and two recordings of one map are two demos.
Recording(copy, a, chapter, roster, people) ==
    [server |-> s1, roster |-> roster, campaign |-> a, count |-> chapter,
     chapter |-> chapter, sha |-> <<copy, a, chapter, roster>>, players |-> people]

\* A demo in which the parser found no server.
Anonymous ==
    [server |-> None, roster |-> None, campaign |-> None, count |-> None,
     chapter |-> None, sha |-> <<"anonymous">>, players |-> {p1}]

\* Three maps in a row, the last one after a substitution, a map of another
\* campaign, a map that was only watched, and a demo without evidence.
SerialSessions ==
    {Recording("a", a1, 1, r1, {p1}), Recording("a", a1, 2, r1, {p1}),
     Recording("a", a1, 3, r2, {p1}), Recording("a", a2, 2, r1, {p1}),
     Recording("a", a1, 2, None, {p1}), Anonymous}

\* The one external group consists of the first two jobs.
FirstTwo == [k \in Groups |-> {j1, j2}]

\* Jobs that the groups do not tell apart.
Symmetry == Permutations({j1, j2}) \cup Permutations(Writers)
=============================================================================
