-------------------------------- MODULE MCArchive --------------------------------
(* LocalArchive on a small instance: three maps of a match, the first of them  *)
(* uploaded once and enqueued twice.                                           *)
EXTENDS LocalArchive, TLC

CONSTANTS j1, j2, j3, j4, d1, d2, d3, s1, s2, s3, u1, c1, c2, k1, r1, p1

FourJobs == {j1, j2, j3, j4}
DemoOfJob == [j \in FourJobs |-> CASE j = j3 -> d3 [] j = j4 -> d2 [] OTHER -> d1]
ResultOfJob == [j \in FourJobs |-> CASE j = j3 -> s3 [] j = j4 -> s2 [] OTHER -> s1]
UploadOfJob == [j \in FourJobs |-> IF j \in {j1, j2} THEN u1 ELSE None]

\* A player of a stable token is in the first two maps, one without in the first.
CasesOfDemo == [d \in Demos |-> CASE d = d1 -> {c1, c2} [] d = d2 -> {c1} [] OTHER -> {}]

Map(n) == [server |-> k1, roster |-> r1, campaign |-> "c1", count |-> n, chapter |-> n,
           players |-> {p1}]
SessionOfDemo == [d \in Demos |-> CASE d = d1 -> Map(1) [] d = d2 -> Map(2) [] d = d3 -> Map(3)]

RankOfFile == [f \in Files |-> CASE f = u1 -> 1 [] f = d1 -> 2 [] f = s1 -> 3 [] f = d2 -> 4
                               [] f = s2 -> 5 [] f = d3 -> 6 [] f = s3 -> 7]

Symmetry == Permutations({j1, j2})
=============================================================================
