------------------------------ MODULE ReviewScores ------------------------------
(***************************************************************************)
(* The review priority of a player from the evidence against him           *)
(* (packages/scoring): how evidence is capped and summed to features, and  *)
(* what the policy lets be said of them.                                   *)
(*                                                                         *)
(* An item of evidence is [demo, encounter, family, detector, strength,    *)
(* quality, reconstruction]; quality and reconstruction are per cent.      *)
(* Sums are in hundredths, rounded down where an encounter is scaled.      *)
(***************************************************************************)
EXTENDS Integers, FiniteSets, FiniteSetsExt, Functions

CONSTANTS
    Caps,        \* AggregationCaps: detector, familyInEncounter, encounter,
                 \* familyInDemo, familyOfPlayer
    Policy,      \* OperatingPolicy: encounters, demos, families, reconstruction,
                 \* anomalousDemos, anomalousFamilies
    Orthogonal,  \* orthogonalSignalFamilies
    Accepted     \* the bundle passed the calibration and operating-point gates

ASSUME CapsArePositive ==
    LET Cap == Nat \ {0}
    IN Caps \in [detector : Cap, familyInEncounter : Cap, encounter : Cap,
                 familyInDemo : Cap, familyOfPlayer : Cap]

VARIABLE evidence  \* the evidence against one player

Clipped(x, cap) == IF x > cap THEN cap ELSE x

-----------------------------------------------------------------------------
(* aggregateEvidence *)

\* Evidence that is not refused (validateEvidence).
Itemized(items) ==
    /\ IsFiniteSet(items)
    /\ \A i \in items : i.strength \in Nat /\ i.quality \in Nat

Qualifying(items) == {i \in items : i.strength > 0 /\ i.quality > 0}

Demos(items)      == {i.demo : i \in Qualifying(items)}
Encounters(items) == {<<i.demo, i.encounter>> : i \in Qualifying(items)}
Families(items)   == {i.family : i \in Qualifying(items)}

InEncounter(items, e) == {i \in Qualifying(items) : i.demo = e[1] /\ i.encounter = e[2]}

\* The strongest item of each detector.
Detectors(members) ==
    LET Strongest(d) ==
            Max({Clipped(i.strength * i.quality, Caps.detector) :
                    i \in {x \in members : x.detector = d}})
    IN SumFunction([d \in {i.detector : i \in members} |-> Strongest(d)])

\* What a family is worth in an encounter, before the encounter is scaled.
Share(items, e, f) ==
    Clipped(Detectors({i \in InEncounter(items, e) : i.family = f}), Caps.familyInEncounter)

EncounterTotal(items, e) == SumFunction([f \in Families(items) |-> Share(items, e, f)])

\* Slip: an encounter is not scaled.
ScaledNot(items, e, f) == Share(items, e, f)

\* All families of an encounter share its cap.
Scaled(items, e, f) ==
    LET total == EncounterTotal(items, e)
    IN IF total > Caps.encounter THEN (Share(items, e, f) * Caps.encounter) \div total
       ELSE Share(items, e, f)

FamilyInDemo(items, d, f) ==
    SumFunction([e \in {x \in Encounters(items) : x[1] = d} |-> Scaled(items, e, f)])

\* The cappedValue of a family's feature.
Feature(items, f) ==
    Clipped(SumFunction([d \in Demos(items) |->
                            Clipped(FamilyInDemo(items, d, f), Caps.familyInDemo)]),
            Caps.familyOfPlayer)

\* Of all items, those of no strength included.
Reconstruction(items) == Min({i.reconstruction : i \in items})

-----------------------------------------------------------------------------
(* applyPolicy *)

Sufficient(items) ==
    /\ Cardinality(Encounters(items)) >= Policy.encounters
    /\ Cardinality(Demos(items)) >= Policy.demos
    /\ Cardinality(Families(items)) >= Policy.families
    /\ Reconstruction(items) >= Policy.reconstruction

Anomalous(items) ==
    /\ Reconstruction(items) >= Policy.reconstruction
    /\ \/ Cardinality(Demos(items)) >= Policy.anomalousDemos
       \/ Cardinality(Families(items) \cap Orthogonal) >= Policy.anomalousFamilies

Status(items) ==
    IF ~Sufficient(items) THEN "insufficient-data"
    ELSE IF ~Accepted THEN "ranked-evidence"
    ELSE "calibrated-priority"

Label(items) ==
    IF ~Sufficient(items) THEN "insufficient-data"
    ELSE IF Anomalous(items) THEN "highly-anomalous"
    ELSE "review"

-----------------------------------------------------------------------------

Distance(x, y) == IF x > y THEN x - y ELSE y - x

\* One encounter, however many windows of however many detectors and families
\* report on it, moves the features of a player by no more than the encounter's
\* cap in all, and two items of one detector in it count as the stronger one; and
\* whatever it alone adds never makes a player highly anomalous, unless it brings
\* a demo or a family of its own (aggregate.ts:79; docs/decisions/0005:71-75).
EncountersWeighLittle ==
    \A e \in Encounters(evidence) :
        LET inside == {i \in evidence : i.demo = e[1] /\ i.encounter = e[2]}
            rest == evidence \ inside
            Moved(f) == Distance(Feature(evidence, f), Feature(rest, f))
        IN /\ SumFunction([f \in Families(evidence) |-> Moved(f)]) <= Caps.encounter
           /\ \A i, j \in inside :
                /\ i # j /\ i.detector = j.detector /\ i.family = j.family
                /\ i.strength * i.quality <= j.strength * j.quality
                => \A f \in Families(evidence) :
                        Feature(evidence, f) = Feature(evidence \ {i}, f)
           /\ /\ Label(evidence) = "highly-anomalous"
              /\ rest # {} /\ Label(rest) = "review"
              => Demos(evidence) # Demos(rest) \/ Families(evidence) # Families(rest)
=============================================================================
