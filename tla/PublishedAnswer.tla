--------------------------- MODULE PublishedAnswer ---------------------------
(***************************************************************************)
(* From one readout to the numbers and the answer the server publishes:    *)
(* Readout::slot_logprob, softmax over the declared slots, round6, the     *)
(* repair of the sum, and the answer read off the repaired map.            *)
(*                                                                         *)
(* A readout gives a slot a mass per spelling ("A" and " A"), an integer   *)
(* standing for exp(logprob); softmax divides by the total.  Published     *)
(* probabilities are integers in units of 1/Unit (the code's Unit is       *)
(* 1000000), so round6 and the residual are exact here and floating point  *)
(* noise below one unit is not modelled.  Slots are 1..n in declared order *)
(* (`order` in the code), which for a choice is also the map's key order.  *)
(***************************************************************************)
EXTENDS Integers, Sequences, Functions

CONSTANTS
    Unit,       \* published probabilities are multiples of 1/Unit
    Absent,     \* a spelling that is not in the top-k
    Readouts    \* sequences of [bare, spaced], one per declared slot

\* A spelling in the top-k has a positive probability.  A question has a slot
\* at least, and few against the unit: the renderer has 26 letters, and the
\* code's unit is a million.
ASSUME ReadoutAssumption ==
    /\ Unit \in Nat \ {0}
    /\ Absent \notin Nat
    /\ \A r \in Readouts :
          /\ r \in [1..Len(r) -> [bare : (Nat \ {0}) \cup {Absent},
                                spaced : (Nat \ {0}) \cup {Absent}]]
          /\ Len(r) \in Nat \ {0}
          /\ Len(r) * (Len(r) - 2) <= 2 * Unit

VARIABLES
    readout,   \* what the backend returned for the question
    probs,     \* the map being published, in slot order
    choice,    \* the answer of a choice question
    score,     \* the answer of a score question, in units
    noul,      \* the answer of a noul question, in units
    answerPhase

answerVars == <<readout, probs, choice, score, noul, answerPhase>>

DeclaredSlots == DOMAIN readout
Total(f) == SumFunction(f)

-----------------------------------------------------------------------------
(* slot_logprob and softmax *)

Missing(r, i) == r[i].bare = Absent /\ r[i].spaced = Absent

\* The masses of both spellings are added (log-sum-exp in the code).
SlotMass(r, i) ==
    (IF r[i].bare = Absent THEN 0 ELSE r[i].bare)
        + (IF r[i].spaced = Absent THEN 0 ELSE r[i].spaced)

Masses(r) == [i \in DOMAIN r |-> SlotMass(r, i)]

\* Mutant: rounded down.
Round6Down(mass, total) == (mass * Unit) \div total

\* round6 of mass/total, half away from zero.
Round6(mass, total) == (2 * mass * Unit + total) \div (2 * total)

-----------------------------------------------------------------------------
(* argmax_in_order and repair_probability_sum *)

\* Mutant: compare with the first slot instead of the best so far.
ArgmaxAgainstFirst(p) ==
    LET above == {i \in DOMAIN p : p[i] > p[1]} IN
    IF above = {} THEN 1 ELSE CHOOSE i \in above : \A j \in above : j <= i

\* The first maximum in declared order.
ArgmaxInOrder(p) ==
    CHOOSE i \in DOMAIN p :
        /\ \A j \in DOMAIN p : p[j] <= p[i]
        /\ \A j \in 1..(i - 1) : p[j] < p[i]

Residual(p) == Unit - Total(p)

\* Mutant: only a deficit is repaired.
RepairOnlyDeficit(p) ==
    IF Residual(p) > 0 THEN [p EXCEPT ![ArgmaxInOrder(p)] = @ + Residual(p)] ELSE p

\* The whole residual, of either sign, goes to the first maximum.
RepairProbabilitySum(p) ==
    IF Residual(p) = 0 THEN p ELSE [p EXCEPT ![ArgmaxInOrder(p)] = @ + Residual(p)]

\* score_expectation: level i of the code's 0-based levels is slot i + 1.
ScoreExpectation(p) == Total([i \in DOMAIN p |-> (i - 1) * p[i]])

-----------------------------------------------------------------------------
AnswerInit ==
    /\ readout \in Readouts
    /\ probs = <<>>
    /\ choice = 0
    /\ score = 0
    /\ noul = 0
    /\ answerPhase = "read"

\* A declared slot without any spelling in the top-k ends the request: it is
\* neither scored as zero nor left out of the distribution.
SlotMissing ==
    /\ answerPhase = "read"
    /\ \E i \in DeclaredSlots : Missing(readout, i)
    /\ answerPhase' = "missing"
    /\ UNCHANGED <<readout, probs, choice, score, noul>>

\* softmax over the declared slots, rounded slot by slot.
Round ==
    /\ answerPhase = "read"
    /\ \A i \in DeclaredSlots : ~Missing(readout, i)
    /\ LET m == Masses(readout) IN
       probs' = [i \in DeclaredSlots |-> Round6(m[i], Total(m))]
    /\ answerPhase' = "rounded"
    /\ UNCHANGED <<readout, choice, score, noul>>

\* The residual is handed to one slot.
Repair ==
    /\ answerPhase = "rounded"
    /\ probs' = RepairProbabilitySum(probs)
    /\ answerPhase' = "repaired"
    /\ UNCHANGED <<readout, choice, score, noul>>

\* The three kinds of answer, each from the published map.
Publish ==
    /\ answerPhase = "repaired"
    /\ choice' = ArgmaxInOrder(probs)
    /\ score' = ScoreExpectation(probs)
    /\ noul' = probs[1]
    /\ answerPhase' = "published"
    /\ UNCHANGED <<readout, probs>>

AnswerNext == SlotMissing \/ Round \/ Repair \/ Publish

AnswerSpec == AnswerInit /\ [][AnswerNext]_answerVars

-----------------------------------------------------------------------------
Published == answerPhase = "published"

\* Twice the difference is at most d.
Near(a, b, d) == 2 * (a - b) <= d /\ 2 * (b - a) <= d

\* The published distribution is one: no slot negative, and it sums to 1
\* exactly, whatever rounding did to the slots.
IsDistribution ==
    Published => Total(probs) = Unit /\ \A i \in DeclaredSlots : probs[i] >= 0

\* What is published is the readout's own distribution up to what rounding may
\* cost: the residual went to one slot, which is off by no more than half a unit
\* for each of the others; every other slot is within half a unit of its softmax
\* value, and no two of those are published in the opposite order.
PublishedIsNearReadout ==
    Published =>
        LET m == Masses(readout)
            M == Total(m)
        IN  \E s \in DeclaredSlots :
                /\ Near(probs[s] * M, m[s] * Unit, (Len(readout) - 1) * M)
                /\ \A i \in DeclaredSlots \ {s} :
                    /\ Near(probs[i] * M, m[i] * Unit, M)
                    /\ \A j \in DeclaredSlots \ {s} : m[i] <= m[j] => probs[i] <= probs[j]

\* Rounding and repair never make an answer of a slot that was really behind:
\* the answer's true probability is within (n + 2)/2 units of the largest.
ChoiceIsNearBest ==
    Published =>
        LET m == Masses(readout) IN
        \A i \in DeclaredSlots :
            2 * (m[i] - m[choice]) * Unit <= (Len(readout) + 2) * Total(m)

\* "so an all-equal distribution resolves to the first declared option", and
\* "the repaired vector's argmax is still the slot we report": the comments
\* on argmax_in_order and on its test.
AllEqualNamesFirst ==
    Published /\ (\A i, j \in DeclaredSlots : SlotMass(readout, i) = SlotMass(readout, j))
        => choice = 1
=============================================================================
