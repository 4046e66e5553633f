-------------------------- MODULE SlotVerification --------------------------
(***************************************************************************)
(* jev_core::slots::verify_slots as an operator on an encoding, the texts  *)
(* it needs, and how many slots render_question gives a question.          *)
(*                                                                         *)
(* A text is a sequence of pieces: a prompt is <<p>>, slot letter i is     *)
(* <<i>>, and the prompt with the letter appended is <<p, i>>.  An         *)
(* encoding maps each text to its token ids, a non-empty sequence.         *)
(***************************************************************************)
EXTENDS Naturals, Sequences, FiniteSets

CONSTANTS
    MaxLetterSlots,    \* render.rs: letters A..Z name at most 26 slots
    MaxChoiceOptions   \* contract.rs: the public limit of a choice, 255

ASSUME MaxLetterSlotsAssumption == MaxLetterSlots \in Nat

Prompt(p) == <<p>>
Letter(i) == <<i>>
Appended(p, i) == <<p, i>>

\* The texts verify_slots(p, n) encodes.
TextsOf(p, n) == {Prompt(p)} \cup UNION {{Letter(i), Appended(p, i)} : i \in 1..n}

\* Mutant: the letters are fetched, their appended forms are not.
PrefetchTextsBareLetters(p, n) == {Prompt(p)} \cup {Letter(i) : i \in 1..n}

\* The texts the handler and the startup check prefetch for n slots.
PrefetchTexts(p, n) == {Prompt(p)} \cup {Letter(i) : i \in 1..n}
                                   \cup {Appended(p, i) : i \in 1..n}

-----------------------------------------------------------------------------
(* verify_slots *)

SingleToken(enc, i) == Len(enc[Letter(i)]) = 1

\* Appending the letter leaves the prompt's tokens alone and adds its token.
KeepsBoundary(enc, p, i) ==
    enc[Appended(p, i)] = Append(enc[Prompt(p)], enc[Letter(i)][1])

\* Slots that share their token with another slot of the question.
Colliding(enc, n) ==
    {i \in 1..n : \E j \in 1..n \ {i} : enc[Letter(i)][1] = enc[Letter(j)][1]}

First(S) == CHOOSE i \in S : \A j \in S : i <= j

Accepted == "accepted"

\* Mutant: the collision check is left out.
VerifySlotsWithoutCollisions(enc, p, n) ==
    LET bad == {i \in 1..n : ~SingleToken(enc, i) \/ ~KeepsBoundary(enc, p, i)} IN
    IF bad = {} THEN Accepted
    ELSE IF SingleToken(enc, First(bad)) THEN "SlotBoundaryChanged"
    ELSE "SlotNotSingleToken"

\* The first letter that fails check 1 or 2 decides, check 1 before check 2;
\* collisions are looked for only when every letter passed.
VerifySlots(enc, p, n) ==
    LET bad == {i \in 1..n : ~SingleToken(enc, i) \/ ~KeepsBoundary(enc, p, i)} IN
    IF bad # {}
      THEN IF SingleToken(enc, First(bad)) THEN "SlotBoundaryChanged"
                                           ELSE "SlotNotSingleToken"
      ELSE IF Colliding(enc, n) # {} THEN "SlotCollision" ELSE Accepted

-----------------------------------------------------------------------------
(* render_question: how many slots a question gets, or why it is refused. *)

RenderSlots(kind, n) ==
    CASE kind = "noul" -> Accepted
      [] kind = "choice" /\ n < 2 -> "TooFewChoiceOptions"
      [] kind = "choice" /\ n > MaxChoiceOptions -> "TooManyChoiceOptions"
      [] kind = "score" /\ n < 2 -> "TooFewScoreLevels"
      [] n > MaxLetterSlots -> "TooManyLetterSlots"
      [] OTHER -> Accepted

SlotCount(kind, n) == IF kind = "noul" THEN 2 ELSE n
=============================================================================
