----------------------------- MODULE ServerStart -----------------------------
(***************************************************************************)
(* jev-server's main: read the environment, build the tokenizer, run the   *)
(* slot self-check, and only then bind the port.  Afterwards the process   *)
(* answers questions, each of which is verified against its own prompt.    *)
(***************************************************************************)
EXTENDS SlotVerification

CONSTANTS
    PromptTail,     \* the piece "Answer:\n" of the startup probe
    PromptTailIds,  \* its token ids on the reference vocabulary
    RawModes,       \* values JEV_SLOT_CHECK may have
    Encodings       \* what the endpoint's /tokenize may answer

\* PROBED_SLOT_ID: what letter 1, "A", is pinned to.
LetterAId == 32

\* Every text that is asked for tokenizes to a list of ids.
ASSUME EncodingsAssumption ==
    \A e \in Encodings :
        \A x \in TextsOf(PromptTail, MaxLetterSlots) : e[x] \in Seq(Nat)

-----------------------------------------------------------------------------
(* The startup self-check. *)

\* check_probed_slot_assumption: the tail and the letter A only, by id.
CheckProbedSlotAssumption(enc) ==
    /\ enc[Prompt(PromptTail)] = PromptTailIds
    /\ enc[Letter(1)] = <<LetterAId>>
    /\ enc[Appended(PromptTail, 1)] = Append(PromptTailIds, LetterAId)

\* Mutant: the list of letters stops short of the renderer's.
SlotLettersStopsShort == 1..(MaxLetterSlots - 1)

\* slot_letters: every letter the renderer can name.
SlotLetters == 1..MaxLetterSlots

\* check_slot_letters: every letter, whatever its id.
CheckSlotLetters(enc) ==
    /\ enc[Prompt(PromptTail)] # <<>>
    /\ \A i \in SlotLetters :
        SingleToken(enc, i) /\ KeepsBoundary(enc, PromptTail, i)

RunSlotCheck(mode, enc) ==
    IF mode = "strict" THEN CheckProbedSlotAssumption(enc) ELSE CheckSlotLetters(enc)

\* SlotCheck::parse; the raw value is one of the spellings, or another word.
ParseSlotCheck(raw) ==
    CASE raw \in {"unset", "", "strict", "probed"} -> "strict"
      [] raw \in {"letters", "slots"} -> "letters"
      [] OTHER -> "error"

-----------------------------------------------------------------------------
VARIABLES
    raw,     \* JEV_SLOT_CHECK
    enc,     \* the endpoint's encoding (fixed: one deployment)
    mode,    \* the parsed SlotCheck
    phase,   \* how far main has come
    verdict  \* what verify_slots said of the last question on PromptTail

startVars == <<raw, enc, mode, phase, verdict>>

NoVerdict == "none"

-----------------------------------------------------------------------------

StartInit ==
    /\ raw \in RawModes
    /\ enc \in Encodings
    /\ mode = "none"
    /\ phase = "starting"
    /\ verdict = NoVerdict

\* SlotCheck::from_env: an unknown word ends the process.
FromEnv ==
    /\ phase = "starting"
    /\ IF ParseSlotCheck(raw) = "error"
         THEN phase' = "refused" /\ UNCHANGED mode
         ELSE phase' = "checking" /\ mode' = ParseSlotCheck(raw)
    /\ UNCHANGED <<raw, enc, verdict>>

\* verify_slot_check fetched the texts, then failed or passed.
SelfCheck ==
    /\ phase = "checking"
    /\ phase' = IF RunSlotCheck(mode, enc) THEN "listening" ELSE "refused"
    /\ UNCHANGED <<raw, enc, mode, verdict>>

\* /tokenize could not be asked: the process ends too.
PrefetchFails ==
    /\ phase = "checking"
    /\ phase' = "refused"
    /\ UNCHANGED <<raw, enc, mode, verdict>>

\* A question with n slots whose prompt ends like the probe is verified.
AskOnTail(n) ==
    /\ phase = "listening"
    /\ verdict' = VerifySlots(enc, PromptTail, n)
    /\ UNCHANGED <<raw, enc, mode, phase>>

StartNext ==
    \/ FromEnv
    \/ SelfCheck
    \/ PrefetchFails
    \/ \E n \in 2..MaxLetterSlots : AskOnTail(n)

StartSpec == StartInit /\ [][StartNext]_startVars

-----------------------------------------------------------------------------
\* A server that started in `letters` mode never refuses a question on the
\* probed tail because of a letter: the check covers every letter the
\* renderer can name, so only a collision between letters is left to find.
LettersModeCoversRenderer ==
    mode = "letters" /\ phase = "listening" =>
        verdict \in {NoVerdict, Accepted, "SlotCollision"}

\* A question is readable when its slots are named by distinct single tokens
\* and the prompt with a letter appended is the prompt's tokens followed by
\* that letter's: the position after the prompt is then the answer slot of
\* every option.
Readable(n) ==
    /\ \A i, j \in 1..n : enc[Letter(i)] = enc[Letter(j)] => i = j
    /\ \A i \in 1..n :
        /\ Len(enc[Letter(i)]) = 1
        /\ enc[Appended(PromptTail, i)] = enc[Prompt(PromptTail)] \o enc[Letter(i)]

\* verify_slots accepts exactly the readable questions, whatever the
\* vocabulary: a server that answers never reads another position.
AcceptedIffReadable ==
    \A n \in 2..MaxLetterSlots :
        VerifySlots(enc, PromptTail, n) = Accepted <=> Readable(n)
=============================================================================
