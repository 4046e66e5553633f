------------------------------ MODULE MCServer ------------------------------
(***************************************************************************)
(* The two parts of jev-server that are one sequence of steps each, its    *)
(* start and the publication of an answer.  They share no state: an        *)
(* initial state is one of the one part, with the other at rest.           *)
(*                                                                         *)
(* Three letters, each one token (its own, or that of the letter A) or     *)
(* two; the prompt tail is the reference's or another; appending a letter  *)
(* keeps the boundary, merges it into the tail's last token, or adds a     *)
(* wrong token.                                                            *)
(***************************************************************************)
EXTENDS ServerStart, MCPublishedAnswer

MCRawModes == {"unset", "probed", "letters", "Letter"}

MCTailIds == <<15666, 25, 198>>

LetterIds ==
    {f \in [1..MaxLetterSlots -> {<<32>>, <<33>>, <<34>>, <<35, 36>>}] :
        \A i \in 1..MaxLetterSlots : f[i] \in {<<31 + i>>, <<32>>, <<35, 36>>}}
Tails == {MCTailIds, <<16141, 510>>}
Appendings == [1..MaxLetterSlots -> {"keeps", "merges", "shifts"}]

AppendedIds(tail, ids, how) ==
    CASE how = "keeps" -> tail \o ids
      [] how = "merges" -> SubSeq(tail, 1, Len(tail) - 1) \o <<99>>
      [] OTHER -> Append(tail, 77)

Encoding(tail, letters, appends) ==
    [x \in TextsOf(PromptTail, MaxLetterSlots) |->
        IF x = Prompt(PromptTail) THEN tail
        ELSE IF Len(x) = 1 THEN letters[x[1]]
        ELSE AppendedIds(tail, letters[x[2]], appends[x[2]])]

MCEncodings ==
    {Encoding(tail, letters, appends) :
        tail \in Tails, letters \in LetterIds, appends \in Appendings}

-----------------------------------------------------------------------------
NotStarted ==
    /\ raw = "unset" /\ enc = Encoding(MCTailIds, [i \in 1..MaxLetterSlots |-> <<31 + i>>],
                                       [i \in 1..MaxLetterSlots |-> "keeps"])
    /\ mode = "none" /\ phase = "idle" /\ verdict = NoVerdict

NothingRead ==
    /\ readout = <<Spelling(1, none)>> /\ probs = <<>>
    /\ choice = 0 /\ score = 0 /\ noul = 0 /\ answerPhase = "idle"

ServerInit == (StartInit /\ NothingRead) \/ (AnswerInit /\ NotStarted)

ServerNext ==
    \/ StartNext /\ UNCHANGED answerVars
    \/ AnswerNext /\ UNCHANGED startVars

ServerSpec == ServerInit /\ [][ServerNext]_<<startVars, answerVars>>
=============================================================================
