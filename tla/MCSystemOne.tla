----------------------------- MODULE MCSystemOne -----------------------------
(***************************************************************************)
(* Two concurrent requests of up to two questions over two prompts.  The   *)
(* vocabularies: one on which every question holds, one that merges the    *)
(* second letter into the second prompt, and one on which the first prompt *)
(* is over the budget.                                                     *)
(***************************************************************************)
EXTENDS SystemOne

CONSTANTS pa, pb

Question2(id, p) == [id |-> id, prompt |-> p, kind |-> "choice", n |-> 2]
QA == Question2(1, pa)
QB == [id |-> 2, prompt |-> pb, kind |-> "noul", n |-> 0]
QOne == [id |-> 3, prompt |-> pb, kind |-> "score", n |-> 1]

MCBodies == {<<>>, <<QA, QB>>, <<QB, QA>>, <<QA, QOne>>}

Vocabulary(ofA, ofB, merges) ==
    [x \in {Prompt(pa), Prompt(pb), Letter(1), Letter(2)}
            \cup {Appended(p, i) : p \in {pa, pb}, i \in 1..2} |->
        LET prompt == IF x[1] = pa THEN ofA ELSE ofB IN
        CASE x = Letter(1) -> <<32>>
          [] x = Letter(2) -> <<33>>
          [] Len(x) = 1 -> prompt
          [] OTHER -> IF merges /\ x = Appended(pb, 2) THEN <<9>>
                      ELSE prompt \o (IF x[2] = 1 THEN <<32>> ELSE <<33>>)]

Good == Vocabulary(<<1>>, <<2, 3>>, FALSE)
Merging == Vocabulary(<<1>>, <<2, 3>>, TRUE)
Long == Vocabulary(<<1, 1, 1>>, <<2, 3>>, FALSE)

MCVocabs == {Good, Merging, Long}
=============================================================================
