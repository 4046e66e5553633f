------------------------------ MODULE ItemSets ------------------------------
(***************************************************************************)
(* How a frozen pair of item sets comes about: merge-item-sets.py joins    *)
(* the files of the Chinese items, translate-mt.py has a machine translate *)
(* them and leaves out what it cannot use, finalize-mt.py leaves out more, *)
(* by the rules of its day, and check-en-parity.py decides whether the     *)
(* pair may be compared.  Scripts are killed and run again; each names its *)
(* output file itself, and the next one takes what is there.               *)
(*                                                                         *)
(* An item is [key, kind, labels, gold]: its labels in the order of its    *)
(* slots (for a choice their code-point order, here that of the integers)  *)
(* and the slot of the right answer.                                       *)
(***************************************************************************)
EXTENDS Ordering, SequencesExt

CONSTANTS
    InputSets,    \* the sequences of files merge-item-sets may be given
    Limits,       \* what --limit may be, 0 for all items
    EnLabels,     \* what a label may be translated to, in code-point order
    Losses,       \* subsets of Fields: where a translation may lose a fact
    MaxFinals,    \* bound on the runs of finalize-mt
    NoSet

Fields == {"state", "instructions", "criteria", "provenance"}

Kinds == {"choice", "score", "noul"}

\* What validate-items.py asks of an item: a kind it knows, a gold among the slots.
ASSUME ItemSetsAssumption ==
    /\ InputSets \subseteq Seq(Seq([key : Int, kind : Kinds, labels : Seq(Int), gold : Nat \ {0}]))
    /\ \A files \in InputSets : \A f \in DOMAIN files : \A i \in DOMAIN files[f] :
          files[f][i].gold \in DOMAIN files[f][i].labels
    /\ Limits \subseteq Nat /\ MaxFinals \in Nat
    /\ EnLabels \subseteq Nat /\ Losses \subseteq SUBSET Fields

VARIABLES
    stage,
    inputs,
    zh,             \* the merged set
    limit,
    at,             \* the item the translator is at
    mt,             \* term_audit: label -> its one translation
    raw,            \* the English items, in memory and then in the raw file
    dropped,        \* the keys the translator left out
    en, declared,   \* the final set and the `dropped` of its report
    finals,
    verdict         \* of check-en-parity

vars == <<stage, inputs, zh, limit, at, mt, raw, dropped, en, declared, finals, verdict>>

Init ==
    /\ stage = "merge"
    /\ inputs \in InputSets
    /\ zh = NoSet
    /\ limit \in Limits
    /\ at = 1
    /\ mt = <<>>
    /\ raw = <<>>
    /\ dropped = {}
    /\ en = NoSet
    /\ declared = NoSet
    /\ finals = 0
    /\ verdict = "none"

-----------------------------------------------------------------------------
(* merge-item-sets.py *)

Keys(set) == {set[i].key : i \in DOMAIN set}

\* By id, whatever the order of the files; an id that occurs twice is an error.
Merge(files) ==
    LET by_id(k) == CHOOSE item \in UNION {Range(files[f]) : f \in DOMAIN files} : item.key = k
        ids == InOrder(UNION {Keys(files[f]) : f \in DOMAIN files})
    IN IF \A f, g \in DOMAIN files : \A i \in DOMAIN files[f], j \in DOMAIN files[g] :
             files[f][i].key = files[g][j].key => f = g /\ i = j
         THEN [n \in DOMAIN ids |-> by_id(ids[n])]
         ELSE NoSet

MergeItemSets ==
    /\ stage = "merge"
    /\ zh' = Merge(inputs)
    /\ stage' = IF zh' = NoSet THEN "failed" ELSE "translate"
    /\ UNCHANGED <<inputs, limit, at, mt, raw, dropped, en, declared, finals, verdict>>

-----------------------------------------------------------------------------
(* translate-mt.py *)

Wanted == IF limit = 0 THEN zh ELSE SubSeq(zh, 1, IF limit < Len(zh) THEN limit ELSE Len(zh))

Translated(labels, m) == [i \in DOMAIN labels |-> m[labels[i]]]

\* Mutant: translations that change the order of the slots are used.
LabelsUsableInAnyOrder(kind, labels) == IsInjective(labels)

\* choose_labels; the levels of a score only have to differ.
LabelsUsable(kind, labels) ==
    /\ IsInjective(labels)
    /\ kind = "choice" => \A i, j \in DOMAIN labels : i < j => labels[i] < labels[j]

\* The labels of a yes-no question are not translated.
LabelsToTranslate(item) == IF item.kind = "noul" THEN {} ELSE Range(item.labels)

LeftOut(item) == {item.key}

\* A label keeps the translation it got first.
Learnt(new) ==
    [l \in DOMAIN mt \cup DOMAIN new |-> IF l \in DOMAIN mt THEN mt[l] ELSE new[l]]

\* One item.  Whether a translation degenerates or loses facts is the machine's
\* doing; it is `broken` when finalize-mt will call its state degenerate and
\* the rules of today did not.
Translate ==
    /\ stage = "translate"
    /\ at <= Len(Wanted)
    /\ at' = at + 1
    /\ LET item == Wanted[at] IN
       \E new \in [LabelsToTranslate(item) \ DOMAIN mt -> EnLabels] :
        /\ mt' = Learnt(new)
        /\ LET labels == IF item.kind = "noul" THEN item.labels ELSE Translated(item.labels, mt') IN
           \/ /\ LabelsUsable(item.kind, labels)
              /\ \E lost \in Losses, broken \in BOOLEAN :
                    raw' = Append(raw, [key |-> item.key, kind |-> item.kind, labels |-> labels,
                                        gold |-> labels[item.gold], lost |-> lost, broken |-> broken])
              /\ UNCHANGED dropped
           \/ \* unusable labels, or the text degenerates
              /\ dropped' = dropped \cup LeftOut(item)
              /\ UNCHANGED raw
    /\ UNCHANGED <<stage, inputs, zh, limit, en, declared, finals, verdict>>

\* The raw set and its report are written when the last item is done; before
\* that a translator that is killed leaves nothing.
WriteRaw ==
    /\ stage = "translate"
    /\ at > Len(Wanted)
    /\ stage' = "finalize"
    /\ UNCHANGED <<inputs, zh, limit, at, mt, raw, dropped, en, declared, finals, verdict>>

-----------------------------------------------------------------------------
(* The rules finalize-mt.py and check-en-parity.py share. *)

ItemOf(set, k) == set[CHOOSE i \in DOMAIN set : set[i].key = k]

\* The slot of the gold label among the sorted labels; the gold of the others
\* is the slot itself.
SlotOf(item) ==
    IF item.kind = "choice"
      THEN 1 + Cardinality({i \in DOMAIN item.labels : item.labels[i] < item.gold})
      ELSE CHOOSE i \in DOMAIN item.labels : item.labels[i] = item.gold

\* Facts lost where the model can see it; of the labels, only those of a choice.
SeenLosses(item) ==
    item.lost \cap (IF item.kind = "choice" THEN {"state", "instructions", "criteria"}
                                            ELSE {"state", "instructions"})

\* Mutant: only the text is looked at, not the slots.
UnusableText(z, e) == SeenLosses(e) # {}

\* The slots of a choice only: the other kinds keep theirs by the translator.
Unusable(z, e) ==
    \/ z.kind = "choice" /\ SlotOf(e) # z.gold
    \/ SeenLosses(e) # {}
    \/ e.broken

-----------------------------------------------------------------------------
(* finalize-mt.py *)

\* Every key that is absent from the raw set is taken for one the translator
\* has left out.
FinalDrops ==
    {k \in Keys(zh) : k \notin Keys(raw) \/ Unusable(ItemOf(zh, k), ItemOf(raw, k))}

\* The items of a set that are not dropped, in their order.
Keep(set, drops) ==
    LET kept == InOrder({i \in DOMAIN set : set[i].key \notin drops}) IN
    [n \in DOMAIN kept |-> set[kept[n]]]

FinalizeSet ==
    /\ stage = "finalize"
    /\ finals < MaxFinals
    /\ finals' = finals + 1
    /\ en' = Keep(raw, FinalDrops)
    /\ stage' = "report"
    /\ UNCHANGED <<inputs, zh, limit, at, mt, raw, dropped, declared, verdict>>

FinalizeReport ==
    /\ stage = "report"
    /\ declared' = FinalDrops
    /\ stage' = "gate"
    /\ UNCHANGED <<inputs, zh, limit, at, mt, raw, dropped, en, finals, verdict>>

\* Killed between the two files: the set is there, its report is not.
FinalizeKilled ==
    /\ stage = "report"
    /\ stage' = "gate"
    /\ UNCHANGED <<inputs, zh, limit, at, mt, raw, dropped, en, declared, finals, verdict>>

-----------------------------------------------------------------------------
(* check-en-parity.py, of the raw set with the translator's report or of the *)
(* final set with its own.                                                   *)

PassesParity(set, allowed) ==
    /\ IsInjective([i \in DOMAIN zh |-> zh[i].key])
    /\ IsInjective([i \in DOMAIN set |-> set[i].key])
    /\ Keys(set) \subseteq Keys(zh)
    /\ Keys(zh) \ Keys(set) = allowed
    /\ \A k \in Keys(set) : LET z == ItemOf(zh, k) e == ItemOf(set, k) IN
        /\ z.kind = e.kind /\ Len(z.labels) = Cardinality(Range(e.labels))
        /\ e.gold \in Range(e.labels) /\ SlotOf(e) = z.gold
        /\ SeenLosses(e) = {} /\ ~e.broken

CheckParity(set, allowed) ==
    verdict' = IF allowed # NoSet /\ PassesParity(set, allowed) THEN "pair" ELSE "refused"

\* A refused final set is finalised again, a refused raw set goes to finalize-mt.
GateFinal ==
    /\ stage = "gate"
    /\ CheckParity(en, declared)
    /\ stage' = IF verdict' = "pair" THEN "done" ELSE "finalize"
    /\ UNCHANGED <<inputs, zh, limit, at, mt, raw, dropped, en, declared, finals>>

GateRaw ==
    /\ stage = "finalize"
    /\ CheckParity(raw, dropped)
    /\ IF verdict' = "pair"
         THEN stage' = "done" /\ en' = raw /\ declared' = dropped
         ELSE UNCHANGED <<stage, en, declared>>
    /\ UNCHANGED <<inputs, zh, limit, at, mt, raw, dropped, finals>>

Next ==
    \/ MergeItemSets
    \/ Translate \/ WriteRaw
    \/ FinalizeSet \/ FinalizeReport \/ FinalizeKilled
    \/ GateFinal \/ GateRaw

Spec == Init /\ [][Next]_vars

-----------------------------------------------------------------------------
(* Properties. *)

\* "A control set must differ in language only": in a pair that passed, every
\* slot of the English item, not the right one only, holds the translation of
\* the label in the same slot of the Chinese item, and the right slot is the same.
SlotsDoNotDrift ==
    verdict = "pair" =>
        \A k \in Keys(en) : LET z == ItemOf(zh, k) e == ItemOf(en, k) IN
            /\ SlotOf(e) = z.gold
            /\ \A i \in DOMAIN z.labels :
                SlotOf([e EXCEPT !.gold = IF z.kind = "noul" THEN z.labels[i] ELSE mt[z.labels[i]]]) = i

\* finalize-mt's rules "have the same source as the freezing gate": what it has
\* written, set and report, the gate never refuses, though each script applies
\* the rules in its own code and the gate has more of them.  And nothing is
\* left out for another reason: an item an accepted pair lacks was left out by
\* the translator, is unusable by the rules, or was beyond the --limit.
DropsAreTheUnusable ==
    /\ stage = "gate" /\ declared # NoSet => PassesParity(en, declared)
    /\ verdict = "pair" =>
        \A k \in Keys(zh) \ Keys(en) :
            \/ k \in dropped \cup (Keys(zh) \ Keys(Wanted))
            \/ k \in Keys(raw) /\ LET e == ItemOf(raw, k) IN
                    SeenLosses(e) # {} \/ e.broken \/ SlotOf(e) # ItemOf(zh, k).gold
=============================================================================
