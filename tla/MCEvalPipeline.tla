--------------------------- MODULE MCEvalPipeline ---------------------------
(* Three items of the three kinds, in two sources and two categories. *)
EXTENDS EvalPipeline, TLC

Item(id, category, source, kind, keys, levels, gold, positive) ==
    [id |-> id, category |-> category, source |-> source, kind |-> kind, keys |-> keys,
     levels |-> levels, gold |-> gold, positive |-> positive]

Pick == Item(1, "c1", "s1", "choice", <<"a", "b">>, 0, "b", "b")
Hold == Item(2, "c1", "s2", "noul", <<>>, 0, "false", None)
Rate == Item(3, "c2", "s1", "score", <<>>, 3, "1", None)
Relabelled == [Pick EXCEPT !.gold = "a"]

GoodItems == <<Pick, Hold, Rate>>
OtherItems == <<Relabelled, Hold, Rate>>
Row(id, label, probs) == [id |-> id, label |-> label, probs |-> probs]
Two(k, l, x) == k :> x @@ l :> Unit - x
Three(x, y, z) == "0" :> x @@ "1" :> y @@ "2" :> z

PickRows == {Row(1, None, Two("a", "b", x)) : x \in 0..Unit}
                \cup {Row(1, None, "a" :> x @@ "b" :> y) :
                          <<x, y>> \in {<<Unit + 1, 0>>, <<Unit, 1>>, <<Unit - 2, 1>>, <<1, 1>>}}
                \cup {Row(1, "a", None), MissingRow(1)}
HoldRows == {Row(2, None, Two("true", "false", x)) : x \in 0..Unit}
                \cup {Row(2, "true", None)}
RateRows == {Row(3, None, Three(0, Unit, 0)), Row(3, None, Three(1, 1, 2)), Row(3, "2", None)}

GoodRows == {<<p, h, r>> : p \in PickRows, h \in HoldRows, r \in RateRows}
                \cup {<<h, p>> : p \in PickRows, h \in HoldRows}
Chosen(p) == [kind |-> "choice", probs |-> p, noul |-> 0]
Scores(p) == [kind |-> "score", probs |-> p, noul |-> 0]
Noul(x) == [kind |-> "noul", probs |-> <<>>, noul |-> x]

AllAnswers == 1 :> Chosen("a" :> 1 @@ "b" :> Unit - 1) @@ 2 :> Noul(1) @@ 3 :> Scores(Three(2, 1, 1))
SomeAnswers == 2 :> Noul(2) @@ 5 :> Noul(0)
WrongKind == 1 :> Noul(2)
Partial == 1 :> Chosen("a" :> Unit) @@ 2 :> Noul(Unit)
\* Off by one, which loads, and by two.
Loose == 1 :> Chosen("a" :> Unit @@ "b" :> 1) @@ 3 :> Scores("0" :> 1 @@ "1" :> 0 @@ "2" :> Unit - 2)
Looser == 1 :> Chosen("a" :> Unit @@ "b" :> 2)

\* A report with one thing in it changed.
MCEdited(r) ==
    LET one == r.strata.by_source["s1"]
        below == one.by_category["c1"]
        across == r.strata.by_category["c1"]
        Overall(m) == [r EXCEPT !.strata.by_source["s1"].overall = m]
        Below(m) == [r EXCEPT !.strata.by_source["s1"].by_category["c1"] = m]
        Across(m) == [r EXCEPT !.strata.by_category["c1"] = m]
    IN {[r EXCEPT !.confidence_bins = 0], [r EXCEPT !.confidence_bins = @ + 1],
        [r EXCEPT !.verify_tolerance = 1], [r EXCEPT !.identity = "merged total"],
        [r EXCEPT !.items_sha256 = OtherItems], "total_accuracy" :> <<1, 1>> @@ r,
        Overall([one.overall EXCEPT !.n_items = @ + 1]), Overall([one.overall EXCEPT !.ece = <<1, 7>>]),
        Below([below EXCEPT !.accuracy = <<1, 7>>]),
        Below([below EXCEPT !.per_class_recall = [c \in DOMAIN @ |-> <<2, 7>>]]),
        Across([across EXCEPT !.brier_binary = <<1, 7>>]), Across([across EXCEPT !.reliability = <<>>])}

NoEdits(r) == {}

JobSymmetry == Permutations(Jobs)

NumbersItems == {GoodItems}
NumbersAnswers == {AllAnswers, SomeAnswers, WrongKind, Partial, Loose, Looser}

BadItems == {<<Pick, Pick>>, <<Rate>>, <<Pick, [Hold EXCEPT !.gold = "yes"]>>}
RacesItems == {GoodItems, OtherItems} \cup BadItems
RacesRows == {<<Row(1, "a", None), Row(2, "true", None)>>}
RacesReplacements ==
    RacesRows \cup {<<Row(1, None, "a" :> Unit @@ "c" :> 0)>>,
                   <<MissingRow(1), Row(1, "a", None)>>}
RacesAnswers == {AllAnswers, SomeAnswers}
=============================================================================
