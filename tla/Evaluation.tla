----------------------------- MODULE Evaluation -----------------------------
(***************************************************************************)
(* jev-eval as functions of file contents: what an item set, a prediction  *)
(* file and an answers file must be to load (items.rs, predictions.rs,     *)
(* import.rs), the metrics of a stratum (metrics.rs), the report           *)
(* (report.rs) and the comparison `verify` makes (verify.rs).              *)
(*                                                                         *)
(* A file is the sequence of its rows and is its own hash.  Probabilities  *)
(* are integers in units of 1/Unit; a mean or a rate is a quotient in its  *)
(* lowest terms, or <<>> where the code has None, so every number is exact *)
(* and has one form.  The NLL needs logarithms and is left out.            *)
(***************************************************************************)
EXTENDS SlotVerification, Ordering, FiniteSetsExt, SequencesExt, TLC

CONSTANTS
    Unit,                \* a probability is a multiple of 1/Unit
    SumTolerance,        \* PROBABILITY_SUM_TOLERANCE, in these
    RequiredCategories,  \* KNOWN_CATEGORIES
    None                 \* an optional field that is absent

ASSUME UnitAssumption == Unit \in Nat \ {0} /\ SumTolerance \in Nat

\* A row that does not parse or lacks a required text.
Junk == [unreadable |-> "row"]

Count(S) == Cardinality(S)
Gap(a, b) == IF a <= b THEN b - a ELSE a - b
Ids(rows) == {rows[i].id : i \in DOMAIN rows}
DistinctIds(rows) == Cardinality(Ids(rows)) = Len(rows)

-----------------------------------------------------------------------------
(* Items: [id, category, source, kind, keys, levels, gold, positive].  The
   keys of a choice are in the order of its BTreeMap; `gold` is the slot key
   the typed gold stands for. *)

SlotLabels(item) ==
    CASE item.kind = "choice" -> item.keys
      [] item.kind = "score" -> [i \in 1..item.levels |-> ToString(i - 1)]
      [] item.kind = "noul" -> <<"true", "false">>

PositiveLabel(item) ==
    IF item.kind = "noul" /\ item.positive = None THEN "true" ELSE item.positive

ItemValid(item) ==
    /\ item # Junk
    /\ RenderSlots(item.kind, Len(SlotLabels(item))) = Accepted
    /\ item.gold \in Range(SlotLabels(item))
    /\ PositiveLabel(item) \in Range(SlotLabels(item)) \cup {None}

ItemSetLoads(file) ==
    /\ file # <<>>
    /\ \A i \in DOMAIN file : ItemValid(file[i])
    /\ DistinctIds(file)
    /\ RequiredCategories \subseteq {file[i].category : i \in DOMAIN file}

-----------------------------------------------------------------------------
(* Predictions: [id, label, probs], probs mapping slot keys to masses. *)

ArgmaxFirstMax(vector) ==
    CHOOSE i \in DOMAIN vector : \A j \in DOMAIN vector :
        vector[j] < vector[i] \/ (vector[j] = vector[i] /\ i <= j)

\* The probabilities in slot order.
Vector(probs, slots) == [i \in DOMAIN slots |-> probs[slots[i]]]

\* A single value may so be above 1.
SumsToOne(probs) == Gap(SumFunction(probs), Unit) <= SumTolerance

RowValid(row, slots) ==
    /\ row.label \in Range(slots) \cup {None}
    /\ row.probs # None =>
        /\ DOMAIN row.probs = Range(slots)
        /\ \A k \in DOMAIN row.probs : row.probs[k] \in Nat
        /\ SumsToOne(row.probs)
        /\ row.label # None => row.label = slots[ArgmaxFirstMax(Vector(row.probs, slots))]

\* An empty file loads: items without a row are counted as missing.
PredictionsLoad(file, items) ==
    /\ \A r \in DOMAIN file :
        /\ file[r] # Junk
        /\ \E i \in DOMAIN items :
              items[i].id = file[r].id /\ RowValid(file[r], SlotLabels(items[i]))
    /\ DistinctIds(file)

-----------------------------------------------------------------------------
(* import: an answers file maps ids to [kind, probs, noul]. *)

MissingRow(id) == [id |-> id, label |-> None, probs |-> None]

\* Mutant: the two sides of a noul are swapped.
NoulProbsSwapped(noul) ==
    [side \in {"true", "false"} |-> IF side = "true" THEN Unit - noul ELSE noul]

NoulProbs(noul) ==
    [side \in {"true", "false"} |-> IF side = "true" THEN noul ELSE Unit - noul]

PredictionFromAnswer(item, answer) ==
    [id |-> item.id, label |-> None,
     probs |-> IF item.kind = "noul" THEN NoulProbs(answer.noul) ELSE answer.probs]

\* import_answers refuses an answer whose kind is not the question's.
AnswersFit(answers, items) ==
    \A i \in DOMAIN items :
        items[i].id \in DOMAIN answers => answers[items[i].id].kind = items[i].kind

ImportAnswers(answers, items) ==
    [i \in DOMAIN items |->
        IF items[i].id \in DOMAIN answers
        THEN PredictionFromAnswer(items[i], answers[items[i].id])
        ELSE MissingRow(items[i].id)]

-----------------------------------------------------------------------------
(* samples_from: one sample per item, with the row of its id if there is one. *)

\* Mutant: items and rows are walked in step.
RowOfInStep(items, i, rows) ==
    IF i \in DOMAIN rows /\ rows[i].id = items[i].id THEN rows[i] ELSE MissingRow(items[i].id)

RowOf(items, i, rows) ==
    IF items[i].id \in Ids(rows)
    THEN CHOOSE row \in Range(rows) : row.id = items[i].id
    ELSE MissingRow(items[i].id)

SampleOf(item, row) ==
    LET slots == SlotLabels(item) IN
    [id |-> item.id, source |-> item.source, category |-> item.category,
     gold |-> item.gold, slots |-> slots, positive |-> PositiveLabel(item),
     probs |-> IF row.probs = None THEN None ELSE Vector(row.probs, slots),
     predicted |-> IF row.probs = None THEN row.label
                   ELSE slots[ArgmaxFirstMax(Vector(row.probs, slots))]]

Samples(items, rows) ==
    {SampleOf(items[i], RowOf(items, i, rows)) : i \in DOMAIN items}

-----------------------------------------------------------------------------
(* summarize: the metrics of a set S of samples. *)

\* A quotient as a float has it: one form for one value.
Ratio(a, b) ==
    IF b = 0 THEN <<>>
    ELSE LET least == Min({k \in 1..b : (a * k) % b = 0}) IN <<(a * least) \div b, least>>

Square(x) == x * x
Product(f) == FoldFunction(LAMBDA a, b : a * b, 1, f)

Hits(S) == Count({s \in S : s.predicted = s.gold})
Missing(S) == {s \in S : s.predicted = None /\ s.probs = None}
Predicted(S) == {s \in S : s.predicted # None}
Scored(S) == {s \in S : s.probs # None}
Binary(S) == {s \in S : s.probs # None /\ s.positive # None}
OfClass(S, c) == {s \in S : s.gold = c}

Confidence(s) == s.probs[ArgmaxFirstMax(s.probs)]
TotalConfidence(S) == SumFunction([s \in S |-> Confidence(s)])
Target(s, key) == IF key = s.gold THEN Unit ELSE 0
Mass(s, key) == s.probs[CHOOSE k \in DOMAIN s.slots : s.slots[k] = key]

SquaredError(s) ==
    SumFunction([k \in DOMAIN s.slots |-> Square(s.probs[k] - Target(s, s.slots[k]))])
PositiveError(s) == Square(Mass(s, s.positive) - Target(s, s.positive))

\* The mean over the classes in gold, on their common denominator.
PerClassRecall(P) ==
    [c \in {s.gold : s \in P} |-> Ratio(Hits(OfClass(P, c)), Count(OfClass(P, c)))]
BalancedAccuracy(recall) ==
    LET common == Product([c \in DOMAIN recall |-> recall[c][2]]) IN
    Ratio(SumFunction([c \in DOMAIN recall |-> recall[c][1] * (common \div recall[c][2])]),
          common * Count(DOMAIN recall))

\* Mutant: a confidence of 1 is not kept in the last bin.
BinOfOverflowing(confidence, bins) == (confidence * bins) \div Unit

BinOf(confidence, bins) ==
    LET raw == (confidence * bins) \div Unit IN IF raw < bins THEN raw ELSE bins - 1

InBin(S, b, bins) == {s \in S : BinOf(Confidence(s), bins) = b}

\* The summed distance of hits from confidence over the bins, in units.
CalibrationGap(S, bins) ==
    SumFunction([b \in 0..(bins - 1) |->
        Gap(Hits(InBin(S, b, bins)) * Unit, TotalConfidence(InBin(S, b, bins)))])

\* Mutant: the weighted sum is divided by the number of samples once more.
EceDividedTwice(S, bins) ==
    Ratio(CalibrationGap(S, bins), Unit * Count(S) * Count(S))

Ece(S, bins) == Ratio(CalibrationGap(S, bins), Unit * Count(S))

ReliabilityBin(T, b, bins) ==
    [lower |-> Ratio(b, bins), upper |-> Ratio(b + 1, bins), n |-> Count(T),
     mean_confidence |-> Ratio(TotalConfidence(T), Unit * Count(T)),
     accuracy |-> Ratio(Hits(T), Count(T))]

\* The reliability curve: the bins in use, in order.
Reliability(S, bins) ==
    LET used == InOrder({b \in 0..(bins - 1) : InBin(S, b, bins) # {}})
    IN [i \in 1..Len(used) |-> ReliabilityBin(InBin(S, used[i], bins), used[i], bins)]

Summarize(S, bins) ==
    LET errors == SumFunction([s \in Scored(S) |-> SquaredError(s)])
        positive_errors == SumFunction([s \in Binary(S) |-> PositiveError(s)])
    IN [n_items |-> Count(S),
        n_missing |-> Count(Missing(S)),
        n_predicted |-> Count(Predicted(S)),
        n_scored |-> Count(Scored(S)),
        n_binary |-> Count(Binary(S)),
        accuracy |-> Ratio(Hits(Predicted(S)), Count(Predicted(S))),
        balanced_accuracy |-> BalancedAccuracy(PerClassRecall(Predicted(S))),
        brier_multiclass |-> Ratio(errors, Square(Unit) * Count(Scored(S))),
        brier_binary |-> Ratio(positive_errors, Square(Unit) * Count(Binary(S))),
        ece |-> Ece(Scored(S), bins),
        classes_in_gold |-> {s.gold : s \in Predicted(S)},
        per_class_recall |-> PerClassRecall(Predicted(S)),
        reliability |-> Reliability(Scored(S), bins)]

-----------------------------------------------------------------------------
(* The report: strata by source and by category, and what they came from. *)

ByCategory(S, bins) ==
    [c \in {s.category : s \in S} |-> Summarize({s \in S : s.category = c}, bins)]

\* Mutant: the categories of a source are those of every source.
SourceStratumOfAll(S, source, bins) ==
    LET G == {s \in S : s.source = source} IN
    [n_items |-> Count(G), categories |-> {s.category : s \in G},
     overall |-> Summarize(G, bins), by_category |-> ByCategory(S, bins)]

SourceStratum(S, source, bins) ==
    LET G == {s \in S : s.source = source} IN
    [n_items |-> Count(G), categories |-> {s.category : s \in G},
     overall |-> Summarize(G, bins), by_category |-> ByCategory(G, bins)]

Strata(S, bins) ==
    [by_source |-> [src \in {s.source : s \in S} |-> SourceStratum(S, src, bins)],
     by_category |-> ByCategory(S, bins)]

\* Schema, file names, probability floor and the note against a merged total:
\* constants of the program that `verify` compares too.
Identity == "identity"

BuildReport(items, rows, hash, bins, tolerance) ==
    [identity |-> Identity, items_sha256 |-> items, predictions_sha256 |-> hash,
     confidence_bins |-> bins, verify_tolerance |-> tolerance,
     strata |-> Strata(Samples(items, rows), bins)]

-----------------------------------------------------------------------------
(* from_json: the reports that parse.  The structs name every field they
   take and refuse any other (of a bin alone, serde drops one it does not
   know: such a file is the report without it). *)

Counts == {"n_items", "n_missing", "n_predicted", "n_scored", "n_binary"}
Rates == {"accuracy", "balanced_accuracy", "brier_multiclass", "brier_binary", "ece"}
Levels == {"lower", "upper", "mean_confidence", "accuracy"}

IsMap(m) == m = [k \in DOMAIN m |-> m[k]]
HasFields(r, fields) == DOMAIN r = fields /\ IsMap(r)
IsNumber(x) ==
    Len(x) = 2 /\ x[1] \in Int /\ x[2] \in Nat \ {0} /\ x = Ratio(x[1], x[2])

IsBin(bin) ==
    /\ HasFields(bin, Levels \cup {"n"})
    /\ bin.n \in Nat
    /\ \A f \in Levels : IsNumber(bin[f])

IsMetrics(m) ==
    /\ HasFields(m, Counts \cup Rates \cup {"classes_in_gold", "per_class_recall", "reliability"})
    /\ \A f \in Counts : m[f] \in Nat
    /\ \A f \in Rates : m[f] = <<>> \/ IsNumber(m[f])
    /\ IsMap(m.per_class_recall)
    /\ \A c \in DOMAIN m.per_class_recall : IsNumber(m.per_class_recall[c])
    /\ m.reliability = [i \in 1..Len(m.reliability) |-> m.reliability[i]]
    /\ \A i \in 1..Len(m.reliability) : IsBin(m.reliability[i])

IsCategories(m) == IsMap(m) /\ \A c \in DOMAIN m : IsMetrics(m[c])

IsSource(g) ==
    /\ HasFields(g, {"n_items", "categories", "overall", "by_category"})
    /\ g.n_items \in Nat /\ IsMetrics(g.overall) /\ IsCategories(g.by_category)

IsStrata(s) ==
    /\ HasFields(s, {"by_source", "by_category"})
    /\ IsMap(s.by_source) /\ \A src \in DOMAIN s.by_source : IsSource(s.by_source[src])
    /\ IsCategories(s.by_category)

ReportLoads(r) ==
    /\ HasFields(r, {"identity", "items_sha256", "predictions_sha256", "confidence_bins",
                     "verify_tolerance", "strata"})
    /\ r.confidence_bins \in Nat /\ r.verify_tolerance \in Int
    /\ IsStrata(r.strata)

-----------------------------------------------------------------------------
(* verify: does a report agree with a recomputation?  Tolerances are in
   units of 1/Unit; 0 stands for DEFAULT_TOLERANCE, below every difference. *)

Close(a, b, tolerance) ==
    IF a = <<>> \/ b = <<>> THEN a = b
    ELSE Gap(a[1] * b[2], b[1] * a[2]) * Unit <= tolerance * a[2] * b[2]

SameBin(a, b, tolerance) ==
    /\ a.n = b.n
    /\ \A f \in Levels : Close(a[f], b[f], tolerance)

SameMetrics(a, b, tolerance) ==
    /\ \A f \in Counts : a[f] = b[f]
    /\ \A f \in Rates : Close(a[f], b[f], tolerance)
    /\ a.classes_in_gold = b.classes_in_gold
    /\ DOMAIN a.per_class_recall = DOMAIN b.per_class_recall
    /\ \A c \in DOMAIN a.per_class_recall :
          Close(a.per_class_recall[c], b.per_class_recall[c], tolerance)
    /\ Len(a.reliability) = Len(b.reliability)
    /\ \A i \in 1..Len(a.reliability) : SameBin(a.reliability[i], b.reliability[i], tolerance)

SameCategories(a, b, tolerance) ==
    /\ DOMAIN a = DOMAIN b
    /\ \A c \in DOMAIN a : SameMetrics(a[c], b[c], tolerance)

\* Mutant: the categories below a source are not visited.
SameSourceOverallOnly(a, b, tolerance) ==
    a.n_items = b.n_items /\ SameMetrics(a.overall, b.overall, tolerance)

SameSource(a, b, tolerance) ==
    /\ a.n_items = b.n_items
    /\ a.categories = b.categories
    /\ SameMetrics(a.overall, b.overall, tolerance)
    /\ SameCategories(a.by_category, b.by_category, tolerance)

SameStrata(a, b, tolerance) ==
    /\ DOMAIN a.by_source = DOMAIN b.by_source
    /\ \A src \in DOMAIN a.by_source : SameSource(a.by_source[src], b.by_source[src], tolerance)
    /\ SameCategories(a.by_category, b.by_category, tolerance)

\* Mutant: the strata are recomputed with the default number of bins.
VerifyWithDefaultBins(items, rows, hash, report, tolerance) ==
    /\ report.items_sha256 = items
    /\ report.predictions_sha256 = hash
    /\ report.verify_tolerance <= tolerance
    /\ SameStrata(report.strata, Strata(Samples(items, rows), 10), tolerance)

\* The strata are recomputed with the report's own number of bins.
Verify(items, rows, hash, report, tolerance) ==
    /\ report.identity = Identity
    /\ report.items_sha256 = items
    /\ report.predictions_sha256 = hash
    /\ report.verify_tolerance <= tolerance
    /\ SameStrata(report.strata, Strata(Samples(items, rows), report.confidence_bins), tolerance)
=============================================================================
