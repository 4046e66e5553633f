---------------------------- MODULE EvalPipeline ----------------------------
(***************************************************************************)
(* jev-eval's commands `import`, `run` and `verify` as processes on shared *)
(* files.  Between any two accesses of a command to the file system the    *)
(* others go on, files are replaced or edited, or the command is killed.   *)
(* A process has `held`: its command line, and what it has read so far.    *)
(***************************************************************************)
EXTENDS Evaluation

CONSTANTS
    Jobs,
    ItemFiles,        \* contents items.jsonl may be given
    PredictionFiles,  \* contents predictions.jsonl may have at first
    Replacements,     \* contents it may be given by hand later
    AnswerFiles,      \* answers of the server: functions from ids
    Manifest,         \* the item set the manifest pins
    Pinning,          \* whether --manifest is given: a set of BOOLEANs
    Bins,             \* values of --bins, none of them 0
    Tolerances,       \* values of --tol, 0 among them: the default
    Edited(_),        \* the reports an edit makes of a report
    Unreadable,       \* a JSON file that is absent, or cut off in the middle
    MaxChanges,       \* bound on the changes made from outside
    MaxCommands       \* bound on the commands started

\* What serde lets through of a file: a question is of one of three kinds and
\* its slots are texts; the probabilities of an answer are numbers by slot.
IsItem(item) ==
    /\ item.kind \in {"choice", "score", "noul"}
    /\ item.kind = "choice" => item.keys \in Seq(Range(item.keys))
    /\ item.kind = "score" => item.levels \in Nat
    /\ None \notin Range(SlotLabels(item))

IsAnswer(answer) ==
    IF answer.kind = "noul"
    THEN answer.noul \in Int /\ NoulProbs(answer.noul) # None
    ELSE answer.probs # None /\ IsMap(answer.probs)

ASSUME PipelineAssumption ==
    /\ \A file \in ItemFiles :
          /\ file \in Seq(Range(file))
          /\ \A item \in Range(file) : item # Junk => IsItem(item)
    /\ \A file \in PredictionFiles \cup Replacements : file \in Seq(Range(file))
    /\ \A file \in AnswerFiles : \A id \in DOMAIN file : IsAnswer(file[id])
    /\ Bins \subseteq Nat \ {0} /\ Tolerances \subseteq Nat

VARIABLES
    items, answers, predictions, report, markdown,   \* the files
    pc,         \* where job j is
    held,       \* what its process holds; `moved` is a history of it: its two
                \* reads of predictions.jsonl found different contents
    changes,    \* how often a file was changed from outside
    started,    \* how many commands were started
    published   \* history: the last report written, how, and from what

files == <<items, answers, predictions, report, markdown>>
vars == <<files, pc, held, changes, started, published>>

Ended == {"idle", "refused", "imported", "reported", "verified", "mismatch", "crashed"}
Command(command, manifest, bins, tol) ==
    [command |-> command, manifest |-> manifest, bins |-> bins, tol |-> tol,
     items |-> <<>>, answers |-> <<>>, rows |-> <<>>, hash |-> <<>>, report |-> Unreadable,
     moved |-> FALSE]
Nothing == Command("none", FALSE, 1, 0)

Init ==
    /\ items \in ItemFiles
    /\ predictions \in PredictionFiles
    /\ answers = Unreadable /\ report = Unreadable /\ markdown = Unreadable
    /\ pc = [j \in Jobs |-> "idle"]
    /\ held = [j \in Jobs |-> Nothing]
    /\ changes = 0 /\ started = 0
    /\ published = Unreadable

-----------------------------------------------------------------------------
(* Steps of a command. *)

Goto(j, stage) == pc' = [pc EXCEPT ![j] = stage]
Keep(j, field, value) == held' = [held EXCEPT ![j][field] = value]
\* The process ends and its memory is gone.  (What a process held that ended
\* "imported", "verified" or "mismatch" is kept, for the properties.)
Exit(j, outcome) == Goto(j, outcome) /\ held' = [held EXCEPT ![j] = Nothing]

\* Two commands that write one file do not run at a time: their callers give
\* each command an --out of its own, or run one after the other.
SoleWriter(j, command) ==
    \A k \in Jobs \ {j} : pc[k] \notin Ended => held[k].command # command

Start(j) ==
    /\ pc[j] \in Ended
    /\ started < MaxCommands
    /\ started' = started + 1
    /\ \E command \in {"import", "run", "verify"}, tol \in Tolerances :
       \E manifest \in (IF command = "run" THEN Pinning ELSE {FALSE}),
          bins \in (IF command = "run" THEN Bins ELSE {1}) :
          /\ command # "verify" => SoleWriter(j, command)
          /\ command = "import" => tol = 0
          /\ held' = [held EXCEPT ![j] = Command(command, manifest, bins, tol)]
    /\ Goto(j, "items")
    /\ UNCHANGED <<files, changes, published>>

\* load_item_set; the hash is taken of the bytes that were parsed.
LoadItemSet(j) ==
    /\ pc[j] = "items"
    /\ IF ItemSetLoads(items)
       THEN /\ Keep(j, "items", items)
            /\ Goto(j, IF held[j].command = "import" THEN "answers"
                       ELSE IF held[j].manifest THEN "manifest" ELSE "predictions")
       ELSE Exit(j, "refused")
    /\ UNCHANGED <<files, changes, started, published>>

\* Mutant: the file is read again for the comparison.
PinnedRereads(j) == items = Manifest

Pinned(j) == held[j].items = Manifest

CheckManifest(j) ==
    /\ pc[j] = "manifest"
    /\ IF Pinned(j) THEN Goto(j, "predictions") /\ UNCHANGED held ELSE Exit(j, "refused")
    /\ UNCHANGED <<files, changes, started, published>>

LoadPredictions(j) ==
    /\ pc[j] = "predictions"
    /\ IF PredictionsLoad(predictions, held[j].items)
       THEN Keep(j, "rows", predictions) /\ Goto(j, "hash")
       ELSE Exit(j, "refused")
    /\ UNCHANGED <<files, changes, started, published>>

\* hash_file reads the predictions a second time.
HashFile(j) ==
    /\ pc[j] = "hash"
    /\ held' = [held EXCEPT ![j].hash = predictions, ![j].moved = predictions # held[j].rows]
    /\ Goto(j, IF held[j].command = "run" THEN "build" ELSE "report")
    /\ UNCHANGED <<files, changes, started, published>>

\* Mutant: the item set named is the one the file holds by now.
ReportOfNamesCurrentItems(j) ==
    [BuildReport(held[j].items, held[j].rows, held[j].hash, held[j].bins, held[j].tol)
        EXCEPT !.items_sha256 = items]

ReportOf(j) ==
    BuildReport(held[j].items, held[j].rows, held[j].hash, held[j].bins, held[j].tol)

\* A write truncates its file first.
TruncateReport(j) ==
    /\ pc[j] = "build"
    /\ Keep(j, "report", ReportOf(j))
    /\ report' = Unreadable
    /\ Goto(j, "write report")
    /\ UNCHANGED <<items, answers, predictions, markdown, changes, started, published>>

WriteReport(j) ==
    /\ pc[j] = "write report"
    /\ report' = held[j].report
    /\ published' = [report |-> held[j].report, pinned |-> held[j].manifest, moved |-> held[j].moved]
    /\ Goto(j, "markdown")
    /\ UNCHANGED <<items, answers, predictions, markdown, held, changes, started>>

TruncateMarkdown(j) ==
    /\ pc[j] = "markdown"
    /\ markdown' = Unreadable
    /\ Goto(j, "write markdown")
    /\ UNCHANGED <<items, answers, predictions, report, held, changes, started, published>>

\* Mutant: the view is made from what the report's file holds by now.
WriteMarkdownOfFile(j) ==
    /\ pc[j] = "write markdown"
    /\ markdown' = report
    /\ Exit(j, "reported")
    /\ UNCHANGED <<items, answers, predictions, report, changes, started, published>>

\* The view is of the report the process holds, not of the file.
WriteMarkdown(j) ==
    /\ pc[j] = "write markdown"
    /\ markdown' = held[j].report
    /\ Exit(j, "reported")
    /\ UNCHANGED <<items, answers, predictions, report, changes, started, published>>

\* verify reads the report last and compares.
ReadReport(j) ==
    /\ pc[j] = "report"
    /\ IF report = Unreadable \/ ~ReportLoads(report) \/ report.confidence_bins = 0
       THEN Exit(j, "refused")
       ELSE /\ Keep(j, "report", report)
            /\ Goto(j, IF Verify(held[j].items, held[j].rows, held[j].hash, report, held[j].tol)
                       THEN "verified" ELSE "mismatch")
    /\ UNCHANGED <<files, changes, started, published>>

ReadAnswers(j) ==
    /\ pc[j] = "answers"
    /\ IF answers = Unreadable \/ ~AnswersFit(answers, held[j].items)
       THEN Exit(j, "refused")
       ELSE /\ held' = [held EXCEPT ![j].answers = answers,
                                    ![j].rows = ImportAnswers(answers, held[j].items)]
            /\ Goto(j, "truncate")
    /\ UNCHANGED <<files, changes, started, published>>

TruncatePredictions(j) ==
    /\ pc[j] = "truncate"
    /\ predictions' = <<>>
    /\ Goto(j, "write rows")
    /\ UNCHANGED <<items, answers, report, markdown, held, changes, started, published>>

WritePredictions(j) ==
    /\ pc[j] = "write rows"
    /\ predictions' = held[j].rows
    /\ Goto(j, "imported")
    /\ UNCHANGED <<items, answers, report, markdown, held, changes, started, published>>

\* A write fails halfway: some rows are in the file, the last perhaps in part.
WriteFails(j) ==
    /\ pc[j] \in {"write report", "write markdown", "write rows"}
    /\ IF pc[j] = "write rows"
       THEN \E n \in 0..(Len(held[j].rows) - 1), torn \in {<<>>, <<Junk>>} :
               predictions' = SubSeq(held[j].rows, 1, n) \o torn
       ELSE UNCHANGED predictions
    /\ Exit(j, "refused")
    /\ UNCHANGED <<items, answers, report, markdown, changes, started, published>>

Crash(j) ==
    /\ pc[j] \notin Ended
    /\ Exit(j, "crashed")
    /\ UNCHANGED <<files, changes, started, published>>

-----------------------------------------------------------------------------
(* What others do to the files. *)

Replace ==
    /\ changes < MaxChanges
    /\ changes' = changes + 1
    /\ \/ /\ items' \in ItemFiles \ {items}
          /\ UNCHANGED <<answers, predictions, report>>
       \/ /\ answers' \in AnswerFiles \ {answers}
          /\ UNCHANGED <<items, predictions, report>>
       \/ /\ predictions' \in Replacements \ {predictions}
          /\ UNCHANGED <<items, answers, report>>
       \/ /\ report # Unreadable
          /\ report' \in Edited(report)
          /\ UNCHANGED <<items, answers, predictions>>
    /\ UNCHANGED <<markdown, pc, held, started, published>>

Step(j) ==
    \/ LoadItemSet(j) \/ CheckManifest(j) \/ LoadPredictions(j) \/ HashFile(j)
    \/ TruncateReport(j) \/ WriteReport(j) \/ TruncateMarkdown(j) \/ WriteMarkdown(j)
    \/ ReadReport(j)
    \/ ReadAnswers(j) \/ TruncatePredictions(j) \/ WritePredictions(j)
    \/ WriteFails(j)

Next == Replace \/ \E j \in Jobs : Start(j) \/ Step(j) \/ Crash(j)

Spec == Init /\ [][Next]_vars

-----------------------------------------------------------------------------
(* Properties. *)

\* What the evidence a report names recomputes to.
Recomputed(r) == Strata(Samples(r.items_sha256, r.predictions_sha256), r.confidence_bins)

\* The doc of verify: "0 mismatches" means that every number follows from the
\* files the report names, whoever wrote or edited it, and however the files
\* moved before; only predictions replaced between verify's own two reads of
\* them can make it say so of a report of other numbers.
VerifiedMeansReproducible ==
    \A j \in Jobs : pc[j] = "verified" /\ held[j].tol = 0 /\ ~held[j].moved =>
        held[j].report.strata = Recomputed(held[j].report)

\* verify finds no mismatch in a report that is what run computes from the
\* same files with the report's number of bins, unless the report declares a
\* looser tolerance than the audit's.
HonestReportsVerify ==
    \A j \in Jobs : pc[j] = "mismatch" =>
        \/ held[j].report.verify_tolerance > held[j].tol
        \/ held[j].report #
               BuildReport(held[j].items, held[j].rows, held[j].hash,
                           held[j].report.confidence_bins, held[j].report.verify_tolerance)

\* The hashes in a report are of the evidence its numbers came from: always of
\* the item set, and of the predictions unless they were replaced between the
\* two reads cmd_run makes of them.
PublishedNumbersFollow ==
    published # Unreadable /\ ~published.moved =>
        published.report.strata = Recomputed(published.report)

\* `run --manifest` publishes numbers of the pinned item set only, also when
\* the file is replaced while it runs.
PinnedRunsScoreThePinnedSet ==
    published # Unreadable /\ published.pinned => published.report.items_sha256 = Manifest

\* The readable view is one of the report published last: a crash leaves it
\* behind the report, never ahead of it or of another run's.
MarkdownFollowsReport ==
    [][markdown' # markdown => markdown' \in {Unreadable, published.report}]_vars

\* Every stratum of the last report.
AllStrata ==
    IF published = Unreadable THEN {}
    ELSE LET s == published.report.strata IN
         Range(s.by_category) \cup
         UNION {{g.overall} \cup Range(g.by_category) : g \in Range(s.by_source)}

SumOver(strata, field) == SumFunction([k \in DOMAIN strata |-> strata[k][field]])

\* No item is lost from the counts or counted twice, by source or by category:
\* an unanswered one shows up as missing, also after an import that broke off.
CoverageIsNotHidden ==
    published # Unreadable =>
        LET s == published.report.strata
            overall == [src \in DOMAIN s.by_source |-> s.by_source[src].overall]
            answered == {r \in Range(published.report.predictions_sha256) :
                            r.label # None \/ r.probs # None}
        IN /\ \A f \in Counts :
                 /\ SumOver(overall, f) = SumOver(s.by_category, f)
                 /\ \A src \in DOMAIN s.by_source :
                       overall[src][f] = SumOver(s.by_source[src].by_category, f)
           /\ SumOver(overall, "n_items") = Len(published.report.items_sha256)
           /\ \A m \in AllStrata : m.n_items = m.n_missing + m.n_predicted
           /\ ~published.moved => SumOver(overall, "n_predicted") = Count(answered)

\* What a row that loads can give one slot.
MostConfidence == Unit + SumTolerance

\* The ECE is between the overall distance of accuracy from mean confidence
\* and 1, whatever the bins: it is normalised exactly once.  Above 1 it is only
\* by what a row's sum may be.
EceBoundsOverallGap ==
    \A m \in {x \in AllStrata : x.ece # <<>>} :
        LET curve == m.reliability
            hits == SumFunction([i \in DOMAIN curve |->
                        (curve[i].accuracy[1] * curve[i].n) \div curve[i].accuracy[2]])
            confidence == SumFunction([i \in DOMAIN curve |->
                              (curve[i].mean_confidence[1] * Unit * curve[i].n)
                                  \div curve[i].mean_confidence[2]])
        IN /\ Gap(hits * Unit, confidence) * m.ece[2] <= m.ece[1] * Unit * m.n_scored
           /\ m.ece[1] * Unit <= MostConfidence * m.ece[2]

\* The reliability curve accounts for every scored sample, in a bin that holds
\* its confidence, 1 included; what the tolerance of a row's sum leaves above 1
\* is in the last bin.
BinsHoldTheirConfidence ==
    \A m \in AllStrata :
        /\ m.n_scored = SumOver(m.reliability, "n")
        /\ \A bin \in Range(m.reliability) :
              /\ bin.lower[1] * bin.mean_confidence[2] <= bin.mean_confidence[1] * bin.lower[2]
              /\ \/ bin.mean_confidence[1] * bin.upper[2] <= bin.upper[1] * bin.mean_confidence[2]
                 \/ /\ bin.upper = <<1, 1>>
                    /\ bin.mean_confidence[1] * Unit <= MostConfidence * bin.mean_confidence[2]

\* Predictions are matched by id: the order of the rows changes no number.
RowOrderDoesNotMatter ==
    published # Unreadable /\ ~published.moved =>
        published.report.strata =
            Strata(Samples(published.report.items_sha256,
                           Reverse(published.report.predictions_sha256)),
                   published.report.confidence_bins)

\* Answers a file of predictions can be made of: a distribution over the slots,
\* exact for a noul, whose other side import computes.
WellFormed(item, answer) ==
    IF item.kind = "noul" THEN answer.noul \in 0..Unit
    ELSE /\ DOMAIN answer.probs = Range(SlotLabels(item))
         /\ \A k \in DOMAIN answer.probs : answer.probs[k] \in Nat
         /\ SumsToOne(answer.probs)

\* The slot the server gave most to, the first of them at a tie.
AnswerSlot(item, answer) ==
    IF item.kind = "noul" THEN (IF 2 * answer.noul >= Unit THEN "true" ELSE "false")
    ELSE LET slots == SlotLabels(item)
             top == {k \in DOMAIN slots : \A other \in DOMAIN answer.probs :
                         answer.probs[other] <= answer.probs[slots[k]]}
         IN slots[Min(top)]

\* import invents and loses nothing: what it writes loads exactly when every
\* answer is a distribution over its question's slots; then each answered item
\* is predicted as the server answered and the others are missing.
ImportKeepsTheAnswers ==
    \A j \in Jobs : pc[j] = "imported" =>
        LET given == held[j].answers
            set == held[j].items
            fits == \A i \in DOMAIN set : set[i].id \in DOMAIN given =>
                       WellFormed(set[i], given[set[i].id])
        IN /\ PredictionsLoad(held[j].rows, set) <=> fits
           /\ fits => \A i \in DOMAIN set :
                 SampleOf(set[i], RowOf(set, i, held[j].rows)).predicted =
                     IF set[i].id \in DOMAIN given THEN AnswerSlot(set[i], given[set[i].id])
                     ELSE None
=============================================================================
