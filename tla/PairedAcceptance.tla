-------------------------- MODULE PairedAcceptance --------------------------
(***************************************************************************)
(* scripts/accept-m3-paired.sh: gate a zh and an en set, run the driver,   *)
(* pick the newest run-meta file of the directory, turn the answers of its *)
(* date into predictions and a report per language, check these, compare   *)
(* the pairs.  Acceptance d runs driver d; several of them share eval/runs *)
(* and, when they pick one run, the predictions and reports of its date.   *)
(***************************************************************************)
EXTENDS EvalDriver

CONSTANTS
    Skips,        \* what JEV_SKIP_DRIVE may be
    Allows,       \* what JEV_ALLOW_MISSING may be: FALSE, or TRUE with the
                  \* translator's report of what it dropped
    NoDate,
    NoAnswer      \* the probabilities of a row whose item has no answer

ASSUME AnswerAssumption == NoAnswer \notin Items

VARIABLES
    stage,
    sets,         \* sets[d]: the two item sets, JEV_ZH and JEV_EN
    skip,         \* skip[d]: JEV_SKIP_DRIVE
    newest,       \* the date of the meta file that was written to last
    picked,       \* picked[d]: DATE
    lang,         \* lang[d]: LANG, or the language step 7 is at
    predictions,  \* predictions[s, l]: <date>-<lang>-predictions.jsonl
    reports,      \* reports[s, l]: <date>-<lang>-report.json
    held,         \* held[d][l]: what the command d runs holds of language l
    compared      \* compared[d]: the keys of the paired test

ownVars == <<sets, skip, picked>>
sharedVars == <<predictions, reports>>
acceptVars == <<stage, ownVars, newest, lang, sharedVars, held, compared>>
allVars == <<vars, acceptVars>>

\* The rows of a prediction file give keys the prompt of their answer; a report
\* says of which keys it is and from which rows.
NoReport == [keys |-> {}, rows |-> <<>>]
NoRows == [form |-> "empty", rows |-> <<>>]
NothingYet == [form |-> "empty", report |-> NoReport]
Nothing == [rows |-> <<>>, report |-> NoReport]

AcceptInit ==
    /\ Init
    /\ stage = [d \in Drivers |-> "gate"]
    /\ sets = [d \in Drivers |-> NoJob]
    /\ skip = [d \in Drivers |-> FALSE]
    /\ newest = NoDate
    /\ picked = [d \in Drivers |-> NoDate]
    /\ lang = [d \in Drivers |-> "zh"]
    /\ predictions = [p \in Seconds \X Langs |-> NoRows]
    /\ reports = [p \in Seconds \X Langs |-> NothingYet]
    /\ held = [d \in Drivers |-> [l \in Langs |-> Nothing]]
    /\ compared = [d \in Drivers |-> {}]

Advance(d, next) == stage' = [stage EXCEPT ![d] = next]

\* What there is for both languages: the same for the other one, or what follows.
AdvanceLang(d, again, next) ==
    IF lang[d] = "zh"
      THEN Advance(d, again) /\ lang' = [lang EXCEPT ![d] = "en"]
      ELSE Advance(d, next) /\ lang' = [lang EXCEPT ![d] = "zh"]

-----------------------------------------------------------------------------
(* Steps 0 to 2, and the date. *)

\* check-en-parity.py; the report passed with --allow-missing lists exactly the
\* keys the English set lacks, or the gate refuses.
PassesGate(j, allow) ==
    /\ IsInjective(j.zh) /\ IsInjective(j.en)
    /\ IF allow THEN Range(j.en) \subseteq Range(j.zh) ELSE Range(j.en) = Range(j.zh)

\* Steps 0 to 2: gate, server, driver.
Gate(d) ==
    /\ stage[d] = "gate"
    /\ \E j \in Jobs, allow \in Allows, s \in Skips :
        /\ sets' = [sets EXCEPT ![d] = j]
        /\ skip' = [skip EXCEPT ![d] = s]
        /\ IF ~PassesGate(j, allow)
             THEN Advance(d, "failed") /\ UNCHANGED vars
           ELSE IF s
             THEN Advance(d, "pick") /\ UNCHANGED vars
           ELSE Advance(d, "drive") /\ Start(d, j)
    /\ UNCHANGED <<newest, picked, lang, sharedVars, held, compared>>

\* Whatever the driver's exit code is.
DriverReturns(d) ==
    /\ stage[d] = "drive"
    /\ pc[d] \in {"exited", "killed"}
    /\ Advance(d, "pick")
    /\ UNCHANGED <<vars, ownVars, newest, lang, sharedVars, held, compared>>

AfterPick == IF newest = NoDate THEN "failed" ELSE "import"

\* ls -t "$RUN_DIR"/*-run-meta.json | head -1
Pick(d) ==
    /\ stage[d] = "pick"
    /\ picked' = [picked EXCEPT ![d] = newest]
    /\ Advance(d, AfterPick)
    /\ UNCHANGED <<vars, sets, skip, newest, lang, sharedVars, held, compared>>

-----------------------------------------------------------------------------
(* Steps 3 to 6, each command of jev-eval on the files named by the date. *)

Path(d) == <<picked[d], lang[d]>>
Mine(d) == held[d][lang[d]]
OwnKeys(d, l) == Range(sets[d][l])

\* An item without an answer gets a row that says so.
ImportedRows(d, l) ==
    LET found == files[<<picked[d], l>>].answers
    IN  [k \in OwnKeys(d, l) |->
            IF <<l, k>> \in DOMAIN found THEN found[<<l, k>>] ELSE NoAnswer]

\* A row of a key that is not the set's own is refused, as is a file with half
\* a row or with two of a key.
RowsLoad(d, file) ==
    /\ file.form \in {"empty", "whole"}
    /\ DOMAIN file.rows \subseteq OwnKeys(d, lang[d])

\* A write ends behind its own bytes.  What another acceptance has written since
\* the file was emptied, and was longer, shows behind them: whole rows, of
\* which some may be there twice by now, or half a row in front.
Over(own, others, more) ==
    [k \in DOMAIN own \cup more |-> IF k \in DOMAIN own THEN own[k] ELSE others[k]]

WrittenRows(own, file) ==
    {[form |-> f, rows |-> Over(own, file.rows, more)] :
        more \in SUBSET (DOMAIN file.rows \ DOMAIN own),
        f \in IF file.form = "empty" THEN {"whole"} ELSE {"whole", "twice", "torn"}}

\* Behind a JSON document there may be nothing.
WrittenReport(own, file) ==
    {[form |-> "whole", report |-> own]} \cup
        IF file.form = "empty" THEN {} ELSE {[form |-> "torn", report |-> NoReport]}

Fail(d) == Advance(d, "failed") /\ UNCHANGED lang

KeepRows(d, rows) == held' = [held EXCEPT ![d][lang[d]].rows = rows]
KeepReport(d, report) == held' = [held EXCEPT ![d][lang[d]].report = report]

\* import reads the answers of the date, which are there or cut off for good,
\* and empties the file it writes.
Import(d) ==
    /\ stage[d] = "import"
    /\ IF ~files[Path(d)].whole
         THEN Fail(d) /\ UNCHANGED <<predictions, held>>
         ELSE /\ KeepRows(d, ImportedRows(d, lang[d]))
              /\ predictions' = [predictions EXCEPT ![Path(d)] = NoRows]
              /\ Advance(d, "write rows") /\ UNCHANGED lang
    /\ UNCHANGED <<vars, ownVars, newest, reports, compared>>

WriteRows(d) ==
    /\ stage[d] = "write rows"
    /\ \E file \in WrittenRows(Mine(d).rows, predictions[Path(d)]) :
          predictions' = [predictions EXCEPT ![Path(d)] = file]
    /\ Advance(d, "load")
    /\ UNCHANGED <<vars, ownVars, newest, lang, reports, held, compared>>

\* run and verify load the predictions.
Load(d) ==
    /\ stage[d] \in {"load", "load again"}
    /\ IF ~RowsLoad(d, predictions[Path(d)])
         THEN Fail(d) /\ UNCHANGED held
         ELSE /\ KeepRows(d, predictions[Path(d)].rows)
              /\ Advance(d, IF stage[d] = "load" THEN "empty report" ELSE "verify")
              /\ UNCHANGED lang
    /\ UNCHANGED <<vars, ownVars, newest, sharedVars, compared>>

ReportOf(d, l) == [keys |-> OwnKeys(d, l), rows |-> held[d][l].rows]

EmptyReport(d) ==
    /\ stage[d] = "empty report"
    /\ reports' = [reports EXCEPT ![Path(d)] = NothingYet]
    /\ Advance(d, "write report")
    /\ UNCHANGED <<vars, ownVars, newest, lang, predictions, held, compared>>

WriteReport(d) ==
    /\ stage[d] = "write report"
    /\ \E file \in WrittenReport(ReportOf(d, lang[d]), reports[Path(d)]) :
          reports' = [reports EXCEPT ![Path(d)] = file]
    /\ Advance(d, "load again")
    /\ UNCHANGED <<vars, ownVars, newest, lang, predictions, held, compared>>

\* verify finds no mismatch in what run computes from the same evidence, which
\* the report has the hashes of.
Verify(d) ==
    /\ stage[d] = "verify"
    /\ LET file == reports[Path(d)] IN
       IF file.form = "whole" /\ file.report = ReportOf(d, lang[d])
         THEN Advance(d, "tamper") /\ UNCHANGED lang
         ELSE Fail(d)
    /\ UNCHANGED <<vars, ownVars, newest, sharedVars, held, compared>>

\* A copy of the report is changed, and verify refuses the copy.
TamperGate(d) ==
    /\ stage[d] = "tamper"
    /\ IF reports[Path(d)].form = "whole"
         THEN AdvanceLang(d, "import", "summary")
         ELSE Fail(d)
    /\ UNCHANGED <<vars, ownVars, newest, sharedVars, held, compared>>

-----------------------------------------------------------------------------
(* Step 7, on what the files of the date hold by then. *)

\* summarize-report.py prints a report.
Summarize(d) ==
    /\ stage[d] = "summary"
    /\ IF reports[Path(d)].form = "whole"
         THEN AdvanceLang(d, "summary", "tables")
         ELSE Fail(d)
    /\ UNCHANGED <<vars, ownVars, newest, sharedVars, held, compared>>

\* pair-diff.py reads the reports, for its tables.
ReadReport(d) ==
    /\ stage[d] = "tables"
    /\ IF reports[Path(d)].form = "whole"
         THEN KeepReport(d, reports[Path(d)].report) /\ AdvanceLang(d, "tables", "pairs")
         ELSE Fail(d) /\ UNCHANGED held
    /\ UNCHANGED <<vars, ownVars, newest, sharedVars, compared>>

\* Then the predictions, with a reader of its own that takes any keys, and of
\* two rows of a key the later.
ReadRows(d) ==
    /\ stage[d] = "pairs"
    /\ IF predictions[Path(d)].form # "torn"
         THEN KeepRows(d, predictions[Path(d)].rows) /\ AdvanceLang(d, "pairs", "compare")
         ELSE Fail(d) /\ UNCHANGED held
    /\ UNCHANGED <<vars, ownVars, newest, sharedVars, compared>>

Answered(rows) == {k \in DOMAIN rows : rows[k] # NoAnswer}

Scorable(d, l, k) == k \in OwnKeys(d, l) /\ k \in Answered(held[d][l].rows)

\* Mutant: a pair is compared when either side has an answer.
PairedEither(d, k) == \E l \in Langs : Scorable(d, l, k)

\* pair-diff.py pairs on the key, and leaves a pair out that lacks an answer.
Paired(d, k) == \A l \in Langs : Scorable(d, l, k)

Compare(d) ==
    /\ stage[d] = "compare"
    /\ compared' = [compared EXCEPT ![d] = {k \in OwnKeys(d, "zh") \cup OwnKeys(d, "en") : Paired(d, k)}]
    /\ Advance(d, "accepted")
    /\ UNCHANGED <<vars, ownVars, newest, lang, sharedVars, held>>

-----------------------------------------------------------------------------
\* A driver, the server or the clock; a meta file that is opened or filled
\* becomes the newest one.
Below ==
    /\ \/ \E d \in Drivers : DriverStep(d) \/ Killed(d)
       \/ ServerStep
       \/ Tick
    /\ newest' = LET touched == {s \in Seconds : files'[<<s, "meta">>] # files[<<s, "meta">>]}
                 IN  IF touched = {} THEN newest ELSE CHOOSE s \in touched : TRUE
    /\ UNCHANGED <<stage, ownVars, lang, sharedVars, held, compared>>

AcceptStep(d) ==
    \/ Gate(d) \/ DriverReturns(d) \/ Pick(d)
    \/ Import(d) \/ WriteRows(d) \/ Load(d) \/ EmptyReport(d) \/ WriteReport(d)
    \/ Verify(d) \/ TamperGate(d)
    \/ Summarize(d) \/ ReadReport(d) \/ ReadRows(d) \/ Compare(d)

AcceptNext == (\E d \in Drivers : AcceptStep(d)) \/ Below

AcceptSpec == AcceptInit /\ [][AcceptNext]_allVars

-----------------------------------------------------------------------------
(* Properties. *)

\* No other acceptance has picked the run of d.
Alone(d) == \A e \in Drivers \ {d} : picked[e] # picked[d]

\* The comparison sets a zh answer against the en answer of the same key and of
\* the same run, each to its own prompt, and its tables are of such answers
\* too, though runs are found by file name and time, drivers are killed, and
\* other acceptances write into the files the comparison reads.  An acceptance
\* that is alone with its run also compares every pair of its sets that was
\* driven and not given up, and its tables are of the rows it compares; two
\* with one run may lose rows to each other.
CompareLikeWithLike ==
    \A d \in Drivers : stage[d] = "accepted" =>
        LET run == files[<<picked[d], "zh">>].by
            rows(l) == held[d][l].rows
            report(l) == held[d][l].report
            ofRun(l, found) == \A k \in Answered(found) :
                                found[k] = <<l, k>> /\ <<l, k>> \in DOMAIN got[run][l]
        IN  /\ run \in Drivers /\ files[<<picked[d], "en">>].by = run
            /\ \A l \in Langs : ofRun(l, rows(l)) /\ ofRun(l, report(l).rows)
            /\ compared[d] \subseteq Answered(rows("zh")) \cap Answered(rows("en"))
            /\ Alone(d) =>
                /\ \A l \in Langs : report(l) = ReportOf(d, l)
                /\ \A k \in (OwnKeys(d, "zh") \cap OwnKeys(d, "en")) \ compared[d] :
                        \E l \in Langs : <<l, k>> \in failed[run] \/ <<l, k>> \notin ItemsOf(run)
=============================================================================
