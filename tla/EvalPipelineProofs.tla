----------------------- MODULE EvalPipelineProofs -----------------------
(***************************************************************************)
(* Proofs about the commands of jev-eval on shared files, for any number   *)
(* of processes, any files, any edits between any two accesses, and        *)
(* without a bound on the commands or the changes.                         *)
(*                                                                         *)
(* PipelineInv says what a process has checked at each stage, EvidenceInv  *)
(* that what it goes on with came from files that loaded.  Between the two *)
(* are lemmas about the operators of Evaluation: quotients, samples, the   *)
(* metrics of samples, and the comparison of two sets of metrics.          *)
(***************************************************************************)
EXTENDS EvalPipeline, FiniteSums

-----------------------------------------------------------------------------
(* The invariant of the processes. *)

Fields == {"command", "manifest", "bins", "tol", "items", "answers", "rows", "hash",
           "report", "moved"}

Writing == {"write report", "markdown", "write markdown"}
Showing == {"markdown", "write markdown"}

Types ==
    /\ DOMAIN pc = Jobs /\ DOMAIN held = Jobs
    /\ \A j \in Jobs : DOMAIN held[j] = Fields

\* What a process holds at each stage of `run`.
Holds(j) ==
    /\ pc[j] \in {"predictions", "hash", "build"} \cup Writing /\ held[j].manifest =>
          held[j].items = Manifest
    /\ pc[j] \in {"build"} \cup Writing =>
          held[j].command = "run" /\ (held[j].moved \/ held[j].hash = held[j].rows)
    /\ pc[j] \in Writing => held[j].report = ReportOf(j)
    /\ pc[j] \in Showing => held[j].report = published.report

\* At most one `run` at a time is under way.
OneRun ==
    \A j, k \in Jobs :
        pc[j] \notin Ended /\ pc[k] \notin Ended
            /\ held[j].command = "run" /\ held[k].command = "run" => j = k

PipelineInv ==
    /\ Types
    /\ \A j \in Jobs : Holds(j)
    /\ OneRun
    /\ PublishedNumbersFollow
    /\ PinnedRunsScoreThePinnedSet

-----------------------------------------------------------------------------
(* Who wrote what. *)

\* A report says where its numbers come from.
LEMMA ReportSaysItsEvidence ==
    ASSUME NEW i, NEW r, NEW h, NEW b, NEW t
    PROVE  LET built == BuildReport(i, r, h, b, t) IN
           /\ built.items_sha256 = i
           /\ h = r => built.strata = Recomputed(built)
  BY DEF BuildReport, Recomputed

\* A process that is not at a step stays as it was.
SameJob(k) == pc'[k] = pc[k] /\ held'[k] = held[k]

\* What a process holds stays when it does not move.
LEMMA HoldsStays ==
    ASSUME NEW k \in Jobs, Holds(k), SameJob(k), published' = published
    PROVE  Holds(k)'
<1>1. ReportOf(k)' = ReportOf(k)
  BY DEF ReportOf, SameJob
<1>2. QED
  BY <1>1 DEF Holds, SameJob

\* A step of j moves j only, and leaves it the command it was started with.
Moves(j) ==
    /\ Types'
    /\ \A k \in Jobs : k # j => SameJob(k)
    /\ pc'[j] \notin Ended => pc[j] \notin Ended /\ held'[j].command = held[j].command

\* A step moves one process.
LEMMA StepMoves ==
    ASSUME Types, NEW j \in Jobs, Step(j) \/ Crash(j)
    PROVE  Moves(j)
<1> USE DEF Types, Moves, SameJob, Goto, Exit, Keep, Fields, Ended
<1>0. DOMAIN Nothing = Fields
  BY DEF Nothing, Command
<1>1. CASE LoadItemSet(j)
  BY <1>0, <1>1 DEF LoadItemSet
<1>2. CASE CheckManifest(j)
  BY <1>0, <1>2 DEF CheckManifest
<1>3. CASE LoadPredictions(j)
  BY <1>0, <1>3 DEF LoadPredictions
<1>4. CASE HashFile(j)
  BY <1>0, <1>4 DEF HashFile
<1>5. CASE TruncateReport(j)
  BY <1>0, <1>5 DEF TruncateReport
<1>6. CASE WriteReport(j)
  BY <1>0, <1>6 DEF WriteReport
<1>7. CASE TruncateMarkdown(j)
  BY <1>0, <1>7 DEF TruncateMarkdown
<1>8. CASE WriteMarkdown(j)
  BY <1>0, <1>8 DEF WriteMarkdown
<1>9. CASE ReadReport(j)
  BY <1>0, <1>9 DEF ReadReport
<1>10. CASE ReadAnswers(j)
  BY <1>0, <1>10 DEF ReadAnswers
<1>11. CASE TruncatePredictions(j)
  BY <1>0, <1>11 DEF TruncatePredictions
<1>12. CASE WritePredictions(j)
  BY <1>0, <1>12 DEF WritePredictions
<1>13. CASE WriteFails(j)
  BY <1>0, <1>13 DEF WriteFails
<1>14. CASE Crash(j)
  BY <1>0, <1>14 DEF Crash
<1>15. QED
  BY <1>1, <1>2, <1>3, <1>4, <1>5, <1>6, <1>7, <1>8, <1>9, <1>10, <1>11, <1>12,
     <1>13, <1>14 DEF Step

\* A process that is at none of the stages of `run` owes nothing.
LEMMA HoldsElsewhere ==
    ASSUME NEW j \in Jobs,
           pc'[j] \notin {"predictions", "hash", "build"} \cup Writing
    PROVE  Holds(j)'
  BY DEF Holds, Writing, Showing

\* A process that moves holds evidence again.
LEMMA HoldsStep ==
    ASSUME Types, NEW j \in Jobs, Holds(j), Step(j) \/ Crash(j)
    PROVE  Holds(j)'
<1> USE DEF Types, Goto, Keep, Fields
<1>1. CASE LoadItemSet(j)
  <2>1. \/ pc'[j] \in {"answers", "manifest", "refused"}
        \/ pc'[j] = "predictions" /\ ~held'[j].manifest
    BY <1>1 DEF LoadItemSet, Exit
  <2>2. QED
    BY <2>1, HoldsElsewhere DEF Holds, Writing, Showing
<1>2. CASE CheckManifest(j)
  <2>1. CASE Pinned(j)
    BY <1>2, <2>1 DEF CheckManifest, Pinned, Holds, Writing, Showing
  <2>2. CASE ~Pinned(j)
    BY <1>2, <2>2, HoldsElsewhere DEF CheckManifest, Exit, Writing
  <2>3. QED
    BY <2>1, <2>2
<1>3. CASE LoadPredictions(j)
  <2>1. \/ pc'[j] = "refused"
        \/ /\ pc[j] = "predictions" /\ pc'[j] = "hash"
           /\ held'[j].items = held[j].items /\ held'[j].manifest = held[j].manifest
    BY <1>3 DEF LoadPredictions, Exit
  <2>2. QED
    BY <2>1 DEF Holds, Writing, Showing
<1>4. CASE HashFile(j)
  <2>1. /\ pc[j] = "hash"
        /\ pc'[j] = IF held[j].command = "run" THEN "build" ELSE "report"
        /\ held'[j].items = held[j].items /\ held'[j].manifest = held[j].manifest
        /\ held'[j].command = held[j].command /\ held'[j].rows = held[j].rows
        /\ held'[j].hash = predictions
    BY <1>4 DEF HashFile
  <2>2. held'[j].moved \/ predictions = held[j].rows
    BY <1>4 DEF HashFile
  <2>3. QED
    BY <2>1, <2>2 DEF Holds, Writing, Showing
<1>5. CASE TruncateReport(j)
  <2>1. /\ pc[j] = "build" /\ pc'[j] = "write report"
        /\ held'[j].report = ReportOf(j)
        /\ \A f \in Fields \ {"report"} : held'[j][f] = held[j][f]
    BY <1>5 DEF TruncateReport
  <2>2. ReportOf(j)' = ReportOf(j)
    BY <2>1 DEF ReportOf
  <2>3. QED
    BY <2>1, <2>2 DEF Holds, Writing, Showing
<1>6. CASE WriteReport(j)
  <2>1. /\ pc[j] = "write report" /\ pc'[j] = "markdown" /\ held' = held
        /\ published'.report = held[j].report
    BY <1>6 DEF WriteReport
  <2>2. ReportOf(j)' = ReportOf(j)
    BY <2>1 DEF ReportOf
  <2>3. QED
    BY <2>1, <2>2 DEF Holds, Writing, Showing
<1>7. CASE TruncateMarkdown(j)
  <2>1. /\ pc[j] = "markdown" /\ pc'[j] = "write markdown"
        /\ held' = held /\ published' = published
    BY <1>7 DEF TruncateMarkdown
  <2>2. ReportOf(j)' = ReportOf(j)
    BY <2>1 DEF ReportOf
  <2>3. QED
    BY <2>1, <2>2 DEF Holds, Writing, Showing
<1>8. CASE \/ WriteMarkdown(j) \/ ReadReport(j) \/ ReadAnswers(j)
           \/ TruncatePredictions(j) \/ WritePredictions(j) \/ WriteFails(j) \/ Crash(j)
  <2>1. pc'[j] \in {"reported", "refused", "verified", "mismatch", "truncate",
                    "write rows", "imported", "crashed"}
    BY <1>8
    DEF WriteMarkdown, ReadReport, ReadAnswers, TruncatePredictions,
        WritePredictions, WriteFails, Crash, Exit
  <2>2. QED
    BY <2>1, HoldsElsewhere DEF Writing
<1>9. QED
  BY <1>1, <1>2, <1>3, <1>4, <1>5, <1>6, <1>7, <1>8 DEF Step

-----------------------------------------------------------------------------
\* What is written is what the process computed from what it had read.
LEMMA PublicationStep ==
    ASSUME PipelineInv, NEW j \in Jobs, WriteReport(j)
    PROVE  PublishedNumbersFollow' /\ PinnedRunsScoreThePinnedSet'
<1>1. /\ held[j].report = ReportOf(j)
      /\ held[j].manifest => held[j].items = Manifest
      /\ held[j].moved \/ held[j].hash = held[j].rows
  BY DEF PipelineInv, Holds, WriteReport, Writing
<1>2. /\ published'.report = held[j].report
      /\ published'.pinned = held[j].manifest /\ published'.moved = held[j].moved
  BY DEF WriteReport
<1>3. /\ held[j].report.items_sha256 = held[j].items
      /\ held[j].hash = held[j].rows => held[j].report.strata = Recomputed(held[j].report)
  BY <1>1, ReportSaysItsEvidence DEF ReportOf
<1>4. PublishedNumbersFollow'
  <2>1. ~published'.moved => published'.report.strata = Recomputed(published'.report)
    BY <1>1, <1>2, <1>3
  <2>2. Recomputed(published.report)' = Recomputed(published'.report)
    BY DEF Recomputed
  <2>3. QED
    BY <2>1, <2>2 DEF PublishedNumbersFollow
<1>5. PinnedRunsScoreThePinnedSet'
  BY <1>1, <1>2, <1>3 DEF PinnedRunsScoreThePinnedSet
<1>6. QED
  BY <1>4, <1>5

\* A report and its markdown stay until one is written.
LEMMA PublicationStays ==
    ASSUME PipelineInv, published' = published
    PROVE  PublishedNumbersFollow' /\ PinnedRunsScoreThePinnedSet'
  BY DEF PipelineInv, PublishedNumbersFollow, PinnedRunsScoreThePinnedSet, Recomputed

\* The published reports grow in one step only.
LEMMA OnlyWriteReportPublishes ==
    ASSUME NEW j \in Jobs, Step(j) \/ Crash(j), ~WriteReport(j)
    PROVE  published' = published
  BY DEF Step, LoadItemSet, CheckManifest, LoadPredictions, HashFile, TruncateReport,
         TruncateMarkdown, WriteMarkdown, ReadReport, ReadAnswers, TruncatePredictions,
         WritePredictions, WriteFails, Crash

\* No step breaks the invariant.
LEMMA PipelineInvStep ==
    ASSUME PipelineInv, [Next]_vars
    PROVE  PipelineInv'
<1> USE DEF PipelineInv
<1>1. ASSUME NEW j \in Jobs, Step(j) \/ Crash(j)
      PROVE  PipelineInv'
  <2>1. Moves(j) /\ Holds(j)'
    BY <1>1, StepMoves, HoldsStep
  <2>2. OneRun'
    BY <2>1 DEF OneRun, Moves, SameJob
  <2>3. CASE WriteReport(j)
    <3>1. pc[j] = "write report" /\ held[j].command = "run"
      BY <2>3 DEF WriteReport, Holds, Writing
    <3>2. ASSUME NEW k \in Jobs, k # j
          PROVE  Holds(k)'
      <4>1. SameJob(k) /\ pc[k] \notin Showing
        BY <2>1, <3>1, <3>2 DEF Moves, OneRun, Holds, Showing, Writing, Ended
      <4>2. ReportOf(k)' = ReportOf(k)
        BY <4>1 DEF ReportOf, SameJob
      <4>3. QED
        BY <4>1, <4>2 DEF Holds, SameJob
    <3>3. QED
      BY <2>1, <2>2, <2>3, <3>2, PublicationStep DEF Moves
  <2>4. CASE ~WriteReport(j)
    <3>1. published' = published
      BY <1>1, <2>4, OnlyWriteReportPublishes
    <3>2. \A k \in Jobs : k # j => Holds(k)'
      BY <2>1, <3>1, HoldsStays DEF Moves
    <3>3. QED
      BY <2>1, <2>2, <3>1, <3>2, PublicationStays DEF Moves
  <2>5. QED
    BY <2>3, <2>4
<1>2. ASSUME NEW j \in Jobs, Start(j)
      PROVE  PipelineInv'
  <2>1. /\ pc' = [pc EXCEPT ![j] = "items"] /\ published' = published
        /\ \E command, manifest, bins, tol :
              /\ command # "verify" => SoleWriter(j, command)
              /\ held' = [held EXCEPT ![j] = Command(command, manifest, bins, tol)]
    BY <1>2 DEF Start, Goto
  <2>2. Types' /\ \A k \in Jobs : k # j => SameJob(k)
    BY <2>1 DEF Types, SameJob, Command, Fields
  <2>3. \A k \in Jobs : Holds(k)'
    <3>1. Holds(j)'
      BY <2>1, HoldsElsewhere DEF Types, Writing
    <3>2. QED
      BY <2>1, <2>2, <3>1, HoldsStays
  <2>4. held'[j].command = "run" => SoleWriter(j, "run")
    BY <2>1 DEF Types, Command
  <2>5. OneRun'
    BY <2>2, <2>4 DEF OneRun, SoleWriter, SameJob
  <2>6. QED
    BY <2>1, <2>2, <2>3, <2>5, PublicationStays
<1>3. ASSUME UNCHANGED <<pc, held, published>>
      PROVE  PipelineInv'
  <2>1. \A k \in Jobs : Holds(k)'
    BY <1>3, HoldsStays DEF SameJob
  <2>2. Types' /\ OneRun'
    BY <1>3 DEF Types, OneRun
  <2>3. QED
    BY <1>3, <2>1, <2>2, PublicationStays
<1>4. CASE Replace
  BY <1>3, <1>4 DEF Replace
<1>5. CASE UNCHANGED vars
  BY <1>3, <1>5 DEF vars
<1>6. QED
  BY <1>1, <1>2, <1>4, <1>5 DEF Next

\* The invariant the theorems below follow from.
LEMMA PipelineInvariant == Spec => []PipelineInv
<1>1. Init => PipelineInv
  <2> SUFFICES ASSUME Init PROVE PipelineInv
    OBVIOUS
  <2>1. Types
    BY DEF Init, Types, Nothing, Command, Fields
  <2>2. ASSUME NEW j \in Jobs PROVE Holds(j) /\ pc[j] \in Ended
    BY DEF Init, Holds, Writing, Showing, Ended
  <2>3. OneRun
    BY <2>2 DEF OneRun
  <2>4. PublishedNumbersFollow /\ PinnedRunsScoreThePinnedSet
    BY DEF Init, PublishedNumbersFollow, PinnedRunsScoreThePinnedSet
  <2>5. QED
    BY <2>1, <2>2, <2>3, <2>4 DEF PipelineInv
<1>2. QED
  BY <1>1, PipelineInvStep, PTL DEF Spec

\* Whatever is replaced, edited or killed between two accesses, the numbers of
\* a report follow from the evidence it names, unless the predictions moved
\* between the two reads of them.
THEOREM NumbersFollowFromEvidence == Spec => []PublishedNumbersFollow
<1>1. PipelineInv => PublishedNumbersFollow
  BY DEF PipelineInv
<1>2. QED
  BY <1>1, PipelineInvariant, PTL

\* The item set that is scored is the one that was compared with the manifest.
THEOREM ManifestHolds == Spec => []PinnedRunsScoreThePinnedSet
<1>1. PipelineInv => PinnedRunsScoreThePinnedSet
  BY DEF PipelineInv
<1>2. QED
  BY <1>1, PipelineInvariant, PTL

\* As long as runs do not share an output, the readable view that is written
\* is of the report that was published last.
THEOREM ViewFollowsReport == Spec => MarkdownFollowsReport
<1>1. PipelineInv /\ [Next]_vars =>
        [markdown' # markdown => markdown' \in {Unreadable, published.report}]_vars
  <2> SUFFICES ASSUME PipelineInv, [Next]_vars, markdown' # markdown
               PROVE  markdown' \in {Unreadable, published.report}
    OBVIOUS
  <2>1. PICK j \in Jobs : TruncateMarkdown(j) \/ WriteMarkdown(j)
    BY DEF Next, Start, Step, LoadItemSet, CheckManifest, LoadPredictions, HashFile,
           TruncateReport, WriteReport, ReadReport, ReadAnswers, TruncatePredictions,
           WritePredictions, WriteFails, Crash, Replace, files, vars
  <2>2. CASE TruncateMarkdown(j)
    BY <2>2 DEF TruncateMarkdown
  <2>3. CASE WriteMarkdown(j)
    BY <2>3 DEF WriteMarkdown, PipelineInv, Holds, Showing
  <2>4. QED
    BY <2>1, <2>2, <2>3
<1>2. QED
  BY <1>1, PipelineInvariant, PTL DEF Spec, MarkdownFollowsReport

-----------------------------------------------------------------------------
(* Quotients. *)

\* The factors that make a a multiple of b, and the least of them.
Factors(a, b) == {k \in 1..b : (a * k) % b = 0}

\* A number with no rest is a multiple.
LEMMA NoRest ==
    ASSUME NEW x \in Int, NEW b \in Nat \ {0}
    PROVE  (x % b = 0) <=> (\E q \in Int : x = q * b)
<1>1. x = b * (x \div b) + (x % b) /\ x \div b \in Int /\ x % b \in 0..(b - 1)
  OBVIOUS
<1>2. ASSUME x % b = 0
      PROVE  \E q \in Int : x = q * b
  <2>1. x = (x \div b) * b
    BY <1>1, <1>2
  <2>2. QED
    BY <1>1, <2>1
<1>3. ASSUME NEW q \in Int, x = q * b
      PROVE  x % b = 0
  <2>0. PICK d \in Int : d = x \div b
    BY <1>1
  <2>1. b * (q - d) = x % b
    BY <1>1, <1>3, <2>0
  <2>2. PICK e \in Int : e = q - d
    OBVIOUS
  <2>3. b * e \in 0..(b - 1)
    BY <1>1, <2>1, <2>2
  <2>4. e = 0
    <3>1. CASE e >= 1
      <4>1. b * e >= b
        BY <3>1
      <4>2. QED
        BY <2>3, <4>1
    <3>2. CASE e <= -1
      <4>1. b * e <= -b
        BY <3>2
      <4>2. QED
        BY <2>3, <4>1
    <3>3. QED
      BY <3>1, <3>2
  <2>5. QED
    BY <2>1, <2>2, <2>4
<1>4. QED
  BY <1>2, <1>3

\* Division without a rest.
LEMMA Divides ==
    ASSUME NEW q \in Int, NEW b \in Nat \ {0}
    PROVE  (q * b) \div b = q
<1> DEFINE x == q * b
<1>1. x \in Int
  OBVIOUS
<1>2. x % b = 0
  <2> HIDE DEF x
  <2>1. (x % b = 0) <=> (\E p \in Int : x = p * b)
    BY <1>1, NoRest
  <2>2. QED
    BY <2>1 DEF x
<1>3. x = b * (x \div b) + (x % b) /\ x \div b \in Int
  BY <1>1
<1>4. PICK d \in Int : d = x \div b
  BY <1>3
<1>5. q * b = b * d
  BY <1>2, <1>3, <1>4
<1>6. q = d
  <2>1. CASE q < d
    <3>1. b * (d - q) >= b
      BY <2>1
    <3>2. QED
      BY <1>5, <3>1
  <2>2. CASE q > d
    <3>1. b * (q - d) >= b
      BY <2>2
    <3>2. QED
      BY <1>5, <3>1
  <2>3. QED
    BY <2>1, <2>2
<1>7. QED
  BY <1>4, <1>6

\* The fraction for <<a, b>>.
LEMMA RatioIs ==
    ASSUME NEW a \in Int, NEW b \in Nat \ {0}
    PROVE  LET r == Ratio(a, b) IN
           /\ r = <<r[1], r[2]>> /\ r[1] \in Int /\ r[2] \in Nat \ {0}
           /\ r[1] * b = a * r[2]
           /\ r[2] \in Factors(a, b) /\ \A k \in Factors(a, b) : r[2] <= k
           /\ r[1] = (a * r[2]) \div b
<1> DEFINE F == Factors(a, b)
           m == Min(F)
<1>1. F \in SUBSET Int /\ F # {}
  <2>1. (a * b) % b = 0
    BY NoRest
  <2>2. b \in F
    BY <2>1 DEF Factors
  <2>3. F \subseteq Int
    BY DEF Factors
  <2> HIDE DEF F
  <2>4. QED
    BY <2>2, <2>3
<1>2. IsFiniteSet(F)
  <2>1. IsFiniteSet(1..b)
    BY FS_Interval
  <2>2. F \subseteq 1..b
    BY DEF Factors
  <2>3. QED
    BY <2>1, <2>2, FS_Subset
<1>3. m \in F /\ \A k \in F : m <= k
  <2> HIDE DEF F
  <2>1. \E k \in F : \A l \in F : k <= l
    BY <1>1, <1>2, LeastElement
  <2>2. QED
    BY <2>1 DEF Min
<1>4. Ratio(a, b) = <<(a * m) \div b, m>>
  BY DEF Ratio, Factors
<1>5. m \in Nat \ {0} /\ (a * m) % b = 0
  BY <1>3 DEF Factors
<1>6. PICK q \in Int : a * m = q * b
  <2> HIDE DEF m
  <2>1. a * m \in Int
    BY <1>5
  <2>2. QED
    BY <1>5, <2>1, NoRest
<1>7. (a * m) \div b = q
  BY <1>6, Divides
<1> HIDE DEF m, F
<1>8. QED
  BY <1>3, <1>4, <1>5, <1>6, <1>7 DEF F

\* Equal fractions have one form.
LEMMA RatioUnique ==
    ASSUME NEW a \in Int, NEW b \in Nat \ {0}, NEW c \in Int, NEW d \in Nat \ {0},
           a * d = c * b
    PROVE  Ratio(a, b) = Ratio(c, d)
<1>1. ASSUME NEW x \in Int, NEW y \in Nat \ {0}, NEW z \in Int, NEW w \in Nat \ {0},
             x * w = z * y, NEW k \in Nat \ {0}, (x * k) % y = 0
      PROVE  (z * k) % w = 0 /\ (z * k) \div w = (x * k) \div y
  <2>1. x * k \in Int /\ z * k \in Int
    OBVIOUS
  <2>2. PICK q \in Int : x * k = q * y
    BY <1>1, <2>1, NoRest
  <2>3. y * (z * k - q * w) = 0
    <3>1. y * (z * k) = (z * y) * k
      OBVIOUS
    <3>2. (z * y) * k = (x * w) * k
      BY <1>1
    <3>3. (x * w) * k = (x * k) * w
      OBVIOUS
    <3>4. (x * k) * w = y * (q * w)
      BY <2>2
    <3>5. QED
      BY <3>1, <3>2, <3>3, <3>4
  <2>4. z * k = q * w
    BY <2>3
  <2>5. (z * k) % w = 0
    BY <2>1, <2>4, NoRest
  <2>6. QED
    BY <2>2, <2>4, <2>5, Divides
<1> DEFINE r == Ratio(a, b)
           t == Ratio(c, d)
<1>2. /\ r = <<r[1], r[2]>> /\ r[2] \in Nat \ {0} /\ r[1] = (a * r[2]) \div b
      /\ r[2] \in 1..b /\ (a * r[2]) % b = 0
      /\ \A k \in 1..b : (a * k) % b = 0 => r[2] <= k
  BY RatioIs DEF Factors
<1>3. /\ t = <<t[1], t[2]>> /\ t[2] \in Nat \ {0} /\ t[1] = (c * t[2]) \div d
      /\ t[2] \in 1..d /\ (c * t[2]) % d = 0
      /\ \A k \in 1..d : (c * k) % d = 0 => t[2] <= k
  BY RatioIs DEF Factors
<1> HIDE DEF r, t
<1>4. (c * r[2]) % d = 0 /\ (c * r[2]) \div d = r[1]
  BY <1>1, <1>2
<1>5. (a * t[2]) % b = 0
  <2>1. c * b = a * d
    OBVIOUS
  <2>2. QED
    BY <1>1, <1>3, <2>1
<1>6. t[2] <= r[2] /\ r[2] <= t[2]
  BY <1>2, <1>3, <1>4, <1>5
<1>7. r[2] = t[2]
  BY <1>2, <1>3, <1>6
<1>8. r[1] = t[1]
  BY <1>3, <1>4, <1>7
<1>9. QED
  BY <1>2, <1>3, <1>7, <1>8 DEF r, t

\* A fraction is a number that a report may hold.
LEMMA RatioIsNumber ==
    ASSUME NEW a \in Int, NEW b \in Nat \ {0}
    PROVE  IsNumber(Ratio(a, b))
<1> DEFINE r == Ratio(a, b)
<1>1. r = <<r[1], r[2]>> /\ r[1] \in Int /\ r[2] \in Nat \ {0} /\ r[1] * b = a * r[2]
  BY RatioIs
<1>2. Ratio(r[1], r[2]) = r
  <2> HIDE DEF r
  <2>1. Ratio(r[1], r[2]) = Ratio(a, b)
    BY <1>1, RatioUnique
  <2>2. QED
    BY <2>1 DEF r
<1>3. Len(r) = 2
  <2> HIDE DEF r
  <2>1. QED
    BY <1>1
<1>4. QED
  BY <1>1, <1>2, <1>3 DEF IsNumber

\* The order of fractions is that of the quotients they stand for.
LEMMA RatioOrder ==
    ASSUME NEW a \in Int, NEW b \in Nat \ {0}, NEW c \in Int, NEW d \in Nat \ {0},
           a * d <= c * b
    PROVE  LET x == Ratio(a, b)
               y == Ratio(c, d)
           IN  x[1] * y[2] <= y[1] * x[2]
<1> DEFINE x == Ratio(a, b)
           y == Ratio(c, d)
<1>1. /\ x[1] \in Int /\ x[2] \in Nat \ {0} /\ x[1] * b = a * x[2]
      /\ y[1] \in Int /\ y[2] \in Nat \ {0} /\ y[1] * d = c * y[2]
  BY RatioIs
<1> HIDE DEF x, y
<1>2. PICK p \in Int, q \in Nat \ {0}, r \in Int, s \in Nat \ {0} :
        p = x[1] /\ q = x[2] /\ r = y[1] /\ s = y[2] /\ p * b = a * q /\ r * d = c * s
  BY <1>1
<1>3. (b * d) * (p * s) = (q * s) * (a * d)
  <2>1. (b * d) * (p * s) = (p * b) * (d * s)
    OBVIOUS
  <2>2. (p * b) * (d * s) = (a * q) * (d * s)
    BY <1>2
  <2>3. (a * q) * (d * s) = (q * s) * (a * d)
    OBVIOUS
  <2>4. QED
    BY <2>1, <2>2, <2>3
<1>4. (b * d) * (r * q) = (q * s) * (c * b)
  <2>1. (b * d) * (r * q) = (r * d) * (b * q)
    OBVIOUS
  <2>2. (r * d) * (b * q) = (c * s) * (b * q)
    BY <1>2
  <2>3. (c * s) * (b * q) = (q * s) * (c * b)
    OBVIOUS
  <2>4. QED
    BY <2>1, <2>2, <2>3
<1>5. (q * s) * (a * d) <= (q * s) * (c * b)
  OBVIOUS
<1>6. (b * d) * (p * s) <= (b * d) * (r * q)
  BY <1>3, <1>4, <1>5
<1>7. \A m \in Nat \ {0} : \A u, v \in Int : m * u <= m * v => u <= v
  OBVIOUS
<1>8. b * d \in Nat \ {0} /\ p * s \in Int /\ r * q \in Int
  OBVIOUS
<1>9. p * s <= r * q
  BY <1>6, <1>7, <1>8
<1>10. QED
  BY <1>2, <1>9 DEF x, y

-----------------------------------------------------------------------------
(* The comparison: what is alike, and what is the same. *)

\* Two numbers without a gap are the same.
LEMMA NoGap ==
    ASSUME NEW a \in Int, NEW b \in Int
    PROVE  Gap(a, b) \in Nat /\ (Gap(a, b) = 0 <=> a = b)
  BY DEF Gap

\* A number agrees with itself, whatever the tolerance.
LEMMA CloseToItself ==
    ASSUME NEW x, x = <<>> \/ IsNumber(x), NEW tol \in Nat
    PROVE  Close(x, x, tol)
<1>1. CASE x = <<>>
  BY <1>1 DEF Close
<1>2. CASE IsNumber(x)
  <2>1. PICK p \in Int, q \in Nat \ {0} : p = x[1] /\ q = x[2]
    BY <1>2 DEF IsNumber
  <2>2. Gap(p * q, p * q) = 0
    BY DEF Gap
  <2>3. 0 <= tol * q * q /\ 0 * Unit = 0
    BY UnitAssumption
  <2>4. QED
    BY <2>1, <2>2, <2>3 DEF Close
<1>3. QED
  BY <1>1, <1>2

\* Without a tolerance, numbers that agree are the same.
LEMMA CloseIsSame ==
    ASSUME NEW x, x = <<>> \/ IsNumber(x), NEW y, y = <<>> \/ IsNumber(y),
           NEW tol, tol = 0, Close(x, y, tol)
    PROVE  x = y
<1>1. CASE x = <<>> \/ y = <<>>
  BY <1>1 DEF Close
<1>2. CASE x # <<>> /\ y # <<>>
  <2>1. PICK p \in Int, q \in Nat \ {0} : p = x[1] /\ q = x[2] /\ x = Ratio(p, q)
    BY <1>2 DEF IsNumber
  <2>2. PICK r \in Int, s \in Nat \ {0} : r = y[1] /\ s = y[2] /\ y = Ratio(r, s)
    BY <1>2 DEF IsNumber
  <2>3. Gap(p * s, r * q) * Unit <= 0 * q * s
    BY <1>2, <2>1, <2>2 DEF Close
  <2>4. PICK g : g = Gap(p * s, r * q)
    OBVIOUS
  <2>5. g \in Nat /\ (g = 0 => p * s = r * q)
    <3> DEFINE u == p * s
               v == r * q
    <3>1. u \in Int /\ v \in Int
      OBVIOUS
    <3> HIDE DEF u, v
    <3>2. Gap(u, v) \in Nat /\ (Gap(u, v) = 0 <=> u = v)
      BY <3>1, NoGap
    <3>3. QED
      BY <2>4, <3>2 DEF u, v
  <2>6. 0 * q * s = 0
    OBVIOUS
  <2>7. g * Unit <= 0
    BY <2>3, <2>4, <2>6
  <2>8. g = 0
    BY <2>5, <2>7, UnitAssumption
  <2>9. QED
    BY <2>1, <2>2, <2>5, <2>8, RatioUnique
<1>3. QED
  BY <1>1, <1>2

\* The fields of the metrics.
MetricFields == Counts \cup Rates \cup {"classes_in_gold", "per_class_recall", "reliability"}

\* What parses agrees with itself.
LEMMA MetricsAgreeWithThemselves ==
    ASSUME NEW m, IsMetrics(m), NEW tol \in Nat
    PROVE  SameMetrics(m, m, tol)
<1>1. \A f \in Rates : Close(m[f], m[f], tol)
  BY CloseToItself DEF IsMetrics
<1>2. \A c \in DOMAIN m.per_class_recall :
        Close(m.per_class_recall[c], m.per_class_recall[c], tol)
  BY CloseToItself DEF IsMetrics
<1>3. \A i \in 1..Len(m.reliability) : SameBin(m.reliability[i], m.reliability[i], tol)
  <2> SUFFICES ASSUME NEW i \in 1..Len(m.reliability)
               PROVE  SameBin(m.reliability[i], m.reliability[i], tol)
    OBVIOUS
  <2>1. IsBin(m.reliability[i])
    BY DEF IsMetrics
  <2>2. QED
    BY <2>1, CloseToItself DEF IsBin, SameBin
<1>4. QED
  BY <1>1, <1>2, <1>3 DEF SameMetrics

\* So do strata.
LEMMA StrataAgreeWithThemselves ==
    ASSUME NEW s, IsStrata(s), NEW tol \in Nat
    PROVE  SameStrata(s, s, tol)
<1>1. ASSUME NEW m, IsCategories(m)
      PROVE  SameCategories(m, m, tol)
  BY <1>1, MetricsAgreeWithThemselves DEF IsCategories, SameCategories
<1>2. ASSUME NEW src \in DOMAIN s.by_source
      PROVE  SameSource(s.by_source[src], s.by_source[src], tol)
  <2>1. IsSource(s.by_source[src])
    BY DEF IsStrata
  <2>2. QED
    BY <1>1, <2>1, MetricsAgreeWithThemselves DEF IsSource, SameSource
<1>3. QED
  BY <1>1, <1>2 DEF IsStrata, SameStrata

\* A map is known by its keys and values.
LEMMA SameMap ==
    ASSUME NEW a, NEW b, IsMap(a), IsMap(b), DOMAIN a = DOMAIN b, \A k \in DOMAIN a : a[k] = b[k]
    PROVE  a = b
  BY DEF IsMap

\* Bins that agree exactly are the same.
LEMMA BinsAreTheSame ==
    ASSUME NEW a, NEW b, IsBin(a), IsBin(b), NEW tol, tol = 0, SameBin(a, b, tol)
    PROVE  a = b
<1>1. \A f \in Levels : a[f] = b[f]
  <2> SUFFICES ASSUME NEW f \in Levels PROVE a[f] = b[f]
    OBVIOUS
  <2>1. IsNumber(a[f]) /\ IsNumber(b[f]) /\ Close(a[f], b[f], tol)
    BY DEF IsBin, SameBin
  <2>2. QED
    BY <2>1, CloseIsSame
<1>2. a["n"] = b["n"]
  BY DEF SameBin
<1>3. QED
  BY <1>1, <1>2, SameMap DEF IsBin, HasFields

\* So are metrics.
LEMMA MetricsAreTheSame ==
    ASSUME NEW a, NEW b, IsMetrics(a), IsMetrics(b), NEW tol, tol = 0, SameMetrics(a, b, tol)
    PROVE  a = b
<1>1. \A f \in Counts : a[f] = b[f]
  BY DEF SameMetrics
<1>2. \A f \in Rates : a[f] = b[f]
  <2> SUFFICES ASSUME NEW f \in Rates PROVE a[f] = b[f]
    OBVIOUS
  <2>1. /\ a[f] = <<>> \/ IsNumber(a[f])
        /\ b[f] = <<>> \/ IsNumber(b[f])
        /\ Close(a[f], b[f], tol)
    BY DEF IsMetrics, SameMetrics
  <2>2. QED
    BY <2>1, CloseIsSame
<1>3. a["classes_in_gold"] = b["classes_in_gold"]
  BY DEF SameMetrics
<1>4. a["per_class_recall"] = b["per_class_recall"]
  <2> DEFINE r == a.per_class_recall
             q == b.per_class_recall
  <2>1. /\ IsMap(r) /\ IsMap(q) /\ DOMAIN r = DOMAIN q
        /\ \A c \in DOMAIN r : IsNumber(r[c]) /\ IsNumber(q[c]) /\ Close(r[c], q[c], tol)
    BY DEF IsMetrics, SameMetrics
  <2> HIDE DEF r, q
  <2>2. \A c \in DOMAIN r : r[c] = q[c]
    BY <2>1, CloseIsSame
  <2>3. r = q
    BY <2>1, <2>2, SameMap
  <2>4. QED
    BY <2>3 DEF r, q
<1>5. a["reliability"] = b["reliability"]
  <2> DEFINE r == a.reliability
             q == b.reliability
  <2>1. /\ r = [i \in 1..Len(r) |-> r[i]] /\ q = [i \in 1..Len(q) |-> q[i]] /\ Len(r) = Len(q)
        /\ \A i \in 1..Len(r) : IsBin(r[i]) /\ IsBin(q[i]) /\ SameBin(r[i], q[i], tol)
    BY DEF IsMetrics, SameMetrics
  <2> HIDE DEF r, q
  <2>2. \A i \in 1..Len(r) : r[i] = q[i]
    BY <2>1, BinsAreTheSame
  <2>3. r = q
    BY <2>1, <2>2
  <2>4. QED
    BY <2>3 DEF r, q
<1>6. \A f \in MetricFields : a[f] = b[f]
  BY <1>1, <1>2, <1>3, <1>4, <1>5 DEF MetricFields
<1>7. QED
  BY <1>6, SameMap DEF IsMetrics, HasFields, MetricFields

\* So are strata: an exact comparison leaves no number of them out.
LEMMA StrataAreTheSame ==
    ASSUME NEW a, NEW b, IsStrata(a), IsStrata(b), NEW tol, tol = 0, SameStrata(a, b, tol)
    PROVE  a = b
<1>1. ASSUME NEW m, NEW n, IsCategories(m), IsCategories(n), SameCategories(m, n, tol)
      PROVE  m = n
  <2>1. \A c \in DOMAIN m : m[c] = n[c]
    BY <1>1, MetricsAreTheSame DEF IsCategories, SameCategories
  <2>2. QED
    BY <1>1, <2>1, SameMap DEF IsCategories, SameCategories
<1>2. ASSUME NEW g, NEW h, IsSource(g), IsSource(h), SameSource(g, h, tol)
      PROVE  g = h
  <2>1. g["n_items"] = h["n_items"] /\ g["categories"] = h["categories"]
    BY <1>2 DEF SameSource
  <2>2. g["overall"] = h["overall"]
    BY <1>2, MetricsAreTheSame DEF SameSource, IsSource
  <2>3. g["by_category"] = h["by_category"]
    BY <1>1, <1>2 DEF SameSource, IsSource
  <2>4. QED
    BY <1>2, <2>1, <2>2, <2>3, SameMap DEF IsSource, HasFields
<1>3. a["by_category"] = b["by_category"]
  BY <1>1 DEF IsStrata, SameStrata
<1>4. a["by_source"] = b["by_source"]
  <2> DEFINE r == a.by_source
             q == b.by_source
  <2>1. /\ IsMap(r) /\ IsMap(q) /\ DOMAIN r = DOMAIN q
        /\ \A k \in DOMAIN r : IsSource(r[k]) /\ IsSource(q[k]) /\ SameSource(r[k], q[k], tol)
    BY DEF IsStrata, SameStrata
  <2> HIDE DEF r, q
  <2>2. \A k \in DOMAIN r : r[k] = q[k]
    BY <1>2, <2>1
  <2>3. r = q
    BY <2>1, <2>2, SameMap
  <2>4. QED
    BY <2>3 DEF r, q
<1>5. QED
  BY <1>3, <1>4, SameMap DEF IsStrata, HasFields

-----------------------------------------------------------------------------
(* Samples. *)

LEMMA MostIs == MostConfidence \in Nat /\ Unit \in Nat \ {0} /\ Unit <= MostConfidence
  BY UnitAssumption DEF MostConfidence

\* What samples_from makes of files that loaded.
IsSample(s) ==
    LET n == Len(s.slots) IN
    /\ n \in Nat \ {0} /\ DOMAIN s.slots = 1..n /\ None \notin Range(s.slots)
    /\ s.positive \in Range(s.slots) \cup {None}
    /\ s.predicted \in Range(s.slots) \cup {None}
    /\ s.probs # None =>
          /\ DOMAIN s.probs = 1..n /\ \A k \in 1..n : s.probs[k] \in 0..MostConfidence
          /\ s.predicted = s.slots[ArgmaxFirstMax(s.probs)]

AreSamples(S) == IsFiniteSet(S) /\ \A s \in S : IsSample(s)

\* The greatest mass, and the first slot of those that have it.
LEMMA ArgmaxIs ==
    ASSUME NEW n \in Nat \ {0}, NEW v, DOMAIN v = 1..n, \A k \in 1..n : v[k] \in Int
    PROVE  LET top == ArgmaxFirstMax(v) IN
           /\ top \in 1..n
           /\ \A k \in 1..n : v[k] < v[top] \/ (v[k] = v[top] /\ top <= k)
<1>1. IsFiniteSet(1..n) /\ 1..n # {}
  <2>1. IsFiniteSet(1..n)
    BY FS_Interval
  <2>2. 1 \in 1..n
    OBVIOUS
  <2>3. QED
    BY <2>1, <2>2
<1>2. PICK m \in 1..n : \A k \in 1..n : v[k] <= v[m]
  <2> DEFINE S == 1..n
  <2>1. IsFiniteSet(S) /\ S # {} /\ \A x \in S : v[x] \in Int
    BY <1>1
  <2> HIDE DEF S
  <2>2. \E x \in S : \A y \in S : v[y] <= v[x]
    BY <2>1, LargestExists
  <2>3. QED
    BY <2>2 DEF S
<1> DEFINE T == {k \in 1..n : v[k] = v[m]}
<1>3. T \in SUBSET Int /\ IsFiniteSet(T) /\ T # {}
  <2>1. T \subseteq 1..n /\ m \in T /\ 1..n \subseteq Int
    OBVIOUS
  <2> HIDE DEF T
  <2>2. IsFiniteSet(T)
    <3> DEFINE N == 1..n
    <3>1. IsFiniteSet(N) /\ T \subseteq N
      BY <1>1, <2>1
    <3> HIDE DEF N
    <3>2. QED
      BY <3>1, FS_Subset
  <2>3. QED
    BY <2>1, <2>2
<1>4. PICK i \in T : \A k \in T : i <= k
  <2> HIDE DEF T
  <2>1. QED
    BY <1>3, LeastElement
<1>5. /\ i \in DOMAIN v
      /\ \A j \in DOMAIN v : v[j] < v[i] \/ (v[j] = v[i] /\ i <= j)
  BY <1>2, <1>4
<1>6. ArgmaxFirstMax(v) \in DOMAIN v
      /\ \A j \in DOMAIN v : v[j] < v[ArgmaxFirstMax(v)]
            \/ (v[j] = v[ArgmaxFirstMax(v)] /\ ArgmaxFirstMax(v) <= j)
  BY <1>5 DEF ArgmaxFirstMax
<1>7. QED
  BY <1>6

\* The slot a scored sample is predicted in, and the confidence.
LEMMA ConfidenceIs ==
    ASSUME NEW s, IsSample(s), s.probs # None
    PROVE  /\ Confidence(s) \in 0..MostConfidence
           /\ ArgmaxFirstMax(s.probs) \in DOMAIN s.slots
           /\ s.predicted # None
<1> DEFINE n == Len(s.slots)
           v == s.probs
<1>1. /\ n \in Nat \ {0} /\ DOMAIN v = 1..n /\ \A k \in 1..n : v[k] \in 0..MostConfidence
      /\ DOMAIN s.slots = 1..n /\ None \notin Range(s.slots)
      /\ s.predicted = s.slots[ArgmaxFirstMax(v)]
  BY DEF IsSample
<1> HIDE DEF n, v
<1>2. ArgmaxFirstMax(v) \in 1..n
  BY <1>1, MostIs, ArgmaxIs
<1>3. s.predicted \in Range(s.slots)
  BY <1>1, <1>2 DEF Range
<1>4. QED
  BY <1>1, <1>2, <1>3 DEF Confidence, v

\* Some of the samples are samples, and finitely many.
LEMMA SomeSamples ==
    ASSUME NEW S, AreSamples(S), NEW T \in SUBSET S
    PROVE  AreSamples(T) /\ Count(T) \in Nat /\ (T # {} => Count(T) \in Nat \ {0})
  BY FS_Subset, FS_CardinalityType, FS_EmptySet DEF AreSamples, Count

\* Hits are some of the samples.
LEMMA HitsAre ==
    ASSUME NEW S, AreSamples(S)
    PROVE  Hits(S) \in Nat /\ Hits(S) <= Count(S)
<1> DEFINE H == {s \in S : s.predicted = s.gold}
<1>1. H \subseteq S /\ IsFiniteSet(S)
  BY DEF AreSamples
<1> HIDE DEF H
<1>2. Cardinality(H) \in Nat /\ Cardinality(H) <= Cardinality(S)
  BY <1>1, FS_Subset, FS_CardinalityType
<1>3. QED
  BY <1>2 DEF Hits, Count, H

\* The confidences of scored samples add up to a number.
LEMMA TotalConfidenceIs ==
    ASSUME NEW S, AreSamples(S), \A s \in S : s.probs # None
    PROVE  TotalConfidence(S) \in Nat /\ TotalConfidence(S) <= MostConfidence * Count(S)
<1> DEFINE f == [s \in S |-> Confidence(s)]
           g == [s \in S |-> MostConfidence]
<1>1. IsFiniteSet(S) /\ DOMAIN f = S /\ \A s \in S : f[s] \in 0..MostConfidence /\ g[s] = MostConfidence
  BY ConfidenceIs DEF AreSamples
<1>2. TotalConfidence(S) = SumFunctionOnSet(f, S)
  <2>1. TotalConfidence(S) = SumFunction(f)
    BY DEF TotalConfidence
  <2> HIDE DEF f
  <2>2. QED
    BY <1>1, <2>1, SumOfFunction
<1> HIDE DEF f, g
<1>3. \A s \in S : f[s] \in Nat /\ f[s] \in Int /\ g[s] \in Int /\ f[s] <= g[s]
  BY <1>1, MostIs
<1>4. SumFunctionOnSet(f, S) \in Nat
  BY <1>1, <1>3, SumOfNaturals
<1>5. SumFunctionOnSet(f, S) <= SumFunctionOnSet(g, S)
  BY <1>1, <1>3, SumMonotone
<1>6. SumFunctionOnSet(g, S) = Cardinality(S) * MostConfidence
  BY <1>1, MostIs, SumOfConstants
<1>7. Cardinality(S) \in Nat
  BY <1>1, FS_CardinalityType
<1>8. QED
  BY <1>2, <1>4, <1>5, <1>6, <1>7, MostIs DEF Count

\* So do the errors.
LEMMA ErrorsAre ==
    ASSUME NEW s, IsSample(s), s.probs # None
    PROVE  /\ SquaredError(s) \in Int
           /\ s.positive # None => PositiveError(s) \in Int
<1> DEFINE n == Len(s.slots)
           f == [k \in DOMAIN s.slots |-> Square(s.probs[k] - Target(s, s.slots[k]))]
<1>1. /\ n \in Nat \ {0} /\ DOMAIN s.slots = 1..n /\ \A k \in 1..n : s.probs[k] \in Int
      /\ s.positive # None => s.positive \in Range(s.slots)
  BY UnitAssumption DEF IsSample
<1>2. \A key : Target(s, key) \in Int
  BY UnitAssumption DEF Target
<1>3. \A x \in Int : Square(x) \in Int
  BY DEF Square
<1>4. SquaredError(s) \in Int
  <2>1. IsFiniteSet(DOMAIN s.slots)
    <3> HIDE DEF n
    <3>1. IsFiniteSet(1..n)
      BY <1>1, FS_Interval
    <3>2. QED
      BY <1>1, <3>1
  <2>2. \A k \in DOMAIN s.slots : s.probs[k] - Target(s, s.slots[k]) \in Int
    BY <1>1, <1>2
  <2>3. DOMAIN f = DOMAIN s.slots /\ \A k \in DOMAIN s.slots : f[k] \in Int
    BY <1>3, <2>2
  <2>4. SquaredError(s) = SumFunction(f)
    BY DEF SquaredError
  <2> HIDE DEF f
  <2>5. QED
    BY <2>1, <2>3, <2>4, SumIsInt, SumOfFunction
<1>5. ASSUME s.positive # None
      PROVE  PositiveError(s) \in Int
  <2>1. \E k \in DOMAIN s.slots : s.slots[k] = s.positive
    BY <1>1, <1>5 DEF Range
  <2>2. Mass(s, s.positive) \in Int
    BY <1>1, <2>1 DEF Mass
  <2>3. QED
    BY <1>2, <1>3, <2>2 DEF PositiveError
<1>6. QED
  BY <1>4, <1>5

-----------------------------------------------------------------------------
(* The metrics of samples are metrics that parse. *)

\* A rate is absent or a number.
LEMMA RateIs ==
    ASSUME NEW a \in Int, NEW b \in Nat
    PROVE  Ratio(a, b) = <<>> \/ IsNumber(Ratio(a, b))
<1>1. CASE b = 0
  BY <1>1 DEF Ratio
<1>2. CASE b # 0
  BY <1>2, RatioIsNumber
<1>3. QED
  BY <1>1, <1>2

\* Recalls are numbers, one for each class in gold.
LEMMA RecallsAre ==
    ASSUME NEW P, AreSamples(P)
    PROVE  LET recall == PerClassRecall(P) IN
           /\ IsMap(recall) /\ DOMAIN recall = {s.gold : s \in P} /\ IsFiniteSet(DOMAIN recall)
           /\ \A c \in DOMAIN recall : IsNumber(recall[c])
<1> DEFINE D == {s.gold : s \in P}
           recall == PerClassRecall(P)
<1>1. recall = [c \in D |-> Ratio(Hits(OfClass(P, c)), Count(OfClass(P, c)))]
  BY DEF PerClassRecall
<1>2. IsFiniteSet(D)
  <2> DEFINE g == [s \in P |-> s.gold]
  <2>1. g \in Surjection(P, D)
    BY DEF Surjection
  <2>2. IsFiniteSet(P)
    BY DEF AreSamples
  <2> HIDE DEF g, D
  <2>3. QED
    BY <2>1, <2>2, FS_Surjection
<1>3. ASSUME NEW c \in D
      PROVE  IsNumber(Ratio(Hits(OfClass(P, c)), Count(OfClass(P, c))))
  <2>1. OfClass(P, c) \subseteq P /\ OfClass(P, c) # {}
    BY <1>3 DEF OfClass
  <2>2. Count(OfClass(P, c)) \in Nat \ {0} /\ Hits(OfClass(P, c)) \in Nat
    BY <2>1, SomeSamples, HitsAre
  <2>3. QED
    BY <2>2, RatioIsNumber
<1> HIDE DEF recall, D
<1>4. QED
  BY <1>1, <1>2, <1>3 DEF IsMap, recall, D

\* The product of a function is the product over its domain.
LEMMA ProductOfFunction ==
    ASSUME NEW f
    PROVE  Product(f) = ProductOn(f, DOMAIN f)
  BY DEF Product, ProductOn, FoldFunction

\* A mean of numbers is a rate.
LEMMA BalancedAccuracyIs ==
    ASSUME NEW recall, IsFiniteSet(DOMAIN recall), \A c \in DOMAIN recall : IsNumber(recall[c])
    PROVE  BalancedAccuracy(recall) = <<>> \/ IsNumber(BalancedAccuracy(recall))
<1> DEFINE D == DOMAIN recall
           below == [c \in D |-> recall[c][2]]
           common == Product(below)
           part == [c \in D |-> recall[c][1] * (common \div recall[c][2])]
<1>1. \A c \in D : recall[c][1] \in Int /\ recall[c][2] \in Nat \ {0}
  BY DEF IsNumber
<1>2. common \in Nat
  <2>1. DOMAIN below = D /\ \A c \in D : below[c] \in Nat
    BY <1>1
  <2> HIDE DEF below, D
  <2>2. IsFiniteSet(D)
    BY DEF D
  <2>3. ProductOn(below, D) \in Nat
    BY <2>1, <2>2, ProductOfNaturals
  <2>4. QED
    BY <2>1, <2>3, ProductOfFunction
<1>3. SumFunction(part) \in Int
  <2>1. DOMAIN part = D /\ IsFiniteSet(D)
    OBVIOUS
  <2>2. \A c \in D : part[c] \in Int
    <3> SUFFICES ASSUME NEW c \in D PROVE part[c] \in Int
      OBVIOUS
    <3> HIDE DEF common
    <3>1. part[c] = recall[c][1] * (common \div recall[c][2])
      OBVIOUS
    <3>2. \A m \in Nat, k \in Nat \ {0} : m \div k \in Int
      OBVIOUS
    <3>3. common \div recall[c][2] \in Int
      BY <1>1, <1>2, <3>2
    <3>4. QED
      BY <1>1, <3>1, <3>3
  <2> HIDE DEF part, D
  <2>3. QED
    BY <2>1, <2>2, SumIsInt, SumOfFunction
<1>4. common * Count(D) \in Nat
  <2>1. Count(D) \in Nat
    BY FS_CardinalityType DEF Count
  <2> HIDE DEF common, D
  <2>2. QED
    BY <1>2, <2>1
<1>5. BalancedAccuracy(recall) = Ratio(SumFunction(part), common * Count(D))
  BY DEF BalancedAccuracy
<1> HIDE DEF part, common, D
<1>6. QED
  BY <1>3, <1>4, <1>5, RateIs

\* The bin of a confidence; what is above its upper bound is in the last.
LEMMA BinOfIs ==
    ASSUME NEW c \in 0..MostConfidence, NEW bins \in Nat \ {0}
    PROVE  LET b == BinOf(c, bins) IN
           /\ b \in 0..(bins - 1)
           /\ b * Unit <= c * bins
           /\ c * bins <= (b + 1) * Unit \/ b = bins - 1
<1>1. PICK d \in Int : d = (c * bins) \div Unit
  BY MostIs
<1>2. Unit * d <= c * bins /\ c * bins < Unit * d + Unit
  <2> DEFINE x == c * bins
  <2>1. x \in Int /\ Unit \in Nat /\ Unit > 0
    BY MostIs
  <2> HIDE DEF x
  <2>2. Unit * (x \div Unit) <= x /\ x < Unit * (x \div Unit) + Unit
    BY <2>1, DivisionRest
  <2>3. QED
    BY <1>1, <2>2 DEF x
<1>3. d >= 0
  <2> SUFFICES ASSUME d <= -1 PROVE FALSE
    OBVIOUS
  <2>1. Unit * d <= -Unit
    BY MostIs
  <2>2. 0 <= c * bins
    BY MostIs
  <2>3. QED
    BY <1>2, <2>1, <2>2, MostIs
<1>4. CASE d < bins
  <2>1. BinOf(c, bins) = d
    BY <1>1, <1>4 DEF BinOf
  <2>2. d * Unit = Unit * d /\ (d + 1) * Unit = Unit * d + Unit
    BY MostIs
  <2>3. c * bins \in Int /\ Unit * d \in Int
    BY MostIs
  <2>4. QED
    BY <1>2, <1>3, <1>4, <2>1, <2>2, <2>3, MostIs
<1>5. CASE ~(d < bins)
  <2>1. BinOf(c, bins) = bins - 1
    BY <1>1, <1>5 DEF BinOf
  <2>2. Unit * bins <= Unit * d
    BY <1>5, MostIs
  <2>3. (bins - 1) * Unit = Unit * bins - Unit /\ Unit * bins \in Int /\ Unit * d \in Int /\ c * bins \in Int
    BY MostIs
  <2>4. (bins - 1) * Unit <= c * bins
    BY <1>2, <2>2, <2>3, MostIs
  <2>5. QED
    BY <2>1, <2>4
<1>6. QED
  BY <1>4, <1>5

\* The bins in use.
BinsInUse(S, bins) == {b \in 0..(bins - 1) : InBin(S, b, bins) # {}}

\* They are in the curve, each of them once and in order.
LEMMA BinsOfCurve ==
    ASSUME NEW S, NEW bins \in Nat \ {0}
    PROVE  LET U == BinsInUse(S, bins)
               used == InOrder(U)
               curve == Reliability(S, bins)
           IN
           /\ U \subseteq Int /\ IsFiniteSet(U) /\ Cardinality(U) \in Nat
           /\ Len(curve) = Cardinality(U) /\ DOMAIN curve = 1..Cardinality(U)
           /\ \A i \in 1..Cardinality(U) :
                 used[i] \in U /\ curve[i] = ReliabilityBin(InBin(S, used[i], bins), used[i], bins)
           /\ \A i, k \in 1..Cardinality(U) : used[i] = used[k] => i = k
           /\ \A b \in U : \E i \in 1..Cardinality(U) : used[i] = b
           /\ curve = [i \in 1..Len(curve) |-> curve[i]]
<1> DEFINE U == BinsInUse(S, bins)
           used == InOrder(U)
           curve == Reliability(S, bins)
<1>1. U \subseteq Int /\ IsFiniteSet(U)
  <2> DEFINE m == bins - 1
  <2>1. m \in Int /\ U \subseteq 0..m /\ U \subseteq Int
    BY DEF BinsInUse
  <2> HIDE DEF m, U
  <2>2. PICK z \in Int : z = 0
    OBVIOUS
  <2>3. IsFiniteSet(z..m)
    BY <2>1, FS_Interval
  <2>4. U \subseteq z..m
    BY <2>1, <2>2
  <2>5. IsFiniteSet(U)
    <3> DEFINE N == z..m
    <3>1. IsFiniteSet(N) /\ U \subseteq N
      BY <2>3, <2>4
    <3> HIDE DEF N
    <3>2. QED
      BY <3>1, FS_Subset
  <2>6. QED
    BY <2>1, <2>5
<1>2. curve = [i \in 1..Len(used) |-> ReliabilityBin(InBin(S, used[i], bins), used[i], bins)]
  BY DEF Reliability, BinsInUse
<1> HIDE DEF U, curve
<1>3. /\ Cardinality(U) \in Nat /\ Len(used) = Cardinality(U)
      /\ \A k \in 1..Cardinality(U) : used[k] \in U
      /\ \A k, l \in 1..Cardinality(U) : used[k] = used[l] => k = l
      /\ \A x \in U : \E k \in 1..Cardinality(U) : used[k] = x
  BY <1>1, KeysInOrder
<1> HIDE DEF used
<1>4. DOMAIN curve = 1..Cardinality(U) /\ Len(curve) = Cardinality(U)
  BY <1>2, <1>3
<1>5. curve = [i \in 1..Len(curve) |-> curve[i]]
  BY <1>2, <1>3, <1>4
<1>6. \A i \in 1..Cardinality(U) :
        curve[i] = ReliabilityBin(InBin(S, used[i], bins), used[i], bins)
  BY <1>2, <1>3
<1>7. QED
  BY <1>1, <1>3, <1>4, <1>5, <1>6 DEF U, used, curve

\* A bin that parses.
LEMMA BinIsBin ==
    ASSUME NEW T, AreSamples(T), T # {}, \A s \in T : s.probs # None,
           NEW b \in Nat, NEW bins \in Nat \ {0}
    PROVE  IsBin(ReliabilityBin(T, b, bins))
<1> DEFINE bin == ReliabilityBin(T, b, bins)
<1>1. Count(T) \in Nat \ {0} /\ Hits(T) \in Nat /\ TotalConfidence(T) \in Nat
  BY SomeSamples, HitsAre, TotalConfidenceIs
<1>2. Unit * Count(T) \in Nat \ {0}
  BY <1>1, UnitAssumption
<1>3. IsNumber(bin.lower) /\ IsNumber(bin.upper)
  BY RatioIsNumber DEF ReliabilityBin
<1>4. IsNumber(bin.mean_confidence)
  <2>1. bin.mean_confidence = Ratio(TotalConfidence(T), Unit * Count(T))
    BY DEF ReliabilityBin
  <2>2. QED
    BY <1>1, <1>2, <2>1, RatioIsNumber
<1>5. IsNumber(bin.accuracy)
  <2>1. bin.accuracy = Ratio(Hits(T), Count(T))
    BY DEF ReliabilityBin
  <2>2. QED
    BY <1>1, <2>1, RatioIsNumber
<1>6. HasFields(bin, Levels \cup {"n"}) /\ bin.n = Count(T)
  BY DEF HasFields, IsMap, ReliabilityBin, Levels
<1> HIDE DEF bin
<1>7. QED
  BY <1>1, <1>3, <1>4, <1>5, <1>6 DEF IsBin, Levels, bin

\* The samples of a bin.
LEMMA SamplesOfBin ==
    ASSUME NEW S, AreSamples(S), \A s \in S : s.probs # None,
           NEW bins \in Nat \ {0}, NEW b \in BinsInUse(S, bins)
    PROVE  /\ InBin(S, b, bins) \subseteq S /\ InBin(S, b, bins) # {}
           /\ AreSamples(InBin(S, b, bins)) /\ b \in Nat /\ b \in 0..(bins - 1)
           /\ \A s \in InBin(S, b, bins) : s.probs # None
           /\ Count(InBin(S, b, bins)) \in Nat \ {0}
<1>1. InBin(S, b, bins) \subseteq S
  BY DEF InBin
<1>2. InBin(S, b, bins) # {} /\ b \in 0..(bins - 1) /\ b \in Nat
  BY DEF BinsInUse
<1>3. QED
  BY <1>1, <1>2, SomeSamples

\* The curve is one of bins that parse.
LEMMA CurveIs ==
    ASSUME NEW S, AreSamples(S), \A s \in S : s.probs # None, NEW bins \in Nat \ {0}
    PROVE  LET curve == Reliability(S, bins) IN
           /\ curve = [i \in 1..Len(curve) |-> curve[i]]
           /\ \A i \in 1..Len(curve) : IsBin(curve[i])
<1> DEFINE used == InOrder(BinsInUse(S, bins))
           curve == Reliability(S, bins)
<1>1. curve = [i \in 1..Len(curve) |-> curve[i]]
  BY BinsOfCurve
<1>2. ASSUME NEW i \in 1..Len(curve)
      PROVE  IsBin(curve[i])
  <2>1. /\ used[i] \in BinsInUse(S, bins)
        /\ curve[i] = ReliabilityBin(InBin(S, used[i], bins), used[i], bins)
    BY BinsOfCurve
  <2> HIDE DEF used, curve
  <2>2. QED
    BY <2>1, SamplesOfBin, BinIsBin
<1>3. QED
  BY <1>1, <1>2

\* The distance of hits from confidence is a number.
LEMMA CalibrationGapIs ==
    ASSUME NEW S, AreSamples(S), \A s \in S : s.probs # None, NEW bins \in Nat \ {0}
    PROVE  CalibrationGap(S, bins) \in Nat
<1> DEFINE gap == [b \in 0..(bins - 1) |->
                      Gap(Hits(InBin(S, b, bins)) * Unit, TotalConfidence(InBin(S, b, bins)))]
           B == 0..(bins - 1)
<1>1. \A b \in B : gap[b] \in Nat
  <2> SUFFICES ASSUME NEW b \in B PROVE gap[b] \in Nat
    OBVIOUS
  <2>1. InBin(S, b, bins) \subseteq S
    BY DEF InBin
  <2>2. Hits(InBin(S, b, bins)) \in Nat /\ TotalConfidence(InBin(S, b, bins)) \in Nat
    BY <2>1, SomeSamples, HitsAre, TotalConfidenceIs
  <2>3. Hits(InBin(S, b, bins)) * Unit \in Int
    BY <2>2, UnitAssumption
  <2>4. QED
    BY <2>2, <2>3, NoGap
<1>2. DOMAIN gap = B
  OBVIOUS
<1>3. IsFiniteSet(B)
  BY FS_Interval
<1>4. CalibrationGap(S, bins) = SumFunction(gap)
  BY DEF CalibrationGap
<1> HIDE DEF gap, B
<1>5. QED
  BY <1>1, <1>2, <1>3, <1>4, SumOfNaturals, SumOfFunction

\* The metrics of samples parse.
LEMMA SummaryIsMetrics ==
    ASSUME NEW S, AreSamples(S), NEW bins \in Nat \ {0}
    PROVE  IsMetrics(Summarize(S, bins))
<1> DEFINE m == Summarize(S, bins)
<1>1. /\ AreSamples(Predicted(S)) /\ AreSamples(Scored(S)) /\ AreSamples(Binary(S))
      /\ \A T \in {S, Missing(S), Predicted(S), Scored(S), Binary(S)} : Count(T) \in Nat
  <2>1. /\ Predicted(S) \subseteq S /\ Scored(S) \subseteq S /\ Binary(S) \subseteq S
        /\ Missing(S) \subseteq S
    BY DEF Predicted, Scored, Binary, Missing
  <2>2. QED
    BY <2>1, SomeSamples
<1>2. /\ \A s \in Scored(S) : s.probs # None
      /\ \A s \in Binary(S) : s.probs # None /\ s.positive # None
  BY DEF Scored, Binary
<1>3. \A f \in Counts : m[f] \in Nat
  BY <1>1 DEF Summarize, Counts
<1>4. m["accuracy"] = <<>> \/ IsNumber(m["accuracy"])
  <2>1. m["accuracy"] = Ratio(Hits(Predicted(S)), Count(Predicted(S)))
    BY DEF Summarize
  <2>2. QED
    BY <1>1, <2>1, HitsAre, RateIs
<1>5. m["balanced_accuracy"] = <<>> \/ IsNumber(m["balanced_accuracy"])
  <2>1. m["balanced_accuracy"] = BalancedAccuracy(PerClassRecall(Predicted(S)))
    BY DEF Summarize
  <2>2. QED
    BY <1>1, <2>1, RecallsAre, BalancedAccuracyIs
<1>6. m["brier_multiclass"] = <<>> \/ IsNumber(m["brier_multiclass"])
  <2> DEFINE f == [s \in Scored(S) |-> SquaredError(s)]
  <2>1. m["brier_multiclass"] = Ratio(SumFunction(f), Square(Unit) * Count(Scored(S)))
    BY DEF Summarize
  <2>2. \A s \in Scored(S) : f[s] \in Int
    BY <1>1, <1>2, ErrorsAre DEF AreSamples
  <2>3. DOMAIN f = Scored(S) /\ IsFiniteSet(Scored(S))
    BY <1>1 DEF AreSamples
  <2> HIDE DEF f
  <2>4. SumFunction(f) \in Int
    BY <2>2, <2>3, SumIsInt, SumOfFunction
  <2>5. Square(Unit) * Count(Scored(S)) \in Nat
    BY <1>1, UnitAssumption DEF Square
  <2>6. QED
    BY <2>1, <2>4, <2>5, RateIs
<1>7. m["brier_binary"] = <<>> \/ IsNumber(m["brier_binary"])
  <2> DEFINE f == [s \in Binary(S) |-> PositiveError(s)]
  <2>1. m["brier_binary"] = Ratio(SumFunction(f), Square(Unit) * Count(Binary(S)))
    BY DEF Summarize
  <2>2. \A s \in Binary(S) : f[s] \in Int
    BY <1>1, <1>2, ErrorsAre DEF AreSamples
  <2>3. DOMAIN f = Binary(S) /\ IsFiniteSet(Binary(S))
    BY <1>1 DEF AreSamples
  <2> HIDE DEF f
  <2>4. SumFunction(f) \in Int
    BY <2>2, <2>3, SumIsInt, SumOfFunction
  <2>5. Square(Unit) * Count(Binary(S)) \in Nat
    BY <1>1, UnitAssumption DEF Square
  <2>6. QED
    BY <2>1, <2>4, <2>5, RateIs
<1>8. m["ece"] = <<>> \/ IsNumber(m["ece"])
  <2>1. m["ece"] = Ratio(CalibrationGap(Scored(S), bins), Unit * Count(Scored(S)))
    BY DEF Summarize, Ece
  <2>2. CalibrationGap(Scored(S), bins) \in Nat
    BY <1>1, <1>2, CalibrationGapIs
  <2>3. Unit * Count(Scored(S)) \in Nat
    BY <1>1, UnitAssumption
  <2>4. QED
    BY <2>1, <2>2, <2>3, RateIs
<1>9. /\ IsMap(m.per_class_recall)
      /\ \A c \in DOMAIN m.per_class_recall : IsNumber(m.per_class_recall[c])
  <2>1. m.per_class_recall = PerClassRecall(Predicted(S))
    BY DEF Summarize
  <2> HIDE DEF m
  <2>2. QED
    BY <1>1, <2>1, RecallsAre
<1>10. /\ m.reliability = [i \in 1..Len(m.reliability) |-> m.reliability[i]]
       /\ \A i \in 1..Len(m.reliability) : IsBin(m.reliability[i])
  <2>1. m.reliability = Reliability(Scored(S), bins)
    BY DEF Summarize
  <2> HIDE DEF m
  <2>2. QED
    BY <1>1, <1>2, <2>1, CurveIs
<1>11. HasFields(m, Counts \cup Rates \cup {"classes_in_gold", "per_class_recall", "reliability"})
  BY DEF HasFields, IsMap, Summarize, Counts, Rates
<1> HIDE DEF m
<1>12. \A f \in Rates : m[f] = <<>> \/ IsNumber(m[f])
  BY <1>4, <1>5, <1>6, <1>7, <1>8 DEF Rates
<1>13. IsMetrics(m)
  BY <1>3, <1>9, <1>10, <1>11, <1>12 DEF IsMetrics
<1>14. QED
  BY <1>13 DEF m

\* The strata of samples parse.
LEMMA StrataParse ==
    ASSUME NEW S, AreSamples(S), NEW bins \in Nat \ {0}
    PROVE  IsStrata(Strata(S, bins))
<1>1. ASSUME NEW T \in SUBSET S
      PROVE  IsCategories(ByCategory(T, bins))
  <2>1. \A c : AreSamples({s \in T : s.category = c})
    <3> SUFFICES ASSUME NEW c PROVE AreSamples({s \in T : s.category = c})
      OBVIOUS
    <3> DEFINE U == {s \in T : s.category = c}
    <3>1. U \subseteq S
      OBVIOUS
    <3> HIDE DEF U
    <3>2. AreSamples(U)
      BY <3>1, SomeSamples
    <3>3. QED
      BY <3>2 DEF U
  <2>2. QED
    BY <2>1, SummaryIsMetrics DEF IsCategories, IsMap, ByCategory
<1>2. ASSUME NEW src
      PROVE  IsSource(SourceStratum(S, src, bins))
  <2> DEFINE G == {s \in S : s.source = src}
             g == SourceStratum(S, src, bins)
  <2>1. AreSamples(G) /\ Count(G) \in Nat /\ G \subseteq S
    <3>1. G \subseteq S
      OBVIOUS
    <3> HIDE DEF G
    <3>2. QED
      BY <3>1, SomeSamples
  <2>2. /\ g.n_items = Count(G) /\ g.overall = Summarize(G, bins)
        /\ g.by_category = ByCategory(G, bins)
        /\ HasFields(g, {"n_items", "categories", "overall", "by_category"})
    BY DEF SourceStratum, HasFields, IsMap
  <2> HIDE DEF g, G
  <2>3. IsSource(g)
    BY <1>1, <2>1, <2>2, SummaryIsMetrics DEF IsSource
  <2>4. QED
    BY <2>3 DEF g
<1>3. IsCategories(ByCategory(S, bins))
  BY <1>1
<1>4. QED
  BY <1>2, <1>3 DEF IsStrata, HasFields, IsMap, Strata

-----------------------------------------------------------------------------
(* What files that load hold. *)

\* A question that is valid has slots.
LEMMA SlotsAre ==
    ASSUME NEW item, IsItem(item), ItemValid(item)
    PROVE  LET slots == SlotLabels(item) IN
           /\ Len(slots) \in Nat \ {0} /\ DOMAIN slots = 1..Len(slots)
           /\ None \notin Range(slots)
           /\ PositiveLabel(item) \in Range(slots) \cup {None}
<1> DEFINE slots == SlotLabels(item)
<1>1. Len(slots) \in Nat /\ DOMAIN slots = 1..Len(slots)
  <2>1. CASE item.kind = "choice"
    <3>1. slots = item.keys
      BY <2>1 DEF SlotLabels
    <3>2. item.keys \in Seq(Range(item.keys))
      BY <2>1 DEF IsItem
    <3>3. QED
      BY <3>1, <3>2
  <2>2. CASE item.kind = "score"
    <3>1. slots = [i \in 1..item.levels |-> ToString(i - 1)] /\ item.levels \in Nat
      BY <2>2 DEF SlotLabels, IsItem
    <3> HIDE DEF slots
    <3>2. QED
      BY <3>1
  <2>3. CASE item.kind = "noul"
    <3>1. slots = <<"true", "false">>
      BY <2>3 DEF SlotLabels
    <3> HIDE DEF slots
    <3>2. QED
      BY <3>1
  <2>4. QED
    BY <2>1, <2>2, <2>3 DEF IsItem
<1>2. Len(slots) # 0
  <2>1. CASE item.kind = "noul"
    <3>1. slots = <<"true", "false">>
      BY <2>1 DEF SlotLabels
    <3> HIDE DEF slots
    <3>2. QED
      BY <3>1
  <2>2. CASE item.kind # "noul"
    <3>1. RenderSlots(item.kind, Len(slots)) = Accepted
      BY DEF ItemValid
    <3>2. item.kind \in {"choice", "score"}
      BY <2>2 DEF IsItem
    <3> HIDE DEF slots
    <3>3. ASSUME Len(slots) = 0
          PROVE  FALSE
      BY <2>2, <3>1, <3>2, <3>3, MaxLetterSlotsAssumption DEF RenderSlots, Accepted
    <3>4. QED
      BY <3>3
  <2>3. QED
    BY <2>1, <2>2
<1>3. None \notin Range(slots) /\ PositiveLabel(item) \in Range(slots) \cup {None}
  BY DEF IsItem, ItemValid
<1>4. QED
  BY <1>1, <1>2, <1>3

\* Rows with as many ids as there are rows have an id each.
LEMMA IdsAreDistinct ==
    ASSUME NEW rows, NEW n \in Nat, DOMAIN rows = 1..n, Cardinality(Ids(rows)) = n
    PROVE  \A i, k \in 1..n : rows[i].id = rows[k].id => i = k
<1> DEFINE f == [i \in 1..n |-> rows[i].id]
<1>1. \A i \in 1..n : f[i] = rows[i].id
  OBVIOUS
<1>2. Ids(rows) = {f[i] : i \in 1..n}
  BY DEF Ids
<1>3. Cardinality({f[i] : i \in 1..n}) = n
  BY <1>2
<1> HIDE DEF f
<1>4. \A i, k \in 1..n : f[i] = f[k] => i = k
  BY <1>3, ManyAsIndices
<1>5. QED
  BY <1>1, <1>4

\* An item set that loads: its questions are valid and have ids of their own.
LEMMA ItemsAre ==
    ASSUME NEW set \in ItemFiles, ItemSetLoads(set)
    PROVE  /\ Len(set) \in Nat \ {0} /\ DOMAIN set = 1..Len(set)
           /\ \A i \in DOMAIN set : IsItem(set[i]) /\ ItemValid(set[i])
           /\ \A i, k \in DOMAIN set : set[i].id = set[k].id => i = k
<1>1. set \in Seq(Range(set)) /\ set # <<>>
  BY PipelineAssumption DEF ItemSetLoads
<1>2. Len(set) \in Nat \ {0} /\ DOMAIN set = 1..Len(set)
  BY <1>1
<1>3. ASSUME NEW i \in DOMAIN set
      PROVE  IsItem(set[i]) /\ ItemValid(set[i])
  <2>1. ItemValid(set[i])
    BY DEF ItemSetLoads
  <2>2. set[i] \in Range(set) /\ set[i] # Junk
    BY <2>1 DEF Range, ItemValid
  <2>3. QED
    BY <2>1, <2>2, PipelineAssumption
<1>4. \A i, k \in DOMAIN set : set[i].id = set[k].id => i = k
  <2>1. Cardinality(Ids(set)) = Len(set)
    BY DEF ItemSetLoads, DistinctIds
  <2>2. QED
    BY <1>2, <2>1, IdsAreDistinct
<1>5. QED
  BY <1>2, <1>3, <1>4

\* A file of rows is a sequence.
IsRows(rows) == rows \in Seq(Range(rows))

\* Predictions that load have ids of their own, all of them of items.
LEMMA RowsAre ==
    ASSUME NEW rows, IsRows(rows), NEW set, PredictionsLoad(rows, set)
    PROVE  /\ Len(rows) \in Nat /\ DOMAIN rows = 1..Len(rows)
           /\ Ids(rows) = {row.id : row \in Range(rows)}
           /\ \A row \in Range(rows) : \E i \in DOMAIN set :
                 set[i].id = row.id /\ RowValid(row, SlotLabels(set[i]))
           /\ \A row, other \in Range(rows) : row.id = other.id => row = other
           /\ \A r, q \in DOMAIN rows : rows[r].id = rows[q].id => r = q
<1>1. Len(rows) \in Nat /\ DOMAIN rows = 1..Len(rows)
  BY DEF IsRows
<1>2. Range(rows) = {rows[r] : r \in DOMAIN rows}
  BY DEF Range
<1>3. \A r, q \in DOMAIN rows : rows[r].id = rows[q].id => r = q
  <2>1. Cardinality(Ids(rows)) = Len(rows)
    BY DEF PredictionsLoad, DistinctIds
  <2>2. QED
    BY <1>1, <2>1, IdsAreDistinct
<1>4. \A row \in Range(rows) : \E i \in DOMAIN set :
        set[i].id = row.id /\ RowValid(row, SlotLabels(set[i]))
  BY <1>2 DEF PredictionsLoad
<1>5. QED
  BY <1>1, <1>2, <1>3, <1>4 DEF Ids

\* The row of an item is one of the file that is valid for it, or none is.
LEMMA RowOfIs ==
    ASSUME NEW set \in ItemFiles, ItemSetLoads(set),
           NEW rows, IsRows(rows), PredictionsLoad(rows, set), NEW i \in DOMAIN set
    PROVE  LET row == RowOf(set, i, rows) IN
           /\ row.id = set[i].id /\ RowValid(row, SlotLabels(set[i]))
           /\ IF set[i].id \in Ids(rows) THEN row \in Range(rows) ELSE row = MissingRow(set[i].id)
<1> DEFINE row == RowOf(set, i, rows)
<1>1. CASE set[i].id \in Ids(rows)
  <2>1. \E r \in Range(rows) : r.id = set[i].id
    BY <1>1, RowsAre
  <2>2. row \in Range(rows) /\ row.id = set[i].id
    BY <1>1, <2>1 DEF RowOf
  <2> HIDE DEF row
  <2>3. PICK k \in DOMAIN set : set[k].id = row.id /\ RowValid(row, SlotLabels(set[k]))
    BY <2>2, RowsAre
  <2>4. k = i
    BY <2>2, <2>3, ItemsAre
  <2>5. QED
    BY <1>1, <2>2, <2>3, <2>4 DEF row
<1>2. CASE set[i].id \notin Ids(rows)
  <2>1. row = MissingRow(set[i].id)
    BY <1>2 DEF RowOf
  <2> HIDE DEF row
  <2>2. row.id = set[i].id /\ row.label = None /\ row.probs = None
    BY <2>1 DEF MissingRow
  <2>3. QED
    BY <1>2, <2>1, <2>2 DEF RowValid, row
<1>3. QED
  BY <1>1, <1>2

\* A sample of an item that is valid and of a row that is valid for it.
LEMMA SampleIs ==
    ASSUME NEW item, IsItem(item), ItemValid(item),
           NEW row, RowValid(row, SlotLabels(item))
    PROVE  LET s == SampleOf(item, row) IN
           /\ IsSample(s) /\ s.id = item.id
           /\ s.predicted # None <=> row.label # None \/ row.probs # None
           /\ row.probs # None =>
                 s.predicted = SlotLabels(item)[ArgmaxFirstMax(Vector(row.probs, SlotLabels(item)))]
           /\ row.probs = None => s.predicted = row.label
<1> DEFINE slots == SlotLabels(item)
           n == Len(slots)
           v == Vector(row.probs, slots)
           s == SampleOf(item, row)
<1>1. /\ n \in Nat \ {0} /\ DOMAIN slots = 1..n /\ None \notin Range(slots)
      /\ PositiveLabel(item) \in Range(slots) \cup {None}
  BY SlotsAre
<1>2. /\ s.id = item.id /\ s.slots = slots /\ s.positive = PositiveLabel(item)
      /\ s.probs = IF row.probs = None THEN None ELSE v
      /\ s.predicted = IF row.probs = None THEN row.label ELSE slots[ArgmaxFirstMax(v)]
  BY DEF SampleOf
<1>3. /\ row.label \in Range(slots) \cup {None}
      /\ row.probs # None =>
            /\ DOMAIN row.probs = Range(slots)
            /\ \A k \in DOMAIN row.probs : row.probs[k] \in Nat
            /\ SumsToOne(row.probs)
  BY DEF RowValid
<1> HIDE DEF s, slots, n
<1>4. ASSUME row.probs # None
      PROVE  DOMAIN v = 1..n /\ \A k \in 1..n : v[k] \in 0..MostConfidence
  <2>1. IsFiniteSet(Range(slots))
    <3>1. n \in Nat /\ Range(slots) = {slots[i] : i \in 1..n}
      BY <1>1 DEF Range
    <3>2. QED
      BY <3>1, CountOfIndexed
  <2>2. \A k \in Range(slots) : row.probs[k] \in Nat /\ row.probs[k] <= SumFunctionOnSet(row.probs, Range(slots))
    BY <1>3, <1>4, <2>1, SumOfNaturals
  <2>3. SumFunctionOnSet(row.probs, Range(slots)) <= MostConfidence
    <3>1. SumFunctionOnSet(row.probs, Range(slots)) = SumFunction(row.probs)
      BY <1>3, <1>4, SumOfFunction
    <3>2. SumFunctionOnSet(row.probs, Range(slots)) \in Int
      BY <2>1, <2>2, SumIsInt
    <3>3. QED
      BY <1>3, <1>4, <3>1, <3>2, UnitAssumption DEF SumsToOne, Gap, MostConfidence
  <2>4. \A k \in 1..n : v[k] = row.probs[slots[k]] /\ slots[k] \in Range(slots)
    BY <1>1 DEF Vector, Range
  <2>5. DOMAIN v = 1..n
    BY <1>1 DEF Vector
  <2>6. \A k \in Range(slots) : row.probs[k] <= MostConfidence
    <3>1. SumFunctionOnSet(row.probs, Range(slots)) \in Int
      BY <2>1, <2>2, SumIsInt
    <3>2. QED
      BY <2>2, <2>3, <3>1, MostIs
  <2>7. QED
    BY <2>2, <2>4, <2>5, <2>6, MostIs
<1> HIDE DEF v
<1>5. ASSUME row.probs # None
      PROVE  slots[ArgmaxFirstMax(v)] \in Range(slots)
  <2>1. ArgmaxFirstMax(v) \in 1..n
    BY <1>1, <1>4, <1>5, MostIs, ArgmaxIs
  <2>2. QED
    BY <1>1, <2>1 DEF Range
<1>6. s.predicted \in Range(slots) \cup {None}
  BY <1>2, <1>3, <1>5
<1>7. s.predicted # None <=> row.label # None \/ row.probs # None
  <2>1. CASE row.probs # None
    BY <1>1, <1>2, <1>5, <2>1
  <2>2. CASE row.probs = None
    BY <1>2, <2>2
  <2>3. QED
    BY <2>1, <2>2
<1>8. IsSample(s)
  <2>1. s.probs # None => row.probs # None /\ s.probs = v /\ s.predicted = slots[ArgmaxFirstMax(v)]
    BY <1>2
  <2>2. Len(s.slots) = n
    BY <1>2 DEF n
  <2>3. QED
    BY <1>1, <1>2, <1>4, <1>6, <2>1, <2>2 DEF IsSample
<1>9. QED
  BY <1>2, <1>7, <1>8 DEF s, v, slots

\* One sample for each item, of files that load.
LEMMA SamplesAre ==
    ASSUME NEW set \in ItemFiles, ItemSetLoads(set),
           NEW rows, IsRows(rows), PredictionsLoad(rows, set)
    PROVE  /\ AreSamples(Samples(set, rows))
           /\ Count(Samples(set, rows)) = Len(set)
<1> DEFINE n == Len(set)
           f == [i \in 1..n |-> SampleOf(set[i], RowOf(set, i, rows))]
<1>1. n \in Nat \ {0} /\ DOMAIN set = 1..n
  BY ItemsAre
<1>2. ASSUME NEW i \in 1..n
      PROVE  IsSample(f[i]) /\ f[i].id = set[i].id
  <2> DEFINE item == set[i]
             row == RowOf(set, i, rows)
  <2>1. IsItem(item) /\ ItemValid(item)
    BY <1>1, ItemsAre
  <2>2. RowValid(row, SlotLabels(item))
    BY <1>1, RowOfIs
  <2>3. f[i] = SampleOf(item, row)
    OBVIOUS
  <2> HIDE DEF f, item, row
  <2>4. IsSample(f[i]) /\ f[i].id = item.id
    BY <2>1, <2>2, <2>3, SampleIs
  <2>5. QED
    BY <2>4 DEF item
<1>3. Samples(set, rows) = {f[i] : i \in 1..n}
  BY <1>1 DEF Samples
<1>4. \A i, k \in 1..n : set[i].id = set[k].id => i = k
  BY <1>1, ItemsAre
<1> HIDE DEF f, n
<1>5. \A i, k \in 1..n : f[i] = f[k] => i = k
  BY <1>2, <1>4
<1>6. IsFiniteSet({f[i] : i \in 1..n}) /\ Cardinality({f[i] : i \in 1..n}) = n
  <2>1. n \in Nat
    BY <1>1
  <2>2. QED
    BY <1>5, <2>1, CountOfIndexed
<1>7. QED
  BY <1>2, <1>3, <1>6 DEF AreSamples, Count, n

-----------------------------------------------------------------------------
(* What the files and the processes hold. *)

Compared == {"verified", "mismatch"}
Importing == {"truncate", "write rows", "imported"}
Scoring == {"hash", "build", "report"} \cup Writing \cup Compared
Loaded == {"manifest", "predictions", "answers"} \cup Scoring \cup Importing

\* What a process holds came from files that loaded; the report it compared
\* is one that parses, and the comparison came out as `pc` says.
HoldsEvidence(j) ==
    /\ held[j].bins \in Nat \ {0} /\ held[j].tol \in Nat /\ IsRows(held[j].rows)
    /\ pc[j] \in Loaded => held[j].items \in ItemFiles /\ ItemSetLoads(held[j].items)
    /\ pc[j] \in Scoring => PredictionsLoad(held[j].rows, held[j].items)
    /\ pc[j] \in {"report"} \cup Compared => held[j].moved \/ held[j].hash = held[j].rows
    /\ pc[j] \in Compared =>
          /\ ReportLoads(held[j].report) /\ held[j].report.confidence_bins # 0
          /\ pc[j] = "verified" <=>
                Verify(held[j].items, held[j].rows, held[j].hash, held[j].report, held[j].tol)
    /\ pc[j] \in Importing =>
          /\ held[j].answers \in AnswerFiles /\ AnswersFit(held[j].answers, held[j].items)
          /\ held[j].rows = ImportAnswers(held[j].answers, held[j].items)

\* The last report was built of files that loaded.
BuiltOf(p, i, r, h, b, t) ==
    /\ i \in ItemFiles /\ ItemSetLoads(i) /\ IsRows(r) /\ PredictionsLoad(r, i)
    /\ b \in Nat \ {0} /\ (p.moved \/ h = r)
    /\ p.report = BuildReport(i, r, h, b, t)

WasBuilt(p) == p # Unreadable => \E i, r, h, b, t : BuiltOf(p, i, r, h, b, t)

EvidenceInv ==
    /\ items \in ItemFiles /\ IsRows(predictions) /\ answers \in AnswerFiles \cup {Unreadable}
    /\ \A j \in Jobs : HoldsEvidence(j)
    /\ WasBuilt(published)

\* A sequence of anything is one of rows.
LEMMA RowsOf ==
    ASSUME NEW S, NEW s \in Seq(S)
    PROVE  IsRows(s)
<1>1. Len(s) \in Nat /\ DOMAIN s = 1..Len(s) /\ s = [i \in 1..Len(s) |-> s[i]]
  OBVIOUS
<1>2. \A i \in 1..Len(s) : s[i] \in Range(s)
  BY <1>1 DEF Range
<1>3. QED
  BY <1>1, <1>2 DEF IsRows

\* So is one of nothing.
LEMMA NoRows == IsRows(<<>>)
  BY DEF IsRows

\* import writes a row for each item.
LEMMA ImportedRows ==
    ASSUME NEW set \in ItemFiles, ItemSetLoads(set), NEW given
    PROVE  /\ IsRows(ImportAnswers(given, set))
           /\ Len(ImportAnswers(given, set)) = Len(set)
<1> DEFINE n == Len(set)
           rows == ImportAnswers(given, set)
<1>1. n \in Nat /\ DOMAIN set = 1..n
  BY ItemsAre
<1>2. \A i \in 1..n : rows[i] \in Range(rows)
  BY <1>1 DEF ImportAnswers, Range
<1>3. rows = [i \in 1..n |-> rows[i]]
  BY <1>1 DEF ImportAnswers
<1> HIDE DEF rows, n
<1>4. rows \in Seq(Range(rows)) /\ Len(rows) = n
  BY <1>1, <1>2, <1>3
<1>5. QED
  BY <1>4 DEF IsRows, rows, n

\* A part of a file of rows, and perhaps a torn one.
LEMMA TornRows ==
    ASSUME NEW rows, IsRows(rows), NEW n \in 0..(Len(rows) - 1), NEW torn \in {<<>>, <<Junk>>}
    PROVE  IsRows(SubSeq(rows, 1, n) \o torn)
<1> DEFINE S == Range(rows) \cup {Junk}
<1>1. rows \in Seq(S)
  BY DEF IsRows
<1>2. SubSeq(rows, 1, n) \in Seq(S) /\ torn \in Seq(S)
  <2>1. Len(rows) \in Nat /\ n \in 0..Len(rows)
    BY <1>1
  <2>2. SubSeq(rows, 1, n) \in Seq(S)
    <3> HIDE DEF S
    <3>1. QED
      BY <1>1, <2>1, SubSeqProperties
  <2>3. torn \in Seq(S)
    <3>1. Junk \in S
      OBVIOUS
    <3> HIDE DEF S
    <3>2. <<>> \in Seq(S) /\ \A x \in S : <<x>> \in Seq(S)
      OBVIOUS
    <3>3. QED
      BY <3>1, <3>2
  <2>4. QED
    BY <2>2, <2>3
<1> HIDE DEF S
<1>3. SubSeq(rows, 1, n) \o torn \in Seq(S)
  BY <1>2
<1>4. QED
  BY <1>3, RowsOf

\* What a process holds stays when it does not move.
LEMMA HoldsEvidenceStays ==
    ASSUME NEW k \in Jobs, HoldsEvidence(k), SameJob(k)
    PROVE  HoldsEvidence(k)'
  BY DEF HoldsEvidence, SameJob

\* A process that has ended and lost its memory holds nothing wrong.
LEMMA EndedHoldsNothing ==
    ASSUME Types, NEW j \in Jobs, NEW outcome \in {"refused", "reported", "crashed"},
           Exit(j, outcome)
    PROVE  HoldsEvidence(j)'
<1>1. pc'[j] = outcome /\ held'[j] = Nothing
  BY DEF Exit, Goto, Types
<1>2. IsRows(<<>>)
  BY NoRows
<1>3. outcome \notin Loaded \cup Scoring \cup {"report"} \cup Compared \cup Importing
  BY DEF Loaded, Scoring, Compared, Importing, Writing
<1>4. QED
  BY <1>1, <1>2, <1>3 DEF HoldsEvidence, Nothing, Command

\* What the files hold after a step.
FilesAreWhole == items \in ItemFiles /\ IsRows(predictions) /\ answers \in AnswerFiles \cup {Unreadable}

\* A process that moves holds what it read.
LEMMA HoldsEvidenceStep ==
    ASSUME PipelineInv, EvidenceInv, NEW j \in Jobs, Step(j) \/ Crash(j)
    PROVE  HoldsEvidence(j)' /\ FilesAreWhole'
<1> USE DEF Types, Goto, Keep, Fields
<1>0. Types /\ HoldsEvidence(j) /\ FilesAreWhole
  BY DEF PipelineInv, EvidenceInv, FilesAreWhole
<1>1. CASE LoadItemSet(j)
  <2>0. FilesAreWhole'
    BY <1>0, <1>1 DEF LoadItemSet, files, FilesAreWhole
  <2>1. CASE ItemSetLoads(items)
    <3>1. /\ pc'[j] \in {"answers", "manifest", "predictions"} /\ held'[j].items = items
          /\ \A f \in Fields \ {"items"} : held'[j][f] = held[j][f]
      BY <1>0, <1>1, <2>1 DEF LoadItemSet
    <3>2. QED
      BY <1>0, <2>0, <2>1, <3>1
      DEF HoldsEvidence, Scoring, Compared, Importing, Writing, FilesAreWhole
  <2>2. CASE ~ItemSetLoads(items)
    BY <1>0, <1>1, <2>0, <2>2, EndedHoldsNothing DEF LoadItemSet
  <2>3. QED
    BY <2>1, <2>2
<1>2. CASE CheckManifest(j)
  <2>0. FilesAreWhole'
    BY <1>0, <1>2 DEF CheckManifest, files, FilesAreWhole
  <2>1. CASE Pinned(j)
    BY <1>0, <1>2, <2>0, <2>1
    DEF CheckManifest, HoldsEvidence, Loaded, Scoring, Compared, Importing, Writing
  <2>2. CASE ~Pinned(j)
    BY <1>0, <1>2, <2>0, <2>2, EndedHoldsNothing DEF CheckManifest
  <2>3. QED
    BY <2>1, <2>2
<1>3. CASE LoadPredictions(j)
  <2>0. FilesAreWhole'
    BY <1>0, <1>3 DEF LoadPredictions, files, FilesAreWhole
  <2>1. CASE PredictionsLoad(predictions, held[j].items)
    <3>1. /\ pc[j] = "predictions" /\ pc'[j] = "hash" /\ held'[j].rows = predictions
          /\ \A f \in Fields \ {"rows"} : held'[j][f] = held[j][f]
      BY <1>0, <1>3, <2>1 DEF LoadPredictions
    <3>2. QED
      BY <1>0, <2>0, <2>1, <3>1
      DEF HoldsEvidence, Loaded, Scoring, Compared, Importing, Writing, FilesAreWhole
  <2>2. CASE ~PredictionsLoad(predictions, held[j].items)
    BY <1>0, <1>3, <2>0, <2>2, EndedHoldsNothing DEF LoadPredictions
  <2>3. QED
    BY <2>1, <2>2
<1>4. CASE HashFile(j)
  <2>0. FilesAreWhole'
    BY <1>0, <1>4 DEF HashFile, files, FilesAreWhole
  <2>1. /\ pc[j] = "hash" /\ pc'[j] \in {"build", "report"}
        /\ held'[j].hash = predictions
        /\ \A f \in Fields \ {"hash", "moved"} : held'[j][f] = held[j][f]
    BY <1>0, <1>4 DEF HashFile
  <2>2. held'[j].moved \/ predictions = held[j].rows
    BY <1>0, <1>4 DEF HashFile
  <2>3. QED
    BY <1>0, <2>0, <2>1, <2>2
    DEF HoldsEvidence, Loaded, Scoring, Compared, Importing, Writing
<1>5. CASE TruncateReport(j)
  <2>0. FilesAreWhole'
    BY <1>0, <1>5 DEF TruncateReport, FilesAreWhole
  <2>1. /\ pc[j] = "build" /\ pc'[j] = "write report"
        /\ \A f \in Fields \ {"report"} : held'[j][f] = held[j][f]
    BY <1>0, <1>5 DEF TruncateReport
  <2>2. QED
    BY <1>0, <2>0, <2>1 DEF HoldsEvidence, Loaded, Scoring, Compared, Importing, Writing
<1>6. CASE WriteReport(j) \/ TruncateMarkdown(j)
  <2>0. FilesAreWhole'
    BY <1>0, <1>6 DEF WriteReport, TruncateMarkdown, FilesAreWhole
  <2>1. pc[j] \in Writing /\ pc'[j] \in Writing /\ held' = held
    BY <1>0, <1>6 DEF WriteReport, TruncateMarkdown, Writing
  <2>2. QED
    BY <1>0, <2>0, <2>1 DEF HoldsEvidence, Loaded, Scoring, Compared, Importing, Writing
<1>7. CASE WriteMarkdown(j)
  BY <1>0, <1>7, EndedHoldsNothing DEF WriteMarkdown, FilesAreWhole
<1>8. CASE ReadReport(j)
  <2>0. FilesAreWhole'
    BY <1>0, <1>8 DEF ReadReport, files, FilesAreWhole
  <2>1. CASE report = Unreadable \/ ~ReportLoads(report) \/ report.confidence_bins = 0
    BY <1>0, <1>8, <2>0, <2>1, EndedHoldsNothing DEF ReadReport
  <2>2. CASE ~(report = Unreadable \/ ~ReportLoads(report) \/ report.confidence_bins = 0)
    <3> DEFINE same == Verify(held[j].items, held[j].rows, held[j].hash, report, held[j].tol)
    <3>1. /\ pc[j] = "report" /\ held'[j].report = report
          /\ pc'[j] = IF same THEN "verified" ELSE "mismatch"
          /\ \A f \in Fields \ {"report"} : held'[j][f] = held[j][f]
      BY <1>0, <1>8, <2>2 DEF ReadReport
    <3>2. Verify(held'[j].items, held'[j].rows, held'[j].hash, held'[j].report, held'[j].tol) <=> same
      BY <3>1
    <3> HIDE DEF same
    <3>3. QED
      BY <1>0, <2>0, <2>2, <3>1, <3>2 DEF HoldsEvidence, Loaded, Scoring, Compared, Importing, Writing
  <2>3. QED
    BY <2>1, <2>2
<1>9. CASE ReadAnswers(j)
  <2>0. FilesAreWhole'
    BY <1>0, <1>9 DEF ReadAnswers, files, FilesAreWhole
  <2>1. CASE answers = Unreadable \/ ~AnswersFit(answers, held[j].items)
    BY <1>0, <1>9, <2>0, <2>1, EndedHoldsNothing DEF ReadAnswers
  <2>2. CASE answers # Unreadable /\ AnswersFit(answers, held[j].items)
    <3>1. /\ pc[j] = "answers" /\ pc'[j] = "truncate" /\ held'[j].answers = answers
          /\ held'[j].rows = ImportAnswers(answers, held[j].items)
          /\ \A f \in Fields \ {"answers", "rows"} : held'[j][f] = held[j][f]
      BY <1>0, <1>9, <2>2 DEF ReadAnswers
    <3>2. held[j].items \in ItemFiles /\ ItemSetLoads(held[j].items)
      BY <1>0, <3>1 DEF HoldsEvidence, Loaded
    <3>3. IsRows(held'[j].rows)
      BY <3>1, <3>2, ImportedRows
    <3>4. QED
      BY <1>0, <2>0, <2>2, <3>1, <3>2, <3>3
      DEF HoldsEvidence, Loaded, Scoring, Compared, Importing, Writing, FilesAreWhole
  <2>3. QED
    BY <2>1, <2>2
<1>10. CASE TruncatePredictions(j)
  <2>1. /\ pc[j] = "truncate" /\ pc'[j] = "write rows" /\ held' = held /\ predictions' = <<>>
        /\ items' = items /\ answers' = answers
    BY <1>0, <1>10 DEF TruncatePredictions
  <2>2. IsRows(predictions')
    BY <2>1, NoRows
  <2>3. QED
    BY <1>0, <2>1, <2>2
    DEF HoldsEvidence, Loaded, Scoring, Compared, Importing, Writing, FilesAreWhole
<1>11. CASE WritePredictions(j)
  <2>1. /\ pc[j] = "write rows" /\ pc'[j] = "imported" /\ held' = held
        /\ predictions' = held[j].rows /\ items' = items /\ answers' = answers
    BY <1>0, <1>11 DEF WritePredictions
  <2>2. QED
    BY <1>0, <2>1
    DEF HoldsEvidence, Loaded, Scoring, Compared, Importing, Writing, FilesAreWhole
<1>12. CASE WriteFails(j)
  <2>1. HoldsEvidence(j)'
    BY <1>0, <1>12, EndedHoldsNothing DEF WriteFails
  <2>2. CASE pc[j] = "write rows"
    <3>1. PICK n \in 0..(Len(held[j].rows) - 1), torn \in {<<>>, <<Junk>>} :
             predictions' = SubSeq(held[j].rows, 1, n) \o torn
      BY <1>12, <2>2 DEF WriteFails
    <3>2. IsRows(predictions')
      BY <1>0, <3>1, TornRows DEF HoldsEvidence
    <3>3. QED
      BY <1>0, <1>12, <2>1, <3>2 DEF WriteFails, FilesAreWhole
  <2>3. CASE pc[j] # "write rows"
    BY <1>0, <1>12, <2>1, <2>3 DEF WriteFails, FilesAreWhole
  <2>4. QED
    BY <2>2, <2>3
<1>13. CASE Crash(j)
  BY <1>0, <1>13, EndedHoldsNothing DEF Crash, files, FilesAreWhole
<1>14. QED
  BY <1>1, <1>2, <1>3, <1>4, <1>5, <1>6, <1>7, <1>8, <1>9, <1>10, <1>11, <1>12, <1>13 DEF Step

\* A report that is written was built of files that loaded.
LEMMA WasBuiltStep ==
    ASSUME PipelineInv, EvidenceInv, NEW j \in Jobs, WriteReport(j)
    PROVE  WasBuilt(published)'
<1>1. pc[j] = "write report" /\ published'.report = held[j].report /\ published'.moved = held[j].moved
  BY DEF WriteReport
<1>2. /\ held[j].report = BuildReport(held[j].items, held[j].rows, held[j].hash, held[j].bins, held[j].tol)
      /\ held[j].moved \/ held[j].hash = held[j].rows
  BY <1>1 DEF PipelineInv, Holds, Writing, ReportOf
<1>3. /\ held[j].items \in ItemFiles /\ ItemSetLoads(held[j].items) /\ IsRows(held[j].rows)
      /\ PredictionsLoad(held[j].rows, held[j].items) /\ held[j].bins \in Nat \ {0}
  BY <1>1 DEF EvidenceInv, HoldsEvidence, Loaded, Scoring, Writing
<1>4. BuiltOf(published', held[j].items, held[j].rows, held[j].hash, held[j].bins, held[j].tol)
  BY <1>1, <1>2, <1>3 DEF BuiltOf
<1>5. WasBuilt(published')
  BY <1>4 DEF WasBuilt
<1>6. QED
  BY <1>5 DEF WasBuilt, BuiltOf

\* No step breaks it.
LEMMA EvidenceInvStep ==
    ASSUME PipelineInv, EvidenceInv, [Next]_vars
    PROVE  EvidenceInv'
<1>0. Types /\ FilesAreWhole /\ \A j \in Jobs : HoldsEvidence(j)
  BY DEF PipelineInv, EvidenceInv, FilesAreWhole
<1>1. ASSUME published' = published PROVE WasBuilt(published)'
  BY <1>1 DEF EvidenceInv, WasBuilt, BuiltOf
<1>2. ASSUME NEW j \in Jobs, Step(j) \/ Crash(j)
      PROVE  EvidenceInv'
  <2>1. HoldsEvidence(j)' /\ FilesAreWhole'
    BY <1>2, HoldsEvidenceStep
  <2>2. \A k \in Jobs : k # j => HoldsEvidence(k)'
    BY <1>0, <1>2, StepMoves, HoldsEvidenceStays DEF Moves
  <2>3. WasBuilt(published)'
    BY <1>1, <1>2, WasBuiltStep, OnlyWriteReportPublishes
  <2>4. QED
    BY <2>1, <2>2, <2>3 DEF EvidenceInv, FilesAreWhole
<1>3. ASSUME NEW j \in Jobs, Start(j)
      PROVE  EvidenceInv'
  <2>1. PICK bins \in Bins \cup {1}, tol \in Tolerances : \E command, manifest :
            held' = [held EXCEPT ![j] = Command(command, manifest, bins, tol)]
    BY <1>3 DEF Start
  <2>2. pc' = [pc EXCEPT ![j] = "items"] /\ published' = published
    BY <1>3 DEF Start, Goto
  <2>3. FilesAreWhole'
    BY <1>0, <1>3 DEF Start, files, FilesAreWhole
  <2>4. \A k \in Jobs : k # j => SameJob(k)
    BY <1>0, <2>1, <2>2 DEF Types, SameJob
  <2>5. pc'[j] = "items" /\ \E command, manifest : held'[j] = Command(command, manifest, bins, tol)
    BY <1>0, <2>1, <2>2 DEF Types
  <2>6. IsRows(<<>>) /\ bins \in Nat \ {0} /\ tol \in Nat
    BY PipelineAssumption, NoRows
  <2>7. HoldsEvidence(j)'
    BY <2>5, <2>6 DEF HoldsEvidence, Command, Loaded, Scoring, Compared, Importing, Writing
  <2>8. QED
    BY <1>0, <1>1, <2>2, <2>3, <2>4, <2>7, HoldsEvidenceStays DEF EvidenceInv, FilesAreWhole
<1>4. ASSUME UNCHANGED <<pc, held, published>>, FilesAreWhole'
      PROVE  EvidenceInv'
  <2>1. \A k \in Jobs : HoldsEvidence(k)'
    BY <1>0, <1>4, HoldsEvidenceStays DEF SameJob
  <2>2. QED
    BY <1>1, <1>4, <2>1 DEF EvidenceInv, FilesAreWhole
<1>5. CASE Replace
  <2>1. UNCHANGED <<pc, held, published>>
    BY <1>5 DEF Replace
  <2>2. /\ items' \in ItemFiles /\ answers' \in AnswerFiles \cup {Unreadable}
        /\ predictions' \in Replacements \/ predictions' = predictions
    BY <1>0, <1>5 DEF Replace, FilesAreWhole
  <2>3. FilesAreWhole'
    BY <1>0, <2>2, PipelineAssumption DEF FilesAreWhole, IsRows
  <2>4. QED
    BY <1>4, <2>1, <2>3
<1>6. CASE UNCHANGED vars
  BY <1>0, <1>4, <1>6 DEF vars, files, FilesAreWhole
<1>7. QED
  BY <1>2, <1>3, <1>5, <1>6 DEF Next

\* Whatever is replaced or edited, what a process goes on with had loaded.
LEMMA EvidenceInvariant == Spec => []EvidenceInv
<1>1. Init => EvidenceInv
  <2> SUFFICES ASSUME Init PROVE EvidenceInv
    OBVIOUS
  <2>1. items \in ItemFiles /\ IsRows(predictions) /\ answers \in AnswerFiles \cup {Unreadable}
    BY PipelineAssumption DEF Init, IsRows
  <2>2. IsRows(<<>>)
    BY NoRows
  <2>3. \A j \in Jobs : HoldsEvidence(j)
    BY <2>2 DEF Init, Nothing, Command, HoldsEvidence, Loaded, Scoring, Compared, Importing, Writing
  <2>4. WasBuilt(published)
    BY DEF Init, WasBuilt
  <2>5. QED
    BY <2>1, <2>3, <2>4 DEF EvidenceInv
<1>2. QED
  BY <1>1, PipelineInvariant, EvidenceInvStep, PTL DEF Spec

\* A report that is what run computes from the files verify read is found
\* to agree with them, unless it asks for a looser audit.
THEOREM HonestReportsAreConfirmed == Spec => []HonestReportsVerify
<1>1. EvidenceInv => HonestReportsVerify
  <2> SUFFICES ASSUME EvidenceInv, NEW j \in Jobs, pc[j] = "mismatch",
                      ~(held[j].report.verify_tolerance > held[j].tol),
                      held[j].report =
                          BuildReport(held[j].items, held[j].rows, held[j].hash,
                              held[j].report.confidence_bins, held[j].report.verify_tolerance)
               PROVE  FALSE
    BY DEF HonestReportsVerify
  <2> DEFINE r == held[j].report
             recomputed == Strata(Samples(held[j].items, held[j].rows), r.confidence_bins)
  <2>1. /\ held[j].tol \in Nat /\ ReportLoads(r)
        /\ ~Verify(held[j].items, held[j].rows, held[j].hash, r, held[j].tol)
    BY DEF EvidenceInv, HoldsEvidence, Compared
  <2>2. /\ r.identity = Identity /\ r.items_sha256 = held[j].items
        /\ r.predictions_sha256 = held[j].hash /\ r.strata = recomputed
    BY DEF BuildReport
  <2>3. r.verify_tolerance <= held[j].tol /\ IsStrata(r.strata)
    BY <2>1 DEF ReportLoads
  <2> HIDE DEF r, recomputed
  <2>4. SameStrata(r.strata, recomputed, held[j].tol)
    BY <2>1, <2>2, <2>3, StrataAgreeWithThemselves
  <2>5. QED
    BY <2>1, <2>2, <2>3, <2>4 DEF Verify, recomputed
<1>2. QED
  BY <1>1, EvidenceInvariant, PTL

\* A report that verify confirms exactly holds what its evidence recomputes to,
\* number by number, unless the predictions moved between verify's two reads.
THEOREM ConfirmedReportsAreReproducible == Spec => []VerifiedMeansReproducible
<1>1. EvidenceInv => VerifiedMeansReproducible
  <2> SUFFICES ASSUME EvidenceInv, NEW j \in Jobs, pc[j] = "verified", held[j].tol = 0, ~held[j].moved
               PROVE  held[j].report.strata = Recomputed(held[j].report)
    BY DEF VerifiedMeansReproducible
  <2> DEFINE r == held[j].report
             S == Samples(held[j].items, held[j].rows)
             recomputed == Strata(S, r.confidence_bins)
  <2>1. /\ ReportLoads(r) /\ r.confidence_bins # 0 /\ held[j].hash = held[j].rows
        /\ Verify(held[j].items, held[j].rows, held[j].hash, r, held[j].tol)
        /\ held[j].items \in ItemFiles /\ ItemSetLoads(held[j].items) /\ IsRows(held[j].rows)
        /\ PredictionsLoad(held[j].rows, held[j].items)
    BY DEF EvidenceInv, HoldsEvidence, Loaded, Scoring, Compared
  <2>2. /\ r.items_sha256 = held[j].items /\ r.predictions_sha256 = held[j].rows
        /\ SameStrata(r.strata, recomputed, held[j].tol)
    BY <2>1 DEF Verify
  <2>3. AreSamples(S)
    BY <2>1, SamplesAre
  <2>4. IsStrata(r.strata) /\ r.confidence_bins \in Nat \ {0}
    BY <2>1 DEF ReportLoads
  <2> HIDE DEF r, S
  <2>5. IsStrata(recomputed)
    BY <2>3, <2>4, StrataParse
  <2> HIDE DEF recomputed
  <2>6. r.strata = recomputed
    BY <2>2, <2>4, <2>5, StrataAreTheSame
  <2>7. QED
    BY <2>2, <2>6 DEF Recomputed, recomputed, r, S
<1>2. QED
  BY <1>1, EvidenceInvariant, PTL

\* A file of rows and the file read backwards hold the same rows.
LEMMA BackwardsIsTheSame ==
    ASSUME NEW set, NEW rows, IsRows(rows)
    PROVE  Samples(set, Reverse(rows)) = Samples(set, rows)
<1> DEFINE n == Len(rows)
           back == Reverse(rows)
<1>1. n \in Nat /\ DOMAIN rows = 1..n
  BY DEF IsRows
<1>2. DOMAIN back = 1..n /\ \A k \in 1..n : back[k] = rows[(n - k) + 1]
  BY <1>1 DEF Reverse
<1> HIDE DEF n, back
<1>3. \A k \in 1..n : (n - k) + 1 \in 1..n /\ (n - ((n - k) + 1)) + 1 = k
  BY <1>1
<1>4. Range(back) = Range(rows)
  <2>1. \A x \in Range(back) : x \in Range(rows)
    BY <1>1, <1>2, <1>3 DEF Range
  <2>2. ASSUME NEW k \in 1..n
        PROVE  rows[k] \in Range(back)
    BY <1>2, <1>3 DEF Range
  <2>3. QED
    BY <1>1, <2>1, <2>2 DEF Range
<1>5. Ids(back) = Ids(rows)
  <2>1. \A file : Ids(file) = {row.id : row \in Range(file)}
    BY DEF Ids, Range
  <2>2. QED
    BY <1>4, <2>1
<1>6. \A i : RowOf(set, i, back) = RowOf(set, i, rows)
  BY <1>4, <1>5 DEF RowOf
<1>7. QED
  BY <1>6 DEF Samples, back

\* The order of the rows of a file changes no number of a report.
THEOREM RowsCountByIdOnly == Spec => []RowOrderDoesNotMatter
<1>1. EvidenceInv => RowOrderDoesNotMatter
  <2> SUFFICES ASSUME EvidenceInv, published # Unreadable, ~published.moved
               PROVE  published.report.strata =
                          Strata(Samples(published.report.items_sha256,
                                         Reverse(published.report.predictions_sha256)),
                                 published.report.confidence_bins)
    BY DEF RowOrderDoesNotMatter
  <2>1. PICK i, r, h, b, t : BuiltOf(published, i, r, h, b, t)
    BY DEF EvidenceInv, WasBuilt
  <2>2. /\ IsRows(r) /\ published.report.strata = Strata(Samples(i, r), b)
        /\ published.report.items_sha256 = i /\ published.report.predictions_sha256 = r
        /\ published.report.confidence_bins = b
    BY <2>1 DEF BuiltOf, BuildReport
  <2>3. Samples(i, Reverse(r)) = Samples(i, r)
    BY <2>2, BackwardsIsTheSame
  <2>4. QED
    BY <2>2, <2>3
<1>2. QED
  BY <1>1, EvidenceInvariant, PTL

-----------------------------------------------------------------------------
(* What import writes. *)

\* The two sides of a noul make one.
LEMMA NoulSides ==
    ASSUME NEW x \in Int
    PROVE  LET p == NoulProbs(x) IN
           /\ DOMAIN p = {"true", "false"} /\ p["true"] = x /\ p["false"] = Unit - x
           /\ SumFunction(p) = Unit
<1> DEFINE p == NoulProbs(x)
<1>1. DOMAIN p = {"true", "false"} /\ p["true"] = x /\ p["false"] = Unit - x
  BY DEF NoulProbs
<1> HIDE DEF p
<1>2. PICK t, f : t = "true" /\ f = "false"
  OBVIOUS
<1>3. t # f /\ DOMAIN p = {t} \cup {f} /\ \A y \in {t} \cup {f} : p[y] \in Int
  BY <1>1, <1>2, UnitAssumption
<1>4. SumFunctionOnSet(p, {t}) = p[t]
  <2>1. \A y \in {t} : p[y] = p[t]
    OBVIOUS
  <2>2. IsFiniteSet({t}) /\ Cardinality({t}) = 1
    BY FS_Singleton
  <2>3. PICK m \in Int : m = p[t]
    BY <1>3
  <2>4. \A y \in {t} : p[y] = m
    BY <2>3
  <2>5. SumFunctionOnSet(p, {t}) = Cardinality({t}) * m
    BY <2>2, <2>4, SumOfConstants
  <2>6. QED
    BY <2>2, <2>3, <2>5
<1>5. SumFunctionOnSet(p, {t} \cup {f}) = SumFunctionOnSet(p, {t}) + p[f]
  <2> DEFINE one == {t}
  <2>1. IsFiniteSet(one) /\ f \notin one /\ \A y \in one \cup {f} : p[y] \in Int
    BY <1>3, FS_Singleton
  <2> HIDE DEF one
  <2>2. SumFunctionOnSet(p, one \cup {f}) = SumFunctionOnSet(p, one) + p[f]
    BY <2>1, SumWith
  <2>3. QED
    BY <2>2 DEF one
<1>6. SumFunction(p) = Unit
  BY <1>1, <1>2, <1>3, <1>4, <1>5, UnitAssumption, SumOfFunction
<1>7. QED
  BY <1>1, <1>6 DEF p

\* The slots of a noul.
LEMMA NoulSlots ==
    ASSUME NEW item, item.kind = "noul"
    PROVE  LET slots == SlotLabels(item) IN
           /\ DOMAIN slots = 1..2 /\ slots[1] = "true" /\ slots[2] = "false"
           /\ Range(slots) = {"true", "false"}
<1> DEFINE slots == SlotLabels(item)
<1>1. slots = <<"true", "false">>
  BY DEF SlotLabels
<1> HIDE DEF slots
<1>2. DOMAIN slots = 1..2 /\ slots[1] = "true" /\ slots[2] = "false"
  BY <1>1
<1>3. Range(slots) = {"true", "false"}
  BY <1>2 DEF Range
<1>4. QED
  BY <1>2, <1>3 DEF slots

\* The row import writes for an answer loads just when the answer is a
\* distribution over the slots.
LEMMA AnswerLoads ==
    ASSUME NEW item, IsItem(item), NEW answer, IsAnswer(answer), answer.kind = item.kind
    PROVE  LET row == PredictionFromAnswer(item, answer) IN
           /\ row.label = None /\ row.probs # None
           /\ RowValid(row, SlotLabels(item)) <=> WellFormed(item, answer)
<1> DEFINE row == PredictionFromAnswer(item, answer)
           slots == SlotLabels(item)
<1>1. /\ row.label = None
      /\ row.probs = IF item.kind = "noul" THEN NoulProbs(answer.noul) ELSE answer.probs
  BY DEF PredictionFromAnswer
<1>2. row.probs # None
  BY <1>1 DEF IsAnswer
<1> HIDE DEF row
<1>3. RowValid(row, slots) <=>
        /\ DOMAIN row.probs = Range(slots)
        /\ \A k \in DOMAIN row.probs : row.probs[k] \in Nat
        /\ SumsToOne(row.probs)
  BY <1>1, <1>2 DEF RowValid
<1>4. ASSUME item.kind # "noul"
      PROVE  RowValid(row, slots) <=> WellFormed(item, answer)
  BY <1>1, <1>3, <1>4 DEF WellFormed
<1>5. ASSUME item.kind = "noul"
      PROVE  RowValid(row, slots) <=> WellFormed(item, answer)
  <2>1. answer.noul \in Int
    BY <1>5 DEF IsAnswer
  <2>2. /\ row.probs = NoulProbs(answer.noul) /\ Range(slots) = {"true", "false"}
    BY <1>1, <1>5, NoulSlots
  <2>3. /\ DOMAIN row.probs = Range(slots) /\ SumFunction(row.probs) = Unit
        /\ row.probs["true"] = answer.noul /\ row.probs["false"] = Unit - answer.noul
    BY <2>1, <2>2, NoulSides
  <2>4. (\A k \in DOMAIN row.probs : row.probs[k] \in Nat) <=> answer.noul \in 0..Unit
    BY <2>1, <2>2, <2>3, UnitAssumption
  <2>5. SumsToOne(row.probs)
    BY <2>3, UnitAssumption DEF SumsToOne, Gap
  <2>6. QED
    BY <1>3, <1>5, <2>3, <2>4, <2>5 DEF WellFormed
<1>6. QED
  BY <1>1, <1>2, <1>4, <1>5 DEF row

\* The first of the greatest is the least index of those that have the most.
LEMMA FirstOfTheTop ==
    ASSUME NEW n \in Nat \ {0}, NEW v, DOMAIN v = 1..n, \A k \in 1..n : v[k] \in Int,
           NEW top, top = {k \in 1..n : \A l \in 1..n : v[l] <= v[k]}
    PROVE  Min(top) = ArgmaxFirstMax(v)
<1> DEFINE a == ArgmaxFirstMax(v)
<1>1. a \in 1..n /\ \A k \in 1..n : v[k] < v[a] \/ (v[k] = v[a] /\ a <= k)
  BY ArgmaxIs
<1> HIDE DEF a
<1>2. a \in top
  BY <1>1
<1>3. \A k \in top : a <= k
  <2> SUFFICES ASSUME NEW k \in top PROVE a <= k
    OBVIOUS
  <2>1. v[a] <= v[k] /\ k \in 1..n
    BY <1>1
  <2>2. QED
    BY <1>1, <2>1
<1>4. \A k \in top : k \in Int
  OBVIOUS
<1>5. /\ Min(top) \in top /\ \A k \in top : Min(top) <= k
  BY <1>2, <1>3 DEF Min
<1>6. QED
  BY <1>2, <1>3, <1>4, <1>5 DEF a

\* What is predicted of a row import wrote is what the server answered.
LEMMA AnswerIsPredicted ==
    ASSUME NEW item, IsItem(item), ItemValid(item), NEW answer, IsAnswer(answer),
           answer.kind = item.kind, WellFormed(item, answer)
    PROVE  SampleOf(item, PredictionFromAnswer(item, answer)).predicted = AnswerSlot(item, answer)
<1> DEFINE row == PredictionFromAnswer(item, answer)
           slots == SlotLabels(item)
           n == Len(slots)
           v == Vector(row.probs, slots)
<1>1. /\ row.probs # None /\ RowValid(row, slots)
      /\ row.probs = IF item.kind = "noul" THEN NoulProbs(answer.noul) ELSE answer.probs
  BY AnswerLoads DEF PredictionFromAnswer
<1>2. n \in Nat \ {0} /\ DOMAIN slots = 1..n
  BY SlotsAre
<1>3. DOMAIN v = 1..n /\ \A k \in 1..n : v[k] = row.probs[slots[k]]
  BY <1>2 DEF Vector
<1>4. DOMAIN row.probs = Range(slots) /\ \A k \in DOMAIN row.probs : row.probs[k] \in Nat
  BY <1>1 DEF RowValid
<1>5. \A k \in 1..n : slots[k] \in Range(slots)
  BY <1>2 DEF Range
<1>6. \A k \in 1..n : v[k] \in Int
  BY <1>3, <1>4, <1>5
<1>7. SampleOf(item, row).predicted = slots[ArgmaxFirstMax(v)]
  BY <1>1 DEF SampleOf
<1> HIDE DEF row, n, v
<1>8. CASE item.kind # "noul"
  <2> DEFINE top == {k \in DOMAIN slots : \A other \in DOMAIN answer.probs :
                         answer.probs[other] <= answer.probs[slots[k]]}
  <2>1. AnswerSlot(item, answer) = slots[Min(top)]
    BY <1>8 DEF AnswerSlot
  <2>2. row.probs = answer.probs
    BY <1>1, <1>8
  <2>3. top = {k \in 1..n : \A l \in 1..n : v[l] <= v[k]}
    <3>1. \A other \in DOMAIN answer.probs : \E l \in 1..n : slots[l] = other
      BY <1>2, <1>4, <2>2 DEF Range
    <3>2. \A k \in 1..n : v[k] = answer.probs[slots[k]] /\ slots[k] \in DOMAIN answer.probs
      BY <1>3, <1>4, <1>5, <2>2
    <3>3. ASSUME NEW k \in 1..n
          PROVE  (\A other \in DOMAIN answer.probs : answer.probs[other] <= answer.probs[slots[k]])
                    <=> \A l \in 1..n : v[l] <= v[k]
      BY <3>1, <3>2
    <3>4. QED
      BY <1>2, <3>3
  <2> HIDE DEF top
  <2>4. Min(top) = ArgmaxFirstMax(v)
    BY <1>2, <1>3, <1>6, <2>3, FirstOfTheTop
  <2>5. QED
    BY <1>7, <2>1, <2>4 DEF row
<1>9. CASE item.kind = "noul"
  <2>1. /\ DOMAIN slots = 1..2 /\ slots[1] = "true" /\ slots[2] = "false"
    BY <1>9, NoulSlots
  <2>2. n = 2
    <3>1. n \in 1..n /\ 2 \in 1..2
      BY <1>2
    <3>2. n \in 1..2 /\ 2 \in 1..n
      BY <1>2, <2>1, <3>1
    <3>3. QED
      BY <1>2, <3>2
  <2>3. answer.noul \in Int /\ row.probs = NoulProbs(answer.noul)
    BY <1>1, <1>9 DEF IsAnswer
  <2>4. v[1] = answer.noul /\ v[2] = Unit - answer.noul
    BY <1>3, <2>1, <2>2, <2>3, NoulSides
  <2>5. /\ ArgmaxFirstMax(v) \in 1..n
        /\ \A k \in 1..n : v[k] < v[ArgmaxFirstMax(v)]
              \/ (v[k] = v[ArgmaxFirstMax(v)] /\ ArgmaxFirstMax(v) <= k)
    BY <1>2, <1>3, <1>6, ArgmaxIs
  <2>6. ArgmaxFirstMax(v) = IF 2 * answer.noul >= Unit THEN 1 ELSE 2
    BY <2>2, <2>3, <2>4, <2>5, UnitAssumption
  <2>7. AnswerSlot(item, answer) = IF 2 * answer.noul >= Unit THEN "true" ELSE "false"
    BY <1>9 DEF AnswerSlot
  <2>8. QED
    BY <1>7, <2>1, <2>6, <2>7 DEF row
<1>10. QED
  BY <1>8, <1>9

\* What import writes loads just when every answer is a distribution over its
\* question's slots, and then says of each item what the server answered.
THEOREM ImportIsFaithful == Spec => []ImportKeepsTheAnswers
<1>1. EvidenceInv => ImportKeepsTheAnswers
  <2> SUFFICES ASSUME EvidenceInv, NEW j \in Jobs, pc[j] = "imported"
               PROVE  LET given == held[j].answers
                          set == held[j].items
                          fits == \A i \in DOMAIN set : set[i].id \in DOMAIN given =>
                                     WellFormed(set[i], given[set[i].id])
                      IN /\ PredictionsLoad(held[j].rows, set) <=> fits
                         /\ fits => \A i \in DOMAIN set :
                               SampleOf(set[i], RowOf(set, i, held[j].rows)).predicted =
                                   IF set[i].id \in DOMAIN given
                                   THEN AnswerSlot(set[i], given[set[i].id])
                                   ELSE None
    BY DEF ImportKeepsTheAnswers
  <2> DEFINE given == held[j].answers
             set == held[j].items
             rows == held[j].rows
             fits == \A i \in DOMAIN set : set[i].id \in DOMAIN given =>
                        WellFormed(set[i], given[set[i].id])
  <2>1. /\ set \in ItemFiles /\ ItemSetLoads(set) /\ given \in AnswerFiles
        /\ AnswersFit(given, set) /\ rows = ImportAnswers(given, set)
    BY DEF EvidenceInv, HoldsEvidence, Loaded, Importing
  <2> HIDE DEF given, set, rows
  <2>2. /\ DOMAIN set = 1..Len(set) /\ Len(set) \in Nat
        /\ \A i \in DOMAIN set : IsItem(set[i]) /\ ItemValid(set[i])
        /\ \A i, k \in DOMAIN set : set[i].id = set[k].id => i = k
    BY <2>1, ItemsAre
  <2>3. /\ DOMAIN rows = DOMAIN set /\ Len(rows) = Len(set) /\ IsRows(rows)
        /\ \A i \in DOMAIN set : rows[i] =
              IF set[i].id \in DOMAIN given THEN PredictionFromAnswer(set[i], given[set[i].id])
              ELSE MissingRow(set[i].id)
    BY <2>1, ImportedRows DEF ImportAnswers
  <2>4. ASSUME NEW i \in DOMAIN set, set[i].id \in DOMAIN given
        PROVE  IsAnswer(given[set[i].id]) /\ given[set[i].id].kind = set[i].kind
    BY <2>1, <2>4, PipelineAssumption DEF AnswersFit
  <2>5. ASSUME NEW i \in DOMAIN set
        PROVE  /\ rows[i].id = set[i].id /\ rows[i].label = None /\ rows[i] # Junk
               /\ set[i].id \notin DOMAIN given => rows[i].probs = None
               /\ RowValid(rows[i], SlotLabels(set[i])) <=>
                     (set[i].id \in DOMAIN given => WellFormed(set[i], given[set[i].id]))
    <3>1. rows[i].id = set[i].id /\ rows[i].label = None /\ DOMAIN rows[i] = {"id", "label", "probs"}
      BY <2>3 DEF PredictionFromAnswer, MissingRow
    <3>2. rows[i] # Junk
      <4>1. DOMAIN Junk = {"unreadable"}
        BY DEF Junk
      <4>2. QED
        BY <3>1, <4>1
    <3>3. CASE set[i].id \in DOMAIN given
      <4>1. rows[i] = PredictionFromAnswer(set[i], given[set[i].id])
        BY <2>3, <3>3
      <4>2. QED
        BY <2>2, <2>4, <3>1, <3>2, <3>3, <4>1, AnswerLoads
    <3>4. CASE set[i].id \notin DOMAIN given
      <4>1. rows[i].probs = None
        BY <2>3, <3>4 DEF MissingRow
      <4>2. RowValid(rows[i], SlotLabels(set[i]))
        BY <3>1, <4>1 DEF RowValid
      <4>3. QED
        BY <3>1, <3>2, <3>4, <4>1, <4>2
    <3>5. QED
      BY <3>3, <3>4
  <2>6. Ids(rows) = Ids(set) /\ DistinctIds(rows)
    <3>1. Ids(rows) = Ids(set)
      BY <2>3, <2>5 DEF Ids
    <3>2. QED
      BY <2>1, <2>3, <3>1 DEF DistinctIds, ItemSetLoads
  <2>7. PredictionsLoad(rows, set) <=> fits
    <3>1. ASSUME PredictionsLoad(rows, set), NEW i \in DOMAIN set
          PROVE  RowValid(rows[i], SlotLabels(set[i]))
      <4>1. PICK k \in DOMAIN set : set[k].id = rows[i].id /\ RowValid(rows[i], SlotLabels(set[k]))
        BY <2>3, <3>1 DEF PredictionsLoad
      <4>2. k = i
        BY <2>2, <2>5, <4>1
      <4>3. QED
        BY <4>1, <4>2
    <3>2. (\A i \in DOMAIN set : RowValid(rows[i], SlotLabels(set[i]))) => PredictionsLoad(rows, set)
      BY <2>3, <2>5, <2>6 DEF PredictionsLoad
    <3>3. (\A i \in DOMAIN set : RowValid(rows[i], SlotLabels(set[i]))) <=> fits
      BY <2>5
    <3>4. QED
      BY <3>1, <3>2, <3>3
  <2>8. ASSUME fits, NEW i \in DOMAIN set
        PROVE  SampleOf(set[i], RowOf(set, i, rows)).predicted =
                   IF set[i].id \in DOMAIN given THEN AnswerSlot(set[i], given[set[i].id]) ELSE None
    <3>1. RowOf(set, i, rows) = rows[i]
      <4>1. PredictionsLoad(rows, set) /\ set[i].id \in Ids(rows)
        BY <2>3, <2>5, <2>7, <2>8 DEF Ids
      <4>2. RowOf(set, i, rows) \in Range(rows) /\ RowOf(set, i, rows).id = set[i].id
        BY <2>1, <2>3, <4>1, RowOfIs
      <4>3. rows[i] \in Range(rows) /\ rows[i].id = set[i].id
        BY <2>3, <2>5 DEF Range
      <4>4. \A row, other \in Range(rows) : row.id = other.id => row = other
        BY <2>3, <4>1, RowsAre
      <4>5. QED
        BY <4>2, <4>3, <4>4
    <3>2. CASE set[i].id \in DOMAIN given
      <4>1. rows[i] = PredictionFromAnswer(set[i], given[set[i].id])
        BY <2>3, <3>2
      <4>2. WellFormed(set[i], given[set[i].id])
        BY <2>8, <3>2
      <4>3. QED
        BY <2>2, <2>4, <3>1, <3>2, <4>1, <4>2, AnswerIsPredicted
    <3>3. CASE set[i].id \notin DOMAIN given
      <4>1. rows[i].probs = None /\ rows[i].label = None
        BY <2>5, <3>3
      <4>2. SampleOf(set[i], rows[i]).predicted = None
        BY <4>1 DEF SampleOf
      <4>3. QED
        BY <3>1, <3>3, <4>2
    <3>4. QED
      BY <3>2, <3>3
  <2>9. QED
    BY <2>7, <2>8 DEF given, set, rows
<1>2. QED
  BY <1>1, EvidenceInvariant, PTL

-----------------------------------------------------------------------------
(* What the strata count. *)

\* The samples a field of the metrics counts.
Counted(S, f) ==
    LET parts == [n_items |-> S, n_missing |-> Missing(S), n_predicted |-> Predicted(S),
                  n_scored |-> Scored(S), n_binary |-> Binary(S)]
    IN  parts[f]

\* A count is of those samples, and in a part of them of those in the part.
LEMMA CountedIs ==
    ASSUME NEW S, NEW f \in Counts, NEW bins
    PROVE  /\ Counted(S, f) \subseteq S
           /\ Summarize(S, bins)[f] = Count(Counted(S, f))
           /\ \A T \in SUBSET S : Counted(T, f) = T \cap Counted(S, f)
<1> USE DEF Counts, Counted, Summarize, Missing, Predicted, Scored, Binary
<1>1. CASE f = "n_items"
  BY <1>1
<1>2. CASE f = "n_missing"
  BY <1>2
<1>3. CASE f = "n_predicted"
  BY <1>3
<1>4. CASE f = "n_scored"
  BY <1>4
<1>5. CASE f = "n_binary"
  BY <1>5
<1>6. QED
  BY <1>1, <1>2, <1>3, <1>4, <1>5

\* Parted by a key, the samples a field counts are counted once each.
LEMMA CountsAddUp ==
    ASSUME NEW S, AreSamples(S), NEW bins, NEW f \in Counts, NEW key,
           NEW K, \A s \in S : key[s] \in K, \A c \in K : \E s \in S : key[s] = c,
           NEW g, DOMAIN g = K, \A c \in K : g[c] = Summarize(OfKey(S, key, c), bins)[f]
    PROVE  SumFunction(g) = Summarize(S, bins)[f]
<1> DEFINE Q == Counted(S, f)
<1>1. Q \subseteq S /\ IsFiniteSet(S) /\ Summarize(S, bins)[f] = Cardinality(Q)
  BY CountedIs DEF AreSamples, Count
<1>2. IsFiniteSet(K)
  <2> DEFINE m == [s \in S |-> key[s]]
  <2>1. m \in Surjection(S, K)
    BY DEF Surjection
  <2> HIDE DEF m
  <2>2. QED
    BY <1>1, <2>1, FS_Surjection
<1>3. \A c \in K : g[c] = Cardinality(OfKey(Q, key, c))
  <2> SUFFICES ASSUME NEW c \in K PROVE g[c] = Cardinality(OfKey(Q, key, c))
    OBVIOUS
  <2>1. OfKey(S, key, c) \in SUBSET S
    BY DEF OfKey
  <2>2. Counted(OfKey(S, key, c), f) = OfKey(S, key, c) \cap Q
    BY <2>1, CountedIs
  <2>3. OfKey(S, key, c) \cap Q = OfKey(Q, key, c)
    BY <1>1 DEF OfKey
  <2>4. g[c] = Count(Counted(OfKey(S, key, c), f))
    BY CountedIs
  <2>5. QED
    BY <2>2, <2>3, <2>4 DEF Count
<1> HIDE DEF Q
<1>4. IsFiniteSet(Q) /\ \A s \in Q : key[s] \in K
  BY <1>1, FS_Subset
<1>5. SumFunctionOnSet(g, K) = Cardinality(Q)
  BY <1>2, <1>3, <1>4, CountOfParts
<1>6. QED
  BY <1>1, <1>5, SumOfFunction

\* The categories of some samples count them all.
LEMMA CategoriesAddUp ==
    ASSUME NEW S, AreSamples(S), NEW bins, NEW f \in Counts
    PROVE  SumOver(ByCategory(S, bins), f) = Summarize(S, bins)[f]
<1> DEFINE key == [s \in S |-> s.category]
           K == {key[s] : s \in S}
           m == ByCategory(S, bins)
           g == [c \in DOMAIN m |-> m[c][f]]
<1>1. K = {s.category : s \in S} /\ \A c : OfKey(S, key, c) = {s \in S : s.category = c}
  BY DEF OfKey
<1>2. DOMAIN m = K /\ \A c \in K : m[c] = Summarize(OfKey(S, key, c), bins)
  BY <1>1 DEF ByCategory
<1>3. SumOver(m, f) = SumFunction(g)
  BY DEF SumOver
<1>4. DOMAIN g = K /\ \A c \in K : g[c] = Summarize(OfKey(S, key, c), bins)[f]
  BY <1>2
<1>5. (\A s \in S : key[s] \in K) /\ \A c \in K : \E s \in S : key[s] = c
  OBVIOUS
<1> HIDE DEF g, m, K, key
<1>6. SumFunction(g) = Summarize(S, bins)[f]
  BY <1>4, <1>5, CountsAddUp
<1>7. QED
  BY <1>3, <1>6 DEF m

\* So do the sources.
LEMMA SourcesAddUp ==
    ASSUME NEW S, AreSamples(S), NEW bins, NEW f \in Counts
    PROVE  SumOver([src \in {s.source : s \in S} |-> SourceStratum(S, src, bins).overall], f)
              = Summarize(S, bins)[f]
<1> DEFINE overall == [src \in {s.source : s \in S} |-> SourceStratum(S, src, bins).overall]
           key == [s \in S |-> s.source]
           K == {key[s] : s \in S}
           g == [c \in DOMAIN overall |-> overall[c][f]]
<1>1. K = {s.source : s \in S} /\ \A c : OfKey(S, key, c) = {s \in S : s.source = c}
  BY DEF OfKey
<1>2. DOMAIN overall = K /\ \A c \in K : overall[c] = Summarize(OfKey(S, key, c), bins)
  BY <1>1 DEF SourceStratum
<1>3. SumOver(overall, f) = SumFunction(g)
  BY DEF SumOver
<1>4. DOMAIN g = K /\ \A c \in K : g[c] = Summarize(OfKey(S, key, c), bins)[f]
  BY <1>2
<1>5. (\A s \in S : key[s] \in K) /\ \A c \in K : \E s \in S : key[s] = c
  OBVIOUS
<1> HIDE DEF g, K, key, overall
<1>6. SumFunction(g) = Summarize(S, bins)[f]
  BY <1>4, <1>5, CountsAddUp
<1>7. QED
  BY <1>3, <1>6 DEF overall

\* A sample is predicted or missing.
LEMMA PredictedOrMissing ==
    ASSUME NEW S, AreSamples(S)
    PROVE  Count(S) = Count(Missing(S)) + Count(Predicted(S))
<1> DEFINE M == Missing(S)
           P == Predicted(S)
<1>1. M \cup P = S /\ M \cap P = {} /\ M \subseteq S /\ P \subseteq S
  <2>1. \A s \in S : s.predicted = None => s.probs = None
    BY ConfidenceIs DEF AreSamples
  <2>2. QED
    BY <2>1 DEF Missing, Predicted
<1> HIDE DEF M, P
<1>2. IsFiniteSet(M) /\ IsFiniteSet(P)
  BY <1>1, FS_Subset DEF AreSamples
<1>3. Cardinality(S) = Cardinality(M) + Cardinality(P) - Cardinality({})
  BY <1>1, <1>2, FS_Union
<1>4. Cardinality({}) = 0 /\ Cardinality(M) \in Nat /\ Cardinality(P) \in Nat
  BY <1>2, FS_EmptySet, FS_CardinalityType
<1>5. QED
  BY <1>3, <1>4 DEF Count, M, P

\* The metrics of every stratum of a report.
StrataOf(s) ==
    Range(s.by_category) \cup
    UNION {{g.overall} \cup Range(g.by_category) : g \in Range(s.by_source)}

\* Every stratum of a report is the summary of some of its samples.
LEMMA EveryStratum ==
    ASSUME NEW S, NEW bins, NEW m \in StrataOf(Strata(S, bins))
    PROVE  \E T \in SUBSET S : m = Summarize(T, bins)
<1> DEFINE s == Strata(S, bins)
<1>1. \A T : \A x \in Range(ByCategory(T, bins)) : \E U \in SUBSET T : x = Summarize(U, bins)
  BY DEF ByCategory, Range
<1>2. CASE m \in Range(s.by_category)
  <2>1. s.by_category = ByCategory(S, bins)
    BY DEF Strata
  <2>2. QED
    BY <1>1, <1>2, <2>1
<1>3. CASE m \notin Range(s.by_category)
  <2>1. PICK g \in Range(s.by_source) : m \in {g.overall} \cup Range(g.by_category)
    BY <1>3 DEF StrataOf
  <2>2. PICK src : g = SourceStratum(S, src, bins)
    BY DEF Strata, Range
  <2> DEFINE G == {x \in S : x.source = src}
  <2>3. g.overall = Summarize(G, bins) /\ g.by_category = ByCategory(G, bins) /\ G \in SUBSET S
    BY <2>2 DEF SourceStratum
  <2> HIDE DEF G
  <2>4. QED
    BY <1>1, <2>1, <2>3
<1>4. QED
  BY <1>2, <1>3

\* The predicted samples are one for each answered row.
LEMMA AnswersAreCounted ==
    ASSUME NEW set \in ItemFiles, ItemSetLoads(set),
           NEW rows, IsRows(rows), PredictionsLoad(rows, set)
    PROVE  Count(Predicted(Samples(set, rows)))
              = Count({r \in Range(rows) : r.label # None \/ r.probs # None})
<1> DEFINE A == {r \in Range(rows) : r.label # None \/ r.probs # None}
           S == Samples(set, rows)
           P == Predicted(S)
           f == [a \in A |-> CHOOSE s \in P : s.id = a.id]
           sample(i) == SampleOf(set[i], RowOf(set, i, rows))
<1>1. ASSUME NEW i \in DOMAIN set
      PROVE  /\ sample(i).id = set[i].id /\ sample(i) \in S
             /\ sample(i).predicted # None
                   <=> RowOf(set, i, rows).label # None \/ RowOf(set, i, rows).probs # None
  <2>1. IsItem(set[i]) /\ ItemValid(set[i]) /\ RowValid(RowOf(set, i, rows), SlotLabels(set[i]))
    BY ItemsAre, RowOfIs
  <2> DEFINE item == set[i]
             row == RowOf(set, i, rows)
             s == SampleOf(item, row)
  <2>2. IsItem(item) /\ ItemValid(item) /\ RowValid(row, SlotLabels(item))
    BY <2>1
  <2> HIDE DEF item, row
  <2>3. s.id = item.id /\ (s.predicted # None <=> row.label # None \/ row.probs # None)
    BY <2>2, SampleIs
  <2>4. SampleOf(set[i], RowOf(set, i, rows)) \in S
    BY DEF Samples
  <2>5. QED
    BY <2>3, <2>4 DEF item, row
<1>2. \A s \in S : \E i \in DOMAIN set : s = sample(i)
  BY DEF Samples
<1>3. \A i, k \in DOMAIN set : set[i].id = set[k].id => i = k
  BY ItemsAre
<1>4. P = {s \in S : s.predicted # None}
  BY DEF Predicted
<1> HIDE DEF sample, S, P, A
<1>5. \A s, t \in P : s.id = t.id => s = t
  BY <1>1, <1>2, <1>3, <1>4
<1>6. \A a \in A : a \in Range(rows) /\ (a.label # None \/ a.probs # None)
  BY DEF A
<1>7. ASSUME NEW a \in A
      PROVE  \E s \in P : s.id = a.id
  <2>1. PICK i \in DOMAIN set : set[i].id = a.id
    BY <1>6, RowsAre
  <2>2. set[i].id \in Ids(rows)
    BY <1>6, <2>1, RowsAre
  <2>3. RowOf(set, i, rows) = a
    BY <1>6, <2>1, <2>2, RowOfIs, RowsAre
  <2>4. sample(i) \in P
    BY <1>1, <1>4, <1>6, <2>3
  <2>5. QED
    BY <1>1, <2>1, <2>4
<1>8. \A a \in A : f[a] \in P /\ f[a].id = a.id
  BY <1>7
<1>9. \A a, b \in A : a.id = b.id => a = b
  BY <1>6, RowsAre
<1>10. ASSUME NEW s \in P
       PROVE  \E a \in A : f[a] = s
  <2>1. PICK i \in DOMAIN set : s = sample(i)
    BY <1>2, <1>4
  <2> DEFINE row == RowOf(set, i, rows)
  <2>2. row.label # None \/ row.probs # None
    BY <1>1, <1>4, <2>1
  <2>3. row.id = set[i].id /\ row \in Range(rows)
    <3>1. /\ row.id = set[i].id
          /\ IF set[i].id \in Ids(rows) THEN row \in Range(rows) ELSE row = MissingRow(set[i].id)
      BY RowOfIs
    <3>2. row # MissingRow(set[i].id)
      BY <2>2 DEF MissingRow
    <3>3. QED
      BY <3>1, <3>2
  <2>4. row \in A
    BY <2>2, <2>3 DEF A
  <2>5. f[row].id = s.id
    BY <1>1, <1>8, <2>1, <2>3, <2>4
  <2>6. f[row] = s
    BY <1>5, <1>8, <2>4, <2>5
  <2>7. QED
    BY <2>4, <2>6
<1>11. DOMAIN f = A /\ f = [a \in A |-> f[a]]
  OBVIOUS
<1> HIDE DEF f
<1>12. f \in Bijection(A, P)
  <2>1. f \in [A -> P]
    BY <1>8, <1>11
  <2>2. \A a, b \in A : f[a] = f[b] => a = b
    BY <1>8, <1>9
  <2>3. QED
    BY <1>10, <2>1, <2>2 DEF Bijection, Injection, Surjection, IsInjective
<1>13. IsFiniteSet(A)
  <2>1. rows \in Seq(Range(rows)) /\ A \subseteq Range(rows)
    BY DEF IsRows, A
  <2>2. IsFiniteSet(Range(rows))
    BY <2>1, RangeIsFinite
  <2>3. QED
    BY <2>1, <2>2, FS_Subset
<1>14. Cardinality(P) = Cardinality(A)
  BY <1>12, <1>13, FS_Bijection DEF ExistsBijection
<1>15. QED
  BY <1>14 DEF Count, P, S, A

\* What the last report was built of.
LEMMA LastReport ==
    ASSUME EvidenceInv, published # Unreadable
    PROVE  \E i, r, b, S :
              /\ i \in ItemFiles /\ ItemSetLoads(i) /\ IsRows(r) /\ PredictionsLoad(r, i)
              /\ b \in Nat \ {0} /\ S = Samples(i, r) /\ AreSamples(S) /\ Count(S) = Len(i)
              /\ published.report.items_sha256 = i
              /\ published.moved \/ published.report.predictions_sha256 = r
              /\ published.report.strata = Strata(S, b)
<1>1. PICK i, r, h, b, t : BuiltOf(published, i, r, h, b, t)
  BY DEF EvidenceInv, WasBuilt
<1>2. /\ i \in ItemFiles /\ ItemSetLoads(i) /\ IsRows(r) /\ PredictionsLoad(r, i)
      /\ b \in Nat \ {0} /\ (published.moved \/ h = r)
      /\ published.report = BuildReport(i, r, h, b, t)
  BY <1>1 DEF BuiltOf
<1>3. /\ published.report.items_sha256 = i /\ published.report.predictions_sha256 = h
      /\ published.report.strata = Strata(Samples(i, r), b)
  BY <1>2 DEF BuildReport
<1>4. AreSamples(Samples(i, r)) /\ Count(Samples(i, r)) = Len(i)
  BY <1>2, SamplesAre
<1>5. QED
  BY <1>2, <1>3, <1>4

\* No item is lost from the counts of a report or counted twice.
THEOREM EveryItemIsCounted == Spec => []CoverageIsNotHidden
<1>1. EvidenceInv => CoverageIsNotHidden
  <2> SUFFICES ASSUME EvidenceInv, published # Unreadable
               PROVE
        LET s == published.report.strata
            overall == [src \in DOMAIN s.by_source |-> s.by_source[src].overall]
            answered == {r \in Range(published.report.predictions_sha256) :
                            r.label # None \/ r.probs # None}
        IN /\ \A f \in Counts :
                 /\ SumOver(overall, f) = SumOver(s.by_category, f)
                 /\ \A src \in DOMAIN s.by_source :
                       overall[src][f] = SumOver(s.by_source[src].by_category, f)
           /\ SumOver(overall, "n_items") = Len(published.report.items_sha256)
           /\ \A m \in AllStrata : m.n_items = m.n_missing + m.n_predicted
           /\ ~published.moved => SumOver(overall, "n_predicted") = Count(answered)
    BY DEF CoverageIsNotHidden
  <2>1. PICK i, r, b, S :
              /\ i \in ItemFiles /\ ItemSetLoads(i) /\ IsRows(r) /\ PredictionsLoad(r, i)
              /\ b \in Nat \ {0} /\ S = Samples(i, r) /\ AreSamples(S) /\ Count(S) = Len(i)
              /\ published.report.items_sha256 = i
              /\ published.moved \/ published.report.predictions_sha256 = r
              /\ published.report.strata = Strata(S, b)
    BY LastReport
  <2> DEFINE s == published.report.strata
             overall == [src \in DOMAIN s.by_source |-> s.by_source[src].overall]
  <2>2. /\ DOMAIN s.by_source = {x.source : x \in S} /\ s.by_category = ByCategory(S, b)
        /\ \A src \in DOMAIN s.by_source : s.by_source[src] = SourceStratum(S, src, b)
    BY <2>1 DEF Strata
  <2>3. overall = [src \in {x.source : x \in S} |-> SourceStratum(S, src, b).overall]
    BY <2>2
  <2>4. \A f \in Counts : SumOver(overall, f) = Summarize(S, b)[f]
    <3> HIDE DEF overall
    <3>1. \A f \in Counts :
            SumOver([src \in {x.source : x \in S} |-> SourceStratum(S, src, b).overall], f)
               = Summarize(S, b)[f]
      BY <2>1, SourcesAddUp
    <3>2. QED
      BY <2>3, <3>1
  <2>5. \A f \in Counts : SumOver(s.by_category, f) = Summarize(S, b)[f]
    BY <2>1, <2>2, CategoriesAddUp
  <2>6. ASSUME NEW f \in Counts, NEW src \in DOMAIN s.by_source
        PROVE  overall[src][f] = SumOver(s.by_source[src].by_category, f)
    <3> DEFINE G == {x \in S : x.source = src}
    <3>1. overall[src] = Summarize(G, b) /\ s.by_source[src].by_category = ByCategory(G, b)
      <4>1. /\ SourceStratum(S, src, b).overall = Summarize(G, b)
            /\ SourceStratum(S, src, b).by_category = ByCategory(G, b)
        BY DEF SourceStratum
      <4>2. overall[src] = s.by_source[src].overall
        BY <2>6
      <4>3. s.by_source[src] = SourceStratum(S, src, b)
        BY <2>2, <2>6
      <4> HIDE DEF overall, s, G
      <4>4. QED
        BY <4>1, <4>2, <4>3
    <3>2. G \in SUBSET S
      OBVIOUS
    <3> HIDE DEF G
    <3>3. AreSamples(G)
      BY <2>1, <3>2, SomeSamples
    <3>4. QED
      BY <3>1, <3>3, CategoriesAddUp
  <2>7. Summarize(S, b)["n_items"] = Count(S) /\ Summarize(S, b)["n_predicted"] = Count(Predicted(S))
    BY DEF Summarize
  <2>8. SumOver(overall, "n_items") = Len(published.report.items_sha256)
    BY <2>1, <2>4, <2>7 DEF Counts
  <2>9. ASSUME NEW m \in AllStrata
        PROVE  m.n_items = m.n_missing + m.n_predicted
    <3>1. m \in StrataOf(s)
      BY DEF AllStrata, StrataOf
    <3>2. PICK T \in SUBSET S : m = Summarize(T, b)
      BY <2>1, <3>1, EveryStratum
    <3>3. AreSamples(T)
      BY <2>1, SomeSamples
    <3>4. m.n_items = Count(T) /\ m.n_missing = Count(Missing(T)) /\ m.n_predicted = Count(Predicted(T))
      BY <3>2 DEF Summarize
    <3>5. QED
      BY <3>3, <3>4, PredictedOrMissing
  <2>10. ASSUME ~published.moved
         PROVE  SumOver(overall, "n_predicted")
                   = Count({x \in Range(published.report.predictions_sha256) :
                               x.label # None \/ x.probs # None})
    <3>1. Count(Predicted(S)) = Count({x \in Range(r) : x.label # None \/ x.probs # None})
      BY <2>1, AnswersAreCounted
    <3>2. SumOver(overall, "n_predicted") = Count(Predicted(S))
      BY <2>4, <2>7 DEF Counts
    <3>3. published.report.predictions_sha256 = r
      BY <2>1, <2>10
    <3>4. QED
      BY <3>1, <3>2, <3>3
  <2>11. QED
    BY <2>4, <2>5, <2>6, <2>8, <2>9, <2>10
<1>2. QED
  BY <1>1, EvidenceInvariant, PTL

-----------------------------------------------------------------------------
(* Calibration. *)

\* Samples that were given probabilities.
AreScored(S) == AreSamples(S) /\ \A s \in S : s.probs # None

\* So are some of them.
LEMMA SomeScored ==
    ASSUME NEW S, AreScored(S), NEW T \in SUBSET S
    PROVE  AreScored(T)
  BY SomeSamples DEF AreScored

\* The parts of samples have the hits of all.
LEMMA HitsAddUp ==
    ASSUME NEW S, AreScored(S), NEW K, IsFiniteSet(K), NEW key, \A s \in S : key[s] \in K,
           NEW g, \A c \in K : g[c] = Hits(OfKey(S, key, c))
    PROVE  SumFunctionOnSet(g, K) = Hits(S)
<1> DEFINE H == {s \in S : s.predicted = s.gold}
<1>1. H \subseteq S /\ IsFiniteSet(H) /\ Hits(S) = Cardinality(H)
  <2>1. H \subseteq S /\ IsFiniteSet(S)
    BY DEF AreScored, AreSamples
  <2> HIDE DEF H
  <2>2. IsFiniteSet(H)
    BY <2>1, FS_Subset
  <2>3. Hits(S) = Cardinality(H)
    BY DEF Hits, Count, H
  <2>4. QED
    BY <2>1, <2>2, <2>3
<1>2. \A c \in K : Hits(OfKey(S, key, c)) = Cardinality(OfKey(H, key, c))
  <2>1. \A c : {s \in OfKey(S, key, c) : s.predicted = s.gold} = OfKey(H, key, c)
    BY DEF OfKey
  <2>2. QED
    BY <2>1 DEF Hits, Count
<1> HIDE DEF H
<1>3. \A s \in H : key[s] \in K
  BY <1>1
<1>4. \A c \in K : g[c] = Cardinality(OfKey(H, key, c))
  BY <1>2
<1>5. QED
  BY <1>1, <1>3, <1>4, CountOfParts

\* And the confidence of all.
LEMMA ConfidenceAddsUp ==
    ASSUME NEW S, AreScored(S), NEW K, IsFiniteSet(K), NEW key, \A s \in S : key[s] \in K,
           NEW g, \A c \in K : g[c] = TotalConfidence(OfKey(S, key, c))
    PROVE  SumFunctionOnSet(g, K) = TotalConfidence(S)
<1> DEFINE f == [s \in S |-> Confidence(s)]
<1>1. IsFiniteSet(S) /\ \A s \in S : f[s] = Confidence(s) /\ f[s] \in Int
  BY ConfidenceIs, UnitAssumption DEF AreScored, AreSamples
<1> HIDE DEF f
<1>2. \A T \in SUBSET S : TotalConfidence(T) = SumFunctionOnSet(f, T)
  <2> SUFFICES ASSUME NEW T \in SUBSET S
               PROVE  TotalConfidence(T) = SumFunctionOnSet(f, T)
    OBVIOUS
  <2> DEFINE t == [s \in T |-> Confidence(s)]
  <2>1. IsFiniteSet(T) /\ DOMAIN t = T /\ \A s \in T : t[s] = f[s]
    BY <1>1, FS_Subset
  <2>2. TotalConfidence(T) = SumFunction(t)
    BY DEF TotalConfidence
  <2> HIDE DEF t
  <2>3. SumFunction(t) = SumFunctionOnSet(t, T)
    BY <2>1, SumOfFunction
  <2>4. SumFunctionOnSet(t, T) = SumFunctionOnSet(f, T)
    BY <2>1, SumEqual
  <2>5. QED
    BY <2>2, <2>3, <2>4
<1>3. \A c : OfKey(S, key, c) \in SUBSET S
  BY DEF OfKey
<1>4. \A c \in K : g[c] = SumFunctionOnSet(f, OfKey(S, key, c))
  BY <1>2, <1>3
<1>5. SumFunctionOnSet(g, K) = SumFunctionOnSet(f, S)
  BY <1>1, <1>4, SumOfParts
<1>6. QED
  BY <1>2, <1>5

\* A sample of the curve is in one bin of it.
LEMMA CurveParts ==
    ASSUME NEW S, AreScored(S), NEW bins \in Nat \ {0}
    PROVE  LET curve == Reliability(S, bins)
               used == InOrder(BinsInUse(S, bins))
           IN \E key : \A s \in S :
                 key[s] \in DOMAIN curve /\ used[key[s]] = BinOf(Confidence(s), bins)
<1> DEFINE curve == Reliability(S, bins)
           U == BinsInUse(S, bins)
           used == InOrder(U)
           key == [s \in S |-> CHOOSE i \in DOMAIN curve : used[i] = BinOf(Confidence(s), bins)]
<1>1. DOMAIN curve = 1..Cardinality(U) /\ \A b \in U : \E i \in 1..Cardinality(U) : used[i] = b
  BY BinsOfCurve
<1>2. ASSUME NEW s \in S
      PROVE  BinOf(Confidence(s), bins) \in U
  <2>1. Confidence(s) \in 0..MostConfidence
    BY ConfidenceIs DEF AreScored, AreSamples
  <2>2. BinOf(Confidence(s), bins) \in 0..(bins - 1)
    BY <2>1, BinOfIs
  <2>3. s \in InBin(S, BinOf(Confidence(s), bins), bins)
    BY DEF InBin
  <2>4. QED
    BY <2>2, <2>3 DEF BinsInUse
<1> HIDE DEF curve, U, used
<1>3. \A s \in S : \E i \in DOMAIN curve : used[i] = BinOf(Confidence(s), bins)
  BY <1>1, <1>2
<1>4. \A s \in S : key[s] \in DOMAIN curve /\ used[key[s]] = BinOf(Confidence(s), bins)
  BY <1>3
<1> HIDE DEF key
<1>5. QED
  BY <1>4 DEF curve, U, used

\* What is in the bins of the curve is what was scored.
LEMMA CurveIsWhole ==
    ASSUME NEW S, AreScored(S), NEW bins \in Nat \ {0}
    PROVE  LET curve == Reliability(S, bins)
               used == InOrder(BinsInUse(S, bins))
           IN \A g :
                /\ (\A i \in DOMAIN curve : g[i] = Count(InBin(S, used[i], bins)))
                      => SumFunctionOnSet(g, DOMAIN curve) = Count(S)
                /\ (\A i \in DOMAIN curve : g[i] = Hits(InBin(S, used[i], bins)))
                      => SumFunctionOnSet(g, DOMAIN curve) = Hits(S)
                /\ (\A i \in DOMAIN curve : g[i] = TotalConfidence(InBin(S, used[i], bins)))
                      => SumFunctionOnSet(g, DOMAIN curve) = TotalConfidence(S)
<1> DEFINE curve == Reliability(S, bins)
           used == InOrder(BinsInUse(S, bins))
           K == DOMAIN curve
<1>1. PICK key : \A s \in S : key[s] \in K /\ used[key[s]] = BinOf(Confidence(s), bins)
  BY CurveParts
<1>2. IsFiniteSet(K) /\ \A i, k \in K : used[i] = used[k] => i = k
  <2>1. PICK n \in Nat : n = Cardinality(BinsInUse(S, bins))
    BY BinsOfCurve
  <2>2. K = 1..n /\ \A i, k \in 1..n : used[i] = used[k] => i = k
    BY <2>1, BinsOfCurve
  <2> HIDE DEF K, used
  <2>3. IsFiniteSet(1..n)
    BY FS_Interval
  <2>4. QED
    BY <2>2, <2>3
<1> HIDE DEF K, used
<1>3. \A i \in K : InBin(S, used[i], bins) = OfKey(S, key, i)
  BY <1>1, <1>2 DEF InBin, OfKey
<1>4. IsFiniteSet(S)
  BY DEF AreScored, AreSamples
<1>5. ASSUME NEW g
      PROVE  /\ (\A i \in K : g[i] = Count(InBin(S, used[i], bins)))
                   => SumFunctionOnSet(g, K) = Count(S)
             /\ (\A i \in K : g[i] = Hits(InBin(S, used[i], bins)))
                   => SumFunctionOnSet(g, K) = Hits(S)
             /\ (\A i \in K : g[i] = TotalConfidence(InBin(S, used[i], bins)))
                   => SumFunctionOnSet(g, K) = TotalConfidence(S)
  <2>1. ASSUME \A i \in K : g[i] = Count(InBin(S, used[i], bins))
        PROVE  SumFunctionOnSet(g, K) = Count(S)
    <3>1. \A i \in K : g[i] = Cardinality(OfKey(S, key, i))
      BY <1>3, <2>1 DEF Count
    <3>2. QED
      BY <1>1, <1>2, <1>4, <3>1, CountOfParts DEF Count
  <2>2. ASSUME \A i \in K : g[i] = Hits(InBin(S, used[i], bins))
        PROVE  SumFunctionOnSet(g, K) = Hits(S)
    BY <1>1, <1>2, <1>3, <2>2, HitsAddUp
  <2>3. ASSUME \A i \in K : g[i] = TotalConfidence(InBin(S, used[i], bins))
        PROVE  SumFunctionOnSet(g, K) = TotalConfidence(S)
    BY <1>1, <1>2, <1>3, <2>3, ConfidenceAddsUp
  <2>4. QED
    BY <2>1, <2>2, <2>3
<1>6. QED
  BY <1>5 DEF K, used

\* A bin holds the mean of the confidences in it.
LEMMA BinHolds ==
    ASSUME NEW T, AreScored(T), T # {}, NEW bins \in Nat \ {0}, NEW b \in Nat,
           \A s \in T : BinOf(Confidence(s), bins) = b
    PROVE  /\ b * (Unit * Count(T)) <= TotalConfidence(T) * bins
           /\ b # bins - 1 => TotalConfidence(T) * bins <= (b + 1) * (Unit * Count(T))
<1> DEFINE f == [s \in T |-> Confidence(s)]
           low == b * Unit
           high == (b + 1) * Unit
<1>1. IsFiniteSet(T) /\ DOMAIN f = T /\ \A s \in T : f[s] = Confidence(s) /\ f[s] \in Nat
  BY ConfidenceIs, UnitAssumption DEF AreScored, AreSamples
<1>2. low \in Int /\ high \in Int /\ bins \in Int
  BY UnitAssumption
<1>3. TotalConfidence(T) = SumFunction(f)
  BY DEF TotalConfidence
<1>4. ASSUME NEW s \in T
      PROVE  low <= f[s] * bins /\ (b # bins - 1 => f[s] * bins <= high)
  <2>1. Confidence(s) \in 0..MostConfidence
    BY ConfidenceIs DEF AreScored, AreSamples
  <2>2. /\ BinOf(Confidence(s), bins) * Unit <= Confidence(s) * bins
        /\ \/ Confidence(s) * bins <= (BinOf(Confidence(s), bins) + 1) * Unit
           \/ BinOf(Confidence(s), bins) = bins - 1
    BY <2>1, BinOfIs
  <2>3. QED
    BY <1>1, <2>2
<1> HIDE DEF f, low, high
<1>5. SumFunction(f) = SumFunctionOnSet(f, T)
  BY <1>1, SumOfFunction
<1>6. PICK z \in Int, minus \in Int : z = 0 /\ minus = -low
  BY <1>2
<1>7. \A s \in T : f[s] \in Int /\ z * f[s] <= bins * f[s] + minus
                   /\ (b # bins - 1 => bins * f[s] <= z * f[s] + high)
  <2> SUFFICES ASSUME NEW s \in T
               PROVE  f[s] \in Int /\ z * f[s] <= bins * f[s] + minus
                      /\ (b # bins - 1 => bins * f[s] <= z * f[s] + high)
    OBVIOUS
  <2>1. PICK c \in Nat : c = f[s]
    BY <1>1
  <2>2. PICK x \in Int : x = bins * c
    BY <1>2
  <2>3. low <= x /\ (b # bins - 1 => x <= high)
    <3>1. c * bins = bins * c
      OBVIOUS
    <3>2. QED
      BY <1>4, <2>1, <2>2, <3>1
  <2>4. z * c = 0
    BY <1>6
  <2>5. 0 <= x + minus /\ (b # bins - 1 => x <= 0 + high)
    BY <1>2, <1>6, <2>3
  <2>6. QED
    BY <2>1, <2>2, <2>4, <2>5
<1>8. z * SumFunctionOnSet(f, T) <= bins * SumFunctionOnSet(f, T) + Cardinality(T) * minus
  BY <1>1, <1>2, <1>7, SumWithin
<1>9. b # bins - 1 => bins * SumFunctionOnSet(f, T) <= z * SumFunctionOnSet(f, T) + Cardinality(T) * high
  BY <1>1, <1>2, <1>7, SumWithin
<1>10. PICK total \in Int, n \in Nat : total = SumFunctionOnSet(f, T) /\ n = Cardinality(T)
  <2>1. SumFunctionOnSet(f, T) \in Int
    BY <1>1, <1>7, SumIsInt
  <2>2. Cardinality(T) \in Nat
    BY <1>1, FS_CardinalityType
  <2>3. QED
    BY <2>1, <2>2
<1>11. 0 <= bins * total + n * minus /\ (b # bins - 1 => bins * total <= n * high)
  <2>1. z * total = 0
    BY <1>6
  <2>2. PICK x \in Int, y \in Int, w \in Int : x = bins * total /\ y = n * minus /\ w = n * high
    BY <1>2, <1>6
  <2>3. 0 <= x + y /\ (b # bins - 1 => x <= 0 + w)
    BY <1>8, <1>9, <1>10, <2>1, <2>2
  <2>4. QED
    BY <2>2, <2>3
<1>12. n * minus = -(b * (Unit * n)) /\ n * high = (b + 1) * (Unit * n)
  BY <1>6, UnitAssumption DEF low, high
<1>13. b * (Unit * n) <= total * bins /\ (b # bins - 1 => total * bins <= (b + 1) * (Unit * n))
  <2>1. PICK p \in Int, q \in Int, x \in Int :
            p = b * (Unit * n) /\ q = (b + 1) * (Unit * n) /\ x = bins * total
    BY UnitAssumption
  <2>2. 0 <= x + (-p) /\ (b # bins - 1 => x <= q)
    BY <1>11, <1>12, <2>1
  <2>3. total * bins = x
    BY <1>2, <2>1
  <2>4. QED
    BY <2>1, <2>2, <2>3
<1>14. QED
  BY <1>3, <1>5, <1>10, <1>13 DEF Count

\* A whole is one.
LEMMA RatioOfSame ==
    ASSUME NEW n \in Nat \ {0}
    PROVE  Ratio(n, n) = <<1, 1>>
<1> DEFINE r == Ratio(n, n)
<1>1. r = <<r[1], r[2]>> /\ r[1] \in Int /\ r[2] \in Nat \ {0} /\ r[1] * n = n * r[2]
      /\ \A k \in Factors(n, n) : r[2] <= k
  BY RatioIs
<1>2. 1 \in Factors(n, n)
  <2>1. (n * 1) % n = 0 <=> \E e \in Int : n = e * n
    <3>1. n * 1 = n
      OBVIOUS
    <3>2. QED
      BY <3>1, NoRest
  <2>2. n = 1 * n
    OBVIOUS
  <2>3. QED
    BY <2>1, <2>2 DEF Factors
<1> HIDE DEF r
<1>3. r[2] = 1
  <2>1. r[2] <= 1
    BY <1>1, <1>2
  <2>2. PICK m \in Nat \ {0} : m = r[2]
    BY <1>1
  <2>3. QED
    BY <2>1, <2>2
<1>4. r[1] = 1
  <2>1. PICK q \in Int : q = r[1] /\ q * n = n
    BY <1>1, <1>3
  <2>2. \A a \in Int : n * a > 0 => a > 0
    OBVIOUS
  <2>3. n * (2 - q) = n /\ n * q = n
    BY <2>1
  <2>4. q > 0 /\ 2 - q > 0
    BY <2>2, <2>3
  <2>5. QED
    BY <2>1, <2>4
<1>5. QED
  BY <1>1, <1>3, <1>4 DEF r

\* A mean is no more than the most that is averaged.
LEMMA RatioAtMost ==
    ASSUME NEW a \in Int, NEW u \in Nat \ {0}, NEW n \in Nat \ {0}, NEW most \in Nat,
           a <= most * n
    PROVE  LET x == Ratio(a, u * n) IN x[1] * u <= most * x[2]
<1> DEFINE x == Ratio(a, u * n)
<1>1. u * n \in Nat \ {0}
  OBVIOUS
<1>2. x[1] \in Int /\ x[2] \in Nat \ {0} /\ x[1] * (u * n) = a * x[2]
  BY <1>1, RatioIs
<1> HIDE DEF x
<1>3. PICK p \in Int, q \in Nat \ {0} : p = x[1] /\ q = x[2] /\ p * (u * n) = a * q
  BY <1>2
<1>4. a * q <= (most * n) * q
  OBVIOUS
<1>5. p * (u * n) = n * (p * u) /\ (most * n) * q = n * (most * q)
  OBVIOUS
<1>6. n * (p * u) <= n * (most * q)
  BY <1>3, <1>4, <1>5
<1>7. \A v, w \in Int : n * v <= n * w => v <= w
  OBVIOUS
<1>8. p * u <= most * q
  <2>1. p * u \in Int /\ most * q \in Int
    OBVIOUS
  <2>2. QED
    BY <1>6, <1>7, <2>1
<1>9. QED
  BY <1>3, <1>8 DEF x

\* Of every stratum: the curve has all that was scored, each in a bin that
\* holds its mean confidence.
LEMMA CurveHolds ==
    ASSUME NEW S, AreScored(S), NEW bins \in Nat \ {0}
    PROVE  LET curve == Reliability(S, bins) IN
           /\ Count(S) = SumOver(curve, "n")
           /\ \A bin \in Range(curve) :
                 /\ bin.lower[1] * bin.mean_confidence[2] <= bin.mean_confidence[1] * bin.lower[2]
                 /\ \/ bin.mean_confidence[1] * bin.upper[2] <= bin.upper[1] * bin.mean_confidence[2]
                    \/ /\ bin.upper = <<1, 1>>
                       /\ bin.mean_confidence[1] * Unit <= MostConfidence * bin.mean_confidence[2]
<1> DEFINE curve == Reliability(S, bins)
           U == BinsInUse(S, bins)
           used == InOrder(U)
           g == [i \in DOMAIN curve |-> curve[i].n]
<1>1. \A i \in DOMAIN curve :
         used[i] \in U /\ curve[i] = ReliabilityBin(InBin(S, used[i], bins), used[i], bins)
  BY BinsOfCurve
<1>2. SumOver(curve, "n") = SumFunction(g)
  BY DEF SumOver
<1>3. DOMAIN g = DOMAIN curve /\ \A i \in DOMAIN curve : g[i] = Count(InBin(S, used[i], bins))
  <2> HIDE DEF curve, used
  <2>1. QED
    BY <1>1 DEF ReliabilityBin
<1>4. Count(S) = SumOver(curve, "n")
  <2> HIDE DEF g
  <2>1. SumFunctionOnSet(g, DOMAIN curve) = Count(S)
    BY <1>3, CurveIsWhole
  <2>2. QED
    BY <1>2, <1>3, <2>1, SumOfFunction
<1>5. ASSUME NEW bin \in Range(curve)
      PROVE  /\ bin.lower[1] * bin.mean_confidence[2] <= bin.mean_confidence[1] * bin.lower[2]
             /\ \/ bin.mean_confidence[1] * bin.upper[2] <= bin.upper[1] * bin.mean_confidence[2]
                \/ /\ bin.upper = <<1, 1>>
                   /\ bin.mean_confidence[1] * Unit <= MostConfidence * bin.mean_confidence[2]
  <2>1. PICK i \in DOMAIN curve : bin = curve[i]
    BY DEF Range
  <2> DEFINE b == used[i]
             T == InBin(S, b, bins)
  <2>2. b \in U /\ bin = ReliabilityBin(T, b, bins)
    BY <1>1, <2>1
  <2>3. T \subseteq S /\ T # {} /\ b \in Nat /\ Count(T) \in Nat \ {0}
    BY <2>2, SamplesOfBin DEF AreScored
  <2>4. \A s \in T : BinOf(Confidence(s), bins) = b
    BY DEF InBin
  <2> HIDE DEF b, T, curve, used, U
  <2>5. AreScored(T)
    BY <2>3, SomeScored
  <2>6. TotalConfidence(T) \in Nat /\ TotalConfidence(T) <= MostConfidence * Count(T)
    BY <2>5, TotalConfidenceIs DEF AreScored
  <2>7. Unit * Count(T) \in Nat \ {0} /\ b + 1 \in Int /\ b \in Int
    BY <2>3, UnitAssumption
  <2>8. /\ b * (Unit * Count(T)) <= TotalConfidence(T) * bins
        /\ b # bins - 1 => TotalConfidence(T) * bins <= (b + 1) * (Unit * Count(T))
    BY <2>3, <2>4, <2>5, BinHolds
  <2> DEFINE low == Ratio(b, bins)
             high == Ratio(b + 1, bins)
             mean == Ratio(TotalConfidence(T), Unit * Count(T))
  <2>9. bin.lower = low /\ bin.upper = high /\ bin.mean_confidence = mean
    BY <2>2 DEF ReliabilityBin
  <2>10. low[1] * mean[2] <= mean[1] * low[2]
    BY <2>6, <2>7, <2>8, RatioOrder
  <2>11. ASSUME b # bins - 1
         PROVE  mean[1] * high[2] <= high[1] * mean[2]
    <3>1. PICK c \in Int : c = b + 1
      BY <2>7
    <3>2. TotalConfidence(T) * bins <= c * (Unit * Count(T)) /\ high = Ratio(c, bins)
      BY <2>8, <2>11, <3>1
    <3> HIDE DEF high
    <3>3. LET x == Ratio(TotalConfidence(T), Unit * Count(T))
              y == Ratio(c, bins)
          IN  x[1] * y[2] <= y[1] * x[2]
      BY <2>6, <2>7, <3>2, RatioOrder
    <3>4. QED
      BY <3>2, <3>3
  <2>12. ASSUME b = bins - 1
         PROVE  high = <<1, 1>> /\ mean[1] * Unit <= MostConfidence * mean[2]
    <3>1. b + 1 = bins
      BY <2>12
    <3>2. high = <<1, 1>>
      BY <3>1, RatioOfSame
    <3> DEFINE n == Count(T)
               a == TotalConfidence(T)
    <3>3. a \in Int /\ n \in Nat \ {0} /\ a <= MostConfidence * n
      BY <2>3, <2>6
    <3>4. mean = Ratio(a, Unit * n)
      OBVIOUS
    <3> HIDE DEF n, a, mean
    <3>5. LET x == Ratio(a, Unit * n) IN x[1] * Unit <= MostConfidence * x[2]
      BY <3>3, MostIs, RatioAtMost
    <3>6. QED
      BY <3>2, <3>4, <3>5
  <2> HIDE DEF low, high, mean
  <2>13. QED
    BY <2>9, <2>10, <2>11, <2>12
<1>6. QED
  BY <1>4, <1>5

\* The samples of every stratum of the last report.
LEMMA StratumOfLastReport ==
    ASSUME EvidenceInv, NEW m \in AllStrata
    PROVE  \E T, bins : bins \in Nat \ {0} /\ AreSamples(T) /\ m = Summarize(T, bins)
<1>1. published # Unreadable /\ m \in StrataOf(published.report.strata)
  BY DEF AllStrata, StrataOf
<1>2. PICK i, r, b, S :
              /\ i \in ItemFiles /\ ItemSetLoads(i) /\ IsRows(r) /\ PredictionsLoad(r, i)
              /\ b \in Nat \ {0} /\ S = Samples(i, r) /\ AreSamples(S) /\ Count(S) = Len(i)
              /\ published.report.items_sha256 = i
              /\ published.moved \/ published.report.predictions_sha256 = r
              /\ published.report.strata = Strata(S, b)
  BY <1>1, LastReport
<1>3. PICK T \in SUBSET S : m = Summarize(T, b)
  BY <1>1, <1>2, EveryStratum
<1>4. AreSamples(T)
  BY <1>2, SomeSamples
<1>5. QED
  BY <1>2, <1>3, <1>4

\* Every scored sample is in the bin that holds its confidence, 1 included; the
\* last bin also holds what the tolerance of a row's sum leaves above 1.
THEOREM BinsAreRight == Spec => []BinsHoldTheirConfidence
<1>1. EvidenceInv => BinsHoldTheirConfidence
  <2> SUFFICES ASSUME EvidenceInv, NEW m \in AllStrata
               PROVE  /\ m.n_scored = SumOver(m.reliability, "n")
                      /\ \A bin \in Range(m.reliability) :
                            /\ bin.lower[1] * bin.mean_confidence[2]
                                  <= bin.mean_confidence[1] * bin.lower[2]
                            /\ \/ bin.mean_confidence[1] * bin.upper[2]
                                     <= bin.upper[1] * bin.mean_confidence[2]
                               \/ /\ bin.upper = <<1, 1>>
                                  /\ bin.mean_confidence[1] * Unit
                                        <= MostConfidence * bin.mean_confidence[2]
    BY DEF BinsHoldTheirConfidence
  <2>1. PICK T, bins : bins \in Nat \ {0} /\ AreSamples(T) /\ m = Summarize(T, bins)
    BY StratumOfLastReport
  <2>2. AreScored(Scored(T))
    <3>1. Scored(T) \in SUBSET T
      BY DEF Scored
    <3>2. AreSamples(Scored(T))
      BY <2>1, <3>1, SomeSamples
    <3>3. QED
      BY <3>2 DEF AreScored, Scored
  <2>3. m.n_scored = Count(Scored(T)) /\ m.reliability = Reliability(Scored(T), bins)
    BY <2>1 DEF Summarize
  <2>4. QED
    BY <2>1, <2>2, <2>3, CurveHolds
<1>2. QED
  BY <1>1, EvidenceInvariant, PTL

\* The distance of two sums is at most the sum of the distances.
LEMMA GapOfSums ==
    ASSUME NEW S, IsFiniteSet(S), NEW f, NEW g, NEW d,
           \A x \in S : f[x] \in Int /\ g[x] \in Int /\ d[x] = Gap(f[x], g[x])
    PROVE  Gap(SumFunctionOnSet(f, S), SumFunctionOnSet(g, S)) <= SumFunctionOnSet(d, S)
<1>1. \A x \in S : d[x] \in Int /\ f[x] <= g[x] + d[x] /\ g[x] <= f[x] + d[x]
  BY DEF Gap
<1> DEFINE above == [x \in S |-> g[x] + d[x]]
           beyond == [x \in S |-> f[x] + d[x]]
<1>2. \A x \in S : /\ above[x] \in Int /\ above[x] = g[x] + d[x] /\ f[x] <= above[x]
                   /\ beyond[x] \in Int /\ beyond[x] = f[x] + d[x] /\ g[x] <= beyond[x]
  BY <1>1
<1> HIDE DEF above, beyond
<1>3. SumFunctionOnSet(f, S) <= SumFunctionOnSet(above, S)
  BY <1>1, <1>2, SumMonotone
<1>4. SumFunctionOnSet(above, S) = SumFunctionOnSet(g, S) + SumFunctionOnSet(d, S)
  BY <1>1, <1>2, SumOfSums
<1>5. SumFunctionOnSet(g, S) <= SumFunctionOnSet(beyond, S)
  BY <1>1, <1>2, SumMonotone
<1>6. SumFunctionOnSet(beyond, S) = SumFunctionOnSet(f, S) + SumFunctionOnSet(d, S)
  BY <1>1, <1>2, SumOfSums
<1>7. PICK a \in Int, b \in Int, c \in Int :
        a = SumFunctionOnSet(f, S) /\ b = SumFunctionOnSet(g, S) /\ c = SumFunctionOnSet(d, S)
  BY <1>1, SumIsInt
<1>8. a <= b + c /\ b <= a + c
  BY <1>3, <1>4, <1>5, <1>6, <1>7
<1>9. QED
  BY <1>7, <1>8 DEF Gap

\* The summed distance over the bins is at least that of the totals, and at
\* most one for each sample.
LEMMA CalibrationGapBounds ==
    ASSUME NEW S, AreScored(S), NEW bins \in Nat \ {0}
    PROVE  /\ Gap(Hits(S) * Unit, TotalConfidence(S)) <= CalibrationGap(S, bins)
           /\ CalibrationGap(S, bins) <= MostConfidence * Count(S)
<1> DEFINE B == 0..(bins - 1)
           key == [s \in S |-> BinOf(Confidence(s), bins)]
           hits == [b \in B |-> Hits(InBin(S, b, bins))]
           scaled == [b \in B |-> Hits(InBin(S, b, bins)) * Unit]
           total == [b \in B |-> TotalConfidence(InBin(S, b, bins))]
           count == [b \in B |-> Count(InBin(S, b, bins))]
           most == [b \in B |-> MostConfidence * Count(InBin(S, b, bins))]
           gap == [b \in B |->
                      Gap(Hits(InBin(S, b, bins)) * Unit, TotalConfidence(InBin(S, b, bins)))]
<1>1. IsFiniteSet(B)
  BY FS_Interval
<1>2. \A s \in S : key[s] \in B
  <2> SUFFICES ASSUME NEW s \in S PROVE BinOf(Confidence(s), bins) \in 0..(bins - 1)
    OBVIOUS
  <2>1. Confidence(s) \in 0..MostConfidence
    BY ConfidenceIs DEF AreScored, AreSamples
  <2>2. QED
    BY <2>1, BinOfIs
<1>3. \A b : InBin(S, b, bins) = OfKey(S, key, b)
  BY DEF InBin, OfKey
<1>4. CalibrationGap(S, bins) = SumFunction(gap) /\ DOMAIN gap = B
  BY DEF CalibrationGap
<1>5. \A b \in B : /\ hits[b] = Hits(InBin(S, b, bins)) /\ scaled[b] = Unit * hits[b]
                   /\ total[b] = TotalConfidence(InBin(S, b, bins))
                   /\ count[b] = Count(InBin(S, b, bins)) /\ most[b] = MostConfidence * count[b]
                   /\ gap[b] = Gap(scaled[b], total[b])
                   /\ hits[b] \in Nat /\ total[b] \in Nat /\ count[b] \in Nat
                   /\ hits[b] <= count[b] /\ total[b] <= MostConfidence * count[b]
  <2> SUFFICES ASSUME NEW b \in B
               PROVE  /\ hits[b] = Hits(InBin(S, b, bins)) /\ scaled[b] = Unit * hits[b]
                      /\ total[b] = TotalConfidence(InBin(S, b, bins))
                      /\ count[b] = Count(InBin(S, b, bins)) /\ most[b] = MostConfidence * count[b]
                      /\ gap[b] = Gap(scaled[b], total[b])
                      /\ hits[b] \in Nat /\ total[b] \in Nat /\ count[b] \in Nat
                      /\ hits[b] <= count[b] /\ total[b] <= MostConfidence * count[b]
    OBVIOUS
  <2>1. InBin(S, b, bins) \in SUBSET S
    BY DEF InBin
  <2>2. AreSamples(InBin(S, b, bins)) /\ \A s \in InBin(S, b, bins) : s.probs # None
    BY <2>1, SomeScored DEF AreScored
  <2>3. /\ Hits(InBin(S, b, bins)) \in Nat /\ TotalConfidence(InBin(S, b, bins)) \in Nat
        /\ Count(InBin(S, b, bins)) \in Nat /\ Hits(InBin(S, b, bins)) <= Count(InBin(S, b, bins))
        /\ TotalConfidence(InBin(S, b, bins)) <= MostConfidence * Count(InBin(S, b, bins))
    BY <2>2, HitsAre, TotalConfidenceIs, SomeSamples
  <2>4. Hits(InBin(S, b, bins)) * Unit = Unit * Hits(InBin(S, b, bins))
    BY <2>3, MostIs
  <2>5. QED
    BY <2>3, <2>4
<1> HIDE DEF B, key, hits, scaled, total, count, most, gap
<1>6. /\ SumFunctionOnSet(hits, B) = Hits(S)
      /\ SumFunctionOnSet(total, B) = TotalConfidence(S)
      /\ SumFunctionOnSet(count, B) = Count(S)
  <2>1. SumFunctionOnSet(hits, B) = Hits(S)
    BY <1>1, <1>2, <1>3, <1>5, HitsAddUp
  <2>2. SumFunctionOnSet(total, B) = TotalConfidence(S)
    BY <1>1, <1>2, <1>3, <1>5, ConfidenceAddsUp
  <2>3. SumFunctionOnSet(count, B) = Count(S)
    BY <1>1, <1>2, <1>3, <1>5, CountOfParts DEF Count, AreScored, AreSamples
  <2>4. QED
    BY <2>1, <2>2, <2>3
<1>7. SumFunctionOnSet(scaled, B) = Hits(S) * Unit
  <2>1. \A b \in B : hits[b] \in Int /\ scaled[b] = Unit * hits[b]
    BY <1>5
  <2>2. SumFunctionOnSet(scaled, B) = Unit * SumFunctionOnSet(hits, B)
    BY <1>1, <2>1, MostIs, SumScaled
  <2>3. Hits(S) \in Nat
    BY HitsAre DEF AreScored
  <2>4. QED
    BY <1>6, <2>2, <2>3, MostIs
<1>8. SumFunctionOnSet(most, B) = MostConfidence * Count(S)
  <2>1. \A b \in B : count[b] \in Int /\ most[b] = MostConfidence * count[b]
    BY <1>5
  <2>2. SumFunctionOnSet(most, B) = MostConfidence * SumFunctionOnSet(count, B)
    BY <1>1, <2>1, MostIs, SumScaled
  <2>3. QED
    BY <1>6, <2>2
<1>9. \A b \in B : /\ scaled[b] \in Int /\ total[b] \in Int /\ most[b] \in Int /\ gap[b] \in Int
                   /\ gap[b] <= most[b]
  <2> SUFFICES ASSUME NEW b \in B
               PROVE  /\ scaled[b] \in Int /\ total[b] \in Int /\ most[b] \in Int /\ gap[b] \in Int
                      /\ gap[b] <= most[b]
    OBVIOUS
  <2>1. scaled[b] \in Nat /\ most[b] \in Nat /\ total[b] \in Nat /\ total[b] <= most[b]
    BY <1>5, MostIs
  <2>2. scaled[b] <= most[b]
    <3>1. \A x, y, u, w \in Nat : x <= y /\ u <= w => u * x <= w * y
      OBVIOUS
    <3>2. QED
      BY <1>5, <3>1, MostIs
  <2>3. gap[b] = Gap(scaled[b], total[b])
    BY <1>5
  <2>4. QED
    BY <2>1, <2>2, <2>3 DEF Gap
<1>10. SumFunctionOnSet(gap, B) <= SumFunctionOnSet(most, B)
  BY <1>1, <1>9, SumMonotone
<1>11. Gap(SumFunctionOnSet(scaled, B), SumFunctionOnSet(total, B)) <= SumFunctionOnSet(gap, B)
  BY <1>1, <1>5, <1>9, GapOfSums
<1>12. CalibrationGap(S, bins) = SumFunctionOnSet(gap, B)
  BY <1>4, SumOfFunction
<1>13. QED
  BY <1>6, <1>7, <1>8, <1>10, <1>11, <1>12

\* From the curve the hits and the confidence can be had back.
LEMMA CurveGivesTotals ==
    ASSUME NEW S, AreScored(S), NEW bins \in Nat \ {0}
    PROVE  LET curve == Reliability(S, bins) IN
           /\ SumFunction([i \in DOMAIN curve |->
                  (curve[i].accuracy[1] * curve[i].n) \div curve[i].accuracy[2]]) = Hits(S)
           /\ SumFunction([i \in DOMAIN curve |->
                  (curve[i].mean_confidence[1] * Unit * curve[i].n)
                      \div curve[i].mean_confidence[2]]) = TotalConfidence(S)
<1> DEFINE curve == Reliability(S, bins)
           U == BinsInUse(S, bins)
           used == InOrder(U)
           f == [i \in DOMAIN curve |->
                  (curve[i].accuracy[1] * curve[i].n) \div curve[i].accuracy[2]]
           g == [i \in DOMAIN curve |->
                  (curve[i].mean_confidence[1] * Unit * curve[i].n)
                      \div curve[i].mean_confidence[2]]
<1>1. \A i \in DOMAIN curve :
         used[i] \in U /\ curve[i] = ReliabilityBin(InBin(S, used[i], bins), used[i], bins)
  BY BinsOfCurve
<1>2. DOMAIN f = DOMAIN curve /\ DOMAIN g = DOMAIN curve
  OBVIOUS
<1>3. ASSUME NEW i \in DOMAIN curve
      PROVE  f[i] = Hits(InBin(S, used[i], bins)) /\ g[i] = TotalConfidence(InBin(S, used[i], bins))
  <2> DEFINE b == used[i]
             T == InBin(S, b, bins)
             bin == curve[i]
  <2>1. /\ f[i] = (bin.accuracy[1] * bin.n) \div bin.accuracy[2]
        /\ g[i] = (bin.mean_confidence[1] * Unit * bin.n) \div bin.mean_confidence[2]
    OBVIOUS
  <2>2. b \in U /\ bin = ReliabilityBin(T, b, bins)
    BY <1>1
  <2>3. T \in SUBSET S /\ Count(T) \in Nat \ {0} /\ AreSamples(T) /\ \A s \in T : s.probs # None
    BY <2>2, SamplesOfBin DEF AreScored
  <2> HIDE DEF b, T, bin, f, g, curve, used, U
  <2>4. Hits(T) \in Nat /\ TotalConfidence(T) \in Nat
    BY <2>3, HitsAre, TotalConfidenceIs
  <2>5. PICK n \in Nat \ {0}, h \in Int, c \in Int :
            n = Count(T) /\ h = Hits(T) /\ c = TotalConfidence(T)
    BY <2>3, <2>4
  <2>6. bin.n = n /\ bin.accuracy = Ratio(h, n) /\ bin.mean_confidence = Ratio(c, Unit * n)
    BY <2>2, <2>5 DEF ReliabilityBin
  <2>7. f[i] = h
    <3> DEFINE a == Ratio(h, n)
    <3>1. a[1] \in Int /\ a[2] \in Nat \ {0} /\ a[1] * n = h * a[2]
      BY RatioIs
    <3> HIDE DEF a
    <3>2. PICK q \in Nat \ {0} : q = a[2]
      BY <3>1
    <3>3. (h * q) \div q = h
      BY Divides
    <3>4. f[i] = (a[1] * n) \div a[2]
      BY <2>1, <2>6 DEF a
    <3>5. QED
      BY <3>1, <3>2, <3>3, <3>4
  <2>8. g[i] = c
    <3> DEFINE a == Ratio(c, Unit * n)
    <3>0. PICK m \in Nat \ {0} : m = Unit * n
      BY UnitAssumption
    <3>1. a[1] \in Int /\ a[2] \in Nat \ {0} /\ a[1] * m = c * a[2]
      BY <3>0, RatioIs
    <3> HIDE DEF a
    <3>2. PICK q \in Nat \ {0} : q = a[2]
      BY <3>1
    <3>3. (c * q) \div q = c
      BY Divides
    <3>4. g[i] = (a[1] * Unit * n) \div a[2]
      BY <2>1, <2>6 DEF a
    <3>5. a[1] * Unit * n = a[1] * m
      BY <3>0, <3>1, UnitAssumption
    <3>6. QED
      BY <3>1, <3>2, <3>3, <3>4, <3>5
  <2>9. QED
    BY <2>5, <2>7, <2>8 DEF T, b
<1> HIDE DEF f, g
<1>4. SumFunctionOnSet(f, DOMAIN curve) = Hits(S)
      /\ SumFunctionOnSet(g, DOMAIN curve) = TotalConfidence(S)
  BY <1>3, CurveIsWhole
<1>5. SumFunction(f) = Hits(S) /\ SumFunction(g) = TotalConfidence(S)
  BY <1>2, <1>4, SumOfFunction
<1>6. QED
  BY <1>5 DEF f, g

\* The ECE is at least the overall distance of accuracy from confidence.
LEMMA EceBounds ==
    ASSUME NEW S, AreScored(S), NEW bins \in Nat \ {0}, Ece(S, bins) # <<>>
    PROVE  LET ece == Ece(S, bins) IN
           /\ Gap(Hits(S) * Unit, TotalConfidence(S)) * ece[2] <= ece[1] * Unit * Count(S)
           /\ ece[1] * Unit <= MostConfidence * ece[2]
<1> DEFINE ece == Ece(S, bins)
<1>1. Count(S) \in Nat /\ Hits(S) \in Nat /\ TotalConfidence(S) \in Nat /\ CalibrationGap(S, bins) \in Nat
  BY SomeSamples, HitsAre, TotalConfidenceIs, CalibrationGapIs DEF AreScored
<1>2. ece = Ratio(CalibrationGap(S, bins), Unit * Count(S))
  BY DEF Ece
<1>3. Unit * Count(S) # 0
  BY <1>2 DEF Ratio
<1>4. PICK m \in Nat \ {0}, c \in Int, n \in Nat :
        m = Unit * Count(S) /\ c = CalibrationGap(S, bins) /\ n = Count(S)
  BY <1>1, <1>3, UnitAssumption
<1>5. ece[1] \in Int /\ ece[2] \in Nat \ {0} /\ ece[1] * m = c * ece[2]
  <2>1. ece = Ratio(c, m)
    BY <1>2, <1>4
  <2> HIDE DEF ece
  <2>2. QED
    BY <2>1, RatioIs
<1> HIDE DEF ece
<1>6. PICK p \in Int, q \in Nat \ {0} : p = ece[1] /\ q = ece[2] /\ p * m = c * q
  BY <1>5
<1>7. PICK d \in Nat : d = Gap(Hits(S) * Unit, TotalConfidence(S))
  <2>1. PICK a \in Int, b \in Int : a = Hits(S) * Unit /\ b = TotalConfidence(S)
    BY <1>1, UnitAssumption
  <2>2. Gap(a, b) \in Nat
    BY NoGap
  <2>3. QED
    BY <2>1, <2>2
<1>8. d <= c /\ c <= MostConfidence * n
  BY <1>4, <1>7, CalibrationGapBounds
<1>9. d * q <= c * q
  BY <1>8
<1>10. p * Unit * n = p * m
  BY <1>4, UnitAssumption
<1>11. p * Unit <= MostConfidence * q
  <2>1. n \in Nat \ {0}
    BY <1>3, <1>4, UnitAssumption
  <2>2. LET x == Ratio(c, Unit * n) IN x[1] * Unit <= MostConfidence * x[2]
    BY <1>8, <2>1, MostIs, RatioAtMost
  <2>3. ece = Ratio(c, Unit * n)
    BY <1>2, <1>4 DEF ece
  <2>4. QED
    BY <1>6, <2>2, <2>3
<1>12. QED
  BY <1>4, <1>6, <1>7, <1>9, <1>10, <1>11 DEF ece

\* The ECE of a report is normalised once: between the overall distance of
\* accuracy from mean confidence and 1 (and the tolerance of a row's sum),
\* whatever the number of bins.
THEOREM EceIsBounded == Spec => []EceBoundsOverallGap
<1>1. EvidenceInv => EceBoundsOverallGap
  <2> SUFFICES ASSUME EvidenceInv, NEW m \in AllStrata, m.ece # <<>>
               PROVE
        LET curve == m.reliability
            hits == SumFunction([i \in DOMAIN curve |->
                        (curve[i].accuracy[1] * curve[i].n) \div curve[i].accuracy[2]])
            confidence == SumFunction([i \in DOMAIN curve |->
                              (curve[i].mean_confidence[1] * Unit * curve[i].n)
                                  \div curve[i].mean_confidence[2]])
        IN /\ Gap(hits * Unit, confidence) * m.ece[2] <= m.ece[1] * Unit * m.n_scored
           /\ m.ece[1] * Unit <= MostConfidence * m.ece[2]
    BY DEF EceBoundsOverallGap
  <2>1. PICK T, bins : bins \in Nat \ {0} /\ AreSamples(T) /\ m = Summarize(T, bins)
    BY StratumOfLastReport
  <2> DEFINE S == Scored(T)
             curve == m.reliability
             hits == SumFunction([i \in DOMAIN curve |->
                         (curve[i].accuracy[1] * curve[i].n) \div curve[i].accuracy[2]])
             confidence == SumFunction([i \in DOMAIN curve |->
                               (curve[i].mean_confidence[1] * Unit * curve[i].n)
                                   \div curve[i].mean_confidence[2]])
  <2>2. AreScored(S)
    <3>1. S \in SUBSET T
      BY DEF Scored
    <3> HIDE DEF S
    <3>2. AreSamples(S)
      BY <2>1, <3>1, SomeSamples
    <3>3. QED
      BY <3>2 DEF AreScored, Scored, S
  <2>3. m.n_scored = Count(S) /\ curve = Reliability(S, bins) /\ m.ece = Ece(S, bins)
    BY <2>1 DEF Summarize
  <2> HIDE DEF S
  <2>4. hits = Hits(S) /\ confidence = TotalConfidence(S)
    BY <2>1, <2>2, <2>3, CurveGivesTotals
  <2> HIDE DEF hits, confidence, curve
  <2>5. /\ Gap(Hits(S) * Unit, TotalConfidence(S)) * m.ece[2] <= m.ece[1] * Unit * Count(S)
        /\ m.ece[1] * Unit <= MostConfidence * m.ece[2]
    BY <2>1, <2>2, <2>3, EceBounds
  <2>6. Gap(hits * Unit, confidence) * m.ece[2] <= m.ece[1] * Unit * m.n_scored
    BY <2>3, <2>4, <2>5
  <2>7. QED
    BY <2>5, <2>6 DEF hits, confidence, curve
<1>2. QED
  BY <1>1, EvidenceInvariant, PTL
=============================================================================
