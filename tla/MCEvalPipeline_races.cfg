\* Two processes, files replaced and a report edited meanwhile.
SPECIFICATION Spec
CONSTANTS
    MaxLetterSlots = 3
    MaxChoiceOptions = 4
    Unit = 4
    SumTolerance = 1
    RequiredCategories = {"c1"}
    None = None
    Unreadable = Unreadable
    Jobs = {j1, j2}
    ItemFiles <- RacesItems
    PredictionFiles <- RacesRows
    Replacements <- RacesReplacements
    AnswerFiles <- RacesAnswers
    Manifest <- GoodItems
    Pinning = {FALSE, TRUE}
    Bins = {3}
    Tolerances = {0, 1}
    Edited <- MCEdited
    MaxChanges = 1
    MaxCommands = 3
INVARIANTS VerifiedMeansReproducible HonestReportsVerify PublishedNumbersFollow PinnedRunsScoreThePinnedSet
PROPERTY MarkdownFollowsReport
SYMMETRY JobSymmetry
CHECK_DEADLOCK FALSE
