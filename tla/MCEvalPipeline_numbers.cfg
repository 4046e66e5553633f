\* The numbers, over many prediction files, and one edit of a report.
SPECIFICATION Spec
CONSTANTS
    MaxLetterSlots = 3
    MaxChoiceOptions = 4
    Unit = 4
    SumTolerance = 1
    RequiredCategories = {"c1"}
    None = None
    Unreadable = Unreadable
    Jobs = {j1}
    ItemFiles <- NumbersItems
    PredictionFiles <- GoodRows
    Replacements = {}
    AnswerFiles <- NumbersAnswers
    Manifest <- GoodItems
    Pinning = {FALSE}
    Bins = {1, 3}
    Tolerances = {0}
    Edited <- NoEdits
    MaxChanges = 1
    MaxCommands = 2
INVARIANTS CoverageIsNotHidden EceBoundsOverallGap BinsHoldTheirConfidence RowOrderDoesNotMatter ImportKeepsTheAnswers
CHECK_DEADLOCK FALSE
