\* An endpoint that answers, refuses the array, or fails; fast or slow; two runs
\* that write one file, with blocks longer than their requests.
SPECIFICATION BenchSpec
CONSTANTS
    p1 = p1
    p2 = p2
    Calls <- MCCalls
    Batches <- MCBatches
    Statuses = {0, 404}
    ChoiceLists <- MCChoiceLists
    NoChoices = NoChoices
    NotJson = NotJson
    Usages = {3}
    NoIndex = NoIndex
    NotAnIndex = NotAnIndex
    Repeats = 2
    Prompts <- MCPrompts
    Durations = {1, 4}
    Overheads = {1}
    MaxOverhead = 1
    MaxRuns = 2
    NoResult = NoResult
INVARIANTS ReportIsWhole BatchedArmIsAccountedFor
CHECK_DEADLOCK FALSE
