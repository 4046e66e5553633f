\* Two concurrent calls, every order and labelling of up to three choices.
SPECIFICATION Spec
CONSTANTS
    Calls = {c1, c2}
    c1 = c1
    c2 = c2
    p1 = p1
    p2 = p2
    p3 = p3
    Batches <- MCBatches
    Statuses = {0, 400, 429}
    ChoiceLists <- MCWire
    NoChoices = NoChoices
    NotJson = NotJson
    Usages = {0, 3}
    NoIndex = NoIndex
    NotAnIndex = NotAnIndex
INVARIANTS AlignedOrRefused UsageConserved AnsweredInFull
CHECK_DEADLOCK FALSE
PROPERTY ImplementsReadoutService
