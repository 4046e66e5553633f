\* Every encoding of three letters and every spelling of the mode; a coarse unit,
\* so that rounding collapses and reorders slots.
SPECIFICATION ServerSpec
CONSTANTS
    MaxLetterSlots = 3
    MaxChoiceOptions = 4
    PromptTail = tail
    tail = tail
    PromptTailIds <- MCTailIds
    RawModes <- MCRawModes
    Encodings <- MCEncodings
    Unit = 20
    none = none
    Absent = none
    MaxSlots = 5
    MaxMass = 6
    Readouts <- MCReadouts
INVARIANTS LettersModeCoversRenderer AcceptedIffReadable
           IsDistribution PublishedIsNearReadout ChoiceIsNearBest
CHECK_DEADLOCK FALSE
