\* Three kinds of items, every translation of three labels, every loss; all of them or the first two.
SPECIFICATION Spec
CONSTANTS
    InputSets <- MCInputSets
    Limits = {0, 2}
    EnLabels = {1, 2, 3}
    Losses <- MCLosses
    MaxFinals = 2
    NoSet = NoSet
INVARIANTS SlotsDoNotDrift DropsAreTheUnusable
CHECK_DEADLOCK FALSE
