\* The code's unit, 2 to 26 equally likely slots.
SPECIFICATION AnswerSpec
CONSTANTS
    Unit = 1000000
    none = none
    Absent = none
    MaxSlots = 26
    MaxMass = 1
    Readouts <- FlatReadouts
INVARIANT AllEqualNamesFirst
CHECK_DEADLOCK FALSE
