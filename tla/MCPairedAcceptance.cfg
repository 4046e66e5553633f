\* Two acceptances and two dates; drivers may be skipped, refused or killed, or
\* lose replies (LossesApart says when).
SPECIFICATION AcceptSpec
CONSTANTS
    Drivers = {d1, d2}
    d1 = d1
    d2 = d2
    Jobs <- MCJobs
    MaxSecond = 1
    MaxSilences = 2
    MaxKills = 1
    OneRunPerSecond = TRUE
    Mixed = Mixed
    Skips = {FALSE, TRUE}
    Allows = {FALSE, TRUE}
    NoDate = NoDate
    NoAnswer = NoAnswer
INVARIANTS CompareLikeWithLike
CONSTRAINT LossesApart
SYMMETRY DriverSymmetry
CHECK_DEADLOCK FALSE
