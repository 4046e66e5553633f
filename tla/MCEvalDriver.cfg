\* Two drivers of one-key sets; replies are lost or late, a driver is killed.
SPECIFICATION Spec
CONSTANTS
    Drivers = {d1, d2}
    d1 = d1
    d2 = d2
    Jobs <- MCJobs
    MaxSecond = 1
    MaxSilences = 2
    MaxKills = 1
    OneRunPerSecond = TRUE
    Mixed = Mixed
INVARIANTS ExitCodeTellsCoverage MetaSealsAnswers UsageCountsKeptAnswers
SYMMETRY DriverSymmetry
CHECK_DEADLOCK FALSE
