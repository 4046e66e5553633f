\* Two fair tasks that share texts, against each of the 81 deployments when it
\* is stable and reliable, and against five that replace one another, two of
\* them reliable.
SPECIFICATION FairSpec
CONSTANTS
    x1 = x1  none = none  empty = empty
    v1 = v1  v2 = v2  t1 = t1  t2 = t2
    Tasks = {t1, t2}
    Texts = {x1, empty}
    Empty = empty
    Jobs <- MCJobs
    Vocabs = {v1, v2}
    NotCached = none
    NoTokens = NoTokens
    BaseUrl <- VersionedBase
    Deployments <- MCDeployments
    Redeploys <- MCRedeploys
INVARIANTS MemoSpeaks NoPanic UsableEncodings
PROPERTIES SpokenDialectIsFound ImplementsTokenService EveryPrefetchEnds
