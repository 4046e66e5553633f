\* Two concurrent requests while the endpoint may be redeployed.
SPECIFICATION FairSpec
CONSTANTS
    MaxLetterSlots = 3
    MaxChoiceOptions = 4
    Requests = {r1, r2}
    r1 = r1
    r2 = r2
    pa = pa
    pb = pb
    Bodies <- MCBodies
    Vocabs <- MCVocabs
    NotCached = NotCached
    MaxPromptTokens = 2
    PromptTokens = {0, 7}
    NoResponse = NoResponse
    Redeploys = TRUE
INVARIANTS NoPanic FirstFaultWins
PROPERTIES ImplementsSystemOneService EveryRequestAnswered
CHECK_DEADLOCK FALSE
