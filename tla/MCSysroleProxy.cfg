\* Two requests on each of two connections: every way a reply ends.
SPECIFICATION FairSpec
CONSTANTS
    Clients = {c1, c2}
    c1 = c1
    c2 = c2
    Bodies <- MCBodies
    MaxRequests = 2
    MaxChunks = 1
    Unlucky = {c2}
INVARIANTS AcceptedUpstream TruncationIsNotAnAnswer
PROPERTY EveryReplyEnds
CHECK_DEADLOCK FALSE
