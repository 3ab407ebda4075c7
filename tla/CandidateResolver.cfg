CONSTANTS
    n1 = n1
    n2 = n2
    n3 = n3
    None = None
    Nodes = {n1, n2, n3}
    Resolvers = {n3}
    Requests = {1, 2}
    Quorums <- MCQuorums
    MaxCrashes = 1
SPECIFICATION FairSpec
INVARIANTS
    AwaitersHaveTask
    IndexedIsReadable
    VotedCanServe
PROPERTIES
    NotarizedIsResolved
CHECK_DEADLOCK FALSE
