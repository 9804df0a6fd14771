\* Two proposals for two strategies, a web thread beside the chat, three messages, a crash.
SPECIFICATION Spec
CONSTANTS
    p1 = p1
    p2 = p2
    h1 = h1
    s1 = s1
    s2 = s2
    v1 = v1
    v2 = v2
    comms = comms
    NoVersion = NoVersion
    Proposals <- MCProposals
    Strategies <- MCStrategies
    Versions <- MCVersions
    Payloads <- MCPayloads
    Handlers <- MCHandlers
    ReadLimit = 2
    MaxMessages = 3
    MaxCrashes = 1
INVARIANTS OneLineage AppliedIffPublished NoCommandLost
PROPERTIES DecisionFinal ApprovalTakesEffect
CHECK_DEADLOCK FALSE
