\* Two experiments of one strategy, research beside them, two spellings, three proposals, a crash.
SPECIFICATION Spec
CONSTANTS
    squeeze = squeeze
    Squeeze = Squeeze
    e1 = e1
    e2 = e2
    Unusable = Unusable
    NoExperiment = NoExperiment
    Names <- MCNames
    Key <- MCKey
    Experiments <- MCExperiments
    Challenger <- MCChallenger
    PollSec = 1
    MaxCandidates = 2
    Cooldown = 1
    RecentLimit = 1
    MaxTime = 1
    MaxProposals = 3
    MaxCrashes = 1
INVARIANTS AskedOnce CooldownHeld
SYMMETRY Symmetry
CHECK_DEADLOCK FALSE
