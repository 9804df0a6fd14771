\* One file that may change, one protected, and a path that stands for both; two branches,
\* two edits.
SPECIFICATION ModSpec
CONSTANTS
    skill = skill
    risk = risk
    dot = dot
    auto = auto
    selfA = selfA
    selfB = selfB
    p1 = p1
    p2 = p2
    NoRow = NoRow
    Files <- MCFiles
    Pathspecs <- MCPathspecs
    Matches <- MCMatches
    Protected <- MCProtected
    FlagLike <- MCFlagLike
    Branches <- MCBranches
    Rows <- MCRows
    Filed <- MCFiled
    MaxEdits = 2
PROPERTIES ReviewHolds
SYMMETRY Symmetry
CHECK_DEADLOCK FALSE
