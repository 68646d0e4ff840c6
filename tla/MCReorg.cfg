SPECIFICATION HabitFairSpec
CONSTANTS
    g = g a1 = a1 a2 = a2 b1 = b1 b2 = b2 b3 = b3 c2 = c2
    None = None
    Block = {g, a1, a2, b1, b2, b3, c2}
    Genesis = g
    Prev <- BroadPrev
    Anc <- BroadAnc
    Height <- BroadHeight
    ChainWork <- BroadHeight
    Address <- BroadAddress
    Acceptable = {g, a1, a2, b1, b2, b3}
    Connectable = {g, a1, b1, b2, b3}
    KeepBlocks = 1
    MinimumChainWork = 1
    MinSequenceId <- MinusTwo
    MaxSequenceId = 6
    Commands = {"prune"}
    Habits <- PruningOrNot
INVARIANTS CheckBlockIndex ArrivalsKeepCandidates GoalStays ArrivalsKeepBest
PROPERTIES CandidateKeysStable CallsEnd BestGetsActivated
CHECK_DEADLOCK FALSE
