SPECIFICATION FairSpec
CONSTANTS
    MaxTotal = 3
    MaxTasks = 2
    ChanSize = 2
    MaxBooks = 1
INVARIANTS RunConsistent ShadowInStep CorrectEngineScores
PROPERTY RunEnds
