SPECIFICATION FairSpec
CONSTANTS
    FlipAfter = 2
    MaxStreak = 2
    ChainChecked = TRUE
    t1 = t1
    Attempts = {t1}
    a1 = a1
    Admissions = {a1}
INVARIANT TypeOK
INVARIANT WrongChainIsOut
 
PROPERTY DeadLeaves
PROPERTY GoodReturns
