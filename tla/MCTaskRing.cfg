SPECIFICATION FairSpec
CONSTANTS
    Owner = owner
    Thieves = {t1, t2}
    Size = 4
    MaxPushed = 6
    NoTask = NoTask
INVARIANTS
    OnceAndInOrder
    NothingIsLost
PROPERTIES
    EveryTaskIsTaken
