SPECIFICATION FairSpec
CONSTANTS
    Callbacks = {1}
    MaxTime = 2
    MaxSubs = 2
    MaxStarts = 1
PROPERTY EventsFire
CHECK_DEADLOCK FALSE
