CONSTANTS
    Msgs = {m1, m2}
    NoMsg = NoMsg
    MsgLen = 2
    SockCap = 1
    PipeCap = 3
SPECIFICATION FairSpec
PROPERTY Driven
CHECK_DEADLOCK FALSE
