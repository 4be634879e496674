CONSTANTS
    Handlers = {h1}
    NoHandler = NoHandler
    Senders = {s1, s2}
    Disc = Disc
    IO = IO
    realOf <- MCOwnReal
SPECIFICATION Spec
INVARIANT CountKept
CHECK_DEADLOCK FALSE
