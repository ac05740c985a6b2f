CONSTANTS
    t1 = t1
    t2 = t2
    Threads = {t1, t2}
    Empty = {2}
    MaxTokens = 3
    MaxSignals = 3
    MaxDepth = 2
SPECIFICATION Spec
INVARIANT TypeOK
PROPERTIES FansOut DispatchEnds
