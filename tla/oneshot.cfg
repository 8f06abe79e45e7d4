SPECIFICATION FairSpec
CONSTANTS
    Call = {k1, k2, k3}
    Static = {}
    Exec = {command}
    N = 2
    Dispatch = {1, 2}
INVARIANTS
    TypeOK
    ServesAtMost
    CounterIsExact
    OneExit
    CountedReadsFirst
PROPERTIES
    KeepsSafePromise
    EndsItself
