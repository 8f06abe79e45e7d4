SPECIFICATION Spec
CONSTANTS
    Call = {}
    Static = {secret}
    Exec = {}
    N = 1
    Dispatch = {1}
INVARIANTS
    AllPathsWipe
