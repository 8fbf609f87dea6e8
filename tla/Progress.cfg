SPECIFICATION FairSuite
CONSTANTS
    api = api
    worker = worker
    old = old
    blank = blank
    nothing = nothing
    Instances = {api, worker, old}
    Build <- MCBuild
    NoOne = NoOne
    MaxFaults = 3
INVARIANTS
    IInv
PROPERTIES
    TasksServe
    NobodyWaitsForEver
\* Every task serves in the end, every call is made once.
CHECK_DEADLOCK FALSE
