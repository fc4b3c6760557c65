\* One job whose consent is withdrawn while a worker runs it.
CONSTANTS
    Jobs = {j1}
    Modal = {}
    Consented = {j1}
    Workers = {w1}
    MaxAttempts = 2
    NoJob = NoJob
SPECIFICATION Spec
INVARIANT AttemptRowsClose
CHECK_DEADLOCK FALSE
