\* Two jobs that make no provider call share two workers, each with two attempts.
CONSTANTS
    Jobs = {j1, j2}
    Modal = {}
    Consented = {}
    Workers = {w1, w2}
    MaxAttempts = 2
    NoJob = NoJob
SPECIFICATION Spec
SYMMETRY WorkerSymmetry
INVARIANTS
    JobsApart
CHECK_DEADLOCK FALSE
