\* Two workers race for one Modal training job through three attempts.
CONSTANTS
    Jobs = {j1}
    Modal = {j1}
    Consented = {j1}
    Workers = {w1, w2}
    MaxAttempts = 3
    NoJob = NoJob
SPECIFICATION Spec
SYMMETRY WorkerSymmetry
INVARIANTS
    TypeOK
    OneAuthority
    AttemptRowsFollowJob
    PublishedOnce
    RefundedNeverPublishes
    TerminalEventTruthful
    ProviderCallsTruthful
PROPERTIES
    TerminalIsFinal
    ImplementsLifecycle
CHECK_DEADLOCK FALSE
