\* One account with one object and one copy that may be catalogued early or late.
CONSTANTS
    Users = {u1}
    Objects = {o1}
    Owner <- OneOwner
    Backups = {b1}
    Runners = {r1, r2}
    HoldKeys = {k1}
    Holdable = {o1}
    BackupMaxDays = 1
    TombstoneDays = 2
    HoldMaxDays = 2
    AuditDays = 2
    Horizon = 4
    NoBackup = NoBackup
SPECIFICATION LifSpec
SYMMETRY RunnerSymmetry
INVARIANTS
    LifTypeOK
    NoResurrection
    BackupCompleteTruthful
    DeletedCopyIsGone
    ReceiptTruthful
PROPERTIES
    TombstoneOutlivesCopies
    EarlierHoldBlocks
