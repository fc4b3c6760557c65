\* A legal hold is recorded between the snapshot of a deletion and its locks.
CONSTANTS
    Users = {u1}
    Objects = {}
    Owner <- OneOwner
    Backups = {}
    Runners = {}
    HoldKeys = {k1}
    Holdable = {u1}
    BackupMaxDays = 1
    TombstoneDays = 2
    HoldMaxDays = 1
    AuditDays = 2
    Horizon = 3
    NoBackup = NoBackup
SPECIFICATION LifFairSpec
PROPERTY NoPurgeUnderHold
