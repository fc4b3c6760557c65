\* An account is deleted between the snapshot of a restore check and its locks.
CONSTANTS
    Users = {u1}
    Objects = {}
    Owner <- OneOwner
    Backups = {b1}
    Runners = {}
    HoldKeys = {k1}
    Holdable = {}
    BackupMaxDays = 1
    TombstoneDays = 2
    HoldMaxDays = 1
    AuditDays = 2
    Horizon = 3
    NoBackup = NoBackup
SPECIFICATION LifFairSpec
PROPERTY EligibleVerdictCurrent
