\* Two Modal jobs of one user, each requested with one of two bodies, compete for one active
\* slot and one daily credit, before and after midnight.
CONSTANTS
    u1 = u1
    k1 = k1
    k2 = k2
    Keys = {k1, k2}
    Users = {u1}
    Owner <- OneOwner
    Modal = {k1, k2}
    Gated = {k1}
    Bodies = {b1, b2}
    Handlers = {r1, r2}
    MaxActive = 1
    DailyLimit = 1
    MaxDay = 1
    NoKey = NoKey
    NoBody = NoBody
SPECIFICATION Spec
SYMMETRY RequestSymmetry
INVARIANTS
    TypeOK
    QuotaKept
    WithdrawalStopsWork
    LedgerBalances
PROPERTIES
    RequestBound
