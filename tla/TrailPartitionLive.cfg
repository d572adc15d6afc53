\* Liveness of the scheduled command: two tenants, one session, one process.
CONSTANTS
    Orgs = {o1, o2}
    Txns = {t1}
    Contents = {c}
    MaxSeq = 1
    MaxAppends = 1
    NoTxn = none
    Jobs = {k1}
    WritesDuringMaintenance = FALSE
    Migrating = FALSE

SPECIFICATION PartFairSpec

PROPERTIES
    DefaultDrains
