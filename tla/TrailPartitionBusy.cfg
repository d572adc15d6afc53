\* Tenants keep writing while ensure_trail_partitions re-homes their rows.
CONSTANTS
    Orgs = {o1}
    Txns = {t1}
    Contents = {c}
    MaxSeq = 2
    MaxAppends = 1
    NoTxn = none
    Jobs = {k1}
    WritesDuringMaintenance = TRUE
    Migrating = FALSE

SPECIFICATION PartSpec

INVARIANTS
    NoRowLost
