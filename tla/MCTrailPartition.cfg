\* One tenant, two sessions, two commands or migrations at once, from a flat
\* table; the tenant does not commit while its own rows move.
CONSTANTS
    Orgs = {o1}
    Txns = {t1, t2}
    Contents = {c}
    MaxSeq = 2
    MaxAppends = 1
    NoTxn = none
    Jobs = {k1, k2}
    WritesDuringMaintenance = FALSE
    Migrating = TRUE

SPECIFICATION PartSpec
SYMMETRY Symmetry

INVARIANTS
    NoRowLost
    OnePlace
    ArchivePrecedesLive
