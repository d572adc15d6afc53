\* Two sessions, two tenants and two contents to tell entries apart: every
\* interleaving of first appends, later appends, commits and rollbacks.
CONSTANTS
    Orgs = {o1, o2}
    Txns = {t1, t2}
    Contents = {c, d}
    MaxSeq = 2
    MaxAppends = 2
    NoTxn = none

SPECIFICATION FairSpec

INVARIANTS
    ChainIntact
    NoStaleTip
    BackstopUnused
    IInv

PROPERTIES
    AppendOnly
    ImplementsLog
    AppendsEnd
