\* Every operation, one organization active and one not.
CONSTANTS
    Procs = {q1, q2}
    Orgs = {1, 2}
    Roles = {"P6"}
    Histories <- WritersAndCaller
    Tokens <- InAndOut
    Existing = {1}
    Inactive = {2}

SPECIFICATION Spec
SYMMETRY Symmetry

INVARIANTS
    IInv
    LoginExact
    AllowedHeldAtOnce

PROPERTIES
    ManualUntouched
