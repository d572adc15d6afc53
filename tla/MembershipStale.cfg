\* A role is added while the membership is revoked.
CONSTANTS
    Procs = {q1, q2}
    Orgs = {1, 2}
    Roles = {"P1", "P6"}
    Histories <- Race
    Tokens <- TwoGroups
    Existing = {1}
    Inactive = {}

SPECIFICATION Spec
SYMMETRY Symmetry

INVARIANTS
    RevokedHasNoRoles
