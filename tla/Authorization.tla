--------------------------- MODULE Authorization ---------------------------
(***************************************************************************)
(* What the roles of a membership permit (authorization.py): the system    *)
(* roles P1 to P7 with their capabilities, and the scope of an invitation, *)
(* which limits what an external auditor (P7) reads.                       *)
(***************************************************************************)
EXTENDS Naturals

Read == "read"

\* The capabilities of each role, as migration identity.0003 seeds them.
RoleCapabilities ==
    [P1 |-> {"manage_findings", "decide_closure_branch", "verify_capa_effectiveness", Read},
     P2 |-> {"manage_findings", Read},
     P3 |-> {"appeal_finding_fact", "create_capa", Read},
     P4 |-> {"request_disposition", Read},
     P5 |-> {"commission_audit", "verify_capa_effectiveness", "approve_disposition", Read},
     P6 |-> {"manage_memberships", Read},
     P7 |-> {Read}]

RoleCodes == DOMAIN RoleCapabilities

\* A scope gives a key a list of values (a set here) or one value.  The object a
\* request is about gives a key one value; asked is {} when there is none.
OneOf(values) == [list |-> TRUE, in |-> values]

Exactly(value) == [list |-> FALSE, is |-> value]

\* dict.get.
Allowed(scope, key) == IF key \in DOMAIN scope THEN scope[key] ELSE Exactly("None")

Fits(value, allowed) == IF allowed.list THEN value \in allowed.in ELSE value = allowed.is

\* _scope_allows.
ScopeAllows(scope, asked) ==
    /\ DOMAIN scope # {}
    /\ \A object \in asked : \A key \in DOMAIN object : Fits(object[key], Allowed(scope, key))

ThirdPartyRead(roles, capability) == capability = Read /\ "P7" \in roles

\* Mutant: is_active is not asked again.
HasCapability_NotActive(active, roles, scope, capability, asked) ==
    /\ \E r \in roles : capability \in RoleCapabilities[r]
    /\ ThirdPartyRead(roles, capability) => ScopeAllows(scope, asked)

\* membership_has_capability.
HasCapability(active, roles, scope, capability, asked) ==
    /\ active
    /\ \E r \in roles : capability \in RoleCapabilities[r]
    /\ ThirdPartyRead(roles, capability) => ScopeAllows(scope, asked)
=============================================================================
