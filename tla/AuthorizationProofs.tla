------------------------ MODULE AuthorizationProofs ------------------------
(* What the roles and the scope of an external auditor permit, for all      *)
(* roles, scopes and objects.                                               *)
EXTENDS Authorization, TLAPS

\* Scopes and the objects of requests; no object has None for a value.
IsScope(scope, Values) ==
    \A key \in DOMAIN scope :
        \/ \E values \in SUBSET Values : scope[key] = OneOf(values)
        \/ \E value \in Values : scope[key] = Exactly(value)

IsObject(object, Values) == \A key \in DOMAIN object : object[key] \in Values \ {"None"}

\* What a scope says of an object: it names every key, with that value.
Describes(scope, object) ==
    \A key \in DOMAIN object :
        /\ key \in DOMAIN scope
        /\ \/ \E values : scope[key] = OneOf(values) /\ object[key] \in values
           \/ scope[key] = Exactly(object[key])

\* Every role carries `read` (ROLE_CAPABILITIES).
LEMMA EveryRoleReads ==
    \A r \in RoleCodes : Read \in RoleCapabilities[r]
BY DEF RoleCodes, RoleCapabilities, Read

\* A value fits what dict.get finds under its key exactly if the scope names it
\* (a key the scope does not have gives None, which no object has).
LEMMA FitsIsDescribed ==
    ASSUME NEW Values, NEW scope, IsScope(scope, Values),
           NEW key, NEW value \in Values \ {"None"}
    PROVE  Fits(value, Allowed(scope, key)) <=>
             /\ key \in DOMAIN scope
             /\ \/ \E values : scope[key] = OneOf(values) /\ value \in values
                \/ scope[key] = Exactly(value)
<1>1. CASE key \notin DOMAIN scope
  BY <1>1 DEF Allowed, Fits, Exactly
<1>2. CASE key \in DOMAIN scope
  <2>1. CASE \E values \in SUBSET Values : scope[key] = OneOf(values)
    <3>1. PICK values \in SUBSET Values : scope[key] = OneOf(values)
      BY <2>1
    <3>2. scope[key].list = TRUE /\ scope[key].in = values
      BY <3>1 DEF OneOf
    <3>3. scope[key] # Exactly(value)
      BY <3>2 DEF Exactly
    <3>4. \A other : scope[key] = OneOf(other) => other = values
      BY <3>2 DEF OneOf
    <3> QED
      BY <1>2, <3>1, <3>2, <3>3, <3>4 DEF Allowed, Fits
  <2>2. CASE \E x \in Values : scope[key] = Exactly(x)
    <3>1. PICK x \in Values : scope[key] = Exactly(x)
      BY <2>2
    <3>2. scope[key].list = FALSE /\ scope[key].is = x
      BY <3>1 DEF Exactly
    <3>3. \A other : scope[key] # OneOf(other)
      BY <3>2 DEF OneOf
    <3>4. scope[key] = Exactly(value) <=> value = x
      <4>1. Exactly(value).is = value
        BY DEF Exactly
      <4> QED
        BY <3>1, <3>2, <4>1
    <3> QED
      BY <1>2, <3>2, <3>3, <3>4 DEF Allowed, Fits
  <2> QED
    BY <1>2, <2>1, <2>2 DEF IsScope
<1> QED
  BY <1>1, <1>2

\* "Read-only third-party invitation scope" (models.py:202): whatever roles an
\* external auditor has besides P7, he reads exactly the objects his scope
\* describes, and nothing at all if it is empty.
THEOREM ExternalReads ==
    ASSUME NEW Values, NEW scope, IsScope(scope, Values),
           NEW object, IsObject(object, Values),
           NEW roles \in SUBSET RoleCodes, "P7" \in roles
    PROVE  HasCapability(TRUE, roles, scope, Read, {object}) <=>
             DOMAIN scope # {} /\ Describes(scope, object)
<1>1. \E r \in roles : Read \in RoleCapabilities[r]
  BY EveryRoleReads
<1>2. \A key \in DOMAIN object :
        Fits(object[key], Allowed(scope, key)) <=>
          /\ key \in DOMAIN scope
          /\ \/ \E values : scope[key] = OneOf(values) /\ object[key] \in values
             \/ scope[key] = Exactly(object[key])
  BY FitsIsDescribed DEF IsObject
<1>3. ScopeAllows(scope, {object}) <=> DOMAIN scope # {} /\ Describes(scope, object)
  BY <1>2 DEF ScopeAllows, Describes
<1> QED
  BY <1>1, <1>3 DEF HasCapability, ThirdPartyRead

\* The scope limits nothing but what external auditors read: any other
\* capability, and `read` without P7, is that of the roles alone.
THEOREM ScopeLimitsReadsOnly ==
    ASSUME NEW roles \in SUBSET RoleCodes, NEW scope, NEW asked, NEW capability,
           capability # Read \/ "P7" \notin roles
    PROVE  HasCapability(TRUE, roles, scope, capability, asked) <=>
             \E r \in roles : capability \in RoleCapabilities[r]
BY DEF HasCapability, ThirdPartyRead

\* More roles never take a capability away, but for P7, which may take away `read`.
THEOREM RolesAddUp ==
    ASSUME NEW roles \in SUBSET RoleCodes, NEW more \in SUBSET RoleCodes,
           NEW active, NEW scope, NEW asked, NEW capability,
           HasCapability(active, roles, scope, capability, asked),
           capability # Read \/ "P7" \in roles \/ "P7" \notin more
    PROVE  HasCapability(active, roles \cup more, scope, capability, asked)
BY DEF HasCapability, ThirdPartyRead
=============================================================================
