----------------------------- MODULE Membership -----------------------------
(***************************************************************************)
(* The memberships of one user and their roles, and everyone who writes    *)
(* them: a login (reconcile_user_memberships with prune), the tasks of a   *)
(* user joining or leaving a group (apply_group_membership_change), the    *)
(* requests that create a membership and add or remove a role, and         *)
(* provision_user.  Organizations are there already (see OrgReplication).  *)
(*                                                                         *)
(* Each of them is one READ COMMITTED transaction.  A row somebody wrote   *)
(* or selected FOR UPDATE makes other writers wait.  Django's foreign keys *)
(* are deferred: a new MembershipRole asks for its membership (KEY SHARE)  *)
(* when it commits, and waits there for a FOR UPDATE but for no write.     *)
(***************************************************************************)
EXTENDS Integers, FiniteSets, FiniteSetsExt, Authorization

CONSTANTS Procs,    \* web workers, Celery workers and commands
          Orgs,     \* organizations, numbered in the order of their ids
          Roles,    \* role codes
          Histories, \* which operations happen together: a set of subsets of AllOps
          Tokens,   \* what logins bring: [groups |-> organizations, roles |-> codes]
          Existing, \* the organizations the user is a member of at first
          Inactive  \* organizations with is_active = False

AllOps == {"login", "join", "leave", "create", "add role", "remove role", "provision",
           "request", "expire"}

ASSUME OrgsAssumption == Orgs \subseteq Nat /\ IsFiniteSet(Orgs)
ASSUME HistoriesAssumption == Histories \subseteq SUBSET AllOps
ASSUME RolesAssumption == Roles \subseteq RoleCodes
ASSUME TokensAssumption == Tokens \subseteq [groups : SUBSET Orgs, roles : SUBSET Roles]
ASSUME ExistingAssumption == Existing \subseteq Orgs /\ Inactive \subseteq Orgs

VARIABLES
    members,  \* committed Membership rows of the user, by organization (UNIQUE)
    assigned, \* committed MembershipRole rows, as <<organization, role>>
    proc,     \* what each process does
    expired,  \* the organizations of the memberships whose expires_at has passed
    caller,   \* a request of the user himself: how far it is
    ops       \* the operations of this history

vars == <<members, assigned, proc, expired, caller, ops>>

Statuses == {"invited", "active", "suspended", "revoked"}

Row(status, origin) == [status |-> status, origin |-> origin]

NoRow == Row("none", "none")

\* own: the rows p wrote; locked: those it selected FOR UPDATE; put, cut: the
\* roles it inserted and deleted; row: the Membership object in its memory.
Idle == [pc |-> "idle", op |-> "none", org |-> 0, groups |-> {}, roles |-> {}, todo |-> {},
         want |-> {}, row |-> NoRow, own |-> << >>, locked |-> {}, put |-> {}, cut |-> {}]

Go(p, new) ==
    /\ proc' = [proc EXCEPT ![p] = new]
    /\ UNCHANGED <<members, assigned, expired, caller, ops>>

\* What a SELECT of the transaction q sees.
Seen(q) == [o \in DOMAIN members \cup DOMAIN q.own |->
               IF o \in DOMAIN q.own THEN q.own[o] ELSE members[o]]

SeenRoles(q) == (assigned \ q.cut) \cup q.put

RolesOf(rows, o) == {x \in rows : x[1] = o}

Others(p) == Procs \ {p}

\* Nobody else wrote or locked the row of o (or wrote a new one, for an INSERT).
RowFree(p, o) == \A q \in Others(p) : o \notin DOMAIN proc[q].own \cup proc[q].locked

\* Nobody else inserted or deleted one of these roles.
RolesFree(p, rows) == \A q \in Others(p) : rows \cap (proc[q].put \cup proc[q].cut) = {}

\* The transaction q after UPDATE or INSERT of the row of o.
Written(q, o, row) ==
    [q EXCEPT !.row = row,
              !.own = [x \in DOMAIN @ \cup {o} |-> IF x = o THEN row ELSE @[x]]]

\* ... and after a DELETE of roles.
Deleted(q, rows) == [q EXCEPT !.put = @ \ rows, !.cut = @ \cup (rows \ q.put)]

\* Where p goes when it is through with one membership.
Through(q) == [q EXCEPT !.pc = IF q.op = "login" THEN "next" ELSE "commit"]

\* MembershipQuerySet.active() and Membership.is_active.
Active(row, o) == row.status = "active" /\ o \notin Inactive \cup expired

CodesOf(o) == {x[2] : x \in RolesOf(assigned, o)}

\* The capability the views of memberships require.
Required == "manage_memberships"

\* What the request of the user has seen: held, that he had the capability at
\* one moment since it began; stray, that a revoked membership had roles (which
\* happens, see RevokedHasNoRoles).  Both are history, which no code reads;
\* Saw adds the present moment to it, before a step changes it.
NoCaller == [pc |-> "away", org |-> 0, held |-> FALSE, stray |-> FALSE]

Holds(o) ==
    Active(members[o], o) /\ \E r \in CodesOf(o) : Required \in RoleCapabilities[r]

Saw(c) ==
    IF c.pc \in {"away", "allowed"} THEN c
    ELSE [c EXCEPT !.held  = @ \/ Holds(c.org),
                   !.stray = @ \/ (members[c.org].status = "revoked" /\ CodesOf(c.org) # {})]

-----------------------------------------------------------------------------
Init ==
    /\ ops \in Histories
    /\ expired = {}
    /\ caller = NoCaller
    /\ members \in [Existing -> {Row("active", "keycloak"), Row("invited", "manual"),
                                 Row("active", "manual")}]
    /\ \E r \in SUBSET Roles :
        assigned = {o \in Existing : members[o].status = "active"} \X r
    /\ proc = [p \in Procs |-> Idle]

\* A login: the statement that locks the user's memberships begins.
StartLogin(p, token) ==
    /\ proc[p].pc = "idle"
    /\ Go(p, [Idle EXCEPT !.pc = "lock", !.op = "login", !.todo = DOMAIN members,
                          !.groups = token.groups, !.roles = token.roles])

\* The other operations concern one organization, and one role or none.
Start(p, op, o, roles, row) ==
    /\ proc[p].pc = "idle"
    /\ Go(p, [Idle EXCEPT !.pc = IF op = "leave" THEN "lock one" ELSE "get",
                          !.op = op, !.org = o, !.roles = roles, !.row = row])

\* SELECT ... FOR UPDATE of the login locks row after row, in their order.
LockRow(p) ==
    LET o == Min(proc[p].todo) IN
    /\ proc[p].pc = "lock"
    /\ IF proc[p].todo = {}
       THEN Go(p, [proc[p] EXCEPT !.pc = "next", !.todo = proc[p].groups])
       ELSE RowFree(p, o) /\ Go(p, [proc[p] EXCEPT !.todo = @ \ {o}, !.locked = @ \cup {o}])

\* The login's loop over the groups of the token.
NextGroup(p) ==
    /\ proc[p].pc = "next"
    /\ \/ \E o \in proc[p].todo :
            LET q == [proc[p] EXCEPT !.org = o, !.todo = @ \ {o}]
            IN  Go(p, IF o \in proc[p].locked
                      THEN [q EXCEPT !.pc = "got", !.row = Seen(proc[p])[o]]
                      ELSE [q EXCEPT !.pc = "get"])
       \/ /\ proc[p].todo = {}
          /\ Go(p, [proc[p] EXCEPT !.pc = "prune", !.todo = proc[p].locked \ proc[p].groups])

\* The row is read, without a lock.  A request to create it ends if it is
\* there; the other requests, if it is not.
Get(p) ==
    LET q == proc[p] IN
    /\ q.pc = "get"
    /\ Go(p, IF q.org \in DOMAIN Seen(q)
             THEN IF q.op = "create" THEN [q EXCEPT !.pc = "commit"]
                  ELSE [q EXCEPT !.pc = "got", !.row = Seen(q)[q.org]]
             ELSE IF q.op \in {"add role", "remove role"} THEN [q EXCEPT !.pc = "commit"]
                  ELSE [q EXCEPT !.pc = "insert"])

\* INSERT of get_or_create, or of the request.
InsertMembership(p) ==
    LET q   == proc[p]
        row == CASE q.op = "create"    -> q.row
                 [] q.op = "provision" -> Row("active", "manual")
                 [] OTHER              -> Row("active", "keycloak")
    IN  /\ q.pc = "insert"
        /\ RowFree(p, q.org)
        /\ q.org \notin DOMAIN members
        /\ Go(p, [Written(q, q.org, row)
                    EXCEPT !.pc = IF q.op = "create" THEN "commit" ELSE "got"])

\* Mutant: the row of another transaction is taken for the one to insert.
InsertConflict_NotRead(p) ==
    /\ proc[p].pc = "insert"
    /\ proc[p].org \in DOMAIN members
    /\ Go(p, [proc[p] EXCEPT !.pc = IF proc[p].op = "create" THEN "commit" ELSE "got",
                             !.row = Row("invited", "keycloak")])

\* IntegrityError: get_or_create reads the row; a request is refused.
InsertConflict(p) ==
    /\ proc[p].pc = "insert"
    /\ proc[p].org \in DOMAIN members
    /\ Go(p, [proc[p] EXCEPT !.pc = IF proc[p].op = "create" THEN "commit" ELSE "get"])

\* Replication leaves manual rows alone; an active membership is left to a
\* join; a role needs an active membership, which provision_user does not ask.
NothingToDo(q) ==
    \/ q.op \in {"login", "join"} /\ q.row.origin = "manual"
    \/ q.op = "join" /\ q.row.status = "active"
    \/ q.op = "add role" /\ ~ Active(q.row, q.org)
    \/ q.op = "login" /\ q.row.status = "active" /\ ~ Active(q.row, q.org)

\* What happens to the membership that was read or created.
Decide(p) ==
    LET q == proc[p]
        activates == q.op \in {"login", "join", "provision"} /\ q.row.status # "active"
    IN  /\ q.pc = "got"
        /\ Go(p, CASE NothingToDo(q) -> Through(q)
                   [] ~ NothingToDo(q) /\ activates -> [q EXCEPT !.pc = "activate"]
                   [] q.op = "remove role" -> [q EXCEPT !.pc = "remove"]
                   [] OTHER -> [q EXCEPT !.pc = "roles", !.want = q.roles])

\* save(update_fields=["status"]) by primary key.
Activate(p) ==
    /\ proc[p].pc = "activate"
    /\ RowFree(p, proc[p].org)
    /\ Go(p, [Written(proc[p], proc[p].org, [Seen(proc[p])[proc[p].org] EXCEPT !.status = "active"])
                EXCEPT !.pc = "got"])

\* Mutant: create instead of get_or_create.
AddRole_Unchecked(p) ==
    LET q == proc[p] IN
    /\ q.pc = "roles"
    /\ Go(p, Through([q EXCEPT !.want = {}, !.put = @ \cup {<<q.org, r>> : r \in q.want}]))

\* assign_membership_role's get_or_create, role by role.
AddRole(p) ==
    LET q    == proc[p]
        none == q.want = {}
    IN  /\ q.pc = "roles"
        /\ \/ \E r \in q.want :
                LET x == <<q.org, r>>  next == [q EXCEPT !.want = @ \ {r}]
                IN  \/ x \in SeenRoles(q) /\ Go(p, next)
                    \/ /\ x \notin SeenRoles(q)
                       /\ RolesFree(p, {x})
                       /\ Go(p, [next EXCEPT !.put = @ \cup {x}])
           \/ none /\ q.op = "login" /\ Go(p, [q EXCEPT !.pc = "remove"])
           \/ none /\ q.op # "login" /\ Go(p, Through(q))

\* Mutant: roles the token no longer has stay.
RemoveRoles_Login(p) ==
    /\ proc[p].pc = "remove"
    /\ Go(p, Through(proc[p]))

\* DELETE of MembershipRole: what the token does not have, or the role of the request.
RemoveRoles(p) ==
    LET q    == proc[p]
        mine == RolesOf(SeenRoles(q), q.org)
        gone == {x \in mine : (x[2] \in q.roles) = (q.op = "remove role")}
    IN  /\ q.pc = "remove"
        /\ RolesFree(p, gone)
        /\ Go(p, Through(Deleted(q, gone)))

\* The transaction after it revoked a (locked) membership, unless it is manual.
Revoked(q, o) ==
    IF Seen(q)[o].origin = "manual" THEN q
    ELSE Deleted(Written(q, o, [Seen(q)[o] EXCEPT !.status = "revoked"]),
                 RolesOf(SeenRoles(q), o))

\* The login revokes the locked memberships the token has no group for.
Prune(p) ==
    LET o == Min(proc[p].todo) IN
    /\ proc[p].pc = "prune"
    /\ \/ proc[p].todo = {} /\ Go(p, [proc[p] EXCEPT !.pc = "commit"])
       \/ /\ proc[p].todo # {}
          /\ RolesFree(p, RolesOf(SeenRoles(proc[p]), o))
          /\ Go(p, [Revoked(proc[p], o) EXCEPT !.todo = @ \ {o}])

\* A leave: SELECT ... FOR UPDATE of one membership ...
LockOne(p) ==
    LET o == proc[p].org IN
    /\ proc[p].pc = "lock one"
    /\ \/ o \notin DOMAIN members /\ Go(p, [proc[p] EXCEPT !.pc = "commit"])
       \/ /\ o \in DOMAIN members
          /\ RowFree(p, o)
          /\ Go(p, [proc[p] EXCEPT !.pc = "revoke", !.locked = {o}])

\* ... which is then revoked.
Revoke(p) ==
    /\ proc[p].pc = "revoke"
    /\ RolesFree(p, RolesOf(SeenRoles(proc[p]), proc[p].org))
    /\ Go(p, [Revoked(proc[p], proc[p].org) EXCEPT !.pc = "commit"])

\* COMMIT, once nobody locks the membership of a new role.
Commit(p) ==
    /\ proc[p].pc = "commit"
    /\ \A x \in proc[p].put, q \in Others(p) : x[1] \notin proc[q].locked
    /\ members' = Seen(proc[p])
    /\ assigned' = SeenRoles(proc[p])
    /\ proc' = [proc EXCEPT ![p] = Idle]
    /\ caller' = Saw(caller)
    /\ UNCHANGED <<expired, ops>>

\* An error, a crash or the end of a deadlock.
Rollback(p) == proc[p].pc # "idle" /\ Go(p, Idle)

\* The user himself sends a request for organization o: TenantContextMiddleware
\* looks for an active membership of his.
Enter(o) ==
    /\ caller.pc = "away"
    /\ o \in DOMAIN members
    /\ Active(members[o], o)
    /\ caller' = [NoCaller EXCEPT !.pc = "entered", !.org = o]
    /\ UNCHANGED <<members, assigned, proc, expired, ops>>

\* require_capability reads the membership, if it is active ...
ReadMembership ==
    /\ caller.pc = "entered"
    /\ caller' = IF Active(members[caller.org], caller.org)
                 THEN [caller EXCEPT !.pc = "read"] ELSE NoCaller
    /\ UNCHANGED <<members, assigned, proc, expired, ops>>

\* ... then its roles, and decides: is_active looks at the status read before,
\* but at the organization and the clock of now.
ReadRoles ==
    /\ caller.pc = "read"
    /\ caller' = IF HasCapability(Active(Row("active", "any"), caller.org), CodesOf(caller.org),
                                  << >>, Required, {})
                 THEN [Saw(caller) EXCEPT !.pc = "allowed"] ELSE NoCaller
    /\ UNCHANGED <<members, assigned, proc, expired, ops>>

\* The request is over.
Answered ==
    /\ caller.pc = "allowed"
    /\ caller' = NoCaller
    /\ UNCHANGED <<members, assigned, proc, expired, ops>>

\* expires_at passes; only memberships made by hand have one.
Expire(o) ==
    /\ o \in DOMAIN members \ expired
    /\ members[o].origin = "manual"
    /\ expired' = expired \cup {o}
    /\ caller' = Saw(caller)
    /\ UNCHANGED <<members, assigned, proc, ops>>

-----------------------------------------------------------------------------
Advance(p) ==
    \/ LockRow(p)
    \/ NextGroup(p)
    \/ Get(p)
    \/ InsertMembership(p)
    \/ InsertConflict(p)
    \/ Decide(p)
    \/ Activate(p)
    \/ AddRole(p)
    \/ RemoveRoles(p)
    \/ Prune(p)
    \/ LockOne(p)
    \/ Revoke(p)
    \/ Commit(p)

Begin(p) ==
    \/ "login" \in ops /\ \E token \in Tokens : StartLogin(p, token)
    \/ \E op \in ops \cap {"join", "leave"}, o \in Orgs : Start(p, op, o, {}, NoRow)
    \/ "create" \in ops /\ \E o \in Orgs, status \in Statuses :
            Start(p, "create", o, {}, Row(status, "manual"))
    \/ \E op \in ops \cap {"add role", "remove role"}, o \in Orgs, r \in Roles :
            Start(p, op, o, {r}, NoRow)
    \/ "provision" \in ops /\ \E o \in Orgs, r \in {{}} \cup {{x} : x \in Roles} :
            Start(p, "provision", o, r, NoRow)

Request ==
    \/ "request" \in ops /\ \E o \in Orgs : Enter(o)
    \/ ReadMembership
    \/ ReadRoles
    \/ Answered

Next ==
    \/ \E p \in Procs : Begin(p) \/ Advance(p) \/ Rollback(p)
    \/ Request
    \/ "expire" \in ops /\ \E o \in Orgs : Expire(o)

Spec == Init /\ [][Next]_vars

-----------------------------------------------------------------------------
(* Properties.                                                              *)

Rows == {Row(s, o) : s \in Statuses, o \in {"keycloak", "manual"}}

Pcs == {"idle", "lock", "next", "get", "insert", "got", "activate", "roles", "remove",
        "prune", "lock one", "revoke", "commit"}

Tables == UNION {[S -> Rows] : S \in SUBSET Orgs}

ProcStates == [pc : Pcs, op : AllOps \cup {"none"}, org : Orgs \cup {0}, groups : SUBSET Orgs,
               roles : SUBSET Roles, todo : SUBSET Orgs, want : SUBSET Roles,
               row : Rows \cup {NoRow}, own : Tables, locked : SUBSET Orgs,
               put : SUBSET (Orgs \X Roles), cut : SUBSET (Orgs \X Roles)]

CallerStates == [pc : {"away", "entered", "read", "allowed"}, org : Orgs \cup {0},
                 held : BOOLEAN, stray : BOOLEAN]

\* The types, which the other properties presuppose.
TypeOK ==
    /\ members \in Tables
    /\ assigned \subseteq (DOMAIN members) \X Roles
    /\ proc \in [Procs -> ProcStates]
    /\ expired \subseteq DOMAIN members
    /\ caller \in CallerStates
    /\ ops \in Histories

\* What the token of the login q makes of a membership that Keycloak owns: active
\* exactly if the token has its group, and no role the token does not grant (an
\* inactive organization keeps the roles it has).
Exact(q, o) ==
    Seen(q)[o].origin = "keycloak" =>
        /\ (Seen(q)[o].status = "active") = (o \in q.groups)
        /\ \A x \in RolesOf(SeenRoles(q), o) :
              o \in q.groups /\ (x[2] \in q.roles \/ o \in Inactive)

\* When a login is about to commit, each membership it locked is as the token
\* says, whoever adds roles meanwhile (reconcile_user_memberships).
LoginExact ==
    \A p \in Procs : proc[p].op = "login" /\ proc[p].pc = "commit" =>
        \A o \in proc[p].locked : Exact(proc[p], o)

\* "Keycloak group replication only creates/prunes keycloak rows and never
\* touches manual ones" (models.py): a login or a task that commits leaves every
\* manual membership and its roles as they are at that moment, also one created
\* or given roles while it ran.
ManualUntouched ==
    [][\A p \in Procs, o \in DOMAIN members :
            (/\ proc[p].pc = "commit" /\ proc'[p].pc = "idle"
             /\ proc[p].op \in {"login", "join", "leave"}
             /\ members[o].origin = "manual")
                => members'[o] = members[o] /\ RolesOf(assigned', o) = RolesOf(assigned, o)]_vars

\* "Enforce at call time" (authorization.py:135): whoever is allowed had, at one
\* moment since his request began, an active and unexpired membership with a
\* role that carries the capability, though the membership and its roles are
\* read by two statements and others write both in between.  What it rests on is
\* that a revoked membership has no roles, so the races that leave it some are
\* excepted.
AllowedHeldAtOnce == caller.pc = "allowed" => caller.held \/ caller.stray

\* "Membership must be active to receive roles" (authorization.py:74): a
\* revoked membership that Keycloak owns has none.
RevokedHasNoRoles ==
    \A x \in assigned : members[x[1]] # Row("revoked", "keycloak")

\* What makes these inductive.  Two transactions never hold the same row or role.
Apart(q, r) ==
    /\ (DOMAIN q.own \cup q.locked) \cap (DOMAIN r.own \cup r.locked) = {}
    /\ (q.put \cup q.cut) \cap (r.put \cup r.cut) = {}

\* A membership keeps its origin for good, and once it is there, it only becomes
\* active or revoked.
Becomes(old, new) == new.origin = old.origin /\ new.status \in {"active", "revoked"}

\* What a transaction wrote: roles that are not there, of memberships that are;
\* replication writes nothing manual.
WritesFit(q) ==
    /\ \A o \in DOMAIN q.own \cap DOMAIN members : Becomes(members[o], q.own[o])
    /\ q.locked \subseteq DOMAIN members
    /\ q.put \subseteq ((DOMAIN Seen(q)) \X Roles) \ assigned
    /\ q.cut \subseteq assigned
    /\ q.op \in {"login", "join", "leave"} =>
          \A o \in DOMAIN q.own \cup {x[1] : x \in q.put \cup q.cut} :
              Seen(q)[o].origin = "keycloak"

\* The membership in hand.
InHand(q) ==
    IF q.pc \in {"get", "insert", "got", "activate", "roles", "remove"} THEN {q.org} ELSE {}

\* The row that was read may be stale, but not in its origin, and not at all if
\* it was locked.  No role of a membership to come was deleted yet.
ReadsFit(q) ==
    /\ q.pc \in {"got", "activate", "roles", "remove"} =>
          /\ q.org \in DOMAIN Seen(q)
          /\ q.row \in Rows /\ q.row.origin = Seen(q)[q.org].origin
          /\ q.org \in q.locked => q.row = Seen(q)[q.org]
          /\ q.pc # "got" /\ q.op \in {"login", "join"} => q.row.origin = "keycloak"
          /\ q.pc \in {"roles", "remove"} /\ q.op = "login" => q.row.status = "active"
    /\ q.pc \in {"get", "insert", "lock one", "revoke"} => q.org \in Orgs
    /\ q.pc \in {"lock", "next", "prune"} => q.op = "login"
    /\ q.pc \in {"lock one", "revoke"} => q.op = "leave"
    /\ InHand(q) # {} => q.op # "leave"
    /\ q.op = "create" => q.row \in Rows
    /\ q.pc = "lock" => q.todo \subseteq DOMAIN members /\ q.cut = {}
    /\ q.pc = "revoke" => q.org \in q.locked
    /\ q.pc \in {"lock", "next", "get", "insert", "got", "activate", "roles", "remove"} =>
          \A x \in q.cut : x[1] \notin q.todo \cup InHand(q)
    /\ InHand(q) \cap q.todo = {}

\* The memberships a login locked are as the token says, but those to come.
LoginFits(q) ==
    q.op = "login" =>
        /\ InHand(q) \subseteq q.groups
        /\ q.pc = "next" \/ InHand(q) # {} =>
              /\ q.todo \subseteq q.groups
              /\ \A o \in (q.locked \cap q.groups) \ (q.todo \cup InHand(q)) : Exact(q, o)
        /\ q.pc = "prune" =>
              q.todo \subseteq q.locked \ q.groups /\ \A o \in q.locked \ q.todo : Exact(q, o)
        /\ q.pc = "commit" => \A o \in q.locked : Exact(q, o)

\* Memberships that expire are manual; whoever is inside was admitted for one
\* that was active, and was allowed for good reason.
CallerFits ==
    /\ \A o \in expired : members[o].origin = "manual"
    /\ caller.pc # "away" =>
          caller.org \in DOMAIN members /\ members[caller.org].status \in {"active", "revoked"}
    /\ AllowedHeldAtOnce

IInv ==
    /\ TypeOK
    /\ \A p, q \in Procs : p # q => Apart(proc[p], proc[q])
    /\ \A p \in Procs : WritesFit(proc[p]) /\ ReadsFit(proc[p]) /\ LoginFits(proc[p])
    /\ CallerFits
=============================================================================
