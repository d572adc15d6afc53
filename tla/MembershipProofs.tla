-------------------------- MODULE MembershipProofs --------------------------
(***************************************************************************)
(* Proofs about Membership: for any processes, organizations, tokens and   *)
(* histories, IInv is an inductive invariant; from it follow LoginExact,   *)
(* AllowedHeldAtOnce and ManualUntouched.                                  *)
(***************************************************************************)
EXTENDS Membership, FiniteSetTheorems, TLAPS

-----------------------------------------------------------------------------
(* Tables of rows.                                                          *)

LEMMA TableIs ==
    ASSUME NEW f
    PROVE  f \in Tables <=> /\ f = [o \in DOMAIN f |-> f[o]]
                            /\ DOMAIN f \subseteq Orgs
                            /\ \A o \in DOMAIN f : f[o] \in Rows
BY DEF Tables

LEMMA NoRows == << >> \in Tables /\ DOMAIN << >> = {}
<1>1. << >> \in [{} -> Rows] /\ DOMAIN << >> = {}
  OBVIOUS
<1> QED
  BY <1>1 DEF Tables

LEMMA RowIs ==
    ASSUME NEW row
    PROVE  row \in Rows <=> row \in [status : Statuses, origin : {"keycloak", "manual"}]
BY DEF Rows, Row

LEMMA NewRow ==
    ASSUME NEW s \in Statuses, NEW o \in {"keycloak", "manual"}
    PROVE  Row(s, o) \in Rows /\ Row(s, o).status = s /\ Row(s, o).origin = o
BY DEF Rows, Row

\* A row with another status.
LEMMA StatusSet ==
    ASSUME NEW row \in Rows, NEW s \in Statuses
    PROVE  /\ [row EXCEPT !.status = s] \in Rows
           /\ [row EXCEPT !.status = s].status = s
           /\ [row EXCEPT !.status = s].origin = row.origin
BY RowIs

LEMMA IdleOK ==
    /\ Idle \in ProcStates
    /\ Idle.pc = "idle" /\ Idle.op = "none" /\ Idle.own = << >>
    /\ Idle.locked = {} /\ Idle.put = {} /\ Idle.cut = {} /\ Idle.todo = {}
BY NoRows DEF Idle, ProcStates, Pcs

\* A finite set of numbers has a least one.
LEMMA MinIn ==
    ASSUME NEW T, T \subseteq Nat, IsFiniteSet(T), T # {}
    PROVE  Min(T) \in T
<1> DEFINE Below(x) == {y \in T : y < x}
           W == {Below(x) : x \in T}
           R == StrictSubsetOrdering(T)
           F == FiniteSubsetsOf(T)
<1>1. W \subseteq F
  <2>1. W \subseteq SUBSET T
    OBVIOUS
  <2> QED
    BY <2>1, FS_FiniteSubsetsOfFinite
<1>2. W # {}
  OBVIOUS
<1>3. IsWellFoundedOn(R, F)
  BY FS_StrictSubsetOrderingWellFounded
<1> HIDE DEF R, F, W
<1>4. PICK w \in W : \A v \in W : <<v, w>> \notin R
  BY <1>1, <1>2, <1>3, WFMin
<1>5. PICK x \in T : w = Below(x)
  BY <1>4 DEF W
<1>6. ASSUME NEW y \in T, y < x PROVE FALSE
  <2>0. (\A z \in T : z < y => z < x) /\ ~ (y < y)
    <3>1. x \in Nat /\ y \in Nat /\ \A z \in T : z \in Nat
      OBVIOUS
    <3> QED
      BY <1>6, <3>1
  <2>1. Below(y) \subseteq Below(x) /\ y \in Below(x) /\ y \notin Below(y)
    BY <1>6, <2>0, Zenon
  <2>2. <<Below(y), w>> \in R
    <3>1. w \in SUBSET T /\ Below(y) \in SUBSET T
      BY <1>5
    <3> QED
      BY <1>5, <2>1, <3>1 DEF R, StrictSubsetOrdering
  <2>3. Below(y) \in W
    BY DEF W
  <2> QED
    BY <1>4, <2>2, <2>3
<1>7. \A y \in T : x <= y
  BY <1>6
<1>8. \E z \in T : \A y \in T : z <= y
  BY <1>7
<1> QED
  BY <1>8, Zenon DEF Min

-----------------------------------------------------------------------------
(* What a transaction sees.                                                 *)

LEMMA SeenIs ==
    ASSUME NEW q
    PROVE  /\ DOMAIN Seen(q) = DOMAIN members \cup DOMAIN q.own
           /\ \A o \in DOMAIN q.own : Seen(q)[o] = q.own[o]
           /\ \A o \in DOMAIN members \ DOMAIN q.own : Seen(q)[o] = members[o]
BY DEF Seen

LEMMA SeenRows ==
    ASSUME TypeOK, NEW q \in ProcStates
    PROVE  /\ Seen(q) \in Tables
           /\ q.own \in Tables
           /\ \A o \in DOMAIN Seen(q) : o \in Orgs /\ Seen(q)[o] \in Rows
<1>1. members \in Tables
  BY DEF TypeOK
<1>2. q.own \in Tables
  BY DEF ProcStates
<1>3. Seen(q) = [o \in DOMAIN Seen(q) |-> Seen(q)[o]]
  BY DEF Seen
<1>4. ASSUME NEW o \in DOMAIN Seen(q) PROVE o \in Orgs /\ Seen(q)[o] \in Rows
  <2>1. CASE o \in DOMAIN q.own
    <3>1. o \in Orgs /\ q.own[o] \in Rows
      BY <1>2, <2>1, TableIs
    <3> QED
      BY <2>1, <3>1, SeenIs
  <2>2. CASE o \notin DOMAIN q.own
    <3>1. o \in DOMAIN members /\ Seen(q)[o] = members[o]
      BY <2>2, SeenIs
    <3> QED
      BY <1>1, <3>1, TableIs
  <2> QED
    BY <2>1, <2>2
<1>5. DOMAIN Seen(q) \subseteq Orgs /\ \A o \in DOMAIN Seen(q) : Seen(q)[o] \in Rows
  BY <1>4
<1> QED
  BY <1>2, <1>3, <1>4, <1>5, TableIs

\* Every transaction sees every committed membership, with the origin it has.
LEMMA OriginsSeen ==
    ASSUME NEW q, WritesFit(q), NEW o \in DOMAIN members
    PROVE  o \in DOMAIN Seen(q) /\ Seen(q)[o].origin = members[o].origin
<1>1. CASE o \in DOMAIN q.own
  BY <1>1, SeenIs DEF WritesFit, Becomes
<1>2. CASE o \notin DOMAIN q.own
  BY <1>2, SeenIs
<1> QED
  BY <1>1, <1>2

\* A transaction that wrote what q wrote sees what q sees.
LEMMA SameSight ==
    ASSUME NEW q, NEW new, new.own = q.own, new.put = q.put, new.cut = q.cut
    PROVE  Seen(new) = Seen(q) /\ SeenRoles(new) = SeenRoles(q)
BY DEF Seen, SeenRoles

LEMMA SameExact ==
    ASSUME NEW q, NEW new, new.own = q.own, new.put = q.put, new.cut = q.cut,
           new.groups = q.groups, new.roles = q.roles, NEW o
    PROVE  Exact(new, o) <=> Exact(q, o)
BY SameSight DEF Exact

LEMMA SameWrites ==
    ASSUME NEW q, NEW new, WritesFit(q),
           new.own = q.own, new.put = q.put, new.cut = q.cut, new.op = q.op,
           new.locked = q.locked
    PROVE  WritesFit(new) /\ \A r : Apart(q, r) => Apart(new, r)
<1>1. WritesFit(new)
  BY SameSight DEF WritesFit
<1>2. \A r : Apart(q, r) => Apart(new, r)
  BY DEF Apart
<1> QED
  BY <1>1, <1>2

-----------------------------------------------------------------------------
(* A step of one process that commits nothing.                              *)

LEMMA WritesNext ==
    ASSUME NEW q \in Procs, NEW r, proc'[q] = r, UNCHANGED <<members, assigned>>
    PROVE  WritesFit(proc[q])' <=> WritesFit(r)
BY DEF WritesFit, Seen, Becomes

LEMMA ReadsNext ==
    ASSUME NEW q \in Procs, NEW r, proc'[q] = r, UNCHANGED <<members, assigned>>
    PROVE  ReadsFit(proc[q])' <=> ReadsFit(r)
BY DEF ReadsFit, Seen, InHand

LEMMA LoginNext ==
    ASSUME NEW q \in Procs, NEW r, proc'[q] = r, UNCHANGED <<members, assigned>>
    PROVE  LoginFits(proc[q])' <=> LoginFits(r)
<1>1. ASSUME NEW o PROVE Exact(proc[q], o)' <=> Exact(r, o)
  BY <1>1 DEF Exact, Seen, SeenRoles, RolesOf
<1> QED
  BY <1>1 DEF LoginFits, InHand

LEMMA LocalStep ==
    ASSUME IInv, NEW p \in Procs, NEW new \in ProcStates, Go(p, new),
           \A r \in Procs \ {p} : Apart(new, proc[r]),
           WritesFit(new), ReadsFit(new), LoginFits(new)
    PROVE  IInv'
<1>1. /\ UNCHANGED <<members, assigned, expired, caller, ops>>
      /\ proc' = [proc EXCEPT ![p] = new] /\ proc \in [Procs -> ProcStates]
  BY DEF Go, IInv, TypeOK
<1>2. proc'[p] = new /\ \A r \in Procs \ {p} : proc'[r] = proc[r]
  BY <1>1
<1>3. TypeOK'
  <2>1. proc' \in [Procs -> ProcStates]
    BY <1>1
  <2> QED
    BY <1>1, <2>1 DEF IInv, TypeOK
<1>4. ASSUME NEW q \in Procs, NEW r \in Procs, q # r PROVE Apart(proc'[q], proc'[r])
  <2>1. CASE q = p
    BY <1>2, <1>4, <2>1
  <2>2. CASE r = p
    <3>1. Apart(new, proc[q])
      BY <1>4, <2>2
    <3> QED
      BY <1>2, <1>4, <2>2, <3>1 DEF Apart
  <2>3. CASE q # p /\ r # p
    BY <1>2, <1>4, <2>3 DEF IInv
  <2> QED
    BY <2>1, <2>2, <2>3
<1>5. ASSUME NEW q \in Procs
      PROVE  WritesFit(proc[q])' /\ ReadsFit(proc[q])' /\ LoginFits(proc[q])'
  <2>1. PICK r : r = proc'[q]
    OBVIOUS
  <2>2. WritesFit(r) /\ ReadsFit(r) /\ LoginFits(r)
    <3>1. CASE q = p
      BY <1>2, <2>1, <3>1
    <3>2. CASE q # p
      BY <1>2, <2>1, <3>2 DEF IInv
    <3> QED
      BY <3>1, <3>2
  <2> QED
    BY <1>1, <2>1, <2>2, WritesNext, ReadsNext, LoginNext
<1>6. CallerFits'
  BY <1>1 DEF IInv, CallerFits, AllowedHeldAtOnce
<1>7. \A q, r \in Procs : q # r => Apart(proc'[q], proc'[r])
  BY <1>4
<1> QED
  BY <1>3, <1>5, <1>6, <1>7 DEF IInv, Apart

LEMMA Facts ==
    ASSUME IInv, NEW p \in Procs
    PROVE  /\ TypeOK /\ proc[p] \in ProcStates
           /\ WritesFit(proc[p]) /\ ReadsFit(proc[p]) /\ LoginFits(proc[p])
           /\ \A r \in Procs \ {p} : Apart(proc[p], proc[r])
BY DEF IInv, TypeOK

\* A step that writes nothing either.
LEMMA QuietStep ==
    ASSUME IInv, NEW p \in Procs, NEW new \in ProcStates, Go(p, new),
           new.own = proc[p].own, new.put = proc[p].put, new.cut = proc[p].cut,
           new.op = proc[p].op, new.locked = proc[p].locked,
           ReadsFit(new), LoginFits(new)
    PROVE  IInv'
<1>1. WritesFit(new) /\ \A r \in Procs \ {p} : Apart(new, proc[r])
  BY Facts, SameWrites
<1> QED
  BY <1>1, LocalStep

\* A transaction begins or is undone.
LEMMA FreshStep ==
    ASSUME IInv, NEW p \in Procs, NEW new \in ProcStates, Go(p, new),
           new.own = << >>, new.put = {}, new.cut = {}, new.locked = {},
           ReadsFit(new), LoginFits(new)
    PROVE  IInv'
<1>1. WritesFit(new)
  BY NoRows DEF WritesFit
<1>2. \A r \in Procs \ {p} : Apart(new, proc[r])
  BY NoRows DEF Apart
<1> QED
  BY <1>1, <1>2, LocalStep

LEMMA RollbackStep ==
    ASSUME IInv, NEW p \in Procs, Rollback(p)
    PROVE  IInv'
<1>1. Go(p, Idle)
  BY DEF Rollback
<1>2. InHand(Idle) = {}
  BY IdleOK DEF InHand
<1>3. ReadsFit(Idle) /\ LoginFits(Idle)
  BY <1>2, IdleOK DEF ReadsFit, LoginFits
<1> QED
  BY <1>1, <1>3, IdleOK, FreshStep

LEMMA StartLoginStep ==
    ASSUME IInv, NEW p \in Procs, NEW token \in Tokens, StartLogin(p, token)
    PROVE  IInv'
<1> DEFINE new == [Idle EXCEPT !.pc = "lock", !.op = "login", !.todo = DOMAIN members,
                               !.groups = token.groups, !.roles = token.roles]
<1>1. token.groups \in SUBSET Orgs /\ token.roles \in SUBSET Roles
  BY TokensAssumption
<1>2. DOMAIN members \in SUBSET Orgs
  BY TableIs DEF IInv, TypeOK
<1>3. new \in ProcStates
  <2>1. Idle \in ProcStates /\ "lock" \in Pcs /\ "login" \in AllOps
    BY IdleOK DEF Pcs, AllOps
  <2> QED
    BY <1>1, <1>2, <2>1 DEF ProcStates
<1>4. /\ new.pc = "lock" /\ new.op = "login" /\ new.todo = DOMAIN members
      /\ new.own = << >> /\ new.put = {} /\ new.cut = {} /\ new.locked = {}
  BY DEF Idle
<1>5. Go(p, new)
  BY DEF StartLogin
<1> HIDE DEF new
<1>6. InHand(new) = {}
  BY <1>4 DEF InHand
<1>7. ReadsFit(new) /\ LoginFits(new)
  BY <1>4, <1>6 DEF ReadsFit, LoginFits
<1> QED
  BY <1>3, <1>4, <1>5, <1>7, FreshStep

LEMMA StartStep ==
    ASSUME IInv, NEW p \in Procs, NEW op \in AllOps \ {"login"}, NEW o \in Orgs,
           NEW roles \in SUBSET Roles, NEW row \in Rows \cup {NoRow},
           op = "create" => row \in Rows, Start(p, op, o, roles, row)
    PROVE  IInv'
<1> DEFINE new == [Idle EXCEPT !.pc = IF op = "leave" THEN "lock one" ELSE "get",
                               !.op = op, !.org = o, !.roles = roles, !.row = row]
<1>1. new \in ProcStates
  <2> DEFINE pc == IF op = "leave" THEN "lock one" ELSE "get"
  <2>1. pc \in Pcs
    BY DEF Pcs
  <2>2. new = [Idle EXCEPT !.pc = pc, !.op = op, !.org = o, !.roles = roles, !.row = row]
    OBVIOUS
  <2> HIDE DEF pc, new
  <2>3. Idle \in ProcStates
    BY IdleOK
  <2> QED
    BY <2>1, <2>2, <2>3 DEF ProcStates
<1>2. /\ new.pc = IF op = "leave" THEN "lock one" ELSE "get"
      /\ new.op = op /\ new.org = o /\ new.row = row /\ new.todo = {}
      /\ new.own = << >> /\ new.put = {} /\ new.cut = {} /\ new.locked = {}
  BY DEF Idle
<1>3. Go(p, new)
  BY DEF Start
<1> HIDE DEF new
<1>4. op = "leave" => InHand(new) = {}
  BY <1>2 DEF InHand
<1>5. ReadsFit(new) /\ LoginFits(new)
  BY <1>2, <1>4 DEF ReadsFit, LoginFits
<1> QED
  BY <1>1, <1>2, <1>3, <1>5, FreshStep

-----------------------------------------------------------------------------
(* A login locks the rows and goes through the groups.                      *)

LEMMA LockRowStep ==
    ASSUME IInv, NEW p \in Procs, LockRow(p)
    PROVE  IInv'
<1> DEFINE q == proc[p]
<1>0. /\ q \in ProcStates /\ WritesFit(q) /\ ReadsFit(q) /\ LoginFits(q)
      /\ \A r \in Procs \ {p} : Apart(q, proc[r])
  BY Facts
<1>1. q.pc = "lock"
  BY DEF LockRow
<1>2. q.op = "login" /\ q.todo \subseteq DOMAIN members /\ q.cut = {}
  BY <1>0, <1>1 DEF ReadsFit
<1>3. CASE q.todo = {}
  <2> DEFINE new == [q EXCEPT !.pc = "next", !.todo = q.groups]
  <2>1. new \in ProcStates
    BY <1>0 DEF ProcStates, Pcs
  <2>2. /\ new.pc = "next" /\ new.op = "login" /\ new.todo = q.groups
        /\ new.own = q.own /\ new.put = q.put /\ new.cut = {} /\ new.locked = q.locked
        /\ new.groups = q.groups
    BY <1>0, <1>2 DEF ProcStates
  <2>3. Go(p, new)
    BY <1>3 DEF LockRow
  <2> HIDE DEF new
  <2>4. InHand(new) = {}
    BY <2>2 DEF InHand
  <2>5. ReadsFit(new) /\ LoginFits(new)
    BY <2>2, <2>4 DEF ReadsFit, LoginFits
  <2> QED
    BY <1>2, <2>1, <2>2, <2>3, <2>5, QuietStep
<1>4. CASE q.todo # {}
  <2> DEFINE o == Min(q.todo)
             new == [q EXCEPT !.todo = @ \ {o}, !.locked = @ \cup {o}]
  <2>1. o \in q.todo
    <3>1. q.todo \subseteq Orgs
      BY <1>0 DEF ProcStates
    <3>2. q.todo \subseteq Nat /\ IsFiniteSet(q.todo)
      BY <3>1, OrgsAssumption, FS_Subset
    <3> QED
      BY <1>4, <3>2, MinIn
  <2>2. RowFree(p, o) /\ Go(p, new)
    BY <1>4 DEF LockRow
  <2> HIDE DEF o
  <2>3. new \in ProcStates
    BY <1>0, <2>1 DEF ProcStates
  <2>4. /\ new.pc = "lock" /\ new.op = "login" /\ new.todo = q.todo \ {o}
        /\ new.own = q.own /\ new.put = q.put /\ new.cut = {}
        /\ new.locked = q.locked \cup {o} /\ q.op = new.op
    BY <1>0, <1>1, <1>2 DEF ProcStates
  <2> HIDE DEF new
  <2>5. WritesFit(new)
    <3>1. Seen(new) = Seen(q)
      BY <1>2, <2>4, SameSight
    <3>2. new.locked \subseteq DOMAIN members
      BY <1>0, <1>2, <2>1, <2>4 DEF WritesFit
    <3> QED
      BY <1>0, <1>2, <2>4, <3>1, <3>2 DEF WritesFit
  <2>6. \A r \in Procs \ {p} : Apart(new, proc[r])
    BY <1>0, <1>2, <2>2, <2>4 DEF Apart, RowFree, Others
  <2>7. InHand(new) = {}
    BY <2>4 DEF InHand
  <2>8. ReadsFit(new) /\ LoginFits(new)
    <3>1. q.op = "create" => q.row \in Rows
      BY <1>2
    <3> QED
      BY <1>2, <2>4, <2>7, <3>1 DEF ReadsFit, LoginFits
  <2> QED
    BY <2>2, <2>3, <2>5, <2>6, <2>8, LocalStep
<1> QED
  BY <1>3, <1>4

LEMMA NextGroupStep ==
    ASSUME IInv, NEW p \in Procs, NextGroup(p)
    PROVE  IInv'
<1> DEFINE q == proc[p]
<1>0. /\ q \in ProcStates /\ WritesFit(q) /\ ReadsFit(q) /\ LoginFits(q) /\ TypeOK
  BY Facts
<1>1. q.pc = "next"
  BY DEF NextGroup
<1>2. q.op = "login" /\ InHand(q) = {} /\ \A x \in q.cut : x[1] \notin q.todo
  BY <1>0, <1>1 DEF ReadsFit, InHand
<1>3. /\ q.todo \subseteq q.groups
      /\ \A x \in (q.locked \cap q.groups) \ q.todo : Exact(q, x)
  BY <1>0, <1>1, <1>2 DEF LoginFits
<1>4. ASSUME NEW o \in q.todo, o \in q.locked,
             Go(p, [[q EXCEPT !.org = o, !.todo = @ \ {o}] EXCEPT !.pc = "got", !.row = Seen(q)[o]])
      PROVE  IInv'
  <2> DEFINE new == [[q EXCEPT !.org = o, !.todo = @ \ {o}] EXCEPT !.pc = "got",
                                                                   !.row = Seen(q)[o]]
  <2>1. o \in Orgs /\ o \in DOMAIN Seen(q) /\ Seen(q)[o] \in Rows
    BY <1>0, <1>4, SeenRows, SeenIs, ZenonT(40) DEF WritesFit, ProcStates
  <2>2. new \in ProcStates
    BY <1>0, <2>1 DEF ProcStates, Pcs
  <2>3. /\ new.pc = "got" /\ new.op = "login" /\ new.todo = q.todo \ {o} /\ new.org = o
        /\ new.own = q.own /\ new.put = q.put /\ new.cut = q.cut /\ new.locked = q.locked
        /\ new.groups = q.groups /\ new.roles = q.roles /\ new.row = Seen(q)[o]
    BY <1>0, <1>2 DEF ProcStates
  <2> HIDE DEF new
  <2>4. InHand(new) = {o} /\ Seen(new) = Seen(q)
    BY <2>3, SameSight DEF InHand
  <2>5. ReadsFit(new)
    BY <1>2, <2>1, <2>3, <2>4 DEF ReadsFit
  <2>6. LoginFits(new)
    BY <1>3, <2>3, <2>4, SameExact DEF LoginFits
  <2> QED
    BY <1>2, <1>4, <2>2, <2>3, <2>5, <2>6, QuietStep DEF new
<1>5. ASSUME NEW o \in q.todo, o \notin q.locked,
             Go(p, [[q EXCEPT !.org = o, !.todo = @ \ {o}] EXCEPT !.pc = "get"])
      PROVE  IInv'
  <2> DEFINE new == [[q EXCEPT !.org = o, !.todo = @ \ {o}] EXCEPT !.pc = "get"]
  <2>1. o \in Orgs
    BY <1>0 DEF ProcStates
  <2>2. new \in ProcStates
    BY <1>0, <2>1 DEF ProcStates, Pcs
  <2>3. /\ new.pc = "get" /\ new.op = "login" /\ new.todo = q.todo \ {o} /\ new.org = o
        /\ new.own = q.own /\ new.put = q.put /\ new.cut = q.cut /\ new.locked = q.locked
        /\ new.groups = q.groups /\ new.roles = q.roles
    BY <1>0, <1>2 DEF ProcStates
  <2> HIDE DEF new
  <2>4. InHand(new) = {o}
    BY <2>3 DEF InHand
  <2>5. ReadsFit(new)
    BY <1>2, <2>1, <2>3, <2>4 DEF ReadsFit
  <2>6. LoginFits(new)
    BY <1>3, <2>3, <2>4, SameExact DEF LoginFits
  <2> QED
    BY <1>2, <1>5, <2>2, <2>3, <2>5, <2>6, QuietStep DEF new
<1>6. ASSUME q.todo = {}, Go(p, [q EXCEPT !.pc = "prune", !.todo = q.locked \ q.groups])
      PROVE  IInv'
  <2> DEFINE new == [q EXCEPT !.pc = "prune", !.todo = q.locked \ q.groups]
  <2>2. new \in ProcStates
    BY <1>0 DEF ProcStates, Pcs
  <2>3. /\ new.pc = "prune" /\ new.op = "login" /\ new.todo = q.locked \ q.groups
        /\ new.own = q.own /\ new.put = q.put /\ new.cut = q.cut /\ new.locked = q.locked
        /\ new.groups = q.groups /\ new.roles = q.roles
    BY <1>0, <1>2 DEF ProcStates
  <2> HIDE DEF new
  <2>4. InHand(new) = {}
    BY <2>3 DEF InHand
  <2>5. ReadsFit(new)
    BY <2>3, <2>4 DEF ReadsFit
  <2>6. \A x \in new.locked \ new.todo : Exact(new, x)
    BY <1>3, <1>6, <2>3, SameExact
  <2>7. LoginFits(new)
    BY <2>3, <2>4, <2>6 DEF LoginFits
  <2> QED
    BY <1>2, <1>6, <2>2, <2>3, <2>5, <2>7, QuietStep DEF new
<1> QED
  BY <1>4, <1>5, <1>6 DEF NextGroup

-----------------------------------------------------------------------------
(* One membership is read, created and decided about.                       *)

LEMMA GetStep ==
    ASSUME IInv, NEW p \in Procs, Get(p)
    PROVE  IInv'
<1> DEFINE q == proc[p]
<1>0. /\ q \in ProcStates /\ WritesFit(q) /\ ReadsFit(q) /\ LoginFits(q) /\ TypeOK
  BY Facts
<1>1. q.pc = "get"
  BY DEF Get
<1>2. InHand(q) = {q.org}
  BY <1>1 DEF InHand
<1>3. /\ q.op # "leave" /\ q.org \in Orgs /\ q.org \notin q.todo
      /\ q.op = "create" => q.row \in Rows
      /\ \A x \in q.cut : x[1] \notin q.todo \cup {q.org}
  BY <1>0, <1>1, <1>2 DEF ReadsFit
<1>4. q.op = "login" =>
        /\ q.todo \subseteq q.groups /\ q.org \in q.groups
        /\ \A x \in (q.locked \cap q.groups) \ (q.todo \cup {q.org}) : Exact(q, x)
  BY <1>0, <1>2 DEF LoginFits
<1>5. ASSUME q.op # "login", Go(p, [q EXCEPT !.pc = "commit"])
      PROVE  IInv'
  <2> DEFINE new == [q EXCEPT !.pc = "commit"]
  <2>1. new \in ProcStates
    BY <1>0 DEF ProcStates, Pcs
  <2>2. /\ new.pc = "commit" /\ new.op = q.op /\ new.row = q.row
        /\ new.own = q.own /\ new.put = q.put /\ new.cut = q.cut /\ new.locked = q.locked
    BY <1>0 DEF ProcStates
  <2> HIDE DEF new
  <2>3. InHand(new) = {}
    BY <2>2 DEF InHand
  <2>4. ReadsFit(new) /\ LoginFits(new)
    BY <1>3, <1>5, <2>2, <2>3 DEF ReadsFit, LoginFits
  <2> QED
    BY <1>5, <2>1, <2>2, <2>4, QuietStep DEF new
<1>6. ASSUME q.org \in DOMAIN Seen(q), q.op # "create",
             Go(p, [q EXCEPT !.pc = "got", !.row = Seen(q)[q.org]])
      PROVE  IInv'
  <2> DEFINE new == [q EXCEPT !.pc = "got", !.row = Seen(q)[q.org]]
  <2>1. Seen(q)[q.org] \in Rows
    BY <1>0, <1>6, SeenRows
  <2>2. new \in ProcStates
    BY <1>0, <2>1 DEF ProcStates, Pcs
  <2>3. /\ new.pc = "got" /\ new.op = q.op /\ new.row = Seen(q)[q.org] /\ new.org = q.org
        /\ new.own = q.own /\ new.put = q.put /\ new.cut = q.cut /\ new.locked = q.locked
        /\ new.todo = q.todo /\ new.groups = q.groups /\ new.roles = q.roles
    BY <1>0 DEF ProcStates
  <2> HIDE DEF new
  <2>4. InHand(new) = {q.org} /\ Seen(new) = Seen(q)
    BY <2>3, SameSight DEF InHand
  <2>5. ReadsFit(new)
    BY <1>3, <1>6, <2>1, <2>3, <2>4 DEF ReadsFit
  <2>6. LoginFits(new)
    BY <1>4, <2>3, <2>4, SameExact DEF LoginFits
  <2> QED
    BY <1>6, <2>2, <2>3, <2>5, <2>6, QuietStep DEF new
<1>7. ASSUME Go(p, [q EXCEPT !.pc = "insert"])
      PROVE  IInv'
  <2> DEFINE new == [q EXCEPT !.pc = "insert"]
  <2>2. new \in ProcStates
    BY <1>0 DEF ProcStates, Pcs
  <2>3. /\ new.pc = "insert" /\ new.op = q.op /\ new.row = q.row /\ new.org = q.org
        /\ new.own = q.own /\ new.put = q.put /\ new.cut = q.cut /\ new.locked = q.locked
        /\ new.todo = q.todo /\ new.groups = q.groups /\ new.roles = q.roles
    BY <1>0 DEF ProcStates
  <2> HIDE DEF new
  <2>4. InHand(new) = {q.org}
    BY <2>3 DEF InHand
  <2>5. ReadsFit(new)
    BY <1>3, <2>3, <2>4 DEF ReadsFit
  <2>6. LoginFits(new)
    BY <1>4, <2>3, <2>4, SameExact DEF LoginFits
  <2> QED
    BY <1>7, <2>2, <2>3, <2>5, <2>6, QuietStep DEF new
<1> QED
  BY <1>5, <1>6, <1>7 DEF Get

LEMMA InsertConflictStep ==
    ASSUME IInv, NEW p \in Procs, InsertConflict(p)
    PROVE  IInv'
<1> DEFINE q   == proc[p]
           pc  == IF q.op = "create" THEN "commit" ELSE "get"
           new == [q EXCEPT !.pc = pc]
<1>0. /\ q \in ProcStates /\ WritesFit(q) /\ ReadsFit(q) /\ LoginFits(q)
  BY Facts
<1>1. q.pc = "insert" /\ Go(p, new)
  BY DEF InsertConflict
<1>2. InHand(q) = {q.org}
  BY <1>1 DEF InHand
<1>8. pc \in Pcs /\ pc \in {"commit", "get"} /\ (q.op # "create" => pc = "get")
  BY DEF Pcs
<1> HIDE DEF pc
<1>3. new \in ProcStates
  BY <1>0, <1>8 DEF ProcStates
<1>4. /\ new.pc = pc /\ new.op = q.op /\ new.row = q.row /\ new.org = q.org
      /\ new.own = q.own /\ new.put = q.put /\ new.cut = q.cut /\ new.locked = q.locked
      /\ new.todo = q.todo /\ new.groups = q.groups /\ new.roles = q.roles
  BY <1>0 DEF ProcStates
<1> HIDE DEF new
<1>5. InHand(new) \subseteq {q.org} /\ (q.op # "create" => InHand(new) = {q.org})
  BY <1>4, <1>8 DEF InHand
<1>6. ReadsFit(new)
  BY <1>0, <1>1, <1>2, <1>4, <1>5, <1>8 DEF ReadsFit
<1>7. LoginFits(new)
  BY <1>0, <1>2, <1>4, <1>5, <1>8, SameExact DEF LoginFits
<1> QED
  BY <1>1, <1>3, <1>4, <1>6, <1>7, QuietStep

\* What Written and Deleted do to a transaction.
LEMMA WrittenIs ==
    ASSUME NEW q \in ProcStates, NEW o \in Orgs, NEW row \in Rows
    PROVE  /\ Written(q, o, row) \in ProcStates
           /\ Written(q, o, row).pc = q.pc /\ Written(q, o, row).op = q.op
           /\ Written(q, o, row).org = q.org /\ Written(q, o, row).groups = q.groups
           /\ Written(q, o, row).roles = q.roles /\ Written(q, o, row).todo = q.todo
           /\ Written(q, o, row).locked = q.locked
           /\ Written(q, o, row).row = row
           /\ Written(q, o, row).put = q.put /\ Written(q, o, row).cut = q.cut
           /\ DOMAIN Written(q, o, row).own = DOMAIN q.own \cup {o}
           /\ Written(q, o, row).own[o] = row
           /\ \A x \in DOMAIN q.own : x # o => Written(q, o, row).own[x] = q.own[x]
<1> DEFINE own == [x \in DOMAIN q.own \cup {o} |-> IF x = o THEN row ELSE q.own[x]]
<1>1. q.own \in Tables
  BY DEF ProcStates
<1>2. own \in Tables
  <2>1. DOMAIN own \subseteq Orgs
    BY <1>1, TableIs
  <2>2. \A x \in DOMAIN own : own[x] \in Rows
    BY <1>1, TableIs
  <2>3. own = [x \in DOMAIN own |-> own[x]]
    OBVIOUS
  <2> HIDE DEF own
  <2> QED
    BY <2>1, <2>2, <2>3, TableIs
<1>3. /\ DOMAIN own = DOMAIN q.own \cup {o} /\ own[o] = row
      /\ \A x \in DOMAIN q.own : x # o => own[x] = q.own[x]
  OBVIOUS
<1>4. Written(q, o, row) = [q EXCEPT !.row = row, !.own = own]
  BY DEF Written
<1> HIDE DEF own
<1>5. [q EXCEPT !.row = row, !.own = own] \in ProcStates
  BY <1>2 DEF ProcStates
<1> DEFINE w == [q EXCEPT !.row = row, !.own = own]
<1>6. /\ w.own = own /\ w.row = row /\ w.pc = q.pc /\ w.op = q.op /\ w.org = q.org
      /\ w.groups = q.groups /\ w.roles = q.roles /\ w.todo = q.todo
      /\ w.locked = q.locked /\ w.put = q.put /\ w.cut = q.cut
  BY DEF ProcStates
<1>7. w \in ProcStates /\ Written(q, o, row) = w
  BY <1>4, <1>5
<1> HIDE DEF w
<1> QED
  BY <1>3, <1>6, <1>7

LEMMA DeletedIs ==
    ASSUME NEW q \in ProcStates, NEW rows \in SUBSET (Orgs \X Roles)
    PROVE  /\ Deleted(q, rows) \in ProcStates
           /\ Deleted(q, rows).put = q.put \ rows
           /\ Deleted(q, rows).cut = q.cut \cup (rows \ q.put)
           /\ Deleted(q, rows).pc = q.pc /\ Deleted(q, rows).op = q.op
           /\ Deleted(q, rows).org = q.org /\ Deleted(q, rows).groups = q.groups
           /\ Deleted(q, rows).roles = q.roles /\ Deleted(q, rows).todo = q.todo
           /\ Deleted(q, rows).locked = q.locked
           /\ Deleted(q, rows).row = q.row /\ Deleted(q, rows).own = q.own
<1>1. q.put \in SUBSET (Orgs \X Roles) /\ q.cut \in SUBSET (Orgs \X Roles)
  BY DEF ProcStates
<1>2. Deleted(q, rows) = [q EXCEPT !.put = q.put \ rows, !.cut = q.cut \cup (rows \ q.put)]
  BY DEF Deleted
<1> DEFINE put == q.put \ rows
           cut == q.cut \cup (rows \ q.put)
<1>3. put \in SUBSET (Orgs \X Roles) /\ cut \in SUBSET (Orgs \X Roles)
  BY <1>1
<1> HIDE DEF put, cut
<1> DEFINE w == [q EXCEPT !.put = put, !.cut = cut]
<1>4. w \in ProcStates
  BY <1>3 DEF ProcStates
<1>5. /\ w.own = q.own /\ w.row = q.row /\ w.pc = q.pc /\ w.op = q.op /\ w.org = q.org
      /\ w.groups = q.groups /\ w.roles = q.roles /\ w.todo = q.todo
      /\ w.locked = q.locked /\ w.put = put /\ w.cut = cut
  BY DEF ProcStates
<1>6. Deleted(q, rows) = w
  BY <1>2 DEF put, cut
<1> HIDE DEF w
<1> QED
  BY <1>4, <1>5, <1>6 DEF put, cut

\* A row that was written concerns no other membership.
WroteAt(q, new, o) ==
    /\ DOMAIN new.own = DOMAIN q.own \cup {o}
    /\ \A y \in DOMAIN q.own : y # o => new.own[y] = q.own[y]

LEMMA SameElsewhere ==
    ASSUME NEW q, NEW new, NEW o, WroteAt(q, new, o), NEW x \in DOMAIN Seen(q), x # o
    PROVE  x \in DOMAIN Seen(new) /\ Seen(new)[x] = Seen(q)[x]
<1>1. CASE x \in DOMAIN q.own
  BY <1>1, SeenIs DEF WroteAt
<1>2. CASE x \notin DOMAIN q.own
  BY <1>2, SeenIs DEF WroteAt
<1> QED
  BY <1>1, <1>2

LEMMA ExactElsewhere ==
    ASSUME NEW q, NEW new, NEW x, Seen(new)[x] = Seen(q)[x],
           RolesOf(SeenRoles(new), x) \subseteq RolesOf(SeenRoles(q), x),
           new.groups = q.groups, new.roles = q.roles, Exact(q, x)
    PROVE  Exact(new, x)
BY DEF Exact

\* The roles a transaction wrote are of memberships it sees.
LEMMA RolesSeen ==
    ASSUME TypeOK, NEW q, WritesFit(q), NEW x \in q.put \cup q.cut
    PROVE  x[1] \in DOMAIN Seen(q)
<1>1. CASE x \in q.put
  BY <1>1 DEF WritesFit
<1>2. CASE x \in q.cut
  BY <1>2, SeenIs DEF WritesFit, TypeOK
<1> QED
  BY <1>1, <1>2

\* A row was written.
LEMMA WroteRow ==
    ASSUME TypeOK, NEW q, WritesFit(q), NEW new, NEW o, WroteAt(q, new, o),
           new.put = q.put, new.cut = q.cut, new.locked = q.locked, new.op = q.op,
           o \in DOMAIN members => Becomes(members[o], new.own[o]),
           q.op \in {"login", "join", "leave"} => new.own[o].origin = "keycloak"
    PROVE  WritesFit(new)
<1>1. \A x \in DOMAIN new.own \cap DOMAIN members : Becomes(members[x], new.own[x])
  BY DEF WritesFit, WroteAt
<1>2. DOMAIN Seen(q) \subseteq DOMAIN Seen(new)
  BY SeenIs DEF WroteAt
<1>3. new.put \subseteq ((DOMAIN Seen(new)) \X Roles) \ assigned
  BY <1>2 DEF WritesFit
<1>4. ASSUME q.op \in {"login", "join", "leave"},
             NEW x \in DOMAIN new.own \cup {y[1] : y \in new.put \cup new.cut}
      PROVE  Seen(new)[x].origin = "keycloak"
  <2>1. CASE x = o
    <3>1. o \in DOMAIN new.own
      BY DEF WroteAt
    <3>2. Seen(new)[o] = new.own[o]
      BY <3>1, SeenIs
    <3> QED
      BY <1>4, <2>1, <3>2
  <2>2. CASE x # o
    <3>1. x \in DOMAIN q.own \cup {y[1] : y \in q.put \cup q.cut}
      BY <2>2 DEF WroteAt
    <3>2. x \in DOMAIN Seen(q)
      <4>1. CASE x \in DOMAIN q.own
        BY <4>1, SeenIs
      <4>2. CASE x \notin DOMAIN q.own
        <5>1. PICK y \in q.put \cup q.cut : x = y[1]
          BY <3>1, <4>2
        <5> QED
          BY <5>1, RolesSeen
      <4> QED
        BY <4>1, <4>2
    <3>3. Seen(q)[x].origin = "keycloak"
      BY <1>4, <3>1 DEF WritesFit
    <3> QED
      BY <2>2, <3>2, <3>3, SameElsewhere
  <2> QED
    BY <2>1, <2>2
<1> QED
  BY <1>1, <1>3, <1>4 DEF WritesFit

\* Roles were deleted, of a membership that is not manual.
CutFrom(q, new, rows) ==
    /\ new.own = q.own /\ new.locked = q.locked /\ new.op = q.op
    /\ new.put = q.put \ rows /\ new.cut = q.cut \cup (rows \ q.put)

LEMMA CutRoles ==
    ASSUME TypeOK, NEW q, WritesFit(q), NEW new, NEW rows, CutFrom(q, new, rows), NEW o,
           rows \subseteq RolesOf(SeenRoles(q), o),
           q.op \in {"login", "join", "leave"} => Seen(q)[o].origin = "keycloak"
    PROVE  /\ WritesFit(new) /\ Seen(new) = Seen(q)
           /\ SeenRoles(new) = SeenRoles(q) \ rows
<1>0. /\ new.own = q.own /\ new.locked = q.locked /\ new.op = q.op
      /\ new.put = q.put \ rows /\ new.cut = q.cut \cup (rows \ q.put)
  BY DEF CutFrom
<1>1. Seen(new) = Seen(q)
  BY <1>0 DEF Seen
<1>2. q.put \cap assigned = {} /\ q.cut \subseteq assigned
  BY DEF WritesFit
<1>3. rows \ q.put \subseteq assigned /\ \A x \in rows : x[1] = o
  BY DEF SeenRoles, RolesOf
<1>4. SeenRoles(new) = SeenRoles(q) \ rows
  <2>1. SeenRoles(new) = (assigned \ (q.cut \cup (rows \ q.put))) \cup (q.put \ rows)
    BY <1>0 DEF SeenRoles
  <2>2. SeenRoles(q) = (assigned \ q.cut) \cup q.put
    BY DEF SeenRoles
  <2> QED
    BY <1>2, <2>1, <2>2
<1>5. ASSUME q.op \in {"login", "join", "leave"},
             NEW x \in DOMAIN new.own \cup {y[1] : y \in new.put \cup new.cut}
      PROVE  Seen(new)[x].origin = "keycloak"
  <2>1. x = o \/ x \in DOMAIN q.own \cup {y[1] : y \in q.put \cup q.cut}
    BY <1>0, <1>3
  <2> QED
    BY <1>0, <1>1, <1>5, <2>1 DEF WritesFit
<1>6. /\ new.put \subseteq ((DOMAIN Seen(new)) \X Roles) \ assigned
      /\ new.cut \subseteq assigned
  BY <1>0, <1>1, <1>2, <1>3 DEF WritesFit
<1>7. WritesFit(new)
  BY <1>0, <1>1, <1>5, <1>6 DEF WritesFit
<1> QED
  BY <1>1, <1>4, <1>7

LEMMA InsertMembershipStep ==
    ASSUME IInv, NEW p \in Procs, InsertMembership(p)
    PROVE  IInv'
<1> DEFINE q   == proc[p]
           row == CASE q.op = "create"    -> q.row
                    [] q.op = "provision" -> Row("active", "manual")
                    [] OTHER              -> Row("active", "keycloak")
           pc  == IF q.op = "create" THEN "commit" ELSE "got"
           w   == Written(q, q.org, row)
           new == [w EXCEPT !.pc = pc]
<1>0. /\ q \in ProcStates /\ WritesFit(q) /\ ReadsFit(q) /\ LoginFits(q) /\ TypeOK
      /\ \A r \in Procs \ {p} : Apart(q, proc[r])
  BY Facts
<1>1. q.pc = "insert" /\ RowFree(p, q.org) /\ q.org \notin DOMAIN members /\ Go(p, new)
  BY DEF InsertMembership
<1>2. InHand(q) = {q.org}
  BY <1>1 DEF InHand
<1>3. /\ q.op # "leave" /\ q.org \in Orgs /\ q.org \notin q.todo
      /\ q.op = "create" => q.row \in Rows
      /\ \A x \in q.cut : x[1] \notin q.todo \cup {q.org}
  BY <1>0, <1>1, <1>2 DEF ReadsFit
<1>4. row \in Rows
  BY <1>3, NewRow DEF Statuses
<1>5. q.op \in {"login", "join", "leave"} => row.origin = "keycloak"
  BY NewRow DEF Statuses
<1>6. pc \in Pcs /\ pc \in {"commit", "got"} /\ (q.op # "create" => pc = "got")
  BY DEF Pcs
<1> HIDE DEF row, pc
<1>7. /\ w \in ProcStates /\ w.op = q.op /\ w.org = q.org /\ w.groups = q.groups
      /\ w.roles = q.roles /\ w.todo = q.todo /\ w.locked = q.locked /\ w.row = row
      /\ w.put = q.put /\ w.cut = q.cut
      /\ DOMAIN w.own = DOMAIN q.own \cup {q.org} /\ w.own[q.org] = row
      /\ \A x \in DOMAIN q.own : x # q.org => w.own[x] = q.own[x]
  BY <1>0, <1>3, <1>4, WrittenIs
<1> HIDE DEF w
<1>8. new \in ProcStates
  BY <1>6, <1>7 DEF ProcStates
<1>9. /\ new.op = q.op /\ new.org = q.org /\ new.groups = q.groups /\ new.pc = pc
      /\ new.roles = q.roles /\ new.todo = q.todo /\ new.locked = q.locked /\ new.row = row
      /\ new.put = q.put /\ new.cut = q.cut /\ new.own = w.own
  BY <1>7 DEF ProcStates
<1> HIDE DEF new
<1>10. WroteAt(q, new, q.org) /\ new.own[q.org] = row
  BY <1>7, <1>9 DEF WroteAt
<1>11. WritesFit(new)
  BY <1>0, <1>1, <1>5, <1>9, <1>10, WroteRow
<1>12. \A r \in Procs \ {p} : Apart(new, proc[r])
  BY <1>0, <1>1, <1>9, <1>10 DEF Apart, RowFree, Others, WroteAt
<1>13. InHand(new) \subseteq {q.org} /\ (q.op # "create" => InHand(new) = {q.org})
  BY <1>6, <1>9 DEF InHand
<1>14. q.org \in DOMAIN Seen(new) /\ Seen(new)[q.org] = row
  <2>1. q.org \in DOMAIN new.own
    BY <1>10 DEF WroteAt
  <2> QED
    BY <1>10, <2>1, SeenIs
<1>15. ReadsFit(new)
  <2>1. CASE new.pc = "commit"
    <3>1. InHand(new) = {}
      BY <2>1 DEF InHand
    <3> QED
      BY <1>4, <1>9, <2>1, <3>1 DEF ReadsFit
  <2>2. CASE new.pc = "got"
    <3>1. InHand(new) = {new.org}
      BY <2>2 DEF InHand
    <3>2. Seen(new)[new.org] = new.row /\ new.org \in DOMAIN Seen(new) /\ new.row \in Rows
      BY <1>4, <1>9, <1>14
    <3> QED
      BY <1>3, <1>9, <2>2, <3>1, <3>2 DEF ReadsFit
  <2> QED
    BY <1>6, <1>9, <2>1, <2>2
<1>16. ASSUME NEW x \in q.locked, x # q.org, Exact(q, x) PROVE Exact(new, x)
  <2>1. x \in DOMAIN Seen(q)
    <3>1. x \in DOMAIN members
      BY <1>0, <1>16 DEF WritesFit
    <3> QED
      BY <3>1, SeenIs
  <2>2. Seen(new)[x] = Seen(q)[x]
    BY <1>10, <1>16, <2>1, SameElsewhere
  <2>3. SeenRoles(new) = SeenRoles(q)
    BY <1>9 DEF SeenRoles
  <2> QED
    BY <1>9, <1>16, <2>2, <2>3, ExactElsewhere
<1>17. LoginFits(new)
  BY <1>0, <1>2, <1>6, <1>9, <1>13, <1>16 DEF LoginFits
<1> QED
  BY <1>1, <1>8, <1>11, <1>12, <1>15, <1>17, LocalStep

\* Through with a membership: a login goes on with the next group, once what it
\* locked is as its token says; any other transaction commits.
LEMMA ThroughIs ==
    ASSUME NEW q \in ProcStates, q.op = "create" => q.row \in Rows,
           \A x \in q.cut : x[1] \notin q.todo,
           q.op = "login" =>
              /\ q.todo \subseteq q.groups
              /\ \A x \in (q.locked \cap q.groups) \ q.todo : Exact(q, x)
    PROVE  /\ Through(q) \in ProcStates
           /\ Through(q).own = q.own /\ Through(q).put = q.put /\ Through(q).cut = q.cut
           /\ Through(q).op = q.op /\ Through(q).locked = q.locked
           /\ ReadsFit(Through(q)) /\ LoginFits(Through(q))
<1> DEFINE pc  == IF q.op = "login" THEN "next" ELSE "commit"
           new == [q EXCEPT !.pc = pc]
<1>1. Through(q) = new
  BY DEF Through
<1>2. /\ pc \in Pcs /\ pc \in {"next", "commit"} /\ (pc = "next" => q.op = "login")
      /\ (pc = "commit" => q.op # "login")
  BY DEF Pcs
<1> HIDE DEF pc
<1>3. new \in ProcStates
  BY <1>2 DEF ProcStates
<1>4. /\ new.op = q.op /\ new.org = q.org /\ new.groups = q.groups /\ new.pc = pc
      /\ new.roles = q.roles /\ new.todo = q.todo /\ new.locked = q.locked
      /\ new.row = q.row /\ new.put = q.put /\ new.cut = q.cut /\ new.own = q.own
  BY DEF ProcStates
<1> HIDE DEF new
<1>5. InHand(new) = {}
  BY <1>2, <1>4 DEF InHand
<1>6. ReadsFit(new)
  BY <1>2, <1>4, <1>5 DEF ReadsFit
<1>7. LoginFits(new)
  BY <1>2, <1>4, <1>5, SameExact DEF LoginFits
<1> QED
  BY <1>1, <1>3, <1>4, <1>6, <1>7

\* What is known of the membership in hand.
LEMMA HandIs ==
    ASSUME IInv, NEW p \in Procs, proc[p].pc \in {"got", "activate", "roles", "remove"}
    PROVE  LET q == proc[p] IN
           /\ InHand(q) = {q.org} /\ q.op # "leave" /\ q.org \notin q.todo
           /\ q.org \in DOMAIN Seen(q) /\ q.org \in Orgs
           /\ q.row \in Rows /\ q.row.origin = Seen(q)[q.org].origin
           /\ q.org \in q.locked => q.row = Seen(q)[q.org]
           /\ q.pc # "got" /\ q.op \in {"login", "join"} => q.row.origin = "keycloak"
           /\ q.pc \in {"roles", "remove"} /\ q.op = "login" => q.row.status = "active"
           /\ \A x \in q.cut : x[1] \notin q.todo \cup {q.org}
           /\ q.op = "login" =>
                 /\ q.todo \subseteq q.groups /\ q.org \in q.groups
                 /\ \A x \in (q.locked \cap q.groups) \ (q.todo \cup {q.org}) : Exact(q, x)
<1> DEFINE q == proc[p]
<1>0. q \in ProcStates /\ ReadsFit(q) /\ LoginFits(q) /\ TypeOK
  BY Facts
<1>1. InHand(q) = {q.org}
  BY DEF InHand
<1>2. q.org \in DOMAIN Seen(q)
  BY <1>0 DEF ReadsFit
<1>3. q.org \in Orgs
  BY <1>0, <1>2, SeenRows
<1>4. /\ q.op # "leave" /\ q.org \notin q.todo
      /\ q.row \in Rows /\ q.row.origin = Seen(q)[q.org].origin
      /\ q.org \in q.locked => q.row = Seen(q)[q.org]
      /\ q.pc # "got" /\ q.op \in {"login", "join"} => q.row.origin = "keycloak"
      /\ q.pc \in {"roles", "remove"} /\ q.op = "login" => q.row.status = "active"
      /\ \A x \in q.cut : x[1] \notin q.todo \cup {q.org}
  BY <1>0, <1>1 DEF ReadsFit
<1>5. q.op = "login" =>
        /\ q.todo \subseteq q.groups /\ q.org \in q.groups
        /\ \A x \in (q.locked \cap q.groups) \ (q.todo \cup {q.org}) : Exact(q, x)
  BY <1>0, <1>1 DEF LoginFits
<1> QED
  BY <1>1, <1>2, <1>3, <1>4, <1>5

\* The transaction stays with the membership in hand.
LEMMA InHandStep ==
    ASSUME IInv, NEW p \in Procs, proc[p].pc \in {"got", "activate", "roles", "remove"},
           NEW pc \in {"activate", "roles", "remove"}, NEW want \in SUBSET Roles,
           proc[p].op \in {"login", "join"} => proc[p].row.origin = "keycloak",
           pc \in {"roles", "remove"} /\ proc[p].op = "login" => proc[p].row.status = "active",
           Go(p, [proc[p] EXCEPT !.pc = pc, !.want = want])
    PROVE  IInv'
<1> DEFINE q   == proc[p]
           new == [q EXCEPT !.pc = pc, !.want = want]
<1>0. q \in ProcStates
  BY Facts
<1>1. new \in ProcStates
  BY <1>0 DEF ProcStates, Pcs
<1>2. /\ new.op = q.op /\ new.org = q.org /\ new.groups = q.groups /\ new.pc = pc
      /\ new.roles = q.roles /\ new.todo = q.todo /\ new.locked = q.locked
      /\ new.row = q.row /\ new.put = q.put /\ new.cut = q.cut /\ new.own = q.own
  BY <1>0 DEF ProcStates
<1>3. Go(p, new)
  OBVIOUS
<1> HIDE DEF new
<1>4. InHand(new) = {q.org} /\ Seen(new) = Seen(q)
  BY <1>2, SameSight DEF InHand
<1>5. ReadsFit(new)
  <2>1. /\ q.op # "leave" /\ q.org \notin q.todo /\ q.org \in DOMAIN Seen(q)
        /\ q.row \in Rows /\ q.row.origin = Seen(q)[q.org].origin
        /\ q.org \in q.locked => q.row = Seen(q)[q.org]
        /\ \A x \in q.cut : x[1] \notin q.todo \cup {q.org}
    BY HandIs
  <2> QED
    BY <1>2, <1>4, <2>1 DEF ReadsFit
<1>6. LoginFits(new)
  <2>1. q.op = "login" =>
          /\ q.todo \subseteq q.groups /\ q.org \in q.groups
          /\ \A x \in (q.locked \cap q.groups) \ (q.todo \cup {q.org}) : Exact(q, x)
    BY HandIs
  <2> QED
    BY <1>2, <1>4, <2>1, SameExact DEF LoginFits
<1> QED
  BY <1>1, <1>2, <1>3, <1>5, <1>6, QuietStep

LEMMA DecideStep ==
    ASSUME IInv, NEW p \in Procs, Decide(p)
    PROVE  IInv'
<1> DEFINE q == proc[p]
<1>0. /\ q \in ProcStates /\ WritesFit(q) /\ TypeOK /\ CallerFits
      /\ q.op = "create" => q.row \in Rows
  BY Facts DEF IInv, ReadsFit
<1>1. q.pc = "got"
  BY DEF Decide
<1>2. CASE NothingToDo(q)
  <2>1. Go(p, Through(q))
    <3>1. q.op # "remove role"
      BY <1>2 DEF NothingToDo
    <3> QED
      BY <1>2, <3>1 DEF Decide
  <2>2. ASSUME q.op = "login", NEW x \in (q.locked \cap q.groups) \ q.todo PROVE Exact(q, x)
    <3>1. CASE x # q.org
      BY <1>1, <2>2, <3>1, HandIs
    <3>2. CASE x = q.org
      <4>1. q.row = Seen(q)[x] /\ x \in DOMAIN members /\ x \in q.groups
        BY <1>0, <1>1, <2>2, <3>2, HandIs DEF WritesFit
      <4>2. Seen(q)[x].origin = members[x].origin
        BY <1>0, <4>1, OriginsSeen
      <4>3. CASE q.row.origin = "manual"
        BY <4>1, <4>3 DEF Exact
      <4>4. CASE q.row.status = "active" /\ ~ Active(q.row, x)
        <5>1. x \in Inactive \/ members[x].origin = "manual"
          BY <1>0, <4>4 DEF Active, CallerFits
        <5>2. CASE x \in Inactive
          BY <4>1, <4>4, <5>2 DEF Exact
        <5>3. CASE members[x].origin = "manual"
          BY <4>1, <4>2, <5>3 DEF Exact
        <5> QED
          BY <5>1, <5>2, <5>3
      <4> QED
        BY <1>2, <2>2, <3>2, <4>3, <4>4 DEF NothingToDo
    <3> QED
      BY <3>1, <3>2
  <2>3. q.op = "login" => q.todo \subseteq q.groups
    BY <1>1, HandIs
  <2>4. \A x \in q.cut : x[1] \notin q.todo
    BY <1>1, HandIs
  <2> QED
    BY <1>0, <2>1, <2>2, <2>3, <2>4, ThroughIs, QuietStep
<1>3. CASE ~ NothingToDo(q)
  <2> DEFINE activates == q.op \in {"login", "join", "provision"} /\ q.row.status # "active"
  <2>1. q.op \in {"login", "join"} => q.row.origin = "keycloak"
    <3>1. q.row \in Rows
      BY <1>1, HandIs
    <3>2. q.row.origin \in {"keycloak", "manual"}
      BY <3>1, RowIs
    <3> QED
      BY <1>3, <3>2 DEF NothingToDo
  <2>2. q.want \in SUBSET Roles /\ q.roles \in SUBSET Roles /\ q = [q EXCEPT !.want = q.want]
    BY <1>0 DEF ProcStates
  <2>3. CASE activates
    <3>1. Go(p, [q EXCEPT !.pc = "activate"])
      BY <1>3, <2>3 DEF Decide
    <3>2. [q EXCEPT !.pc = "activate"] = [q EXCEPT !.pc = "activate", !.want = q.want]
      BY <1>0 DEF ProcStates
    <3> QED
      BY <1>1, <2>1, <2>2, <3>1, <3>2, InHandStep
  <2>4. CASE ~ activates /\ q.op = "remove role"
    <3>1. Go(p, [q EXCEPT !.pc = "remove"])
      BY <1>3, <2>4 DEF Decide
    <3>2. [q EXCEPT !.pc = "remove"] = [q EXCEPT !.pc = "remove", !.want = q.want]
      BY <1>0 DEF ProcStates
    <3> QED
      BY <1>1, <2>1, <2>2, <2>4, <3>1, <3>2, InHandStep
  <2>5. CASE ~ activates /\ q.op # "remove role"
    <3>1. Go(p, [q EXCEPT !.pc = "roles", !.want = q.roles])
      BY <1>3, <2>5 DEF Decide
    <3>2. q.op = "login" => q.row.status = "active"
      BY <2>5
    <3> QED
      BY <1>1, <2>1, <2>2, <3>1, <3>2, InHandStep
  <2> QED
    BY <2>3, <2>4, <2>5
<1> QED
  BY <1>2, <1>3

LEMMA ActivateStep ==
    ASSUME IInv, NEW p \in Procs, Activate(p)
    PROVE  IInv'
<1> DEFINE q   == proc[p]
           row == [Seen(q)[q.org] EXCEPT !.status = "active"]
           w   == Written(q, q.org, row)
           new == [w EXCEPT !.pc = "got"]
<1>0. /\ q \in ProcStates /\ WritesFit(q) /\ TypeOK
      /\ q.op = "create" => q.row \in Rows
      /\ \A r \in Procs \ {p} : Apart(q, proc[r])
  BY Facts DEF ReadsFit
<1>1. q.pc = "activate" /\ RowFree(p, q.org) /\ Go(p, new)
  BY DEF Activate
<1>2. /\ q.op # "leave" /\ q.org \notin q.todo /\ q.org \in Orgs /\ q.org \in DOMAIN Seen(q)
      /\ q.row.origin = Seen(q)[q.org].origin
      /\ q.op \in {"login", "join"} => q.row.origin = "keycloak"
      /\ \A x \in q.cut : x[1] \notin q.todo \cup {q.org}
      /\ q.op = "login" =>
            /\ q.todo \subseteq q.groups /\ q.org \in q.groups
            /\ \A x \in (q.locked \cap q.groups) \ (q.todo \cup {q.org}) : Exact(q, x)
  BY <1>1, HandIs
<1>3. Seen(q)[q.org] \in Rows
  BY <1>0, <1>2, SeenRows
<1>4. row \in Rows /\ row.status = "active" /\ row.origin = q.row.origin
  BY <1>2, <1>3, StatusSet DEF Statuses
<1> HIDE DEF row
<1>7. /\ w \in ProcStates /\ w.op = q.op /\ w.org = q.org /\ w.groups = q.groups
      /\ w.roles = q.roles /\ w.todo = q.todo /\ w.locked = q.locked /\ w.row = row
      /\ w.put = q.put /\ w.cut = q.cut
      /\ DOMAIN w.own = DOMAIN q.own \cup {q.org} /\ w.own[q.org] = row
      /\ \A x \in DOMAIN q.own : x # q.org => w.own[x] = q.own[x]
  BY <1>0, <1>2, <1>4, WrittenIs
<1> HIDE DEF w
<1>8. new \in ProcStates
  BY <1>7 DEF ProcStates, Pcs
<1>9. /\ new.op = q.op /\ new.org = q.org /\ new.groups = q.groups /\ new.pc = "got"
      /\ new.roles = q.roles /\ new.todo = q.todo /\ new.locked = q.locked /\ new.row = row
      /\ new.put = q.put /\ new.cut = q.cut /\ new.own = w.own
  BY <1>7 DEF ProcStates
<1> HIDE DEF new
<1>10. WroteAt(q, new, q.org) /\ new.own[q.org] = row
  BY <1>7, <1>9 DEF WroteAt
<1>11. WritesFit(new)
  <2>1. q.org \in DOMAIN members => Becomes(members[q.org], row)
    BY <1>0, <1>2, <1>4, OriginsSeen DEF Becomes
  <2> QED
    BY <1>0, <1>2, <1>4, <1>9, <1>10, <2>1, WroteRow
<1>12. \A r \in Procs \ {p} : Apart(new, proc[r])
  BY <1>0, <1>1, <1>9, <1>10 DEF Apart, RowFree, Others, WroteAt
<1>13. InHand(new) = {q.org}
  BY <1>9 DEF InHand
<1>14. q.org \in DOMAIN Seen(new) /\ Seen(new)[q.org] = row
  <2>1. q.org \in DOMAIN new.own
    BY <1>10 DEF WroteAt
  <2> QED
    BY <1>10, <2>1, SeenIs
<1>15. ReadsFit(new)
  BY <1>2, <1>4, <1>9, <1>13, <1>14 DEF ReadsFit
<1>16. ASSUME NEW x \in q.locked, x # q.org, Exact(q, x) PROVE Exact(new, x)
  <2>1. x \in DOMAIN Seen(q)
    <3>1. x \in DOMAIN members
      BY <1>0, <1>16 DEF WritesFit
    <3> QED
      BY <3>1, SeenIs
  <2>2. Seen(new)[x] = Seen(q)[x]
    BY <1>10, <1>16, <2>1, SameElsewhere
  <2>3. SeenRoles(new) = SeenRoles(q)
    BY <1>9 DEF SeenRoles
  <2> QED
    BY <1>9, <1>16, <2>2, <2>3, ExactElsewhere
<1>17. LoginFits(new)
  BY <1>2, <1>9, <1>13, <1>16 DEF LoginFits
<1> QED
  BY <1>1, <1>8, <1>11, <1>12, <1>15, <1>17, LocalStep

-----------------------------------------------------------------------------
(* Roles are added and removed.                                             *)

LEMMA AddRoleStep ==
    ASSUME IInv, NEW p \in Procs, AddRole(p)
    PROVE  IInv'
<1> DEFINE q == proc[p]
<1>0. /\ q \in ProcStates /\ WritesFit(q) /\ TypeOK
      /\ q.op = "create" => q.row \in Rows
      /\ \A r \in Procs \ {p} : Apart(q, proc[r])
  BY Facts DEF ReadsFit
<1>1. q.pc = "roles"
  BY DEF AddRole
<1>2. /\ q.op # "leave" /\ q.org \notin q.todo /\ q.org \in Orgs /\ q.org \in DOMAIN Seen(q)
      /\ q.row \in Rows /\ q.row.origin = Seen(q)[q.org].origin
      /\ q.org \in q.locked => q.row = Seen(q)[q.org]
      /\ q.op \in {"login", "join"} => q.row.origin = "keycloak"
      /\ q.op = "login" => q.row.status = "active"
      /\ \A x \in q.cut : x[1] \notin q.todo \cup {q.org}
      /\ q.op = "login" =>
            /\ q.todo \subseteq q.groups /\ q.org \in q.groups
            /\ \A x \in (q.locked \cap q.groups) \ (q.todo \cup {q.org}) : Exact(q, x)
  BY <1>1, HandIs
<1>3. ASSUME NEW r \in q.want, Go(p, [q EXCEPT !.want = @ \ {r}])
      PROVE  IInv'
  <2>1. [q EXCEPT !.want = @ \ {r}] = [q EXCEPT !.pc = "roles", !.want = q.want \ {r}]
    BY <1>0, <1>1 DEF ProcStates
  <2>2. q.want \ {r} \in SUBSET Roles
    BY <1>0 DEF ProcStates
  <2> QED
    BY <1>1, <1>2, <1>3, <2>1, <2>2, InHandStep
<1>4. ASSUME NEW r \in q.want, <<q.org, r>> \notin SeenRoles(q), RolesFree(p, {<<q.org, r>>}),
             Go(p, [[q EXCEPT !.want = @ \ {r}] EXCEPT !.put = @ \cup {<<q.org, r>>}])
      PROVE  IInv'
  <2> DEFINE x   == <<q.org, r>>
             new == [[q EXCEPT !.want = @ \ {r}] EXCEPT !.put = @ \cup {x}]
  <2>1. x \in Orgs \X Roles /\ x[1] = q.org
    BY <1>0, <1>2 DEF ProcStates
  <2>2. Go(p, new) /\ x \notin SeenRoles(q) /\ RolesFree(p, {x})
    BY <1>4
  <2>9. x \in (DOMAIN Seen(q)) \X Roles
    BY <1>0, <1>2 DEF ProcStates
  <2> HIDE DEF x
  <2>3. new \in ProcStates
    BY <1>0, <2>1 DEF ProcStates
  <2>4. /\ new.op = q.op /\ new.org = q.org /\ new.groups = q.groups /\ new.pc = "roles"
        /\ new.roles = q.roles /\ new.todo = q.todo /\ new.locked = q.locked
        /\ new.row = q.row /\ new.put = q.put \cup {x} /\ new.cut = q.cut /\ new.own = q.own
    BY <1>0, <1>1 DEF ProcStates
  <2> HIDE DEF new
  <2>5. InHand(new) = {q.org} /\ Seen(new) = Seen(q)
    BY <2>4 DEF InHand, Seen
  <2>6. WritesFit(new)
    <3>1. x \notin assigned
      <4>1. x \notin q.cut
        BY <1>2, <2>1
      <4> QED
        BY <2>2, <4>1 DEF SeenRoles
    <3>2. new.put \subseteq ((DOMAIN Seen(new)) \X Roles) \ assigned
      BY <1>0, <2>4, <2>5, <2>9, <3>1 DEF WritesFit
    <3>3. ASSUME q.op \in {"login", "join", "leave"},
                 NEW o \in DOMAIN new.own \cup {y[1] : y \in new.put \cup new.cut}
          PROVE  Seen(new)[o].origin = "keycloak"
      <4>1. o = q.org \/ o \in DOMAIN q.own \cup {y[1] : y \in q.put \cup q.cut}
        BY <2>1, <2>4
      <4> QED
        BY <1>0, <1>2, <2>5, <3>3, <4>1 DEF WritesFit
    <3> QED
      BY <1>0, <2>4, <3>2, <3>3 DEF WritesFit
  <2>7. \A s \in Procs \ {p} : Apart(new, proc[s])
    BY <1>0, <2>2, <2>4 DEF Apart, RolesFree, Others
  <2>8. ReadsFit(new)
    BY <1>0, <1>2, <2>4, <2>5 DEF ReadsFit
  <2>10. ASSUME NEW o, o # q.org, Exact(q, o) PROVE Exact(new, o)
    <3>1. RolesOf(SeenRoles(new), o) \subseteq RolesOf(SeenRoles(q), o)
      BY <2>1, <2>4, <2>10 DEF RolesOf, SeenRoles
    <3> QED
      BY <2>4, <2>5, <2>10, <3>1, ExactElsewhere
  <2>11. LoginFits(new)
    BY <1>2, <2>4, <2>5, <2>10 DEF LoginFits
  <2> QED
    BY <2>2, <2>3, <2>6, <2>7, <2>8, <2>11, LocalStep
<1>5. ASSUME q.op = "login", Go(p, [q EXCEPT !.pc = "remove"])
      PROVE  IInv'
  <2>1. [q EXCEPT !.pc = "remove"] = [q EXCEPT !.pc = "remove", !.want = q.want]
    BY <1>0 DEF ProcStates
  <2>2. q.want \in SUBSET Roles
    BY <1>0 DEF ProcStates
  <2> QED
    BY <1>1, <1>2, <1>5, <2>1, <2>2, InHandStep
<1>6. ASSUME q.op # "login", Go(p, Through(q))
      PROVE  IInv'
  <2>1. \A x \in q.cut : x[1] \notin q.todo
    BY <1>2
  <2> QED
    BY <1>0, <1>6, <2>1, ThroughIs, QuietStep
<1> QED
  BY <1>3, <1>4, <1>5, <1>6 DEF AddRole

LEMMA RemoveRolesStep ==
    ASSUME IInv, NEW p \in Procs, RemoveRoles(p)
    PROVE  IInv'
<1> DEFINE q    == proc[p]
           gone == {x \in RolesOf(SeenRoles(q), q.org) :
                       (x[2] \in q.roles) = (q.op = "remove role")}
           w    == Deleted(q, gone)
           new  == Through(w)
<1>0. /\ q \in ProcStates /\ WritesFit(q) /\ TypeOK
      /\ q.op = "create" => q.row \in Rows
      /\ \A r \in Procs \ {p} : Apart(q, proc[r])
  BY Facts DEF ReadsFit
<1>1. q.pc = "remove" /\ RolesFree(p, gone) /\ Go(p, new)
  BY DEF RemoveRoles
<1>2. /\ q.op # "leave" /\ q.org \notin q.todo /\ q.org \in Orgs /\ q.org \in DOMAIN Seen(q)
      /\ q.row.origin = Seen(q)[q.org].origin
      /\ q.org \in q.locked => q.row = Seen(q)[q.org]
      /\ q.op \in {"login", "join"} => q.row.origin = "keycloak"
      /\ q.op = "login" => q.row.status = "active"
      /\ \A x \in q.cut : x[1] \notin q.todo \cup {q.org}
      /\ q.op = "login" =>
            /\ q.todo \subseteq q.groups /\ q.org \in q.groups
            /\ \A x \in (q.locked \cap q.groups) \ (q.todo \cup {q.org}) : Exact(q, x)
  BY <1>1, HandIs
<1>3. /\ gone \subseteq RolesOf(SeenRoles(q), q.org)
      /\ \A x \in gone : x[1] = q.org
      /\ q.op = "login" => \A x \in RolesOf(SeenRoles(q), q.org) \ gone : x[2] \in q.roles
  <2>1. gone \subseteq RolesOf(SeenRoles(q), q.org)
    OBVIOUS
  <2>2. \A x \in RolesOf(SeenRoles(q), q.org) : x[1] = q.org
    BY DEF RolesOf
  <2>3. ASSUME q.op = "login", NEW x \in RolesOf(SeenRoles(q), q.org), x \notin gone
        PROVE  x[2] \in q.roles
    BY <2>3
  <2> QED
    BY <2>1, <2>2, <2>3
<1> HIDE DEF gone
<1>4. gone \in SUBSET (Orgs \X Roles)
  <2>1. assigned \subseteq Orgs \X Roles
    <3>1. DOMAIN members \subseteq Orgs
      BY <1>0, TableIs DEF TypeOK
    <3> QED
      BY <1>0, <3>1 DEF TypeOK
  <2>2. q.put \subseteq Orgs \X Roles
    BY <1>0 DEF ProcStates
  <2> QED
    BY <1>3, <2>1, <2>2 DEF RolesOf, SeenRoles
<1>5. /\ w \in ProcStates /\ w.op = q.op /\ w.org = q.org /\ w.groups = q.groups
      /\ w.roles = q.roles /\ w.todo = q.todo /\ w.locked = q.locked /\ w.row = q.row
      /\ w.own = q.own /\ w.put = q.put \ gone /\ w.cut = q.cut \cup (gone \ q.put)
  BY <1>0, <1>4, DeletedIs
<1> HIDE DEF w
<1>6. WritesFit(w) /\ Seen(w) = Seen(q) /\ SeenRoles(w) = SeenRoles(q) \ gone
  <2>1. q.op \in {"login", "join", "leave"} => Seen(q)[q.org].origin = "keycloak"
    BY <1>2
  <2>2. CutFrom(q, w, gone)
    BY <1>5 DEF CutFrom
  <2> QED
    BY <1>0, <1>3, <2>1, <2>2, CutRoles
<1>7. \A r \in Procs \ {p} : Apart(w, proc[r])
  BY <1>0, <1>1, <1>5 DEF Apart, RolesFree, Others
<1>8. \A x \in w.cut : x[1] \notin w.todo
  BY <1>2, <1>3, <1>5
<1>9. ASSUME q.op = "login", NEW x \in (w.locked \cap w.groups) \ w.todo PROVE Exact(w, x)
  <2>1. CASE x # q.org
    <3>1. Exact(q, x)
      BY <1>2, <1>5, <1>9, <2>1
    <3>2. RolesOf(SeenRoles(w), x) \subseteq RolesOf(SeenRoles(q), x)
      BY <1>6 DEF RolesOf
    <3> QED
      BY <1>5, <1>6, <3>1, <3>2, ExactElsewhere
  <2>2. CASE x = q.org
    <3>1. Seen(w)[x].status = "active" /\ x \in w.groups
      BY <1>2, <1>5, <1>6, <1>9, <2>2
    <3>2. \A y \in RolesOf(SeenRoles(w), x) : y[2] \in w.roles
      BY <1>3, <1>5, <1>6, <1>9, <2>2 DEF RolesOf
    <3> QED
      BY <3>1, <3>2 DEF Exact
  <2> QED
    BY <2>1, <2>2
<1>10. /\ new \in ProcStates /\ ReadsFit(new) /\ LoginFits(new)
       /\ new.own = w.own /\ new.put = w.put /\ new.cut = w.cut
       /\ new.op = w.op /\ new.locked = w.locked
  BY <1>0, <1>2, <1>5, <1>8, <1>9, ThroughIs
<1> HIDE DEF new
<1>11. WritesFit(new) /\ \A r \in Procs \ {p} : Apart(new, proc[r])
  BY <1>6, <1>7, <1>10, SameWrites
<1> QED
  BY <1>1, <1>10, <1>11, LocalStep

-----------------------------------------------------------------------------
(* Memberships are revoked.                                                 *)

LEMMA RevokedIs ==
    ASSUME TypeOK, NEW q \in ProcStates, WritesFit(q), NEW o \in q.locked
    PROVE  LET new == Revoked(q, o) IN
           /\ new \in ProcStates /\ WritesFit(new)
           /\ new.pc = q.pc /\ new.op = q.op /\ new.org = q.org /\ new.groups = q.groups
           /\ new.roles = q.roles /\ new.todo = q.todo /\ new.locked = q.locked
           /\ \A r : Apart(q, r) /\ RolesOf(SeenRoles(q), o) \cap (r.put \cup r.cut) = {}
                        => Apart(new, r)
           /\ \A x \in q.locked \ {o} : Exact(q, x) => Exact(new, x)
           /\ o \notin q.groups => Exact(new, o)
<1>1. o \in DOMAIN members /\ o \in Orgs /\ o \in DOMAIN Seen(q)
  BY SeenIs DEF WritesFit, ProcStates
<1>2. Seen(q)[o] \in Rows
  BY <1>1, SeenRows
<1>3. CASE Seen(q)[o].origin = "manual"
  <2>1. Revoked(q, o) = q
    BY <1>3 DEF Revoked
  <2>2. Exact(q, o)
    BY <1>3 DEF Exact
  <2> QED
    BY <2>1, <2>2
<1>4. CASE Seen(q)[o].origin # "manual"
  <2> DEFINE row  == [Seen(q)[o] EXCEPT !.status = "revoked"]
             rows == RolesOf(SeenRoles(q), o)
             w    == Written(q, o, row)
             new  == Deleted(w, rows)
  <2>0. Revoked(q, o) = new
    BY <1>4 DEF Revoked
  <2>1. row \in Rows /\ row.status = "revoked" /\ row.origin = "keycloak"
        /\ row.origin = Seen(q)[o].origin
    BY <1>2, <1>4, StatusSet, RowIs DEF Statuses
  <2> HIDE DEF row
  <2>2. /\ w \in ProcStates /\ w.pc = q.pc /\ w.op = q.op /\ w.org = q.org
        /\ w.groups = q.groups /\ w.roles = q.roles /\ w.todo = q.todo
        /\ w.locked = q.locked /\ w.put = q.put /\ w.cut = q.cut
        /\ DOMAIN w.own = DOMAIN q.own \cup {o} /\ w.own[o] = row
        /\ \A x \in DOMAIN q.own : x # o => w.own[x] = q.own[x]
    BY <1>1, <2>1, WrittenIs
  <2> HIDE DEF w
  <2>3. WroteAt(q, w, o)
    BY <2>2 DEF WroteAt
  <2>4. WritesFit(w)
    <3>1. Becomes(members[o], row)
      BY <1>1, <2>1, OriginsSeen DEF Becomes
    <3> QED
      BY <2>1, <2>2, <2>3, <3>1, WroteRow
  <2>5. SeenRoles(w) = SeenRoles(q)
    BY <2>2 DEF SeenRoles
  <2>6. rows \in SUBSET (Orgs \X Roles)
    <3>1. assigned \subseteq Orgs \X Roles
      <4>1. DOMAIN members \subseteq Orgs
        BY TableIs DEF TypeOK
      <4> QED
        BY <4>1 DEF TypeOK
    <3>2. q.put \subseteq Orgs \X Roles
      BY DEF ProcStates
    <3> QED
      BY <3>1, <3>2 DEF RolesOf, SeenRoles
  <2>7. rows \subseteq RolesOf(SeenRoles(w), o)
    BY <2>5
  <2>17. rows = RolesOf(SeenRoles(q), o)
    OBVIOUS
  <2> HIDE DEF rows
  <2>8. /\ new \in ProcStates /\ new.pc = q.pc /\ new.op = q.op /\ new.org = q.org
        /\ new.groups = q.groups /\ new.roles = q.roles /\ new.todo = q.todo
        /\ new.locked = q.locked /\ new.own = w.own
        /\ new.put = q.put \ rows /\ new.cut = q.cut \cup (rows \ q.put)
    BY <2>2, <2>6, DeletedIs
  <2> HIDE DEF new
  <2>9. CutFrom(w, new, rows)
    BY <2>2, <2>8 DEF CutFrom
  <2>10. o \in DOMAIN Seen(w) /\ Seen(w)[o] = row
    <3>1. o \in DOMAIN w.own
      BY <2>2
    <3> QED
      BY <2>2, <3>1, SeenIs
  <2>11. /\ WritesFit(new) /\ Seen(new) = Seen(w)
         /\ SeenRoles(new) = SeenRoles(q) \ rows
    BY <2>1, <2>4, <2>5, <2>7, <2>9, <2>10, CutRoles
  <2>12. ASSUME NEW r, Apart(q, r), RolesOf(SeenRoles(q), o) \cap (r.put \cup r.cut) = {}
         PROVE  Apart(new, r)
    BY <2>2, <2>8, <2>12, <2>17 DEF Apart
  <2>13. ASSUME NEW x \in q.locked \ {o}, Exact(q, x) PROVE Exact(new, x)
    <3>1. x \in DOMAIN Seen(q)
      <4>1. x \in DOMAIN members
        BY <2>13 DEF WritesFit
      <4> QED
        BY <4>1, SeenIs
    <3>2. Seen(w)[x] = Seen(q)[x]
      BY <2>3, <2>13, <3>1, SameElsewhere
    <3>3. RolesOf(SeenRoles(new), x) \subseteq RolesOf(SeenRoles(q), x)
      BY <2>11 DEF RolesOf
    <3> QED
      BY <2>8, <2>11, <2>13, <3>2, <3>3, ExactElsewhere
  <2>14. ASSUME o \notin q.groups PROVE Exact(new, o)
    <3>1. RolesOf(SeenRoles(new), o) = {}
      BY <2>11, <2>17 DEF RolesOf
    <3>2. Seen(new)[o].status # "active" /\ o \notin new.groups
      BY <2>1, <2>8, <2>10, <2>11, <2>14
    <3> QED
      BY <3>1, <3>2 DEF Exact
  <2>15. \A r : Apart(q, r) /\ RolesOf(SeenRoles(q), o) \cap (r.put \cup r.cut) = {}
                   => Apart(new, r)
    BY <2>12
  <2>16. \A x \in q.locked \ {o} : Exact(q, x) => Exact(new, x)
    BY <2>13
  <2> QED
    BY <2>0, <2>8, <2>11, <2>14, <2>15, <2>16
<1> QED
  BY <1>3, <1>4

LEMMA PruneStep ==
    ASSUME IInv, NEW p \in Procs, Prune(p)
    PROVE  IInv'
<1> DEFINE q == proc[p]
<1>0. /\ q \in ProcStates /\ WritesFit(q) /\ ReadsFit(q) /\ LoginFits(q) /\ TypeOK
      /\ \A r \in Procs \ {p} : Apart(q, proc[r])
  BY Facts
<1>1. q.pc = "prune"
  BY DEF Prune
<1>2. /\ q.op = "login" /\ q.todo \subseteq q.locked \ q.groups
      /\ \A x \in q.locked \ q.todo : Exact(q, x)
  BY <1>0, <1>1 DEF ReadsFit, LoginFits
<1>3. ASSUME q.todo = {}, Go(p, [q EXCEPT !.pc = "commit"])
      PROVE  IInv'
  <2> DEFINE new == [q EXCEPT !.pc = "commit"]
  <2>1. new \in ProcStates
    BY <1>0 DEF ProcStates, Pcs
  <2>2. /\ new.pc = "commit" /\ new.op = "login" /\ new.groups = q.groups /\ new.todo = {}
        /\ new.roles = q.roles /\ new.own = q.own /\ new.put = q.put /\ new.cut = q.cut
        /\ new.locked = q.locked
    BY <1>0, <1>2, <1>3 DEF ProcStates
  <2> HIDE DEF new
  <2>3. InHand(new) = {}
    BY <2>2 DEF InHand
  <2>4. ReadsFit(new)
    BY <2>2, <2>3 DEF ReadsFit
  <2>5. \A x \in new.locked : Exact(new, x)
    BY <1>2, <1>3, <2>2, SameExact
  <2>6. LoginFits(new)
    BY <2>2, <2>3, <2>5 DEF LoginFits
  <2> QED
    BY <1>2, <1>3, <2>1, <2>2, <2>4, <2>6, QuietStep DEF new
<1>4. ASSUME q.todo # {}, RolesFree(p, RolesOf(SeenRoles(q), Min(q.todo))),
             Go(p, [Revoked(q, Min(q.todo)) EXCEPT !.todo = @ \ {Min(q.todo)}])
      PROVE  IInv'
  <2> DEFINE o   == Min(q.todo)
             w   == Revoked(q, o)
             new == [w EXCEPT !.todo = @ \ {o}]
  <2>1. o \in q.todo
    <3>1. q.todo \subseteq Orgs
      BY <1>0 DEF ProcStates
    <3>2. q.todo \subseteq Nat /\ IsFiniteSet(q.todo)
      BY <3>1, OrgsAssumption, FS_Subset
    <3> QED
      BY <1>4, <3>2, MinIn
  <2>2. RolesFree(p, RolesOf(SeenRoles(q), o)) /\ Go(p, new)
    BY <1>4
  <2> HIDE DEF o
  <2>3. o \in q.locked /\ o \notin q.groups
    BY <1>2, <2>1
  <2>4. /\ w \in ProcStates /\ WritesFit(w)
        /\ w.pc = q.pc /\ w.op = q.op /\ w.org = q.org /\ w.groups = q.groups
        /\ w.roles = q.roles /\ w.todo = q.todo /\ w.locked = q.locked
        /\ \A r : Apart(q, r) /\ RolesOf(SeenRoles(q), o) \cap (r.put \cup r.cut) = {}
                     => Apart(w, r)
        /\ \A x \in q.locked \ {o} : Exact(q, x) => Exact(w, x)
        /\ Exact(w, o)
    BY <1>0, <2>3, RevokedIs
  <2> HIDE DEF w
  <2>5. new \in ProcStates
    BY <2>4 DEF ProcStates
  <2>7. /\ new.pc = "prune" /\ new.todo = q.todo \ {o}
        /\ new.op = w.op /\ new.org = w.org /\ new.groups = w.groups /\ new.roles = w.roles
        /\ new.own = w.own /\ new.locked = w.locked /\ new.put = w.put /\ new.cut = w.cut
    BY <1>1, <2>4 DEF ProcStates
  <2> HIDE DEF new
  <2>8. WritesFit(new) /\ \A r : Apart(w, r) => Apart(new, r)
    BY <2>4, <2>7, SameWrites
  <2>9. \A r \in Procs \ {p} : Apart(new, proc[r])
    BY <1>0, <2>2, <2>4, <2>8 DEF RolesFree, Others
  <2>10. InHand(new) = {}
    BY <2>7 DEF InHand
  <2>11. ReadsFit(new)
    BY <1>2, <2>4, <2>7, <2>10 DEF ReadsFit
  <2>12. \A x \in new.locked \ new.todo : Exact(new, x)
    <3>1. ASSUME NEW x \in q.locked \ (q.todo \ {o}) PROVE Exact(w, x)
      <4>1. CASE x = o
        BY <2>4, <4>1
      <4>2. CASE x # o
        <5>1. Exact(q, x) /\ x \in q.locked \ {o}
          BY <1>2, <4>2
        <5> QED
          BY <2>4, <5>1
      <4> QED
        BY <4>1, <4>2
    <3> QED
      BY <2>4, <2>7, <3>1, SameExact
  <2>13. LoginFits(new)
    BY <1>2, <2>4, <2>7, <2>10, <2>12 DEF LoginFits
  <2> QED
    BY <2>2, <2>5, <2>8, <2>9, <2>11, <2>13, LocalStep
<1> QED
  BY <1>3, <1>4 DEF Prune

LEMMA LockOneStep ==
    ASSUME IInv, NEW p \in Procs, LockOne(p)
    PROVE  IInv'
<1> DEFINE q == proc[p]
           o == q.org
<1>0. /\ q \in ProcStates /\ WritesFit(q) /\ ReadsFit(q) /\ LoginFits(q) /\ TypeOK
      /\ \A r \in Procs \ {p} : Apart(q, proc[r])
  BY Facts
<1>1. q.pc = "lock one"
  BY DEF LockOne
<1>2. q.op = "leave" /\ o \in Orgs
  BY <1>0, <1>1 DEF ReadsFit
<1>3. ASSUME Go(p, [q EXCEPT !.pc = "commit"])
      PROVE  IInv'
  <2> DEFINE new == [q EXCEPT !.pc = "commit"]
  <2>1. new \in ProcStates
    BY <1>0 DEF ProcStates, Pcs
  <2>2. /\ new.pc = "commit" /\ new.op = "leave"
        /\ new.own = q.own /\ new.put = q.put /\ new.cut = q.cut /\ new.locked = q.locked
    BY <1>0, <1>2 DEF ProcStates
  <2> HIDE DEF new
  <2>3. InHand(new) = {}
    BY <2>2 DEF InHand
  <2>4. ReadsFit(new) /\ LoginFits(new)
    BY <2>2, <2>3 DEF ReadsFit, LoginFits
  <2> QED
    BY <1>2, <1>3, <2>1, <2>2, <2>4, QuietStep DEF new
<1>4. ASSUME o \in DOMAIN members, RowFree(p, o),
             Go(p, [q EXCEPT !.pc = "revoke", !.locked = {o}])
      PROVE  IInv'
  <2> DEFINE new == [q EXCEPT !.pc = "revoke", !.locked = {o}]
  <2>1. new \in ProcStates
    BY <1>0, <1>2 DEF ProcStates, Pcs
  <2>2. /\ new.pc = "revoke" /\ new.op = "leave" /\ new.org = o /\ new.op = q.op
        /\ new.own = q.own /\ new.put = q.put /\ new.cut = q.cut /\ new.locked = {o}
    BY <1>0, <1>2 DEF ProcStates
  <2>9. Go(p, new)
    BY <1>4
  <2> HIDE DEF new
  <2>3. InHand(new) = {}
    BY <2>2 DEF InHand
  <2>4. ReadsFit(new) /\ LoginFits(new)
    BY <1>2, <2>2, <2>3 DEF ReadsFit, LoginFits
  <2>5. WritesFit(new)
    <3>1. Seen(new) = Seen(q)
      BY <2>2, SameSight
    <3> QED
      BY <1>0, <1>4, <2>2, <3>1 DEF WritesFit
  <2>6. \A r \in Procs \ {p} : Apart(new, proc[r])
    BY <1>0, <1>4, <2>2 DEF Apart, RowFree, Others
  <2> QED
    BY <2>1, <2>4, <2>5, <2>6, <2>9, LocalStep
<1> QED
  BY <1>3, <1>4 DEF LockOne

LEMMA RevokeStep ==
    ASSUME IInv, NEW p \in Procs, Revoke(p)
    PROVE  IInv'
<1> DEFINE q   == proc[p]
           o   == q.org
           w   == Revoked(q, o)
           new == [w EXCEPT !.pc = "commit"]
<1>0. /\ q \in ProcStates /\ WritesFit(q) /\ ReadsFit(q) /\ TypeOK
      /\ \A r \in Procs \ {p} : Apart(q, proc[r])
  BY Facts
<1>1. q.pc = "revoke" /\ RolesFree(p, RolesOf(SeenRoles(q), o)) /\ Go(p, new)
  BY DEF Revoke
<1>2. q.op = "leave" /\ o \in q.locked
  BY <1>0, <1>1 DEF ReadsFit
<1>3. /\ w \in ProcStates /\ WritesFit(w) /\ w.op = "leave"
      /\ \A r : Apart(q, r) /\ RolesOf(SeenRoles(q), o) \cap (r.put \cup r.cut) = {}
                   => Apart(w, r)
  BY <1>0, <1>2, RevokedIs
<1> HIDE DEF w
<1>4. new \in ProcStates
  BY <1>3 DEF ProcStates, Pcs
<1>5. /\ new.pc = "commit" /\ new.op = "leave"
      /\ new.op = w.op /\ new.own = w.own /\ new.locked = w.locked
      /\ new.put = w.put /\ new.cut = w.cut
  BY <1>3 DEF ProcStates
<1> HIDE DEF new
<1>6. WritesFit(new) /\ \A r : Apart(w, r) => Apart(new, r)
  BY <1>3, <1>5, SameWrites
<1>7. \A r \in Procs \ {p} : Apart(new, proc[r])
  BY <1>0, <1>1, <1>3, <1>6 DEF RolesFree, Others
<1>8. InHand(new) = {}
  BY <1>5 DEF InHand
<1>9. ReadsFit(new) /\ LoginFits(new)
  BY <1>5, <1>8 DEF ReadsFit, LoginFits
<1> QED
  BY <1>1, <1>4, <1>6, <1>7, <1>9, LocalStep

-----------------------------------------------------------------------------
(* COMMIT: the others see the rows the transaction wrote.                   *)

LEMMA WritesIsNext ==
    ASSUME NEW r \in Procs, NEW z, proc'[r] = z,
           \A o \in DOMAIN z.own \cap DOMAIN members' : Becomes(members'[o], z.own[o]),
           z.locked \subseteq DOMAIN members',
           z.put \subseteq ((DOMAIN Seen(proc[r])') \X Roles) \ assigned',
           z.cut \subseteq assigned',
           z.op \in {"login", "join", "leave"} =>
              \A o \in DOMAIN z.own \cup {x[1] : x \in z.put \cup z.cut} :
                  Seen(proc[r])'[o].origin = "keycloak"
    PROVE  WritesFit(proc[r])'
BY DEF WritesFit, Becomes

LEMMA ReadsIsNext ==
    ASSUME NEW r \in Procs, NEW z, proc'[r] = z, ReadsFit(z),
           z.pc \in {"got", "activate", "roles", "remove"} =>
              /\ z.org \in DOMAIN Seen(proc[r])'
              /\ Seen(proc[r])'[z.org].origin = Seen(z)[z.org].origin
              /\ z.org \in z.locked => Seen(proc[r])'[z.org] = Seen(z)[z.org],
           z.pc = "lock" => z.todo \subseteq DOMAIN members'
    PROVE  ReadsFit(proc[r])'
BY DEF ReadsFit, InHand

LEMMA LoginIsNext ==
    ASSUME NEW r \in Procs, NEW z, proc'[r] = z, LoginFits(z),
           \A o \in z.locked : Exact(z, o) => Exact(proc[r], o)'
    PROVE  LoginFits(proc[r])'
BY DEF LoginFits, InHand

LEMMA ExactIsNext ==
    ASSUME NEW r \in Procs, NEW z, proc'[r] = z, NEW o,
           Seen(proc[r])'[o] = Seen(z)[o],
           RolesOf(SeenRoles(proc[r]), o)' \subseteq RolesOf(SeenRoles(z), o), Exact(z, o)
    PROVE  Exact(proc[r], o)'
BY DEF Exact

LEMMA SawTypes ==
    ASSUME NEW c \in CallerStates
    PROVE  /\ Saw(c) \in CallerStates /\ Saw(c).pc = c.pc /\ Saw(c).org = c.org
           /\ c.pc = "allowed" => Saw(c) = c
<1> DEFINE held  == c.held \/ Holds(c.org)
           stray == c.stray \/ (members[c.org].status = "revoked" /\ CodesOf(c.org) # {})
<1>1. held \in BOOLEAN /\ stray \in BOOLEAN
  OBVIOUS
<1>2. c.pc \notin {"away", "allowed"} => Saw(c) = [c EXCEPT !.held = held, !.stray = stray]
  BY DEF Saw
<1>3. c.pc \in {"away", "allowed"} => Saw(c) = c
  BY DEF Saw
<1> HIDE DEF held, stray
<1>4. c.pc \notin {"away", "allowed"} =>
        Saw(c) \in CallerStates /\ Saw(c).pc = c.pc /\ Saw(c).org = c.org
  BY <1>1, <1>2 DEF CallerStates
<1> QED
  BY <1>3, <1>4

LEMMA CommitStep ==
    ASSUME IInv, NEW p \in Procs, Commit(p)
    PROVE  IInv'
<1> DEFINE q == proc[p]
<1>0. /\ q \in ProcStates /\ WritesFit(q) /\ TypeOK /\ CallerFits
      /\ \A r \in Procs \ {p} : Apart(q, proc[r])
  BY Facts DEF IInv
<1>1. /\ members' = Seen(q) /\ assigned' = SeenRoles(q)
      /\ proc' = [proc EXCEPT ![p] = Idle] /\ caller' = Saw(caller)
      /\ expired' = expired /\ ops' = ops
      /\ \A x \in q.put, r \in Procs \ {p} : x[1] \notin proc[r].locked
  BY DEF Commit, Others
<1>2. proc'[p] = Idle /\ \A r \in Procs \ {p} : proc'[r] = proc[r]
  BY <1>0, <1>1 DEF TypeOK
<1>3. /\ DOMAIN members' = DOMAIN members \cup DOMAIN q.own
      /\ \A o \in DOMAIN members \ DOMAIN q.own : members'[o] = members[o]
      /\ \A o \in DOMAIN members : members'[o].origin = members[o].origin
      /\ \A o \in DOMAIN members :
            members'[o] = members[o] \/ Becomes(members[o], members'[o])
  <2>1. DOMAIN members' = DOMAIN members \cup DOMAIN q.own
    BY <1>1, SeenIs
  <2>2. \A o \in DOMAIN members \ DOMAIN q.own : members'[o] = members[o]
    BY <1>1, SeenIs
  <2>3. \A o \in DOMAIN members \cap DOMAIN q.own : Becomes(members[o], members'[o])
    <3>1. \A o \in DOMAIN q.own : members'[o] = q.own[o]
      BY <1>1, SeenIs
    <3> QED
      BY <1>0, <3>1 DEF WritesFit
  <2> QED
    BY <2>1, <2>2, <2>3 DEF Becomes
<1>4. TypeOK'
  <2>1. members' \in Tables
    BY <1>0, <1>1, SeenRows
  <2>2. assigned' \subseteq (DOMAIN members') \X Roles
    <3>1. assigned \subseteq (DOMAIN members) \X Roles /\ q.put \subseteq (DOMAIN members') \X Roles
      BY <1>0, <1>1 DEF TypeOK, WritesFit
    <3>2. assigned' \subseteq assigned \cup q.put
      BY <1>1 DEF SeenRoles
    <3> QED
      BY <1>3, <3>1, <3>2
  <2>3. proc' \in [Procs -> ProcStates]
    BY <1>0, <1>1, IdleOK DEF TypeOK
  <2>4. caller' \in CallerStates
    BY <1>0, <1>1, SawTypes DEF TypeOK
  <2>5. expired' \subseteq DOMAIN members' /\ ops' \in Histories
    BY <1>0, <1>1, <1>3 DEF TypeOK
  <2> QED
    BY <2>1, <2>2, <2>3, <2>4, <2>5 DEF TypeOK
<1>5. ASSUME NEW r \in Procs, NEW s \in Procs, r # s PROVE Apart(proc'[r], proc'[s])
  <2>1. CASE r = p \/ s = p
    BY <1>2, <2>1, IdleOK, NoRows DEF Apart
  <2>2. CASE r # p /\ s # p
    BY <1>2, <1>5, <2>2 DEF IInv
  <2> QED
    BY <2>1, <2>2
<1>6. WritesFit(proc[p])' /\ ReadsFit(proc[p])' /\ LoginFits(proc[p])'
  <2>1. InHand(Idle) = {}
    BY IdleOK DEF InHand
  <2>2. DOMAIN Idle.own = {}
    BY IdleOK, NoRows
  <2>3. WritesFit(proc[p])'
    BY <1>2, <2>2, IdleOK, WritesIsNext
  <2>4. ReadsFit(Idle) /\ LoginFits(Idle)
    BY <2>1, IdleOK DEF ReadsFit, LoginFits
  <2>5. ReadsFit(proc[p])'
    BY <1>2, <2>1, <2>4, IdleOK DEF ReadsFit, InHand
  <2>6. LoginFits(proc[p])'
    BY <1>2, IdleOK DEF LoginFits
  <2> QED
    BY <2>3, <2>5, <2>6
<1>7. ASSUME NEW r \in Procs \ {p}
      PROVE  WritesFit(proc[r])' /\ ReadsFit(proc[r])' /\ LoginFits(proc[r])'
  <2>1. PICK z : z = proc[r]
    OBVIOUS
  <2>2. proc'[r] = z
    BY <1>2, <2>1
  <2>3. /\ z \in ProcStates /\ WritesFit(z) /\ ReadsFit(z) /\ LoginFits(z) /\ Apart(q, z)
        /\ \A x \in q.put : x[1] \notin z.locked
    BY <1>0, <1>1, <2>1, Facts
  <2>4. /\ DOMAIN Seen(proc[r])' = DOMAIN members' \cup DOMAIN z.own
        /\ \A o \in DOMAIN z.own : Seen(proc[r])'[o] = z.own[o]
        /\ \A o \in DOMAIN members' \ DOMAIN z.own : Seen(proc[r])'[o] = members'[o]
    BY <2>2 DEF Seen
  <2>5. DOMAIN Seen(z) \subseteq DOMAIN Seen(proc[r])'
    BY <1>3, <2>4, SeenIs
  <2>6. ASSUME NEW o \in DOMAIN Seen(z)
        PROVE  /\ Seen(proc[r])'[o].origin = Seen(z)[o].origin
               /\ o \in z.locked => Seen(proc[r])'[o] = Seen(z)[o]
    <3>1. CASE o \in DOMAIN z.own
      BY <2>4, <3>1, SeenIs
    <3>2. CASE o \notin DOMAIN z.own
      <4>1. o \in DOMAIN members /\ Seen(z)[o] = members[o]
        BY <3>2, SeenIs
      <4>2. Seen(proc[r])'[o] = members'[o]
        BY <1>3, <2>4, <3>2, <4>1
      <4>3. o \in z.locked => o \notin DOMAIN q.own
        BY <2>3 DEF Apart
      <4> QED
        BY <1>3, <4>1, <4>2, <4>3
    <3> QED
      BY <3>1, <3>2
  <2>7. WritesFit(proc[r])'
    <3>1. ASSUME NEW o \in DOMAIN z.own \cap DOMAIN members'
          PROVE  Becomes(members'[o], z.own[o])
      <4>1. o \in DOMAIN members /\ o \notin DOMAIN q.own
        BY <1>3, <2>3 DEF Apart
      <4>2. members'[o] = members[o] /\ Becomes(members[o], z.own[o])
        BY <1>3, <2>3, <4>1 DEF WritesFit
      <4> QED
        BY <4>2
    <3>2. z.locked \subseteq DOMAIN members'
      BY <1>3, <2>3 DEF WritesFit
    <3>3. /\ z.put \subseteq ((DOMAIN Seen(proc[r])') \X Roles) \ assigned'
          /\ z.cut \subseteq assigned'
      <4>1. z.put \cap assigned' = {} /\ z.cut \subseteq assigned'
        BY <1>1, <2>3 DEF WritesFit, Apart, SeenRoles
      <4> QED
        BY <2>3, <2>5, <4>1 DEF WritesFit
    <3>4. ASSUME z.op \in {"login", "join", "leave"},
                 NEW o \in DOMAIN z.own \cup {x[1] : x \in z.put \cup z.cut}
          PROVE  Seen(proc[r])'[o].origin = "keycloak"
      <4>1. Seen(z)[o].origin = "keycloak"
        BY <2>3, <3>4 DEF WritesFit
      <4>2. o \in DOMAIN Seen(z)
        <5>1. CASE o \in DOMAIN z.own
          BY <5>1, SeenIs
        <5>2. CASE o \notin DOMAIN z.own
          <6>1. PICK y \in z.put \cup z.cut : o = y[1]
            BY <3>4, <5>2
          <6> QED
            BY <1>0, <2>3, <6>1, RolesSeen
        <5> QED
          BY <5>1, <5>2
      <4> QED
        BY <2>6, <4>1, <4>2
    <3> QED
      BY <2>2, <3>1, <3>2, <3>3, <3>4, WritesIsNext
  <2>8. ReadsFit(proc[r])'
    <3>1. z.pc \in {"got", "activate", "roles", "remove"} => z.org \in DOMAIN Seen(z)
      BY <2>3 DEF ReadsFit
    <3>2. z.pc = "lock" => z.todo \subseteq DOMAIN members'
      BY <1>3, <2>3 DEF ReadsFit
    <3> QED
      BY <2>2, <2>3, <2>5, <2>6, <3>1, <3>2, ReadsIsNext
  <2>9. ASSUME NEW o \in z.locked, Exact(z, o) PROVE Exact(proc[r], o)'
    <3>1. o \in DOMAIN Seen(z)
      <4>1. o \in DOMAIN members
        BY <2>3 DEF WritesFit
      <4> QED
        BY <4>1, SeenIs
    <3>2. Seen(proc[r])'[o] = Seen(z)[o]
      BY <2>6, <3>1
    <3>3. \A x \in assigned' : x[1] = o => x \in assigned
      BY <1>1, <2>3 DEF SeenRoles
    <3>4. RolesOf(SeenRoles(proc[r]), o)' \subseteq RolesOf(SeenRoles(z), o)
      BY <2>2, <3>3 DEF RolesOf, SeenRoles
    <3> QED
      BY <2>2, <2>9, <3>2, <3>4, ExactIsNext
  <2>10. LoginFits(proc[r])'
    BY <2>2, <2>3, <2>9, LoginIsNext
  <2> QED
    BY <2>7, <2>8, <2>10
<1>8. CallerFits'
  <2>1. \A o \in expired' : members'[o].origin = "manual"
    BY <1>0, <1>1, <1>3 DEF CallerFits, TypeOK
  <2>2. /\ caller'.pc = caller.pc /\ caller'.org = caller.org
        /\ caller.pc = "allowed" => caller' = caller
    BY <1>0, <1>1, SawTypes DEF TypeOK
  <2>3. caller.pc # "away" =>
          caller.org \in DOMAIN members' /\ members'[caller.org].status \in {"active", "revoked"}
    BY <1>0, <1>3 DEF CallerFits, Becomes
  <2> QED
    BY <1>0, <2>1, <2>2, <2>3 DEF CallerFits, AllowedHeldAtOnce
<1>9. \A r, s \in Procs : r # s => Apart(proc'[r], proc'[s])
  BY <1>5
<1> QED
  BY <1>4, <1>6, <1>7, <1>8, <1>9 DEF IInv, Apart

-----------------------------------------------------------------------------
(* The user's own request, and time.                                        *)

\* A step that leaves the tables and the transactions alone.
LEMMA SteadyStep ==
    ASSUME IInv, UNCHANGED <<members, assigned, proc, ops>>,
           expired' \subseteq DOMAIN members, caller' \in CallerStates,
           \A o \in expired' : members[o].origin = "manual",
           caller'.pc # "away" =>
              /\ caller'.org \in DOMAIN members
              /\ members[caller'.org].status \in {"active", "revoked"},
           caller'.pc = "allowed" => caller'.held \/ caller'.stray
    PROVE  IInv'
<1>1. TypeOK'
  BY DEF IInv, TypeOK
<1>2. CallerFits'
  BY DEF CallerFits, AllowedHeldAtOnce
<1>3. ASSUME NEW p \in Procs
      PROVE  WritesFit(proc[p])' /\ ReadsFit(proc[p])' /\ LoginFits(proc[p])'
  <2>1. PICK r : r = proc[p]
    OBVIOUS
  <2>2. WritesFit(r) /\ ReadsFit(r) /\ LoginFits(r)
    BY <2>1, Facts
  <2> QED
    BY <2>1, <2>2, WritesNext, ReadsNext, LoginNext
<1>4. \A p, q \in Procs : p # q => Apart(proc'[p], proc'[q])
  BY DEF IInv
<1> QED
  BY <1>1, <1>2, <1>3, <1>4 DEF IInv, Apart

LEMMA EnterStep ==
    ASSUME IInv, NEW o \in Orgs, Enter(o)
    PROVE  IInv'
<1>1. /\ caller' = [NoCaller EXCEPT !.pc = "entered", !.org = o]
      /\ UNCHANGED <<members, assigned, proc, expired, ops>>
      /\ o \in DOMAIN members /\ members[o].status = "active"
  BY DEF Enter, Active
<1>2. caller' \in CallerStates /\ caller'.pc = "entered" /\ caller'.org = o
  BY <1>1 DEF NoCaller, CallerStates
<1>3. expired \subseteq DOMAIN members /\ \A x \in expired : members[x].origin = "manual"
  BY DEF IInv, TypeOK, CallerFits
<1> QED
  BY <1>1, <1>2, <1>3, SteadyStep

\* The request ends.
LEMMA AwayStep ==
    ASSUME IInv, caller' = NoCaller, UNCHANGED <<members, assigned, proc, expired, ops>>
    PROVE  IInv'
<1>1. caller' \in CallerStates /\ caller'.pc = "away"
  BY DEF NoCaller, CallerStates
<1>2. expired \subseteq DOMAIN members /\ \A x \in expired : members[x].origin = "manual"
  BY DEF IInv, TypeOK, CallerFits
<1> QED
  BY <1>1, <1>2, SteadyStep

LEMMA ReadMembershipStep ==
    ASSUME IInv, ReadMembership
    PROVE  IInv'
<1>1. UNCHANGED <<members, assigned, proc, expired, ops>> /\ caller.pc = "entered"
  BY DEF ReadMembership
<1>2. CASE caller' = [caller EXCEPT !.pc = "read"]
  <2>1. caller \in CallerStates
    BY DEF IInv, TypeOK
  <2>2. caller' \in CallerStates /\ caller'.pc = "read" /\ caller'.org = caller.org
    BY <1>2, <2>1 DEF CallerStates
  <2>3. expired \subseteq DOMAIN members /\ CallerFits
    BY DEF IInv, TypeOK
  <2> QED
    BY <1>1, <2>2, <2>3, SteadyStep DEF CallerFits
<1>3. CASE caller' = NoCaller
  BY <1>1, <1>3, AwayStep
<1> QED
  BY <1>2, <1>3 DEF ReadMembership

\* The membership was active when it was read.  If it is now, the user holds the
\* capability at this moment; if it was revoked since, it should have no roles.
LEMMA ReadRolesStep ==
    ASSUME IInv, ReadRoles
    PROVE  IInv'
<1>1. UNCHANGED <<members, assigned, proc, expired, ops>> /\ caller.pc = "read"
  BY DEF ReadRoles
<1>2. caller \in CallerStates /\ expired \subseteq DOMAIN members /\ CallerFits
  BY DEF IInv, TypeOK
<1> DEFINE o == caller.org
<1>3. ASSUME HasCapability(Active(Row("active", "any"), o), CodesOf(o), << >>, Required, {}),
             caller' = [Saw(caller) EXCEPT !.pc = "allowed"]
      PROVE  IInv'
  <2>1. o \in DOMAIN members /\ members[o].status \in {"active", "revoked"}
    BY <1>1, <1>2 DEF CallerFits
  <2>2. o \notin Inactive \cup expired /\ \E r \in CodesOf(o) : Required \in RoleCapabilities[r]
    BY <1>3 DEF HasCapability, Active
  <2>3. Holds(o) \/ (members[o].status = "revoked" /\ CodesOf(o) # {})
    BY <2>1, <2>2 DEF Holds, Active
  <2>4. Saw(caller).held \/ Saw(caller).stray
    <3> DEFINE held  == caller.held \/ Holds(o)
               stray == caller.stray \/ (members[o].status = "revoked" /\ CodesOf(o) # {})
    <3>1. Saw(caller) = [caller EXCEPT !.held = held, !.stray = stray]
      BY <1>1 DEF Saw
    <3>2. held \/ stray
      BY <2>3
    <3> HIDE DEF held, stray
    <3> QED
      BY <1>2, <3>1, <3>2 DEF CallerStates
  <2>5. Saw(caller) \in CallerStates /\ Saw(caller).org = o
    BY <1>2, SawTypes
  <2>6. /\ caller' \in CallerStates /\ caller'.pc = "allowed" /\ caller'.org = o
        /\ caller'.held \/ caller'.stray
    BY <1>3, <2>4, <2>5 DEF CallerStates
  <2> QED
    BY <1>1, <1>2, <2>1, <2>6, SteadyStep DEF CallerFits
<1>4. CASE caller' = NoCaller
  BY <1>1, <1>4, AwayStep
<1> QED
  BY <1>3, <1>4 DEF ReadRoles

LEMMA ExpireStep ==
    ASSUME IInv, NEW o \in Orgs, Expire(o)
    PROVE  IInv'
<1>1. /\ o \in DOMAIN members /\ members[o].origin = "manual"
      /\ expired' = expired \cup {o} /\ caller' = Saw(caller)
      /\ UNCHANGED <<members, assigned, proc, ops>>
  BY DEF Expire
<1>2. caller \in CallerStates /\ expired \subseteq DOMAIN members /\ CallerFits
  BY DEF IInv, TypeOK
<1>3. /\ caller' \in CallerStates /\ caller'.pc = caller.pc /\ caller'.org = caller.org
      /\ caller.pc = "allowed" => caller' = caller
  BY <1>1, <1>2, SawTypes
<1> QED
  BY <1>1, <1>2, <1>3, SteadyStep DEF CallerFits, AllowedHeldAtOnce

-----------------------------------------------------------------------------
(* The invariant.                                                           *)

LEMMA InitIInv == Init => IInv
<1> SUFFICES ASSUME Init PROVE IInv
  OBVIOUS
<1>1. /\ DOMAIN members = Existing /\ members = [o \in Existing |-> members[o]]
      /\ \A o \in Existing : members[o] \in {Row("active", "keycloak"), Row("invited", "manual"),
                                             Row("active", "manual")}
  BY DEF Init
<1>2. members \in Tables
  <2>1. \A o \in Existing : members[o] \in Rows
    BY <1>1, NewRow DEF Statuses
  <2> QED
    BY <1>1, <2>1, ExistingAssumption, TableIs
<1>3. assigned \subseteq (DOMAIN members) \X Roles
  BY <1>1 DEF Init
<1>4. \A p \in Procs : proc[p] = Idle
  BY DEF Init
<1>5. TypeOK
  BY <1>2, <1>3, IdleOK DEF Init, TypeOK, CallerStates, NoCaller
<1>6. InHand(Idle) = {}
  BY IdleOK DEF InHand
<1>7. WritesFit(Idle) /\ ReadsFit(Idle) /\ LoginFits(Idle)
  BY <1>6, IdleOK, NoRows DEF WritesFit, ReadsFit, LoginFits
<1>8. Apart(Idle, Idle)
  BY IdleOK, NoRows DEF Apart
<1>9. CallerFits
  BY DEF Init, NoCaller, CallerFits, AllowedHeldAtOnce
<1> QED
  BY <1>4, <1>5, <1>7, <1>8, <1>9 DEF IInv

LEMMA BeginStep ==
    ASSUME IInv, NEW p \in Procs, Begin(p)
    PROVE  IInv'
<1>1. ASSUME NEW token \in Tokens, StartLogin(p, token) PROVE IInv'
  BY <1>1, StartLoginStep
<1>2. ASSUME NEW op \in AllOps \ {"login", "create"}, NEW o \in Orgs, NEW roles \in SUBSET Roles,
             Start(p, op, o, roles, NoRow)
      PROVE  IInv'
  BY <1>2, StartStep
<1>3. ASSUME NEW o \in Orgs, NEW status \in Statuses,
             Start(p, "create", o, {}, Row(status, "manual"))
      PROVE  IInv'
  BY <1>3, NewRow, StartStep DEF AllOps
<1>4. CASE \E op \in ops \cap {"join", "leave"}, o \in Orgs : Start(p, op, o, {}, NoRow)
  <2>1. PICK op \in ops \cap {"join", "leave"}, o \in Orgs : Start(p, op, o, {}, NoRow)
    BY <1>4
  <2>2. op \in AllOps \ {"login", "create"} /\ {} \in SUBSET Roles
    BY DEF AllOps
  <2> QED
    BY <1>2, <2>1, <2>2
<1>5. CASE \E op \in ops \cap {"add role", "remove role"}, o \in Orgs, r \in Roles :
              Start(p, op, o, {r}, NoRow)
  <2>1. PICK op \in ops \cap {"add role", "remove role"}, o \in Orgs, r \in Roles :
              Start(p, op, o, {r}, NoRow)
    BY <1>5
  <2>2. op \in AllOps \ {"login", "create"} /\ {r} \in SUBSET Roles
    BY DEF AllOps
  <2> QED
    BY <1>2, <2>1, <2>2
<1>6. CASE \E o \in Orgs, r \in {{}} \cup {{x} : x \in Roles} :
              Start(p, "provision", o, r, NoRow)
  BY <1>2, <1>6 DEF AllOps
<1> QED
  BY <1>1, <1>3, <1>4, <1>5, <1>6 DEF Begin

LEMMA StutterStep ==
    ASSUME IInv, UNCHANGED vars
    PROVE  IInv'
<1>1. UNCHANGED <<members, assigned, proc, expired, caller, ops>>
  BY DEF vars
<1> QED
  BY <1>1, SteadyStep DEF IInv, TypeOK, CallerFits, AllowedHeldAtOnce

LEMMA StepIInv ==
    ASSUME IInv, [Next]_vars
    PROVE  IInv'
<1>1. ASSUME NEW p \in Procs, Advance(p) PROVE IInv'
  BY <1>1, LockRowStep, NextGroupStep, GetStep, InsertMembershipStep, InsertConflictStep,
     DecideStep, ActivateStep, AddRoleStep, RemoveRolesStep, PruneStep, LockOneStep,
     RevokeStep, CommitStep DEF Advance
<1>2. ASSUME NEW p \in Procs, Begin(p) \/ Rollback(p) PROVE IInv'
  BY <1>2, BeginStep, RollbackStep
<1>3. CASE Request
  BY <1>3, EnterStep, ReadMembershipStep, ReadRolesStep, AwayStep DEF Request, Answered
<1>4. ASSUME NEW o \in Orgs, Expire(o) PROVE IInv'
  BY <1>4, ExpireStep
<1>5. CASE UNCHANGED vars
  BY <1>5, StutterStep
<1> QED
  BY <1>1, <1>2, <1>3, <1>4, <1>5 DEF Next

\* In every reachable state, for any processes, organizations, roles and tokens:
\* no two transactions hold the same row or role, each wrote what its operation
\* may write, and what it read before it locked is stale in its status only.
THEOREM InductiveInvariant == Spec => []IInv
<1>1. IInv /\ [Next]_vars => IInv'
  BY StepIInv
<1> QED
  BY InitIInv, <1>1, PTL DEF Spec

\* Whatever interleaves with a login, the memberships it locked are as its token
\* says when it commits (reconcile_user_memberships).
THEOREM LoginLeavesTokensGroups == Spec => []LoginExact
<1>1. IInv => LoginExact
  BY DEF IInv, LoginFits, LoginExact
<1> QED
  BY <1>1, InductiveInvariant, PTL

\* Whoever require_capability lets in held the capability at one moment of his
\* request, unless a revoked membership had kept roles (membership_has_capability).
THEOREM AllowedForGoodReason == Spec => []AllowedHeldAtOnce
<1>1. IInv => AllowedHeldAtOnce
  BY DEF IInv, CallerFits
<1> QED
  BY <1>1, InductiveInvariant, PTL

\* A step that changes the tables is the COMMIT of one transaction.
LEMMA OnlyCommitWrites ==
    ASSUME [Next]_vars
    PROVE  UNCHANGED <<members, assigned>> \/ \E p \in Procs : Commit(p)
<1>1. CASE UNCHANGED vars
  BY <1>1 DEF vars
<1>2. CASE Request
  BY <1>2 DEF Request, Enter, ReadMembership, ReadRoles, Answered
<1>3. ASSUME NEW o \in Orgs, Expire(o) PROVE UNCHANGED <<members, assigned>>
  BY <1>3 DEF Expire
<1>4. ASSUME NEW p \in Procs, Begin(p) PROVE UNCHANGED <<members, assigned>>
  BY <1>4 DEF Begin, StartLogin, Start, Go
<1>5. ASSUME NEW p \in Procs, Rollback(p) PROVE UNCHANGED <<members, assigned>>
  BY <1>5 DEF Rollback, Go
<1>6. ASSUME NEW p \in Procs, Advance(p), ~ Commit(p) PROVE UNCHANGED <<members, assigned>>
  <2>1. CASE LockRow(p)
    BY <2>1 DEF LockRow, Go
  <2>2. CASE NextGroup(p)
    BY <2>2 DEF NextGroup, Go
  <2>3. CASE Get(p)
    BY <2>3 DEF Get, Go
  <2>4. CASE InsertMembership(p)
    BY <2>4 DEF InsertMembership, Go
  <2>5. CASE InsertConflict(p)
    BY <2>5 DEF InsertConflict, Go
  <2>6. CASE Decide(p)
    BY <2>6 DEF Decide, Go
  <2>7. CASE Activate(p)
    BY <2>7 DEF Activate, Go
  <2>8. CASE AddRole(p)
    BY <2>8 DEF AddRole, Go
  <2>9. CASE RemoveRoles(p)
    BY <2>9 DEF RemoveRoles, Go
  <2>10. CASE Prune(p)
    BY <2>10 DEF Prune, Go
  <2>11. CASE LockOne(p)
    BY <2>11 DEF LockOne, Go
  <2>12. CASE Revoke(p)
    BY <2>12 DEF Revoke, Go
  <2> QED
    BY <1>6, <2>1, <2>2, <2>3, <2>4, <2>5, <2>6, <2>7, <2>8, <2>9, <2>10, <2>11, <2>12 DEF Advance
<1> QED
  BY <1>1, <1>2, <1>3, <1>4, <1>5, <1>6 DEF Next

\* Replication wrote nothing about a membership that is manual when it commits.
LEMMA ReplicationSpares ==
    ASSUME IInv, NEW p \in Procs, Commit(p), proc[p].op \in {"login", "join", "leave"},
           NEW o \in DOMAIN members, members[o].origin = "manual"
    PROVE  members'[o] = members[o] /\ RolesOf(assigned', o) = RolesOf(assigned, o)
<1> DEFINE q == proc[p]
<1>1. members' = Seen(q) /\ assigned' = (assigned \ q.cut) \cup q.put
  BY DEF Commit, SeenRoles
<1>2. WritesFit(q)
  BY Facts
<1>3. o \in DOMAIN Seen(q) /\ Seen(q)[o].origin # "keycloak"
  BY <1>2, OriginsSeen
<1>4. o \notin DOMAIN q.own /\ \A x \in q.put \cup q.cut : x[1] # o
  BY <1>2, <1>3 DEF WritesFit
<1>5. members'[o] = members[o]
  BY <1>1, <1>4, SeenIs
<1>6. RolesOf(assigned', o) = RolesOf(assigned, o)
  BY <1>1, <1>4 DEF RolesOf
<1> QED
  BY <1>5, <1>6

\* "Keycloak group replication [...] never touches manual ones" (models.py): a
\* login, join or leave that commits leaves every manual membership and its roles
\* as they are, also those made manual or given roles while it ran.
THEOREM ReplicationLeavesManualAlone == Spec => ManualUntouched
<1>1. ASSUME IInv, [Next]_vars
      PROVE  \A p \in Procs, o \in DOMAIN members :
                (/\ proc[p].pc = "commit" /\ proc'[p].pc = "idle"
                 /\ proc[p].op \in {"login", "join", "leave"}
                 /\ members[o].origin = "manual")
                    => members'[o] = members[o] /\ RolesOf(assigned', o) = RolesOf(assigned, o)
  <2> SUFFICES ASSUME NEW p \in Procs, NEW o \in DOMAIN members,
                      proc[p].pc = "commit", proc'[p].pc = "idle",
                      proc[p].op \in {"login", "join", "leave"}, members[o].origin = "manual"
               PROVE  members'[o] = members[o] /\ RolesOf(assigned', o) = RolesOf(assigned, o)
    OBVIOUS
  <2>1. CASE UNCHANGED <<members, assigned>>
    BY <2>1
  <2>2. ASSUME NEW r \in Procs, Commit(r)
        PROVE  members'[o] = members[o] /\ RolesOf(assigned', o) = RolesOf(assigned, o)
    <3>1. proc' = [proc EXCEPT ![r] = Idle]
      BY <2>2 DEF Commit
    <3>2. r = p
      BY <1>1, <3>1 DEF IInv, TypeOK
    <3> QED
      BY <1>1, <2>2, <3>2, ReplicationSpares
  <2> QED
    BY <1>1, <2>1, <2>2, OnlyCommitWrites
<1>2. IInv /\ [Next]_vars =>
        [\A p \in Procs, o \in DOMAIN members :
            (/\ proc[p].pc = "commit" /\ proc'[p].pc = "idle"
             /\ proc[p].op \in {"login", "join", "leave"}
             /\ members[o].origin = "manual")
                => members'[o] = members[o] /\ RolesOf(assigned', o) = RolesOf(assigned, o)]_vars
  BY <1>1
<1> QED
  BY <1>2, InductiveInvariant, PTL DEF Spec, ManualUntouched
=============================================================================
