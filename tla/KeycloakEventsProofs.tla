------------------------ MODULE KeycloakEventsProofs ------------------------
(***************************************************************************)
(* Proofs about KeycloakEvents: whatever users, groups, workers, sessions  *)
(* and environment, and however many events and faults, its type invariant *)
(* and seven of its safety properties.  The parts of PipelineInv are       *)
(* inductive in their order, each given those before it; FollowInv is      *)
(* inductive given TypeOK, RowsFit, RunsFollow and NamesKept.              *)
(***************************************************************************)
EXTENDS KeycloakEvents, SequenceTheorems, TLAPS

RealmUsers == [status : {"absent", "enabled", "disabled", "deleted"}, name : Usernames \cup {None}]

LocalUsers == [status : {"none", "active", "inactive"}, name : Names]

Abouts == (Users \cup {None}) \X (Groups \cup {None})

Reports == [raw : Raws, about : Abouts]

Reps == [id : Users \cup Groups \cup {None}, username : Usernames \cup {None},
         enabled : {"yes", "no", None}, name : Groups \cup {None},
         path : {GroupPath(g) : g \in Groups} \cup {None}]

Works == [pc : {"idle", "read", "apply", "mark", "ack"}, msg : Messages \cup {Message(0, 0)}]

Tokens == [user : Users, name : Usernames \cup {None}, groups : SUBSET Groups]

Logins == [pc : {"idle", "sync", "reconcile", "provision"}, user : Users \cup {None},
           name : Usernames \cup {None}, groups : SUBSET Groups, read : Names]

-----------------------------------------------------------------------------
(* Types.                                                                   *)

\* What Emit does to the events.
LEMMA EmitAppends ==
    ASSUME TypeOK, NEW op, NEW type, NEW operation, NEW path, NEW rep, NEW about,
           Emit(op, type, operation, path, rep, about),
           [type |-> type, op |-> operation, path |-> path, rep |-> rep] \in Raws,
           about \in Abouts
    PROVE  /\ events' \in Seq(Reports) /\ Len(events') = Len(events) + 1
           /\ Len(events') \in EventIds /\ Len(events) \in Nat
           /\ DOMAIN events = 1 .. Len(events) /\ DOMAIN events' = 1 .. Len(events) + 1
           /\ \A i \in 1 .. Len(events) : events'[i] = events[i]
           /\ events'[Len(events) + 1] =
                 [raw |-> [type |-> type, op |-> operation, path |-> path, rep |-> rep],
                  about |-> about]
           /\ posts' = [posts EXCEPT ![Len(events) + 1] = 1]
<1> DEFINE new == [raw |-> [type |-> type, op |-> operation, path |-> path, rep |-> rep],
                   about |-> about]
<1>1. new \in Reports
  BY DEF Reports
<1>2. events \in Seq(Reports) /\ Len(events) < MaxEvents
  <2>1. Len(events) < env.maxEvents /\ env.maxEvents \in 0 .. MaxEvents /\ events \in Seq(Reports)
    BY EnvironmentsAssumption DEF Emit, TypeOK, Reports, Abouts
  <2>2. Len(events) \in Nat
    BY <2>1, LenProperties
  <2> QED
    BY <2>1, <2>2, MaxEventsAssumption
<1>3. events' = Append(events, new) /\ posts' = [posts EXCEPT ![Len(events) + 1] = 1]
  BY DEF Emit
<1> HIDE DEF new
<1>4. /\ Append(events, new) \in Seq(Reports)
      /\ Len(Append(events, new)) = Len(events) + 1
      /\ \A i \in 1 .. Len(events) : Append(events, new)[i] = events[i]
      /\ Append(events, new)[Len(events) + 1] = new
  BY <1>1, <1>2, AppendProperties
<1>5. /\ Len(events) \in Nat /\ DOMAIN events = 1 .. Len(events)
      /\ DOMAIN events' = 1 .. Len(events')
  BY <1>2, <1>3, <1>4, LenProperties
<1>6. Len(events) + 1 \in EventIds
  BY <1>2, <1>5, MaxEventsAssumption DEF EventIds
<1> QED
  BY <1>3, <1>4, <1>5, <1>6 DEF new

\* An event is emitted.
LEMMA EmitTypes ==
    ASSUME TypeOK, NEW op, NEW type, NEW operation, NEW path, NEW rep, NEW about,
           Emit(op, type, operation, path, rep, about),
           [type |-> type, op |-> operation, path |-> path, rep |-> rep] \in Raws,
           about \in Abouts,
           realm' \in [Users -> RealmUsers], groups' \in [Users -> SUBSET Groups]
    PROVE  TypeOK'
<1>1. /\ events' \in Seq(Reports) /\ Len(events') \in EventIds
      /\ posts' = [posts EXCEPT ![Len(events) + 1] = 1]
  BY EmitAppends
<1>2. Len(events') <= MaxEvents
  BY <1>1, MaxEventsAssumption DEF EventIds
<1>3. posts' \in [EventIds -> Nat]
  BY <1>1 DEF TypeOK
<1>4. UNCHANGED <<env, ledger, toSend, broker, task, projection, sessions, faults>>
  BY DEF Emit
<1> QED
  BY <1>1, <1>2, <1>3, <1>4
  DEF TypeOK, RealmUsers, Reports, Abouts, broker, task, projection, sessions

LEMMA PathsTyped ==
    /\ \A u \in Users : /\ <<"users", u>> \in Seq(Segments)
                        /\ <<"users", u, "federated-identity", "idp">> \in Seq(Segments)
                        /\ <<"users", u, "reset-password">> \in Seq(Segments)
                        /\ <<"users", u, "role-mappings", "realm">> \in Seq(Segments)
    /\ \A u \in Users, g \in Groups : <<"users", u, "groups", g>> \in Seq(Segments)
    /\ \A g \in Groups : <<"groups", g>> \in Seq(Segments)
    /\ \A g \in Groups : <<"groups", g, "children">> \in Seq(Segments)
<1> USE DEF Segments
<1>1. \A u \in Users : <<"users", u>> \in Seq(Segments)
  OBVIOUS
<1>2. \A u \in Users : <<"users", u, "federated-identity", "idp">> \in Seq(Segments)
  OBVIOUS
<1>3. \A u \in Users : <<"users", u, "reset-password">> \in Seq(Segments)
  OBVIOUS
<1>4. \A u \in Users : <<"users", u, "role-mappings", "realm">> \in Seq(Segments)
  OBVIOUS
<1>5. \A u \in Users, g \in Groups : <<"users", u, "groups", g>> \in Seq(Segments)
  OBVIOUS
<1>6. \A g \in Groups : <<"groups", g>> \in Seq(Segments)
  OBVIOUS
<1>7. \A g \in Groups : <<"groups", g, "children">> \in Seq(Segments)
  OBVIOUS
<1> QED
  BY <1>1, <1>2, <1>3, <1>4, <1>5, <1>6, <1>7

LEMMA RepsTyped ==
    /\ NoRep \in Reps /\ NoRep.id = None /\ NoRep.username = None /\ NoRep.enabled = None
    /\ NoRep.name = None /\ NoRep.path = None
    /\ \A g \in Groups : /\ GroupRep(g) \in Reps /\ GroupRep(g).id = g /\ GroupRep(g).name = g
                         /\ GroupRep(g).path = GroupPath(g)
                         /\ GroupRep(g).username = None /\ GroupRep(g).enabled = None
BY DEF NoRep, Reps, GroupRep

LEMMA RawTyped ==
    ASSUME NEW type \in {"USER", "GROUP_MEMBERSHIP", "GROUP", "REALM_ROLE_MAPPING"},
           NEW op \in {"CREATE", "UPDATE", "DELETE", "ACTION"},
           NEW path \in Seq(Segments), NEW rep \in Reps
    PROVE  [type |-> type, op |-> op, path |-> path, rep |-> rep] \in Raws
BY DEF Raws, Reps

-----------------------------------------------------------------------------
(* What the webhook reads from the events.                                  *)

LEMMA AfterFirst ==
    ASSUME NEW path \in Seq(Segments), Len(path) >= 2
    PROVE  After(path, path[1]) = path[2]
<1> DEFINE at == {n \in 1 .. Len(path) - 1 : path[n] = path[1]}
<1>1. Len(path) \in Nat
  BY LenProperties
<1>2. 1 \in at /\ \A n \in at : n \in Nat /\ 1 <= n
  BY <1>1
<1> HIDE DEF at
<1>3. Min(at) = 1
  <2>1. \A m \in at : (\A n \in at : m <= n) => m = 1
    BY <1>2
  <2> QED
    BY <1>2, <2>1 DEF Min
<1>4. After(path, path[1]) = IF at = {} THEN None ELSE path[Min(at) + 1]
  BY DEF After, at
<1> QED
  BY <1>2, <1>3, <1>4

LEMMA AfterThird ==
    ASSUME NEW u \in Users, NEW g \in Groups
    PROVE  After(<<"users", u, "groups", g>>, "groups") = g
<1> DEFINE path == <<"users", u, "groups", g>>
           at   == {n \in 1 .. Len(path) - 1 : path[n] = "groups"}
<1>1. Len(path) = 4 /\ path[1] = "users" /\ path[2] = u /\ path[3] = "groups" /\ path[4] = g
  OBVIOUS
<1> HIDE DEF path
<1>2. \A n : n \in at <=> n = 3
  BY <1>1, WordsAssumption
<1>3. After(path, "groups") = IF at = {} THEN None ELSE path[Min(at) + 1]
  BY DEF After
<1> HIDE DEF at
<1>4. Min(at) = 3
  <2>1. at = {3}
    BY <1>2
  <2> QED
    BY <2>1 DEF Min
<1>5. After(path, "groups") = g
  BY <1>1, <1>2, <1>3, <1>4
<1> QED
  BY <1>5 DEF path

\* An event below users/{id}: it is about that user.
LEMMA UserEventFits ==
    ASSUME NEW raw \in Raws, NEW u \in Users, raw.type = "USER", Len(raw.path) >= 2,
           raw.path[1] = "users", raw.path[2] = u, raw.rep.id \in {u, None}
    PROVE  /\ Fits(LedgerEntry(raw), <<u, None>>)
           /\ raw.op \in {"CREATE", "UPDATE"} => LedgerEntry(raw).username = raw.rep.username
<1>1. raw.path \in Seq(Segments) /\ raw.rep \in Reps
  BY DEF Raws, Reps
<1>2. After(raw.path, "users") = u
  BY <1>1, AfterFirst
<1>3. SubOf(raw) = u /\ u # None
  BY <1>2, NoneAssumption DEF SubOf, Either
<1>4. LedgerEntry(raw) = UserEntry(raw)
  BY DEF LedgerEntry
<1>5. CASE raw.op \in {"CREATE", "UPDATE", "DELETE"}
  <2> DEFINE e == [Ignored EXCEPT !.kind = "user", !.op = raw.op, !.sub = u,
                        !.username = raw.rep.username, !.enabled = raw.rep.enabled]
  <2>1. LedgerEntry(raw) = e
    BY <1>3, <1>4, <1>5 DEF UserEntry
  <2>2. /\ e.kind = "user" /\ e.op = raw.op /\ e.sub = u /\ e.group = None /\ e.path = None
        /\ e.username = raw.rep.username /\ e.enabled = raw.rep.enabled
    BY DEF Ignored
  <2> HIDE DEF e
  <2>3. raw.rep.username \in Usernames \cup {None} /\ raw.rep.enabled \in {"yes", "no", None}
    BY <1>1 DEF Reps
  <2> QED
    BY <1>5, <2>1, <2>2, <2>3 DEF Fits
<1>6. CASE raw.op \notin {"CREATE", "UPDATE", "DELETE"}
  <2>1. LedgerEntry(raw) = Ignored
    BY <1>4, <1>6 DEF UserEntry
  <2>2. Ignored.op = "none" /\ Ignored.username = None /\ Ignored.enabled = None
    BY DEF Ignored
  <2> QED
    BY <1>6, <2>1, <2>2 DEF Fits
<1> QED
  BY <1>5, <1>6

\* An event of users/{id}/groups/{id}, with the representation of the group.
LEMMA MembershipEventFits ==
    ASSUME NEW raw \in Raws, NEW u \in Users, NEW g \in Groups, raw.type = "GROUP_MEMBERSHIP",
           raw.path = <<"users", u, "groups", g>>, raw.rep = GroupRep(g),
           raw.op \in {"CREATE", "DELETE"}
    PROVE  Fits(LedgerEntry(raw), <<u, g>>)
<1>1. raw.path \in Seq(Segments)
  BY DEF Raws
<1>0. Len(raw.path) = 4 /\ raw.path[1] = "users" /\ raw.path[2] = u
  <2>1. /\ Len(<<"users", u, "groups", g>>) = 4 /\ <<"users", u, "groups", g>>[1] = "users"
        /\ <<"users", u, "groups", g>>[2] = u
    OBVIOUS
  <2> QED
    BY <2>1
<1>2. After(raw.path, "users") = u
  <2> DEFINE path == raw.path
  <2>1. path \in Seq(Segments) /\ Len(path) = 4 /\ path[1] = "users" /\ path[2] = u
    BY <1>0, <1>1
  <2> HIDE DEF path
  <2>2. After(path, path[1]) = path[2]
    BY <2>1, AfterFirst
  <2> QED
    BY <2>1, <2>2 DEF path
<1>3. After(raw.path, "groups") = g
  BY AfterThird
<1>4. u # None /\ g # None
  BY NoneAssumption
<1>5. LedgerEntry(raw) = MembershipEntry(raw)
  BY DEF LedgerEntry
<1> DEFINE e == [Ignored EXCEPT !.kind = "group_membership", !.op = raw.op, !.sub = u,
                      !.group = g, !.path = raw.rep.path]
<1>6. LedgerEntry(raw) = e
  BY <1>2, <1>3, <1>4, <1>5 DEF MembershipEntry
<1>7. /\ e.kind = "group_membership" /\ e.op = raw.op /\ e.sub = u /\ e.group = g
      /\ e.path = GroupPath(g) /\ e.username = None /\ e.enabled = None
  BY RepsTyped DEF Ignored
<1> HIDE DEF e
<1> QED
  BY <1>6, <1>7 DEF Fits

\* An event of groups/{id}, or of a new group groups/{parent}/children.
LEMMA GroupEventFits ==
    ASSUME NEW raw \in Raws, NEW g \in Groups, raw.type = "GROUP",
           raw.rep.id \in {g, None}, raw.rep.name \in {g, None}, raw.rep.path \in {GroupPath(g), None},
           \/ /\ Len(raw.path) = 2 /\ raw.path[1] = "groups" /\ raw.path[2] = g
              /\ raw.op = "CREATE" => Parent[g] = None
           \/ Len(raw.path) = 3
    PROVE  Fits(LedgerEntry(raw), <<None, g>>)
<1>1. g # None
  BY NoneAssumption
<1>2. LedgerEntry(raw) = GroupEntry(raw)
  BY DEF LedgerEntry
<1>3. GroupIdOf(raw) \in {g, None}
  <2>1. TopLevel(raw.path) => raw.path[2] = g
    BY DEF TopLevel
  <2> QED
    BY <1>1, <2>1 DEF GroupIdOf, Either
<1>4. PathOf(raw) \in {GroupPath(g), None}
  <2>1. CASE raw.rep.path # None
    BY <2>1 DEF PathOf, Either
  <2>2. CASE raw.rep.path = None /\ raw.op = "CREATE" /\ raw.rep.name # None /\ TopLevel(raw.path)
    <3>1. PathOf(raw) = <<raw.rep.name>>
      BY <2>2 DEF PathOf, Either
    <3>2. Parent[g] = None /\ raw.rep.name = g
      BY <2>2 DEF TopLevel
    <3>3. GroupPath(g) = <<g>>
      BY <3>2 DEF GroupPath
    <3> QED
      BY <3>1, <3>2, <3>3
  <2>3. CASE raw.rep.path = None /\ ~ (raw.op = "CREATE" /\ raw.rep.name # None /\ TopLevel(raw.path))
    BY <2>3 DEF PathOf, Either
  <2> QED
    BY <2>1, <2>2, <2>3
<1>5. Ignored.op = "none" /\ Ignored.username = None /\ Ignored.enabled = None
  BY DEF Ignored
<1>6. CASE raw.op \in {"CREATE", "UPDATE"} /\ GroupIdOf(raw) # None
  <2> DEFINE e == [Ignored EXCEPT !.kind = "group", !.op = raw.op, !.group = g, !.path = PathOf(raw)]
  <2>1. LedgerEntry(raw) = e
    BY <1>2, <1>3, <1>6 DEF GroupEntry
  <2>2. /\ e.kind = "group" /\ e.op = raw.op /\ e.sub = None /\ e.group = g
        /\ e.path = PathOf(raw) /\ e.username = None /\ e.enabled = None
    BY DEF Ignored
  <2> HIDE DEF e
  <2> QED
    BY <1>4, <1>6, <2>1, <2>2 DEF Fits
<1>7. CASE ~ (raw.op \in {"CREATE", "UPDATE"} /\ GroupIdOf(raw) # None)
  <2>1. LedgerEntry(raw) = Ignored
    BY <1>2, <1>7 DEF GroupEntry
  <2> QED
    BY <1>5, <2>1 DEF Fits
<1> QED
  BY <1>6, <1>7

\* Any other event is ignored.
LEMMA OtherEventFits ==
    ASSUME NEW raw \in Raws, raw.type = "REALM_ROLE_MAPPING", NEW about
    PROVE  Fits(LedgerEntry(raw), about)
<1>1. LedgerEntry(raw) = Ignored
  BY DEF LedgerEntry
<1>2. Ignored.op = "none" /\ Ignored.username = None /\ Ignored.enabled = None
  BY DEF Ignored
<1> QED
  BY <1>1, <1>2 DEF Fits

-----------------------------------------------------------------------------
(* What Keycloak does.                                                      *)

\* The event of a change: who and what it is about, and where a user gets a
\* username, it says so.
Reported(raw, about) ==
    /\ \E op \in AllOps : Emit(op, raw.type, raw.op, raw.path, raw.rep, about)
    /\ raw \in Raws /\ about \in Abouts
    /\ Fits(LedgerEntry(raw), about)
    /\ realm' \in [Users -> RealmUsers] /\ groups' \in [Users -> SUBSET Groups]
    /\ \A u \in Users : Present(u)' =>
          \/ Present(u) /\ realm'[u].name = realm[u].name
          \/ /\ about[1] = u /\ LedgerEntry(raw).username = realm'[u].name
             /\ realm'[u].name \in Usernames

LEMMA EnvTyped ==
    ASSUME TypeOK
    PROVE  /\ env.users \subseteq Users /\ env.groups \subseteq Groups /\ env.usernames \subseteq Usernames
           /\ env.workers \subseteq Workers /\ env.sessions \subseteq Sessions
           /\ env.maxFaults \in Nat
BY EnvironmentsAssumption DEF TypeOK

LEMMA UserPaths ==
    ASSUME NEW u
    PROVE  /\ Len(<<"users", u>>) = 2 /\ <<"users", u>>[1] = "users" /\ <<"users", u>>[2] = u
           /\ Len(<<"groups", u>>) = 2 /\ <<"groups", u>>[1] = "groups" /\ <<"groups", u>>[2] = u
           /\ Len(<<"groups", u, "children">>) = 3
OBVIOUS

LEMMA LinkPaths ==
    ASSUME NEW u
    PROVE  /\ Len(<<"users", u, "federated-identity", "idp">>) = 4
           /\ <<"users", u, "federated-identity", "idp">>[1] = "users"
           /\ <<"users", u, "federated-identity", "idp">>[2] = u
           /\ Len(<<"users", u, "reset-password">>) = 3
           /\ <<"users", u, "reset-password">>[1] = "users"
           /\ <<"users", u, "reset-password">>[2] = u
OBVIOUS

LEMMA CreatesReports ==
    ASSUME TypeOK, NEW u \in Users, NEW enabled \in {"yes", "no"}, NEW n \in Usernames,
           AdminCreates(u, enabled, n)
    PROVE  \E raw \in Raws, about \in Abouts : Reported(raw, about)
<1> DEFINE rep == [NoRep EXCEPT !.username = n, !.enabled = enabled]
           raw == [type |-> "USER", op |-> "CREATE", path |-> <<"users", u>>, rep |-> rep]
<1>1. rep \in Reps /\ rep.username = n /\ rep.id = None
  BY DEF NoRep, Reps
<1>2. Emit("create", "USER", "CREATE", <<"users", u>>, rep, <<u, None>>)
  BY DEF AdminCreates
<1> HIDE DEF rep
<1>3. raw \in Raws
  BY <1>1, PathsTyped, RawTyped
<1>4. raw.type = "USER" /\ raw.op = "CREATE" /\ raw.path = <<"users", u>> /\ raw.rep = rep
  OBVIOUS
<1> HIDE DEF raw
<1>5. Fits(LedgerEntry(raw), <<u, None>>) /\ LedgerEntry(raw).username = n
  BY <1>1, <1>3, <1>4, UserEventFits, UserPaths, SMTT(40)
<1>6. realm' \in [Users -> RealmUsers] /\ groups' \in [Users -> SUBSET Groups]
  BY DEF AdminCreates, Person, Status, TypeOK, RealmUsers
<1>7. \A v \in Users : realm'[v] = IF v = u THEN Person(Status(enabled), n) ELSE realm[v]
  BY DEF AdminCreates, TypeOK
<1>8. \A v \in Users : v # u => (Present(v)' <=> Present(v))
  BY <1>7 DEF Present
<1>9. realm'[u].name = n
  BY <1>7 DEF Person
<1>10. <<u, None>> \in Abouts /\ <<u, None>>[1] = u /\ "create" \in AllOps
  BY DEF Abouts, AllOps
<1>11. Reported(raw, <<u, None>>)
  BY <1>2, <1>3, <1>4, <1>5, <1>6, <1>7, <1>8, <1>9, <1>10 DEF Reported
<1> QED
  BY <1>3, <1>10, <1>11

LEMMA UpdatesReports ==
    ASSUME TypeOK, NEW u \in Users, NEW enabled \in {"yes", "no", None},
           NEW n \in Usernames \cup {None}, AdminUpdates(u, enabled, n)
    PROVE  \E raw \in Raws, about \in Abouts : Reported(raw, about)
<1> DEFINE rep == [NoRep EXCEPT !.id = u, !.username = n, !.enabled = enabled]
           raw == [type |-> "USER", op |-> "UPDATE", path |-> <<"users", u>>, rep |-> rep]
           op  == IF n = None THEN "update" ELSE "rename"
<1>1. rep \in Reps /\ rep.username = n /\ rep.id = u
  BY DEF NoRep, Reps
<1>2. Emit(op, "USER", "UPDATE", <<"users", u>>, rep, <<u, None>>)
  BY DEF AdminUpdates
<1> HIDE DEF rep
<1>3. raw \in Raws
  BY <1>1, PathsTyped, RawTyped
<1>4. raw.type = "USER" /\ raw.op = "UPDATE" /\ raw.path = <<"users", u>> /\ raw.rep = rep
  OBVIOUS
<1> HIDE DEF raw
<1>5. Fits(LedgerEntry(raw), <<u, None>>) /\ LedgerEntry(raw).username = n
  <2>1. /\ Len(raw.path) >= 2 /\ raw.path[1] = "users" /\ raw.path[2] = u /\ raw.type = "USER"
        /\ raw.rep.id \in {u, None} /\ raw.rep.username = n /\ raw.op \in {"CREATE", "UPDATE"}
    BY <1>1, <1>4, UserPaths
  <2> HIDE DEF op
  <2> QED
    BY <1>3, <2>1, UserEventFits
<1> DEFINE new == Person(IF enabled = None THEN realm[u].status ELSE Status(enabled),
                         Either(n, realm[u].name))
<1>6. new \in RealmUsers /\ new.name = IF n # None THEN n ELSE realm[u].name
  BY DEF Person, Either, Status, TypeOK, RealmUsers
<1>7. realm' = [realm EXCEPT ![u] = new] /\ groups' = groups /\ Present(u)
  BY DEF AdminUpdates
<1> HIDE DEF new
<1>8. /\ realm' \in [Users -> RealmUsers] /\ groups' \in [Users -> SUBSET Groups]
      /\ \A v \in Users : realm'[v] = IF v = u THEN new ELSE realm[v]
  BY <1>6, <1>7 DEF TypeOK, RealmUsers
<1>9. \A v \in Users : v # u => (Present(v)' <=> Present(v))
  BY <1>8 DEF Present
<1>10. (realm'[u].name = n /\ n \in Usernames) \/ realm'[u].name = realm[u].name
  BY <1>6, <1>8
<1>11. <<u, None>> \in Abouts /\ <<u, None>>[1] = u /\ op \in AllOps
  BY DEF Abouts, AllOps
<1>12. Reported(raw, <<u, None>>)
  <2>1. Emit(op, raw.type, raw.op, raw.path, raw.rep, <<u, None>>)
    BY <1>2, <1>4
  <2>2. \A v \in Users : Present(v)' =>
           \/ Present(v) /\ realm'[v].name = realm[v].name
           \/ v = u /\ LedgerEntry(raw).username = realm'[v].name /\ realm'[v].name \in Usernames
    BY <1>5, <1>7, <1>8, <1>9, <1>10
  <2> HIDE DEF op
  <2> QED
    BY <1>3, <1>5, <1>8, <1>11, <2>1, <2>2 DEF Reported
<1> QED
  BY <1>3, <1>11, <1>12

\* An event that gives no username.
LEMMA Reports0 ==
    ASSUME TypeOK, NEW raw \in Raws, NEW u \in Users \cup {None}, NEW g \in Groups \cup {None},
           NEW op \in AllOps, Emit(op, raw.type, raw.op, raw.path, raw.rep, <<u, g>>),
           Fits(LedgerEntry(raw), <<u, g>>),
           realm' \in [Users -> RealmUsers], groups' \in [Users -> SUBSET Groups],
           \A v \in Users : Present(v)' => Present(v) /\ realm'[v].name = realm[v].name
    PROVE  \E r \in Raws, about \in Abouts : Reported(r, about)
<1>1. <<u, g>> \in Abouts
  BY DEF Abouts
<1>2. Reported(raw, <<u, g>>)
  BY <1>1 DEF Reported
<1> QED
  BY <1>1, <1>2

LEMMA SameRealm ==
    ASSUME TypeOK, realm' = realm
    PROVE  /\ realm' \in [Users -> RealmUsers]
           /\ \A v \in Users : Present(v)' => Present(v) /\ realm'[v].name = realm[v].name
BY DEF Present, TypeOK, RealmUsers

LEMMA DeletesReports ==
    ASSUME TypeOK, NEW u \in Users, AdminDeletes(u)
    PROVE  \E raw \in Raws, about \in Abouts : Reported(raw, about)
<1> DEFINE raw == [type |-> "USER", op |-> "DELETE", path |-> <<"users", u>>, rep |-> NoRep]
<1>1. Emit("delete", "USER", "DELETE", <<"users", u>>, NoRep, <<u, None>>)
  BY DEF AdminDeletes
<1>2. raw \in Raws
  BY PathsTyped, RepsTyped, RawTyped
<1>3. raw.type = "USER" /\ raw.op = "DELETE" /\ raw.path = <<"users", u>> /\ raw.rep = NoRep
  OBVIOUS
<1> HIDE DEF raw
<1>4. Fits(LedgerEntry(raw), <<u, None>>)
  BY <1>2, <1>3, RepsTyped, UserEventFits, UserPaths
<1>5. /\ realm' \in [Users -> RealmUsers] /\ groups' \in [Users -> SUBSET Groups]
      /\ \A v \in Users : realm'[v] = IF v = u THEN Person("deleted", None) ELSE realm[v]
  BY DEF AdminDeletes, Person, TypeOK, RealmUsers
<1>6. \A v \in Users : Present(v)' => Present(v) /\ realm'[v].name = realm[v].name
  BY <1>5 DEF Present, Person
<1>7. "delete" \in AllOps
  BY DEF AllOps
<1> QED
  BY <1>1, <1>2, <1>3, <1>4, <1>5, <1>6, <1>7, Reports0

LEMMA LinksReports ==
    ASSUME TypeOK, NEW u \in Users, NEW operation \in {"CREATE", "DELETE"}, AdminLinks(u, operation)
    PROVE  \E raw \in Raws, about \in Abouts : Reported(raw, about)
<1> DEFINE path == <<"users", u, "federated-identity", "idp">>
           raw  == [type |-> "USER", op |-> operation, path |-> path, rep |-> NoRep]
<1>1. Emit("link", "USER", operation, path, NoRep, <<u, None>>) /\ realm' = realm /\ groups' = groups
  BY DEF AdminLinks
<1>2. path \in Seq(Segments) /\ Len(path) = 4 /\ path[1] = "users" /\ path[2] = u
  BY PathsTyped, LinkPaths
<1> HIDE DEF path
<1>3. raw \in Raws
  BY <1>2, RepsTyped, RawTyped
<1>4. raw.type = "USER" /\ raw.op = operation /\ raw.path = path /\ raw.rep = NoRep
  OBVIOUS
<1> HIDE DEF raw
<1>5. Fits(LedgerEntry(raw), <<u, None>>)
  <2>1. Len(raw.path) = 4 /\ raw.path[1] = "users" /\ raw.path[2] = u
    BY <1>2, <1>4, Zenon
  <2>2. Len(raw.path) >= 2
    BY <2>1
  <2>3. raw.rep.id = None
    BY <1>4, RepsTyped
  <2> QED
    BY <1>3, <1>4, <2>1, <2>2, <2>3, UserEventFits
<1>6. "link" \in AllOps /\ groups' \in [Users -> SUBSET Groups]
  BY <1>1 DEF AllOps, TypeOK
<1>7. Emit("link", raw.type, raw.op, raw.path, raw.rep, <<u, None>>)
  BY <1>1, <1>4
<1> QED
  BY <1>1, <1>3, <1>5, <1>6, <1>7, SameRealm, Reports0

LEMMA ActsReports ==
    ASSUME TypeOK, NEW u \in Users, AdminActs(u)
    PROVE  \E raw \in Raws, about \in Abouts : Reported(raw, about)
<1>1. realm' = realm /\ groups' = groups
  BY DEF AdminActs
<1>2. "ignored" \in AllOps /\ groups' \in [Users -> SUBSET Groups]
  BY <1>1 DEF AllOps, TypeOK
<1>3. CASE Emit("ignored", "USER", "ACTION", <<"users", u, "reset-password">>, NoRep, <<u, None>>)
  <2> DEFINE path == <<"users", u, "reset-password">>
             raw  == [type |-> "USER", op |-> "ACTION", path |-> path, rep |-> NoRep]
  <2>1. path \in Seq(Segments) /\ Len(path) = 3 /\ path[1] = "users" /\ path[2] = u
    BY PathsTyped, LinkPaths
  <2>2. Emit("ignored", "USER", "ACTION", path, NoRep, <<u, None>>)
    BY <1>3
  <2> HIDE DEF path
  <2>3. raw \in Raws
    BY <2>1, RepsTyped, RawTyped
  <2>4. raw.type = "USER" /\ raw.op = "ACTION" /\ raw.path = path /\ raw.rep = NoRep
    OBVIOUS
  <2> HIDE DEF raw
  <2>5. Len(raw.path) = 3 /\ raw.path[1] = "users" /\ raw.path[2] = u
    BY <2>1, <2>4, Zenon
  <2>6. Len(raw.path) >= 2
    BY <2>5
  <2>7. raw.rep.id = None
    BY <2>4, RepsTyped
  <2>8. Fits(LedgerEntry(raw), <<u, None>>)
    BY <2>3, <2>4, <2>5, <2>6, <2>7, UserEventFits
  <2>9. Emit("ignored", raw.type, raw.op, raw.path, raw.rep, <<u, None>>)
    BY <2>2, <2>4
  <2> QED
    BY <1>1, <1>2, <2>3, <2>8, <2>9, SameRealm, Reports0
<1>4. CASE Emit("ignored", "REALM_ROLE_MAPPING", "CREATE", <<"users", u, "role-mappings", "realm">>,
                NoRep, <<u, None>>)
  <2> DEFINE path == <<"users", u, "role-mappings", "realm">>
             raw  == [type |-> "REALM_ROLE_MAPPING", op |-> "CREATE", path |-> path, rep |-> NoRep]
  <2>1. path \in Seq(Segments)
    BY PathsTyped
  <2>2. Emit("ignored", "REALM_ROLE_MAPPING", "CREATE", path, NoRep, <<u, None>>)
    BY <1>4
  <2> HIDE DEF path
  <2>3. raw \in Raws
    BY <2>1, RepsTyped, RawTyped
  <2>4. raw.type = "REALM_ROLE_MAPPING" /\ raw.op = "CREATE" /\ raw.path = path /\ raw.rep = NoRep
    OBVIOUS
  <2> HIDE DEF raw
  <2>5. Fits(LedgerEntry(raw), <<u, None>>)
    BY <2>3, <2>4, OtherEventFits
  <2>6. Emit("ignored", raw.type, raw.op, raw.path, raw.rep, <<u, None>>)
    BY <2>2, <2>4
  <2> QED
    BY <1>1, <1>2, <2>3, <2>5, <2>6, SameRealm, Reports0
<1> QED
  BY <1>3, <1>4 DEF AdminActs

LEMMA MembersReport ==
    ASSUME TypeOK, NEW u \in Users, NEW g \in Groups, AdminJoins(u, g) \/ AdminRemoves(u, g)
    PROVE  \E raw \in Raws, about \in Abouts : Reported(raw, about)
<1> DEFINE path    == <<"users", u, "groups", g>>
           raw(op) == [type |-> "GROUP_MEMBERSHIP", op |-> op, path |-> path, rep |-> GroupRep(g)]
<1>1. realm' = realm /\ groups' \in [Users -> SUBSET Groups]
  <2>1. groups \in [Users -> SUBSET Groups]
    BY DEF TypeOK
  <2>2. CASE AdminJoins(u, g)
    <3>1. groups' = [groups EXCEPT ![u] = groups[u] \cup {g}] /\ realm' = realm
      BY <2>2 DEF AdminJoins
    <3>2. groups[u] \cup {g} \in SUBSET Groups
      BY <2>1
    <3> QED
      BY <2>1, <3>1, <3>2
  <2>3. CASE AdminRemoves(u, g)
    <3>1. groups' = [groups EXCEPT ![u] = groups[u] \ {g}] /\ realm' = realm
      BY <2>3 DEF AdminRemoves
    <3>2. groups[u] \ {g} \in SUBSET Groups
      BY <2>1
    <3> QED
      BY <2>1, <3>1, <3>2
  <2> QED
    BY <2>2, <2>3
<1>2. \/ Emit("join", "GROUP_MEMBERSHIP", "CREATE", path, GroupRep(g), <<u, g>>)
      \/ Emit("leave", "GROUP_MEMBERSHIP", "DELETE", path, GroupRep(g), <<u, g>>)
  BY DEF AdminJoins, AdminRemoves
<1>3. path \in Seq(Segments) /\ path = <<"users", u, "groups", g>>
  BY PathsTyped
<1> HIDE DEF path
<1>4. ASSUME NEW op \in {"CREATE", "DELETE"}
      PROVE  /\ raw(op) \in Raws /\ raw(op).type = "GROUP_MEMBERSHIP" /\ raw(op).op = op
             /\ raw(op).path = path /\ raw(op).rep = GroupRep(g)
  <2>1. raw(op) \in Raws
    BY <1>3, RepsTyped, RawTyped
  <2> QED
    BY <2>1
<1> HIDE DEF raw
<1>5. ASSUME NEW op \in {"CREATE", "DELETE"} PROVE Fits(LedgerEntry(raw(op)), <<u, g>>)
  <2>1. /\ raw(op) \in Raws /\ raw(op).type = "GROUP_MEMBERSHIP" /\ raw(op).op = op
        /\ raw(op).path = <<"users", u, "groups", g>> /\ raw(op).rep = GroupRep(g)
    BY <1>3, <1>4, <1>5, Zenon
  <2> QED
    BY <1>5, <2>1, MembershipEventFits
<1>6. "join" \in AllOps /\ "leave" \in AllOps
  BY DEF AllOps
<1>7. CASE Emit("join", "GROUP_MEMBERSHIP", "CREATE", path, GroupRep(g), <<u, g>>)
  <2>1. Emit("join", raw("CREATE").type, raw("CREATE").op, raw("CREATE").path, raw("CREATE").rep, <<u, g>>)
    BY <1>4, <1>7
  <2> QED
    BY <1>1, <1>4, <1>5, <1>6, <2>1, SameRealm, Reports0
<1>8. CASE Emit("leave", "GROUP_MEMBERSHIP", "DELETE", path, GroupRep(g), <<u, g>>)
  <2>1. Emit("leave", raw("DELETE").type, raw("DELETE").op, raw("DELETE").path, raw("DELETE").rep, <<u, g>>)
    BY <1>4, <1>8
  <2> QED
    BY <1>1, <1>4, <1>5, <1>6, <2>1, SameRealm, Reports0
<1> QED
  BY <1>2, <1>7, <1>8

LEMMA GroupReports ==
    ASSUME TypeOK, NEW g \in Groups, NEW path \in Seq(Segments), NEW rep \in Reps,
           NEW op \in AllOps, NEW operation \in {"CREATE", "UPDATE", "DELETE"},
           Emit(op, "GROUP", operation, path, rep, <<None, g>>),
           realm' = realm, groups' \in [Users -> SUBSET Groups],
           rep.id \in {g, None}, rep.name \in {g, None}, rep.path \in {GroupPath(g), None},
           \/ /\ Len(path) = 2 /\ path[1] = "groups" /\ path[2] = g
              /\ operation = "CREATE" => Parent[g] = None
           \/ Len(path) = 3
    PROVE  \E raw \in Raws, about \in Abouts : Reported(raw, about)
<1> DEFINE raw == [type |-> "GROUP", op |-> operation, path |-> path, rep |-> rep]
<1>1. raw \in Raws
  BY RawTyped
<1>2. raw.type = "GROUP" /\ raw.op = operation /\ raw.path = path /\ raw.rep = rep
  OBVIOUS
<1> HIDE DEF raw
<1>3. Fits(LedgerEntry(raw), <<None, g>>)
  BY <1>1, <1>2, GroupEventFits
<1>4. Emit(op, raw.type, raw.op, raw.path, raw.rep, <<None, g>>)
  BY <1>2
<1> QED
  BY <1>1, <1>3, <1>4, SameRealm, Reports0

LEMMA GroupsReport ==
    ASSUME TypeOK, NEW g \in Groups, NEW id \in {g, None},
           AdminCreatesGroup(g, id) \/ AdminUpdatesGroup(g) \/ AdminDeletesGroup(g)
    PROVE  \E raw \in Raws, about \in Abouts : Reported(raw, about)
<1>1. realm' = realm /\ groups' \in [Users -> SUBSET Groups]
  BY DEF AdminCreatesGroup, AdminUpdatesGroup, AdminDeletesGroup, TypeOK
<1>2. "group" \in AllOps /\ "ungroup" \in AllOps
  BY DEF AllOps
<1>3. CASE AdminCreatesGroup(g, id)
  <2> DEFINE rep == [NoRep EXCEPT !.id = id, !.name = g]
  <2>1. rep \in Reps /\ rep.id = id /\ rep.name = g /\ rep.path = None
    BY DEF NoRep, Reps
  <2> HIDE DEF rep
  <2>2. CASE Parent[g] = None
    <3>1. Emit("group", "GROUP", "CREATE", <<"groups", g>>, rep, <<None, g>>)
      BY <1>3, <2>2 DEF AdminCreatesGroup, rep
    <3>2. <<"groups", g>> \in Seq(Segments)
      BY PathsTyped
    <3>3. Len(<<"groups", g>>) = 2 /\ <<"groups", g>>[1] = "groups" /\ <<"groups", g>>[2] = g
      BY UserPaths
    <3> QED
      BY <1>1, <1>2, <2>1, <2>2, <3>1, <3>2, <3>3, GroupReports
  <2>3. CASE Parent[g] # None
    <3>0. Parent[g] \in Groups
      BY <2>3, ParentAssumption
    <3>1. Emit("group", "GROUP", "CREATE", <<"groups", Parent[g], "children">>, rep, <<None, g>>)
      BY <1>3, <2>3 DEF AdminCreatesGroup, rep
    <3>2. <<"groups", Parent[g], "children">> \in Seq(Segments)
      BY <3>0, PathsTyped
    <3>3. Len(<<"groups", Parent[g], "children">>) = 3
      BY UserPaths
    <3> QED
      BY <1>1, <1>2, <2>1, <3>1, <3>2, <3>3, GroupReports
  <2> QED
    BY <2>2, <2>3
<1>4. CASE AdminUpdatesGroup(g)
  <2>1. Emit("group", "GROUP", "UPDATE", <<"groups", g>>, GroupRep(g), <<None, g>>)
    BY <1>4 DEF AdminUpdatesGroup
  <2>2. <<"groups", g>> \in Seq(Segments)
    BY PathsTyped
  <2>3. Len(<<"groups", g>>) = 2 /\ <<"groups", g>>[1] = "groups" /\ <<"groups", g>>[2] = g
    BY UserPaths
  <2> QED
    BY <1>1, <1>2, <2>1, <2>2, <2>3, RepsTyped, GroupReports, ZenonT(40)
<1>5. CASE AdminDeletesGroup(g)
  <2>1. Emit("ungroup", "GROUP", "DELETE", <<"groups", g>>, NoRep, <<None, g>>)
    BY <1>5 DEF AdminDeletesGroup
  <2>2. <<"groups", g>> \in Seq(Segments)
    BY PathsTyped
  <2>3. Len(<<"groups", g>>) = 2 /\ <<"groups", g>>[1] = "groups" /\ <<"groups", g>>[2] = g
    BY UserPaths
  <2> QED
    BY <1>1, <1>2, <2>1, <2>2, <2>3, RepsTyped, GroupReports
<1> QED
  BY <1>3, <1>4, <1>5

LEMMA AdministerReports ==
    ASSUME TypeOK, Administer
    PROVE  \E raw \in Raws, about \in Abouts : Reported(raw, about)
<1>1. env.users \subseteq Users /\ env.groups \subseteq Groups /\ env.usernames \subseteq Usernames
  BY EnvTyped
<1>2. CASE \E u \in env.users :
        \/ \E enabled \in {"yes", "no"}, n \in env.usernames : AdminCreates(u, enabled, n)
        \/ \E enabled \in {"yes", "no", None}, n \in env.usernames \cup {None} :
                AdminUpdates(u, enabled, n)
        \/ AdminDeletes(u)
        \/ \E operation \in {"CREATE", "DELETE"} : AdminLinks(u, operation)
        \/ AdminActs(u)
        \/ \E g \in env.groups : AdminJoins(u, g) \/ AdminRemoves(u, g)
  <2>1. PICK u \in Users :
        \/ \E enabled \in {"yes", "no"}, n \in Usernames : AdminCreates(u, enabled, n)
        \/ \E enabled \in {"yes", "no", None}, n \in Usernames \cup {None} :
                AdminUpdates(u, enabled, n)
        \/ AdminDeletes(u)
        \/ \E operation \in {"CREATE", "DELETE"} : AdminLinks(u, operation)
        \/ AdminActs(u)
        \/ \E g \in Groups : AdminJoins(u, g) \/ AdminRemoves(u, g)
    BY <1>1, <1>2
  <2> QED
    BY <2>1, CreatesReports, UpdatesReports, DeletesReports, LinksReports, ActsReports, MembersReport
<1>3. CASE \E g \in env.groups :
        \/ \E id \in {g, None} : AdminCreatesGroup(g, id)
        \/ AdminUpdatesGroup(g)
        \/ AdminDeletesGroup(g)
  <2>1. PICK g \in Groups : \E id \in {g, None} :
          AdminCreatesGroup(g, id) \/ AdminUpdatesGroup(g) \/ AdminDeletesGroup(g)
    BY <1>1, <1>3
  <2> QED
    BY <2>1, GroupsReport
<1> QED
  BY <1>2, <1>3 DEF Administer

-----------------------------------------------------------------------------
(* The broker.                                                              *)

LEMMA SentIs ==
    ASSUME NEW q \in [Messages -> Nat], NEW m \in Messages
    PROVE  /\ Sent(q, m) \in [Messages -> Nat]
           /\ Sent(q, m)[m] = q[m] + 1
           /\ \A n \in Messages \ {m} : Sent(q, m)[n] = q[n]
           /\ \A n : n \in Waiting(Sent(q, m)) <=> n \in Waiting(q) \/ n = m
BY DEF Sent, Waiting

LEMMA WaitingIs ==
    ASSUME NEW q \in [Messages -> Nat], NEW m \in Waiting(q)
    PROVE  m \in Messages /\ m.job \in EventIds /\ m.tries \in 0 .. MaxRetries
<1>1. m \in Messages
  BY DEF Waiting
<1> QED
  BY <1>1 DEF Messages

LEMMA TakenIs ==
    ASSUME NEW q \in [Messages -> Nat], NEW m \in Waiting(q)
    PROVE  /\ m \in Messages /\ Taken(q, m) \in [Messages -> Nat]
           /\ Taken(q, m)[m] = q[m] - 1
           /\ \A n \in Messages \ {m} : Taken(q, m)[n] = q[n]
           /\ \A n \in Waiting(Taken(q, m)) : n \in Waiting(q)
           /\ \A n \in Waiting(q) : n # m => n \in Waiting(Taken(q, m))
BY DEF Taken, Waiting

LEMMA RetriedIs ==
    ASSUME NEW q \in [Messages -> Nat], NEW m \in Messages
    PROVE  IF m.tries < MaxRetries
           THEN \E n \in Messages : n.job = m.job /\ n.tries = m.tries + 1 /\ n = Message(m.job, m.tries + 1)
                                    /\ Retried(q, m, MaxRetries) = Sent(q, n)
           ELSE Retried(q, m, MaxRetries) = q
<1>1. m.job \in EventIds /\ m.tries \in 0 .. MaxRetries
  BY DEF Messages
<1>2. CASE m.tries < MaxRetries
  <2> DEFINE n == Message(m.job, m.tries + 1)
  <2>1. m.tries + 1 \in 0 .. MaxRetries
    BY <1>1, <1>2, MaxRetriesAssumption
  <2>2. n \in Messages /\ n.job = m.job /\ n.tries = m.tries + 1
    BY <1>1, <2>1 DEF Message, Messages
  <2> QED
    BY <1>2, <2>2 DEF Retried
<1>3. CASE ~ (m.tries < MaxRetries)
  BY <1>3 DEF Retried
<1> QED
  BY <1>2, <1>3

LEMMA RetriedTyped ==
    ASSUME NEW q \in [Messages -> Nat], NEW m \in Messages
    PROVE  Retried(q, m, MaxRetries) \in [Messages -> Nat]
<1>1. CASE m.tries < MaxRetries
  <2>1. PICK n \in Messages : Retried(q, m, MaxRetries) = Sent(q, n)
    BY <1>1, RetriedIs
  <2> QED
    BY <2>1, SentIs
<1>2. CASE ~ (m.tries < MaxRetries)
  BY <1>2, RetriedIs
<1> QED
  BY <1>1, <1>2

LEMMA FirstTry ==
    ASSUME NEW i \in EventIds
    PROVE  Message(i, 0) \in Messages /\ Message(i, 0).job = i /\ Message(i, 0).tries = 0
BY MaxRetriesAssumption DEF Message, Messages

-----------------------------------------------------------------------------
(* The types.                                                               *)

LEMMA InitTypes ==
    ASSUME Init
    PROVE  TypeOK
<1>1. env \in Environments
  BY DEF Init
<1>2. /\ env.groups \subseteq Groups /\ env.usernames \subseteq Usernames /\ env.maxFaults \in Nat
      /\ \A u \in DOMAIN env.known : env.known[u] \in env.usernames
  BY <1>1, EnvironmentsAssumption
<1>3. realm \in [Users -> RealmUsers]
  BY <1>2 DEF Init, Person, RealmUsers
<1>4. user \in [Users -> LocalUsers]
  BY <1>2 DEF Init, Person, LocalUsers, Names
<1>5. groups \in [Users -> SUBSET Groups] /\ member \in [Users -> SUBSET Groups]
  BY <1>2 DEF Init
<1>6. events \in Seq(Reports) /\ Len(events) <= MaxEvents
  BY MaxEventsAssumption DEF Init
<1>7. queue \in [Messages -> Nat]
  BY DEF Init, NoMessages, Messages
<1>8. work \in [Workers -> Works] /\ \A w \in Workers : work[w].pc = "idle"
  BY DEF Init, Idle, Works
<1>9. login \in [Sessions -> Logins] /\ \A s \in Sessions : login[s].pc = "idle"
  BY DEF Init, LoggedOut, Logins, Names
<1>10. /\ posts \in [EventIds -> Nat] /\ sent \in [EventIds -> Nat] /\ applied \in [EventIds -> Nat]
       /\ ledger = {} /\ toSend = {} /\ processed = {} /\ tokens = {} /\ faults = 0
  BY DEF Init
<1> QED
  BY <1>1, <1>2, <1>3, <1>4, <1>5, <1>6, <1>7, <1>8, <1>9, <1>10
  DEF TypeOK, RealmUsers, LocalUsers, Reports, Abouts, Works, Logins

LEMMA FaultTypes ==
    ASSUME TypeOK, NEW kind, Fault(kind), env' = env
    PROVE  faults' \in Nat /\ faults' <= env'.maxFaults /\ faults' = faults + 1 /\ kind \in env.faults
BY EnvTyped DEF Fault, TypeOK

\* The webhook: what it changes.
LEMMA WebhookTypes ==
    ASSUME TypeOK, NEW i \in EventIds,
           PostLost(i) \/ PostDuplicated(i) \/ Deliver(i) \/ Delay(i) \/ WebCrash(i)
    PROVE  TypeOK'
<1>1. /\ posts' \in [EventIds -> Nat] /\ ledger' \subseteq EventIds /\ toSend' \subseteq EventIds
      /\ faults' \in Nat /\ faults' <= env'.maxFaults
      /\ queue' \in [Messages -> Nat] /\ sent' \in [EventIds -> Nat]
      /\ UNCHANGED <<keycloak, task, projection, sessions>>
  <2>0. /\ posts \in [EventIds -> Nat] /\ ledger \subseteq EventIds /\ toSend \subseteq EventIds
        /\ queue \in [Messages -> Nat] /\ sent \in [EventIds -> Nat]
        /\ faults \in Nat /\ faults <= env.maxFaults
    BY DEF TypeOK
  <2> USE <2>0
  <2>1. CASE PostLost(i)
    <3>0. posts[i] > 0 /\ posts[i] \in Nat /\ posts' = [posts EXCEPT ![i] = @ - 1]
      BY <2>1 DEF PostLost
    <3>1. posts[i] - 1 \in Nat /\ posts' = [posts EXCEPT ![i] = posts[i] - 1]
      BY <3>0
    <3>2. posts' \in [EventIds -> Nat]
      BY <3>1
    <3>3. faults' \in Nat /\ faults' <= env'.maxFaults
      BY <2>1, FaultTypes DEF PostLost, keycloak
    <3> QED
      BY <2>1, <3>2, <3>3 DEF PostLost, keycloak, broker
  <2>2. CASE PostDuplicated(i)
    BY <2>2, FaultTypes DEF PostDuplicated, keycloak, broker
  <2>3. CASE Deliver(i)
    BY <2>3 DEF Deliver, keycloak, broker
  <2>4. CASE Delay(i)
    BY <2>4, FirstTry, SentIs DEF Delay, keycloak
  <2>5. CASE WebCrash(i)
    BY <2>5, FaultTypes DEF WebCrash, keycloak, broker
  <2> QED
    BY <2>1, <2>2, <2>3, <2>4, <2>5
<1> QED
  BY <1>1 DEF TypeOK, keycloak, task, projection, sessions

\* The parts of IInv that are about events, runs and marks.
Base == TypeOK /\ RowsFit /\ RunsFollow

\* The event that a worker handles.
LEMMA BusyEvent ==
    ASSUME Base, NEW w \in Workers, Busy(w)
    PROVE  /\ work[w].msg \in Messages /\ EventOf(w) \in EventIds
           /\ EventOf(w) \in DOMAIN events /\ EventOf(w) \in ledger
           /\ Fits(Entry(EventOf(w)), events[EventOf(w)].about) /\ Entry(EventOf(w)) # Ignored
<1>1. work[w].msg \in Messages /\ sent[EventOf(w)] = 1
  BY DEF Base, TypeOK, RunsFollow, Busy
<1>2. EventOf(w) \in EventIds
  BY <1>1 DEF EventOf, Messages
<1>3. EventOf(w) \in ledger
  BY <1>1, <1>2 DEF Base, RunsFollow, EnqueuedOnce
<1> QED
  BY <1>1, <1>2, <1>3 DEF Base, RowsFit

\* The row of a user after an event.
LEMMA UserAfterTyped ==
    ASSUME NEW about, NEW e, Fits(e, about), NEW row \in LocalUsers, e.sub \in Users
    PROVE  UserAfter(e, row) \in LocalUsers
<1>1. e.username \in Usernames \cup {None}
  BY DEF Fits
<1>2. Upserted(row, e) \in LocalUsers
  BY <1>1 DEF Upserted, Person, Either, LocalUsers, Names
<1>3. Deactivated(row) \in LocalUsers
  BY DEF Deactivated, LocalUsers
<1> QED
  BY <1>2, <1>3 DEF UserAfter

\* A worker: what it changes.
LEMMA RunTypes ==
    ASSUME Base, NEW w \in Workers,
           Run(w) \/ WorkerCrash(w) \/ Redeliver(w) \/ TaskError(w)
    PROVE  TypeOK'
<1>0. /\ TypeOK /\ queue \in [Messages -> Nat] /\ work \in [Workers -> Works]
      /\ applied \in [EventIds -> Nat] /\ processed \subseteq EventIds
      /\ user \in [Users -> LocalUsers] /\ member \in [Users -> SUBSET Groups]
      /\ \A v \in Workers : work[v].pc # "idle" => work[v].msg \in Messages
      /\ faults \in Nat /\ faults <= env.maxFaults /\ Len(events) \in Nat
  <2>1. events \in Seq(Reports)
    BY DEF Base, TypeOK, Reports, Abouts
  <2>2. Len(events) \in Nat
    BY <2>1, LenProperties
  <2> QED
    BY <2>2 DEF Base, TypeOK, Works, LocalUsers
<1>1. Idle \in Works /\ Idle.pc = "idle"
  BY DEF Idle, Works
<1> DEFINE Working == /\ work' \in [Workers -> Works]
                      /\ \A v \in Workers : work'[v].pc # "idle" => work'[v].msg \in Messages
<1>2. ASSUME NEW pc \in {"read", "apply", "mark", "ack"}, Goto(w, pc), work[w].pc # "idle" PROVE Working
  <2>1. [work[w] EXCEPT !.pc = pc] \in Works /\ [work[w] EXCEPT !.pc = pc].msg = work[w].msg
    BY <1>0 DEF Works
  <2>2. work' = [work EXCEPT ![w] = [work[w] EXCEPT !.pc = pc]]
    BY <1>2 DEF Goto
  <2> QED
    BY <1>0, <1>2, <2>1, <2>2
<1>3. ASSUME work' = [work EXCEPT ![w] = Idle] PROVE Working
  BY <1>0, <1>1, <1>3
<1>4. CASE UNCHANGED <<keycloak, webhook, sessions, projection, applied, processed, sent>> /\ env' = env
           /\ Working /\ queue' \in [Messages -> Nat] /\ faults' \in Nat /\ faults' <= env'.maxFaults
  BY <1>0, <1>4 DEF TypeOK, keycloak, webhook, sessions, projection, Works
<1>5. CASE Fetch(w)
  <2>1. PICK m \in Waiting(queue) :
          queue' = Taken(queue, m) /\ work' = [work EXCEPT ![w] = [pc |-> "read", msg |-> m]]
    BY <1>5 DEF Fetch
  <2>2. m \in Messages /\ queue' \in [Messages -> Nat]
    BY <1>0, <2>1, TakenIs
  <2>3. [pc |-> "read", msg |-> m] \in Works
    BY <2>2 DEF Works
  <2>4. Working
    BY <1>0, <2>1, <2>2, <2>3
  <2> HIDE DEF Working
  <2> QED
    BY <1>0, <1>4, <1>5, <2>2, <2>4 DEF Fetch, keycloak
<1>6. CASE ReadRow(w)
  <2>1. work[w].pc = "read" /\ (Goto(w, "ack") \/ Goto(w, "apply"))
    BY <1>6 DEF ReadRow
  <2>2. Working
    BY <1>2, <2>1
  <2> HIDE DEF Working
  <2> QED
    BY <1>0, <1>4, <1>6, <2>2 DEF ReadRow, keycloak, broker
<1>7. CASE Apply(w)
  <2> DEFINE e == Entry(EventOf(w))
  <2>1. /\ work[w].pc = "apply" /\ Goto(w, "mark")
        /\ applied' = [applied EXCEPT ![EventOf(w)] = @ + 1]
        /\ UNCHANGED <<keycloak, webhook, broker, processed, sessions, faults>>
    BY <1>7 DEF Apply
  <2>2. Working
    BY <1>2, <2>1
  <2>3. applied' \in [EventIds -> Nat]
    <3>1. EventOf(w) \in EventIds
      BY <2>1, BusyEvent DEF Busy
    <3> QED
      BY <1>0, <2>1, <3>1
  <2>4. Fits(e, events[EventOf(w)].about) /\ e # Ignored
    BY <2>1, BusyEvent DEF Busy
  <2> HIDE DEF e
  <2>5. \/ e.kind = "user" /\ e.sub \in Users /\ user' = [user EXCEPT ![e.sub] = UserAfter(e, @)]
           /\ member' = member
        \/ UNCHANGED projection
        \/ /\ e.kind = "group_membership" /\ user' = user
           /\ member' = [member EXCEPT ![e.sub] = IF e.op = "CREATE" THEN @ \cup {e.group}
                                                                     ELSE @ \ {e.group}]
    BY <1>7, <2>4 DEF Apply, Fits, e
  <2>6. user' \in [Users -> LocalUsers]
    BY <1>0, <2>4, <2>5, UserAfterTyped DEF projection
  <2>7. member' \in [Users -> SUBSET Groups]
    <3>1. CASE member' = member
      BY <1>0, <3>1
    <3>2. CASE /\ e.kind = "group_membership"
               /\ member' = [member EXCEPT ![e.sub] = IF e.op = "CREATE" THEN @ \cup {e.group}
                                                                         ELSE @ \ {e.group}]
      <4>1. e.sub \in Users /\ e.group \in Groups
        BY <2>4, <3>2 DEF Fits
      <4>2. member[e.sub] \cup {e.group} \in SUBSET Groups /\ member[e.sub] \ {e.group} \in SUBSET Groups
        BY <1>0, <4>1
      <4> QED
        BY <1>0, <3>2, <4>1, <4>2
    <3> QED
      BY <2>5, <3>1, <3>2 DEF projection
  <2> QED
    BY <1>0, <2>1, <2>2, <2>3, <2>6, <2>7
    DEF TypeOK, keycloak, webhook, broker, sessions, Works, LocalUsers
<1>8. CASE ApplyRefused(w) \/ TaskError(w)
  <2>1. work[w].pc # "idle" /\ queue' = Retried(queue, work[w].msg, MaxRetries)
        /\ work' = [work EXCEPT ![w] = Idle]
    BY <1>8 DEF ApplyRefused, TaskError
  <2>2. Working /\ work[w].msg \in Messages
    BY <1>0, <1>3, <2>1
  <2>3. queue' \in [Messages -> Nat]
    BY <1>0, <2>1, <2>2, RetriedTyped
  <2>4. env' = env /\ faults' \in Nat /\ faults' <= env'.maxFaults
    BY <1>0, <1>8, FaultTypes DEF ApplyRefused, TaskError, keycloak
  <2> HIDE DEF Working
  <2> QED
    BY <1>4, <1>8, <2>2, <2>3, <2>4 DEF ApplyRefused, TaskError
<1>9. CASE Mark(w)
  <2>1. work[w].pc = "mark" /\ Goto(w, "ack") /\ processed' = processed \cup {EventOf(w)}
        /\ UNCHANGED <<keycloak, webhook, broker, applied, projection, sessions, faults>>
    BY <1>9 DEF Mark
  <2>2. Working
    BY <1>2, <2>1
  <2>3. processed' \subseteq EventIds
    BY <1>0, <2>1 DEF EventOf, Messages
  <2> QED
    BY <1>0, <2>1, <2>2, <2>3 DEF TypeOK, keycloak, webhook, broker, projection, sessions, Works
<1>10. CASE Acknowledge(w)
  <2>1. Working
    BY <1>3, <1>10 DEF Acknowledge
  <2> HIDE DEF Working
  <2> QED
    BY <1>0, <1>4, <1>10, <2>1 DEF Acknowledge, keycloak, broker
<1>11. CASE WorkerCrash(w) \/ Redeliver(w)
  <2>1. /\ work[w].pc # "idle" /\ queue' = Sent(queue, work[w].msg)
        /\ work' = [work EXCEPT ![w] = Idle] \/ work' = work
        /\ UNCHANGED <<keycloak, webhook, sent, applied, processed, projection, sessions>>
    BY <1>11 DEF WorkerCrash, Redeliver, task
  <2>2. Working
    BY <1>0, <1>3, <2>1
  <2>3. queue' \in [Messages -> Nat]
    BY <1>0, <2>1, SentIs
  <2>4. env' = env /\ faults' \in Nat /\ faults' <= env'.maxFaults
    <3>1. env' = env
      BY <2>1 DEF keycloak
    <3>2. PICK kind \in AllFaults : Fault(kind)
      BY <1>11 DEF WorkerCrash, Redeliver, AllFaults
    <3> QED
      BY <1>0, <3>1, <3>2, FaultTypes
  <2> HIDE DEF Working
  <2> QED
    BY <1>4, <2>1, <2>2, <2>3, <2>4
<1> QED
  BY <1>5, <1>6, <1>7, <1>8, <1>9, <1>10, <1>11 DEF Run

\* A token or a session: what it changes.
Visits ==
    \/ \E u \in env.users : IssueToken(u)
    \/ \E k \in tokens : ExpireToken(k) \/ \E s \in env.sessions : Resolve(s, k)
    \/ \E s \in env.sessions :
        \/ SyncProjection(s) \/ Reconcile(s) \/ ReconcileSkipped(s)
        \/ ProvisionSave(s)
        \/ \E u \in env.users : ProvisionGet(s, u) \/ ProvisionCreate(s, u)

LEMMA VisitsTypes ==
    ASSUME TypeOK, Visits
    PROVE  TypeOK'
<1>0. /\ realm \in [Users -> RealmUsers] /\ groups \in [Users -> SUBSET Groups]
      /\ user \in [Users -> LocalUsers] /\ member \in [Users -> SUBSET Groups]
      /\ tokens \subseteq Tokens /\ login \in [Sessions -> Logins]
      /\ \A s \in Sessions : login[s].pc # "idle" => login[s].user \in Users
  BY DEF TypeOK, RealmUsers, LocalUsers, Tokens, Logins
<1>1. env.users \subseteq Users /\ env.sessions \subseteq Sessions
  BY EnvTyped
<1> DEFINE Typed == /\ user' \in [Users -> LocalUsers] /\ member' \in [Users -> SUBSET Groups]
                    /\ tokens' \subseteq Tokens /\ login' \in [Sessions -> Logins]
                    /\ \A s \in Sessions : login'[s].pc # "idle" => login'[s].user \in Users
<1>2. ASSUME NEW s \in Sessions, NEW q \in Logins, q.pc # "idle" => q.user \in Users,
             login' = [login EXCEPT ![s] = q]
      PROVE  /\ login' \in [Sessions -> Logins]
             /\ \A t \in Sessions : login'[t].pc # "idle" => login'[t].user \in Users
  BY <1>0, <1>2
<1>3. LoggedOut \in Logins /\ LoggedOut.pc = "idle"
  BY DEF LoggedOut, Logins, Names
<1>4. ASSUME NEW s \in Sessions
      PROVE  /\ [login[s] EXCEPT !.pc = "reconcile"] \in Logins
             /\ [login[s] EXCEPT !.pc = "reconcile"].user = login[s].user
             /\ login[s].name \in Names /\ login[s].read \in Names /\ login[s].groups \in SUBSET Groups
  BY <1>0 DEF Logins, Names
<1>5. ASSUME NEW u \in Users, NEW n \in Names
      PROVE  /\ [user EXCEPT ![u].name = n] \in [Users -> LocalUsers]
             /\ [user EXCEPT ![u] = Person("active", n)] \in [Users -> LocalUsers]
  <2>1. [user[u] EXCEPT !.name = n] \in LocalUsers /\ Person("active", n) \in LocalUsers
    BY <1>0 DEF LocalUsers, Person
  <2> QED
    BY <1>0, <2>1
<1>6. ASSUME NEW u \in Users, IssueToken(u) PROVE Typed
  <2>1. /\ tokens' = tokens \cup {[user |-> u, name |-> realm[u].name, groups |-> groups[u]]}
        /\ UNCHANGED <<projection, login>>
    BY <1>6 DEF IssueToken
  <2>2. [user |-> u, name |-> realm[u].name, groups |-> groups[u]] \in Tokens
    BY <1>0 DEF Tokens, RealmUsers
  <2> QED
    BY <1>0, <2>1, <2>2 DEF projection
<1>7. ASSUME NEW k \in tokens, ExpireToken(k) PROVE Typed
  BY <1>0, <1>7 DEF ExpireToken, projection
<1>8. ASSUME NEW k \in tokens, NEW s \in Sessions, Resolve(s, k) PROVE Typed
  <2> DEFINE q == [pc |-> "sync", user |-> k.user, name |-> k.name, groups |-> k.groups,
                   read |-> user[k.user].name]
  <2>1. q \in Logins /\ q.user \in Users
    BY <1>0 DEF Tokens, Logins, LocalUsers
  <2>2. login' = [login EXCEPT ![s] = q] /\ UNCHANGED <<projection, tokens>>
    BY <1>8 DEF Resolve
  <2> HIDE DEF q
  <2> QED
    BY <1>0, <1>2, <2>1, <2>2 DEF projection
<1>9. ASSUME NEW s \in Sessions, SyncProjection(s) PROVE Typed
  <2>1. /\ login[s].pc = "sync" /\ login[s].user \in Users /\ UNCHANGED <<member, tokens>>
        /\ \/ login' = [login EXCEPT ![s] = LoggedOut] /\ user' = user
           \/ /\ login' = [login EXCEPT ![s] = [login[s] EXCEPT !.pc = "reconcile"]]
              /\ \/ user' = user
                 \/ user' = [user EXCEPT ![login[s].user].name = login[s].name]
    BY <1>0, <1>9 DEF SyncProjection
  <2>2. user' \in [Users -> LocalUsers]
    BY <1>0, <1>4, <1>5, <2>1
  <2>3. /\ login' \in [Sessions -> Logins]
        /\ \A t \in Sessions : login'[t].pc # "idle" => login'[t].user \in Users
    BY <1>2, <1>3, <1>4, <2>1
  <2> QED
    BY <1>0, <2>1, <2>2, <2>3
<1>10. ASSUME NEW s \in Sessions, Reconcile(s) \/ ReconcileSkipped(s) PROVE Typed
  <2>1. /\ login[s].user \in Users /\ login' = [login EXCEPT ![s] = LoggedOut] /\ UNCHANGED <<user, tokens>>
        /\ member' = member \/ member' = [member EXCEPT ![login[s].user] = login[s].groups]
    BY <1>0, <1>10 DEF Reconcile, ReconcileSkipped, projection
  <2>2. member' \in [Users -> SUBSET Groups]
    BY <1>0, <1>4, <2>1
  <2>3. /\ login' \in [Sessions -> Logins]
        /\ \A t \in Sessions : login'[t].pc # "idle" => login'[t].user \in Users
    BY <1>2, <1>3, <2>1
  <2> QED
    BY <1>0, <2>1, <2>2, <2>3
<1>11. ASSUME NEW s \in Sessions, ProvisionSave(s) PROVE Typed
  <2>1. /\ login[s].user \in Users /\ login' = [login EXCEPT ![s] = LoggedOut] /\ UNCHANGED <<member, tokens>>
        /\ user' = user \/ user' = [user EXCEPT ![login[s].user] = Person("active", login[s].read)]
    <3>1. login[s].pc = "provision" /\ UNCHANGED <<member, tokens>>
      BY <1>11 DEF ProvisionSave
    <3>2. login' = [login EXCEPT ![s] = LoggedOut]
      BY <1>11 DEF ProvisionSave
    <3>3. user' = user \/ user' = [user EXCEPT ![login[s].user] = Person("active", login[s].read)]
      BY <1>11 DEF ProvisionSave
    <3> QED
      BY <1>0, <3>1, <3>2, <3>3
  <2>2. user' \in [Users -> LocalUsers]
    <3>1. login[s].read \in Names
      BY <1>4
    <3>2. [user EXCEPT ![login[s].user] = Person("active", login[s].read)] \in [Users -> LocalUsers]
      BY <1>5, <2>1, <3>1
    <3> QED
      BY <1>0, <2>1, <3>2
  <2>3. /\ login' \in [Sessions -> Logins]
        /\ \A t \in Sessions : login'[t].pc # "idle" => login'[t].user \in Users
    BY <1>2, <1>3, <2>1
  <2> QED
    BY <1>0, <2>1, <2>2, <2>3
<1>12. ASSUME NEW s \in Sessions, NEW u \in Users, ProvisionGet(s, u) PROVE Typed
  <2> DEFINE q == [LoggedOut EXCEPT !.pc = "provision", !.user = u, !.read = user[u].name]
  <2>1. q \in Logins /\ q.user \in Users
    BY <1>0 DEF LoggedOut, Logins, LocalUsers
  <2>2. login' = [login EXCEPT ![s] = q] /\ UNCHANGED <<projection, tokens>>
    BY <1>12 DEF ProvisionGet
  <2> HIDE DEF q
  <2> QED
    BY <1>0, <1>2, <2>1, <2>2 DEF projection
<1>13. ASSUME NEW s \in Sessions, NEW u \in Users, ProvisionCreate(s, u) PROVE Typed
  <2>1. user' = [user EXCEPT ![u] = Person("active", u)] /\ UNCHANGED <<member, sessions>> /\ u \in Names
    BY <1>13 DEF ProvisionCreate, Names
  <2>2. user' \in [Users -> LocalUsers]
    BY <1>5, <2>1
  <2> QED
    BY <1>0, <2>1, <2>2 DEF sessions
<1>14. Typed
  <2> HIDE DEF Typed
  <2> QED
    BY <1>1, <1>6, <1>7, <1>8, <1>9, <1>10, <1>11, <1>12, <1>13 DEF Visits
<1>15. UNCHANGED <<keycloak, webhook, broker, task, faults>>
  BY DEF Visits, IssueToken, ExpireToken, Resolve, SyncProjection, Reconcile, ReconcileSkipped,
         ProvisionSave, ProvisionGet, ProvisionCreate
<1> QED
  BY <1>14, <1>15
  DEF TypeOK, keycloak, webhook, broker, task, LocalUsers, Tokens, Logins

\* The steps, in groups.
LEMMA Steps ==
    ASSUME TypeOK, Next
    PROVE  \/ Administer
           \/ \E i \in EventIds : PostLost(i) \/ PostDuplicated(i) \/ Deliver(i) \/ Delay(i) \/ WebCrash(i)
           \/ \E w \in Workers : Run(w) \/ WorkerCrash(w) \/ Redeliver(w) \/ TaskError(w)
           \/ Visits
BY EnvTyped DEF Next, Visits

LEMMA TypesStep ==
    ASSUME Base, [Next]_vars
    PROVE  TypeOK'
<1>0. TypeOK
  BY DEF Base
<1>1. CASE UNCHANGED vars
  BY <1>0, <1>1 DEF TypeOK, vars
<1>2. CASE Administer
  <2>1. PICK raw \in Raws, about \in Abouts : Reported(raw, about)
    BY <1>0, <1>2, AdministerReports
  <2>2. PICK op \in AllOps : Emit(op, raw.type, raw.op, raw.path, raw.rep, about)
    BY <2>1 DEF Reported
  <2>3. [type |-> raw.type, op |-> raw.op, path |-> raw.path, rep |-> raw.rep] \in Raws
    BY DEF Raws
  <2> QED
    BY <1>0, <2>1, <2>2, <2>3, EmitTypes DEF Reported
<1>3. ASSUME NEW i \in EventIds,
             PostLost(i) \/ PostDuplicated(i) \/ Deliver(i) \/ Delay(i) \/ WebCrash(i)
      PROVE  TypeOK'
  BY <1>0, <1>3, WebhookTypes
<1>4. ASSUME NEW w \in Workers, Run(w) \/ WorkerCrash(w) \/ Redeliver(w) \/ TaskError(w)
      PROVE  TypeOK'
  BY <1>4, RunTypes
<1>5. CASE Visits
  BY <1>0, <1>5, VisitsTypes
<1> QED
  BY <1>0, <1>1, <1>2, <1>3, <1>4, <1>5, Steps

-----------------------------------------------------------------------------
(* What a step changes.                                                     *)

LEMMA ReportedIs ==
    ASSUME TypeOK, NEW raw \in Raws, NEW about \in Abouts, Reported(raw, about)
    PROVE  /\ Len(events) \in Nat /\ Len(events) + 1 \in EventIds
           /\ DOMAIN events = 1 .. Len(events) /\ DOMAIN events' = 1 .. Len(events) + 1
           /\ \A i \in DOMAIN events : events'[i] = events[i] /\ Entry(i)' = Entry(i)
           /\ \A n \in EventIds : n = Len(events) + 1 => Entry(n)' = LedgerEntry(raw)
           /\ events'[Len(events) + 1].about = about
           /\ posts' = [posts EXCEPT ![Len(events) + 1] = 1]
           /\ UNCHANGED <<env, ledger, toSend, broker, task, projection, sessions, faults>>
<1>1. PICK op \in AllOps : Emit(op, raw.type, raw.op, raw.path, raw.rep, about)
  BY DEF Reported
<1>2. [type |-> raw.type, op |-> raw.op, path |-> raw.path, rep |-> raw.rep] = raw
  BY DEF Raws
<1>3. /\ Len(events') = Len(events) + 1
      /\ Len(events') \in EventIds /\ Len(events) \in Nat
      /\ DOMAIN events = 1 .. Len(events) /\ DOMAIN events' = 1 .. Len(events) + 1
      /\ \A i \in 1 .. Len(events) : events'[i] = events[i]
      /\ events'[Len(events) + 1] = [raw |-> raw, about |-> about]
      /\ posts' = [posts EXCEPT ![Len(events) + 1] = 1]
  BY <1>1, <1>2, EmitAppends
<1>4. /\ \A i \in DOMAIN events : Entry(i)' = Entry(i)
      /\ \A n \in EventIds : n = Len(events) + 1 => Entry(n)' = LedgerEntry(raw)
      /\ events'[Len(events) + 1].about = about
  <2>1. ASSUME NEW i \in DOMAIN events PROVE Entry(i)' = Entry(i)
    <3>1. events'[i] = events[i]
      BY <1>3
    <3> QED
      BY <3>1 DEF Entry
  <2>2. ASSUME NEW n \in EventIds, n = Len(events) + 1 PROVE Entry(n)' = LedgerEntry(raw)
    <3>1. events'[n].raw = raw
      BY <1>3, <2>2
    <3> QED
      BY <3>1 DEF Entry
  <2> QED
    BY <1>3, <2>1, <2>2
<1>5. UNCHANGED <<env, ledger, toSend, broker, task, projection, sessions, faults>>
  BY <1>1 DEF Emit
<1> QED
  BY <1>3, <1>4, <1>5

\* A worker takes a message;
Takes(w, m) ==
    /\ ~ Busy(w) /\ m \in Waiting(queue) /\ queue' = Taken(queue, m)
    /\ work'[w].pc = "read" /\ work'[w].msg = m
    /\ UNCHANGED <<applied, processed, faults>>

\* goes on with it;
Moves(w) ==
    /\ queue' = queue /\ faults' = faults /\ Busy(w) /\ work'[w].msg = work[w].msg
    /\ \/ /\ work[w].pc = "read" /\ EventOf(w) \in processed /\ work'[w].pc = "ack"
          /\ UNCHANGED <<applied, processed>>
       \/ /\ work[w].pc = "read" /\ EventOf(w) \notin processed /\ work'[w].pc = "apply"
          /\ UNCHANGED <<applied, processed>>
       \/ /\ work[w].pc = "apply" /\ work'[w].pc = "mark" /\ UNCHANGED processed
          /\ applied' = [applied EXCEPT ![EventOf(w)] = @ + 1]
       \/ /\ work[w].pc = "mark" /\ work'[w].pc = "ack" /\ UNCHANGED applied
          /\ processed' = processed \cup {EventOf(w)}

\* lets it go, done, refused, failed or lost;
LetsGo(w) ==
    /\ Busy(w) /\ ~ Busy(w)' /\ UNCHANGED <<applied, processed>>
    /\ \/ work[w].pc = "ack" /\ queue' = queue /\ faults' = faults
       \/ /\ work[w].pc = "apply" /\ Refused(Entry(EventOf(w))) /\ faults' = faults
          /\ queue' = Retried(queue, work[w].msg, MaxRetries)
       \/ /\ work[w].pc # "ack" /\ faults < env.maxFaults /\ faults' = faults + 1
          /\ "task error" \in env.faults /\ queue' = Retried(queue, work[w].msg, MaxRetries)
       \/ /\ faults < env.maxFaults /\ faults' = faults + 1
          /\ (IF work[w].pc = "ack" THEN "ack lost" ELSE "worker crash") \in env.faults
          /\ queue' = Sent(queue, work[w].msg)

\* or another worker may get it as well.
Doubles(w) ==
    /\ Busy(w) /\ work' = work /\ UNCHANGED <<applied, processed>>
    /\ queue' = Sent(queue, work[w].msg) /\ faults' = faults + 1 /\ "redelivery" \in env.faults

LEMMA WorkerSteps ==
    ASSUME TypeOK, NEW w \in Workers, Run(w) \/ WorkerCrash(w) \/ Redeliver(w) \/ TaskError(w)
    PROVE  /\ UNCHANGED <<keycloak, webhook, sent, sessions>>
           /\ \A v \in Workers \ {w} : work'[v] = work[v]
           /\ \/ \E m \in Waiting(queue) : Takes(w, m)
              \/ Moves(w)
              \/ LetsGo(w)
              \/ Doubles(w)
<1>0. work \in [Workers -> Works]
  BY DEF TypeOK, Works
<1>1. UNCHANGED <<keycloak, webhook, sent, sessions>>
  BY DEF Run, WorkerCrash, Redeliver, TaskError, Fetch, ReadRow, Apply, ApplyRefused, Mark,
         Acknowledge, broker
<1>2. \A v \in Workers \ {w} : work'[v] = work[v]
  BY <1>0 DEF Run, WorkerCrash, Redeliver, TaskError, Fetch, ReadRow, Apply, ApplyRefused, Mark,
         Acknowledge, Goto, task
<1>3. ASSUME NEW pc, Goto(w, pc) PROVE work'[w].pc = pc /\ work'[w].msg = work[w].msg
  BY <1>0, <1>3 DEF Goto, Works
<1>4. ASSUME work' = [work EXCEPT ![w] = Idle] PROVE ~ Busy(w)'
  BY <1>0, <1>4 DEF Busy, Idle
<1>5. CASE Fetch(w)
  <2>1. PICK m \in Waiting(queue) :
          queue' = Taken(queue, m) /\ work' = [work EXCEPT ![w] = [pc |-> "read", msg |-> m]]
    BY <1>5 DEF Fetch
  <2>2. work'[w] = [pc |-> "read", msg |-> m]
    BY <1>0, <2>1
  <2>3. Takes(w, m)
    BY <1>5, <2>1, <2>2 DEF Takes, Fetch, Busy
  <2> QED
    BY <1>1, <1>2, <2>3
<1>6. CASE ReadRow(w)
  <2>1. work[w].pc = "read" /\ Goto(w, IF EventOf(w) \in processed THEN "ack" ELSE "apply")
        /\ queue' = queue /\ faults' = faults /\ UNCHANGED <<applied, processed>>
    BY <1>6 DEF ReadRow, broker
  <2>2. Moves(w)
    BY <1>3, <2>1 DEF Moves, Busy
  <2> QED
    BY <1>1, <1>2, <2>2
<1>7. CASE Apply(w)
  <2>1. /\ work[w].pc = "apply" /\ Goto(w, "mark") /\ applied' = [applied EXCEPT ![EventOf(w)] = @ + 1]
        /\ queue' = queue /\ faults' = faults /\ UNCHANGED processed
    BY <1>7 DEF Apply, broker
  <2>2. Moves(w)
    BY <1>3, <2>1 DEF Moves, Busy
  <2> QED
    BY <1>1, <1>2, <2>2
<1>8. CASE Mark(w)
  <2>1. /\ work[w].pc = "mark" /\ Goto(w, "ack") /\ processed' = processed \cup {EventOf(w)}
        /\ queue' = queue /\ faults' = faults /\ UNCHANGED applied
    BY <1>8 DEF Mark, broker
  <2>2. Moves(w)
    BY <1>3, <2>1 DEF Moves, Busy
  <2> QED
    BY <1>1, <1>2, <2>2
<1>9. CASE ApplyRefused(w) \/ TaskError(w) \/ Acknowledge(w) \/ WorkerCrash(w)
  <2>1. ~ Busy(w)' /\ UNCHANGED <<applied, processed>>
    BY <1>4, <1>9 DEF ApplyRefused, TaskError, Acknowledge, WorkerCrash
  <2>2. CASE ApplyRefused(w)
    BY <2>1, <2>2 DEF ApplyRefused, LetsGo, Busy
  <2>3. CASE TaskError(w)
    <3>1. /\ work[w].pc # "idle" /\ work[w].pc # "ack" /\ faults < env.maxFaults /\ faults' = faults + 1
          /\ "task error" \in env.faults /\ queue' = Retried(queue, work[w].msg, MaxRetries)
      BY <2>3 DEF TaskError, Fault
    <3>2. LetsGo(w)
      BY <2>1, <3>1 DEF LetsGo, Busy
    <3> QED
      BY <1>1, <1>2, <3>2
  <2>4. CASE Acknowledge(w)
    BY <2>1, <2>4 DEF Acknowledge, LetsGo, Busy, broker
  <2>5. CASE WorkerCrash(w)
    <3>1. /\ work[w].pc # "idle" /\ faults < env.maxFaults /\ faults' = faults + 1
          /\ (IF work[w].pc = "ack" THEN "ack lost" ELSE "worker crash") \in env.faults
          /\ queue' = Sent(queue, work[w].msg)
      BY <2>5 DEF WorkerCrash, Fault
    <3>2. LetsGo(w)
      BY <2>1, <3>1 DEF LetsGo, Busy
    <3> QED
      BY <1>1, <1>2, <3>2
  <2> QED
    BY <1>1, <1>2, <1>9, <2>2, <2>3, <2>4, <2>5
<1>10. CASE Redeliver(w)
  <2>1. Doubles(w)
    BY <1>10 DEF Redeliver, Doubles, Fault, Busy, task
  <2> QED
    BY <1>1, <1>2, <2>1
<1> QED
  BY <1>5, <1>6, <1>7, <1>8, <1>9, <1>10 DEF Run

LEMMA VisitsFrame ==
    ASSUME Visits
    PROVE  UNCHANGED <<keycloak, webhook, broker, task, faults>>
BY DEF Visits, IssueToken, ExpireToken, Resolve, SyncProjection, Reconcile, ReconcileSkipped,
       ProvisionSave, ProvisionGet, ProvisionCreate

\* What a step of the network or of the webhook changes.
LEMMA WebhookSteps ==
    ASSUME TypeOK, NEW i \in EventIds,
           PostLost(i) \/ PostDuplicated(i) \/ Deliver(i) \/ Delay(i) \/ WebCrash(i)
    PROVE  /\ UNCHANGED <<keycloak, task, projection, sessions>>
           /\ \A j \in EventIds \ {i} : posts'[j] = posts[j]
           /\ \/ /\ ledger' = ledger /\ toSend' = toSend /\ UNCHANGED broker
                 /\ posts[i] > 0 \/ i \in ledger
                 /\ faults <= faults'
              \/ /\ posts[i] > 0 /\ Entry(i) # Ignored /\ i \notin ledger
                 /\ ledger' = ledger \cup {i} /\ toSend' = toSend \cup {i} /\ UNCHANGED <<broker, faults>>
              \/ /\ i \in toSend /\ toSend' = toSend \ {i} /\ posts' = posts /\ ledger' = ledger
                 /\ \/ /\ queue' = Sent(queue, Message(i, 0)) /\ sent' = [sent EXCEPT ![i] = @ + 1]
                       /\ faults' = faults
                    \/ UNCHANGED broker /\ faults <= faults'
<1>0. /\ posts \in [EventIds -> Nat] /\ ledger \subseteq EventIds /\ toSend \subseteq EventIds
      /\ faults \in Nat
  BY DEF TypeOK
<1>1. CASE PostLost(i) \/ PostDuplicated(i)
  <2>1. \A j \in EventIds \ {i} : posts'[j] = posts[j]
    BY <1>0, <1>1 DEF PostLost, PostDuplicated
  <2>2. /\ UNCHANGED <<keycloak, ledger, toSend, broker, task, projection, sessions>>
        /\ posts[i] > 0 \/ i \in ledger
        /\ faults' = faults + 1
    BY <1>1 DEF PostLost, PostDuplicated, Fault
  <2> QED
    BY <1>0, <2>1, <2>2
<1>2. CASE Deliver(i)
  <2>1. \A j \in EventIds \ {i} : posts'[j] = posts[j]
    BY <1>0, <1>2 DEF Deliver
  <2>2. posts[i] > 0 /\ UNCHANGED <<keycloak, broker, task, projection, sessions, faults>>
    BY <1>2 DEF Deliver
  <2>3. CASE Entry(i) = Ignored \/ i \in ledger
    <3>1. ledger' = ledger \cup {} /\ toSend' = toSend \cup {}
      BY <1>2, <2>3 DEF Deliver
    <3> QED
      BY <1>0, <2>1, <2>2, <2>3, <3>1
  <2>4. CASE Entry(i) # Ignored /\ i \notin ledger
    <3>1. ledger' = ledger \cup {i} /\ toSend' = toSend \cup {i}
      BY <1>2, <2>4 DEF Deliver
    <3> QED
      BY <2>1, <2>2, <2>4, <3>1
  <2> QED
    BY <2>3, <2>4
<1>3. CASE Delay(i)
  BY <1>3 DEF Delay
<1>4. CASE WebCrash(i)
  <2>1. /\ i \in toSend /\ toSend' = toSend \ {i} /\ faults' = faults + 1
        /\ UNCHANGED <<keycloak, posts, ledger, broker, task, projection, sessions>>
    BY <1>4 DEF WebCrash, Fault
  <2> QED
    BY <1>0, <2>1
<1> QED
  BY <1>1, <1>2, <1>3, <1>4

LEMMA RowsStep ==
    ASSUME Base, TypeOK', [Next]_vars
    PROVE  RowsFit'
<1>0. /\ TypeOK /\ posts \in [EventIds -> Nat] /\ ledger \subseteq EventIds
      /\ \A i \in EventIds : posts[i] > 0 => i \in DOMAIN events
      /\ \A i \in DOMAIN events : Fits(Entry(i), events[i].about)
      /\ \A i \in ledger : i \in DOMAIN events /\ Entry(i) # Ignored
  BY DEF Base, TypeOK, RowsFit
<1>1. ASSUME events' = events, ledger' = ledger,
             \A i \in EventIds : posts'[i] = posts[i] \/ i \in DOMAIN events
      PROVE  RowsFit'
  <2>1. \A i \in DOMAIN events : Fits(Entry(i), events[i].about)'
    BY <1>0, <1>1 DEF Fits, Entry
  <2> QED
    BY <1>0, <1>1, <2>1 DEF RowsFit, Entry
<1>2. CASE UNCHANGED vars
  BY <1>1, <1>2 DEF vars
<1>3. CASE Administer
  <2>1. PICK raw \in Raws, about \in Abouts : Reported(raw, about)
    BY <1>0, <1>3, AdministerReports
  <2>2. PICK n \in EventIds : n = Len(events) + 1
    BY <1>0, <2>1, ReportedIs
  <2>3. /\ DOMAIN events' = 1 .. n /\ DOMAIN events = 1 .. Len(events) /\ Len(events) \in Nat
        /\ \A i \in DOMAIN events : events'[i] = events[i] /\ Entry(i)' = Entry(i)
        /\ Entry(n)' = LedgerEntry(raw) /\ events'[n].about = about
        /\ posts' = [posts EXCEPT ![n] = 1] /\ ledger' = ledger
    BY <1>0, <2>1, <2>2, ReportedIs
  <2>4. \A i \in EventIds : posts'[i] > 0 => i \in DOMAIN events'
    BY <1>0, <2>2, <2>3
  <2>5. \A i \in ledger' : i \in DOMAIN events' /\ (Entry(i) # Ignored)'
    <3>1. ASSUME NEW i \in ledger PROVE i \in DOMAIN events' /\ Entry(i)' # Ignored
      BY <1>0, <2>2, <2>3
    <3> QED
      BY <2>3, <3>1
  <2>6. ASSUME NEW i \in DOMAIN events' PROVE Fits(LedgerEntry(events'[i].raw), events'[i].about)
    <3>1. CASE i \in DOMAIN events
      BY <1>0, <2>3, <3>1 DEF Entry
    <3>2. CASE i = n
      <4>1. LedgerEntry(events'[i].raw) = LedgerEntry(raw)
        BY <2>3, <3>2 DEF Entry
      <4>2. events'[i].about = about
        BY <2>3, <3>2
      <4> QED
        BY <2>1, <4>1, <4>2 DEF Reported
    <3> QED
      BY <2>2, <2>3, <3>1, <3>2
  <2>7. (\A i \in DOMAIN events : Fits(Entry(i), events[i].about))'
    BY <2>6 DEF Fits, Entry
  <2> QED
    BY <2>4, <2>5, <2>7 DEF RowsFit
<1>4. ASSUME NEW i \in EventIds,
             PostLost(i) \/ PostDuplicated(i) \/ Deliver(i) \/ Delay(i) \/ WebCrash(i)
      PROVE  RowsFit'
  <2>1. /\ UNCHANGED keycloak /\ \A j \in EventIds \ {i} : posts'[j] = posts[j]
        /\ \/ ledger' = ledger /\ (posts[i] > 0 \/ i \in ledger \/ posts' = posts)
           \/ ledger' = ledger \cup {i} /\ posts[i] > 0 /\ Entry(i) # Ignored
    BY <1>0, <1>4, WebhookSteps
  <2>2. events' = events /\ \A j \in EventIds : posts'[j] = posts[j] \/ j \in DOMAIN events
    BY <1>0, <2>1 DEF keycloak
  <2>3. CASE ledger' = ledger
    BY <1>1, <2>2, <2>3
  <2>4. CASE ledger' = ledger \cup {i} /\ posts[i] > 0 /\ Entry(i) # Ignored
    <3>1. \A j \in DOMAIN events : Fits(Entry(j), events[j].about)'
      BY <1>0, <2>2 DEF Fits, Entry
    <3>2. \A j \in ledger' : j \in DOMAIN events /\ Entry(j)' # Ignored
      BY <1>0, <2>2, <2>4 DEF Entry
    <3>3. \A j \in EventIds : posts'[j] > 0 => j \in DOMAIN events
      BY <1>0, <2>2
    <3> QED
      BY <2>2, <3>1, <3>2, <3>3 DEF RowsFit
  <2> QED
    BY <2>1, <2>3, <2>4
<1>5. ASSUME UNCHANGED <<keycloak, webhook>> PROVE RowsFit'
  BY <1>1, <1>5 DEF keycloak, webhook
<1>6. ASSUME NEW w \in Workers, Run(w) \/ WorkerCrash(w) \/ Redeliver(w) \/ TaskError(w)
      PROVE  UNCHANGED <<keycloak, webhook>>
  BY <1>0, <1>6, WorkerSteps
<1> QED
  BY <1>0, <1>2, <1>3, <1>4, <1>5, <1>6, Steps, VisitsFrame

\* RunsFollow, spelled out.
LEMMA RunsIs ==
    ASSUME RunsFollow
    PROVE  /\ \A i \in EventIds : sent[i] <= 1 /\ (sent[i] = 1 => i \in ledger /\ i \notin toSend)
           /\ toSend \subseteq ledger
           /\ \A i \in processed : applied[i] >= 1
           /\ \A m \in Waiting(queue) : sent[m.job] = 1
           /\ \A w \in Workers : /\ work[w].pc # "idle" => sent[work[w].msg.job] = 1
                                 /\ work[w].pc = "mark" => applied[work[w].msg.job] >= 1
                                 /\ work[w].pc = "ack" => work[w].msg.job \in processed
           /\ \A i \in EventIds : applied[i] > 0 => sent[i] = 1
<1>1. \A i \in EventIds : sent[i] <= 1 /\ (sent[i] = 1 => i \in ledger /\ i \notin toSend)
  BY DEF RunsFollow, EnqueuedOnce
<1>2. ASSUME NEW w \in Workers
      PROVE  /\ work[w].pc # "idle" => sent[work[w].msg.job] = 1
             /\ work[w].pc = "mark" => applied[work[w].msg.job] >= 1
             /\ work[w].pc = "ack" => work[w].msg.job \in processed
  BY DEF RunsFollow, Busy, EventOf
<1> QED
  BY <1>1, <1>2 DEF RunsFollow, MarkedWasApplied

LEMMA RunsNext ==
    ASSUME \A i \in EventIds : sent'[i] <= 1 /\ (sent'[i] = 1 => i \in ledger' /\ i \notin toSend'),
           toSend' \subseteq ledger',
           \A i \in processed' : applied'[i] >= 1,
           \A m \in Waiting(queue') : sent'[m.job] = 1,
           \A w \in Workers : /\ work'[w].pc # "idle" => sent'[work'[w].msg.job] = 1
                              /\ work'[w].pc = "mark" => applied'[work'[w].msg.job] >= 1
                              /\ work'[w].pc = "ack" => work'[w].msg.job \in processed',
           \A i \in EventIds : applied'[i] > 0 => sent'[i] = 1
    PROVE  RunsFollow'
<1>1. EnqueuedOnce'
  BY DEF EnqueuedOnce
<1>2. MarkedWasApplied'
  BY DEF MarkedWasApplied
<1>3. \A w \in Workers : /\ (Busy(w) => sent[EventOf(w)] = 1)'
                         /\ (work[w].pc = "mark" => applied[EventOf(w)] >= 1)'
                         /\ (work[w].pc = "ack" => EventOf(w) \in processed)'
  BY DEF Busy, EventOf
<1>4. (\A m \in Waiting(queue) : sent[m.job] = 1)'
  BY DEF Waiting
<1> QED
  BY <1>1, <1>2, <1>3, <1>4 DEF RunsFollow

LEMMA RunsStepWebhook ==
    ASSUME Base, NEW i \in EventIds,
           PostLost(i) \/ PostDuplicated(i) \/ Deliver(i) \/ Delay(i) \/ WebCrash(i)
    PROVE  RunsFollow'
<1>0. /\ TypeOK /\ ledger \subseteq EventIds /\ toSend \subseteq EventIds /\ sent \in [EventIds -> Nat]
      /\ queue \in [Messages -> Nat] /\ processed \subseteq EventIds
      /\ \A w \in Workers : work[w].pc # "idle" => work[w].msg.job \in EventIds
  <2>1. TypeOK
    BY DEF Base
  <2>2. \A w \in Workers : work[w].pc # "idle" => work[w].msg.job \in EventIds
    BY <2>1 DEF TypeOK, Messages
  <2> QED
    BY <2>1, <2>2 DEF TypeOK
<1>1. /\ \A j \in EventIds : sent[j] <= 1 /\ (sent[j] = 1 => j \in ledger /\ j \notin toSend)
      /\ toSend \subseteq ledger
      /\ \A j \in processed : applied[j] >= 1
      /\ \A m \in Waiting(queue) : sent[m.job] = 1
      /\ \A w \in Workers : /\ work[w].pc # "idle" => sent[work[w].msg.job] = 1
                            /\ work[w].pc = "mark" => applied[work[w].msg.job] >= 1
                            /\ work[w].pc = "ack" => work[w].msg.job \in processed
      /\ \A j \in EventIds : applied[j] > 0 => sent[j] = 1
  BY RunsIs DEF Base
<1>2. /\ work' = work /\ applied' = applied /\ processed' = processed
      /\ \/ ledger' = ledger /\ toSend' = toSend /\ queue' = queue /\ sent' = sent
         \/ /\ i \notin ledger /\ ledger' = ledger \cup {i} /\ toSend' = toSend \cup {i}
            /\ queue' = queue /\ sent' = sent
         \/ /\ i \in toSend /\ toSend' = toSend \ {i} /\ ledger' = ledger
            /\ \/ queue' = Sent(queue, Message(i, 0)) /\ sent' = [sent EXCEPT ![i] = @ + 1]
               \/ queue' = queue /\ sent' = sent
  BY <1>0, WebhookSteps DEF task, broker
<1>3. \A w \in Workers :
        /\ work'[w].pc # "idle" => work'[w].msg.job \in EventIds /\ sent[work'[w].msg.job] = 1
        /\ work'[w].pc = "mark" => applied'[work'[w].msg.job] >= 1
        /\ work'[w].pc = "ack" => work'[w].msg.job \in processed'
  BY <1>0, <1>1, <1>2
<1>4. CASE queue' = queue /\ sent' = sent
  <2>1. /\ \A j \in EventIds : sent'[j] <= 1 /\ (sent'[j] = 1 => j \in ledger' /\ j \notin toSend')
        /\ toSend' \subseteq ledger'
    BY <1>0, <1>1, <1>2, <1>4
  <2>2. \A m \in Waiting(queue') : sent'[m.job] = 1
    BY <1>1, <1>4
  <2>3. \A w \in Workers : /\ work'[w].pc # "idle" => sent'[work'[w].msg.job] = 1
                           /\ work'[w].pc = "mark" => applied'[work'[w].msg.job] >= 1
                           /\ work'[w].pc = "ack" => work'[w].msg.job \in processed'
    BY <1>3, <1>4
  <2>4. \A j \in EventIds : applied'[j] > 0 => sent'[j] = 1
    BY <1>1, <1>2, <1>4
  <2>5. \A j \in processed' : applied'[j] >= 1
    BY <1>1, <1>2
  <2> QED
    BY <2>1, <2>2, <2>3, <2>4, <2>5, RunsNext
<1>5. CASE /\ i \in toSend /\ toSend' = toSend \ {i} /\ ledger' = ledger
           /\ queue' = Sent(queue, Message(i, 0)) /\ sent' = [sent EXCEPT ![i] = @ + 1]
  <2>1. sent[i] = 0
    BY <1>0, <1>1, <1>5
  <2>2. sent'[i] = 1 /\ \A j \in EventIds \ {i} : sent'[j] = sent[j]
    BY <1>0, <1>5, <2>1
  <2>3. /\ \A j \in EventIds : sent'[j] <= 1 /\ (sent'[j] = 1 => j \in ledger' /\ j \notin toSend')
        /\ toSend' \subseteq ledger'
    BY <1>0, <1>1, <1>5, <2>2
  <2>4. \A m \in Waiting(queue') : sent'[m.job] = 1
    <3>1. Message(i, 0) \in Messages /\ Message(i, 0).job = i
      BY FirstTry
    <3>2. \A m : m \in Waiting(Sent(queue, Message(i, 0))) <=> m \in Waiting(queue) \/ m = Message(i, 0)
      BY <1>0, <3>1, SentIs
    <3>3. \A m \in Waiting(queue) : m.job \in EventIds
      BY <1>0, WaitingIs
    <3>4. ASSUME NEW m \in Waiting(queue') PROVE sent'[m.job] = 1
      <4>1. m \in Waiting(queue) \/ m = Message(i, 0)
        BY <1>5, <3>2
      <4> QED
        BY <1>1, <2>2, <3>1, <3>3, <4>1
    <3> QED
      BY <3>4
  <2>5. \A j \in EventIds : sent[j] = 1 => sent'[j] = 1
    BY <2>1, <2>2
  <2>6. \A w \in Workers : /\ work'[w].pc # "idle" => sent'[work'[w].msg.job] = 1
                           /\ work'[w].pc = "mark" => applied'[work'[w].msg.job] >= 1
                           /\ work'[w].pc = "ack" => work'[w].msg.job \in processed'
    BY <1>3, <2>5
  <2>7. \A j \in EventIds : applied'[j] > 0 => sent'[j] = 1
    BY <1>1, <1>2, <2>5
  <2>8. \A j \in processed' : applied'[j] >= 1
    BY <1>1, <1>2
  <2> QED
    BY <2>3, <2>4, <2>6, <2>7, <2>8, RunsNext
<1> QED
  BY <1>2, <1>4, <1>5

LEMMA RunsStepWorker ==
    ASSUME Base, NEW w \in Workers, Run(w) \/ WorkerCrash(w) \/ Redeliver(w) \/ TaskError(w)
    PROVE  RunsFollow'
<1> DEFINE i == work[w].msg.job
<1>0. /\ TypeOK /\ sent \in [EventIds -> Nat] /\ applied \in [EventIds -> Nat]
      /\ queue \in [Messages -> Nat] /\ processed \subseteq EventIds
      /\ \A v \in Workers : work[v].pc # "idle" => work[v].msg \in Messages /\ work[v].msg.job \in EventIds
  <2>1. TypeOK
    BY DEF Base
  <2>2. \A v \in Workers : work[v].pc # "idle" => work[v].msg \in Messages /\ work[v].msg.job \in EventIds
    BY <2>1 DEF TypeOK, Messages
  <2> QED
    BY <2>1, <2>2 DEF TypeOK
<1>1. /\ \A j \in EventIds : sent[j] <= 1 /\ (sent[j] = 1 => j \in ledger /\ j \notin toSend)
      /\ toSend \subseteq ledger
      /\ \A j \in processed : applied[j] >= 1
      /\ \A m \in Waiting(queue) : sent[m.job] = 1
      /\ \A v \in Workers : /\ work[v].pc # "idle" => sent[work[v].msg.job] = 1
                            /\ work[v].pc = "mark" => applied[work[v].msg.job] >= 1
                            /\ work[v].pc = "ack" => work[v].msg.job \in processed
      /\ \A j \in EventIds : applied[j] > 0 => sent[j] = 1
  BY RunsIs DEF Base
<1>2. /\ ledger' = ledger /\ toSend' = toSend /\ sent' = sent
      /\ \A v \in Workers \ {w} : work'[v] = work[v]
      /\ (\E m \in Waiting(queue) : Takes(w, m)) \/ Moves(w) \/ LetsGo(w) \/ Doubles(w)
  BY <1>0, WorkerSteps DEF webhook
<1>3. /\ \A m \in Waiting(queue') : sent[m.job] = 1
      /\ applied' \in [EventIds -> Nat] /\ processed \subseteq processed'
      /\ \A j \in EventIds : applied'[j] >= applied[j] /\ (applied'[j] > 0 => sent[j] = 1)
      /\ \A j \in processed' : j \in EventIds /\ applied'[j] >= 1
      /\ work'[w].pc # "idle" => sent[work'[w].msg.job] = 1 /\ work'[w].msg.job \in EventIds
      /\ work'[w].pc = "mark" => applied'[work'[w].msg.job] >= 1
      /\ work'[w].pc = "ack" => work'[w].msg.job \in processed'
  <2> DEFINE Follows ==
          /\ \A m \in Waiting(queue') : sent[m.job] = 1
          /\ applied' \in [EventIds -> Nat] /\ processed \subseteq processed'
          /\ \A j \in EventIds : applied'[j] >= applied[j] /\ (applied'[j] > 0 => sent[j] = 1)
          /\ \A j \in processed' : j \in EventIds /\ applied'[j] >= 1
          /\ work'[w].pc # "idle" => sent[work'[w].msg.job] = 1 /\ work'[w].msg.job \in EventIds
          /\ work'[w].pc = "mark" => applied'[work'[w].msg.job] >= 1
          /\ work'[w].pc = "ack" => work'[w].msg.job \in processed'
  <2>1. ASSUME NEW m \in Waiting(queue), Takes(w, m) PROVE Follows
    <3>1. m \in Messages /\ m.job \in EventIds /\ \A n \in Waiting(queue') : n \in Waiting(queue)
      BY <1>0, <2>1, WaitingIs, TakenIs DEF Takes
    <3> QED
      BY <1>0, <1>1, <2>1, <3>1 DEF Takes
  <2>2. CASE Moves(w)
    <3>1. /\ queue' = queue /\ work[w].pc # "idle" /\ i \in EventIds /\ sent[i] = 1
          /\ work'[w].msg = work[w].msg
      BY <1>0, <1>1, <2>2 DEF Moves, Busy
    <3>2. CASE /\ work[w].pc = "read" /\ applied' = applied /\ processed' = processed
               /\ work'[w].pc = "apply" \/ (i \in processed /\ work'[w].pc = "ack")
      BY <1>0, <1>1, <3>1, <3>2
    <3>3. CASE /\ work[w].pc = "apply" /\ work'[w].pc = "mark" /\ processed' = processed
               /\ applied' = [applied EXCEPT ![i] = @ + 1]
      BY <1>0, <1>1, <3>1, <3>3
    <3>4. CASE /\ work[w].pc = "mark" /\ work'[w].pc = "ack" /\ applied' = applied
               /\ processed' = processed \cup {i}
      BY <1>0, <1>1, <3>1, <3>4
    <3> QED
      BY <2>2, <3>2, <3>3, <3>4 DEF Moves, EventOf
  <2>3. CASE LetsGo(w) \/ Doubles(w)
    <3>1. /\ work[w].pc # "idle" /\ applied' = applied /\ processed' = processed
          /\ work'[w].pc = "idle" \/ work'[w] = work[w]
          /\ queue' = queue \/ queue' = Retried(queue, work[w].msg, MaxRetries)
                \/ queue' = Sent(queue, work[w].msg)
      BY <2>3 DEF LetsGo, Doubles, Busy
    <3>2. work[w].msg \in Messages /\ i \in EventIds /\ sent[i] = 1
      BY <1>0, <1>1, <3>1
    <3>3. \A m \in Waiting(queue') : m \in Waiting(queue) \/ m.job = i
      <4>1. CASE queue' = queue
        BY <4>1
      <4>2. CASE queue' = Sent(queue, work[w].msg)
        BY <1>0, <3>2, <4>2, SentIs
      <4>3. CASE queue' = Retried(queue, work[w].msg, MaxRetries)
        <5>1. queue' = queue \/ \E n \in Messages : n.job = i /\ queue' = Sent(queue, n)
          BY <1>0, <3>2, <4>3, RetriedIs
        <5> QED
          BY <1>0, <5>1, SentIs
      <4> QED
        BY <3>1, <4>1, <4>2, <4>3
    <3>4. \A m \in Waiting(queue') : sent[m.job] = 1
      BY <1>1, <3>2, <3>3
    <3> QED
      BY <1>0, <1>1, <3>1, <3>2, <3>4
  <2> QED
    BY <1>2, <2>1, <2>2, <2>3
<1>4. \A v \in Workers : /\ work'[v].pc # "idle" => sent'[work'[v].msg.job] = 1
                         /\ work'[v].pc = "mark" => applied'[work'[v].msg.job] >= 1
                         /\ work'[v].pc = "ack" => work'[v].msg.job \in processed'
  <2>1. ASSUME NEW v \in Workers \ {w}
        PROVE  /\ work'[v].pc # "idle" => sent'[work'[v].msg.job] = 1
               /\ work'[v].pc = "mark" => applied'[work'[v].msg.job] >= 1
               /\ work'[v].pc = "ack" => work'[v].msg.job \in processed'
    BY <1>0, <1>1, <1>2, <1>3
  <2> QED
    BY <1>2, <1>3, <2>1
<1>5. /\ \A j \in EventIds : sent'[j] <= 1 /\ (sent'[j] = 1 => j \in ledger' /\ j \notin toSend')
      /\ toSend' \subseteq ledger' /\ \A j \in processed' : applied'[j] >= 1
      /\ \A m \in Waiting(queue') : sent'[m.job] = 1
      /\ \A j \in EventIds : applied'[j] > 0 => sent'[j] = 1
  BY <1>1, <1>2, <1>3
<1> QED
  BY <1>4, <1>5, RunsNext

LEMMA RunsStep ==
    ASSUME Base, [Next]_vars
    PROVE  RunsFollow'
<1>0. TypeOK
  BY DEF Base
<1>1. ASSUME UNCHANGED <<ledger, toSend, broker, task>> PROVE RunsFollow'
  <2>1. /\ ledger' = ledger /\ toSend' = toSend /\ sent' = sent /\ queue' = queue
        /\ work' = work /\ applied' = applied /\ processed' = processed
    BY <1>1 DEF broker, task
  <2>2. /\ \A j \in EventIds : sent[j] <= 1 /\ (sent[j] = 1 => j \in ledger /\ j \notin toSend)
        /\ toSend \subseteq ledger
        /\ \A j \in processed : applied[j] >= 1
        /\ \A m \in Waiting(queue) : sent[m.job] = 1
        /\ \A v \in Workers : /\ work[v].pc # "idle" => sent[work[v].msg.job] = 1
                              /\ work[v].pc = "mark" => applied[work[v].msg.job] >= 1
                              /\ work[v].pc = "ack" => work[v].msg.job \in processed
        /\ \A j \in EventIds : applied[j] > 0 => sent[j] = 1
    BY RunsIs DEF Base
  <2> QED
    BY <2>1, <2>2, RunsNext
<1>2. CASE UNCHANGED vars
  BY <1>1, <1>2 DEF vars, broker, task
<1>3. CASE Administer
  <2>1. PICK raw \in Raws, about \in Abouts : Reported(raw, about)
    BY <1>0, <1>3, AdministerReports
  <2> QED
    BY <1>0, <1>1, <2>1, ReportedIs
<1>4. CASE Visits
  BY <1>1, <1>4, VisitsFrame DEF webhook
<1> QED
  BY <1>0, <1>2, <1>3, <1>4, Steps, RunsStepWebhook, RunsStepWorker

LEMMA InitBase ==
    ASSUME Init
    PROVE  Base
<1>1. TypeOK
  BY InitTypes
<1>2. /\ events = << >> /\ ledger = {} /\ toSend = {} /\ processed = {}
      /\ \A i \in EventIds : posts[i] = 0 /\ sent[i] = 0 /\ applied[i] = 0
      /\ \A w \in Workers : work[w].pc = "idle"
  BY DEF Init, Idle
<1>3. Waiting(queue) = {}
  BY DEF Init, NoMessages, Waiting
<1>4. DOMAIN events = {}
  BY <1>2
<1>5. RowsFit
  BY <1>2, <1>4 DEF RowsFit
<1>6. RunsFollow
  BY <1>2, <1>3 DEF RunsFollow, EnqueuedOnce, MarkedWasApplied, Busy
<1> QED
  BY <1>1, <1>5, <1>6 DEF Base

\* The rows, messages, runs and marks of events are where they should be.
THEOREM EventsInOrder == Spec => []Base
<1>1. Base /\ [Next]_vars => Base'
  BY TypesStep, RowsStep, RunsStep DEF Base
<1> QED
  BY <1>1, InitBase, PTL DEF Spec

\* The types of the state, in every reachable state.
THEOREM TypeCorrect == Spec => []TypeOK
BY EventsInOrder, PTL DEF Base

\* The row of an event names the user and the group the event is really about,
\* and no path but the group's (webhooks.py:150-155, 265-273).
THEOREM RowsSayWho == Spec => []EntriesFit
<1>1. ASSUME Base PROVE EntriesFit
  <2>1. ASSUME NEW i \in ledger
        PROVE  /\ <<Entry(i).sub, Entry(i).group>> = events[i].about
               /\ Entry(i).path # None => Entry(i).path = GroupPath(Entry(i).group)
    <3>1. Fits(Entry(i), events[i].about) /\ Entry(i) # Ignored
      BY <1>1 DEF Base, RowsFit
    <3> QED
      BY <3>1 DEF Fits
  <2> QED
    BY <2>1 DEF EntriesFit
<1> QED
  BY <1>1, EventsInOrder, PTL

\* delay() is called once for an event, however often it is posted, and after
\* its row is committed (webhooks.py:395-397).
THEOREM OneDelay == Spec => []EnqueuedOnce
<1>1. Base => EnqueuedOnce
  BY DEF Base, RunsFollow
<1> QED
  BY <1>1, EventsInOrder, PTL

\* processed_at is saved after the projection was written (models.py:86-93).
THEOREM MarksFollowWrites == Spec => []MarkedWasApplied
<1>1. Base => MarkedWasApplied
  BY DEF Base, RunsFollow
<1> QED
  BY <1>1, EventsInOrder, PTL

-----------------------------------------------------------------------------
(* Who is active.                                                           *)

\* A run, a login or a command that activates an inactive user is the run of an
\* event that says so, or provision_user: it is not a login (replication.py:58-60).
THEOREM ActivatedByAdmins == Spec => LoginNeverActivates
<1> DEFINE Reason(u) ==
      \/ \E w \in Workers : /\ work[w].pc = "apply"
                            /\ Entry(EventOf(w)).sub = u /\ Entry(EventOf(w)).enabled = "yes"
      \/ \E s \in Sessions : login[s].pc = "provision" /\ login[s].user = u
<1>1. ASSUME Base, [Next]_vars, NEW u \in Users, user[u].status = "inactive", user'[u].status = "active"
      PROVE  Reason(u)
  <2>0. TypeOK /\ user \in [Users -> LocalUsers] /\ user' # user
        /\ env.sessions \subseteq Sessions /\ env.users \subseteq Users
        /\ \A s \in Sessions : login[s].pc # "idle" => login[s].user \in Users
    BY <1>1, EnvTyped DEF Base, TypeOK, LocalUsers
  <2>1. CASE Administer
    <3>1. PICK raw \in Raws, about \in Abouts : Reported(raw, about)
      BY <2>0, <2>1, AdministerReports
    <3> QED
      BY <2>0, <3>1, ReportedIs DEF projection
  <2>2. ASSUME NEW i \in EventIds,
               PostLost(i) \/ PostDuplicated(i) \/ Deliver(i) \/ Delay(i) \/ WebCrash(i)
        PROVE  FALSE
    BY <2>0, <2>2, WebhookSteps DEF projection
  <2>3. ASSUME NEW w \in Workers, Run(w) \/ WorkerCrash(w) \/ Redeliver(w) \/ TaskError(w)
        PROVE  Reason(u)
    <3> DEFINE e == Entry(EventOf(w))
    <3>1. Apply(w)
      BY <2>0, <2>3 DEF Run, WorkerCrash, Redeliver, TaskError, Fetch, ReadRow, ApplyRefused, Mark,
                        Acknowledge, projection
    <3>2. work[w].pc = "apply" /\ user' = [user EXCEPT ![e.sub] = UserAfter(e, @)]
      BY <2>0, <3>1 DEF Apply, projection
    <3>3. e.sub = u
      BY <1>1, <2>0, <3>2
    <3>4. UserAfter(e, user[u]).status = "active"
      BY <1>1, <2>0, <3>2, <3>3
    <3>5. e.enabled = "yes"
      <4> HIDE DEF e
      <4>1. e.op # "DELETE"
        BY <1>1, <3>4 DEF UserAfter, Deactivated
      <4>2. Upserted(user[u], e).status = "active"
        BY <3>4, <4>1 DEF UserAfter
      <4> QED
        BY <1>1, <4>2 DEF Upserted, Person
    <3> QED
      BY <3>2, <3>3, <3>5
  <2>4. CASE Visits
    <3>1. PICK s \in Sessions, v \in Users : SyncProjection(s) \/ ProvisionSave(s) \/ ProvisionCreate(s, v)
      BY <2>0, <2>4 DEF Visits, IssueToken, ExpireToken, Resolve, Reconcile, ReconcileSkipped,
                        ProvisionGet, projection
    <3>2. CASE SyncProjection(s)
      <4>1. user' = [user EXCEPT ![login[s].user].name = login[s].name]
        BY <2>0, <3>2 DEF SyncProjection
      <4>2. user'[u].status = user[u].status
        BY <2>0, <4>1 DEF LocalUsers
      <4> QED
        BY <1>1, <4>2
    <3>3. CASE ProvisionSave(s)
      <4>1. /\ login[s].pc = "provision"
            /\ user' = [user EXCEPT ![login[s].user] = Person("active", login[s].read)]
        BY <2>0, <3>3 DEF ProvisionSave
      <4>2. login[s].user = u
        BY <1>1, <2>0, <4>1
      <4> QED
        BY <4>1, <4>2
    <3>4. CASE ProvisionCreate(s, v)
      <4>1. user[v].status = "none" /\ user' = [user EXCEPT ![v] = Person("active", v)]
        BY <3>4 DEF ProvisionCreate
      <4> QED
        BY <1>1, <2>0, <4>1
    <3> QED
      BY <3>1, <3>2, <3>3, <3>4
  <2>5. ~ UNCHANGED vars
    BY <2>0 DEF vars
  <2> HIDE DEF Reason
  <2> QED
    BY <1>1, <2>0, <2>1, <2>2, <2>3, <2>4, <2>5, Steps
<1>2. Base /\ [Next]_vars =>
        [\A u \in Users : user[u].status = "inactive" /\ user'[u].status = "active" => Reason(u)]_vars
  BY <1>1
<1> QED
  BY <1>2, EventsInOrder, PTL DEF Spec, LoginNeverActivates

-----------------------------------------------------------------------------
(* Usernames.                                                               *)

Named == Base /\ NamesKept

\* An event that gives a user a username makes it one of its usernames.
LEMMA GivenName ==
    ASSUME NEW u \in Users, NEW i \in DOMAIN events, events[i].about[1] = u, Entry(i).username # None
    PROVE  Entry(i).username \in NamesOf(u)
BY DEF NamesOf

\* No username is forgotten, and none comes up but with an event.
LEMMA NamesGrow ==
    ASSUME TypeOK, NEW raw \in Raws, NEW about \in Abouts, Reported(raw, about), NEW u \in Users
    PROVE  /\ \A n \in NamesOf(u) : n \in NamesOf(u)'
           /\ about[1] = u /\ LedgerEntry(raw).username # None => LedgerEntry(raw).username \in NamesOf(u)'
<1>1. PICK k \in EventIds : k = Len(events) + 1
  BY ReportedIs
<1>2. /\ DOMAIN events' = 1 .. k /\ DOMAIN events = 1 .. Len(events) /\ Len(events) \in Nat
      /\ \A i \in DOMAIN events : events'[i] = events[i] /\ Entry(i)' = Entry(i)
      /\ Entry(k)' = LedgerEntry(raw) /\ events'[k].about = about /\ env' = env
  BY <1>1, ReportedIs
<1>3. ASSUME NEW i \in DOMAIN events PROVE i \in DOMAIN events'
  BY <1>1, <1>2
<1>4. k \in DOMAIN events'
  BY <1>1, <1>2
<1>5. ASSUME NEW n \in NamesOf(u) PROVE n \in NamesOf(u)'
  <2>1. n # None
    BY DEF NamesOf
  <2>2. CASE u \in DOMAIN env.known /\ n = env.known[u]
    BY <1>2, <2>1, <2>2 DEF NamesOf
  <2>3. CASE \E i \in DOMAIN events : events[i].about[1] = u /\ n = Entry(i).username
    <3>1. PICK i \in DOMAIN events : events[i].about[1] = u /\ n = Entry(i).username
      BY <2>3
    <3>2. i \in DOMAIN events' /\ events'[i].about[1] = u /\ n = Entry(i)'.username
      BY <1>2, <1>3, <3>1
    <3> QED
      BY <2>1, <3>2 DEF NamesOf
  <2> QED
    BY <2>2, <2>3 DEF NamesOf
<1>6. ASSUME about[1] = u, LedgerEntry(raw).username # None
      PROVE  LedgerEntry(raw).username \in NamesOf(u)'
  BY <1>2, <1>4, <1>6 DEF NamesOf
<1> QED
  BY <1>5, <1>6

\* The row of a user gets a username that was its own at some time and that no
\* other row has.
Written(u, row) ==
    /\ user' = [user EXCEPT ![u] = row] /\ row \in LocalUsers
    /\ row.status # "none" /\ row.name # None
    /\ row.name \in NamesOf(u) \cup {u}
    /\ \A v \in Users \ {u} : user[v].name # row.name

\* NamesKept, of the users and of the sessions.
UserNames(u) ==
    /\ user[u].name \in NamesOf(u) \cup {u, None}
    /\ user[u].status = "none" <=> user[u].name = None
    /\ \A v \in Users \ {u} : user[u].name = user[v].name => user[u].name = None

SessionNames(q) ==
    q.pc # "idle" =>
        /\ user[q.user].status # "none"
        /\ q.pc = "sync" => q.name \in NamesOf(q.user)
        /\ q.read \in NamesOf(q.user) \cup {q.user}

LEMMA NamesKeptIs ==
    NamesKept <=> /\ \A u \in Users : Present(u) => realm[u].name \in NamesOf(u)
                  /\ \A u \in Users : UserNames(u)
                  /\ \A k \in tokens : k.name \in NamesOf(k.user)
                  /\ \A s \in Sessions : SessionNames(login[s])
BY DEF NamesKept, UserNames, SessionNames

LEMMA UsersKeepNames ==
    ASSUME TypeOK, \A u \in Users : UserNames(u),
           user' = user \/ \E u \in Users, row \in LocalUsers : Written(u, row),
           NEW u \in Users, \A n \in NamesOf(u) : n \in NamesOf(u)'
    PROVE  UserNames(u)' /\ (user'[u].status = "none" => user[u].status = "none")
<1>0. user \in [Users -> LocalUsers]
  BY DEF TypeOK, LocalUsers
<1>1. UserNames(u)
  OBVIOUS
<1>2. CASE user' = user
  BY <1>1, <1>2 DEF UserNames
<1>3. CASE \E v \in Users, row \in LocalUsers : Written(v, row)
  <2>1. PICK v \in Users, row \in LocalUsers : Written(v, row)
    BY <1>3
  <2>2. user'[v] = row /\ \A x \in Users \ {v} : user'[x] = user[x]
    BY <1>0, <2>1 DEF Written
  <2>3. CASE u = v
    BY <2>1, <2>2, <2>3, NoneAssumption DEF Written, UserNames
  <2>4. CASE u # v
    <3>1. user'[u] = user[u]
      BY <2>2, <2>4
    <3>2. ASSUME NEW x \in Users \ {u}, user'[u].name = user'[x].name PROVE user'[u].name = None
      BY <1>1, <2>1, <2>2, <2>4, <3>1, <3>2 DEF Written, UserNames
    <3> QED
      BY <1>1, <3>1, <3>2 DEF UserNames
  <2> QED
    BY <2>3, <2>4
<1> QED
  BY <1>2, <1>3

\* What a run writes into the row of a user.
LEMMA RunWrites ==
    ASSUME Named, NEW w \in Workers, Run(w) \/ WorkerCrash(w) \/ Redeliver(w) \/ TaskError(w)
    PROVE  user' = user \/ \E u \in Users, row \in LocalUsers : Written(u, row)
<1> DEFINE e == Entry(EventOf(w))
<1>0. /\ Base /\ TypeOK /\ user \in [Users -> LocalUsers] /\ \A u \in Users : UserNames(u)
  BY NamesKeptIs DEF Named, Base, TypeOK, LocalUsers
<1>1. CASE user' = user
  BY <1>1
<1>2. CASE user' # user
  <2>1. Apply(w)
    BY <1>2 DEF Run, WorkerCrash, Redeliver, TaskError, Fetch, ReadRow, ApplyRefused, Mark,
                Acknowledge, projection
  <2>2. /\ work[w].pc = "apply" /\ ~ Refused(e) /\ e.kind = "user"
        /\ user' = [user EXCEPT ![e.sub] = UserAfter(e, user[e.sub])]
    BY <1>2, <2>1 DEF Apply, projection
  <2>3. EventOf(w) \in DOMAIN events /\ Fits(e, events[EventOf(w)].about) /\ e # Ignored
    BY <1>0, <2>2, BusyEvent DEF Busy
  <2>4. e.sub \in Users /\ events[EventOf(w)].about[1] = e.sub
    BY <2>2, <2>3 DEF Fits
  <2>5. e.username # None => e.username \in NamesOf(e.sub)
    BY <2>3, <2>4, GivenName
  <2> DEFINE u == e.sub
             row == UserAfter(e, user[u])
  <2>6. row \in LocalUsers
    BY <1>0, <2>3, <2>4, UserAfterTyped
  <2>7. UserNames(u) /\ user[u] \in LocalUsers /\ u # None
    BY <1>0, <2>4, NoneAssumption
  <2>8. CASE e.op = "DELETE"
    <3>1. row = Deactivated(user[u]) /\ user' = [user EXCEPT ![u] = row]
      BY <2>2, <2>8 DEF UserAfter
    <3>2. user[u].status = "active"
      BY <1>0, <1>2, <2>4, <3>1 DEF Deactivated
    <3>3. row.status = "inactive" /\ row.name = user[u].name
      BY <2>7, <3>1, <3>2 DEF Deactivated, LocalUsers
    <3>4. Written(u, row)
      BY <2>6, <2>7, <3>1, <3>2, <3>3 DEF Written, UserNames
    <3> QED
      BY <2>4, <2>6, <3>4
  <2>9. CASE e.op # "DELETE"
    <3>1. row = Upserted(user[u], e) /\ user' = [user EXCEPT ![u] = row]
      BY <2>2, <2>9 DEF UserAfter
    <3>2. row.status # "none" /\ row.name = Either(e.username, Either(user[u].name, u))
      <4> HIDE DEF e
      <4> QED
        BY <3>1 DEF Upserted, Person
    <3>3. row.name # None /\ row.name \in NamesOf(u) \cup {u}
      BY <2>5, <2>7, <3>2 DEF Either, UserNames
    <3>4. \A v \in Users \ {u} : user[v].name # row.name
      BY <2>2, <2>9, <3>1, <3>3 DEF Refused, NameTaken
    <3>5. Written(u, row)
      BY <2>6, <3>1, <3>2, <3>3, <3>4 DEF Written
    <3> QED
      BY <2>4, <2>6, <3>5
  <2> QED
    BY <2>8, <2>9
<1> QED
  BY <1>1, <1>2

\* What a login or a command writes into the row of a user.
LEMMA VisitWrites ==
    ASSUME Named, Visits
    PROVE  user' = user \/ \E u \in Users, row \in LocalUsers : Written(u, row)
<1>0. /\ TypeOK /\ user \in [Users -> LocalUsers] /\ \A u \in Users : UserNames(u)
      /\ \A s \in Sessions : /\ SessionNames(login[s]) /\ login[s].name \in Names /\ login[s].read \in Names
                             /\ login[s].pc # "idle" => login[s].user \in Users
      /\ env.users \subseteq Users /\ env.sessions \subseteq Sessions
  BY NamesKeptIs, EnvTyped DEF Named, Base, TypeOK, LocalUsers, Names
<1>1. ASSUME NEW u \in Users, NEW row \in LocalUsers, Written(u, row)
      PROVE  \E v \in Users, r \in LocalUsers : Written(v, r)
  BY <1>1
<1>2. ASSUME NEW s \in Sessions, SyncProjection(s), user' # user
      PROVE  \E u \in Users, row \in LocalUsers : Written(u, row)
  <2> DEFINE u == login[s].user
             n == login[s].name
             row == [user[u] EXCEPT !.name = n]
  <2>1. login[s].pc = "sync" /\ ~ NameTaken(u, n) /\ user' = [user EXCEPT ![u] = row]
    BY <1>2 DEF SyncProjection
  <2>2. u \in Users /\ user[u].status # "none" /\ n \in NamesOf(u) /\ user[u] \in LocalUsers /\ n \in Names
    BY <1>0, <2>1 DEF SessionNames
  <2>3. row \in LocalUsers /\ row.status = user[u].status /\ row.name = n
    BY <2>2 DEF LocalUsers
  <2>4. n # None
    BY <2>2 DEF NamesOf
  <2>5. \A v \in Users \ {u} : user[v].name # n
    BY <2>1, <2>4 DEF NameTaken
  <2>6. Written(u, row)
    BY <2>1, <2>2, <2>3, <2>4, <2>5 DEF Written
  <2> QED
    BY <2>2, <2>3, <2>6
<1>3. ASSUME NEW s \in Sessions, ProvisionSave(s), user' # user
      PROVE  \E u \in Users, row \in LocalUsers : Written(u, row)
  <2> DEFINE u == login[s].user
             n == login[s].read
             row == Person("active", n)
  <2>1. login[s].pc = "provision" /\ ~ NameTaken(u, n) /\ user' = [user EXCEPT ![u] = row]
    BY <1>3 DEF ProvisionSave
  <2>2. u \in Users /\ n \in NamesOf(u) \cup {u} /\ n \in Names
    BY <1>0, <2>1 DEF SessionNames
  <2>3. row \in LocalUsers /\ row.status = "active" /\ row.name = n
    BY <2>2 DEF LocalUsers, Person
  <2>4. n # None
    BY <2>2, NoneAssumption DEF NamesOf
  <2>5. \A v \in Users \ {u} : user[v].name # n
    BY <2>1, <2>4 DEF NameTaken
  <2>6. Written(u, row)
    BY <2>1, <2>2, <2>3, <2>4, <2>5 DEF Written
  <2> QED
    BY <2>2, <2>3, <2>6
<1>4. ASSUME NEW s \in Sessions, NEW u \in Users, ProvisionCreate(s, u)
      PROVE  \E v \in Users, row \in LocalUsers : Written(v, row)
  <2> DEFINE row == Person("active", u)
  <2>1. ~ NameTaken(u, u) /\ user' = [user EXCEPT ![u] = row]
    BY <1>4 DEF ProvisionCreate
  <2>2. row \in LocalUsers /\ row.status = "active" /\ row.name = u /\ u # None
    BY NoneAssumption DEF LocalUsers, Person, Names
  <2>3. \A v \in Users \ {u} : user[v].name # u
    BY <2>1, <2>2 DEF NameTaken
  <2>4. Written(u, row)
    BY <2>1, <2>2, <2>3 DEF Written
  <2> QED
    BY <2>2, <2>4
<1>5. CASE user' # user
  <2>1. \/ \E s \in Sessions : SyncProjection(s) \/ ProvisionSave(s)
        \/ \E s \in Sessions, u \in Users : ProvisionCreate(s, u)
    BY <1>0, <1>5 DEF Visits, IssueToken, ExpireToken, Resolve, Reconcile, ReconcileSkipped,
                      ProvisionGet, projection
  <2> QED
    BY <1>2, <1>3, <1>4, <1>5, <2>1
<1> QED
  BY <1>5

LEMMA SameNames ==
    ASSUME env' = env, events' = events, NEW u
    PROVE  NamesOf(u)' = NamesOf(u)
BY DEF NamesOf, Entry

LEMMA NamesNext ==
    ASSUME TypeOK',
           \A u \in Users : Present(u)' => realm'[u].name \in NamesOf(u)',
           \A u \in Users : UserNames(u)',
           \A u \in Users : \A k \in tokens' : k.user = u => k.name \in NamesOf(u)',
           \A s \in Sessions, u \in Users : login'[s].pc # "idle" /\ login'[s].user = u =>
                /\ user'[u].status # "none"
                /\ login'[s].pc = "sync" => login'[s].name \in NamesOf(u)'
                /\ login'[s].read \in NamesOf(u)' \cup {u}
    PROVE  NamesKept'
<1>1. /\ \A k \in tokens' : k.user \in Users
      /\ \A s \in Sessions : login'[s].pc # "idle" => login'[s].user \in Users
  BY DEF TypeOK
<1>2. ASSUME NEW k \in tokens' PROVE (k.name \in NamesOf(k.user))'
  BY <1>1
<1>3. ASSUME NEW s \in Sessions PROVE SessionNames(login[s])'
  BY <1>1 DEF SessionNames
<1>4. \A u \in Users : (Present(u) => realm[u].name \in NamesOf(u))' /\ UserNames(u)'
  OBVIOUS
<1> QED
  BY <1>2, <1>3, <1>4 DEF NamesKept, UserNames, SessionNames

LEMMA NamesStep ==
    ASSUME Named, TypeOK', [Next]_vars
    PROVE  NamesKept'
<1>0. /\ Base /\ TypeOK /\ \A u \in Users : UserNames(u)
      /\ \A u \in Users : Present(u) => realm[u].name \in NamesOf(u)
      /\ \A k \in tokens : k.user \in Users /\ k.name \in NamesOf(k.user)
      /\ \A s \in Sessions : SessionNames(login[s])
      /\ env.users \subseteq Users /\ env.sessions \subseteq Sessions
      /\ login \in [Sessions -> Logins]
      /\ \A s \in Sessions : login[s].pc # "idle" => login[s].user \in Users
  <2>1. TypeOK
    BY DEF Named, Base
  <2> QED
    BY <2>1, NamesKeptIs, EnvTyped DEF Named, TypeOK, Logins
\* A user, with the names it keeps.
<1>1. ASSUME user' = user \/ \E u \in Users, row \in LocalUsers : Written(u, row),
             \A u \in Users : \A n \in NamesOf(u) : n \in NamesOf(u)'
      PROVE  \A u \in Users : UserNames(u)' /\ (user'[u].status = "none" => user[u].status = "none")
  BY <1>0, <1>1, UsersKeepNames
\* A session that was where it is, or went on.
<1>2. ASSUME NEW s \in Sessions, NEW u \in Users, login'[s].pc # "idle", login'[s].user = u,
             \A n \in NamesOf(u) : n \in NamesOf(u)',
             user'[u].status = "none" => user[u].status = "none",
             login[s].pc # "idle", login'[s].pc = "sync" => login[s].pc = "sync",
             login'[s].user = login[s].user, login'[s].name = login[s].name, login'[s].read = login[s].read
      PROVE  /\ user'[u].status # "none"
             /\ login'[s].pc = "sync" => login'[s].name \in NamesOf(u)'
             /\ login'[s].read \in NamesOf(u)' \cup {u}
  <2>1. SessionNames(login[s])
    BY <1>0
  <2> QED
    BY <1>2, <2>1 DEF SessionNames
<1>3. ASSUME login' = login, tokens' = tokens,
             user' = user \/ \E u \in Users, row \in LocalUsers : Written(u, row),
             \A u \in Users : Present(u)' => realm'[u].name \in NamesOf(u)',
             \A u \in Users : \A n \in NamesOf(u) : n \in NamesOf(u)'
      PROVE  NamesKept'
  <2>1. \A u \in Users : UserNames(u)' /\ (user'[u].status = "none" => user[u].status = "none")
    BY <1>1, <1>3
  <2>2. \A u \in Users : \A k \in tokens' : k.user = u => k.name \in NamesOf(u)'
    BY <1>0, <1>3
  <2>3. ASSUME NEW s \in Sessions, NEW u \in Users, login'[s].pc # "idle", login'[s].user = u
        PROVE  /\ user'[u].status # "none"
               /\ login'[s].pc = "sync" => login'[s].name \in NamesOf(u)'
               /\ login'[s].read \in NamesOf(u)' \cup {u}
    BY <1>2, <1>3, <2>1, <2>3
  <2> QED
    BY <1>3, <2>1, <2>2, <2>3, NamesNext
<1>4. ASSUME env' = env, events' = events, realm' = realm
      PROVE  /\ \A u \in Users : Present(u)' => realm'[u].name \in NamesOf(u)'
             /\ \A u \in Users : \A n \in NamesOf(u) : n \in NamesOf(u)'
  <2>1. ASSUME NEW u \in Users
        PROVE  /\ Present(u)' => realm'[u].name \in NamesOf(u)'
               /\ \A n \in NamesOf(u) : n \in NamesOf(u)'
    <3>1. NamesOf(u)' = NamesOf(u)
      BY <1>4, SameNames
    <3>2. Present(u)' <=> Present(u)
      BY <1>4 DEF Present
    <3> QED
      BY <1>0, <1>4, <3>1, <3>2
  <2> QED
    BY <2>1
<1>5. CASE UNCHANGED vars
  BY <1>3, <1>4, <1>5 DEF vars
<1>6. CASE Administer
  <2>1. PICK raw \in Raws, about \in Abouts : Reported(raw, about)
    BY <1>0, <1>6, AdministerReports
  <2>2. UNCHANGED <<projection, sessions>>
    BY <1>0, <2>1, ReportedIs
  <2>3. \A u \in Users : \A n \in NamesOf(u) : n \in NamesOf(u)'
    BY <1>0, <2>1, NamesGrow
  <2>4. ASSUME NEW u \in Users, Present(u)' PROVE realm'[u].name \in NamesOf(u)'
    <3>1. CASE Present(u) /\ realm'[u].name = realm[u].name
      BY <1>0, <2>3, <3>1
    <3>2. CASE /\ about[1] = u /\ LedgerEntry(raw).username = realm'[u].name
               /\ realm'[u].name \in Usernames
      <4>1. LedgerEntry(raw).username # None
        BY <3>2, NoneAssumption
      <4> QED
        BY <1>0, <2>1, <3>2, <4>1, NamesGrow
    <3> QED
      BY <2>1, <2>4, <3>1, <3>2 DEF Reported
  <2> QED
    BY <1>3, <2>2, <2>3, <2>4 DEF projection, sessions
<1>7. ASSUME NEW i \in EventIds,
             PostLost(i) \/ PostDuplicated(i) \/ Deliver(i) \/ Delay(i) \/ WebCrash(i)
      PROVE  NamesKept'
  <2>1. UNCHANGED <<keycloak, projection, sessions>>
    BY <1>0, <1>7, WebhookSteps
  <2> QED
    BY <1>3, <1>4, <2>1 DEF keycloak, projection, sessions
<1>8. ASSUME NEW w \in Workers, Run(w) \/ WorkerCrash(w) \/ Redeliver(w) \/ TaskError(w)
      PROVE  NamesKept'
  <2>1. UNCHANGED <<keycloak, sessions>>
    BY <1>0, <1>8, WorkerSteps
  <2>2. user' = user \/ \E u \in Users, row \in LocalUsers : Written(u, row)
    BY <1>8, RunWrites
  <2> QED
    BY <1>3, <1>4, <2>1, <2>2 DEF keycloak, sessions
<1>9. CASE Visits
  <2>1. UNCHANGED keycloak
    BY <1>9, VisitsFrame
  <2>2. user' = user \/ \E u \in Users, row \in LocalUsers : Written(u, row)
    BY <1>9, VisitWrites
  <2>3. /\ \A u \in Users : Present(u)' => realm'[u].name \in NamesOf(u)'
        /\ \A u \in Users : \A n \in NamesOf(u) : n \in NamesOf(u)'
        /\ \A u \in Users : NamesOf(u)' = NamesOf(u)
    BY <1>4, <2>1, SameNames DEF keycloak
  <2>4. \A u \in Users : UserNames(u)' /\ (user'[u].status = "none" => user[u].status = "none")
    BY <1>1, <2>2, <2>3
  <2>5. \A u \in Users : \A k \in tokens' : k.user = u => k.name \in NamesOf(u)'
    <3>1. \A k \in tokens' : k \in tokens \/ \E u \in Users :
              /\ Present(u)
              /\ k = [user |-> u, name |-> realm[u].name, groups |-> groups[u]]
      BY <1>0, <1>9 DEF Visits, IssueToken, ExpireToken, Resolve, SyncProjection, Reconcile,
                        ReconcileSkipped, ProvisionSave, ProvisionGet, ProvisionCreate, sessions, Present
    <3> QED
      BY <1>0, <2>3, <3>1
  <2>6. ASSUME NEW s \in Sessions, NEW u \in Users, login'[s].pc # "idle", login'[s].user = u
        PROVE  /\ user'[u].status # "none"
               /\ login'[s].pc = "sync" => login'[s].name \in NamesOf(u)'
               /\ login'[s].read \in NamesOf(u)' \cup {u}
    <3>1. \/ login'[s] = login[s]
          \/ SyncProjection(s) /\ login' = [login EXCEPT ![s].pc = "reconcile"]
          \/ \E k \in tokens : Resolve(s, k)
          \/ \E v \in Users : ProvisionGet(s, v)
      <4>1. PICK t \in Sessions :
               \/ login' = login
               \/ SyncProjection(t) /\ login' = [login EXCEPT ![t].pc = "reconcile"]
               \/ login' = [login EXCEPT ![t] = LoggedOut]
               \/ \E k \in tokens : Resolve(t, k)
               \/ \E v \in Users : ProvisionGet(t, v)
        BY <1>0, <1>9 DEF Visits, IssueToken, ExpireToken, SyncProjection, Reconcile,
                          ReconcileSkipped, ProvisionSave, ProvisionCreate, sessions
      <4>2. CASE t # s
        BY <1>0, <4>1, <4>2 DEF SyncProjection, Resolve, ProvisionGet
      <4>3. CASE t = s
        BY <1>0, <2>6, <4>1, <4>3 DEF LoggedOut
      <4> QED
        BY <4>2, <4>3
    <3>2. CASE login'[s] = login[s]
      BY <1>2, <2>3, <2>4, <2>6, <3>2
    <3>3. CASE SyncProjection(s) /\ login' = [login EXCEPT ![s].pc = "reconcile"]
      <4>1. /\ login[s].pc = "sync" /\ login'[s].pc = "reconcile" /\ login'[s].user = login[s].user
            /\ login'[s].name = login[s].name /\ login'[s].read = login[s].read
        BY <1>0, <3>3 DEF SyncProjection, Logins
      <4> QED
        BY <1>2, <2>3, <2>4, <2>6, <4>1
    <3>4. CASE \E k \in tokens : Resolve(s, k)
      <4>1. PICK k \in tokens : Resolve(s, k)
        BY <3>4
      <4>2. /\ user[k.user].status = "active" /\ user' = user
            /\ login'[s] = [pc |-> "sync", user |-> k.user, name |-> k.name,
                            groups |-> k.groups, read |-> user[k.user].name]
        BY <1>0, <4>1 DEF Resolve, projection
      <4>3. /\ k.user = u /\ login'[s].name = k.name /\ login'[s].read = user[u].name
        BY <2>6, <4>2
      <4>4. UserNames(u) /\ k.name \in NamesOf(u)
        BY <1>0, <4>3
      <4> QED
        BY <2>3, <4>2, <4>3, <4>4 DEF UserNames
    <3>5. CASE \E v \in Users : ProvisionGet(s, v)
      <4>1. PICK v \in Users : ProvisionGet(s, v)
        BY <3>5
      <4>2. /\ user[v].status # "none" /\ user' = user
            /\ login'[s] = [LoggedOut EXCEPT !.pc = "provision", !.user = v, !.read = user[v].name]
        BY <1>0, <4>1 DEF ProvisionGet, projection
      <4>3. v = u /\ login'[s].pc = "provision" /\ login'[s].read = user[u].name
        BY <2>6, <4>2 DEF LoggedOut
      <4>4. UserNames(u)
        BY <1>0
      <4> QED
        BY <2>3, <4>2, <4>3, <4>4 DEF UserNames
    <3> QED
      BY <3>1, <3>2, <3>3, <3>4, <3>5
  <2> QED
    BY <2>3, <2>4, <2>5, <2>6, NamesNext
<1> QED
  BY <1>0, <1>5, <1>6, <1>7, <1>8, <1>9, Steps

LEMMA InitNames ==
    ASSUME Init
    PROVE  NamesKept
<1>1. /\ env \in Environments /\ \A u \in DOMAIN env.known : env.known[u] \in Usernames
      /\ \A u, v \in DOMAIN env.known : env.known[u] = env.known[v] => u = v
  <2>1. env \in Environments
    BY DEF Init
  <2> QED
    BY <2>1, EnvironmentsAssumption
<1>2. \A u \in DOMAIN env.known : env.known[u] # None
  BY <1>1, NoneAssumption
<1>3. ASSUME NEW u \in DOMAIN env.known PROVE env.known[u] \in NamesOf(u)
  BY <1>2 DEF NamesOf
<1>4. /\ realm = [u \in Users |-> IF u \in DOMAIN env.known THEN Person("enabled", env.known[u])
                                ELSE Person("absent", None)]
      /\ user = [u \in Users |-> IF u \in DOMAIN env.known THEN Person("active", env.known[u])
                               ELSE Person("none", None)]
      /\ tokens = {} /\ \A s \in Sessions : login[s].pc = "idle"
  BY DEF Init, LoggedOut
<1>5. ASSUME NEW u \in Users
      PROVE  /\ Present(u) => realm[u].name \in NamesOf(u)
             /\ user[u].name \in NamesOf(u) \cup {None} /\ (user[u].status = "none" <=> user[u].name = None)
  <2>1. CASE u \in DOMAIN env.known
    BY <1>2, <1>3, <1>4, <2>1 DEF Person
  <2>2. CASE u \notin DOMAIN env.known
    BY <1>4, <2>2 DEF Person, Present
  <2> QED
    BY <2>1, <2>2
<1>6. ASSUME NEW u \in Users, NEW v \in Users \ {u}, user[u].name = user[v].name
      PROVE  user[u].name = None
  BY <1>1, <1>4, <1>6 DEF Person
<1> QED
  BY <1>4, <1>5, <1>6 DEF NamesKept

\* Every username in sight was one of its user, and no two rows share one.
THEOREM NamesInOrder == Spec => []Named
<1>1. Init => Named
  BY InitBase, InitNames DEF Named
<1>2. Named /\ [Next]_vars => Named'
  BY TypesStep, RowsStep, RunsStep, NamesStep DEF Named, Base
<1> QED
  BY <1>1, <1>2, PTL DEF Spec

-----------------------------------------------------------------------------
(* No event is stranded.                                                    *)

\* The names and the events only grow, and so do the clashes.
LEMMA EventsLast ==
    ASSUME Base, [Next]_vars
    PROVE  /\ env' = env /\ \A i \in DOMAIN events : i \in DOMAIN events' /\ Entry(i)' = Entry(i)
           /\ \A u \in Users : \A n \in NamesOf(u) : n \in NamesOf(u)'
<1>0. TypeOK
  BY DEF Base
<1>1. ASSUME env' = env, events' = events
      PROVE  /\ env' = env /\ \A i \in DOMAIN events : i \in DOMAIN events' /\ Entry(i)' = Entry(i)
             /\ \A u \in Users : \A n \in NamesOf(u) : n \in NamesOf(u)'
  BY <1>1, SameNames DEF Entry
<1>2. CASE Administer
  <2>1. PICK raw \in Raws, about \in Abouts : Reported(raw, about)
    BY <1>0, <1>2, AdministerReports
  <2>2. /\ env' = env /\ \A i \in DOMAIN events : i \in DOMAIN events' /\ Entry(i)' = Entry(i)
    BY <1>0, <2>1, ReportedIs
  <2>3. \A u \in Users : \A n \in NamesOf(u) : n \in NamesOf(u)'
    BY <1>0, <2>1, NamesGrow
  <2> QED
    BY <2>2, <2>3
<1>3. ASSUME ~ Administer PROVE UNCHANGED keycloak
  <2>1. CASE UNCHANGED vars
    BY <2>1 DEF vars, keycloak
  <2>2. CASE Next
    BY <1>0, <1>3, <2>2, Steps, WebhookSteps, WorkerSteps, VisitsFrame
  <2> QED
    BY <2>1, <2>2
<1> QED
  BY <1>1, <1>2, <1>3 DEF keycloak

LEMMA ClashLasts ==
    ASSUME Base, [Next]_vars, NEW i \in DOMAIN events, NameClash(i)
    PROVE  NameClash(i)'
<1>1. PICK v \in Users \ {Entry(i).sub} :
         Entry(i).username \in NamesOf(v) \cup {v} \/ Entry(i).sub \in NamesOf(v)
  BY DEF NameClash
<1>2. /\ Entry(i)' = Entry(i) /\ \A n \in NamesOf(v) : n \in NamesOf(v)'
  BY EventsLast
<1>3. /\ v \in Users \ {Entry(i)'.sub}
      /\ Entry(i)'.username \in NamesOf(v)' \cup {v} \/ Entry(i)'.sub \in NamesOf(v)'
  BY <1>1, <1>2
<1> QED
  BY <1>3 DEF NameClash

\* The database refuses a username only if another user had it.
LEMMA RefusedClashes ==
    ASSUME Named, NEW w \in Workers, work[w].pc = "apply", Refused(Entry(EventOf(w)))
    PROVE  NameClash(EventOf(w))
<1> DEFINE e == Entry(EventOf(w))
           u == e.sub
           n == Upserted(user[u], e).name
<1>1. e.kind = "user" /\ n # None /\ \E v \in Users \ {u} : user[v].name = n
  BY DEF Refused, NameTaken
<1>2. PICK v \in Users \ {u} : user[v].name = n
  BY <1>1
<1>3. Fits(e, events[EventOf(w)].about) /\ e # Ignored
  BY BusyEvent DEF Named, Busy
<1>4. u \in Users
  BY <1>1, <1>3 DEF Fits
<1>5. UserNames(u) /\ UserNames(v)
  BY <1>4, NamesKeptIs DEF Named
<1>6. n = Either(e.username, Either(user[u].name, u))
  <2> HIDE DEF e
  <2> QED
    BY DEF Upserted, Person
<1>7. n \in NamesOf(v) \cup {v}
  BY <1>1, <1>2, <1>5 DEF UserNames
<1>8. e.username \in NamesOf(v) \cup {v} \/ u \in NamesOf(v)
  <2>1. CASE e.username # None
    BY <1>6, <1>7, <2>1 DEF Either
  <2>2. CASE e.username = None /\ user[u].name # None
    BY <1>2, <1>4, <1>5, <1>6, <2>2 DEF Either, UserNames
  <2>3. CASE e.username = None /\ user[u].name = None
    BY <1>2, <1>6, <1>7, <2>3 DEF Either
  <2> QED
    BY <2>1, <2>2, <2>3
<1> QED
  BY <1>8 DEF NameClash

\* Where an event is that was enqueued.
Held(i) ==
    \/ i \in processed
    \/ \E m \in Waiting(queue) : m.job = i
    \/ \E w \in Workers : work[w].pc \in {"read", "apply", "mark"} /\ work[w].msg.job = i
    \/ NameClash(i)

LEMMA RetriesIs ==
    ASSUME RetriesLast
    PROVE  /\ \A m \in Waiting(queue) : m.tries <= faults \/ NameClash(m.job)
           /\ \A w \in Workers : work[w].pc # "idle" =>
                 work[w].msg.tries <= faults \/ NameClash(work[w].msg.job)
           /\ env.maxFaults <= MaxRetries => \A i \in EventIds : sent[i] > 0 => Held(i)
<1>1. ASSUME NEW w \in Workers, work[w].pc # "idle"
      PROVE  work[w].msg.tries <= faults \/ NameClash(work[w].msg.job)
  BY <1>1 DEF RetriesLast, Busy, EventOf
<1>2. NeverStranded
  BY DEF RetriesLast
<1>3. ASSUME env.maxFaults <= MaxRetries, NEW i \in EventIds, sent[i] > 0 PROVE Held(i)
  BY <1>2, <1>3 DEF NeverStranded, Held, EventOf
<1> QED
  BY <1>1, <1>3 DEF RetriesLast

LEMMA RetriesNext ==
    ASSUME \A m \in Messages : m \in Waiting(queue') => m.tries <= faults' \/ NameClash(m.job)',
           queue' \in [Messages -> Nat],
           \A w \in Workers : work'[w].pc # "idle" => work'[w].msg \in Messages,
           \A w \in Workers, m \in Messages : work'[w].pc # "idle" /\ work'[w].msg = m =>
               m.tries <= faults' \/ NameClash(m.job)',
           env'.maxFaults <= MaxRetries => \A i \in EventIds : sent'[i] > 0 => Held(i)'
    PROVE  RetriesLast'
<1>1. ASSUME NEW m \in Waiting(queue') PROVE (m.tries <= faults \/ NameClash(m.job))'
  <2>1. m \in Messages
    BY WaitingIs
  <2> QED
    BY <2>1
<1>2. ASSUME NEW w \in Workers, Busy(w)' PROVE (work[w].msg.tries <= faults \/ NameClash(EventOf(w)))'
  <2>1. PICK m \in Messages : work'[w].msg = m /\ work'[w].pc # "idle"
    BY <1>2 DEF Busy
  <2>2. m.tries <= faults' \/ NameClash(m.job)'
    BY <2>1
  <2> QED
    BY <2>1, <2>2 DEF EventOf, NameClash
<1>3. NeverStranded'
  BY DEF NeverStranded, Held, EventOf
<1>4. (\A m \in Waiting(queue) : m.tries <= faults \/ NameClash(m.job))'
  BY <1>1 DEF Waiting
<1> QED
  BY <1>2, <1>3, <1>4 DEF RetriesLast

\* A step of the worker w keeps the bound on the tries, and the events held.
LEMMA RetriesStepWorker ==
    ASSUME Named, RetriesLast, TypeOK', [Next]_vars, NEW w \in Workers,
           Run(w) \/ WorkerCrash(w) \/ Redeliver(w) \/ TaskError(w)
    PROVE  RetriesLast'
<1> DEFINE k == work[w].msg.job
           Tried(m) == m.tries <= faults' \/ NameClash(m.job)'
<1>0. /\ Base /\ TypeOK /\ queue \in [Messages -> Nat] /\ queue' \in [Messages -> Nat]
      /\ faults \in Nat /\ env' = env /\ env.maxFaults \in Nat /\ MaxRetries \in Nat
      /\ \A v \in Workers : work[v].pc # "idle" => work[v].msg \in Messages
      /\ \A v \in Workers : work'[v].pc # "idle" => work'[v].msg \in Messages
  BY EnvTyped, EventsLast, MaxRetriesAssumption DEF Named, Base, TypeOK
<1>1. /\ \A i \in EventIds : sent[i] > 0 => i \in DOMAIN events
      /\ \A m \in Waiting(queue) : m \in Messages /\ m.tries \in Nat /\ m.job \in DOMAIN events
      /\ \A v \in Workers : work[v].pc # "idle" =>
            work[v].msg.tries \in Nat /\ work[v].msg.job \in EventIds /\ work[v].msg.job \in DOMAIN events
      /\ work[w].pc = "ack" => k \in processed
  <2>1. /\ \A i \in EventIds : sent[i] <= 1 /\ (sent[i] = 1 => i \in ledger /\ i \notin toSend)
        /\ \A m \in Waiting(queue) : sent[m.job] = 1
        /\ \A v \in Workers : /\ work[v].pc # "idle" => sent[work[v].msg.job] = 1
                              /\ work[v].pc = "ack" => work[v].msg.job \in processed
    BY <1>0, RunsIs DEF Base
  <2>2. \A i \in ledger : i \in DOMAIN events
    BY <1>0 DEF Base, RowsFit
  <2>3. sent \in [EventIds -> Nat]
    BY <1>0 DEF TypeOK
  <2>4. \A i \in EventIds : sent[i] > 0 => i \in DOMAIN events
    BY <2>1, <2>2, <2>3
  <2>5. \A m \in Waiting(queue) : m \in Messages /\ m.tries \in Nat /\ m.job \in EventIds
    BY <1>0, WaitingIs
  <2>6. \A v \in Workers : work[v].pc # "idle" => work[v].msg.tries \in Nat /\ work[v].msg.job \in EventIds
    BY <1>0 DEF Messages
  <2> QED
    BY <2>1, <2>4, <2>5, <2>6
<1>2. /\ \A m \in Waiting(queue) : m.tries <= faults \/ NameClash(m.job)
      /\ \A v \in Workers : work[v].pc # "idle" => work[v].msg.tries <= faults \/ NameClash(work[v].msg.job)
      /\ env.maxFaults <= MaxRetries => \A i \in EventIds : sent[i] > 0 => Held(i)
  BY RetriesIs
<1>3. \A i \in DOMAIN events : NameClash(i) => NameClash(i)'
  BY <1>0, ClashLasts
<1>4. /\ sent' = sent /\ \A v \in Workers \ {w} : work'[v] = work[v]
      /\ (\E m \in Waiting(queue) : Takes(w, m)) \/ Moves(w) \/ LetsGo(w) \/ Doubles(w)
  BY <1>0, WorkerSteps
<1> DEFINE Lasts ==
      /\ faults' \in Nat /\ faults <= faults' /\ processed \subseteq processed'
      /\ \A m \in Messages : m \in Waiting(queue') => m \in Waiting(queue) \/ Tried(m)
      /\ \A m \in Waiting(queue) :
            m \in Waiting(queue') \/ (work'[w].pc = "read" /\ work'[w].msg = m)
      /\ \A m \in Messages : work'[w].pc # "idle" /\ work'[w].msg = m => Tried(m)
      /\ env.maxFaults <= MaxRetries /\ work[w].pc \in {"read", "apply", "mark"} =>
            \A i \in EventIds : i = k => Held(i)'
<1>5. ASSUME Lasts PROVE RetriesLast'
  <2>1. \A m \in Messages : m \in Waiting(queue') => Tried(m)
    BY <1>0, <1>1, <1>2, <1>3, <1>5
  <2>2. ASSUME NEW v \in Workers, NEW m \in Messages, work'[v].pc # "idle", work'[v].msg = m
        PROVE  Tried(m)
    <3>1. CASE v = w
      BY <1>5, <2>2, <3>1
    <3>2. CASE v # w
      BY <1>0, <1>1, <1>2, <1>3, <1>4, <1>5, <2>2, <3>2
    <3> QED
      BY <3>1, <3>2
  <2>3. ASSUME env.maxFaults <= MaxRetries, NEW i \in EventIds, sent[i] > 0 PROVE Held(i)'
    <3>1. Held(i)
      BY <1>2, <2>3
    <3>2. CASE i \in processed
      BY <1>5, <3>2 DEF Held
    <3>3. CASE \E m \in Waiting(queue) : m.job = i
      <4>1. PICK m \in Waiting(queue) : m.job = i
        BY <3>3
      <4>2. CASE m \in Waiting(queue')
        BY <4>1, <4>2 DEF Held, Waiting
      <4>3. CASE work'[w].pc = "read" /\ work'[w].msg = m
        BY <4>1, <4>3 DEF Held
      <4> QED
        BY <1>5, <4>1, <4>2, <4>3
    <3>4. CASE \E v \in Workers : work[v].pc \in {"read", "apply", "mark"} /\ work[v].msg.job = i
      <4>1. PICK v \in Workers : work[v].pc \in {"read", "apply", "mark"} /\ work[v].msg.job = i
        BY <3>4
      <4>2. CASE v = w
        BY <1>5, <2>3, <4>1, <4>2
      <4>3. CASE v # w
        BY <1>4, <4>1, <4>3 DEF Held
      <4> QED
        BY <4>2, <4>3
    <3>5. CASE NameClash(i)
      BY <1>1, <1>3, <2>3, <3>5 DEF Held
    <3> QED
      BY <3>1, <3>2, <3>3, <3>4, <3>5 DEF Held
  <2>4. env'.maxFaults <= MaxRetries => \A i \in EventIds : sent'[i] > 0 => Held(i)'
    BY <1>0, <1>4, <2>3
  <2> QED
    BY <1>0, <2>1, <2>2, <2>4, RetriesNext
<1>6. /\ faults <= faults' /\ faults' \in Nat
      /\ \A m \in Waiting(queue) : Tried(m)
      /\ work[w].pc # "idle" => \A m \in Messages : m = work[w].msg => Tried(m)
  <2>1. faults' = faults \/ faults' = faults + 1
    <3>1. CASE \E m \in Waiting(queue) : Takes(w, m)
      BY <3>1 DEF Takes
    <3>2. CASE Moves(w)
      BY <3>2 DEF Moves
    <3>3. CASE LetsGo(w)
      BY <3>3 DEF LetsGo
    <3>4. CASE Doubles(w)
      BY <3>4 DEF Doubles
    <3> QED
      BY <1>4, <3>1, <3>2, <3>3, <3>4
  <2>2. faults <= faults' /\ faults' \in Nat
    BY <1>0, <2>1
  <2>3. ASSUME NEW m \in Waiting(queue) PROVE Tried(m)
    BY <1>0, <1>1, <1>2, <1>3, <2>2
  <2>4. ASSUME work[w].pc # "idle", NEW m \in Messages, m = work[w].msg PROVE Tried(m)
    <3>1. m.job \in DOMAIN events /\ m.tries \in Nat /\ (m.tries <= faults \/ NameClash(m.job))
      BY <1>1, <1>2, <2>4
    <3> QED
      BY <1>0, <1>3, <2>2, <3>1
  <2> QED
    BY <2>2, <2>3, <2>4
<1>7. ASSUME NEW m \in Waiting(queue), Takes(w, m) PROVE Lasts
  <2>1. /\ work[w].pc = "idle" /\ work'[w].pc = "read" /\ work'[w].msg = m /\ processed' = processed
        /\ queue' = Taken(queue, m)
    BY <1>7 DEF Takes, Busy
  <2>2. /\ \A n \in Waiting(queue') : n \in Waiting(queue)
        /\ \A n \in Waiting(queue) : n # m => n \in Waiting(queue')
    BY <1>0, <2>1, TakenIs
  <2> QED
    BY <1>6, <2>1, <2>2
<1>8. ASSUME Moves(w) PROVE Lasts
  <2>1. /\ work[w].pc # "idle" /\ work'[w].msg = work[w].msg /\ queue' = queue
        /\ \/ work[w].pc = "read" /\ processed' = processed /\ k \in processed
           \/ processed' = processed /\ work'[w].pc \in {"apply", "mark"}
           \/ processed' = processed \cup {k}
    BY <1>8 DEF Moves, Busy, EventOf
  <2>2. ASSUME NEW i \in EventIds, i = k PROVE Held(i)'
    BY <2>1, <2>2 DEF Held
  <2> QED
    BY <1>6, <2>1, <2>2
<1>9. ASSUME LetsGo(w) \/ Doubles(w) PROVE Lasts
  <2>1. /\ work[w].pc # "idle" /\ work[w].msg \in Messages /\ work[w].msg.tries \in Nat
        /\ k \in DOMAIN events /\ k \in EventIds /\ processed' = processed
        /\ work'[w].pc = "idle" \/ work'[w] = work[w]
    BY <1>0, <1>1, <1>9 DEF LetsGo, Doubles, Busy
  <2>2. \/ queue' = queue /\ work[w].pc = "ack"
        \/ queue' = Sent(queue, work[w].msg)
        \/ /\ queue' = Retried(queue, work[w].msg, MaxRetries)
           /\ NameClash(k) \/ (faults < env.maxFaults /\ faults' = faults + 1)
    <3>1. CASE work[w].pc = "apply" /\ Refused(Entry(EventOf(w)))
      <4>1. NameClash(k)
        BY <3>1, RefusedClashes DEF EventOf
      <4> QED
        BY <1>9, <4>1 DEF LetsGo, Doubles
    <3>2. CASE ~ (work[w].pc = "apply" /\ Refused(Entry(EventOf(w))))
      BY <1>9, <3>2 DEF LetsGo, Doubles
    <3> QED
      BY <3>1, <3>2
  <2>3. ASSUME NEW n \in Messages, n.job = k, queue' = Sent(queue, n), Tried(n) PROVE Lasts
    <3>1. /\ \A m \in Messages : m \in Waiting(queue') => m \in Waiting(queue) \/ m = n
          /\ \A m \in Waiting(queue) : m \in Waiting(queue')
          /\ n \in Waiting(queue')
      BY <1>0, <2>3, SentIs
    <3>2. ASSUME NEW i \in EventIds, i = k PROVE Held(i)'
      BY <2>3, <3>1, <3>2 DEF Held, Waiting
    <3>3. \A m \in Messages : m \in Waiting(queue') => m \in Waiting(queue) \/ Tried(m)
      BY <2>3, <3>1
    <3>4. \A m \in Messages : work'[w].pc # "idle" /\ work'[w].msg = m => Tried(m)
      BY <1>6, <2>1
    <3> QED
      BY <1>6, <2>1, <3>1, <3>2, <3>3, <3>4
  <2>4. CASE queue' = Sent(queue, work[w].msg)
    <3>1. PICK n \in Messages : n = work[w].msg
      BY <2>1
    <3>2. Tried(n)
      BY <1>6, <2>1, <3>1
    <3> QED
      BY <2>3, <2>4, <3>1, <3>2
  <2>5. ASSUME queue' = queue,
               env.maxFaults <= MaxRetries /\ work[w].pc \in {"read", "apply", "mark"} => NameClash(k)
        PROVE  Lasts
    <3>1. ASSUME NEW i \in EventIds, i = k, NameClash(k) PROVE Held(i)'
      <4>1. NameClash(i)'
        BY <1>3, <2>1, <3>1
      <4> QED
        BY <4>1 DEF Held
    <3>2. \A m \in Messages : work'[w].pc # "idle" /\ work'[w].msg = m => Tried(m)
      BY <1>6, <2>1
    <3> QED
      BY <1>6, <2>1, <2>5, <3>1, <3>2
  <2>6. CASE /\ queue' = Retried(queue, work[w].msg, MaxRetries)
             /\ NameClash(k) \/ (faults < env.maxFaults /\ faults' = faults + 1)
    <3>1. work[w].msg.tries <= faults \/ NameClash(k)
      BY <1>2, <2>1
    <3>2. CASE work[w].msg.tries < MaxRetries
      <4>1. PICK n \in Messages : /\ n.job = k /\ n.tries = work[w].msg.tries + 1
                                  /\ queue' = Sent(queue, n)
        BY <1>0, <2>1, <2>6, <3>2, RetriedIs
      <4>2. NameClash(n.job) => NameClash(n.job)'
        BY <1>3, <2>1, <4>1
      <4>3. n.tries <= faults' \/ NameClash(n.job)
        <5>1. NameClash(k) => NameClash(n.job)
          BY <4>1
        <5>2. ~ NameClash(k) => n.tries <= faults'
          BY <1>0, <2>1, <2>6, <3>1, <4>1
        <5> QED
          BY <5>1, <5>2
      <4> QED
        BY <2>3, <4>1, <4>2, <4>3
    <3>3. CASE ~ (work[w].msg.tries < MaxRetries)
      <4>1. queue' = queue
        BY <1>0, <2>1, <2>6, <3>3, RetriedIs
      <4>2. env.maxFaults <= MaxRetries => NameClash(k)
        BY <1>0, <2>1, <2>6, <3>1, <3>3
      <4> QED
        BY <2>5, <4>1, <4>2
    <3> QED
      BY <3>2, <3>3
  <2>7. CASE queue' = queue /\ work[w].pc = "ack"
    BY <2>5, <2>7
  <2> HIDE DEF Lasts
  <2> QED
    BY <2>2, <2>4, <2>6, <2>7
<1> QED
  <2> HIDE DEF Lasts
  <2> QED
    BY <1>4, <1>5, <1>7, <1>8, <1>9

LEMMA RetriesStep ==
    ASSUME Named, RetriesLast, TypeOK', [Next]_vars
    PROVE  RetriesLast'
<1>0. /\ Base /\ TypeOK /\ queue \in [Messages -> Nat] /\ queue' \in [Messages -> Nat]
      /\ faults \in Nat /\ env' = env /\ sent \in [EventIds -> Nat]
      /\ \A v \in Workers : work[v].pc # "idle" => work[v].msg \in Messages
  BY EventsLast DEF Named, Base, TypeOK
<1>1. /\ \A i \in EventIds : sent[i] > 0 => i \in DOMAIN events
      /\ \A m \in Waiting(queue) : m.tries \in Nat /\ m.job \in DOMAIN events
      /\ \A v \in Workers : work[v].pc # "idle" => work[v].msg.tries \in Nat /\ work[v].msg.job \in DOMAIN events
  <2>1. /\ \A i \in EventIds : sent[i] <= 1 /\ (sent[i] = 1 => i \in ledger /\ i \notin toSend)
        /\ \A m \in Waiting(queue) : sent[m.job] = 1
        /\ \A v \in Workers : work[v].pc # "idle" => sent[work[v].msg.job] = 1
    BY <1>0, RunsIs DEF Base
  <2>2. \A i \in ledger : i \in DOMAIN events
    BY <1>0 DEF Base, RowsFit
  <2>3. \A i \in EventIds : sent[i] > 0 => i \in DOMAIN events
    BY <1>0, <2>1, <2>2
  <2>4. \A m \in Waiting(queue) : m.tries \in Nat /\ m.job \in EventIds
    BY <1>0, WaitingIs
  <2>5. \A v \in Workers : work[v].pc # "idle" => work[v].msg.tries \in Nat /\ work[v].msg.job \in EventIds
    BY <1>0 DEF Messages
  <2> QED
    BY <2>1, <2>3, <2>4, <2>5
<1>2. /\ \A m \in Waiting(queue) : m.tries <= faults \/ NameClash(m.job)
      /\ \A v \in Workers : work[v].pc # "idle" => work[v].msg.tries <= faults \/ NameClash(work[v].msg.job)
      /\ env.maxFaults <= MaxRetries => \A i \in EventIds : sent[i] > 0 => Held(i)
  BY RetriesIs
<1>3. \A i \in DOMAIN events : NameClash(i) => NameClash(i)'
  BY <1>0, ClashLasts
\* Nothing but messages and delays come in.
<1>4. ASSUME work' = work, processed' = processed, faults' \in Nat, faults <= faults',
             \/ queue' = queue /\ sent' = sent
             \/ \E i \in EventIds : queue' = Sent(queue, Message(i, 0)) /\ sent' = [sent EXCEPT ![i] = @ + 1]
      PROVE  RetriesLast'
  <2>1. /\ \A m \in Waiting(queue) : m \in Waiting(queue')
        /\ \A m \in Messages : m \in Waiting(queue') => m \in Waiting(queue) \/ m.tries = 0
        /\ \A i \in EventIds : sent'[i] > 0 => sent[i] > 0 \/ \E m \in Waiting(queue') : m.job = i
    <3>1. CASE queue' = queue /\ sent' = sent
      BY <3>1
    <3>2. CASE \E i \in EventIds : queue' = Sent(queue, Message(i, 0)) /\ sent' = [sent EXCEPT ![i] = @ + 1]
      <4>1. PICK i \in EventIds : queue' = Sent(queue, Message(i, 0)) /\ sent' = [sent EXCEPT ![i] = @ + 1]
        BY <3>2
      <4>2. Message(i, 0) \in Messages /\ Message(i, 0).job = i /\ Message(i, 0).tries = 0
        BY FirstTry
      <4>3. \A n : n \in Waiting(queue') <=> n \in Waiting(queue) \/ n = Message(i, 0)
        BY <1>0, <4>1, <4>2, SentIs
      <4>4. \A j \in EventIds \ {i} : sent'[j] = sent[j]
        BY <1>0, <4>1
      <4> QED
        BY <4>2, <4>3, <4>4
    <3> QED
      BY <1>4, <3>1, <3>2
  <2>2. ASSUME NEW m \in Messages, m \in Waiting(queue') PROVE m.tries <= faults' \/ NameClash(m.job)'
    BY <1>0, <1>1, <1>2, <1>3, <1>4, <2>1, <2>2
  <2>3. ASSUME NEW w \in Workers, NEW m \in Messages, work'[w].pc # "idle", work'[w].msg = m
        PROVE  m.tries <= faults' \/ NameClash(m.job)'
    <3>1. m.tries \in Nat /\ m.job \in DOMAIN events /\ (m.tries <= faults \/ NameClash(m.job))
      BY <1>1, <1>2, <1>4, <2>3
    <3> QED
      BY <1>0, <1>3, <1>4, <3>1
  <2>4. ASSUME env.maxFaults <= MaxRetries, NEW i \in EventIds, sent'[i] > 0 PROVE Held(i)'
    <3>1. CASE \E m \in Waiting(queue') : m.job = i
      BY <3>1 DEF Held, Waiting
    <3>2. CASE sent[i] > 0
      <4>1. Held(i)
        BY <1>2, <2>4, <3>2
      <4>2. NameClash(i) => NameClash(i)'
        BY <1>1, <1>3, <3>2
      <4>3. CASE \E m \in Waiting(queue) : m.job = i
        BY <2>1, <3>1, <4>3
      <4>4. CASE i \in processed
        BY <1>4, <4>4 DEF Held
      <4>5. CASE \E v \in Workers : work[v].pc \in {"read", "apply", "mark"} /\ work[v].msg.job = i
        BY <1>4, <4>5 DEF Held
      <4>6. CASE NameClash(i)
        BY <4>2, <4>6 DEF Held
      <4> QED
        BY <4>1, <4>3, <4>4, <4>5, <4>6 DEF Held
    <3> QED
      BY <2>1, <2>4, <3>1, <3>2
  <2>5. /\ \A w \in Workers : work'[w].pc # "idle" => work'[w].msg \in Messages
        /\ env'.maxFaults <= MaxRetries => \A i \in EventIds : sent'[i] > 0 => Held(i)'
    BY <1>0, <1>4, <2>4
  <2> QED
    BY <1>0, <2>2, <2>3, <2>5, RetriesNext
<1>5. CASE UNCHANGED vars
  BY <1>0, <1>4, <1>5 DEF vars
<1>6. CASE Administer
  <2>1. PICK raw \in Raws, about \in Abouts : Reported(raw, about)
    BY <1>0, <1>6, AdministerReports
  <2>2. UNCHANGED <<broker, task, faults>>
    BY <1>0, <2>1, ReportedIs
  <2> QED
    BY <1>0, <1>4, <2>2 DEF broker, task
<1>7. ASSUME NEW i \in EventIds,
             PostLost(i) \/ PostDuplicated(i) \/ Deliver(i) \/ Delay(i) \/ WebCrash(i)
      PROVE  RetriesLast'
  <2>1. /\ UNCHANGED task /\ faults <= faults'
        /\ \/ UNCHANGED broker
           \/ queue' = Sent(queue, Message(i, 0)) /\ sent' = [sent EXCEPT ![i] = @ + 1]
    BY <1>0, <1>7, WebhookSteps
  <2>2. faults' \in Nat
    BY DEF TypeOK
  <2> QED
    BY <1>4, <2>1, <2>2 DEF broker, task
<1>8. CASE Visits
  BY <1>0, <1>4, <1>8, VisitsFrame DEF broker, task
<1> QED
  BY <1>0, <1>5, <1>6, <1>7, <1>8, Steps, RetriesStepWorker

LEMMA InitRetries ==
    ASSUME Init
    PROVE  RetriesLast
<1>1. /\ \A i \in EventIds : sent[i] = 0
      /\ \A w \in Workers : work[w].pc = "idle"
  BY DEF Init, Idle
<1>2. Waiting(queue) = {}
  BY DEF Init, NoMessages, Waiting
<1> QED
  BY <1>1, <1>2 DEF RetriesLast, NeverStranded, Busy

-----------------------------------------------------------------------------
(* No event is applied twice.                                               *)

Orderly == env.faults \subseteq {"duplicate", "ack lost"}

LEMMA OneRunIs ==
    ASSUME OneRun, Orderly
    PROVE  /\ \A m \in Waiting(queue) : queue[m] = 1 /\ (applied[m.job] = 0 \/ m.job \in processed)
           /\ \A m, n \in Waiting(queue) : n.job = m.job => n = m
           /\ \A m \in Waiting(queue), w \in Workers : work[w].pc # "idle" => work[w].msg.job # m.job
           /\ \A w, v \in Workers : work[w].pc # "idle" /\ work[v].pc # "idle" /\ v # w =>
                    work[v].msg.job # work[w].msg.job
           /\ \A w \in Workers :
                /\ work[w].pc = "read" => applied[work[w].msg.job] = 0 \/ work[w].msg.job \in processed
                /\ work[w].pc = "apply" => applied[work[w].msg.job] = 0
           /\ \A i \in EventIds : applied[i] <= 1
BY DEF OneRun, Orderly, Busy, EventOf, AppliedAtMostOnce

LEMMA OneRunNext ==
    ASSUME env' = env,
           Orderly =>
               /\ \A m \in Waiting(queue') : queue'[m] = 1 /\ (applied'[m.job] = 0 \/ m.job \in processed')
               /\ \A m, n \in Waiting(queue') : n.job = m.job => n = m
               /\ \A m \in Waiting(queue'), w \in Workers : work'[w].pc # "idle" => work'[w].msg.job # m.job
               /\ \A w, v \in Workers : work'[w].pc # "idle" /\ work'[v].pc # "idle" /\ v # w =>
                        work'[v].msg.job # work'[w].msg.job
               /\ \A w \in Workers :
                    /\ work'[w].pc = "read" => applied'[work'[w].msg.job] = 0 \/ work'[w].msg.job \in processed'
                    /\ work'[w].pc = "apply" => applied'[work'[w].msg.job] = 0
               /\ \A i \in EventIds : applied'[i] <= 1
    PROVE  OneRun'
BY DEF OneRun, Orderly, Busy, EventOf, AppliedAtMostOnce, Waiting

LEMMA OneRunStepWorker ==
    ASSUME Base, OneRun, [Next]_vars, NEW w \in Workers,
           Run(w) \/ WorkerCrash(w) \/ Redeliver(w) \/ TaskError(w)
    PROVE  OneRun'
<1> DEFINE k == work[w].msg.job
<1>0. /\ TypeOK /\ queue \in [Messages -> Nat] /\ applied \in [EventIds -> Nat] /\ env' = env
      /\ \A v \in Workers : work[v].pc # "idle" => work[v].msg \in Messages /\ work[v].msg.job \in EventIds
  BY EventsLast DEF Base, TypeOK, Messages
<1>1. work[w].pc = "ack" => k \in processed
  BY RunsIs DEF Base
<1>2. CASE Orderly
  <2>1. /\ \A m \in Waiting(queue) : queue[m] = 1 /\ (applied[m.job] = 0 \/ m.job \in processed)
        /\ \A m, n \in Waiting(queue) : n.job = m.job => n = m
        /\ \A m \in Waiting(queue), v \in Workers : work[v].pc # "idle" => work[v].msg.job # m.job
        /\ \A u, v \in Workers : work[u].pc # "idle" /\ work[v].pc # "idle" /\ v # u =>
                work[v].msg.job # work[u].msg.job
        /\ \A v \in Workers :
             /\ work[v].pc = "read" => applied[work[v].msg.job] = 0 \/ work[v].msg.job \in processed
             /\ work[v].pc = "apply" => applied[work[v].msg.job] = 0
        /\ \A i \in EventIds : applied[i] <= 1
    BY <1>2, OneRunIs
  <2>2. /\ \A v \in Workers \ {w} : work'[v] = work[v]
        /\ (\E m \in Waiting(queue) : Takes(w, m)) \/ Moves(w) \/ LetsGo(w) \/ Doubles(w)
    BY <1>0, WorkerSteps
  <2>3. ASSUME NEW m \in Waiting(queue), Takes(w, m) PROVE OneRun'
    <3>1. /\ work[w].pc = "idle" /\ work'[w].pc = "read" /\ work'[w].msg = m
          /\ processed' = processed /\ applied' = applied /\ queue' = Taken(queue, m)
      BY <2>3 DEF Takes, Busy
    <3>2. /\ queue'[m] = 0 /\ \A n \in Messages \ {m} : queue'[n] = queue[n]
          /\ queue' \in [Messages -> Nat]
      BY <1>0, <2>1, <3>1, TakenIs
    <3>3. \A n \in Waiting(queue') : n \in Messages /\ n # m /\ n \in Waiting(queue) /\ queue'[n] = queue[n]
      BY <1>0, <3>1, <3>2, TakenIs DEF Waiting
    <3>4. /\ \A n \in Waiting(queue') : queue'[n] = 1 /\ (applied'[n.job] = 0 \/ n.job \in processed')
          /\ \A a, b \in Waiting(queue') : a.job = b.job => a = b
      BY <2>1, <3>1, <3>3
    <3>5. ASSUME NEW n \in Waiting(queue'), NEW v \in Workers, work'[v].pc # "idle"
          PROVE  work'[v].msg.job # n.job
      <4>1. CASE v = w
        BY <2>1, <3>1, <3>3, <4>1
      <4>2. CASE v # w
        BY <2>1, <2>2, <3>3, <3>5, <4>2
      <4> QED
        BY <4>1, <4>2
    <3>6. ASSUME NEW u \in Workers, NEW v \in Workers, work'[u].pc # "idle", work'[v].pc # "idle", u # v
          PROVE  work'[u].msg.job # work'[v].msg.job
      BY <2>1, <2>2, <3>1, <3>6
    <3>7. /\ \A v \in Workers :
               /\ work'[v].pc = "read" => applied'[work'[v].msg.job] = 0 \/ work'[v].msg.job \in processed'
               /\ work'[v].pc = "apply" => applied'[work'[v].msg.job] = 0
          /\ \A i \in EventIds : applied'[i] <= 1
      BY <2>1, <2>2, <3>1
    <3> QED
      BY <1>0, <3>4, <3>5, <3>6, <3>7, OneRunNext
  <2>4. CASE Moves(w)
    <3>1. /\ queue' = queue /\ work[w].pc # "idle" /\ work'[w].msg = work[w].msg /\ k \in EventIds
          /\ \/ /\ work[w].pc = "read" /\ work'[w].pc \in {"ack", "apply"}
                /\ work'[w].pc = "apply" => k \notin processed
                /\ applied' = applied /\ processed' = processed
             \/ /\ work[w].pc = "apply" /\ work'[w].pc = "mark" /\ processed' = processed
                /\ applied' = [applied EXCEPT ![k] = @ + 1]
             \/ /\ work'[w].pc = "ack" /\ applied' = applied /\ processed' = processed \cup {k}
      BY <1>0, <2>4 DEF Moves, Busy, EventOf
    <3>2. /\ \A i \in EventIds \ {k} : applied'[i] = applied[i]
          /\ applied'[k] = applied[k] \/ (work[w].pc = "apply" /\ applied'[k] = applied[k] + 1)
          /\ processed \subseteq processed'
      BY <1>0, <3>1
    <3>3. \A m \in Waiting(queue') : /\ m \in Waiting(queue) /\ m.job \in EventIds /\ m.job # k
                                     /\ queue'[m] = queue[m]
      BY <1>0, <2>1, <3>1, WaitingIs
    <3>4. /\ \A n \in Waiting(queue') : queue'[n] = 1 /\ (applied'[n.job] = 0 \/ n.job \in processed')
          /\ \A a, b \in Waiting(queue') : a.job = b.job => a = b
      BY <2>1, <3>2, <3>3
    <3>5. \A v \in Workers : work'[v].msg = work[v].msg /\ (work'[v].pc # "idle" => work[v].pc # "idle")
      BY <2>2, <3>1
    <3>6. ASSUME NEW n \in Waiting(queue'), NEW v \in Workers, work'[v].pc # "idle"
          PROVE  work'[v].msg.job # n.job
      BY <2>1, <3>3, <3>5, <3>6
    <3>7. ASSUME NEW u \in Workers, NEW v \in Workers, work'[u].pc # "idle", work'[v].pc # "idle", u # v
          PROVE  work'[u].msg.job # work'[v].msg.job
      BY <2>1, <3>5, <3>7
    <3>8. ASSUME NEW v \in Workers
          PROVE  /\ work'[v].pc = "read" => applied'[work'[v].msg.job] = 0 \/ work'[v].msg.job \in processed'
                 /\ work'[v].pc = "apply" => applied'[work'[v].msg.job] = 0
      <4>1. CASE v = w
        BY <2>1, <3>1, <4>1
      <4>2. CASE v # w
        <5>1. work'[v] = work[v] /\ (work[v].pc # "idle" => work[v].msg.job \in EventIds \ {k})
          BY <1>0, <2>1, <2>2, <3>1, <4>2
        <5> QED
          BY <2>1, <3>2, <5>1
      <4> QED
        BY <4>1, <4>2
    <3>9. \A i \in EventIds : applied'[i] <= 1
      BY <1>0, <2>1, <3>1, <3>2
    <3> QED
      BY <1>0, <3>4, <3>6, <3>7, <3>8, <3>9, OneRunNext
  <2>5. CASE LetsGo(w) \/ Doubles(w)
    <3>1. /\ work[w].pc # "idle" /\ work'[w].pc = "idle" /\ applied' = applied /\ processed' = processed
          /\ \/ queue' = queue
             \/ work[w].pc = "apply" /\ queue' = Retried(queue, work[w].msg, MaxRetries)
             \/ work[w].pc = "ack" /\ queue' = Sent(queue, work[w].msg)
      BY <1>2, <2>5 DEF LetsGo, Doubles, Busy, Orderly
    <3>2. \/ queue' = queue
          \/ \E n \in Messages : /\ n.job = k /\ queue' = Sent(queue, n)
                                 /\ applied[k] = 0 \/ k \in processed
      <4>1. CASE work[w].pc = "apply" /\ queue' = Retried(queue, work[w].msg, MaxRetries)
        BY <1>0, <2>1, <4>1, RetriedIs
      <4>2. CASE work[w].pc = "ack" /\ queue' = Sent(queue, work[w].msg)
        BY <1>0, <1>1, <4>2
      <4> QED
        BY <3>1, <4>1, <4>2
    <3>3. \A v \in Workers : work'[v].pc # "idle" => v # w /\ work'[v] = work[v]
      BY <2>2, <3>1
    <3>4. /\ \A u, v \in Workers : work'[u].pc # "idle" /\ work'[v].pc # "idle" /\ v # u =>
                work'[v].msg.job # work'[u].msg.job
          /\ \A v \in Workers :
               /\ work'[v].pc = "read" => applied'[work'[v].msg.job] = 0 \/ work'[v].msg.job \in processed'
               /\ work'[v].pc = "apply" => applied'[work'[v].msg.job] = 0
          /\ \A i \in EventIds : applied'[i] <= 1
      BY <2>1, <3>1, <3>3
    <3>5. CASE queue' = queue
      <4>1. /\ \A m \in Waiting(queue') : queue'[m] = 1 /\ (applied'[m.job] = 0 \/ m.job \in processed')
            /\ \A a, b \in Waiting(queue') : a.job = b.job => a = b
            /\ \A m \in Waiting(queue'), v \in Workers : work'[v].pc # "idle" => work'[v].msg.job # m.job
        BY <2>1, <3>1, <3>3, <3>5
      <4> QED
        BY <1>0, <3>4, <4>1, OneRunNext
    <3>6. CASE \E n \in Messages : /\ n.job = k /\ queue' = Sent(queue, n)
                                   /\ applied[k] = 0 \/ k \in processed
      <4>1. PICK n \in Messages : /\ n.job = k /\ queue' = Sent(queue, n)
                                  /\ applied[k] = 0 \/ k \in processed
        BY <3>6
      <4>2. \A m \in Waiting(queue) : m.job # k /\ m # n /\ m \in Messages
        BY <1>0, <2>1, <3>1, <4>1, WaitingIs
      <4>3. queue[n] = 0
        <5>1. n \notin Waiting(queue)
          BY <4>2
        <5> QED
          BY <1>0, <5>1 DEF Waiting
      <4>4. /\ queue'[n] = 1 /\ \A m \in Messages \ {n} : queue'[m] = queue[m]
            /\ \A m : m \in Waiting(queue') <=> m \in Waiting(queue) \/ m = n
        BY <1>0, <4>1, <4>3, SentIs
      <4>5. /\ \A m \in Waiting(queue') : queue'[m] = 1 /\ (applied'[m.job] = 0 \/ m.job \in processed')
            /\ \A a, b \in Waiting(queue') : a.job = b.job => a = b
        BY <2>1, <3>1, <4>1, <4>2, <4>4
      <4>6. ASSUME NEW m \in Waiting(queue'), NEW v \in Workers, work'[v].pc # "idle"
            PROVE  work'[v].msg.job # m.job
        <5>1. v # w /\ work'[v] = work[v]
          BY <3>3, <4>6
        <5>2. CASE m = n
          BY <2>1, <3>1, <4>1, <4>6, <5>1, <5>2
        <5>3. CASE m \in Waiting(queue)
          BY <2>1, <4>6, <5>1, <5>3
        <5> QED
          BY <4>4, <5>2, <5>3
      <4> QED
        BY <1>0, <3>4, <4>5, <4>6, OneRunNext
    <3> QED
      BY <3>2, <3>5, <3>6
  <2> QED
    BY <2>2, <2>3, <2>4, <2>5
<1>3. CASE ~ Orderly
  BY <1>0, <1>3, OneRunNext
<1> QED
  BY <1>2, <1>3

LEMMA OneRunStep ==
    ASSUME Base, OneRun, [Next]_vars
    PROVE  OneRun'
<1>0. /\ TypeOK /\ queue \in [Messages -> Nat] /\ env' = env
      /\ \A v \in Workers : work[v].pc # "idle" => work[v].msg.job \in EventIds
  BY EventsLast DEF Base, TypeOK, Messages
<1>1. ASSUME UNCHANGED <<queue, task>> PROVE OneRun'
  BY <1>0, <1>1, OneRunIs, OneRunNext DEF task
<1>2. ASSUME NEW i \in EventIds, UNCHANGED task, i \in toSend, queue' = Sent(queue, Message(i, 0))
      PROVE  OneRun'
  <2> DEFINE n == Message(i, 0)
  <2>1. /\ \A j \in EventIds : sent[j] = 1 => j \in ledger /\ j \notin toSend
        /\ \A m \in Waiting(queue) : sent[m.job] = 1
        /\ \A v \in Workers : work[v].pc # "idle" => sent[work[v].msg.job] = 1
        /\ \A j \in EventIds : applied[j] > 0 => sent[j] = 1
    BY RunsIs DEF Base
  <2>2. n \in Messages /\ n.job = i
    BY FirstTry
  <2>3. sent[i] # 1 /\ applied \in [EventIds -> Nat]
    BY <1>0, <1>2, <2>1 DEF TypeOK
  <2>4. /\ applied[i] = 0 /\ \A v \in Workers : work[v].pc # "idle" => work[v].msg.job # i
        /\ \A m \in Waiting(queue) : m \in Messages /\ m.job # i /\ m # n
    BY <1>0, <2>1, <2>2, <2>3, WaitingIs
  <2>5. queue[n] = 0
    <3>1. n \notin Waiting(queue)
      BY <2>4
    <3> QED
      BY <1>0, <2>2, <3>1 DEF Waiting
  <2> HIDE DEF n
  <2>6. /\ queue'[n] = 1 /\ \A m \in Messages \ {n} : queue'[m] = queue[m]
        /\ \A m : m \in Waiting(queue') <=> m \in Waiting(queue) \/ m = n
    BY <1>0, <1>2, <2>2, <2>5, SentIs DEF n
  <2>7. CASE Orderly
    <3>1. /\ \A m \in Waiting(queue) : queue[m] = 1 /\ (applied[m.job] = 0 \/ m.job \in processed)
          /\ \A m, b \in Waiting(queue) : b.job = m.job => b = m
          /\ \A m \in Waiting(queue), v \in Workers : work[v].pc # "idle" => work[v].msg.job # m.job
          /\ \A u, v \in Workers : work[u].pc # "idle" /\ work[v].pc # "idle" /\ v # u =>
                  work[v].msg.job # work[u].msg.job
          /\ \A v \in Workers :
               /\ work[v].pc = "read" => applied[work[v].msg.job] = 0 \/ work[v].msg.job \in processed
               /\ work[v].pc = "apply" => applied[work[v].msg.job] = 0
          /\ \A j \in EventIds : applied[j] <= 1
      BY <2>7, OneRunIs
    <3>2. work' = work /\ applied' = applied /\ processed' = processed
      BY <1>2 DEF task
    <3>3. /\ \A m \in Waiting(queue') : queue'[m] = 1 /\ (applied[m.job] = 0 \/ m.job \in processed)
          /\ \A a, b \in Waiting(queue') : a.job = b.job => a = b
          /\ \A m \in Waiting(queue'), v \in Workers : work[v].pc # "idle" => work[v].msg.job # m.job
      BY <2>2, <2>4, <2>6, <3>1
    <3> QED
      BY <1>0, <3>1, <3>2, <3>3, OneRunNext
  <2>8. CASE ~ Orderly
    BY <1>0, <2>8, OneRunNext
  <2> QED
    BY <2>7, <2>8
<1>3. CASE UNCHANGED vars
  BY <1>1, <1>3 DEF vars, task
<1>4. CASE Administer
  <2>1. PICK raw \in Raws, about \in Abouts : Reported(raw, about)
    BY <1>0, <1>4, AdministerReports
  <2>2. UNCHANGED <<broker, task>>
    BY <1>0, <2>1, ReportedIs
  <2> QED
    BY <1>1, <2>2 DEF broker
<1>5. ASSUME NEW i \in EventIds,
             PostLost(i) \/ PostDuplicated(i) \/ Deliver(i) \/ Delay(i) \/ WebCrash(i)
      PROVE  OneRun'
  <2>1. UNCHANGED task /\ (queue' = queue \/ (i \in toSend /\ queue' = Sent(queue, Message(i, 0))))
    BY <1>0, <1>5, WebhookSteps DEF broker
  <2> QED
    BY <1>1, <1>2, <2>1
<1>6. CASE Visits
  BY <1>1, <1>6, VisitsFrame DEF broker
<1> QED
  BY <1>0, <1>3, <1>4, <1>5, <1>6, Steps, OneRunStepWorker

LEMMA InitOneRun ==
    ASSUME Init
    PROVE  OneRun
<1>1. (\A i \in EventIds : applied[i] = 0) /\ (\A w \in Workers : work[w].pc = "idle")
  BY DEF Init, Idle
<1>2. Waiting(queue) = {}
  BY DEF Init, NoMessages, Waiting
<1>3. AppliedAtMostOnce
  <2>1. ASSUME NEW i \in EventIds PROVE applied[i] <= 1
    <3>1. applied[i] = 0
      BY <1>1
    <3> QED
      BY <3>1
  <2> QED
    BY <2>1 DEF AppliedAtMostOnce
<1>4. \A w \in Workers : ~ Busy(w)
  BY <1>1 DEF Busy
<1> QED
  BY <1>2, <1>3, <1>4 DEF OneRun

\* What holds of the events, runs, usernames and retries in every environment.
THEOREM PipelineInvariant == Spec => []PipelineInv
<1>1. Init => PipelineInv
  BY InitBase, InitNames, InitRetries, InitOneRun DEF Base, PipelineInv
<1>2. ASSUME PipelineInv, [Next]_vars PROVE PipelineInv'
  <2>1. Base /\ Named /\ RetriesLast /\ OneRun
    BY <1>2 DEF PipelineInv, Base, Named
  <2>2. TypeOK' /\ RowsFit' /\ RunsFollow'
    BY <1>2, <2>1, TypesStep, RowsStep, RunsStep
  <2>3. NamesKept' /\ RetriesLast' /\ OneRun'
    BY <1>2, <2>1, <2>2, NamesStep, RetriesStep, OneRunStep
  <2> QED
    BY <2>2, <2>3 DEF PipelineInv
<1> QED
  BY <1>1, <1>2, PTL DEF Spec

\* An event that was enqueued and is not processed is in the broker or with a
\* worker, as long as the retries last and nobody else ever had its username
\* (base.py: CELERY_TASK_ACKS_LATE, CELERY_TASK_REJECT_ON_WORKER_LOST).
THEOREM NothingStranded == Spec => []NeverStranded
<1>1. PipelineInv => NeverStranded
  BY DEF PipelineInv, RetriesLast
<1> QED
  BY <1>1, PipelineInvariant, PTL

\* If posts are repeated and acknowledgements lost, but no run is, an event is
\* applied at most once (tasks.py:37-39).
THEOREM AppliedOnce == Spec => []AppliedAtMostOnce
<1>1. PipelineInv => AppliedAtMostOnce
  <2> SUFFICES ASSUME PipelineInv, Orderly PROVE \A i \in EventIds : applied[i] <= 1
    BY DEF AppliedAtMostOnce, Orderly
  <2> QED
    BY OneRunIs DEF PipelineInv
<1> QED
  BY <1>1, PipelineInvariant, PTL

-----------------------------------------------------------------------------
(* What the projection becomes.                                             *)

\* What the webhook reads from an event below users/{id}, if it is for replication.
LEMMA UserEventIs ==
    ASSUME NEW raw \in Raws, NEW u \in Users, raw.type = "USER", Len(raw.path) >= 2,
           raw.path[1] = "users", raw.path[2] = u, raw.rep.id \in {u, None},
           raw.op \in {"CREATE", "UPDATE", "DELETE"}
    PROVE  /\ LedgerEntry(raw).kind = "user" /\ LedgerEntry(raw).op = raw.op
           /\ LedgerEntry(raw).sub = u /\ LedgerEntry(raw) # Ignored
           /\ LedgerEntry(raw).username = raw.rep.username
           /\ LedgerEntry(raw).enabled = raw.rep.enabled
<1>1. raw.path \in Seq(Segments)
  BY DEF Raws
<1>2. After(raw.path, "users") = u
  BY <1>1, AfterFirst
<1>3. SubOf(raw) = u /\ u # None
  BY <1>2, NoneAssumption DEF SubOf, Either
<1>4. LedgerEntry(raw) = UserEntry(raw)
  BY DEF LedgerEntry
<1> DEFINE e == [Ignored EXCEPT !.kind = "user", !.op = raw.op, !.sub = u,
                      !.username = raw.rep.username, !.enabled = raw.rep.enabled]
<1>5. LedgerEntry(raw) = e
  BY <1>3, <1>4 DEF UserEntry
<1>6. /\ e.kind = "user" /\ e.op = raw.op /\ e.sub = u /\ Ignored.kind = "none"
      /\ e.username = raw.rep.username /\ e.enabled = raw.rep.enabled
  BY DEF Ignored
<1> HIDE DEF e
<1> QED
  BY <1>5, <1>6

LEMMA MembershipEventIs ==
    ASSUME NEW raw \in Raws, NEW u \in Users, NEW g \in Groups, raw.type = "GROUP_MEMBERSHIP",
           raw.path = <<"users", u, "groups", g>>, raw.op \in {"CREATE", "DELETE"}
    PROVE  /\ LedgerEntry(raw).kind = "group_membership" /\ LedgerEntry(raw).op = raw.op
           /\ LedgerEntry(raw).sub = u /\ LedgerEntry(raw).group = g
<1> DEFINE path == <<"users", u, "groups", g>>
<1>1. path \in Seq(Segments) /\ Len(path) >= 2 /\ path[1] = "users" /\ path[2] = u
  BY PathsTyped
<1>2. After(path, "groups") = g
  BY AfterThird
<1> HIDE DEF path
<1>3. After(path, "users") = u
  BY <1>1, AfterFirst
<1>4. raw.path = path /\ u # None /\ g # None
  BY NoneAssumption DEF path
<1>5. LedgerEntry(raw) = MembershipEntry(raw)
  BY DEF LedgerEntry
<1> DEFINE e == [Ignored EXCEPT !.kind = "group_membership", !.op = raw.op, !.sub = u,
                      !.group = g, !.path = raw.rep.path]
<1>6. LedgerEntry(raw) = e
  BY <1>2, <1>3, <1>4, <1>5 DEF MembershipEntry
<1>7. e.kind = "group_membership" /\ e.op = raw.op /\ e.sub = u /\ e.group = g
  BY DEF Ignored
<1> HIDE DEF e
<1> QED
  BY <1>6, <1>7

LEMMA UpsertedIs ==
    ASSUME NEW row, NEW e
    PROVE  /\ Upserted(row, e).status = CASE e.enabled = "yes" -> "active"
                                          [] e.enabled = "no"  -> "inactive"
                                          [] OTHER -> IF row.status = "none" THEN "active" ELSE row.status
           /\ Upserted(row, e).name = Either(e.username, Either(row.name, e.sub))
           /\ Upserted(row, e) = Person(Upserted(row, e).status, Upserted(row, e).name)
BY DEF Upserted, Person

LEMMA DeactivatedIs ==
    ASSUME NEW row \in LocalUsers
    PROVE  /\ Deactivated(row).status = IF row.status = "active" THEN "inactive" ELSE row.status
           /\ Deactivated(row).name = row.name
BY DEF Deactivated, LocalUsers

\* An event that is applied again changes nothing.
LEMMA AppliedAgain ==
    ASSUME NEW about, NEW e, Fits(e, about), NEW row \in LocalUsers, NEW held, e.sub \in Users
    PROVE  /\ RowAfter(e, RowAfter(e, row)) = RowAfter(e, row)
           /\ MembersAfter(e, MembersAfter(e, held)) = MembersAfter(e, held)
<1>1. Upserted(Upserted(row, e), e) = Upserted(row, e)
  <2> DEFINE once  == Upserted(row, e)
             twice == Upserted(once, e)
  <2>0. once = Person(once.status, once.name) /\ twice = Person(twice.status, twice.name)
    BY UpsertedIs
  <2>1. /\ once.name = Either(e.username, Either(row.name, e.sub))
        /\ twice.name = Either(e.username, Either(once.name, e.sub))
    BY UpsertedIs
  <2>2. /\ once.status = CASE e.enabled = "yes" -> "active"
                            [] e.enabled = "no"  -> "inactive"
                            [] OTHER -> IF row.status = "none" THEN "active" ELSE row.status
        /\ twice.status = CASE e.enabled = "yes" -> "active"
                            [] e.enabled = "no"  -> "inactive"
                            [] OTHER -> IF once.status = "none" THEN "active" ELSE once.status
    BY UpsertedIs
  <2> HIDE DEF once, twice
  <2>3. e.enabled \in {"yes", "no", None}
    BY DEF Fits
  <2>4. twice.status = once.status
    <3>1. CASE e.enabled = "yes"
      BY <2>2, <3>1
    <3>2. CASE e.enabled = "no"
      BY <2>2, <3>2
    <3>3. CASE e.enabled # "yes" /\ e.enabled # "no"
      BY <2>2, <3>3
    <3> QED
      BY <3>1, <3>2, <3>3
  <2>5. twice.name = once.name
    BY <2>1, NoneAssumption DEF Either
  <2> QED
    BY <2>0, <2>4, <2>5 DEF once, twice
<1>2. Deactivated(Deactivated(row)) = Deactivated(row)
  BY DEF Deactivated, LocalUsers
<1>3. RowAfter(e, RowAfter(e, row)) = RowAfter(e, row)
  BY <1>1, <1>2 DEF RowAfter, UserAfter
<1>4. MembersAfter(e, MembersAfter(e, held)) = MembersAfter(e, held)
  BY DEF MembersAfter
<1> QED
  BY <1>3, <1>4

-----------------------------------------------------------------------------
(* What Keycloak does to the projection that follows it.                    *)

\* The event that is reported is the one the change emits.
LEMMA SameReport ==
    ASSUME TypeOK, NEW raw \in Raws, NEW about \in Abouts, Reported(raw, about),
           NEW op, NEW type, NEW operation, NEW path, NEW rep, NEW whom,
           Emit(op, type, operation, path, rep, whom)
    PROVE  /\ raw.type = type /\ raw.op = operation /\ raw.path = path /\ raw.rep = rep
           /\ about = whom
<1> DEFINE new == [raw |-> [type |-> type, op |-> operation, path |-> path, rep |-> rep],
                   about |-> whom]
<1>1. PICK o \in AllOps : Emit(o, raw.type, raw.op, raw.path, raw.rep, about)
  BY DEF Reported
<1> DEFINE old == [raw |-> [type |-> raw.type, op |-> raw.op, path |-> raw.path, rep |-> raw.rep],
                   about |-> about]
<1>2. events' = Append(events, new) /\ events' = Append(events, old)
  BY <1>1 DEF Emit
<1>3. events \in Seq(Reports) /\ Len(events) \in Nat
  <2>1. events \in Seq(Reports)
    BY DEF TypeOK, Reports, Abouts
  <2> QED
    BY <2>1, LenProperties
<1>4. new = old
  <2> HIDE DEF new, old
  <2>1. Append(events, new)[Len(events) + 1] = new /\ Append(events, old)[Len(events) + 1] = old
    BY <1>3
  <2> QED
    BY <1>2, <2>1
<1>5. new.about = whom /\ old.about = about /\ new.raw = old.raw
  BY <1>4
<1>6. /\ new.raw.type = type /\ new.raw.op = operation /\ new.raw.path = path /\ new.raw.rep = rep
      /\ old.raw.type = raw.type /\ old.raw.op = raw.op /\ old.raw.path = raw.path /\ old.raw.rep = raw.rep
  OBVIOUS
<1> HIDE DEF new, old
<1> QED
  BY <1>4, <1>5, <1>6

\* The new event is there with what it says; no group comes back, and no federated
\* identity.
LEMMA ReportStays ==
    ASSUME TypeOK, NEW raw \in Raws, NEW about \in Abouts, Reported(raw, about)
    PROVE  /\ \E k \in DOMAIN events' : events'[k].raw = raw /\ events'[k].about = about
           /\ \A g \in Gone : g \in Gone'
           /\ \A u \in Users : Unlinked(u) => Unlinked(u)'
<1>1. PICK o \in AllOps : Emit(o, raw.type, raw.op, raw.path, raw.rep, about)
  BY DEF Reported
<1>2. [type |-> raw.type, op |-> raw.op, path |-> raw.path, rep |-> raw.rep] = raw
  BY DEF Raws
<1> DEFINE new == [type |-> raw.type, op |-> raw.op, path |-> raw.path, rep |-> raw.rep]
<1>0. /\ Len(events) \in Nat
      /\ DOMAIN events = 1 .. Len(events) /\ DOMAIN events' = 1 .. Len(events) + 1
      /\ \A i \in 1 .. Len(events) : events'[i] = events[i]
      /\ events'[Len(events) + 1] = [raw |-> new, about |-> about]
  BY <1>1, <1>2, EmitAppends, SMTT(40)
<1> HIDE DEF new
<1>3. /\ Len(events) \in Nat
      /\ DOMAIN events = 1 .. Len(events) /\ DOMAIN events' = 1 .. Len(events) + 1
      /\ \A i \in 1 .. Len(events) : events'[i] = events[i]
      /\ events'[Len(events) + 1].raw = raw /\ events'[Len(events) + 1].about = about
  BY <1>0, <1>2 DEF new
<1>4. \A i \in DOMAIN events : i \in DOMAIN events' /\ events'[i] = events[i]
  BY <1>3
<1>5. Len(events) + 1 \in DOMAIN events'
  BY <1>3
<1>6. \A g \in Gone : g \in Gone'
  BY <1>4 DEF Gone
<1>7. \A u \in Users : Unlinked(u) => Unlinked(u)'
  BY <1>4 DEF Unlinked
<1> QED
  BY <1>3, <1>5, <1>6, <1>7

\* Nothing changes in Keycloak about the user v but that groups are deleted.
Kept(v) ==
    /\ realm'[v] = realm[v]
    /\ groups'[v] \subseteq groups[v] /\ groups[v] \subseteq groups'[v] \cup Gone'

LEMMA KeptFollows ==
    ASSUME TypeOK, NEW raw \in Raws, NEW about \in Abouts, Reported(raw, about),
           NEW v \in Users, Kept(v), NEW row, NEW held
    PROVE  /\ RowFollows(v, row) => RowFollows(v, row)'
           /\ MembersFollow(v, held) => MembersFollow(v, held)'
           /\ Present(v)' <=> Present(v)
<1>1. Present(v)' <=> Present(v)
  BY DEF Kept, Present
<1>2. RowFollows(v, row) => RowFollows(v, row)'
  BY <1>1, ReportStays DEF Kept, RowFollows
<1>3. MembersFollow(v, held) => MembersFollow(v, held)'
  BY ReportStays DEF Kept, MembersFollow
<1> QED
  BY <1>1, <1>2, <1>3

\* The change of Keycloak that is reported with the row e: what makes of a
\* projection that followed Keycloak one that follows it again.
Answers(e, about) ==
    /\ \A v \in Users : v # about[1] \/ e = Ignored => Kept(v)
    /\ \A v \in Users : v = about[1] /\ e # Ignored =>
        /\ Present(v)' \/ Deletion(e)
        /\ e.kind = "group_membership" => Present(v)
        /\ \A row \in LocalUsers, held \in SUBSET Groups :
              RowFollows(v, row) /\ MembersFollow(v, held) =>
                 RowFollows(v, RowAfter(e, row))' /\ MembersFollow(v, MembersAfter(e, held))'
    /\ \A v \in Users : groups'[v] # {} => Present(v)'
    /\ \A v, x \in Users : v # x /\ Present(v)' /\ Present(x)' => realm'[v].name # realm'[x].name

LEMMA RealmIs ==
    ASSUME Named, RealmFits
    PROVE  /\ TypeOK /\ realm \in [Users -> RealmUsers] /\ groups \in [Users -> SUBSET Groups]
           /\ \A u \in Users : Present(u) => realm[u].name # None
           /\ \A u \in Users : groups[u] # {} => Present(u)
           /\ \A u, v \in Users : u # v /\ Present(u) /\ Present(v) => realm[u].name # realm[v].name
<1>1. TypeOK /\ \A u \in Users : Present(u) => realm[u].name \in NamesOf(u)
  BY NamesKeptIs DEF Named, Base
<1>2. \A u \in Users : None \notin NamesOf(u)
  BY DEF NamesOf
<1> QED
  BY <1>1, <1>2 DEF RealmFits, TypeOK, RealmUsers

\* A change of one user, with an event of its row.
LEMMA OneUserAnswers ==
    ASSUME Named, RealmFits, NEW e, NEW u \in Users, NEW about \in Abouts, about[1] = u,
           NEW new \in RealmUsers, realm' = [realm EXCEPT ![u] = new],
           groups' = groups \/ groups' = [groups EXCEPT ![u] = {}],
           Present(u)' \/ Deletion(e), groups'[u] # {} => Present(u)',
           \A v \in Users \ {u} : Present(u)' /\ Present(v) => realm[v].name # new.name,
           e # Ignored, e.kind # "group_membership",
           \A row \in LocalUsers, held \in SUBSET Groups :
              RowFollows(u, row) /\ MembersFollow(u, held) =>
                 RowFollows(u, RowAfter(e, row))' /\ MembersFollow(u, held)'
    PROVE  Answers(e, about)
<1>0. /\ TypeOK /\ realm \in [Users -> RealmUsers] /\ groups \in [Users -> SUBSET Groups]
      /\ \A v \in Users : groups[v] # {} => Present(v)
      /\ \A v, x \in Users : v # x /\ Present(v) /\ Present(x) => realm[v].name # realm[x].name
  BY RealmIs
<1>1. realm'[u] = new /\ \A v \in Users \ {u} : realm'[v] = realm[v] /\ groups'[v] = groups[v]
  BY <1>0
<1>2. \A v \in Users \ {u} : Present(v)' <=> Present(v)
  BY <1>1 DEF Present
<1>3. \A v \in Users \ {u} : Kept(v)
  BY <1>1 DEF Kept
<1>4. \A v \in Users : groups'[v] # {} => Present(v)'
  BY <1>0, <1>1, <1>2
<1>5. \A v, x \in Users : v # x /\ Present(v)' /\ Present(x)' => realm'[v].name # realm'[x].name
  BY <1>0, <1>1, <1>2
<1>6. \A held : MembersAfter(e, held) = held
  BY DEF MembersAfter
<1> QED
  BY <1>3, <1>4, <1>5, <1>6 DEF Answers

LEMMA CreatesAnswers ==
    ASSUME Named, RealmFits, NEW u \in Users, NEW enabled \in {"yes", "no"}, NEW n \in Usernames,
           AdminCreates(u, enabled, n), NEW raw \in Raws, NEW about \in Abouts, Reported(raw, about)
    PROVE  Answers(LedgerEntry(raw), about)
<1> DEFINE rep == [NoRep EXCEPT !.username = n, !.enabled = enabled]
           new == Person(Status(enabled), n)
           e   == LedgerEntry(raw)
<1>0. /\ TypeOK /\ realm \in [Users -> RealmUsers] /\ groups \in [Users -> SUBSET Groups]
      /\ \A v \in Users : groups[v] # {} => Present(v)
  BY RealmIs
<1>1. rep.username = n /\ rep.enabled = enabled /\ rep.id = None
  BY DEF NoRep
<1>2. /\ Emit("create", "USER", "CREATE", <<"users", u>>, rep, <<u, None>>)
      /\ realm' = [realm EXCEPT ![u] = new] /\ groups' = groups
      /\ realm[u].status = "absent" /\ FreeName(n)
  BY DEF AdminCreates
<1>3. /\ new \in RealmUsers /\ new.name = n
      /\ new.status = IF enabled = "yes" THEN "enabled" ELSE "disabled"
  BY DEF Person, Status, RealmUsers
<1> HIDE DEF rep, new
<1>4. /\ raw.type = "USER" /\ raw.op = "CREATE" /\ raw.path = <<"users", u>> /\ raw.rep = rep
      /\ about = <<u, None>>
  BY <1>0, <1>2, SameReport
<1>5. /\ Len(raw.path) >= 2 /\ raw.path[1] = "users" /\ raw.path[2] = u
      /\ raw.rep.id \in {u, None} /\ raw.op \in {"CREATE", "UPDATE", "DELETE"}
  BY <1>1, <1>4, UserPaths
<1>6. /\ e.kind = "user" /\ e.op = "CREATE" /\ e # Ignored /\ e.username = n /\ e.enabled = enabled
  BY <1>1, <1>4, <1>5, UserEventIs
<1> HIDE DEF e
<1>7. realm'[u] = new /\ Present(u)'
  BY <1>0, <1>2, <1>3 DEF Present
<1>8. ASSUME NEW row \in LocalUsers, NEW held \in SUBSET Groups, RowFollows(u, row), MembersFollow(u, held)
      PROVE  RowFollows(u, RowAfter(e, row))' /\ MembersFollow(u, held)'
  <2>1. row.status = "none"
    BY <1>2, <1>8 DEF RowFollows
  <2>2. /\ Upserted(row, e).status = IF enabled = "yes" THEN "active" ELSE "inactive"
        /\ Upserted(row, e).name = n
    BY <1>6, UpsertedIs, NoneAssumption DEF Either
  <2>3. RowAfter(e, row) = Upserted(row, e)
    BY <1>6 DEF RowAfter, UserAfter
  <2>4. RowFollows(u, RowAfter(e, row))'
    BY <1>3, <1>7, <2>2, <2>3 DEF RowFollows
  <2>5. MembersFollow(u, held)'
    BY <1>0, <1>2, <1>8, ReportStays DEF MembersFollow
  <2> QED
    BY <2>4, <2>5
<1>9. \A v \in Users \ {u} : Present(v) => realm[v].name # new.name
  BY <1>2, <1>3 DEF FreeName
<1>10. about[1] = u
  BY <1>4
<1> QED
  BY <1>2, <1>3, <1>6, <1>7, <1>8, <1>9, <1>10, OneUserAnswers DEF e

LEMMA UpdatesAnswers ==
    ASSUME Named, RealmFits, NEW u \in Users, NEW enabled \in {"yes", "no", None},
           NEW n \in Usernames \cup {None}, AdminUpdates(u, enabled, n),
           NEW raw \in Raws, NEW about \in Abouts, Reported(raw, about)
    PROVE  Answers(LedgerEntry(raw), about)
<1> DEFINE rep == [NoRep EXCEPT !.id = u, !.username = n, !.enabled = enabled]
           new == Person(IF enabled = None THEN realm[u].status ELSE Status(enabled),
                         Either(n, realm[u].name))
           op  == IF n = None THEN "update" ELSE "rename"
           e   == LedgerEntry(raw)
<1>0. /\ TypeOK /\ realm \in [Users -> RealmUsers] /\ groups \in [Users -> SUBSET Groups]
      /\ \A v \in Users : groups[v] # {} => Present(v)
      /\ \A v \in Users : Present(v) => realm[v].name # None
      /\ \A v, x \in Users : v # x /\ Present(v) /\ Present(x) => realm[v].name # realm[x].name
  BY RealmIs
<1>1. rep.username = n /\ rep.enabled = enabled /\ rep.id = u
  BY DEF NoRep
<1>2. /\ Emit(op, "USER", "UPDATE", <<"users", u>>, rep, <<u, None>>)
      /\ realm' = [realm EXCEPT ![u] = new] /\ groups' = groups
      /\ Present(u) /\ (n # None => FreeName(n) /\ enabled = None)
  BY DEF AdminUpdates
<1>3. /\ new \in RealmUsers /\ new.name = IF n # None THEN n ELSE realm[u].name
      /\ new.status = CASE enabled = "yes" -> "enabled" [] enabled = "no" -> "disabled"
                        [] OTHER -> realm[u].status
      /\ new.status \in {"enabled", "disabled"}
  <2>1. realm[u] \in RealmUsers /\ realm[u].status \in {"enabled", "disabled"}
    BY <1>0, <1>2 DEF Present
  <2>2. /\ new.status = IF enabled = None THEN realm[u].status ELSE Status(enabled)
        /\ new.name = Either(n, realm[u].name)
        /\ new = Person(new.status, new.name)
    BY DEF Person
  <2> HIDE DEF new
  <2>3. \/ enabled = None /\ enabled # "yes" /\ enabled # "no"
        \/ enabled = "yes" /\ enabled # None
        \/ enabled = "no" /\ enabled # None
    BY NoneAssumption
  <2>4. new.status \in {"enabled", "disabled"} /\ new.name \in Usernames \cup {None}
    BY <2>1, <2>2 DEF Status, Either, RealmUsers
  <2>5. new \in RealmUsers
    BY <2>2, <2>4 DEF Person, RealmUsers
  <2> QED
    BY <2>1, <2>2, <2>3, <2>4, <2>5 DEF Status, Either
<1> HIDE DEF rep, new, op
<1>4. /\ raw.type = "USER" /\ raw.op = "UPDATE" /\ raw.path = <<"users", u>> /\ raw.rep = rep
      /\ about = <<u, None>>
  BY <1>0, <1>2, SameReport
<1>5. /\ Len(raw.path) >= 2 /\ raw.path[1] = "users" /\ raw.path[2] = u
      /\ raw.rep.id \in {u, None} /\ raw.op \in {"CREATE", "UPDATE", "DELETE"}
  BY <1>1, <1>4, UserPaths
<1>6. /\ e.kind = "user" /\ e.op = "UPDATE" /\ e # Ignored /\ e.username = n /\ e.enabled = enabled
  BY <1>1, <1>4, <1>5, UserEventIs
<1> HIDE DEF e
<1>7. realm'[u] = new /\ Present(u)'
  BY <1>0, <1>2, <1>3 DEF Present
<1>8. ASSUME NEW row \in LocalUsers, NEW held \in SUBSET Groups, RowFollows(u, row), MembersFollow(u, held)
      PROVE  RowFollows(u, RowAfter(e, row))' /\ MembersFollow(u, held)'
  <2>1. /\ row.status # "none" /\ row.name = realm[u].name /\ row.name # None
        /\ ~ Unlinked(u) => (row.status = "active" <=> realm[u].status = "enabled")
    BY <1>0, <1>2, <1>8 DEF RowFollows, Present
  <2>2. /\ Upserted(row, e).status = CASE enabled = "yes" -> "active" [] enabled = "no" -> "inactive"
                                       [] OTHER -> row.status
        /\ Upserted(row, e).name = IF n # None THEN n ELSE realm[u].name
    BY <1>6, <2>1, UpsertedIs DEF Either
  <2>3. RowAfter(e, row) = Upserted(row, e)
    BY <1>6 DEF RowAfter, UserAfter
  <2>4. Unlinked(u) => Unlinked(u)'
    BY <1>0, ReportStays
  <2> DEFINE r == RowAfter(e, row)
  <2>5. /\ r.status # "none" /\ r.name = new.name
        /\ ~ Unlinked(u)' => (r.status = "active" <=> new.status = "enabled")
    <3>1. CASE enabled = "yes"
      BY <1>3, <2>1, <2>2, <2>3, <3>1
    <3>2. CASE enabled = "no"
      BY <1>3, <2>1, <2>2, <2>3, <3>2
    <3>3. CASE enabled # "yes" /\ enabled # "no"
      BY <1>3, <2>1, <2>2, <2>3, <2>4, <3>3
    <3> QED
      BY <3>1, <3>2, <3>3
  <2> HIDE DEF r
  <2>6. RowFollows(u, r)'
    BY <1>3, <1>7, <2>5 DEF RowFollows
  <2>7. MembersFollow(u, held)'
    BY <1>0, <1>2, <1>8, ReportStays DEF MembersFollow, Present
  <2> QED
    BY <2>6, <2>7 DEF r
<1>9. \A v \in Users \ {u} : Present(v) => realm[v].name # new.name
  BY <1>0, <1>2, <1>3 DEF FreeName
<1>10. about[1] = u
  BY <1>4
<1> QED
  BY <1>2, <1>3, <1>6, <1>7, <1>8, <1>9, <1>10, OneUserAnswers DEF e

LEMMA DeletesAnswers ==
    ASSUME Named, RealmFits, NEW u \in Users, AdminDeletes(u),
           NEW raw \in Raws, NEW about \in Abouts, Reported(raw, about)
    PROVE  Answers(LedgerEntry(raw), about)
<1> DEFINE new == Person("deleted", None)
           e   == LedgerEntry(raw)
<1>0. /\ TypeOK /\ realm \in [Users -> RealmUsers] /\ groups \in [Users -> SUBSET Groups]
  BY RealmIs
<1>1. /\ Emit("delete", "USER", "DELETE", <<"users", u>>, NoRep, <<u, None>>)
      /\ realm' = [realm EXCEPT ![u] = new] /\ groups' = [groups EXCEPT ![u] = {}] /\ Present(u)
  BY DEF AdminDeletes
<1>2. new \in RealmUsers /\ new.status = "deleted"
  BY DEF Person, RealmUsers
<1> HIDE DEF new
<1>3. /\ raw.type = "USER" /\ raw.op = "DELETE" /\ raw.path = <<"users", u>> /\ raw.rep = NoRep
      /\ about = <<u, None>>
  BY <1>0, <1>1, SameReport
<1>4. /\ Len(raw.path) >= 2 /\ raw.path[1] = "users" /\ raw.path[2] = u
      /\ raw.rep.id \in {u, None} /\ raw.op \in {"CREATE", "UPDATE", "DELETE"}
  BY <1>3, UserPaths, RepsTyped
<1>5. e.kind = "user" /\ e.op = "DELETE" /\ e # Ignored
  BY <1>3, <1>4, UserEventIs
<1> HIDE DEF e
<1>6. realm'[u] = new /\ ~ Present(u)' /\ groups'[u] = {}
  BY <1>0, <1>1, <1>2 DEF Present
<1>7. ASSUME NEW row \in LocalUsers, NEW held \in SUBSET Groups, RowFollows(u, row), MembersFollow(u, held)
      PROVE  RowFollows(u, RowAfter(e, row))' /\ MembersFollow(u, held)'
  <2>1. row.status # "none"
    BY <1>1, <1>7 DEF RowFollows, Present
  <2>2. RowAfter(e, row).status # "none" /\ RowAfter(e, row).status # "active"
    BY <1>5, <2>1, DeactivatedIs DEF RowAfter, UserAfter
  <2>3. RowFollows(u, RowAfter(e, row))'
    BY <1>2, <1>6, <2>2 DEF RowFollows
  <2>4. MembersFollow(u, held)'
    BY <1>2, <1>6 DEF MembersFollow
  <2> QED
    BY <2>3, <2>4
<1>8. Deletion(e)
  BY <1>5 DEF Deletion
<1>9. about[1] = u
  BY <1>3
<1> QED
  BY <1>1, <1>2, <1>5, <1>6, <1>7, <1>8, <1>9, OneUserAnswers DEF e

\* Unlinking deactivates the user.
LEMMA LinksAnswers ==
    ASSUME Named, RealmFits, NEW u \in Users, NEW operation \in {"CREATE", "DELETE"},
           AdminLinks(u, operation),
           NEW raw \in Raws, NEW about \in Abouts, Reported(raw, about)
    PROVE  Answers(LedgerEntry(raw), about)
<1> DEFINE path == <<"users", u, "federated-identity", "idp">>
           e    == LedgerEntry(raw)
<1>0. /\ TypeOK /\ realm \in [Users -> RealmUsers] /\ groups \in [Users -> SUBSET Groups]
      /\ \A v \in Users : Present(v) => realm[v].name # None
      /\ \A v \in Users : groups[v] # {} => Present(v)
      /\ \A v, x \in Users : v # x /\ Present(v) /\ Present(x) => realm[v].name # realm[x].name
  BY RealmIs
<1>1. /\ Emit("link", "USER", operation, path, NoRep, <<u, None>>)
      /\ realm' = realm /\ groups' = groups /\ Present(u)
  BY DEF AdminLinks
<1>2. Len(path) = 4 /\ path[1] = "users" /\ path[2] = u
  BY LinkPaths
<1> HIDE DEF path
<1>3. /\ raw.type = "USER" /\ raw.op = operation /\ raw.path = path /\ raw.rep = NoRep
      /\ about = <<u, None>>
  BY <1>0, <1>1, SameReport
<1>4. /\ Len(raw.path) >= 2 /\ raw.path[1] = "users" /\ raw.path[2] = u
      /\ raw.rep.id \in {u, None} /\ raw.op \in {"CREATE", "UPDATE", "DELETE"}
  <2>1. NoRep.id = None /\ operation \in {"CREATE", "UPDATE", "DELETE"}
    BY RepsTyped
  <2> QED
    BY <1>2, <1>3, <2>1, SMTT(40)
<1>5. /\ e.kind = "user" /\ e.op = operation /\ e # Ignored
      /\ e.username = None /\ e.enabled = None
  BY <1>3, <1>4, UserEventIs, RepsTyped
<1>6. operation = "DELETE" => Unlinked(u)'
  <2>1. PICK k \in DOMAIN events' : events'[k].raw = raw /\ events'[k].about = about
    BY <1>0, ReportStays
  <2>2. events'[k].about[1] = u
    BY <1>3, <2>1
  <2> QED
    BY <1>2, <1>3, <2>1, <2>2 DEF Unlinked
<1> HIDE DEF e
<1>7. realm[u] \in RealmUsers /\ realm' = [realm EXCEPT ![u] = realm[u]] /\ Present(u)'
  BY <1>0, <1>1 DEF Present
<1>8. ASSUME NEW row \in LocalUsers, NEW held \in SUBSET Groups, RowFollows(u, row), MembersFollow(u, held)
      PROVE  RowFollows(u, RowAfter(e, row))' /\ MembersFollow(u, held)'
  <2>1. /\ row.status # "none" /\ row.name = realm[u].name /\ row.name # None
        /\ ~ Unlinked(u) => (row.status = "active" <=> realm[u].status = "enabled")
        /\ realm[u].status # "absent" /\ realm[u].status # "deleted"
    BY <1>0, <1>1, <1>8 DEF RowFollows, Present
  <2>2. Unlinked(u) => Unlinked(u)'
    BY <1>0, ReportStays
  <2> DEFINE r == RowAfter(e, row)
  <2>3. r.status # "none" /\ r.name = row.name /\ (operation = "CREATE" => r.status = row.status)
    <3>1. CASE operation = "CREATE"
      <4>1. Upserted(row, e).status = row.status /\ Upserted(row, e).name = row.name
        <5>1. e.enabled # "yes" /\ e.enabled # "no"
          BY <1>5, NoneAssumption
        <5> QED
          BY <1>5, <2>1, <5>1, UpsertedIs DEF Either
      <4> QED
        BY <1>5, <2>1, <3>1, <4>1 DEF RowAfter, UserAfter
    <3>2. CASE operation = "DELETE"
      BY <1>5, <2>1, <3>2, DeactivatedIs DEF RowAfter, UserAfter
    <3> QED
      BY <3>1, <3>2
  <2> HIDE DEF r
  <2>4. RowFollows(u, r)'
    BY <1>1, <1>6, <2>1, <2>2, <2>3 DEF RowFollows
  <2>5. MembersFollow(u, held)'
    BY <1>0, <1>1, <1>8, <2>1, ReportStays DEF MembersFollow
  <2> QED
    BY <2>4, <2>5 DEF r
<1>9. \A v \in Users \ {u} : Present(u) /\ Present(v) => realm[v].name # realm[u].name
  BY <1>0
<1>10. about[1] = u
  BY <1>3
<1> QED
  BY <1>1, <1>5, <1>7, <1>8, <1>9, <1>10, OneUserAnswers DEF e

\* A change of the memberships, with an event that no user's row depends on.
LEMMA SameUsersAnswer ==
    ASSUME Named, RealmFits, NEW e, NEW about \in Abouts, realm' = realm,
           \A v \in Users : groups'[v] # {} => Present(v),
           \A v \in Users : v # about[1] \/ e = Ignored =>
              groups'[v] \subseteq groups[v] /\ groups[v] \subseteq groups'[v] \cup Gone',
           \A v \in Users : v = about[1] /\ e # Ignored =>
              /\ Present(v) /\ e.kind = "group_membership"
              /\ \A held \in SUBSET Groups :
                    MembersFollow(v, held) => MembersFollow(v, MembersAfter(e, held))',
           \A v \in Users, row \in LocalUsers : RowFollows(v, row) => RowFollows(v, row)'
    PROVE  Answers(e, about)
<1>0. \A v, x \in Users : v # x /\ Present(v) /\ Present(x) => realm[v].name # realm[x].name
  BY RealmIs
<1>1. \A v \in Users : Present(v)' <=> Present(v)
  BY DEF Present
<1>2. \A v \in Users : v # about[1] \/ e = Ignored => Kept(v)
  BY DEF Kept
<1>3. \A row : e.kind = "group_membership" => RowAfter(e, row) = row
  BY DEF RowAfter
<1> QED
  BY <1>0, <1>1, <1>2, <1>3 DEF Answers

\* The rows follow a realm that did not change.
LEMMA SameRealmFollows ==
    ASSUME TypeOK, realm' = realm, NEW raw \in Raws, NEW about \in Abouts, Reported(raw, about)
    PROVE  \A v \in Users, row \in LocalUsers : RowFollows(v, row) => RowFollows(v, row)'
BY ReportStays DEF RowFollows, Present

LEMMA JoinsAnswers ==
    ASSUME Named, RealmFits, NEW u \in Users, NEW g \in Groups, AdminJoins(u, g) \/ AdminRemoves(u, g),
           NEW raw \in Raws, NEW about \in Abouts, Reported(raw, about)
    PROVE  Answers(LedgerEntry(raw), about)
<1> DEFINE path == <<"users", u, "groups", g>>
           e    == LedgerEntry(raw)
           op   == IF AdminJoins(u, g) THEN "CREATE" ELSE "DELETE"
<1>0. /\ TypeOK /\ groups \in [Users -> SUBSET Groups]
      /\ \A v \in Users : groups[v] # {} => Present(v)
  BY RealmIs
<1>1. realm' = realm /\ Present(u)
  BY <1>0 DEF AdminJoins, AdminRemoves
<1>2. groups' = [groups EXCEPT ![u] = IF op = "CREATE" THEN groups[u] \cup {g} ELSE groups[u] \ {g}]
  BY DEF AdminJoins, AdminRemoves
<1>3. Emit(IF op = "CREATE" THEN "join" ELSE "leave", "GROUP_MEMBERSHIP", op, path, GroupRep(g), <<u, g>>)
  BY DEF AdminJoins, AdminRemoves
<1> HIDE DEF path
<1>4. op \in {"CREATE", "DELETE"}
  OBVIOUS
<1> HIDE DEF op
<1>5. raw.type = "GROUP_MEMBERSHIP" /\ raw.op = op /\ raw.path = path /\ about = <<u, g>>
  BY <1>0, <1>3, SameReport
<1>6. e.kind = "group_membership" /\ e.op = op /\ e.group = g
  BY <1>4, <1>5, MembershipEventIs DEF path
<1> HIDE DEF e
<1>7. /\ groups'[u] = IF op = "CREATE" THEN groups[u] \cup {g} ELSE groups[u] \ {g}
      /\ \A v \in Users \ {u} : groups'[v] = groups[v]
  BY <1>0, <1>2
<1>8. about[1] = u
  BY <1>5
<1>9. ASSUME NEW held \in SUBSET Groups, MembersFollow(u, held)
      PROVE  MembersFollow(u, MembersAfter(e, held))'
  <2>1. /\ groups[u] \subseteq held /\ held \subseteq groups[u] \cup Gone
    BY <1>1, <1>9 DEF MembersFollow, Present
  <2>2. MembersAfter(e, held) = IF op = "CREATE" THEN held \cup {g} ELSE held \ {g}
    BY <1>6 DEF MembersAfter
  <2>3. \A x \in Gone : x \in Gone'
    BY <1>0, ReportStays
  <2>4. /\ groups'[u] \subseteq MembersAfter(e, held)
        /\ MembersAfter(e, held) \subseteq groups'[u] \cup Gone'
    BY <1>7, <2>1, <2>2, <2>3
  <2> QED
    BY <2>4 DEF MembersFollow
<1>10. \A v \in Users, row \in LocalUsers : RowFollows(v, row) => RowFollows(v, row)'
  BY <1>0, <1>1, SameRealmFollows
<1>11. e # Ignored
  BY <1>6 DEF Ignored
<1>12. \A v \in Users : groups'[v] # {} => Present(v)
  BY <1>0, <1>1, <1>7
<1> QED
  BY <1>1, <1>6, <1>7, <1>8, <1>9, <1>10, <1>11, <1>12, SameUsersAnswer DEF e

\* No user's projection depends on an event of a group, or on one that is ignored.
LEMMA NobodyAnswers ==
    ASSUME Named, RealmFits, NEW raw \in Raws, NEW about \in Abouts, Reported(raw, about),
           realm' = realm,
           LedgerEntry(raw) = Ignored \/ about[1] = None,
           \A v \in Users : groups'[v] \subseteq groups[v] /\ groups[v] \subseteq groups'[v] \cup Gone'
    PROVE  Answers(LedgerEntry(raw), about)
<1>0. TypeOK /\ \A v \in Users : groups[v] # {} => Present(v)
  BY RealmIs
<1>1. \A v \in Users, row \in LocalUsers : RowFollows(v, row) => RowFollows(v, row)'
  BY <1>0, SameRealmFollows
<1>2. \A v \in Users : groups'[v] # {} => Present(v)
  BY <1>0
<1>3. ASSUME NEW v \in Users PROVE ~ (v = about[1] /\ LedgerEntry(raw) # Ignored)
  BY NoneAssumption
<1> QED
  BY <1>1, <1>2, <1>3, SameUsersAnswer

LEMMA ActsAnswers ==
    ASSUME Named, RealmFits, NEW u \in Users, AdminActs(u),
           NEW raw \in Raws, NEW about \in Abouts, Reported(raw, about)
    PROVE  Answers(LedgerEntry(raw), about)
<1>0. TypeOK /\ realm' = realm /\ groups' = groups
  BY RealmIs DEF AdminActs
<1>1. LedgerEntry(raw) = Ignored
  <2>1. CASE Emit("ignored", "USER", "ACTION", <<"users", u, "reset-password">>, NoRep, <<u, None>>)
    <3>1. raw.type = "USER" /\ raw.op = "ACTION"
      BY <1>0, <2>1, SameReport
    <3> QED
      BY <3>1 DEF LedgerEntry, UserEntry
  <2>2. CASE Emit("ignored", "REALM_ROLE_MAPPING", "CREATE", <<"users", u, "role-mappings", "realm">>,
                  NoRep, <<u, None>>)
    <3>1. raw.type = "REALM_ROLE_MAPPING"
      BY <1>0, <2>2, SameReport
    <3> QED
      BY <3>1 DEF LedgerEntry
  <2> QED
    BY <2>1, <2>2 DEF AdminActs
<1> QED
  BY <1>0, <1>1, NobodyAnswers

LEMMA GroupsAnswer ==
    ASSUME Named, RealmFits, NEW g \in Groups, NEW id,
           AdminCreatesGroup(g, id) \/ AdminUpdatesGroup(g) \/ AdminDeletesGroup(g),
           NEW raw \in Raws, NEW about \in Abouts, Reported(raw, about)
    PROVE  Answers(LedgerEntry(raw), about)
<1>0. TypeOK /\ groups \in [Users -> SUBSET Groups]
  BY RealmIs
<1>1. CASE AdminDeletesGroup(g)
  <2>1. /\ realm' = realm /\ groups' = [u \in Users |-> groups[u] \ {g}]
        /\ Emit("ungroup", "GROUP", "DELETE", <<"groups", g>>, NoRep, <<None, g>>)
    BY <1>1 DEF AdminDeletesGroup
  <2>2. raw.type = "GROUP" /\ raw.op = "DELETE" /\ about = <<None, g>>
    BY <1>0, <2>1, SameReport
  <2>3. PICK k \in DOMAIN events' : events'[k].raw = raw /\ events'[k].about = about
    BY <1>0, ReportStays
  <2>4. about[1] = None /\ about[2] = g
    BY <2>2
  <2>5. g \in Gone'
    BY <2>2, <2>3, <2>4 DEF Gone
  <2>6. \A v \in Users : groups'[v] = groups[v] \ {g}
    BY <2>1
  <2> QED
    BY <2>1, <2>4, <2>5, <2>6, NobodyAnswers
<1>2. CASE AdminCreatesGroup(g, id) \/ AdminUpdatesGroup(g)
  <2>1. realm' = realm /\ groups' = groups
    BY <1>2 DEF AdminCreatesGroup, AdminUpdatesGroup
  <2>2. PICK op, operation, path, rep : Emit(op, "GROUP", operation, path, rep, <<None, g>>)
    BY <1>2 DEF AdminCreatesGroup, AdminUpdatesGroup
  <2>3. about = <<None, g>>
    BY <1>0, <2>2, SameReport
  <2>4. about[1] = None
    BY <2>3
  <2> QED
    BY <2>1, <2>4, NobodyAnswers
<1> QED
  BY <1>1, <1>2

LEMMA AdministerAnswers ==
    ASSUME Named, RealmFits, Administer, NEW raw \in Raws, NEW about \in Abouts, Reported(raw, about)
    PROVE  Answers(LedgerEntry(raw), about)
<1>1. env.users \subseteq Users /\ env.groups \subseteq Groups /\ env.usernames \subseteq Usernames
  BY RealmIs, EnvTyped
<1>2. CASE \E u \in env.users :
        \/ \E enabled \in {"yes", "no"}, n \in env.usernames : AdminCreates(u, enabled, n)
        \/ \E enabled \in {"yes", "no", None}, n \in env.usernames \cup {None} :
                AdminUpdates(u, enabled, n)
        \/ AdminDeletes(u)
        \/ \E operation \in {"CREATE", "DELETE"} : AdminLinks(u, operation)
        \/ AdminActs(u)
        \/ \E g \in env.groups : AdminJoins(u, g) \/ AdminRemoves(u, g)
  <2>1. PICK u \in env.users :
        \/ \E enabled \in {"yes", "no"}, n \in env.usernames : AdminCreates(u, enabled, n)
        \/ \E enabled \in {"yes", "no", None}, n \in env.usernames \cup {None} :
                AdminUpdates(u, enabled, n)
        \/ AdminDeletes(u)
        \/ \E operation \in {"CREATE", "DELETE"} : AdminLinks(u, operation)
        \/ AdminActs(u)
        \/ \E g \in env.groups : AdminJoins(u, g) \/ AdminRemoves(u, g)
    BY <1>2
  <2>2. u \in Users
    BY <1>1, <2>1
  <2>3. ASSUME NEW enabled \in {"yes", "no"}, NEW n \in env.usernames, AdminCreates(u, enabled, n)
        PROVE  Answers(LedgerEntry(raw), about)
    BY <1>1, <2>2, <2>3, CreatesAnswers
  <2>4. ASSUME NEW enabled \in {"yes", "no", None}, NEW n \in env.usernames \cup {None},
               AdminUpdates(u, enabled, n)
        PROVE  Answers(LedgerEntry(raw), about)
    BY <1>1, <2>2, <2>4, UpdatesAnswers
  <2>5. CASE AdminDeletes(u)
    BY <2>2, <2>5, DeletesAnswers
  <2>6. ASSUME NEW operation \in {"CREATE", "DELETE"}, AdminLinks(u, operation)
        PROVE  Answers(LedgerEntry(raw), about)
    BY <2>2, <2>6, LinksAnswers
  <2>7. CASE AdminActs(u)
    BY <2>2, <2>7, ActsAnswers
  <2>8. ASSUME NEW g \in env.groups, AdminJoins(u, g) \/ AdminRemoves(u, g)
        PROVE  Answers(LedgerEntry(raw), about)
    BY <1>1, <2>2, <2>8, JoinsAnswers
  <2> QED
    BY <2>1, <2>3, <2>4, <2>5, <2>6, <2>7, <2>8
<1>3. CASE \E g \in env.groups :
        \/ \E id \in {g, None} : AdminCreatesGroup(g, id)
        \/ AdminUpdatesGroup(g)
        \/ AdminDeletesGroup(g)
  BY <1>1, <1>3, GroupsAnswer
<1> QED
  BY <1>2, <1>3 DEF Administer

LEMMA LastReported ==
    ASSUME TypeOK, NEW raw \in Raws, NEW about \in Abouts, Reported(raw, about)
    PROVE  /\ Last \in Nat /\ Last + 1 \in EventIds /\ Last' = Last + 1
           /\ DOMAIN events = 1 .. Last /\ DOMAIN events' = 1 .. Last + 1
           /\ \A i \in DOMAIN events : events'[i] = events[i] /\ Entry(i)' = Entry(i)
           /\ Entry(Last)' = LedgerEntry(raw) /\ events'[Last'].about = about
           /\ env.slow => Quiet
<1>1. PICK o \in AllOps : Emit(o, raw.type, raw.op, raw.path, raw.rep, about)
  BY DEF Reported
<1>2. env.slow => Quiet
  BY <1>1 DEF Emit
<1>3. [type |-> raw.type, op |-> raw.op, path |-> raw.path, rep |-> raw.rep] \in Raws
  BY DEF Raws
<1>4. Len(events') = Len(events) + 1
  BY <1>1, <1>3, EmitAppends
<1>5. PICK k \in EventIds : k = Len(events) + 1
  BY ReportedIs
<1>6. /\ Len(events) \in Nat /\ DOMAIN events = 1 .. Len(events) /\ DOMAIN events' = 1 .. Len(events) + 1
      /\ \A i \in DOMAIN events : events'[i] = events[i] /\ Entry(i)' = Entry(i)
      /\ Entry(k)' = LedgerEntry(raw) /\ events'[k].about = about
  BY <1>5, ReportedIs
<1>7. Last' = k /\ Last = Len(events)
  BY <1>4, <1>5 DEF Last
<1>8. Entry(Last)' = LedgerEntry(raw)
  <2>1. Entry(Last)' = LedgerEntry(events'[Last'].raw) /\ Entry(k)' = LedgerEntry(events'[k].raw)
    BY DEF Entry
  <2> QED
    BY <1>6, <1>7, <2>1
<1> QED
  BY <1>2, <1>5, <1>6, <1>7, <1>8

LEMMA RealmStep ==
    ASSUME Named, RealmFits, [Next]_vars
    PROVE  RealmFits'
<1>0. TypeOK
  BY RealmIs
<1>1. ASSUME UNCHANGED keycloak, env.sessions = {} => tokens' = {} PROVE RealmFits'
  BY <1>1 DEF RealmFits, keycloak, About, Last, Entry, Present, Deletion
<1>2. CASE UNCHANGED vars
  BY <1>1, <1>2 DEF vars, keycloak, RealmFits
<1>3. CASE Administer
  <2>1. PICK raw \in Raws, about \in Abouts : Reported(raw, about)
    BY <1>0, <1>3, AdministerReports
  <2>2. Answers(LedgerEntry(raw), about)
    BY <1>3, <2>1, AdministerAnswers
  <2>3. ASSUME NEW u \in Users, About(u)' PROVE Present(u)' \/ Deletion(Entry(Last))'
    <3>1. Entry(Last)' = LedgerEntry(raw) /\ events'[Last'].about = about
      BY <1>0, <2>1, LastReported
    <3>2. about[1] = u /\ LedgerEntry(raw) # Ignored
      BY <2>3, <3>1 DEF About
    <3>3. Deletion(Entry(Last))' <=> Deletion(LedgerEntry(raw))
      BY <3>1 DEF Deletion
    <3> QED
      BY <2>2, <3>2, <3>3 DEF Answers
  <2>4. env' = env /\ tokens' = tokens
    BY <1>0, <2>1, ReportedIs DEF sessions
  <2> QED
    BY <2>2, <2>3, <2>4 DEF Answers, RealmFits
<1>4. ASSUME NEW i \in EventIds,
             PostLost(i) \/ PostDuplicated(i) \/ Deliver(i) \/ Delay(i) \/ WebCrash(i)
      PROVE  RealmFits'
  BY <1>0, <1>1, <1>4, WebhookSteps DEF keycloak, sessions, RealmFits
<1>5. ASSUME NEW w \in Workers, Run(w) \/ WorkerCrash(w) \/ Redeliver(w) \/ TaskError(w)
      PROVE  RealmFits'
  BY <1>0, <1>1, <1>5, WorkerSteps DEF keycloak, sessions, RealmFits
<1>6. CASE Visits
  <2>1. UNCHANGED keycloak
    BY <1>6, VisitsFrame
  <2>2. env.sessions = {} => tokens' = {}
    BY <1>6 DEF Visits, IssueToken, RealmFits
  <2> QED
    BY <1>1, <2>1, <2>2
<1> QED
  BY <1>0, <1>2, <1>3, <1>4, <1>5, <1>6, Steps

LEMMA InitRealm ==
    ASSUME Init
    PROVE  RealmFits
<1>1. /\ env \in Environments /\ events = << >> /\ tokens = {}
      /\ realm = [u \in Users |-> IF u \in DOMAIN env.known THEN Person("enabled", env.known[u])
                                  ELSE Person("absent", None)]
      /\ \A u \in Users \ DOMAIN env.known : groups[u] = {}
  BY DEF Init
<1>2. \A u, v \in DOMAIN env.known : env.known[u] = env.known[v] => u = v
  BY <1>1, EnvironmentsAssumption
<1>3. \A u \in Users : /\ Present(u) <=> u \in DOMAIN env.known
                       /\ u \in DOMAIN env.known => realm[u].name = env.known[u]
  BY <1>1 DEF Present, Person
<1>4. Last = 0
  BY <1>1 DEF Last
<1> QED
  BY <1>1, <1>2, <1>3, <1>4 DEF RealmFits, About

-----------------------------------------------------------------------------
(* One event at a time.                                                     *)

LEMMA LastIs ==
    ASSUME TypeOK
    PROVE  Last \in Nat /\ DOMAIN events = 1 .. Last
<1>1. events \in Seq(Reports)
  BY DEF TypeOK, Reports, Abouts
<1> QED
  BY <1>1, LenProperties DEF Last

LEMMA BusyLast ==
    ASSUME Base, OnlyLast, env.slow, NEW w \in Workers, Busy(w)
    PROVE  /\ EventOf(w) = Last /\ Last \in DOMAIN events /\ Last > 0 /\ Last \in EventIds
           /\ Fits(Entry(Last), events[Last].about) /\ Entry(Last) # Ignored
           /\ work[w].msg \in Messages
<1>1. Last \in Nat /\ DOMAIN events = 1 .. Last
  BY LastIs DEF Base
<1> QED
  BY <1>1, BusyEvent DEF OnlyLast

LEMMA OnlyLastStep ==
    ASSUME Base, RealmFits, OnlyLast, [Next]_vars, env.slow
    PROVE  OnlyLast'
<1>0. /\ TypeOK /\ Last \in Nat /\ DOMAIN events = 1 .. Last
      /\ posts \in [EventIds -> Nat] /\ ledger \subseteq EventIds /\ toSend \subseteq ledger
      /\ queue \in [Messages -> Nat] /\ Last <= MaxEvents
      /\ \A i \in EventIds : posts[i] > 0 => i \in DOMAIN events
      /\ \A i \in ledger : i \in DOMAIN events
      /\ \A w \in Workers : Busy(w) => work[w].msg \in Messages
  <2>1. TypeOK /\ RowsFit /\ RunsFollow
    BY DEF Base
  <2> QED
    BY <2>1, LastIs DEF TypeOK, RowsFit, RunsFollow, Last, Busy
<1> DEFINE Done(i) == /\ posts[i] > 0 => i \in ledger
                      /\ i \notin toSend
                      /\ \A m \in Waiting(queue) : m.job # i
                      /\ \A w \in Workers : Busy(w) => EventOf(w) # i
<1>1. \A i \in DOMAIN events : i # Last => Done(i)
  BY DEF OnlyLast
<1>2. ASSUME UNCHANGED keycloak, NEW i \in DOMAIN events, i # Last => Done(i)'
      PROVE  i # Last' => Done(i)'
  BY <1>2 DEF keycloak, Last
<1>3. ASSUME UNCHANGED keycloak, \A i \in DOMAIN events : i # Last => Done(i)'
      PROVE  OnlyLast'
  BY <1>3 DEF keycloak, Last, OnlyLast
<1>4. CASE UNCHANGED <<keycloak, webhook, broker, work>>
  <2>1. \A i \in DOMAIN events : Done(i)' <=> Done(i)
    BY <1>4 DEF keycloak, webhook, broker, Busy, EventOf
  <2>2. UNCHANGED keycloak
    BY <1>4
  <2> HIDE DEF Done
  <2> QED
    BY <1>1, <1>3, <2>1, <2>2
<1>5. CASE Administer
  <2>1. PICK raw \in Raws, about \in Abouts : Reported(raw, about)
    BY <1>0, <1>5, AdministerReports
  <2>2. Quiet /\ Last' = Last + 1 /\ DOMAIN events' = 1 .. Last + 1 /\ Last + 1 \in EventIds
    BY <1>0, <2>1, LastReported
  <2>3. /\ posts' = [posts EXCEPT ![Last + 1] = 1]
        /\ UNCHANGED <<env, ledger, toSend, broker, task, projection, sessions, faults>>
    BY <1>0, <2>1, ReportedIs DEF Last
  <2>4. ASSUME NEW i \in DOMAIN events', i # Last' PROVE Done(i)'
    <3>1. i \in EventIds /\ i # Last + 1
      BY <1>0, <2>2, <2>4, MaxEventsAssumption DEF EventIds
    <3>2. posts'[i] = 0
      BY <1>0, <2>2, <2>3, <3>1 DEF Quiet
    <3>3. i \notin toSend' /\ Waiting(queue)' = {} /\ \A w \in Workers : ~ Busy(w)'
      BY <2>2, <2>3 DEF Quiet, broker, task, Busy
    <3> QED
      BY <3>2, <3>3
  <2> HIDE DEF Done
  <2> QED
    BY <2>4 DEF OnlyLast, Done
<1>6. ASSUME NEW j \in EventIds,
             PostLost(j) \/ PostDuplicated(j) \/ Deliver(j) \/ Delay(j) \/ WebCrash(j)
      PROVE  OnlyLast'
  <2>1. /\ UNCHANGED <<keycloak, task, projection, sessions>>
        /\ \A i \in EventIds \ {j} : posts'[i] = posts[i]
        /\ \/ ledger' = ledger /\ toSend' = toSend /\ queue' = queue /\ (posts[j] > 0 \/ j \in ledger)
           \/ /\ posts[j] > 0 /\ j \notin ledger /\ queue' = queue
              /\ ledger' = ledger \cup {j} /\ toSend' = toSend \cup {j}
           \/ /\ j \in toSend /\ toSend' = toSend \ {j} /\ posts' = posts /\ ledger' = ledger
              /\ queue' = queue \/ queue' = Sent(queue, Message(j, 0))
    BY <1>0, <1>6, WebhookSteps DEF broker
  <2>2. ASSUME NEW i \in DOMAIN events, i # Last PROVE Done(i)'
    <3>1. Done(i) /\ i \in EventIds
      BY <1>0, <1>1, <2>2, MaxEventsAssumption DEF EventIds
    <3>2. \A w \in Workers : Busy(w)' => EventOf(w)' # i
      BY <2>1, <3>1 DEF task, Busy, EventOf
    <3>3. CASE i # j
      <4>1. \A m \in Waiting(queue') : m.job # i
        <5>1. PICK first \in Messages : first = Message(j, 0) /\ first.job = j
          BY FirstTry
        <5>2. CASE queue' = queue
          BY <3>1, <5>2
        <5>3. CASE queue' = Sent(queue, Message(j, 0))
          <6>1. \A m \in Waiting(queue') : m \in Waiting(queue) \/ m = first
            BY <1>0, <5>1, <5>3, SentIs
          <6> QED
            BY <3>1, <3>3, <5>1, <6>1
        <5> QED
          BY <2>1, <5>2, <5>3
      <4>2. posts'[i] > 0 => i \in ledger'
        BY <2>1, <3>1, <3>3
      <4>3. i \notin toSend'
        BY <2>1, <3>1, <3>3
      <4>4. Waiting(queue)' = Waiting(queue')
        OBVIOUS
      <4> QED
        BY <3>2, <4>1, <4>2, <4>3, <4>4
    <3>4. CASE i = j
      <4>1. i \in ledger /\ ledger' = ledger /\ toSend' = toSend /\ queue' = queue
        BY <2>1, <3>1, <3>4
      <4>2. Waiting(queue)' = Waiting(queue)
        BY <4>1
      <4> QED
        BY <3>1, <3>2, <4>1, <4>2
    <3> QED
      BY <3>3, <3>4
  <2>3. UNCHANGED keycloak
    BY <2>1
  <2> HIDE DEF Done
  <2> QED
    BY <1>3, <2>2, <2>3
<1>7. ASSUME NEW w \in Workers, Run(w) \/ WorkerCrash(w) \/ Redeliver(w) \/ TaskError(w)
      PROVE  OnlyLast'
  <2>1. /\ UNCHANGED <<keycloak, webhook, sent, sessions>>
        /\ \A v \in Workers \ {w} : work'[v] = work[v]
        /\ \/ \E m \in Waiting(queue) : Takes(w, m)
           \/ Moves(w)
           \/ LetsGo(w)
           \/ Doubles(w)
    BY <1>0, <1>7, WorkerSteps
  <2>2. ASSUME NEW i \in DOMAIN events, i # Last PROVE Done(i)'
    <3>1. Done(i) /\ posts' = posts /\ ledger' = ledger /\ toSend' = toSend
      BY <1>1, <2>1, <2>2 DEF webhook
    <3>2. (Busy(w)' => EventOf(w)' # i) /\ \A m \in Waiting(queue') : m.job # i
      <4>1. CASE \E m \in Waiting(queue) : Takes(w, m)
        <5>1. PICK m \in Waiting(queue) : queue' = Taken(queue, m) /\ work'[w].msg = m
          BY <4>1 DEF Takes
        <5>2. \A n \in Waiting(queue') : n \in Waiting(queue)
          BY <1>0, <5>1, TakenIs
        <5>3. EventOf(w)' = m.job
          BY <5>1 DEF EventOf
        <5> QED
          BY <3>1, <5>1, <5>2, <5>3
      <4>2. CASE Moves(w)
        BY <3>1, <4>2 DEF Moves, EventOf
      <4>3. CASE LetsGo(w)
        <5>1. /\ work[w].msg \in Messages /\ work[w].msg.job # i /\ ~ Busy(w)'
              /\ \/ queue' = queue \/ queue' = Sent(queue, work[w].msg)
                 \/ queue' = Retried(queue, work[w].msg, MaxRetries)
          BY <1>0, <3>1, <4>3 DEF LetsGo, EventOf
        <5>2. CASE queue' = queue \/ queue' = Sent(queue, work[w].msg)
          BY <1>0, <3>1, <5>1, <5>2, SentIs, SMTT(40)
        <5>3. CASE queue' = Retried(queue, work[w].msg, MaxRetries)
          <6>1. queue' = queue \/ \E n \in Messages : n.job = work[w].msg.job /\ queue' = Sent(queue, n)
            BY <1>0, <5>1, <5>3, RetriedIs
          <6> QED
            BY <1>0, <3>1, <5>1, <6>1, SentIs, ZenonT(40)
        <5> QED
          BY <5>1, <5>2, <5>3
      <4>4. CASE Doubles(w)
        <5>1. /\ work[w].msg \in Messages /\ work[w].msg.job # i /\ work' = work
              /\ queue' = Sent(queue, work[w].msg)
          BY <1>0, <3>1, <4>4 DEF Doubles, EventOf
        <5> QED
          BY <1>0, <3>1, <5>1, SentIs DEF Busy, EventOf
      <4> QED
        BY <2>1, <4>1, <4>2, <4>3, <4>4
    <3>3. \A v \in Workers : Busy(v)' => EventOf(v)' # i
      BY <2>1, <3>1, <3>2 DEF Busy, EventOf
    <3>4. Waiting(queue)' = Waiting(queue')
      OBVIOUS
    <3> QED
      BY <3>1, <3>2, <3>3, <3>4
  <2>3. UNCHANGED keycloak
    BY <2>1
  <2> HIDE DEF Done
  <2> QED
    BY <1>3, <2>2, <2>3
<1>8. CASE Visits
  <2>1. UNCHANGED <<keycloak, webhook, broker, task>>
    BY <1>8, VisitsFrame
  <2> QED
    BY <1>4, <2>1 DEF task
<1>9. CASE UNCHANGED vars
  BY <1>4, <1>9 DEF vars, keycloak, webhook, broker
<1> QED
  BY <1>0, <1>5, <1>6, <1>7, <1>8, <1>9, Steps

-----------------------------------------------------------------------------
(* What the last event makes of the projection.                             *)

\* A user whose events were all processed.
LEMMA FollowsNow ==
    ASSUME Base, LastSettles, env.slow, env.sessions = {}, NEW u \in Users,
           \A i \in DOMAIN events : events[i].about[1] = u => Replicated(i)
    PROVE  RowFollows(u, user[u]) /\ MembersFollow(u, member[u])
<1>1. Settles(u)
  BY DEF LastSettles, EarlierReplicated
<1>2. CASE ~ About(u)
  BY <1>1, <1>2 DEF Settles
<1>3. CASE About(u)
  <2>1. Last \in DOMAIN events /\ Replicated(Last) /\ Entry(Last) # Ignored
    BY <1>3, LastIs DEF About, Base
  <2>2. Last \in processed
    BY <2>1 DEF Replicated
  <2>3. applied[Last] > 0
    <3>1. applied[Last] \in Nat /\ applied[Last] >= 1
      BY <2>2 DEF Base, TypeOK, RunsFollow, MarkedWasApplied
    <3> QED
      BY <3>1
  <2>4. /\ RowFollows(u, RowAfter(Entry(Last), user[u]))
        /\ MembersFollow(u, MembersAfter(Entry(Last), member[u]))
        /\ user[u] = RowAfter(Entry(Last), user[u]) /\ member[u] = MembersAfter(Entry(Last), member[u])
    BY <1>1, <1>3, <2>3 DEF Settles
  <2> QED
    BY <2>4
<1> QED
  BY <1>2, <1>3

LEMMA SettlesEmit ==
    ASSUME Named, RealmFits, OnlyLast, LastSettles, Administer, env.slow, env.sessions = {}
    PROVE  LastSettles'
<1>0. /\ Base /\ TypeOK /\ user \in [Users -> LocalUsers] /\ member \in [Users -> SUBSET Groups]
  BY DEF Named, Base, TypeOK, LocalUsers
<1>1. PICK raw \in Raws, about \in Abouts : Reported(raw, about)
  BY <1>0, AdministerReports
<1> DEFINE e == LedgerEntry(raw)
<1>2. Answers(e, about)
  BY <1>1, AdministerAnswers
<1>3. /\ Last \in Nat /\ Last' = Last + 1 /\ Last + 1 \in EventIds
      /\ DOMAIN events = 1 .. Last /\ DOMAIN events' = 1 .. Last + 1
      /\ \A i \in DOMAIN events : events'[i] = events[i] /\ Entry(i)' = Entry(i)
      /\ Entry(Last)' = e /\ events'[Last'].about = about
  BY <1>0, <1>1, LastReported
<1>4. UNCHANGED <<env, user, member, applied, processed>>
  BY <1>0, <1>1, ReportedIs DEF projection, task
<1> HIDE DEF e
<1>5. applied[Last + 1] = 0
  <2>1. /\ applied[Last + 1] \in Nat
        /\ sent[Last + 1] = 1 => Last + 1 \in ledger
        /\ applied[Last + 1] > 0 => sent[Last + 1] = 1
        /\ \A i \in ledger : i \in DOMAIN events
    BY <1>0, <1>3 DEF Base, TypeOK, RunsFollow, EnqueuedOnce, RowsFit
  <2>2. Last + 1 \notin DOMAIN events
    BY <1>3
  <2> QED
    BY <2>1, <2>2
<1>6. ASSUME NEW u \in Users, EarlierReplicated(u)' PROVE Settles(u)'
  <2>1. ASSUME NEW i \in DOMAIN events, events[i].about[1] = u PROVE Replicated(i)
    <3>1. i \in DOMAIN events' /\ i # Last' /\ events'[i].about[1] = u
      BY <1>3, <2>1
    <3>2. Replicated(i)'
      BY <1>6, <3>1 DEF EarlierReplicated
    <3> QED
      BY <1>3, <1>4, <2>1, <3>2 DEF Replicated
  <2>2. RowFollows(u, user[u]) /\ MembersFollow(u, member[u])
    BY <1>0, <2>1, FollowsNow
  <2>3. About(u)' <=> (about[1] = u /\ e # Ignored)
    <3>1. About(u)' <=> (Last' > 0 /\ events'[Last'].about[1] = u /\ Entry(Last)' # Ignored)
      BY DEF About
    <3>2. Last' > 0
      BY <1>3
    <3> QED
      BY <1>3, <3>1, <3>2
  <2>4. user[u] \in LocalUsers /\ member[u] \in SUBSET Groups
    BY <1>0
  <2>5. PICK row \in LocalUsers : row = user[u]
    BY <2>4
  <2>6. PICK held \in SUBSET Groups : held = member[u]
    BY <2>4
  <2>7. user'[u] = row /\ member'[u] = held /\ RowFollows(u, row) /\ MembersFollow(u, held)
    BY <1>4, <2>2, <2>5, <2>6
  <2>8. CASE about[1] = u /\ e # Ignored
    <3>1. RowFollows(u, RowAfter(e, row))' /\ MembersFollow(u, MembersAfter(e, held))'
      BY <1>2, <2>7, <2>8 DEF Answers
    <3>2. e.kind = "group_membership" => row.status # "none"
      BY <1>2, <2>7, <2>8 DEF Answers, RowFollows, Present
    <3>3. applied'[Last'] = 0
      BY <1>3, <1>4, <1>5
    <3>4. RowAfter(Entry(Last), user[u])' = RowAfter(e, row)
      BY <1>3, <2>7 DEF RowAfter, UserAfter, Upserted, Deactivated
    <3>5. MembersAfter(Entry(Last), member[u])' = MembersAfter(e, held)
      BY <1>3, <2>7 DEF MembersAfter
    <3>6. RowFollows(u, RowAfter(Entry(Last), user[u]))' /\ MembersFollow(u, MembersAfter(Entry(Last), member[u]))'
      BY <3>1, <3>4, <3>5 DEF RowFollows, MembersFollow
    <3> QED
      BY <1>3, <2>3, <2>7, <2>8, <3>2, <3>3, <3>6 DEF Settles
  <2>9. CASE ~ (about[1] = u /\ e # Ignored)
    <3>1. Kept(u)
      BY <1>2, <2>9 DEF Answers
    <3>2. RowFollows(u, row)' /\ MembersFollow(u, held)'
      BY <1>0, <1>1, <2>7, <3>1, KeptFollows
    <3>3. RowFollows(u, user[u])' /\ MembersFollow(u, member[u])'
      BY <2>7, <3>2 DEF RowFollows, MembersFollow
    <3> QED
      BY <2>3, <2>9, <3>3 DEF Settles
  <2> QED
    BY <2>8, <2>9
<1> QED
  BY <1>4, <1>6 DEF LastSettles

\* The run of the last event.
LEMMA SettlesApply ==
    ASSUME Named, RealmFits, OnlyLast, LastSettles, env.slow, env.sessions = {},
           NEW w \in Workers, Apply(w)
    PROVE  LastSettles'
<1>0. /\ Base /\ TypeOK /\ user \in [Users -> LocalUsers] /\ member \in [Users -> SUBSET Groups]
      /\ applied \in [EventIds -> Nat]
  BY DEF Named, Base, TypeOK, LocalUsers
<1>1. /\ UNCHANGED <<env, realm, groups, events, processed>>
      /\ applied' = [applied EXCEPT ![EventOf(w)] = applied[EventOf(w)] + 1] /\ Busy(w)
  BY DEF Apply, keycloak, Busy
<1>2. /\ EventOf(w) = Last /\ Last > 0 /\ Last \in EventIds
      /\ Fits(Entry(Last), events[Last].about) /\ Entry(Last) # Ignored
  BY <1>0, <1>1, BusyLast
<1>3. PICK e : e = Entry(Last)
  OBVIOUS
<1>4. Entry(Last)' = e /\ Last' = Last
  BY <1>1, <1>3 DEF Entry, Last
<1>5. \A u \in Users : About(u) <=> events[Last].about[1] = u
  BY <1>2 DEF About
<1>6. \A u \in Users : About(u)' <=> About(u)
  BY <1>1 DEF About, Last, Entry
<1>7. \A u \in Users : EarlierReplicated(u)' <=> EarlierReplicated(u)
  BY <1>1 DEF EarlierReplicated, Replicated, Entry, Last
<1>8. ASSUME NEW u \in Users, NEW row, NEW held
      PROVE  /\ RowFollows(u, row)' <=> RowFollows(u, row)
             /\ MembersFollow(u, held)' <=> MembersFollow(u, held)
  BY <1>1 DEF RowFollows, MembersFollow, Present, Unlinked, Gone
<1>9. ASSUME NEW u \in Users, ~ About(u) PROVE user'[u] = user[u] /\ member'[u] = member[u]
  <2>1. \/ user' = user /\ member' = member
        \/ e.sub \in Users /\ user' = [user EXCEPT ![e.sub] = UserAfter(e, user[e.sub])] /\ member' = member
           /\ e.kind = "user"
        \/ user' = user /\ \E x : member' = [member EXCEPT ![e.sub] = x] /\ e.kind = "group_membership"
    BY <1>2, <1>3 DEF Apply, projection, Fits
  <2>2. e.kind \in {"user", "group_membership"} => events[Last].about[1] = e.sub
    BY <1>2, <1>3 DEF Fits
  <2>3. e.sub # u \/ e.kind \notin {"user", "group_membership"}
    BY <1>5, <1>9, <2>2
  <2> QED
    BY <1>0, <2>1, <2>3
<1>10. ASSUME NEW u \in Users, About(u), Settles(u)
       PROVE  user'[u] = RowAfter(e, user[u]) /\ member'[u] = MembersAfter(e, member[u])
  <2>1. \/ e.kind = "user" /\ e.sub = u
        \/ e.kind = "group_membership" /\ e.sub = u /\ user[u].status # "none"
    BY <1>2, <1>3, <1>5, <1>10, NoneAssumption DEF Fits, Settles
  <2>2. CASE e.kind = "user"
    <3>1. user' = [user EXCEPT ![u] = UserAfter(e, user[u])] /\ member' = member
      BY <1>2, <1>3, <2>1, <2>2 DEF Apply
    <3> QED
      BY <1>0, <2>2, <3>1 DEF RowAfter, MembersAfter
  <2>3. CASE e.kind = "group_membership"
    <3>1. /\ user' = user
          /\ member' = [member EXCEPT ![u] = IF e.op = "CREATE" THEN member[u] \cup {e.group}
                                            ELSE member[u] \ {e.group}]
      BY <1>2, <1>3, <2>1, <2>3 DEF Apply
    <3> QED
      BY <1>0, <2>3, <3>1 DEF RowAfter, MembersAfter
  <2> QED
    BY <2>1, <2>2, <2>3
<1>11. ASSUME NEW u \in Users, EarlierReplicated(u)' PROVE Settles(u)'
  <2>1. Settles(u)
    BY <1>7, <1>11 DEF LastSettles
  <2>2. CASE ~ About(u)
    <3>1. RowFollows(u, user[u]) /\ MembersFollow(u, member[u]) /\ user'[u] = user[u] /\ member'[u] = member[u]
      BY <1>9, <2>1, <2>2 DEF Settles
    <3>2. RowFollows(u, user'[u]) /\ MembersFollow(u, member'[u])
      BY <3>1
    <3>3. RowFollows(u, user[u])' /\ MembersFollow(u, member[u])'
      BY <1>1, <3>2 DEF RowFollows, MembersFollow, Present, Unlinked, Gone
    <3> QED
      BY <1>6, <2>2, <3>3 DEF Settles
  <2>3. CASE About(u)
    <3>1. PICK row : row = RowAfter(e, user[u])
      OBVIOUS
    <3>2. PICK held : held = MembersAfter(e, member[u])
      OBVIOUS
    <3>3. user'[u] = row /\ member'[u] = held
      BY <1>10, <2>1, <2>3, <3>1, <3>2
    <3>4. RowAfter(e, row) = row /\ MembersAfter(e, held) = held
      <4>1. e.sub \in Users
        BY <1>2, <1>3, <1>5, <2>3, NoneAssumption DEF Fits
      <4> QED
        BY <1>0, <1>2, <1>3, <3>1, <3>2, <4>1, AppliedAgain
    <3>5. RowFollows(u, row) /\ MembersFollow(u, held)
      BY <1>3, <2>1, <2>3, <3>1, <3>2 DEF Settles
    <3>6. /\ RowAfter(Entry(Last), user[u])' = row
          /\ MembersAfter(Entry(Last), member[u])' = held
      BY <1>4, <3>3, <3>4 DEF RowAfter, UserAfter, Upserted, Deactivated, MembersAfter
    <3>7. RowFollows(u, RowAfter(Entry(Last), user[u]))' /\ MembersFollow(u, MembersAfter(Entry(Last), member[u]))'
      BY <1>8, <3>5, <3>6 DEF RowFollows, MembersFollow
    <3>8. e.kind = "group_membership" => row.status # "none"
      BY <1>3, <2>1, <2>3, <3>1 DEF Settles, RowAfter
    <3> QED
      BY <1>4, <1>6, <2>3, <3>3, <3>6, <3>7, <3>8 DEF Settles
  <2> QED
    BY <2>2, <2>3
<1> QED
  BY <1>1, <1>11 DEF LastSettles

\* Any other step of the pipeline.
LEMMA SettlesFrame ==
    ASSUME Base, LastSettles, UNCHANGED <<keycloak, projection, applied>>,
           \A i \in DOMAIN events : i # Last /\ Replicated(i)' => Replicated(i)
    PROVE  LastSettles'
<1>1. Last' = Last /\ events' = events /\ env' = env
  BY DEF keycloak, Last
<1>2. ASSUME NEW u \in Users, Settles(u) PROVE Settles(u)'
  <2> DEFINE row  == IF About(u) THEN RowAfter(Entry(Last), user[u]) ELSE user[u]
             held == IF About(u) THEN MembersAfter(Entry(Last), member[u]) ELSE member[u]
  <2>1. /\ realm' = realm /\ groups' = groups /\ user' = user /\ member' = member
        /\ applied' = applied
    BY DEF keycloak, projection
  <2>2. About(u)' = About(u) /\ Entry(Last)' = Entry(Last) /\ applied[Last]' = applied[Last]
    BY <1>1, <2>1 DEF About, Entry
  <2>3. row' = row /\ held' = held
    BY <2>1, <2>2 DEF RowAfter, MembersAfter, UserAfter, Upserted, Deactivated
  <2>4. /\ RowFollows(u, row) /\ MembersFollow(u, held)
        /\ About(u) /\ applied[Last] > 0 => user[u] = row /\ member[u] = held
        /\ About(u) /\ Entry(Last).kind = "group_membership" => user[u].status # "none"
    BY <1>2 DEF Settles
  <2> HIDE DEF row, held
  <2>5. RowFollows(u, row)'
    BY <1>1, <2>1, <2>3, <2>4 DEF RowFollows, Present, Unlinked
  <2>6. MembersFollow(u, held)'
    BY <1>1, <2>1, <2>3, <2>4 DEF MembersFollow, Gone
  <2> QED
    BY <2>1, <2>2, <2>3, <2>4, <2>5, <2>6 DEF Settles, row, held
<1>3. ASSUME NEW u \in Users, EarlierReplicated(u)' PROVE EarlierReplicated(u)
  BY <1>1, <1>3 DEF EarlierReplicated
<1> QED
  BY <1>1, <1>2, <1>3 DEF LastSettles

LEMMA SettlesStep ==
    ASSUME Named, RealmFits, OnlyLast, LastSettles, [Next]_vars, env.slow, env.sessions = {}
    PROVE  LastSettles'
<1>0. Base /\ TypeOK
  BY DEF Named, Base
<1>1. ASSUME UNCHANGED <<keycloak, projection, applied, processed>> PROVE LastSettles'
  BY <1>0, <1>1, SettlesFrame DEF keycloak, Replicated, Entry
<1>2. CASE UNCHANGED vars
  BY <1>1, <1>2 DEF vars, keycloak, projection
<1>3. CASE Administer
  BY <1>3, SettlesEmit
<1>4. ASSUME NEW i \in EventIds,
             PostLost(i) \/ PostDuplicated(i) \/ Deliver(i) \/ Delay(i) \/ WebCrash(i)
      PROVE  LastSettles'
  BY <1>0, <1>1, <1>4, WebhookSteps DEF task
<1>5. ASSUME NEW w \in Workers, Run(w) \/ WorkerCrash(w) \/ Redeliver(w) \/ TaskError(w)
      PROVE  LastSettles'
  <2>1. CASE Apply(w)
    BY <2>1, SettlesApply
  <2>2. CASE Mark(w)
    <3>1. /\ UNCHANGED <<keycloak, projection, applied>>
          /\ processed' = processed \cup {EventOf(w)} /\ Busy(w)
      BY <2>2 DEF Mark, Busy
    <3>2. EventOf(w) = Last
      BY <1>0, <3>1, BusyLast
    <3> QED
      BY <1>0, <3>1, <3>2, SettlesFrame DEF Replicated, Entry, keycloak
  <2>3. CASE ~ Apply(w) /\ ~ Mark(w)
    <3>1. UNCHANGED <<keycloak, projection, applied, processed>>
      BY <1>5, <2>3 DEF Run, WorkerCrash, Redeliver, TaskError, Fetch, ReadRow, ApplyRefused,
                        Acknowledge, task
    <3> QED
      BY <1>1, <3>1
  <2> QED
    BY <2>1, <2>2, <2>3
<1>6. CASE Visits
  BY <1>6 DEF Visits, IssueToken, RealmFits
<1> QED
  BY <1>0, <1>2, <1>3, <1>4, <1>5, <1>6, Steps

-----------------------------------------------------------------------------
(* Nothing is given up.                                                     *)

LEMMA DeletedStays ==
    ASSUME TypeOK, Administer, NEW v \in Users, realm[v].status = "deleted"
    PROVE  realm'[v].status = "deleted"
<1>0. realm \in [Users -> RealmUsers]
  BY DEF TypeOK, RealmUsers
<1>1. \/ realm' = realm
      \/ \E u \in Users : realm[u].status # "deleted" /\ \E new : realm' = [realm EXCEPT ![u] = new]
  <2>1. env.users \subseteq Users
    BY EnvTyped
  <2>2. ASSUME NEW u \in env.users,
               \/ \E enabled \in {"yes", "no"}, n \in env.usernames : AdminCreates(u, enabled, n)
               \/ \E enabled \in {"yes", "no", None}, n \in env.usernames \cup {None} :
                       AdminUpdates(u, enabled, n)
               \/ AdminDeletes(u)
        PROVE  realm[u].status # "deleted" /\ \E new : realm' = [realm EXCEPT ![u] = new]
    BY <2>2 DEF AdminCreates, AdminUpdates, AdminDeletes, Present
  <2>3. ASSUME NEW u \in env.users,
               \/ \E operation \in {"CREATE", "DELETE"} : AdminLinks(u, operation)
               \/ AdminActs(u)
               \/ \E g \in env.groups : AdminJoins(u, g) \/ AdminRemoves(u, g)
        PROVE  realm' = realm
    BY <2>3 DEF AdminLinks, AdminActs, AdminJoins, AdminRemoves
  <2>4. ASSUME NEW g \in env.groups,
               \/ \E id \in {g, None} : AdminCreatesGroup(g, id)
               \/ AdminUpdatesGroup(g)
               \/ AdminDeletesGroup(g)
        PROVE  realm' = realm
    BY <2>4 DEF AdminCreatesGroup, AdminUpdatesGroup, AdminDeletesGroup
  <2> QED
    BY <2>1, <2>2, <2>3, <2>4 DEF Administer
<1> QED
  BY <1>0, <1>1

LEMMA ReusedLasts ==
    ASSUME Named, RealmFits, OnlyLast, [Next]_vars, env.slow, env.sessions = {}, Reused
    PROVE  Reused'
<1>0. Base /\ TypeOK /\ user \in [Users -> LocalUsers]
  BY DEF Named, Base, TypeOK, LocalUsers
<1>1. PICK v \in Users, u \in Users : u # v /\ realm[v].status = "deleted" /\ user[v].name \in NamesOf(u)
  BY DEF Reused
<1>2. ASSUME realm'[v].status = "deleted", user'[v].name = user[v].name,
             \A n \in NamesOf(u) : n \in NamesOf(u)'
      PROVE  Reused'
  BY <1>1, <1>2 DEF Reused
<1>3. ASSUME UNCHANGED <<env, events, realm, user>> PROVE Reused'
  BY <1>1, <1>2, <1>3, SameNames
<1>4. CASE UNCHANGED vars
  BY <1>3, <1>4 DEF vars
<1>5. CASE Administer
  <2>1. PICK raw \in Raws, about \in Abouts : Reported(raw, about)
    BY <1>0, <1>5, AdministerReports
  <2>2. user' = user
    BY <1>0, <2>1, ReportedIs DEF projection
  <2>3. \A n \in NamesOf(u) : n \in NamesOf(u)'
    BY <1>0, <2>1, NamesGrow
  <2>4. realm'[v].status = "deleted"
    BY <1>0, <1>1, <1>5, DeletedStays
  <2> QED
    BY <1>2, <2>2, <2>3, <2>4
<1>6. ASSUME NEW i \in EventIds,
             PostLost(i) \/ PostDuplicated(i) \/ Deliver(i) \/ Delay(i) \/ WebCrash(i)
      PROVE  Reused'
  BY <1>0, <1>3, <1>6, WebhookSteps DEF keycloak, projection
<1>7. ASSUME NEW w \in Workers, Run(w) \/ WorkerCrash(w) \/ Redeliver(w) \/ TaskError(w)
      PROVE  Reused'
  <2>1. UNCHANGED <<env, events, realm>>
    BY <1>0, <1>7, WorkerSteps DEF keycloak
  <2>2. CASE user' = user
    BY <1>3, <2>1, <2>2
  <2>3. CASE user' # user
    <3>1. Apply(w)
      BY <1>7, <2>3 DEF Run, WorkerCrash, Redeliver, TaskError, Fetch, ReadRow, ApplyRefused, Mark,
                        Acknowledge, projection
    <3>2. Busy(w)
      BY <3>1 DEF Apply, Busy
    <3>3. /\ EventOf(w) = Last /\ Last > 0 /\ Entry(Last) # Ignored
          /\ Fits(Entry(Last), events[Last].about)
      BY <1>0, <3>2, BusyLast
    <3>4. PICK e : e = Entry(Last)
      OBVIOUS
    <3>5. e.kind = "user" /\ user' = [user EXCEPT ![e.sub] = UserAfter(e, user[e.sub])]
      BY <2>3, <3>1, <3>3, <3>4 DEF Apply, projection
    <3>6. e.sub \in Users /\ events[Last].about[1] = e.sub
      BY <3>3, <3>4, <3>5 DEF Fits
    <3>7. user'[v].name = user[v].name
      <4>1. CASE e.sub # v
        BY <1>0, <3>5, <4>1
      <4>2. CASE e.sub = v
        <5>1. About(v) /\ ~ Present(v)
          BY <1>1, <3>3, <3>6, <4>2 DEF About, Present
        <5>2. e.op = "DELETE"
          BY <3>4, <5>1 DEF RealmFits, Deletion
        <5>3. user'[v] = Deactivated(user[v]) /\ user[v] \in LocalUsers
          BY <1>0, <3>5, <4>2, <5>2 DEF UserAfter
        <5> QED
          BY <5>3, DeactivatedIs
      <4> QED
        BY <4>1, <4>2
    <3> QED
      BY <1>1, <1>2, <2>1, <3>7, SameNames
  <2> QED
    BY <2>2, <2>3
<1>8. CASE Visits
  BY <1>8 DEF Visits, IssueToken, RealmFits
<1> QED
  BY <1>0, <1>4, <1>5, <1>6, <1>7, <1>8, Steps

\* In order, and as long as no username of a deleted user is given again, no run is
\* refused: nobody's row has a username that Keycloak gave to another.
LEMMA NotRefused ==
    ASSUME Named, RealmFits, OnlyLast, LastSettles, env.slow, env.sessions = {}, ~ Reused,
           \A i \in DOMAIN events : Replicated(i) \/ UnderWay(i),
           NEW w \in Workers, Busy(w)
    PROVE  ~ Refused(Entry(EventOf(w)))
<1>0. /\ Base /\ TypeOK /\ \A u \in Users : UserNames(u)
      /\ \A u \in Users : Present(u) => realm[u].name \in NamesOf(u)
      /\ \A u, v \in Users : u # v /\ Present(u) /\ Present(v) => realm[u].name # realm[v].name
      /\ realm \in [Users -> RealmUsers]
  BY NamesKeptIs, RealmIs DEF Named, Base, TypeOK, RealmUsers
<1>1. /\ EventOf(w) = Last /\ Last > 0 /\ Entry(Last) # Ignored
      /\ Fits(Entry(Last), events[Last].about)
  BY <1>0, BusyLast
<1>2. PICK e : e = Entry(Last)
  OBVIOUS
<1>3. ASSUME NEW i \in DOMAIN events, i # Last PROVE Replicated(i)
  BY <1>3 DEF OnlyLast, UnderWay
<1>4. \A v \in Users : Settles(v)
  BY <1>3 DEF LastSettles, EarlierReplicated
<1>5. SUFFICES ASSUME e.kind = "user", e.op # "DELETE", NameTaken(e.sub, Upserted(user[e.sub], e).name)
               PROVE  FALSE
  BY <1>1, <1>2 DEF Refused
<1>6. PICK u \in Users : u = e.sub /\ events[Last].about[1] = u
  BY <1>1, <1>2, <1>5 DEF Fits
<1>7. About(u) /\ Present(u)
  BY <1>1, <1>2, <1>5, <1>6 DEF About, RealmFits, Deletion
<1>8. Upserted(user[u], e).name = realm[u].name
  <2>1. RowFollows(u, RowAfter(e, user[u]))
    BY <1>2, <1>4, <1>7 DEF Settles
  <2>2. RowAfter(e, user[u]) = Upserted(user[u], e)
    BY <1>5 DEF RowAfter, UserAfter
  <2> QED
    BY <1>7, <2>1, <2>2 DEF RowFollows
<1>9. PICK v \in Users \ {u} : user[v].name = realm[u].name /\ realm[u].name # None
  BY <1>5, <1>6, <1>8 DEF NameTaken
<1>10. RowFollows(v, user[v])
  <2>1. ~ About(v)
    BY <1>6, <1>9 DEF About
  <2> QED
    BY <1>4, <2>1 DEF Settles
<1>11. CASE realm[v].status = "absent"
  BY <1>0, <1>9, <1>10, <1>11 DEF RowFollows, UserNames
<1>12. CASE Present(v)
  BY <1>0, <1>7, <1>9, <1>10, <1>12 DEF RowFollows
<1>13. CASE realm[v].status = "deleted"
  BY <1>0, <1>7, <1>9, <1>13 DEF Reused
<1> QED
  BY <1>0, <1>11, <1>12, <1>13 DEF RealmUsers, Present

\* The parts of NothingGivenUp.
AllUnderWay == \A i \in DOMAIN events : Replicated(i) \/ UnderWay(i)

FewTries == /\ \A m \in Waiting(queue) : m.tries <= faults
            /\ \A w \in Workers : Busy(w) => work[w].msg.tries <= faults

LEMMA GivenUpEmit ==
    ASSUME Base, Administer, env.slow, AllUnderWay, FewTries
    PROVE  AllUnderWay' /\ FewTries'
<1>0. TypeOK /\ \A i \in ledger : i \in DOMAIN events
  BY DEF Base, RowsFit
<1>1. PICK raw \in Raws, about \in Abouts : Reported(raw, about)
  BY <1>0, AdministerReports
<1>2. /\ Quiet /\ Last' = Last + 1 /\ DOMAIN events' = 1 .. Last + 1 /\ DOMAIN events = 1 .. Last
      /\ Last \in Nat /\ Last + 1 \in EventIds
      /\ \A i \in DOMAIN events : Entry(i)' = Entry(i)
  BY <1>0, <1>1, LastReported
<1>3. /\ posts' = [posts EXCEPT ![Last + 1] = 1]
      /\ UNCHANGED <<ledger, toSend, queue, work, processed, faults>>
  BY <1>0, <1>1, ReportedIs DEF Last, broker, task
<1>4. posts'[Last + 1] = 1
  BY <1>0, <1>2, <1>3 DEF TypeOK
<1>5. ASSUME NEW i \in DOMAIN events PROVE Replicated(i)'
  <2>1. i \in EventIds
    BY <1>2, MaxEventsAssumption DEF EventIds
  <2>2. ~ UnderWay(i)
    BY <1>2, <2>1 DEF Quiet, UnderWay, Busy
  <2>3. Replicated(i)
    BY <2>2 DEF AllUnderWay
  <2> QED
    BY <1>2, <1>3, <2>3 DEF Replicated
<1>6. PICK k \in EventIds : k = Last + 1
  BY <1>2
<1>7. UnderWay(k)'
  <2>1. k \notin ledger /\ posts'[k] > 0
    BY <1>0, <1>2, <1>4, <1>6
  <2> QED
    BY <1>3, <2>1 DEF UnderWay
<1>8. \A i \in DOMAIN events' : i \in DOMAIN events \/ i = k
  BY <1>2, <1>6
<1>9. AllUnderWay'
  BY <1>5, <1>7, <1>8 DEF AllUnderWay
<1>10. FewTries'
  BY <1>3 DEF FewTries, Busy
<1> QED
  BY <1>9, <1>10

LEMMA GivenUpWebhook ==
    ASSUME Base, NEW j \in EventIds,
           PostLost(j) \/ PostDuplicated(j) \/ Deliver(j) \/ Delay(j) \/ WebCrash(j),
           ~ Lossy, AllUnderWay, FewTries
    PROVE  AllUnderWay' /\ FewTries'
<1>0. /\ TypeOK /\ posts \in [EventIds -> Nat] /\ ledger \subseteq EventIds
      /\ queue \in [Messages -> Nat] /\ faults \in Nat
      /\ \A w \in Workers : Busy(w) => work[w].msg.tries \in Nat
      /\ \A m \in Waiting(queue) : m.tries \in Nat
  <2>1. TypeOK /\ queue \in [Messages -> Nat]
    BY DEF Base, TypeOK
  <2>2. ASSUME NEW m \in Waiting(queue) PROVE m.tries \in Nat
    BY <2>1, WaitingIs, MaxRetriesAssumption
  <2>3. ASSUME NEW w \in Workers, Busy(w) PROVE work[w].msg.tries \in Nat
    BY <2>1, <2>3, MaxRetriesAssumption DEF TypeOK, Busy, Messages
  <2> QED
    BY <2>1, <2>2, <2>3 DEF TypeOK
<1>1. PostDuplicated(j) \/ Deliver(j) \/ Delay(j)
  BY DEF PostLost, WebCrash, Fault, Lossy
<1>2. UNCHANGED <<env, events, processed, work>>
  BY <1>1 DEF PostDuplicated, Deliver, Delay, keycloak, task
<1>3. \A i \in DOMAIN events : Replicated(i) => Replicated(i)'
  BY <1>2 DEF Replicated, Entry
<1>4. ASSUME NEW i \in DOMAIN events, UnderWay(i) PROVE Replicated(i)' \/ UnderWay(i)'
  <2>1. CASE \E w \in Workers : Busy(w) /\ EventOf(w) = i
    BY <1>2, <2>1 DEF UnderWay, Busy, EventOf
  <2>2. CASE PostDuplicated(j)
    <3>1. /\ posts' = [posts EXCEPT ![j] = posts[j] + 1] /\ j \in ledger
          /\ UNCHANGED <<ledger, toSend, queue>>
      BY <2>2 DEF PostDuplicated, broker
    <3>2. posts[i] > 0 /\ i \notin ledger => posts'[i] > 0
      BY <1>0, <3>1
    <3> QED
      BY <1>4, <2>1, <3>1, <3>2 DEF UnderWay
  <2>3. CASE Deliver(j)
    <3>1. posts' = [posts EXCEPT ![j] = posts[j] - 1] /\ queue' = queue
      BY <2>3 DEF Deliver, broker
    <3>2. \/ Entry(j) = Ignored /\ ledger' = ledger /\ toSend' = toSend
          \/ j \in ledger /\ ledger' = ledger /\ toSend' = toSend
          \/ ledger' = ledger \cup {j} /\ toSend' = toSend \cup {j}
      <4>1. CASE Entry(j) = Ignored \/ j \in ledger
        <5>1. ledger' = ledger \cup {} /\ toSend' = toSend \cup {}
          BY <2>3, <4>1 DEF Deliver
        <5> QED
          BY <4>1, <5>1
      <4>2. CASE Entry(j) # Ignored /\ j \notin ledger
        <5>1. {j} \ ledger = {j}
          BY <4>2
        <5> QED
          BY <2>3, <4>2, <5>1 DEF Deliver
      <4> QED
        BY <4>1, <4>2
    <3>3. CASE i # j
      <4>1. posts'[i] = posts[i] \/ i \in ledger
        BY <1>0, <3>1, <3>3 DEF Base, RowsFit
      <4>2. (i \in ledger' => i \in ledger) /\ (i \in toSend => i \in toSend')
        BY <3>2, <3>3
      <4> QED
        BY <1>0, <1>4, <2>1, <3>1, <4>1, <4>2 DEF UnderWay
    <3>4. CASE i = j
      <4>1. CASE Entry(j) = Ignored
        BY <1>2, <3>4, <4>1 DEF Replicated, Entry
      <4>2. CASE j \in ledger /\ ledger' = ledger /\ toSend' = toSend
        BY <1>4, <2>1, <3>1, <3>4, <4>2 DEF UnderWay
      <4>3. CASE toSend' = toSend \cup {j}
        BY <3>4, <4>3 DEF UnderWay
      <4> QED
        BY <3>2, <4>1, <4>2, <4>3
    <3> QED
      BY <3>3, <3>4
  <2>4. CASE Delay(j)
    <3>1. /\ posts' = posts /\ ledger' = ledger /\ toSend' = toSend \ {j}
          /\ queue' = Sent(queue, Message(j, 0))
      BY <2>4 DEF Delay
    <3>2. PICK first \in Messages : first = Message(j, 0) /\ first.job = j
      BY FirstTry
    <3>3. \A m : m \in Waiting(queue') <=> m \in Waiting(queue) \/ m = first
      BY <1>0, <3>1, <3>2, SentIs
    <3> QED
      BY <1>4, <2>1, <3>1, <3>2, <3>3 DEF UnderWay
  <2> QED
    BY <1>1, <2>2, <2>3, <2>4
<1>5. AllUnderWay'
  BY <1>2, <1>3, <1>4 DEF AllUnderWay
<1>6. FewTries'
  <2>1. faults' \in Nat /\ faults <= faults'
    BY <1>0, <1>1 DEF PostDuplicated, Deliver, Delay, Fault
  <2>2. \A w \in Workers : Busy(w)' => work'[w].msg.tries <= faults'
    BY <1>0, <1>2, <2>1 DEF FewTries, Busy
  <2>3. ASSUME NEW m \in Waiting(queue') PROVE m.tries <= faults'
    <3>1. CASE queue' = queue
      BY <1>0, <2>1, <2>3, <3>1 DEF FewTries
    <3>2. CASE queue' = Sent(queue, Message(j, 0))
      <4>1. PICK first \in Messages : first = Message(j, 0) /\ first.tries = 0
        BY FirstTry
      <4>2. m \in Waiting(queue) \/ m = first
        BY <1>0, <2>3, <3>2, <4>1, SentIs
      <4> QED
        BY <1>0, <2>1, <4>1, <4>2 DEF FewTries
    <3> QED
      BY <1>1, <3>1, <3>2 DEF PostDuplicated, Deliver, Delay, broker
  <2> QED
    BY <2>2, <2>3 DEF FewTries
<1> QED
  BY <1>5, <1>6

LEMMA GivenUpWorker ==
    ASSUME Base, NEW w \in Workers, Run(w) \/ WorkerCrash(w) \/ Redeliver(w) \/ TaskError(w),
           Busy(w) => ~ Refused(Entry(EventOf(w))),
           ~ Lossy, AllUnderWay, FewTries
    PROVE  AllUnderWay' /\ FewTries'
<1>0. /\ TypeOK /\ queue \in [Messages -> Nat] /\ faults \in Nat /\ processed \subseteq EventIds
      /\ env.maxFaults \in Nat /\ env.maxFaults <= MaxRetries /\ MaxRetries \in Nat
      /\ \A v \in Workers : Busy(v) => work[v].msg \in Messages /\ work[v].msg.tries \in Nat
      /\ \A m \in Waiting(queue) : m.tries \in Nat
  <2>1. /\ TypeOK /\ queue \in [Messages -> Nat] /\ faults \in Nat /\ processed \subseteq EventIds
        /\ MaxRetries \in Nat
    BY MaxRetriesAssumption DEF Base, TypeOK
  <2>2. ASSUME NEW m \in Waiting(queue) PROVE m.tries \in Nat
    BY <2>1, WaitingIs, MaxRetriesAssumption
  <2>3. ASSUME NEW v \in Workers, Busy(v) PROVE work[v].msg \in Messages /\ work[v].msg.tries \in Nat
    BY <2>1, <2>3, MaxRetriesAssumption DEF TypeOK, Busy, Messages
  <2>4. env.maxFaults \in Nat /\ env.maxFaults <= MaxRetries
    <3>1. ~ (env.maxFaults > MaxRetries)
      BY DEF Lossy
    <3>2. env.maxFaults \in Nat
      BY <2>1, EnvTyped
    <3>3. \A x \in Nat : ~ (x > MaxRetries) => x <= MaxRetries
      BY <2>1
    <3> QED
      BY <3>1, <3>2, <3>3
  <2> QED
    BY <2>1, <2>2, <2>3, <2>4
<1>1. /\ UNCHANGED <<keycloak, webhook, sent, sessions>>
      /\ \A v \in Workers \ {w} : work'[v] = work[v]
      /\ \/ \E m \in Waiting(queue) : Takes(w, m)
         \/ Moves(w)
         \/ LetsGo(w)
         \/ Doubles(w)
  BY <1>0, WorkerSteps
<1>2. \A i \in DOMAIN events : Replicated(i) => Replicated(i)'
  BY <1>1 DEF Replicated, Entry, keycloak, Takes, Moves, LetsGo, Doubles
\* What becomes of a message that waits, and of the one that w handles.
<1>3. \A v \in Workers \ {w} : (Busy(v)' <=> Busy(v)) /\ EventOf(v)' = EventOf(v)
  BY <1>1 DEF Busy, EventOf
<1>4. /\ faults' \in Nat /\ faults <= faults'
      /\ \A m \in Waiting(queue) : m \in Waiting(queue') \/ (Busy(w)' /\ work'[w].msg = m)
      /\ Busy(w) => \/ Busy(w)' /\ work'[w].msg = work[w].msg
                    \/ EventOf(w) \in processed
                    \/ \E m \in Waiting(queue') : m.job = EventOf(w)
      /\ \A m \in Waiting(queue') : m.tries <= faults'
      /\ Busy(w)' => work'[w].msg.tries <= faults'
  <2>1. CASE \E m \in Waiting(queue) : Takes(w, m)
    <3>1. PICK m \in Waiting(queue) : Takes(w, m)
      BY <2>1
    <3>2. queue' = Taken(queue, m) /\ Busy(w)' /\ work'[w].msg = m /\ faults' = faults /\ ~ Busy(w)
      BY <3>1 DEF Takes, Busy
    <3>3. /\ \A n \in Waiting(queue') : n \in Waiting(queue)
          /\ \A n \in Waiting(queue) : n # m => n \in Waiting(queue')
      BY <1>0, <3>2, TakenIs
    <3> QED
      BY <1>0, <3>2, <3>3 DEF FewTries
  <2>2. CASE Moves(w)
    <3>1. queue' = queue /\ Busy(w) /\ Busy(w)' /\ work'[w].msg = work[w].msg /\ faults' = faults
      BY <2>2 DEF Moves, Busy
    <3> QED
      BY <1>0, <3>1 DEF FewTries
  <2>3. CASE LetsGo(w)
    <3>0. Busy(w) /\ ~ Busy(w)' /\ work[w].msg \in Messages /\ work[w].msg.tries <= faults
      BY <1>0, <2>3 DEF LetsGo, FewTries
    <3>1. CASE work[w].pc = "ack" /\ queue' = queue /\ faults' = faults
      <4>1. EventOf(w) \in processed
        BY <3>1 DEF Base, RunsFollow
      <4> QED
        BY <1>0, <3>0, <3>1, <4>1 DEF FewTries
    <3>2. CASE /\ faults < env.maxFaults /\ faults' = faults + 1
               /\ queue' = Retried(queue, work[w].msg, MaxRetries)
      <4>1. work[w].msg.tries < MaxRetries
        BY <1>0, <3>0, <3>2
      <4>2. PICK n \in Messages : /\ n.job = work[w].msg.job /\ n.tries = work[w].msg.tries + 1
                                  /\ queue' = Sent(queue, n)
        BY <1>0, <3>0, <3>2, <4>1, RetriedIs
      <4>3. \A m : m \in Waiting(queue') <=> m \in Waiting(queue) \/ m = n
        BY <1>0, <4>2, SentIs
      <4>4. n.tries <= faults'
        BY <1>0, <3>0, <3>2, <4>2
      <4>5. \A m \in Waiting(queue) : m.tries <= faults'
        BY <1>0, <3>2 DEF FewTries
      <4>6. n.job = EventOf(w)
        BY <4>2 DEF EventOf
      <4> QED
        BY <1>0, <3>0, <3>2, <4>3, <4>4, <4>5, <4>6
    <3>3. CASE faults' = faults + 1 /\ queue' = Sent(queue, work[w].msg)
      <4>1. \A m : m \in Waiting(queue') <=> m \in Waiting(queue) \/ m = work[w].msg
        BY <1>0, <3>0, <3>3, SentIs
      <4>2. \A m \in Waiting(queue') : m.tries <= faults'
        BY <1>0, <3>0, <3>3, <4>1 DEF FewTries
      <4> QED
        BY <1>0, <3>0, <3>3, <4>1, <4>2 DEF EventOf
    <3> QED
      BY <2>3, <3>0, <3>1, <3>2, <3>3 DEF LetsGo
  <2>4. CASE Doubles(w)
    <3>1. /\ Busy(w) /\ work' = work /\ queue' = Sent(queue, work[w].msg) /\ faults' = faults + 1
          /\ work[w].msg \in Messages /\ work[w].msg.tries <= faults
      BY <1>0, <2>4 DEF Doubles, FewTries
    <3>2. \A m : m \in Waiting(queue') <=> m \in Waiting(queue) \/ m = work[w].msg
      BY <1>0, <3>1, SentIs
    <3>3. \A m \in Waiting(queue') : m.tries <= faults'
      BY <1>0, <3>1, <3>2 DEF FewTries
    <3> QED
      BY <1>0, <3>1, <3>2, <3>3 DEF Busy
  <2> QED
    BY <1>1, <2>1, <2>2, <2>3, <2>4
<1>5. FewTries'
  <2>1. \A v \in Workers \ {w} : Busy(v)' => work'[v].msg.tries <= faults'
    BY <1>0, <1>1, <1>3, <1>4 DEF FewTries
  <2> QED
    BY <1>4, <2>1 DEF FewTries
<1>6. ASSUME NEW i \in DOMAIN events, UnderWay(i) PROVE Replicated(i)' \/ UnderWay(i)'
  <2>0. posts' = posts /\ ledger' = ledger /\ toSend' = toSend
    BY <1>1 DEF webhook
  <2>1. CASE (posts[i] > 0 /\ i \notin ledger) \/ i \in toSend
    BY <2>0, <2>1 DEF UnderWay
  <2>2. CASE \E m \in Waiting(queue) : m.job = i
    <3>1. PICK m \in Waiting(queue) : m.job = i
      BY <2>2
    <3>2. m \in Waiting(queue') \/ (Busy(w)' /\ EventOf(w)' = i)
      BY <1>4, <3>1 DEF EventOf
    <3> QED
      BY <3>1, <3>2 DEF UnderWay
  <2>3. CASE \E v \in Workers : Busy(v) /\ EventOf(v) = i
    <3>1. PICK v \in Workers : Busy(v) /\ EventOf(v) = i
      BY <2>3
    <3>2. CASE v # w
      <4>1. Busy(v)' /\ EventOf(v)' = i
        BY <1>3, <3>1, <3>2
      <4> QED
        BY <4>1 DEF UnderWay
    <3>3. CASE v = w
      <4>1. CASE EventOf(w) \in processed
        BY <1>2, <3>1, <3>3, <4>1 DEF Replicated
      <4>2. CASE Busy(w)' /\ work'[w].msg = work[w].msg
        <5>1. Busy(w)' /\ EventOf(w)' = i
          BY <3>1, <3>3, <4>2 DEF EventOf
        <5> QED
          BY <5>1 DEF UnderWay
      <4>3. CASE \E m \in Waiting(queue') : m.job = EventOf(w)
        BY <3>1, <3>3, <4>3 DEF UnderWay
      <4> QED
        BY <1>4, <3>1, <3>3, <4>1, <4>2, <4>3
    <3> QED
      BY <3>2, <3>3
  <2> QED
    BY <1>6, <2>1, <2>2, <2>3 DEF UnderWay
<1>7. AllUnderWay'
  <2>1. events' = events
    BY <1>1 DEF keycloak
  <2> QED
    BY <1>2, <1>6, <2>1 DEF AllUnderWay
<1> QED
  BY <1>5, <1>7

LEMMA EnvStays ==
    ASSUME TypeOK, [Next]_vars
    PROVE  env' = env
<1>1. CASE Administer
  <2>1. PICK raw \in Raws, about \in Abouts : Reported(raw, about)
    BY <1>1, AdministerReports
  <2> QED
    BY <2>1, ReportedIs
<1>2. CASE ~ Administer
  BY <1>2, Steps, WebhookSteps, WorkerSteps, VisitsFrame DEF keycloak, vars
<1> QED
  BY <1>1, <1>2

LEMMA NothingGivenUpStep ==
    ASSUME Named, FollowInv, [Next]_vars
    PROVE  NothingGivenUp'
<1>0. /\ Base /\ TypeOK /\ RealmFits /\ OnlyLast /\ LastSettles /\ NothingGivenUp
      /\ env' = env
  BY EnvStays DEF Named, Base, FollowInv
<1>1. SUFFICES ASSUME env.slow, env.sessions = {}, ~ Lossy, ~ Reused'
               PROVE  AllUnderWay' /\ FewTries'
  BY <1>0 DEF NothingGivenUp, Lossy, AllUnderWay, FewTries
<1>2. ~ Reused
  BY <1>0, <1>1, ReusedLasts
<1>3. AllUnderWay /\ FewTries
  BY <1>0, <1>1, <1>2 DEF NothingGivenUp, AllUnderWay, FewTries
<1>4. CASE UNCHANGED vars
  BY <1>3, <1>4 DEF vars, AllUnderWay, FewTries, Replicated, UnderWay, Entry, Busy, EventOf
<1>5. CASE Administer
  BY <1>0, <1>1, <1>3, <1>5, GivenUpEmit
<1>6. ASSUME NEW j \in EventIds,
             PostLost(j) \/ PostDuplicated(j) \/ Deliver(j) \/ Delay(j) \/ WebCrash(j)
      PROVE  AllUnderWay' /\ FewTries'
  BY <1>0, <1>1, <1>3, <1>6, GivenUpWebhook
<1>7. ASSUME NEW w \in Workers, Run(w) \/ WorkerCrash(w) \/ Redeliver(w) \/ TaskError(w)
      PROVE  AllUnderWay' /\ FewTries'
  <2>1. Busy(w) => ~ Refused(Entry(EventOf(w)))
    BY <1>0, <1>1, <1>2, <1>3, NotRefused DEF AllUnderWay
  <2> QED
    BY <1>0, <1>1, <1>3, <1>7, <2>1, GivenUpWorker
<1>8. CASE Visits
  BY <1>0, <1>1, <1>8 DEF Visits, IssueToken, RealmFits
<1> QED
  BY <1>0, <1>4, <1>5, <1>6, <1>7, <1>8, Steps

LEMMA FollowStep ==
    ASSUME Named, FollowInv, [Next]_vars
    PROVE  FollowInv'
<1>1. RealmFits /\ OnlyLast /\ LastSettles /\ Base /\ env' = env
  BY EnvStays DEF FollowInv, Named, Base
<1>2. RealmFits'
  BY <1>1, RealmStep
<1>3. OnlyLast'
  <2>1. CASE env.slow
    BY <1>1, <2>1, OnlyLastStep
  <2>2. CASE ~ env.slow
    BY <1>1, <2>2 DEF OnlyLast
  <2> QED
    BY <2>1, <2>2
<1>4. LastSettles'
  <2>1. CASE env.slow /\ env.sessions = {}
    BY <1>1, <2>1, SettlesStep
  <2>2. CASE ~ (env.slow /\ env.sessions = {})
    BY <1>1, <2>2 DEF LastSettles
  <2> QED
    BY <2>1, <2>2
<1>5. NothingGivenUp'
  BY NothingGivenUpStep
<1> QED
  BY <1>2, <1>3, <1>4, <1>5 DEF FollowInv

LEMMA InitFollow ==
    ASSUME Init
    PROVE  FollowInv
<1>1. /\ events = << >> /\ groups = member
      /\ \A w \in Workers : ~ Busy(w)
      /\ \A u \in Users : IF u \in DOMAIN env.known
                         THEN realm[u] = Person("enabled", env.known[u]) /\ user[u] = Person("active", env.known[u])
                         ELSE realm[u] = Person("absent", None) /\ user[u] = Person("none", None)
  BY DEF Init, Idle, Busy
<1>2. Waiting(queue) = {}
  BY DEF Init, NoMessages, Waiting
<1>3. Last = 0 /\ DOMAIN events = {}
  BY <1>1 DEF Last
<1>4. ASSUME NEW u \in Users PROVE Settles(u)
  <2>1. RowFollows(u, user[u])
    <3>1. CASE u \in DOMAIN env.known
      <4>0. realm[u] = Person("enabled", env.known[u]) /\ user[u] = Person("active", env.known[u])
        BY <1>1, <3>1
      <4>1. /\ realm[u].status = "enabled" /\ user[u].status = "active"
            /\ user[u].name = realm[u].name
        BY <4>0 DEF Person
      <4> QED
        BY <4>1 DEF RowFollows
    <3>2. CASE u \notin DOMAIN env.known
      <4>0. realm[u] = Person("absent", None) /\ user[u] = Person("none", None)
        BY <1>1, <3>2
      <4>1. realm[u].status = "absent" /\ user[u].status = "none"
        BY <4>0 DEF Person
      <4> QED
        BY <4>1 DEF RowFollows, Present
    <3> QED
      BY <3>1, <3>2
  <2>2. MembersFollow(u, member[u])
    BY <1>1 DEF MembersFollow
  <2>3. ~ About(u)
    BY <1>3 DEF About
  <2> QED
    BY <2>1, <2>2, <2>3 DEF Settles
<1>5. OnlyLast
  BY <1>3 DEF OnlyLast
<1>6. LastSettles
  BY <1>4 DEF LastSettles
<1>7. NothingGivenUp
  BY <1>1, <1>2, <1>3 DEF NothingGivenUp
<1> QED
  BY <1>5, <1>6, <1>7, InitRealm DEF FollowInv

\* In order, the last event makes of the projection of its user what Keycloak holds,
\* whatever is lost or repeated, and nothing is given up but what is lost for good.
THEOREM LastEventSettles == Spec => []FollowInv
<1>1. Named /\ FollowInv /\ [Next]_vars => FollowInv'
  BY FollowStep
<1> QED
  BY <1>1, InitFollow, NamesInOrder, PTL DEF Spec

\* As soon as nothing is under way, the projection of a user whose events were all
\* processed is what Keycloak holds, and they all were, unless some were lost or a
\* username that the row of a deleted user keeps was given again
\* (tasks.py:41-52, replication.py:28-66).
THEOREM ProjectionKeepsUp == Spec => []ProjectionFollows
<1>1. ASSUME Named, FollowInv PROVE ProjectionFollows
  <2>0. Base /\ TypeOK /\ LastSettles /\ NothingGivenUp
    BY <1>1 DEF Named, Base, FollowInv
  <2>1. SUFFICES ASSUME env.slow, env.sessions = {}, Quiet
                 PROVE  /\ \A u \in Users : (\A i \in DOMAIN events : events[i].about[1] = u => Replicated(i)) =>
                               RowFollows(u, user[u]) /\ MembersFollow(u, member[u])
                        /\ Lossy \/ Reused \/ \A i \in DOMAIN events : Replicated(i)
    BY DEF ProjectionFollows
  <2>2. ASSUME NEW u \in Users, \A i \in DOMAIN events : events[i].about[1] = u => Replicated(i)
        PROVE  RowFollows(u, user[u]) /\ MembersFollow(u, member[u])
    BY <2>0, <2>1, <2>2, FollowsNow
  <2>3. ASSUME ~ Lossy, ~ Reused, NEW i \in DOMAIN events PROVE Replicated(i)
    <3>1. i \in EventIds
      <4>1. Last \in Nat /\ DOMAIN events = 1 .. Last /\ Last <= MaxEvents
        BY <2>0, LastIs DEF TypeOK, Last
      <4> QED
        BY <2>3, <4>1, MaxEventsAssumption DEF EventIds
    <3>2. ~ UnderWay(i)
      BY <2>1, <3>1 DEF Quiet, UnderWay, Busy
    <3> QED
      BY <2>0, <2>1, <2>3, <3>2 DEF NothingGivenUp
  <2> QED
    BY <2>2, <2>3
<1> QED
  BY <1>1, LastEventSettles, NamesInOrder, PTL

\* The inductive invariant, with all its parts.
THEOREM InductiveInvariant == Spec => []IInv
<1>1. PipelineInv /\ FollowInv => IInv
  BY DEF IInv
<1> QED
  BY <1>1, PipelineInvariant, LastEventSettles, PTL
=============================================================================
