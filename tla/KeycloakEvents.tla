--------------------------- MODULE KeycloakEvents ---------------------------
(***************************************************************************)
(* Replication of Keycloak users and group memberships: the admin events   *)
(* the Keycloak SPI posts, the webhook keycloak_events with its dedupe     *)
(* ledger, the broker, the Celery task process_keycloak_admin_event, the   *)
(* login of a bearer token, which projects the same state, and the command *)
(* provision_user, which writes the same rows.                             *)
(*                                                                         *)
(* Keycloak itself, the network and the broker are the environment; what   *)
(* it does in a behaviour, and what goes wrong, is chosen at first from    *)
(* the constant Environments.  A group stands for the organization it maps *)
(* to (see OrgReplication), and of the attributes of a user the username,  *)
(* which is unique, and `enabled` are kept.                                *)
(***************************************************************************)
EXTENDS Naturals, Sequences, FiniteSets, CeleryBroker, AdminEvents

CONSTANTS Users,        \* Keycloak subs
          Groups,
          Usernames,
          Parent,       \* the parent of each group, None for a top-level group
          Workers,      \* Celery worker processes
          Sessions,     \* requests that authenticate a bearer token, and commands
          MaxEvents,    \* bound: changes made in Keycloak
          MaxRetries,   \* max_retries of the task
          Environments  \* see EnvironmentsAssumption

ASSUME MaxEventsAssumption == MaxEvents \in Nat
ASSUME MaxRetriesAssumption == MaxRetries \in Nat
ASSUME NoneAssumption == None \notin Users \cup Groups \cup Usernames \cup {"yes", "no"}
ASSUME ParentAssumption == Parent \in [Groups -> Groups \cup {None}]
ASSUME WordsAssumption == "groups" \notin Users

AllOps == {"create", "update", "rename", "delete", "join", "leave", "link", "group", "ungroup",
           "ignored", "provision"}

AllFaults == {"post lost", "duplicate", "web crash", "worker crash", "ack lost", "redelivery",
              "task error"}

\* Which users there are and which of them are known, each with a username of its
\* own, from the start; how many changes Keycloak makes and of what kind, and
\* whether it makes one only when all before have been processed; who is at work;
\* and how many faults there are, and of what kind.
ASSUME EnvironmentsAssumption ==
    \A e \in Environments :
        /\ e.users \subseteq Users /\ DOMAIN e.known \subseteq e.users
        /\ \A u \in DOMAIN e.known : e.known[u] \in e.usernames
        /\ \A u, v \in DOMAIN e.known : e.known[u] = e.known[v] => u = v
        /\ e.usernames \subseteq Usernames /\ e.groups \subseteq Groups
        /\ e.maxEvents \in 0 .. MaxEvents /\ e.ops \subseteq AllOps /\ e.slow \in BOOLEAN
        /\ e.workers \subseteq Workers /\ e.sessions \subseteq Sessions
        /\ e.faults \subseteq AllFaults /\ e.maxFaults \in Nat

VARIABLES
    env,       \* the environment
    realm,     \* each user in Keycloak: [status, name]
    groups,    \* the groups of each user in Keycloak
    events,    \* the admin events, in the order they happened
    posts,     \* copies of each event on their way to the webhook
    ledger,    \* events with a committed KeycloakReplicationEvent row
    toSend,    \* rows whose request has not called delay() yet
    queue,     \* messages waiting in the broker
    sent,      \* how many times delay() was called for each event
    work,      \* the message each worker runs, and how far it is
    applied,   \* how many times each event was applied to the projection
    processed, \* rows with processed_at
    user,      \* the local User row of each sub: [status, name]
    member,    \* the groups in whose organization each user is an active member
    tokens,    \* bearer tokens that have not expired
    login,     \* what each session does
    faults     \* faults so far

vars == <<env, realm, groups, events, posts, ledger, toSend, queue, sent, work, applied,
          processed, user, member, tokens, login, faults>>

keycloak   == <<env, realm, groups, events>>
webhook    == <<posts, ledger, toSend>>
broker     == <<queue, sent>>
task       == <<work, applied, processed>>
projection == <<user, member>>
sessions   == <<tokens, login>>

EventIds == 1 .. MaxEvents

Idle == [pc |-> "idle", msg |-> Message(0, 0)]

Person(status, name) == [status |-> status, name |-> name]

\* A session: its token, and the username it read in the local row.
LoggedOut == [pc |-> "idle", user |-> None, name |-> None, groups |-> {}, read |-> None]

-----------------------------------------------------------------------------
Init ==
    /\ env \in Environments
    /\ realm = [u \in Users |-> IF u \in DOMAIN env.known THEN Person("enabled", env.known[u])
                              ELSE Person("absent", None)]
    /\ groups \in {f \in [Users -> SUBSET env.groups] : \A u \in Users \ DOMAIN env.known : f[u] = {}}
    /\ events = << >>
    /\ posts = [i \in EventIds |-> 0]
    /\ ledger = {}
    /\ toSend = {}
    /\ queue = NoMessages(EventIds, MaxRetries)
    /\ sent = [i \in EventIds |-> 0]
    /\ work = [w \in Workers |-> Idle]
    /\ applied = [i \in EventIds |-> 0]
    /\ processed = {}
    /\ user = [u \in Users |-> IF u \in DOMAIN env.known THEN Person("active", env.known[u])
                             ELSE Person("none", None)]
    /\ member = groups
    /\ tokens = {}
    /\ login = [s \in Sessions |-> LoggedOut]
    /\ faults = 0

Fault(kind) == kind \in env.faults /\ faults < env.maxFaults /\ faults' = faults + 1

\* Nothing is under way.
Quiet ==
    /\ \A i \in EventIds : posts[i] = 0
    /\ toSend = {}
    /\ Waiting(queue) = {}
    /\ \A w \in Workers : work[w].pc = "idle"

-----------------------------------------------------------------------------
(* Keycloak and its SPI.                                                    *)

\* onEvent posts the event once and does not wait for the answer.  `about` is
\* the user and the group that the event is really about.
Emit(op, type, operation, path, rep, about) ==
    /\ op \in env.ops
    /\ Len(events) < env.maxEvents
    /\ env.slow => Quiet
    /\ events' = Append(events, [raw |-> [type |-> type, op |-> operation, path |-> path, rep |-> rep],
                                 about |-> about])
    /\ posts' = [posts EXCEPT ![Len(events) + 1] = 1]
    /\ UNCHANGED <<env, ledger, toSend, broker, task, projection, sessions, faults>>

Present(u) == realm[u].status \in {"enabled", "disabled"}

FreeName(n) == \A u \in Users : Present(u) => realm[u].name # n

Status(enabled) == IF enabled = "yes" THEN "enabled" ELSE "disabled"

\* An administrator creates, updates or deletes a user.  The representation of
\* an update need not say whether the user is enabled, nor its username.
AdminCreates(u, enabled, n) ==
    /\ realm[u].status = "absent" /\ FreeName(n)
    /\ realm' = [realm EXCEPT ![u] = Person(Status(enabled), n)]
    /\ UNCHANGED groups
    /\ Emit("create", "USER", "CREATE", <<"users", u>>,
            [NoRep EXCEPT !.username = n, !.enabled = enabled], <<u, None>>)

AdminUpdates(u, enabled, n) ==
    /\ Present(u)
    /\ n # None => FreeName(n) /\ enabled = None
    /\ realm' = [realm EXCEPT ![u] = Person(IF enabled = None THEN @.status ELSE Status(enabled),
                                            Either(n, @.name))]
    /\ UNCHANGED groups
    /\ Emit(IF n = None THEN "update" ELSE "rename", "USER", "UPDATE", <<"users", u>>,
            [NoRep EXCEPT !.id = u, !.username = n, !.enabled = enabled], <<u, None>>)

AdminDeletes(u) ==
    /\ Present(u)
    /\ realm' = [realm EXCEPT ![u] = Person("deleted", None)]
    /\ groups' = [groups EXCEPT ![u] = {}]
    /\ Emit("delete", "USER", "DELETE", <<"users", u>>, NoRep, <<u, None>>)

\* A federated identity is linked or unlinked: a USER event below users/{id}.
AdminLinks(u, operation) ==
    /\ Present(u)
    /\ UNCHANGED <<realm, groups>>
    /\ Emit("link", "USER", operation, <<"users", u, "federated-identity", "idp">>, NoRep, <<u, None>>)

GroupPath(g) == IF Parent[g] = None THEN <<g>> ELSE <<Parent[g], g>>

\* Groups that were deleted, and those that may not have been there at first.
Gone == {events[i].about[2] : i \in {j \in DOMAIN events :
            events[j].raw.type = "GROUP" /\ events[j].raw.op = "DELETE"}}

Unused(g) == /\ \A i \in DOMAIN events : events[i].about[2] # g
             /\ \A u \in Users : g \notin groups[u]

\* An administrator puts a user into a group, or takes it out.
GroupRep(g) == [NoRep EXCEPT !.id = g, !.name = g, !.path = GroupPath(g)]

AdminJoins(u, g) ==
    /\ Present(u) /\ g \notin groups[u] \cup Gone
    /\ groups' = [groups EXCEPT ![u] = @ \cup {g}]
    /\ UNCHANGED realm
    /\ Emit("join", "GROUP_MEMBERSHIP", "CREATE", <<"users", u, "groups", g>>, GroupRep(g), <<u, g>>)

AdminRemoves(u, g) ==
    /\ g \in groups[u]
    /\ groups' = [groups EXCEPT ![u] = @ \ {g}]
    /\ UNCHANGED realm
    /\ Emit("leave", "GROUP_MEMBERSHIP", "DELETE", <<"users", u, "groups", g>>, GroupRep(g), <<u, g>>)

\* A group is created (the representation has no path, and may have no id), or
\* changed, or deleted with its memberships.
AdminCreatesGroup(g, id) ==
    /\ Unused(g)
    /\ UNCHANGED <<realm, groups>>
    /\ Emit("group", "GROUP", "CREATE",
            IF Parent[g] = None THEN <<"groups", g>> ELSE <<"groups", Parent[g], "children">>,
            [NoRep EXCEPT !.id = id, !.name = g], <<None, g>>)

AdminUpdatesGroup(g) ==
    /\ g \notin Gone
    /\ UNCHANGED <<realm, groups>>
    /\ Emit("group", "GROUP", "UPDATE", <<"groups", g>>, GroupRep(g), <<None, g>>)

AdminDeletesGroup(g) ==
    /\ g \notin Gone
    /\ groups' = [u \in Users |-> groups[u] \ {g}]
    /\ UNCHANGED realm
    /\ Emit("ungroup", "GROUP", "DELETE", <<"groups", g>>, NoRep, <<None, g>>)

\* An event that is not replicated.
AdminActs(u) ==
    /\ Present(u)
    /\ UNCHANGED <<realm, groups>>
    /\ \/ Emit("ignored", "USER", "ACTION", <<"users", u, "reset-password">>, NoRep, <<u, None>>)
       \/ Emit("ignored", "REALM_ROLE_MAPPING", "CREATE", <<"users", u, "role-mappings", "realm">>,
               NoRep, <<u, None>>)

\* The POST fails, or the webhook answers with an error: the SPI logs it.
PostLost(i) ==
    /\ posts[i] > 0
    /\ Fault("post lost")
    /\ posts' = [posts EXCEPT ![i] = @ - 1]
    /\ UNCHANGED <<keycloak, ledger, toSend, broker, task, projection, sessions>>

\* The same POST reaches the webhook again.
PostDuplicated(i) ==
    /\ i \in ledger
    /\ Fault("duplicate")
    /\ posts' = [posts EXCEPT ![i] = @ + 1]
    /\ UNCHANGED <<keycloak, ledger, toSend, broker, task, projection, sessions>>

-----------------------------------------------------------------------------
(* The webhook.                                                             *)

Entry(i) == LedgerEntry(events[i].raw)

\* Mutant: a redelivered event is enqueued like a new one.
Deliver_EnqueuesAgain(i) ==
    /\ posts[i] > 0
    /\ posts' = [posts EXCEPT ![i] = @ - 1]
    /\ LET new == IF Entry(i) = Ignored THEN {} ELSE {i}
       IN  ledger' = ledger \cup new /\ toSend' = toSend \cup new
    /\ UNCHANGED <<keycloak, broker, task, projection, sessions, faults>>

\* get_or_create of the ledger row, committed; a redelivered event finds it, and
\* an ignored one gets none.
Deliver(i) ==
    /\ posts[i] > 0
    /\ posts' = [posts EXCEPT ![i] = @ - 1]
    /\ LET new == IF Entry(i) = Ignored THEN {} ELSE {i} \ ledger
       IN  ledger' = ledger \cup new /\ toSend' = toSend \cup new
    /\ UNCHANGED <<keycloak, broker, task, projection, sessions, faults>>

\* The request that created the row calls delay().
Delay(i) ==
    /\ i \in toSend
    /\ toSend' = toSend \ {i}
    /\ queue' = Sent(queue, Message(i, 0))
    /\ sent' = [sent EXCEPT ![i] = @ + 1]
    /\ UNCHANGED <<keycloak, posts, ledger, task, projection, sessions, faults>>

\* The web process dies, or the broker refuses, after the row is committed.
WebCrash(i) ==
    /\ i \in toSend
    /\ Fault("web crash")
    /\ toSend' = toSend \ {i}
    /\ UNCHANGED <<keycloak, posts, ledger, broker, task, projection, sessions>>

-----------------------------------------------------------------------------
(* The task process_keycloak_admin_event.                                   *)

Goto(w, pc) == work' = [work EXCEPT ![w].pc = pc]

EventOf(w) == work[w].msg.job

Fetch(w) ==
    /\ work[w].pc = "idle"
    /\ \E m \in Waiting(queue) :
        /\ queue' = Taken(queue, m)
        /\ work' = [work EXCEPT ![w] = [pc |-> "read", msg |-> m]]
    /\ UNCHANGED <<keycloak, webhook, sent, applied, processed, projection, sessions,
                   faults>>

\* Mutant: a run does not look at processed_at.
ReadRow_NoShortCircuit(w) ==
    /\ work[w].pc = "read"
    /\ Goto(w, "apply")
    /\ UNCHANGED <<keycloak, webhook, broker, applied, processed, projection, sessions,
                   faults>>

\* Mutant: processed_at is saved before the projection is written.
ReadRow_MarksFirst(w) ==
    /\ work[w].pc = "read"
    /\ Goto(w, IF EventOf(w) \in processed THEN "ack" ELSE "apply")
    /\ processed' = processed \cup {EventOf(w)}
    /\ UNCHANGED <<keycloak, webhook, broker, applied, projection, sessions, faults>>

\* The row is read; a processed one ends the run.
ReadRow(w) ==
    /\ work[w].pc = "read"
    /\ Goto(w, IF EventOf(w) \in processed THEN "ack" ELSE "apply")
    /\ UNCHANGED <<keycloak, webhook, broker, applied, processed, projection, sessions,
                   faults>>

\* Mutant: an inactive user lets go of its username.
NameTaken_ActiveOnly(u, n) ==
    n # None /\ \E v \in Users \ {u} : user[v].status = "active" /\ user[v].name = n

\* Another row has the username (UNIQUE), also one that is not active any more.
NameTaken(u, n) == n # None /\ \E v \in Users \ {u} : user[v].name = n

\* upsert_user_projection: a new row is active, with the sub for a username,
\* unless the event says otherwise.
Upserted(row, e) ==
    Person(CASE e.enabled = "yes" -> "active"
             [] e.enabled = "no"  -> "inactive"
             [] OTHER             -> IF row.status = "none" THEN "active" ELSE row.status,
           Either(e.username, Either(row.name, e.sub)))

\* deactivate_user_projection.
Deactivated(row) == IF row.status = "active" THEN [row EXCEPT !.status = "inactive"] ELSE row

\* Mutant: a DELETE event takes the upsert path.
UserAfter_DeleteUpserts(e, row) == Upserted(row, e)

UserAfter(e, row) == IF e.op = "DELETE" THEN Deactivated(row) ELSE Upserted(row, e)

\* The username that the row would get is one that the database refuses.
Refused(e) == e.kind = "user" /\ e.op # "DELETE" /\ NameTaken(e.sub, Upserted(user[e.sub], e).name)

\* The event is applied to the projection, in transactions of its own; that of a
\* membership whose user is not there is skipped.  OrgReplication has the groups.
Apply(w) ==
    LET e == Entry(EventOf(w))
    IN  /\ work[w].pc = "apply"
        /\ ~ Refused(e)
        /\ Goto(w, "mark")
        /\ applied' = [applied EXCEPT ![EventOf(w)] = @ + 1]
        /\ \/ /\ e.kind = "user"
              /\ user' = [user EXCEPT ![e.sub] = UserAfter(e, @)]
              /\ UNCHANGED member
           \/ e.kind = "group" /\ UNCHANGED projection
           \/ /\ e.kind = "group_membership"
              /\ user[e.sub].status = "none"
              /\ UNCHANGED projection
           \/ /\ e.kind = "group_membership"
              /\ user[e.sub].status # "none"
              /\ member' = [member EXCEPT ![e.sub] =
                              IF e.op = "CREATE" THEN @ \cup {e.group} ELSE @ \ {e.group}]
              /\ UNCHANGED user
        /\ UNCHANGED <<keycloak, webhook, broker, processed, sessions, faults>>

\* IntegrityError: the task is retried, or given up.
ApplyRefused(w) ==
    /\ work[w].pc = "apply"
    /\ Refused(Entry(EventOf(w)))
    /\ queue' = Retried(queue, work[w].msg, MaxRetries)
    /\ work' = [work EXCEPT ![w] = Idle]
    /\ UNCHANGED <<keycloak, webhook, sent, applied, processed, projection, sessions, faults>>

\* processed_at is saved.
Mark(w) ==
    /\ work[w].pc = "mark"
    /\ Goto(w, "ack")
    /\ processed' = processed \cup {EventOf(w)}
    /\ UNCHANGED <<keycloak, webhook, broker, applied, projection, sessions, faults>>

Acknowledge(w) ==
    /\ work[w].pc = "ack"
    /\ work' = [work EXCEPT ![w] = Idle]
    /\ UNCHANGED <<keycloak, webhook, broker, applied, processed, projection, sessions,
                   faults>>

\* The worker process is lost before the acknowledgement.
WorkerCrash(w) ==
    /\ work[w].pc # "idle"
    /\ Fault(IF work[w].pc = "ack" THEN "ack lost" ELSE "worker crash")
    /\ queue' = Sent(queue, work[w].msg)
    /\ work' = [work EXCEPT ![w] = Idle]
    /\ UNCHANGED <<keycloak, webhook, sent, applied, processed, projection, sessions>>

\* The visibility timeout of the broker ends while the worker still runs.
Redeliver(w) ==
    /\ work[w].pc # "idle"
    /\ Fault("redelivery")
    /\ queue' = Sent(queue, work[w].msg)
    /\ UNCHANGED <<keycloak, webhook, sent, task, projection, sessions>>

\* Any exception, say of the database: what the failing step did rolls back and
\* the task is retried, or given up.
TaskError(w) ==
    /\ work[w].pc \in {"read", "apply", "mark"}
    /\ Fault("task error")
    /\ queue' = Retried(queue, work[w].msg, MaxRetries)
    /\ work' = [work EXCEPT ![w] = Idle]
    /\ UNCHANGED <<keycloak, webhook, sent, applied, processed, projection, sessions>>

-----------------------------------------------------------------------------
(* Logins: every authenticated request projects its token.                  *)

\* Keycloak issues a token with the username and groups of the moment.
IssueToken(u) ==
    /\ env.sessions # {}
    /\ realm[u].status = "enabled"
    /\ tokens' = tokens \cup {[user |-> u, name |-> realm[u].name, groups |-> groups[u]]}
    /\ UNCHANGED <<keycloak, webhook, broker, task, projection, login, faults>>

ExpireToken(k) ==
    /\ tokens' = tokens \ {k}
    /\ UNCHANGED <<keycloak, webhook, broker, task, projection, login, faults>>

\* resolve_user_from_claims reads the row, without a lock; no row or an
\* inactive one is an authentication error, and nothing else happens.
Resolve(s, k) ==
    /\ login[s].pc = "idle"
    /\ user[k.user].status = "active"
    /\ login' = [login EXCEPT ![s] = [pc |-> "sync", user |-> k.user, name |-> k.name,
                                     groups |-> k.groups, read |-> user[k.user].name]]
    /\ UNCHANGED <<keycloak, webhook, broker, task, projection, tokens, faults>>

\* Mutant: the whole row that was read is saved.
SyncProjection_WholeRow(s) ==
    /\ login[s].pc = "sync"
    /\ login' = [login EXCEPT ![s].pc = "reconcile"]
    /\ user' = [user EXCEPT ![login[s].user] = Person("active", login[s].name)]
    /\ UNCHANGED <<keycloak, webhook, broker, task, member, tokens, faults>>

\* sync_user_projection saves what differs between the claims and the row that
\* was read, `enabled` never being a claim; a username that is taken is an error
\* nobody catches, and ends the request.
SyncProjection(s) ==
    LET q == login[s]
        renames == q.name # q.read
    IN  /\ q.pc = "sync"
        /\ IF renames /\ NameTaken(q.user, q.name)
           THEN login' = [login EXCEPT ![s] = LoggedOut] /\ UNCHANGED user
           ELSE /\ login' = [login EXCEPT ![s].pc = "reconcile"]
                /\ user' = IF renames THEN [user EXCEPT ![q.user].name = q.name] ELSE user
        /\ UNCHANGED <<keycloak, webhook, broker, task, member, tokens, faults>>

\* Mutant: the reconciliation adds memberships but does not prune.
Reconcile_NoPrune(s) ==
    /\ login[s].pc = "reconcile"
    /\ member' = [member EXCEPT ![login[s].user] = @ \cup login[s].groups]
    /\ login' = [login EXCEPT ![s] = LoggedOut]
    /\ UNCHANGED <<keycloak, webhook, broker, task, user, tokens, faults>>

\* reconcile_from_claims: the memberships become those of the token.
Reconcile(s) ==
    /\ login[s].pc = "reconcile"
    /\ member' = [member EXCEPT ![login[s].user] = login[s].groups]
    /\ login' = [login EXCEPT ![s] = LoggedOut]
    /\ UNCHANGED <<keycloak, webhook, broker, task, user, tokens, faults>>

\* It fails, or the groups claim is absent: the request goes on without it.
ReconcileSkipped(s) ==
    /\ login[s].pc = "reconcile"
    /\ login' = [login EXCEPT ![s] = LoggedOut]
    /\ UNCHANGED <<keycloak, webhook, broker, task, projection, tokens, faults>>

\* provision_user gets the row, or creates it with the sub for a username ...
ProvisionGet(s, u) ==
    /\ "provision" \in env.ops /\ login[s].pc = "idle"
    /\ user[u].status # "none"
    /\ login' = [login EXCEPT ![s] = [LoggedOut EXCEPT !.pc = "provision", !.user = u,
                                                     !.read = user[u].name]]
    /\ UNCHANGED <<keycloak, webhook, broker, task, projection, tokens, faults>>

ProvisionCreate(s, u) ==
    /\ "provision" \in env.ops /\ login[s].pc = "idle"
    /\ user[u].status = "none" /\ ~ NameTaken(u, u)
    /\ user' = [user EXCEPT ![u] = Person("active", u)]
    /\ UNCHANGED <<keycloak, webhook, broker, task, member, sessions, faults>>

\* ... and saves the whole row as it read it, but active, unless meanwhile its
\* username went to another row.
ProvisionSave(s) ==
    LET q == login[s] IN
    /\ q.pc = "provision"
    /\ login' = [login EXCEPT ![s] = LoggedOut]
    /\ user' = IF NameTaken(q.user, q.read) THEN user
               ELSE [user EXCEPT ![q.user] = Person("active", q.read)]
    /\ UNCHANGED <<keycloak, webhook, broker, task, member, tokens, faults>>

-----------------------------------------------------------------------------
Administer ==
    \/ \E u \in env.users :
        \/ \E enabled \in {"yes", "no"}, n \in env.usernames : AdminCreates(u, enabled, n)
        \/ \E enabled \in {"yes", "no", None}, n \in env.usernames \cup {None} :
                AdminUpdates(u, enabled, n)
        \/ AdminDeletes(u)
        \/ \E operation \in {"CREATE", "DELETE"} : AdminLinks(u, operation)
        \/ AdminActs(u)
        \/ \E g \in env.groups : AdminJoins(u, g) \/ AdminRemoves(u, g)
    \/ \E g \in env.groups :
        \/ \E id \in {g, None} : AdminCreatesGroup(g, id)
        \/ AdminUpdatesGroup(g)
        \/ AdminDeletesGroup(g)

Run(w) ==
    Fetch(w) \/ ReadRow(w) \/ Apply(w) \/ ApplyRefused(w) \/ Mark(w) \/ Acknowledge(w)

Next ==
    \/ Administer
    \/ \E i \in EventIds :
        PostLost(i) \/ PostDuplicated(i) \/ Deliver(i) \/ Delay(i) \/ WebCrash(i)
    \/ \E w \in env.workers : Run(w) \/ WorkerCrash(w) \/ Redeliver(w) \/ TaskError(w)
    \/ \E u \in env.users : IssueToken(u)
    \/ \E k \in tokens : ExpireToken(k) \/ \E s \in env.sessions : Resolve(s, k)
    \/ \E s \in env.sessions :
        \/ SyncProjection(s) \/ Reconcile(s) \/ ReconcileSkipped(s)
        \/ ProvisionSave(s)
        \/ \E u \in env.users : ProvisionGet(s, u) \/ ProvisionCreate(s, u)

Spec == Init /\ [][Next]_vars

\* The network delivers what is not lost, a live web process enqueues, and live
\* workers drain the broker.
PipelineFairness ==
    /\ \A i \in EventIds : WF_vars(Deliver(i)) /\ WF_vars(Delay(i))
    /\ \A w \in Workers : WF_vars(Run(w))

\* Does the token say what Keycloak does now?
Fresh(k) == k.groups = groups[k.user] /\ k.name = realm[k.user].name

\* Tokens expire, and users keep coming back with a fresh one.
LoginFairness ==
    /\ \A u \in Users :
        /\ SF_vars(IssueToken(u))
        /\ WF_vars(\E k \in tokens : k.user = u /\ ~ Fresh(k) /\ ExpireToken(k))
        /\ \A s \in Sessions : SF_vars(\E k \in tokens : k.user = u /\ Fresh(k) /\ Resolve(s, k))
    /\ \A s \in Sessions : /\ WF_vars(SyncProjection(s) \/ ProvisionSave(s))
                           /\ SF_vars(Reconcile(s))
                           /\ WF_vars(ReconcileSkipped(s) \/ Reconcile(s))

FairSpec == Spec /\ PipelineFairness /\ LoginFairness

-----------------------------------------------------------------------------
(* Properties.                                                              *)

Names == Usernames \cup Users \cup {None}

Messages == [job : EventIds, tries : 0 .. MaxRetries]

Segments == Users \cup Groups \cup {"users", "groups", "children", "federated-identity", "idp",
                                 "reset-password", "role-mappings", "realm"}

Raws == [type : {"USER", "GROUP_MEMBERSHIP", "GROUP", "REALM_ROLE_MAPPING"},
         op : {"CREATE", "UPDATE", "DELETE", "ACTION"}, path : Seq(Segments),
         rep : [id : Users \cup Groups \cup {None}, username : Usernames \cup {None},
                enabled : {"yes", "no", None}, name : Groups \cup {None},
                path : {GroupPath(g) : g \in Groups} \cup {None}]]

\* The types, which the other properties presuppose.
TypeOK ==
    /\ env \in Environments
    /\ realm \in [Users -> [status : {"absent", "enabled", "disabled", "deleted"},
                            name : Usernames \cup {None}]]
    /\ groups \in [Users -> SUBSET Groups]
    /\ events \in Seq([raw : Raws, about : (Users \cup {None}) \X (Groups \cup {None})])
    /\ Len(events) <= MaxEvents
    /\ posts \in [EventIds -> Nat]
    /\ ledger \subseteq EventIds /\ toSend \subseteq EventIds /\ processed \subseteq EventIds
    /\ queue \in [Messages -> Nat]
    /\ sent \in [EventIds -> Nat]
    /\ work \in [Workers -> [pc : {"idle", "read", "apply", "mark", "ack"},
                             msg : Messages \cup {Message(0, 0)}]]
    /\ \A w \in Workers : work[w].pc # "idle" => work[w].msg \in Messages
    /\ applied \in [EventIds -> Nat]
    /\ user \in [Users -> [status : {"none", "active", "inactive"}, name : Names]]
    /\ member \in [Users -> SUBSET Groups]
    /\ tokens \subseteq [user : Users, name : Usernames \cup {None}, groups : SUBSET Groups]
    /\ login \in [Sessions -> [pc : {"idle", "sync", "reconcile", "provision"},
                               user : Users \cup {None}, name : Usernames \cup {None},
                               groups : SUBSET Groups, read : Names]]
    /\ \A s \in Sessions : login[s].pc # "idle" => login[s].user \in Users
    /\ faults \in Nat /\ faults <= env.maxFaults

\* However often an event reaches the webhook, it is enqueued once, after its
\* row is committed ("re-delivered events never enqueue duplicate work",
\* webhooks.py:395-397).
EnqueuedOnce == \A i \in EventIds : sent[i] <= 1 /\ (sent[i] = 1 => i \in ledger \ toSend)

\* The row of an event names the user and the group that changed in Keycloak,
\* not a parent of the group, and no path but the group's (webhooks.py:150-155,
\* 265-273).
EntriesFit ==
    \A i \in ledger :
        /\ <<Entry(i).sub, Entry(i).group>> = events[i].about
        /\ Entry(i).path # None => Entry(i).path = GroupPath(Entry(i).group)

\* A row gets its processed_at only after its projection write landed
\* (models.py:86-93), so a crash between the two loses no event.
MarkedWasApplied == \A i \in processed : applied[i] >= 1

\* The usernames the user u ever had in Keycloak.
NamesOf(u) ==
    ({Entry(i).username : i \in {j \in DOMAIN events : events[j].about[1] = u}} \cup
        (IF u \in DOMAIN env.known THEN {env.known[u]} ELSE {})) \ {None}

\* Another user had the username of the event i at some time, or has its sub for
\* a username.
NameClash(i) ==
    \E v \in Users \ {Entry(i).sub} : \/ Entry(i).username \in NamesOf(v) \cup {v}
                                      \/ Entry(i).sub \in NamesOf(v)

\* An event that was enqueued and is not processed is in the broker or with a
\* worker, through crashes, redeliveries and retries, as long as the retries
\* last (base.py: CELERY_TASK_ACKS_LATE, CELERY_TASK_REJECT_ON_WORKER_LOST) and
\* nobody else ever had its username.
NeverStranded ==
    env.maxFaults <= MaxRetries =>
        \A i \in EventIds : sent[i] > 0 =>
            \/ i \in processed
            \/ \E m \in Waiting(queue) : m.job = i
            \/ \E w \in Workers : work[w].pc \in {"read", "apply", "mark"} /\ EventOf(w) = i
            \/ NameClash(i)

\* An event is applied at most once (tasks.py:37-39), even if it is posted or
\* delivered again.
AppliedAtMostOnce ==
    env.faults \subseteq {"duplicate", "ack lost"} => \A i \in EventIds : applied[i] <= 1

\* What makes these inductive.  The row of an event, if it gets one, says what it
\* is about; of what kind it is, and which user and group it has.
Fits(e, about) ==
    /\ e.op \in {"none", "CREATE", "UPDATE", "DELETE"}
    /\ e.username \in Usernames \cup {None} /\ e.enabled \in {"yes", "no", None}
    /\ e # Ignored =>
        /\ <<e.sub, e.group>> = about
        /\ e.path # None => e.path = GroupPath(e.group)
        /\ \/ e.kind = "user" /\ e.sub \in Users
           \/ e.kind = "group" /\ e.username = None /\ e.sub = None
           \/ e.kind = "group_membership" /\ e.username = None /\ e.sub \in Users /\ e.group \in Groups

RowsFit ==
    /\ \A i \in EventIds : posts[i] > 0 => i \in DOMAIN events
    /\ \A i \in DOMAIN events : Fits(Entry(i), events[i].about)
    /\ \A i \in ledger : i \in DOMAIN events /\ Entry(i) # Ignored

\* A message, a run and a mark come after the one delay() of a committed row.
Busy(w) == work[w].pc # "idle"

RunsFollow ==
    /\ EnqueuedOnce /\ toSend \subseteq ledger /\ MarkedWasApplied
    /\ \A m \in Waiting(queue) : sent[m.job] = 1
    /\ \A w \in Workers :
        /\ Busy(w) => sent[EventOf(w)] = 1
        /\ work[w].pc = "mark" => applied[EventOf(w)] >= 1
        /\ work[w].pc = "ack" => EventOf(w) \in processed
    /\ \A i \in EventIds : applied[i] > 0 => sent[i] = 1

\* Every username in sight is one of its user, and no two rows share one.
NamesKept ==
    /\ \A u \in Users :
        /\ Present(u) => realm[u].name \in NamesOf(u)
        /\ user[u].name \in NamesOf(u) \cup {u, None}
        /\ user[u].status = "none" <=> user[u].name = None
        /\ \A v \in Users \ {u} : user[u].name = user[v].name => user[u].name = None
    /\ \A k \in tokens : k.name \in NamesOf(k.user)
    /\ \A s \in Sessions : login[s].pc # "idle" =>
        /\ user[login[s].user].status # "none"
        /\ login[s].pc = "sync" => login[s].name \in NamesOf(login[s].user)
        /\ login[s].read \in NamesOf(login[s].user) \cup {login[s].user}

\* A message that is left or under way was retried for faults only, or its
\* username clashes.
RetriesLast ==
    /\ \A m \in Waiting(queue) : m.tries <= faults \/ NameClash(m.job)
    /\ \A w \in Workers : Busy(w) => work[w].msg.tries <= faults \/ NameClash(EventOf(w))
    /\ NeverStranded

\* If no run is lost or repeated, there is one message or run of an event at a
\* time, and it is applied by the first.
OneRun ==
    env.faults \subseteq {"duplicate", "ack lost"} =>
        /\ \A m \in Waiting(queue) :
            /\ queue[m] = 1
            /\ \A n \in Waiting(queue) : n.job = m.job => n = m
            /\ \A w \in Workers : Busy(w) => EventOf(w) # m.job
            /\ applied[m.job] = 0 \/ m.job \in processed
        /\ \A w \in Workers : Busy(w) =>
            /\ \A v \in Workers \ {w} : Busy(v) => EventOf(v) # EventOf(w)
            /\ work[w].pc = "read" => applied[EventOf(w)] = 0 \/ EventOf(w) \in processed
            /\ work[w].pc = "apply" => applied[EventOf(w)] = 0
        /\ AppliedAtMostOnce

PipelineInv == TypeOK /\ RowsFit /\ RunsFollow /\ NamesKept /\ RetriesLast /\ OneRun

\* An inactive user is activated by the run of an admin event that says so, or by
\* provision_user, never by a login, even one that read the row before it was
\* deactivated (replication.py:58-60).
LoginNeverActivates ==
    [][\A u \in Users : user[u].status = "inactive" /\ user'[u].status = "active" =>
          \/ \E w \in Workers : /\ work[w].pc = "apply"
                                /\ Entry(EventOf(w)).sub = u /\ Entry(EventOf(w)).enabled = "yes"
          \/ \E s \in Sessions : login[s].pc = "provision" /\ login[s].user = u]_vars

\* An event that needs no run, or had one.
Replicated(i) == Entry(i) = Ignored \/ i \in processed

\* Posts or runs may be lost for good.
Lossy == env.faults \cap {"post lost", "web crash"} # {} \/ env.maxFaults > MaxRetries

\* A username that the row of a user keeps, whom Keycloak deleted, was another's too.
Reused ==
    \E v \in Users : /\ realm[v].status = "deleted"
                     /\ \E u \in Users \ {v} : user[v].name \in NamesOf(u)

Unlinked(u) ==
    \E i \in DOMAIN events : /\ events[i].about[1] = u
                             /\ events[i].raw.op = "DELETE" /\ Len(events[i].raw.path) = 4
                             /\ events[i].raw.type = "USER"

\* Is this what Keycloak holds: whether u is there and active, his username, and,
\* but for deleted groups, his memberships?  Not so for who is active after a
\* federated identity was unlinked.
RowFollows(u, row) ==
    /\ row.status = "none" <=> realm[u].status = "absent"
    /\ Present(u) => row.name = realm[u].name
    /\ ~ Unlinked(u) => (row.status = "active" <=> realm[u].status = "enabled")

MembersFollow(u, held) ==
    realm[u].status # "deleted" => groups[u] \subseteq held /\ held \subseteq groups[u] \cup Gone

\* If every event is delivered in order, then as soon as nothing is under way
\* the projection of a user is what Keycloak holds, if his events were all
\* processed; and they all were, unless some were lost, or a username was given
\* again that the row of a deleted user keeps.
ProjectionFollows ==
    env.slow /\ env.sessions = {} /\ Quiet =>
        /\ \A u \in Users : (\A i \in DOMAIN events : events[i].about[1] = u => Replicated(i)) =>
               RowFollows(u, user[u]) /\ MembersFollow(u, member[u])
        /\ Lossy \/ Reused \/ \A i \in DOMAIN events : Replicated(i)

\* What makes it inductive.  A user is there after an event about him, if it is not
\* his deletion, and while he is in a group, and nobody else has his username in
\* Keycloak.
Last == Len(events)

About(u) == Last > 0 /\ events[Last].about[1] = u /\ Entry(Last) # Ignored

Deletion(e) == e.kind = "user" /\ e.op = "DELETE"

RealmFits ==
    /\ \A u \in Users : About(u) => Present(u) \/ Deletion(Entry(Last))
    /\ \A u \in Users : groups[u] # {} => Present(u)
    /\ \A u, v \in Users : u # v /\ Present(u) /\ Present(v) => realm[u].name # realm[v].name
    /\ env.sessions = {} => tokens = {}

\* In order, only the last event is under way.
OnlyLast ==
    env.slow => \A i \in DOMAIN events : i # Last =>
        /\ posts[i] > 0 => i \in ledger
        /\ i \notin toSend
        /\ \A m \in Waiting(queue) : m.job # i
        /\ \A w \in Workers : Busy(w) => EventOf(w) # i

\* It makes of the projection of its user what Keycloak holds, or did so already.
RowAfter(e, row) == IF e.kind = "user" THEN UserAfter(e, row) ELSE row

MembersAfter(e, held) ==
    IF e.kind # "group_membership" THEN held
    ELSE IF e.op = "CREATE" THEN held \cup {e.group} ELSE held \ {e.group}

Settles(u) ==
    LET row  == IF About(u) THEN RowAfter(Entry(Last), user[u]) ELSE user[u]
        held == IF About(u) THEN MembersAfter(Entry(Last), member[u]) ELSE member[u]
    IN  /\ RowFollows(u, row) /\ MembersFollow(u, held)
        /\ About(u) /\ applied[Last] > 0 => user[u] = row /\ member[u] = held
        /\ About(u) /\ Entry(Last).kind = "group_membership" => user[u].status # "none"

EarlierReplicated(u) ==
    \A i \in DOMAIN events : i # Last /\ events[i].about[1] = u => Replicated(i)

LastSettles ==
    env.slow /\ env.sessions = {} => \A u \in Users : EarlierReplicated(u) => Settles(u)

\* Nothing is given up: an event is under way until it is processed.
UnderWay(i) ==
    \/ posts[i] > 0 /\ i \notin ledger
    \/ i \in toSend
    \/ \E m \in Waiting(queue) : m.job = i
    \/ \E w \in Workers : Busy(w) /\ EventOf(w) = i

NothingGivenUp ==
    env.slow /\ env.sessions = {} /\ ~ Lossy /\ ~ Reused =>
        /\ \A i \in DOMAIN events : Replicated(i) \/ UnderWay(i)
        /\ \A m \in Waiting(queue) : m.tries <= faults
        /\ \A w \in Workers : Busy(w) => work[w].msg.tries <= faults

FollowInv == RealmFits /\ OnlyLast /\ LastSettles /\ NothingGivenUp

IInv == PipelineInv /\ FollowInv

\* Whatever was lost, repeated or reordered: once Keycloak is quiet, the
\* memberships and the username of a user who keeps logging in become those of
\* Keycloak and stay so (org_replication.py:9-12: the login reconciles
\* authoritatively).
MembershipsConverge ==
    \A u \in Users :
        <>[](realm[u].status = "enabled" /\ user[u].status = "active"
                => member[u] = groups[u] /\ user[u].name = realm[u].name)
=============================================================================
