# Verification of the SGDyPA backend

TLA+ modules of the parts of this Django backend whose correctness depends on
interleaving: the hash-chained audit ledger and its partitions, idempotent
requests with their asynchronous jobs, and the replication of Keycloak users,
groups and memberships, with the decisions that rest on them. TLC checks each
module on small instances; TLAPS proves, for all values of their constants, every
safety property of these modules, the refinement of the ledger, and what roles and
scopes permit.

`PROJECT.json` lists components, runs, hazards, findings and theorems, and
`map` gives for each definition the lines of the source it stands for.
Paths below are relative to `src/`.

## 1. Inventory

The backend is a set of Django applications over one PostgreSQL database, with
Celery workers behind a Redis broker, and Keycloak as identity provider. All
processes (web workers, Celery workers, management commands, migrations) share
the database and nothing else; they meet in rows, row locks and unique keys, at
READ COMMITTED, the isolation level Django leaves in place.

| Component | State | Operations | Meets |
|---|---|---|---|
| Audit ledger, `apps/trail/services.py`, `models.py` | `TRAIL_ENTRY` rows of a tenant (sequence, hashes), one `LEDGER_HEAD` row with the tip | `append_trail_entry` inside the caller's transaction; update and delete are refused | other appends of the tenant (head row lock); partitions. No production code calls it yet, only tests |
| Partitions, `apps/trail/partitioning.py`, `signals.py`, `management/commands/`, migration `0004` | one table per tenant, DEFAULT, detached archives | signal on a new organization, `ensure_trail_partitions`, `archive_trail_partition`, migration and its reverse | appends (table locks), each other |
| Idempotent requests and jobs, `apps/platform/idempotency.py`, `views.py`, `tasks.py`, `models.py`, `middleware.py` | `IdempotencyRecord` by (organization, key), `AsyncJob` | `POST /platform/async-jobs`, task `complete_async_job` | broker, other requests with the key |
| User replication, `docker/keycloak/spi`, `apps/identity/webhooks.py`, `tasks.py`, `replication.py`, `authentication.py` | dedupe ledger `KeycloakReplicationEvent`, `User` (`is_active`, unique `username`) | SPI `onEvent`, webhook and its parsers, task `process_keycloak_admin_event`, login, `provision_user` | Keycloak, broker, organizations |
| Organization replication, `apps/identity/org_replication.py`, migration `identity.0006` | `Organization` (group id, path, slug) | find, two backfills, create, sync; the migration merges rows that forked | tasks, logins, appends |
| Memberships and roles, `org_replication.py`, `authorization.py`, `serializers.py`, `views.py`, `provision_user.py` | `Membership` (status, origin), `MembershipRole` | login reconcile, join, leave, create, add and remove role, provision | each other |
| Tenant context, `apps/platform/middleware.py`, `tenancy.py` | transaction and organization of a request | header and membership checks | every request |
| Authorization decisions, `authorization.py`, migration `identity.0003` | none but the seeded roles | `membership_has_capability`, `require_capability` | memberships, their writers |
| Token validation, API errors, settings, health, empty applications | none that changes | pure checks, formatting, configuration | |

What is hard, and what makes each component correct:

- **Ledger.** Two transactions read one tip; the first append has no row to
  lock; a savepoint or the caller's transaction rolls back after the tip moved.
  Correct: the committed rows of a tenant are one dense, linked chain that ends
  at its head, they never change, and an append never works from a stale tip.
- **Partitions.** Rows move between tables, statement by statement, while
  tenants append and commands are killed or run twice. Correct: each committed
  row is in exactly one place, archived rows come before live ones, and DEFAULT
  drains.
- **Idempotency and jobs.** Concurrent duplicates, rollbacks, lost processes,
  at-least-once delivery. Correct: one answer, job and dispatch per tenant and
  key; a task finds its job; a result, once there, stays; jobs complete.
- **User replication.** Posts are lost, repeated, reordered; a worker dies
  between two transactions; two users have one username, one after the other.
  Correct: no event twice or misread, none marked unless it was applied, the
  projection follows Keycloak, a login activates nobody.
- **Organizations.** Tasks and logins look a group up by id or path, fill in the
  other, or create its row, all at once. A login keeps the
  organizations of its user locked meanwhile. Correct: one organization per
  group, ids that stick, resolutions that end. The migration merges by
  name what forked earlier, while users join, entries are appended and paths
  move. Correct: no membership lost or gained, audited rows stay, clean forks
  become one row.
- **Memberships.** Six writers, one of them (login) authoritative. Correct: a
  login leaves exactly what its token says, manual rows are untouched, revoked
  memberships have no roles.
- **Authorization.** The membership and its roles are read by two statements,
  unlocked, and expire. Correct: whoever is allowed held the capability at one
  moment; an external auditor reads what his scope describes.

## 2. Modules

```
LedgerLog  <-- refines --  TrailLedger  <-- EXTENDS --  TrailPartition
                               ^                             ^
                       TrailLedgerProofs  <-- EXTENDS --  TrailPartitionProofs

CeleryBroker  <-- EXTENDS --  AsyncJobs, KeycloakEvents  -- EXTENDS -->  AdminEvents
Authorization <-- EXTENDS --  Membership
OrgReplication        OrgMerge
```

The theorems about a module are in a module of its name with `Proofs` added, which
extends it: AsyncJobsProofs, KeycloakEventsProofs, OrgReplicationProofs,
OrgMergeProofs, MembershipProofs, AuthorizationProofs, and the two above.

Where a run needs a symmetry set or small sets of its own, an `MC*` module has
them; the other runs check the module itself. Definitions headed `Mutant:` are broken variants of the
definition that follows them: substituted for it, they make a property fail, which
shows that the property depends on that code. Nothing else refers to them.

### TrailLedger, LedgerLog

A session (`Txns`) is a database transaction of one tenant. `Begin`,
`SelectHead`, `SelectHeadMiss`, `InsertHead`, `InsertHeadConflict`,
`InsertEntry`, `InsertEntryFails`, `AppendAgain`, `Commit` are the statements of
`append_trail_entry` and of its caller. `pend[t]` holds uncommitted rows,
`mine[t]` the tip the transaction works from, `lock[o]` the owner of the head
row. `InsertHead` waits for another session's uncommitted head, as
`get_or_create` does on a unique key. `CatchFailure` is a caller that survives a
failed append (the savepoint of `services.py:32` is rolled back, the row lock
taken before stays); `Rollback` everything else. Hashes are
records of what was hashed, so they are equal exactly if the inputs are.
`LedgerLog` is the promise: one append-only sequence per tenant, extended by a
whole committed batch at a time; `ImplementsLog` is the refinement.

### TrailPartition

Extends the ledger with the place of each row: the tenant's partition, DEFAULT,
the archive, a temporary copy, or the flat table before migration `0004`.
`RehomeCopy`, `RehomeDelete`, `RehomeFinish` are the statements of
`_rehome_default_rows`; `EnsureList` the single read of organizations, then
`EnsureCreate` per tenant; `Archive` the detach and rename, one step because it
holds ACCESS EXCLUSIVE locks throughout; `ConvertList`, `ConvertCopy`,
`ConvertSwap` the migration, and `RevertCopy`, `RevertSwap` its reverse. The
partition rules of PostgreSQL (`Creatable`, routing, which table a row is in) are
part of these definitions and of `PartInv`; no property is about them.
`CreateOrganization`, `RunHook`, `LoseHook` are the
signal and its on_commit hook. `JobFails` and `JobAbort` end a job anywhere.

### CeleryBroker, AsyncJobs

The broker is a bag of (message, tries): acks_late, reject_on_worker_lost,
retries. A request goes `Receive`, `ClaimKey` (the `get_or_create` of the
record), `Replay` or `CreateJob`, `SaveResponse`, `Commit`, `Dispatch`
(on_commit), `Answer`, and can be abandoned anywhere. A worker goes `Fetch`,
`MarkStarted`, `MarkCompleted`, and crashes, times out or errs; `Redeliver`
puts a running message back. Which faults there are is the variable `env`, chosen
at first. `lost` collects the jobs that nobody will complete: their web process
died between the commit and the dispatch, their retries ran out, or another
error ended their task.

### AdminEvents, KeycloakEvents

`AdminEvents` is the parsers of `webhooks.py`: from the resource type, operation,
path and representation of an admin event to the row of the dedupe ledger, or to
nothing. In `KeycloakEvents`, admin actions change Keycloak (`realm`, `groups`)
and emit such raw events through the SPI. Each has a field `about`, what
it is really about, which no code reads and `EntriesFit` compares. `Deliver` is
the webhook up to the commit of the dedupe row, `Delay` the enqueueing, then
`Fetch`, `ReadRow`, `Apply` (or `ApplyRefused`, when the username is taken),
`Mark`, `Acknowledge` of the task. A login is `Resolve`, `SyncProjection`,
`Reconcile`; the command is `ProvisionGet`, `ProvisionCreate`, `ProvisionSave`.
`user` and `member` are the projection, `tokens` the tokens still valid. A group
stands for its organization. Which users, operations, faults and processes there
are is the variable `env`, chosen at first from the constant `Environments`: one
run checks several environments and a property may speak of some of them.

### OrgReplication

One action per statement of `find_organization`, the backfills,
`resolve_or_create_organization` and `sync_organization_from_group`. Group
events write outside a transaction (each write commits); joins, leaves and
logins keep their rows in `own` until they commit. `Blockers(p)` is whom a write
waits for; `Deadlocked` a circle of them, which PostgreSQL breaks with a
rollback. Uniqueness of id, path and slug is `Clash`. Slugs are (base, number).
A backfill that finds its key taken (`BackfillConflict`) looks for the owner by
another statement (`TakeOwner`) and goes on with the row it had if that one has moved
away in between.

Two groups may share a path, one deleted or moved away before the other took it.
`find_organization` falls back to the path (`org_replication.py:181-189`), so
with the row of (g1, p1) stored, an event (g2, p1) goes on with that row, and its
members become members there. `Anchored` says that another group's row is gone on
with in this case only, and never because it merely had the slug, nor a row that is
nobody's for an event of a settled group. `Settled` are the groups that stay at one
path, which all their events carry. `OneOrgPerGroup` counts the organizations of
these only: the others may fork (see the disagreements below).

A login begins with `LockOrg` for each organization of its user (`todo`, then
`held`), as its SELECT FOR UPDATE joins the organizations and Django locks both
tables. `joined` are those it makes him a member of; the foreign key of a new
membership is deferred, so it asks for KEY SHARE of them at `Commit`, and waits
there for another login that holds the row. The users of the processes differ,
so that their memberships, which Membership models for one user, do not
meet here. What events and tokens carry is the variable `now`, chosen at
first from `Settings`, so that one run checks several.

### OrgMerge

Migration `identity.0006` as one transaction: `Begin` reads the canonical rows
once, `NextCanon` goes through them, `NextTwin` through the twins, oldest first,
skipping audited ones, `MoveMember` moves or drops one membership, `DeleteTwin`
is the PROTECTed deletion, `AdoptPath` and `AddConstraint` follow, and `Commit`
or `Abort`, after which the migration may be run again. `view` is what it sees, the
committed rows with its own changes. A membership is the organization it was
made for, which stands for its status, origin and roles, so that moving and
swapping rows differ. `Join` and `Append` are requests meanwhile, and `SetPath` an
event of a group that fills in or moves the path of its organization (`filled`
remembers it); `AdoptPath` writes over a path that the canonical row got since it was
read. PostgreSQL builds no index on a table whose deferred checks are pending
(`ChecksPending`), so a run that deleted a twin never gets past `AddConstraint`:
the properties therefore speak of the migration's view when it comes to the
constraint, and of the committed tables at any time.

### Membership

The rows of one user, by organization: UNIQUE(organization, user) is the domain
of a function. `own` holds uncommitted rows, `locked` those selected FOR UPDATE,
`put` and `cut` uncommitted roles, `row` the object in memory, which is the
possibly stale copy that `Decide` acts on. Django's foreign keys are deferred,
so a new role asks for its membership row only at `Commit`, where it waits for a
FOR UPDATE and for nothing else. The organizations that a login locks as well
stop only other users, which is in OrgReplication.

`caller` is a request of the user himself, beside the writers: `Enter` is the
check of `TenantContextMiddleware`, `ReadMembership` and `ReadRoles` the two
statements of `require_capability`, of which the second decides by the status
read before and by the organization and the clock of now. `expired` holds the
memberships whose `expires_at` has passed. `held` and `stray` are history that
only `AllowedHeldAtOnce` reads. `Authorization` has the capabilities of the
roles, the scope of a third party, and `HasCapability`, which puts them together.

## 3. Runs

Each `.cfg` begins with what it sets up.

| Run | Shows | Bounds, and why they are enough |
|---|---|---|
| TrailLedger | `ChainIntact`, `NoStaleTip`, `BackstopUnused`, `IInv`, `AppendOnly`, `ImplementsLog`, `AppendsEnd` | 2 sessions and 2 tenants: a holder and a waiter for one head, or one append in each tenant; 2 contents to tell entries apart; 2 appends per transaction, 2 sequence numbers, so the column overflows |
| MCTrailPartition | `NoRowLost`, `OnePlace`, `ArchivePrecedesLive` | starts from the flat table of before migration `0004`; 2 commands or migrations at once, 2 sessions, 1 tenant, which does not commit while its own rows move |
| TrailPartitionLive | `DefaultDrains` | 2 tenants, a session, the scheduled command |
| MCAsyncJobs | `OneAnswerPerKey`, `DispatchedOnce`, `TaskFindsJob`, `IInv`, `ResultSticks`, `JobsComplete` | 2 tenants with the same key, 2 web workers, 2 Celery workers; web processes die anywhere and tasks fail, or 2 faults among crashes, timeouts and redeliveries with 1 retry (3 in the code), so that the retries last or run out. One kind of operation: a result that another job's task wrote would need a second, and the theorems cover any number |
| MCKeycloakEvents | `IInv`, `EnqueuedOnce`, `EntriesFit`, `MarkedWasApplied`, `NeverStranded`, `AppliedAtMostOnce`, `ProjectionFollows`, `LoginNeverActivates` | four environments: `Faulty` twice (2 workers, 2 events, every fault and as many retries: 2 faults, or a login and 1 fault), `Ordered` (2 users, 2 usernames, 3 events in order, all but groups created or changed; posts repeated and acknowledgements lost), `Renaming` (2 users who swap usernames, a login, `provision_user`, no faults) |
| KeycloakEventsLive | `MembershipsConverge` | three environments, a user in a group, one who is renamed, and one who is created and joins a group, which may be processed in the other order; 2 events and a fault (lost post, crash, retry): a leave is lost or overtakes a join |
| MCOrgReplication | `OneOrgPerGroup`, `Anchored`, `LocksInOrder`, `IdSticks`, `ResolvesEnd` | three settings: a group that stays and one that moves to its path, no memberships yet; one event, with users who may be members of anything that exists; and, without logins, a group whose first event has no path and one that moves away from the path the first gets. In the first two, tokens with two paths in opposite orders, so that two logins wait for each other for a unique key, or at commit for a row. 2 slug numbers, one taken by a local organization, so the slugs run out |
| MCOrgMerge | `MembersKept`, `HistoryStays`, `ConstraintHolds`, `ForkMerged` | every table of 3 organizations with 2 ids, 2 paths and 2 names, so that two twins share a canonical row, two canonical rows a twin, or two rows a path; 2 users; a membership, an entry or a path written meanwhile; interrupted and repeated without bound |
| MCMembership | `IInv`, `LoginExact`, `AllowedHeldAtOnce`, `ManualUntouched` | two histories: all seven writing operations two at a time, 2 organizations (one inactive); and two writers among joins, leaves, new roles and `provision_user` beside the user's own request, with expiry |

`IInv` is in each module the inductive invariant of its proofs, type invariant
included. Those of OrgReplication and OrgMerge, and `PartInv` of TrailPartition,
hold in the instances of the runs too, whose `.cfg` list only what follows from
them and says more.

Most runs have two processes and spend their states on more operations: what
the locks, unique keys and rechecks of this code are for is a race of two writers
of one row.
Deadlock is checked except in the KeycloakEvents runs, where the system stops
when its bounded number of events has been processed, and in MCOrgMerge and
MergeRefused, where it stops after the migration and the write meanwhile.

Bounds that cap counters: `MaxSeq` (range of the column), `MaxAppends`,
`MaxFaults`, `MaxWrites`, `MaxEvents`, `MaxSlugs` (50 in the code), and `Ids`, the primary
keys available. Operations of the environment are guarded by them, code is not,
except that a create needs a key left in `Ids`, of which the runs have enough.
Symmetry is used in the runs without liveness only. In MCKeycloakEvents it
permutes the workers: an environment may have one of them only, but which one
makes no difference to a step or to a property.

### Findings

Three runs, with `violation` in `PROJECT.json`, check what a text of the
repository says and the code does not do; the quotes are there, under
`findings`:

| Run | Property | What happens |
|---|---|---|
| TrailPartitionBusy | `NoRowLost` | an append that commits between the copy and the DELETE of a re-homing is deleted, in a command "safe to run on every deploy or on a schedule" |
| MembershipStale | `RevokedHasNoRoles` | `add_role` reads an active membership, a leave revokes it, the role is added |
| MergeRefused | `ConstraintCannotFail` | migration `identity.0006` deletes a twin and then creates the unique index in the same transaction, which PostgreSQL refuses while deferred foreign-key checks of the table are pending: of a fork, no run of it ever commits, though its comment says the constraint "cannot fail" |

Other places where the code and its texts disagree were met while modelling. The
models contain these behaviours, and the properties are stated so that they leave
them out:

- A worker lost between the projection write and `processed_at` applies its event
  again (`tasks.py:84`; `tasks.py:37-39` says at most once). `AppliedAtMostOnce` is
  checked without lost workers.
- Nothing repeats a failed POST (`WebhookEventListenerProvider.java:90`), though
  `models.py:89-90` speaks of at-least-once delivery. `NeverStranded` begins where an
  event is enqueued.
- A DELETE processed before the CREATE it overtook leaves an active user
  (`replication.py:153`), and a membership event that came before its user is not
  made up for by the user event (`tasks.py:121`; the comment at `tasks.py:112`
  expects it). `ProjectionFollows` is checked for events in order.
- A group whose first event has no path forks into two rows if a login comes
  next, though `org_replication.py:166-167` says it "can never fork", and a move fails for good if a login with
  the new path overtook its event (`org_replication.py:310`). `OneOrgPerGroup` speaks
  of groups that stay at one path.
- Unlinking a user's federated identity deactivates him: the event is of type
  USER, with operation DELETE and a longer path, and is read as his deletion
  (`webhooks.py:185-199`; the docstring at line 173 says "a top-level USER admin
  event"). `ProjectionFollows` leaves out who is active after such an event.
- A user who is deleted in Keycloak and created again under the same username
  is not replicated: the old row keeps the (unique) username, every upsert of the
  new one fails, and the task gives up (`replication.py:153`). A login with a taken
  username fails as well (`authentication.py:172`, outside any handler).
  `NeverStranded` leaves out such users, and `ProjectionFollows` does not say that
  all events are processed after a username was given again.
- A login with a token older than a rename writes the old username back, until the
  next event or fresh token (`MembershipsConverge`).
- The migration merges by name alone. Two groups `/a/team` and `/b/team` of which
  one has only an id and the other only a path are merged
  (`test_org_replication.py:598` is called
  `test_distinct_groups_sharing_a_name_are_not_merged` and tests rows that have both).
  `MembersKept` speaks of names, `ForkMerged` of names that one group alone has.
- Its constraint (lines 59-61: "cannot fail") also fails if two path-only rows had
  the same path before, or if somebody gives a row a path twice while it runs.
  `ConstraintHolds` says that the merge itself adds no duplicate, and
  `ConstraintCannotFail` leaves these cases out.
- It saves the canonical row as it was read at the beginning (lines 26 and 69-70),
  over a path that an event gave it in between. No property speaks of it: the next
  event of the group sets its path again.
- A role may stay with a revoked membership (MembershipStale), so a request
  that read the membership before it was revoked may be allowed by a role added
  after. `AllowedHeldAtOnce` excepts this; without the exception TLC finds it.
- A capability may be lost between `require_capability` and the write it
  guards (`views.py:70`); the transaction around both takes no lock.

## 4. Fairness

- `TrailLedger!FairSpec`: a session that can run does (WF); a waiter for a row
  lock gets it (SF: PostgreSQL queues lock requests in order); a caller's block is
  finite, so it commits at last (SF), or unwinds after an error. No spontaneous
  rollback is assumed.
- `TrailPartition!PartFairSpec`: in addition the scheduled command keeps being
  started, one day no longer dies, and takes a step that it reaches again and again
  (its own docstring asks for a schedule), without which nothing empties DEFAULT.
  It may still fail. With two commands that undo each other's progress for ever,
  DEFAULT need not drain, so the run has one.
- `AsyncJobs!FairSpec`: live web processes run their on_commit hooks, live
  workers drain the broker. Clients need not retry.
- `KeycloakEvents!FairSpec`: the same for the pipeline, and stale tokens expire
  and the user comes back with a fresh one (`LoginFairness`). Convergence without
  a login is not claimed, and does not hold.
- `OrgReplication!FairSpec`: a process that can go on, or that can again and
  again because the row or key it queues for becomes free, does (SF), and
  PostgreSQL rolls back one of a deadlock, as the retry of Celery does with a failed
  task (WF).

## 5. Proofs

Each theorem holds for every value of the constants that the module's `ASSUME`s
allow. All proofs of safety go the same way: an inductive invariant, a lemma per
action that it is kept, and the property from it. What the properties lack to be
inductive is mostly what a transaction has written and not committed, and
what it has read and still relies on.

| Module | Assumptions on the constants |
|---|---|
| TrailLedger | `MaxSeq` is a natural number, `MaxAppends` a positive one; `NoTxn` is no session |
| TrailPartition | those, and that the two flags are Booleans |
| AsyncJobs | `MaxRetries` and `MaxFaults` are natural numbers; the faults of the environments are among the five modelled; `NoId` is no primary key |
| KeycloakEvents | `MaxEvents` and `MaxRetries` are natural numbers; `None` is no user, group, username or value of `enabled`; the parent of a group is a group or `None`; no user has the id "groups" (ids are UUIDs); environments have the fields of `env`, and users known at first have different usernames (the column is unique) |
| OrgReplication | ids are a finite set of natural numbers; `None` is no id or path; settings hold events and tokens with at least one path; every group and path has a slug; local organizations have different slugs |
| OrgMerge | every database has finitely many organizations with numbers for ids, and memberships and entries of those; `None` is no path |
| Membership | organizations are a finite set of natural numbers; histories, roles and tokens are of the modelled kinds; the organizations of the start exist |
| Authorization | no object has `None` for a value, since `dict.get` gives `None` for a key the scope lacks |

### TrailLedger

| Theorem | States |
|---|---|
| TypeCorrect, InductiveInvariant | `Spec => []TypeOK`, `Spec => []IInv` |
| LedgerIsAChain | `Spec => []ChainIntact` |
| WritersAreFresh | `Spec => []NoStaleTip` |
| UniqueNeverFires | `Spec => []BackstopUnused` |
| EntriesAreAppendOnly | `Spec => AppendOnly` |
| LedgerImplementsLog | `Spec => ImplementsLog`: the ledger refines `LedgerLog` |

`ChainIntact` alone says nothing of uncommitted rows. `IInv`
adds `LockInv` (who holds a head row lock is a session in the middle of an append or
after one, and a session past its SELECT holds it), `PendInv` (the pending rows
of the holder continue the committed chain up to the tip it keeps, everyone
else's tip is that of the committed head or not yet read), `SeedInv` (a tenant
without a head row has the genesis tip) and `BackstopUnused`. The argument:
`ChainExtends` (a row built from the tip of a chain extends it), then a lemma
per kind of step: `LocalStep` for those that only move a program counter,
`TakeLock`, `InsertStep`, `CommitStep`, `RollbackStep`. For the refinement,
`BatchInv` adds that a transaction's rows are at most `MaxAppends`;
`LogIsSequence` makes a sequence of a tenant's committed rows, `LogContinues`
says that a batch on the tip of the chain continues it, and `CommitAppends` that
the commit is an `Append` of the log; every other step stutters.

### TrailPartition

| Theorem | States |
|---|---|
| PartInvariant | `PartSpec => []PartInv` |
| PartitionsKeepTheLedger | `PartSpec => Spec`: with partitions the ledger does what it did without |
| RowsStoredOnce | `PartSpec => []OnePlace` |
| ArchivesArePrefixes | `PartSpec => []ArchivePrecedesLive` |
| NothingLost | `~ WritesDuringMaintenance => (PartSpec => []NoRowLost)` |

`NothingLost` has the hypothesis because without it the property fails
(TrailPartitionBusy); the other theorems hold with appends at any time.
`PartInv` has the ledger's invariant, the properties, `OnlyCreated` (only
organizations that exist have entries), `Routed` (PostgreSQL's partition rules: what
is in which table, given the tables there are) and `JobFits`: what a job copied is still
where it was, what it deleted is what it copied, and, if the tenant does not commit
meanwhile, it copied all there was. A job that holds ACCESS EXCLUSIVE finds every
other one closed. `ArchivePrecedesLive` comes from the chain: `CommittedRows`
says that a committed batch has higher sequence numbers than all rows before it.

### AsyncJobs

| Theorem | States |
|---|---|
| InductiveInvariant | `Spec => []IInv` |
| AnswersAgree | `Spec => []OneAnswerPerKey` |
| OneDispatch | `Spec => []DispatchedOnce` |
| TasksFindJobs | `Spec => []TaskFindsJob` |
| ResultsStick | `Spec => ResultSticks` |

`IInv` relates the record of a key, its job, and what requests hold:
`RecordsNameJobs` (they are committed together), `TransactionsApart` (an open
transaction is the only one with its key), `AnswersRecorded` (what a request is
about to answer is a committed record, or will be one) and `SentAfterCommit`
(messages and tasks follow the one dispatch of a committed job).

### KeycloakEvents

| Theorem | States |
|---|---|
| InductiveInvariant, TypeCorrect | `Spec => []IInv`, `Spec => []TypeOK` |
| RowsSayWho | `Spec => []EntriesFit`: the parsers read each admin event as what it is about |
| OneDelay | `Spec => []EnqueuedOnce` |
| MarksFollowWrites | `Spec => []MarkedWasApplied` |
| NothingStranded | `Spec => []NeverStranded` |
| AppliedOnce | `Spec => []AppliedAtMostOnce` |
| ActivatedByAdmins | `Spec => LoginNeverActivates` |
| ProjectionKeepsUp | `Spec => []ProjectionFollows`: in order, the projection is what Keycloak holds whenever nothing is under way |

`RowsSayWho` rests on lemmas about the parsers of AdminEvents, one per kind of
event (`UserEventFits`, `MembershipEventFits`, `GroupEventFits`), and on what the
admin actions emit (`AdministerReports`). The invariant is built in four layers,
each proved with those below it as invariants already: `TypeOK`, `RowsFit`
and `RunsFollow` (a message, a run and a mark come after the one `delay()` of a
committed row); `NamesKept` (every username in sight, read, stored or sent, is
one that its user was given, and no two rows share one); `RetriesLast` (a message
was retried for faults only, or its username clashes, so that with no more
faults than retries nothing is given up); `OneRun` (if no run is lost or
repeated, there is one message or run of an event at a time). These are `PipelineInv`.

`ProjectionFollows` speaks of moments when nothing is under way, and of behaviours in
which every event is delivered before the next. `FollowInv` says of every moment
what becomes of it. `RealmFits`: a user is in Keycloak after an event about him that
is not his deletion, and nobody shares his username there. `OnlyLast`: only the
last event is under way. `LastSettles`: applying the last event to the projection
makes it what Keycloak holds of its user, and once applied it is so already; of every
other user it is so now. `NothingGivenUp`: an event that is not processed is under
way, unless posts or runs may be lost for good or a username was given again, whose
upsert fails until the task gives up. The argument has a lemma per admin action
(what it does to Keycloak is what its event will do to the projection: `CreatesAnswers`
and the like), then the run of the last event, first and again, which changes
nothing the second time, and the steps that touch neither. The hypotheses of
`ProjectionFollows` are needed: TLC refutes it out of order, with logins by stale tokens,
and, for its second half, with lost posts or a username given again.

### OrgReplication

| Theorem | States |
|---|---|
| InductiveInvariant | `Spec => []IInv` |
| OneOrganization | `Spec => []OneOrgPerGroup`: of groups that stay at one path, which all their events carry |
| FindsItsGroup | `Spec => []Anchored`: what a resolution goes on with has the id or the path asked for |
| LoginsLockInOrder | `Spec => []LocksInOrder` |
| IdStays | `Spec => IdSticks` |

`UniqueKeys` (no keys are equal in what a process sees, nor in what two of them
wrote), `RowsFollow` (what a transaction writes leaves a row's id as it is, or gives it that
of a group with its path), `AsksFor` and `StandsAt` (at each statement, how the
organization at hand relates to the group asked for), `LocksUpwards` (what a
login has yet to lock has a larger key than what it holds). The last gives
`LocksInOrder`: of some logins, the one that waits for the largest key waits
for none of them.

### OrgMerge

| Theorem | States |
|---|---|
| InductiveInvariant | `Spec => []IInv` |
| NobodyLosesMembership | `Spec => []MembersKept` |
| AuditedTwinsStay | `Spec => []HistoryStays` |
| MergeBreaksNoConstraint | `Spec => []ConstraintHolds` |
| CleanForksMerge | `Spec => []ForkMerged`: one row is left of it when the migration comes to the constraint; it does not say that this commits (see MergeRefused) |

The properties speak of what is committed and of the migration's view when it comes
to the constraint; `IInv` says the same of the view at every statement:
`OneTransaction` (what is committed is as it was, but for what others wrote),
`RowsFit` (what has become of a row, and that two share a path only if they did or
somebody else gave it to one), `Kept(view...)`, and `TwinsStay` (what has no group id
is as it was, but for the twin at hand). `LoopFits` is where the loops are, and
`Heals(c)` follows one clean fork through them: untouched, at hand, or merged.

### Membership

| Theorem | States |
|---|---|
| InductiveInvariant | `Spec => []IInv` |
| LoginLeavesTokensGroups | `Spec => []LoginExact` |
| AllowedForGoodReason | `Spec => []AllowedHeldAtOnce` |
| ReplicationLeavesManualAlone | `Spec => ManualUntouched` |

`Apart` (two transactions never hold the same row or role), `WritesFit` (what they
wrote is of memberships that are there, or theirs), `ReadsFit` (a copy in memory
may be stale, but not in its origin, and not at all if the row was locked),
`LoginFits` (what a login locked is as the token says, but for what is to come),
`CallerFits` (whoever is inside was admitted for an active membership).

### Authorization

| Theorem | States |
|---|---|
| ExternalReads | an external auditor reads an object exactly if his scope is not empty and describes it, whatever other roles he has |
| ScopeLimitsReadsOnly | any other capability, and `read` without P7, depends on the roles alone |
| RolesAddUp | more roles take no capability away, but for P7, which may take away `read` |

They rest on `EveryRoleReads` (each seeded role has `read`) and
`FitsIsDescribed` (the lookup with `dict.get` and the two kinds of values
amounts to the scope naming the value).

### Only model-checked

The liveness properties `AppendsEnd`, `DefaultDrains`, `JobsComplete`,
`MembershipsConverge` and `ResolvesEnd`: fairness and `ENABLED` are beyond the
prover. Of the safety properties that runs check, only the violated
`RevokedHasNoRoles` and `ConstraintCannotFail` have no theorem.

## 6. Not modelled

- Attributes of users other than `enabled` and the username, which are copied in
  the same way and have no constraint; what `provision_user` does to an
  organization that is not there.
- The rows of several users' memberships in one organization, but in OrgMerge and,
  as locks, in OrgReplication. The caller of a request that changes memberships is
  an administrator who stays one.
- The scope of a stored membership: no view passes an object or asks for `read`, so
  it is an operator that proofs are about, for values that are neither `None`
  nor ill-typed.
- Read-only endpoints, and the reverse of the migrations `0003` and `0006`.
- Row-level security: the SQL functions exist, no migration applies them to a
  table.
- During migration `0006`: organizations that appear, change their name or get an
  id (a backfill onto a twin that the migration has listed and not yet deleted is
  lost with the row).
- Token and webhook signatures (cryptography of libraries), validation errors
  of headers, formatting of error bodies, health check, settings, Docker files.
- `findings_capa` has tables and no operations; `documents`, `rag`,
  `retention_disposition`, `audit_process` are empty.
- A web process that dies between COMMIT and on_commit leaves a pending job, or
  a recorded event nobody processes; the models contain this ("web crash"), but
  `JobsComplete` excepts such jobs, as those whose retries ran out, and
  `NeverStranded` speaks of enqueued events, since no text of the repository
  promises recovery. Hazards like these, which are so and which nothing promises to
  prevent, have a note and no property in `PROJECT.json`.

## 7. Plan

Done, in this order, most important first: TrailLedger, TrailPartition, AsyncJobs,
KeycloakEvents with AdminEvents, OrgReplication with the locks of logins,
OrgMerge, Membership with Authorization; then the proofs of all of them. Code that
changes state and is left out is listed above.

Next: a run that shows the fork of a group whose first event has no path, and
writers of new organizations and ids during migration `0006`; what
`ProjectionFollows` says of one user whose own events are delivered in
order, whatever becomes of the events of others.
