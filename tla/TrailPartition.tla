--------------------------- MODULE TrailPartition ---------------------------
(***************************************************************************)
(* Where the rows of the audit ledger live: the appending sessions of      *)
(* TrailLedger together with everything that creates, fills, empties and   *)
(* removes partitions of trail_trailentry: migration trail.0004, the       *)
(* post_save signal of Organization, and the management commands           *)
(* ensure_trail_partitions and archive_trail_partition.                    *)
(*                                                                         *)
(* PostgreSQL: an INSERT is routed to the tenant's partition, or to        *)
(* DEFAULT if it has none.  Creating, detaching or dropping a table of the *)
(* tree takes ACCESS EXCLUSIVE locks on the parent and on DEFAULT, so it   *)
(* waits for every transaction that wrote or read them and is still open;  *)
(* what a transaction does once it has those locks is one step here.       *)
(* Each statement of a maintenance transaction sees the rows committed     *)
(* when the statement starts (READ COMMITTED).                             *)
(***************************************************************************)
EXTENDS TrailLedger

CONSTANTS Jobs,                     \* maintenance processes (commands, migrations)
          WritesDuringMaintenance,  \* may a tenant commit while a job moves its rows
          Migrating                 \* does the run start before migration trail.0004

ASSUME FlagsAssumption == {WritesDuringMaintenance, Migrating} \subseteq BOOLEAN

VARIABLES
    created,   \* committed Organization rows
    hooks,     \* organizations whose on_commit partition hook has not run yet
    layout,    \* "flat" before migration trail.0004, "partitioned" after it
    parts,     \* tenants with an attached partition
    store,     \* store[p]: the committed rows held in place p
    archives,  \* tenants with a detached <partition>_archived table
    job        \* job[k]: what maintenance process k is doing

partVars == <<created, hooks, layout, parts, store, archives, job>>
allVars == <<vars, partVars>>

Places == {"flat", "default", "tenant", "archive", "dropped"}

\* todo: the organizations its loop has still to visit; on: the one at hand;
\* seen: default_org_ids, or the organizations a migration listed; copy, gone:
\* the rows in its temporary or new table, the rows its DELETE removed.
Off == [step |-> "off", todo |-> {}, on |-> {}, seen |-> {}, copy |-> {}, gone |-> {}]

\* A maintenance transaction that read the tree and has not ended.
Open(k) == job[k].step \in {"copied", "deleted", "listed", "converting", "reverting"}

\* ACCESS EXCLUSIVE on the parent and DEFAULT can be granted to k.
Exclusive(k) ==
    /\ \A t \in Txns : pend[t] = {}
    /\ \A j \in Jobs \ {k} : ~ Open(j)

OrgsOf(rows) == {e.org : e \in rows}

Place(o) == CASE layout = "flat" -> "flat"
              [] o \in parts     -> "tenant"
              [] OTHER           -> "default"

\* CREATE TABLE IF NOT EXISTS ... PARTITION OF ... FOR VALUES IN (o); refused
\* while DEFAULT holds rows of o.
Creatable(o, default) == o \in parts \/ o \notin OrgsOf(default)

-----------------------------------------------------------------------------
PartInit ==
    /\ Init
    /\ created = {}
    /\ hooks = {}
    /\ layout = IF Migrating THEN "flat" ELSE "partitioned"
    /\ parts = {}
    /\ store = [p \in Places |-> {}]
    /\ archives = {}
    /\ job = [k \in Jobs |-> Off]

\* The rows job k copied but has not yet removed from where they were.
Copying(k, o) ==
    \/ job[k].step = "copied" /\ o \in job[k].on
    \/ job[k].step \in {"converting", "reverting"}

\* A session of TrailLedger; its committed rows are where they were routed to,
\* since no partition can appear or go while it has uncommitted rows.
PartBegin(t, o) == o \in created /\ Begin(t, o) /\ UNCHANGED partVars

PartCommit(t) ==
    /\ WritesDuringMaintenance \/ \A k \in Jobs : ~ Copying(k, org[t])
    /\ Commit(t)
    /\ store' = [store EXCEPT ![Place(org[t])] = @ \cup pend[t]]
    /\ UNCHANGED <<created, hooks, layout, parts, archives, job>>

PartStep(t) ==
    /\ \/ SelectHead(t)
       \/ SelectHeadMiss(t)
       \/ InsertHead(t)
       \/ InsertHeadConflict(t)
       \/ InsertEntry(t)
       \/ InsertEntryFails(t)
       \/ CatchFailure(t)
       \/ AppendAgain(t)
       \/ Rollback(t)
    /\ UNCHANGED partVars

-----------------------------------------------------------------------------
(* Organizations and the signal.                                            *)

\* An Organization row commits, its hook registered by the post_save signal; a
\* bulk import sends no signal, and before the migration the receiver returns.
CreateOrganization(o, signal) ==
    /\ o \notin created
    /\ created' = created \cup {o}
    /\ hooks' = IF signal /\ layout = "partitioned" THEN hooks \cup {o} ELSE hooks
    /\ UNCHANGED <<vars, layout, parts, store, archives, job>>

\* The on_commit hook creates the partition, unless a first append already
\* landed in DEFAULT (the DDL is refused) or the migration was reverted.
RunHook(o) ==
    /\ o \in hooks
    /\ \A t \in Txns : pend[t] = {}
    /\ \A k \in Jobs : ~ Open(k)
    /\ hooks' = hooks \ {o}
    /\ parts' = IF layout = "partitioned" /\ Creatable(o, store["default"])
                THEN parts \cup {o} ELSE parts
    /\ UNCHANGED <<vars, created, layout, store, archives, job>>

\* The process dies between the commit and the hook.
LoseHook(o) ==
    /\ o \in hooks
    /\ hooks' = hooks \ {o}
    /\ UNCHANGED <<vars, created, layout, parts, store, archives, job>>

-----------------------------------------------------------------------------
(* ensure_trail_partitions.                                                 *)

JobStep(k, new) ==
    /\ job' = [job EXCEPT ![k] = new]
    /\ UNCHANGED <<vars, created, hooks, archives>>

\* handle() reads default_org_ids once; --no-rehome skips the first loop.
EnsureStart(k, rehome) ==
    /\ job[k].step = "off"
    /\ layout = "partitioned"
    /\ LET ids == OrgsOf(store["default"]) IN
       JobStep(k, [Off EXCEPT !.step = IF rehome THEN "rehome" ELSE "list",
                              !.todo = ids, !.seen = ids])
    /\ UNCHANGED <<layout, parts, store>>

\* CREATE TEMP TABLE ... AS SELECT the rows of o in DEFAULT.
RehomeCopy(k) ==
    /\ job[k].step = "rehome"
    /\ layout = "partitioned"
    /\ \E o \in job[k].todo :
        JobStep(k, [job[k] EXCEPT !.step = "copied",
                                  !.todo = @ \ {o},
                                  !.on = {o},
                                  !.copy = RowsOf(store["default"], o)])
    /\ UNCHANGED <<layout, parts, store>>

\* Mutant: one transaction per statement, so a crash keeps the DELETE.
RehomeDelete_Autocommit(k) ==
    /\ job[k].step = "copied"
    /\ \A j \in Jobs \ {k} : OrgsOf(job[j].gone) \cap job[k].on = {}
    /\ JobStep(k, [job[k] EXCEPT !.step = "deleted",
                     !.gone = {e \in store["default"] : e.org \in job[k].on}])
    /\ store' = [store EXCEPT !["default"] = {e \in @ : e.org \notin job[k].on}]
    /\ UNCHANGED <<layout, parts>>

\* DELETE the rows of o in DEFAULT: a new statement, a new snapshot.  Rows that
\* another open job deleted are waited for.
RehomeDelete(k) ==
    /\ job[k].step = "copied"
    /\ \A j \in Jobs \ {k} : OrgsOf(job[j].gone) \cap job[k].on = {}
    /\ JobStep(k, [job[k] EXCEPT !.step = "deleted",
                     !.gone = {e \in store["default"] : e.org \in job[k].on}])
    /\ UNCHANGED <<layout, parts, store>>

\* Mutant: the rows go back through the parent before the partition exists.
RehomeFinish_NoPartition(k) ==
    /\ job[k].step = "deleted"
    /\ Exclusive(k)
    /\ JobStep(k, [job[k] EXCEPT !.step = "rehome", !.on = {}, !.copy = {}, !.gone = {}])
    /\ UNCHANGED <<layout, parts, store>>

\* Create the partition, insert the copied rows through the parent, commit.
RehomeFinish(k) ==
    LET left == store["default"] \ job[k].gone
    IN  /\ job[k].step = "deleted"
        /\ Exclusive(k)
        /\ \A o \in job[k].on : Creatable(o, left)
        /\ \A e \in job[k].copy : Accepted(left \cup store["tenant"], e)
        /\ parts' = parts \cup job[k].on
        /\ store' = [store EXCEPT !["default"] = left,
                                  !["tenant"] = @ \cup job[k].copy]
        /\ JobStep(k, [job[k] EXCEPT !.step = "rehome", !.on = {},
                                       !.copy = {}, !.gone = {}])
        /\ UNCHANGED layout

\* Second loop: it lists the organizations once the first one is done.
EnsureList(k) ==
    /\ \/ job[k].step = "rehome" /\ job[k].todo = {}
       \/ job[k].step = "list"
    /\ JobStep(k, [job[k] EXCEPT !.step = "create", !.todo = created])
    /\ UNCHANGED <<layout, parts, store>>

\* One organization of the second loop: skipped if it has a partition or had
\* rows in DEFAULT when the command started, else its partition is created.
EnsureCreate(k) ==
    /\ job[k].step = "create"
    /\ \E o \in job[k].todo :
        /\ JobStep(k, [job[k] EXCEPT !.todo = @ \ {o}])
        /\ IF o \in parts \cup job[k].seen
           THEN parts' = parts
           ELSE /\ layout = "partitioned"
                /\ Exclusive(k)
                /\ Creatable(o, store["default"])
                /\ parts' = parts \cup {o}
    /\ UNCHANGED <<layout, store>>

EnsureDone(k) ==
    /\ job[k].step = "create"
    /\ job[k].todo = {}
    /\ JobStep(k, Off)
    /\ UNCHANGED <<layout, parts, store>>

\* A statement of the command fails: the DDL is refused because a row of the
\* tenant landed in DEFAULT meanwhile, the reinserted rows are duplicates of
\* another job's, or a migration took the partitioned table away.
Failing(k) ==
    /\ job[k].step \in {"rehome", "deleted", "create"}
    /\ Exclusive(k)
    /\ \/ layout = "flat"
       \/ /\ job[k].step = "deleted"
          /\ LET left == store["default"] \ job[k].gone IN
             \/ \E o \in job[k].on : ~ Creatable(o, left)
             \/ \E e \in job[k].copy : ~ Accepted(left \cup store["tenant"], e)
       \/ /\ job[k].step = "create"
          /\ \E o \in job[k].todo \ (parts \cup job[k].seen) :
                ~ Creatable(o, store["default"])

JobFails(k) == Failing(k) /\ JobStep(k, Off) /\ UNCHANGED <<layout, parts, store>>

\* The command or migration dies, or loses a deadlock: its open transaction
\* rolls back.  (A command with nothing left to do just ends: EnsureDone.)
JobAbort(k) ==
    /\ job[k].step # "off"
    /\ job[k].step = "create" => job[k].todo # {}
    /\ ~ Failing(k)
    /\ JobStep(k, Off)
    /\ UNCHANGED <<layout, parts, store>>

-----------------------------------------------------------------------------
(* archive_trail_partition, and migration trail.0004.                       *)

\* Mutant: rows are archived one at a time instead of the whole partition.
Archive_RowWise(k, o, drop) ==
    /\ job[k].step = "off"
    /\ layout = "partitioned"
    /\ o \in parts
    /\ Exclusive(k)
    /\ drop \/ o \notin archives
    /\ \E e \in RowsOf(store["tenant"], o) :
        store' = [store EXCEPT !["tenant"] = @ \ {e},
                               ![IF drop THEN "dropped" ELSE "archive"] = @ \cup {e}]
    /\ archives' = IF drop THEN archives ELSE archives \cup {o}
    /\ UNCHANGED <<vars, created, hooks, layout, parts, job>>

\* Mutant: the partition is copied into the archive, and not detached.
Archive_Copies(k, o, drop) ==
    /\ job[k].step = "off"
    /\ layout = "partitioned"
    /\ o \in parts
    /\ Exclusive(k)
    /\ drop \/ o \notin archives
    /\ store' = [store EXCEPT ![IF drop THEN "dropped" ELSE "archive"] =
                                  @ \cup RowsOf(store["tenant"], o)]
    /\ archives' = IF drop THEN archives ELSE archives \cup {o}
    /\ UNCHANGED <<vars, created, hooks, layout, parts, job>>

\* DETACH and RENAME, or DETACH and DROP; the rename fails if an earlier
\* archive of the tenant is still there.  LEDGER_HEAD stays as it is.
Archive(k, o, drop) ==
    /\ job[k].step = "off"
    /\ layout = "partitioned"
    /\ o \in parts
    /\ Exclusive(k)
    /\ drop \/ o \notin archives
    /\ parts' = parts \ {o}
    /\ store' = [store EXCEPT !["tenant"] = @ \ RowsOf(store["tenant"], o),
                              ![IF drop THEN "dropped" ELSE "archive"] =
                                  @ \cup RowsOf(store["tenant"], o)]
    /\ archives' = IF drop THEN archives ELSE archives \cup {o}
    /\ UNCHANGED <<vars, created, hooks, layout, job>>

\* convert_to_partitioned and revert_to_flat build a new table, copy the rows into
\* it and swap it in for the old one, in one transaction; a second one would wait
\* for the name of the new table.
Migration(k) ==
    /\ job[k].step = "off"
    /\ Migrating
    /\ \A j \in Jobs : job[j].step \notin {"listed", "converting", "reverting"}

\* It lists the organizations, whose partitions the new table gets, ...
ConvertList(k) ==
    /\ Migration(k)
    /\ layout = "flat"
    /\ JobStep(k, [Off EXCEPT !.step = "listed", !.seen = created])
    /\ UNCHANGED <<layout, parts, store>>

\* ... and copies the rows by a later statement.
ConvertCopy(k) ==
    /\ job[k].step = "listed"
    /\ JobStep(k, [job[k] EXCEPT !.step = "converting", !.copy = store["flat"]])
    /\ UNCHANGED <<layout, parts, store>>

ConvertSwap(k) ==
    /\ job[k].step = "converting"
    /\ Exclusive(k)
    /\ layout' = "partitioned"
    /\ parts' = job[k].seen
    /\ store' = [store EXCEPT
                   !["flat"] = {},
                   !["tenant"] = {e \in job[k].copy : e.org \in job[k].seen},
                   !["default"] = {e \in job[k].copy : e.org \notin job[k].seen}]
    /\ JobStep(k, Off)

RevertCopy(k) ==
    /\ Migration(k)
    /\ layout = "partitioned"
    /\ JobStep(k, [Off EXCEPT !.step = "reverting",
                              !.copy = store["default"] \cup store["tenant"]])
    /\ UNCHANGED <<layout, parts, store>>

RevertSwap(k) ==
    /\ job[k].step = "reverting"
    /\ Exclusive(k)
    /\ layout' = "flat"
    /\ parts' = {}
    /\ store' = [store EXCEPT !["flat"] = job[k].copy,
                              !["tenant"] = {}, !["default"] = {}]
    /\ JobStep(k, Off)

-----------------------------------------------------------------------------
Maintenance(k) ==
    \/ \E rehome \in BOOLEAN : EnsureStart(k, rehome)
    \/ RehomeCopy(k)
    \/ RehomeDelete(k)
    \/ RehomeFinish(k)
    \/ EnsureList(k)
    \/ EnsureCreate(k)
    \/ EnsureDone(k)
    \/ JobFails(k)
    \/ JobAbort(k)
    \/ \E o \in Orgs, drop \in BOOLEAN : Archive(k, o, drop)
    \/ ConvertList(k)
    \/ ConvertCopy(k)
    \/ ConvertSwap(k)
    \/ RevertCopy(k)
    \/ RevertSwap(k)

PartNext ==
    \/ \E t \in Txns : PartStep(t) \/ PartCommit(t) \/ \E o \in Orgs : PartBegin(t, o)
    \/ \E o \in Orgs : \E signal \in BOOLEAN : CreateOrganization(o, signal)
    \/ \E o \in Orgs : RunHook(o) \/ LoseHook(o)
    \/ \E k \in Jobs : Maintenance(k)

PartSpec == PartInit /\ [][PartNext]_allVars

-----------------------------------------------------------------------------
(* Properties.                                                              *)

Steps == {"off", "rehome", "copied", "deleted", "list", "create", "listed", "converting", "reverting"}

JobStates == [step : Steps, todo : SUBSET created, on : SUBSET created, seen : SUBSET created,
              copy : SUBSET entries, gone : SUBSET entries]

\* The types, which the other properties presuppose.
PartTypeOK ==
    /\ created \subseteq Orgs
    /\ hooks \cup parts \cup archives \subseteq created
    /\ layout \in {"flat", "partitioned"}
    /\ store \in [Places -> SUBSET entries]
    /\ job \in [Jobs -> JobStates]

Live == store["flat"] \cup store["default"] \cup store["tenant"]

\* Every committed entry is still stored somewhere: in the live ledger, in a
\* detached archive, or dropped by archive_trail_partition --drop, "the only
\* sanctioned removal path for trail data" (archive_trail_partition.py:3-5).
NoRowLost == entries \subseteq Live \cup store["archive"] \cup store["dropped"]

\* No entry is in two places, and nothing is stored that was not committed:
\* neither a rerun, nor a concurrent second command, duplicates rows.
OnePlace ==
    /\ \A p, q \in Places : p # q => store[p] \cap store[q] = {}
    /\ \A p \in Places : store[p] \subseteq entries

\* The archived rows of a tenant are a prefix of its chain: everything live
\* comes after everything archived, since LEDGER_HEAD survives the archival.
ArchivePrecedesLive ==
    \A e \in store["archive"] \cup store["dropped"], f \in Live :
        e.org = f.org => e.seq < f.seq

\* What makes these inductive.  What PostgreSQL's routing and its check of DEFAULT
\* give: a tenant with a partition has all its live rows there, and one without has
\* none outside DEFAULT.
Routed ==
    /\ OrgsOf(store["default"]) \cap parts = {}
    /\ OrgsOf(store["tenant"]) \subseteq parts
    /\ IF layout = "flat" THEN store["default"] \cup store["tenant"] = {} /\ parts = {}
                         ELSE store["flat"] = {}

\* Only organizations that exist have entries.
OnlyCreated ==
    /\ OrgsOf(entries) \subseteq created
    /\ \A t \in Txns : pc[t] # "idle" => org[t] \in created

\* What a job copied is still where it was, and it deleted what it copied; if
\* the tenant did not commit meanwhile, it copied all there is.
JobFits(j) ==
    LET d == store["default"]  all == ~ WritesDuringMaintenance
    IN  /\ j.step \notin {"copied", "deleted", "converting", "reverting"} =>
              j.copy = {} /\ j.gone = {}
        /\ j.step \in {"copied", "deleted"} => OrgsOf(j.copy \cup j.gone) \subseteq j.on
        /\ j.step = "copied" =>
              /\ layout = "partitioned" /\ j.copy \subseteq d /\ j.gone = {}
              /\ all => j.copy = {e \in d : e.org \in j.on}
        /\ j.step = "deleted" =>
              /\ layout = "partitioned" /\ j.copy \subseteq j.gone /\ j.gone \subseteq d
              /\ all => j.copy = j.gone
        /\ j.step = "listed" => layout = "flat"
        /\ j.step = "converting" =>
              layout = "flat" /\ j.copy \subseteq store["flat"] /\ (all => j.copy = store["flat"])
        /\ j.step = "reverting" =>
              /\ layout = "partitioned" /\ j.copy \subseteq d \cup store["tenant"]
              /\ all => j.copy = d \cup store["tenant"]

PartInv ==
    /\ LedgerInv /\ PartTypeOK /\ OnlyCreated
    /\ \A k \in Jobs : JobFits(job[k])
    /\ OnePlace /\ Routed /\ ArchivePrecedesLive
    /\ ~ WritesDuringMaintenance => NoRowLost

\* Fairness of a deployment that runs the command on a schedule (its docstring:
\* "safe to run on every deploy or on a schedule"): some day it stops dying, and
\* a step that is reached again and again is once taken (PostgreSQL queues the
\* table locks, so writers do not starve the DDL).  Its failures stay possible.
ScheduleFairness ==
    \A k \in Jobs :
        /\ <>[][~ JobAbort(k)]_allVars
        /\ SF_allVars(EnsureStart(k, TRUE))
        /\ WF_allVars(RehomeCopy(k) \/ RehomeDelete(k) \/ EnsureList(k) \/ EnsureDone(k))
        /\ SF_allVars(RehomeFinish(k))
        /\ SF_allVars(EnsureCreate(k))
        /\ SF_allVars(JobFails(k))

SessionFairness ==
    \A t \in Txns :
        /\ SF_allVars(PartCommit(t))
        /\ WF_allVars(pc[t] \in {"locked", "conflict"} /\ PartStep(t))

PartFairSpec == PartSpec /\ ScheduleFairness /\ SessionFairness

\* A row that landed in DEFAULT is eventually re-homed (or archived).
DefaultDrains == (store["default"] # {}) ~> (store["default"] = {})
=============================================================================
