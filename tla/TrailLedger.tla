---------------------------- MODULE TrailLedger ----------------------------
(***************************************************************************)
(* Appending to the per-tenant audit ledger: append_trail_entry            *)
(* (apps/trail/services.py) called any number of times inside the caller's *)
(* transaction.atomic(), by concurrent transactions, on PostgreSQL READ    *)
(* COMMITTED (the isolation level Django leaves in place).                 *)
(*                                                                         *)
(* A transaction works for one tenant: TenantContextMiddleware runs a whole *)
(* request in one transaction.atomic() for the organization of its header. *)
(* Its uncommitted rows are its own; they become visible to everyone at    *)
(* its commit and vanish at its rollback, whether an exception, a lost     *)
(* connection or a crash causes it.                                        *)
(***************************************************************************)
EXTENDS Naturals, FiniteSets

CONSTANTS Orgs,        \* tenants
          Txns,        \* database sessions; each runs one transaction at a time
          Contents,    \* what an entry records: actor, action, target, payload
          MaxSeq,      \* largest value the sequence column stores
          MaxAppends,  \* bound: append_trail_entry calls in one transaction
          NoTxn        \* the owner of a free row lock

ASSUME MaxSeqAssumption == MaxSeq \in Nat
ASSUME MaxAppendsAssumption == MaxAppends \in Nat \ {0}
ASSUME NoTxnAssumption == NoTxn \notin Txns

VARIABLES
    entries,  \* committed TrailEntry rows
    head,     \* committed LedgerHead tip of each tenant, Genesis if it has no row
    seeded,   \* tenants with a committed LedgerHead row
    rowLock,  \* owner of the row lock (or of the uncommitted insert) of a head
    pc,       \* where each session is
    org,      \* the tenant its transaction works for
    mine,     \* the LedgerHead version its transaction sees once it owns the lock
    pend      \* the TrailEntry rows it inserted and did not commit yet

vars == <<entries, head, seeded, rowLock, pc, org, mine, pend>>

States == {"idle", "ready", "seeding", "locked", "appended", "conflict"}

-----------------------------------------------------------------------------
(* Rows and tips.  SHA-256 of the canonical JSON is taken to be injective:  *)
(* a hash is the tuple of what it covers.  << >> is the empty string.       *)

Genesis == [seq |-> 0, hash |-> << >>]

HashEntry(o, c, s, prev) == <<o, c, s, prev>>

\* Mutant: the new entry takes the tip's own number.
NewRow_NotAdvanced(o, c, tip) ==
    [org |-> o, content |-> c, seq |-> tip.seq, prev |-> tip.hash,
     hash |-> HashEntry(o, c, tip.seq, tip.hash)]

NewRow(o, c, tip) ==
    [org |-> o, content |-> c, seq |-> tip.seq + 1, prev |-> tip.hash,
     hash |-> HashEntry(o, c, tip.seq + 1, tip.hash)]

TipOf(row) == [seq |-> row.seq, hash |-> row.hash]

RowsOf(rows, o) == {e \in rows : e.org = o}

\* UNIQUE (organization_id, sequence), and the range of the sequence column.
Accepted(rows, row) ==
    /\ row.seq <= MaxSeq
    /\ \A e \in rows : ~(e.org = row.org /\ e.seq = row.seq)

-----------------------------------------------------------------------------
Init ==
    /\ entries = {}
    /\ head = [o \in Orgs |-> Genesis]
    /\ seeded = {}
    /\ rowLock = [o \in Orgs |-> NoTxn]
    /\ pc = [t \in Txns |-> "idle"]
    /\ org \in [Txns -> Orgs]
    /\ mine = [t \in Txns |-> Genesis]
    /\ pend = [t \in Txns |-> {}]

\* The caller opens its transaction and calls append_trail_entry.
Begin(t, o) ==
    /\ pc[t] = "idle"
    /\ pc' = [pc EXCEPT ![t] = "ready"]
    /\ org' = [org EXCEPT ![t] = o]
    /\ UNCHANGED <<entries, head, seeded, rowLock, mine, pend>>

\* Mutant: the SELECT does not lock.
SelectHead_NoLock(t) ==
    /\ pc[t] = "ready"
    /\ \/ rowLock[org[t]] = t /\ UNCHANGED mine
       \/ /\ org[t] \in seeded
          /\ mine' = [mine EXCEPT ![t] = head[org[t]]]
    /\ pc' = [pc EXCEPT ![t] = "locked"]
    /\ UNCHANGED <<entries, head, seeded, rowLock, org, pend>>

\* SELECT ... FOR UPDATE finds the row: the session waits for the row lock and
\* then reads the version current at that moment (its own, if it already wrote).
SelectHead(t) ==
    /\ pc[t] = "ready"
    /\ \/ rowLock[org[t]] = t /\ UNCHANGED mine
       \/ /\ rowLock[org[t]] = NoTxn
          /\ org[t] \in seeded
          /\ mine' = [mine EXCEPT ![t] = head[org[t]]]
    /\ rowLock' = [rowLock EXCEPT ![org[t]] = t]
    /\ pc' = [pc EXCEPT ![t] = "locked"]
    /\ UNCHANGED <<entries, head, seeded, org, pend>>

\* SELECT ... FOR UPDATE sees no row; one that another session inserted and
\* did not commit is invisible.
SelectHeadMiss(t) ==
    /\ pc[t] = "ready"
    /\ org[t] \notin seeded
    /\ rowLock[org[t]] # t
    /\ pc' = [pc EXCEPT ![t] = "seeding"]
    /\ UNCHANGED <<entries, head, seeded, rowLock, org, mine, pend>>

\* get_or_create inserts the head; the insert waits while another session's
\* uncommitted head has the same key.
InsertHead(t) ==
    /\ pc[t] = "seeding"
    /\ org[t] \notin seeded
    /\ rowLock[org[t]] = NoTxn
    /\ rowLock' = [rowLock EXCEPT ![org[t]] = t]
    /\ mine' = [mine EXCEPT ![t] = Genesis]
    /\ pc' = [pc EXCEPT ![t] = "locked"]
    /\ UNCHANGED <<entries, head, seeded, org, pend>>

\* Another session seeded the head meanwhile: IntegrityError, caught by
\* get_or_create, which rolls its savepoint back and selects the row again.
InsertHeadConflict(t) ==
    /\ pc[t] = "seeding"
    /\ org[t] \in seeded
    /\ pc' = [pc EXCEPT ![t] = "ready"]
    /\ UNCHANGED <<entries, head, seeded, rowLock, org, mine, pend>>

\* Mutant: the head is not saved after the insert.
InsertEntry_HeadNotSaved(t) ==
    /\ pc[t] = "locked"
    /\ \E c \in Contents :
        LET row == NewRow(org[t], c, mine[t]) IN
        /\ Accepted(entries \cup UNION {pend[u] : u \in Txns}, row)
        /\ pend' = [pend EXCEPT ![t] = @ \cup {row}]
    /\ pc' = [pc EXCEPT ![t] = "appended"]
    /\ UNCHANGED <<entries, head, seeded, rowLock, org, mine>>

\* INSERT of the entry built from the tip, and UPDATE of the head to it.  Both
\* are the transaction's own until it commits and fail together, so nobody
\* sees the state between them.  The INSERT would wait for another session's
\* uncommitted row with the same key.
InsertEntry(t) ==
    /\ pc[t] = "locked"
    /\ \E c \in Contents :
        LET row == NewRow(org[t], c, mine[t]) IN
        /\ Accepted(entries \cup UNION {pend[u] : u \in Txns}, row)
        /\ pend' = [pend EXCEPT ![t] = @ \cup {row}]
        /\ mine' = [mine EXCEPT ![t] = TipOf(row)]
    /\ pc' = [pc EXCEPT ![t] = "appended"]
    /\ UNCHANGED <<entries, head, seeded, rowLock, org>>

\* The INSERT breaks UNIQUE (organization, sequence) or overflows the column.
InsertEntryFails(t) ==
    /\ pc[t] = "locked"
    /\ \E c \in Contents :
        ~Accepted(entries \cup pend[t], NewRow(org[t], c, mine[t]))
    /\ pc' = [pc EXCEPT ![t] = "conflict"]
    /\ UNCHANGED <<entries, head, seeded, rowLock, org, mine, pend>>

\* The caller catches that exception: the savepoint of the failed append is
\* undone and the transaction goes on with what it appended before.  (With
\* nothing appended before, the lock goes too: that is a Rollback here.)
CatchFailure(t) ==
    /\ pc[t] = "conflict"
    /\ pend[t] # {}
    /\ pc' = [pc EXCEPT ![t] = "appended"]
    /\ UNCHANGED <<entries, head, seeded, rowLock, org, mine, pend>>

\* Mutant: the lock is released when the append returns, before the commit.
AppendAgain_Unlocks(t) ==
    /\ pc[t] = "appended"
    /\ Cardinality(pend[t]) < MaxAppends
    /\ rowLock' = [rowLock EXCEPT ![org[t]] = NoTxn]
    /\ pc' = [pc EXCEPT ![t] = "ready"]
    /\ UNCHANGED <<entries, head, seeded, org, mine, pend>>

\* The caller appends another entry in the same transaction.
AppendAgain(t) ==
    /\ pc[t] = "appended"
    /\ Cardinality(pend[t]) < MaxAppends
    /\ pc' = [pc EXCEPT ![t] = "ready"]
    /\ UNCHANGED <<entries, head, seeded, rowLock, org, mine, pend>>

\* The outermost transaction.atomic() commits: only now is the lock released.
Commit(t) ==
    /\ pc[t] = "appended"
    /\ entries' = entries \cup pend[t]
    /\ head' = [head EXCEPT ![org[t]] = mine[t]]
    /\ seeded' = seeded \cup {org[t]}
    /\ rowLock' = [rowLock EXCEPT ![org[t]] = NoTxn]
    /\ pc' = [pc EXCEPT ![t] = "idle"]
    /\ pend' = [pend EXCEPT ![t] = {}]
    /\ mine' = [mine EXCEPT ![t] = Genesis]
    /\ UNCHANGED org

\* Mutant: the head was saved outside the transaction.
Rollback_KeepsHead(t) ==
    /\ pc[t] # "idle"
    /\ head' = IF rowLock[org[t]] = t THEN [head EXCEPT ![org[t]] = mine[t]] ELSE head
    /\ seeded' = IF rowLock[org[t]] = t THEN seeded \cup {org[t]} ELSE seeded
    /\ rowLock' = [o \in Orgs |-> IF rowLock[o] = t THEN NoTxn ELSE rowLock[o]]
    /\ pc' = [pc EXCEPT ![t] = "idle"]
    /\ pend' = [pend EXCEPT ![t] = {}]
    /\ mine' = [mine EXCEPT ![t] = Genesis]
    /\ UNCHANGED <<entries, org>>

\* Mutant: the session goes back to the pool with its transaction open.
Rollback_KeepsLock(t) ==
    /\ pc[t] # "idle"
    /\ pc' = [pc EXCEPT ![t] = "idle"]
    /\ pend' = [pend EXCEPT ![t] = {}]
    /\ mine' = [mine EXCEPT ![t] = Genesis]
    /\ UNCHANGED <<entries, head, seeded, rowLock, org>>

\* An exception in the caller, or a lost session, rolls everything back.
Rollback(t) ==
    /\ pc[t] # "idle"
    /\ rowLock' = [o \in Orgs |-> IF rowLock[o] = t THEN NoTxn ELSE rowLock[o]]
    /\ pc' = [pc EXCEPT ![t] = "idle"]
    /\ pend' = [pend EXCEPT ![t] = {}]
    /\ mine' = [mine EXCEPT ![t] = Genesis]
    /\ UNCHANGED <<entries, head, seeded, org>>
-----------------------------------------------------------------------------
Step(t) ==
    \/ SelectHead(t)
    \/ SelectHeadMiss(t)
    \/ InsertHead(t)
    \/ InsertHeadConflict(t)
    \/ InsertEntry(t)
    \/ InsertEntryFails(t)
    \/ CatchFailure(t)
    \/ AppendAgain(t)
    \/ Commit(t)
    \/ Rollback(t)

Next == \E t \in Txns : Step(t) \/ \E o \in Orgs : Begin(t, o)

Spec == Init /\ [][Next]_vars

-----------------------------------------------------------------------------
(* Fairness: a session that can run goes on (WF), a caller left with an     *)
(* exception unwinds, a caller's block is finite, so it commits at last     *)
(* (SF), and a session queued for a row lock gets it when its holders keep  *)
(* releasing it (SF: PostgreSQL grants row locks in FIFO order).  Nothing   *)
(* forces a rollback that is not due to a failed INSERT.                    *)

Works(t) ==
    \/ SelectHeadMiss(t)
    \/ InsertHeadConflict(t)
    \/ InsertEntry(t)
    \/ InsertEntryFails(t)
    \/ pc[t] = "conflict" /\ Rollback(t)

Fairness ==
    \A t \in Txns :
        /\ WF_vars(Works(t))
        /\ SF_vars(Commit(t))
        /\ SF_vars(SelectHead(t))
        /\ SF_vars(InsertHead(t))

FairSpec == Spec /\ Fairness

-----------------------------------------------------------------------------
(* Types.                                                                   *)

RowsTyped(rows) ==
    \A e \in rows : e.org \in Orgs /\ e.content \in Contents /\ e.seq \in 1 .. MaxSeq

TypeOK ==
    /\ RowsTyped(entries)
    /\ \A t \in Txns : RowsTyped(pend[t])
    /\ DOMAIN head = Orgs /\ \A o \in Orgs : head[o].seq \in 0 .. MaxSeq
    /\ DOMAIN mine = Txns /\ \A t \in Txns : mine[t].seq \in 0 .. MaxSeq
    /\ seeded \subseteq Orgs
    /\ rowLock \in [Orgs -> Txns \cup {NoTxn}]
    /\ pc \in [Txns -> States]
    /\ org \in [Txns -> Orgs]
    /\ DOMAIN pend = Txns

-----------------------------------------------------------------------------
(* Properties.                                                              *)

\* The rows of one tenant are numbered 1 .. tip.seq without gap or repetition,
\* each links to the hash of the one before, and the tip is the last of them.
Dense(rows, tip) ==
    /\ \A e \in rows : e.seq \in 1 .. tip.seq
    /\ \A n \in 1 .. tip.seq : \E e \in rows : e.seq = n
    /\ \A e, f \in rows : e.seq = f.seq => e = f

Linked(rows, tip) ==
    /\ \A e \in rows : e.hash = HashEntry(e.org, e.content, e.seq, e.prev)
    /\ \A e \in rows : e.seq = 1 => e.prev = Genesis.hash
    /\ \A e, f \in rows : f.seq = e.seq + 1 => f.prev = e.hash
    /\ \A e \in rows : e.seq = tip.seq => tip.hash = e.hash
    /\ tip.seq = 0 => tip.hash = Genesis.hash

Chain(rows, tip) == Dense(rows, tip) /\ Linked(rows, tip)

\* The committed ledger of every tenant is a verifiable chain that ends at its
\* LEDGER_HEAD, whatever the interleaving of appends, commits and rollbacks
\* (test_services.py, test_concurrent_appends...: dense sequence, chain, head).
ChainIntact == \A o \in Orgs : Chain(RowsOf(entries, o), head[o])

\* services.py:33-34: the lock is held to commit, so no concurrent writer of
\* the same tenant works from a stale tip: what a session inserted extends the
\* committed tip of now, not the one of when it read.
Writing(t) == pc[t] \in {"locked", "appended", "conflict"}

NoStaleTip ==
    \A t \in Txns : Writing(t) =>
        mine[t].seq = head[org[t]].seq + Cardinality(pend[t])

\* The UNIQUE constraint is a backstop nothing reaches: the only INSERT that
\* fails is the one that overflows the sequence column.
BackstopUnused == \A t \in Txns : pc[t] = "conflict" => mine[t].seq = MaxSeq

\* The strengthening of the above that is inductive (TrailLedgerProofs): the
\* owner of a lock is a writer of that tenant; its pending rows continue the
\* committed chain to its own version of the head; whoever owns no lock has
\* inserted nothing; a tenant without a head row has no history.
OwnsLock(t) == rowLock[org[t]] = t

LockInvOf(t) ==
    /\ Writing(t) => OwnsLock(t)
    /\ \A o \in Orgs : rowLock[o] = t =>
            o = org[t] /\ pc[t] \in {"ready", "locked", "appended", "conflict"}

LockInv == \A t \in Txns : LockInvOf(t)

InFlight(t) ==
    /\ Chain(RowsOf(entries, org[t]) \cup pend[t], mine[t])
    /\ \A e \in pend[t] : e.org = org[t] /\ e.seq > head[org[t]].seq
    /\ IsFiniteSet(pend[t])
    /\ mine[t].seq = head[org[t]].seq + Cardinality(pend[t])

PendInvOf(t) == IF OwnsLock(t) THEN InFlight(t) ELSE pend[t] = {}

PendInv == \A t \in Txns : PendInvOf(t)

SeedInv == \A o \in Orgs : o \notin seeded => head[o] = Genesis

LedgerInv == TypeOK /\ ChainIntact /\ LockInv /\ PendInv /\ SeedInv /\ BackstopUnused

\* A transaction never has more rows than it may append, and one that can commit
\* has a row: a batch of LedgerLog.
BatchInvOf(t) ==
    /\ pc[t] = "idle" => pend[t] = {}
    /\ pc[t] \in {"ready", "seeding", "locked", "conflict"} => Cardinality(pend[t]) < MaxAppends
    /\ pc[t] = "appended" => pend[t] # {} /\ Cardinality(pend[t]) <= MaxAppends

BatchInv == \A t \in Txns : BatchInvOf(t)

IInv == LedgerInv /\ BatchInv

\* A committed entry is never changed or removed, and every step adds entries
\* only past the tip of their tenant, with no step touching two tenants.
AppendOnlyStep ==
    /\ entries \subseteq entries'
    /\ \A e \in entries' \ entries :
          e.seq > head[e.org].seq /\ e.seq <= head'[e.org].seq
    /\ \A o, p \in Orgs : head'[o] # head[o] /\ head'[p] # head[p] => o = p

AppendOnly == [][AppendOnlyStep]_vars

\* Every transaction that starts an append ends: nobody waits for a head row
\* lock forever and no two sessions wait for each other.
AppendsEnd == \A t \in Txns : pc[t] # "idle" ~> pc[t] = "idle"

\* The rows of a tenant as the abstract log: position n holds what row n holds.
Log(rows) ==
    [n \in {e.seq : e \in rows} |-> (CHOOSE e \in rows : e.seq = n).content]

Logs == [o \in Orgs |-> Log(RowsOf(entries, o))]

Abstract == INSTANCE LedgerLog WITH log <- Logs

\* append_trail_entry implements the append-only log of LedgerLog.
ImplementsLog == Abstract!Spec
=============================================================================
