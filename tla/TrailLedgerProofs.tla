------------------------- MODULE TrailLedgerProofs -------------------------
(***************************************************************************)
(* Proofs about TrailLedger, for any set of tenants and sessions and any   *)
(* bounds: its state is well typed, the committed ledger of every tenant   *)
(* is one verifiable chain ending at its head, writers never work from a   *)
(* stale tip, the UNIQUE constraint is never what stops them, and committed*)
(* entries never change.                                                   *)
(***************************************************************************)
EXTENDS TrailLedger, FiniteSetTheorems, SequenceTheorems, TLAPS

\* A row built from the tip of a chain extends the chain, and is its new tip.
LEMMA ChainExtends ==
    ASSUME NEW rows, NEW tip, NEW o, NEW c,
           tip.seq \in Nat,
           \A e \in rows : e.seq \in Nat,
           Chain(rows, tip)
    PROVE  /\ Chain(rows \cup {NewRow(o, c, tip)}, TipOf(NewRow(o, c, tip)))
           /\ NewRow(o, c, tip) \notin rows
  <1> DEFINE row == NewRow(o, c, tip)
             new == TipOf(row)
  <1>1. /\ row.seq = tip.seq + 1
        /\ row.prev = tip.hash
        /\ row.hash = HashEntry(row.org, row.content, row.seq, row.prev)
        /\ new.seq = tip.seq + 1
        /\ new.hash = row.hash
    BY DEF NewRow, TipOf
  <1> HIDE DEF row, new
  <1>2. \A e \in rows : e.seq \in 1 .. tip.seq
    BY DEF Chain, Dense
  <1>3. Dense(rows \cup {row}, new)
    <2>1. \A e \in rows \cup {row} : e.seq \in 1 .. new.seq
      BY <1>1, <1>2
    <2>2. ASSUME NEW n \in 1 .. new.seq
          PROVE  \E e \in rows \cup {row} : e.seq = n
      BY <1>1 DEF Chain, Dense
    <2>3. ASSUME NEW e \in rows \cup {row}, NEW f \in rows \cup {row}, e.seq = f.seq
          PROVE  e = f
      BY <1>1, <1>2, <2>3 DEF Chain, Dense
    <2> QED
      BY <2>1, <2>2, <2>3 DEF Dense
  <1>4. Linked(rows \cup {row}, new)
    <2>1. \A e \in rows \cup {row} : e.hash = HashEntry(e.org, e.content, e.seq, e.prev)
      BY <1>1 DEF Chain, Linked
    <2>2. ASSUME NEW e \in rows \cup {row}, e.seq = 1
          PROVE  e.prev = Genesis.hash
      BY <1>1, <2>2 DEF Chain, Linked
    <2>3. ASSUME NEW e \in rows \cup {row}, NEW f \in rows \cup {row}, f.seq = e.seq + 1
          PROVE  f.prev = e.hash
      <3>1. CASE e \in rows /\ f \in rows
        BY <2>3, <3>1 DEF Chain, Linked
      <3>2. CASE e \in rows /\ f = row
        BY <1>1, <1>2, <2>3, <3>2 DEF Chain, Linked
      <3>3. CASE e = row
        BY <1>1, <1>2, <2>3, <3>3
      <3> QED
        BY <3>1, <3>2, <3>3
    <2>4. ASSUME NEW e \in rows \cup {row}, e.seq = new.seq
          PROVE  new.hash = e.hash
      BY <1>1, <1>2, <2>4
    <2>5. new.seq # 0
      BY <1>1
    <2> QED
      BY <2>1, <2>2, <2>3, <2>4, <2>5 DEF Linked
  <1>5. row \notin rows
    BY <1>1, <1>2
  <1> QED
    BY <1>3, <1>4, <1>5 DEF Chain, row, new

\* The number after the tip of a chain is free.
LEMMA NextIsFree ==
    ASSUME NEW o \in Orgs, NEW rows, NEW tip, NEW c, NEW p,
           tip.seq \in Nat,
           Chain(RowsOf(rows, o) \cup p, tip),
           \A e \in p : e.org = o,
           tip.seq < MaxSeq
    PROVE  Accepted(rows \cup p, NewRow(o, c, tip))
  BY MaxSeqAssumption DEF Chain, Dense, RowsOf, Accepted, NewRow

-----------------------------------------------------------------------------
\* The strengthened invariant holds initially: no row, no lock, every tip the
\* genesis.
LEMMA InitLedgerInv == Init => LedgerInv
  <1> SUFFICES ASSUME Init PROVE LedgerInv
    OBVIOUS
  <1>1. TypeOK
    BY MaxSeqAssumption DEF Init, TypeOK, RowsTyped, Genesis, States
  <1>2. ChainIntact
    BY DEF Init, ChainIntact, Chain, Dense, Linked, RowsOf, Genesis
  <1>3. \A t \in Txns : ~ OwnsLock(t) /\ ~ Writing(t)
    BY NoTxnAssumption DEF Init, OwnsLock, Writing
  <1>4. LockInv
    BY <1>3, NoTxnAssumption DEF Init, LockInv, LockInvOf, Writing
  <1>5. PendInv
    BY <1>3 DEF Init, PendInv, PendInvOf
  <1>6. SeedInv
    BY DEF Init, SeedInv
  <1>7. BackstopUnused
    BY DEF Init, BackstopUnused
  <1> QED
    BY <1>1, <1>2, <1>4, <1>5, <1>6, <1>7 DEF LedgerInv

-----------------------------------------------------------------------------
\* Every action keeps the types.
LEMMA TypeStep ==
    ASSUME TypeOK, [Next]_vars
    PROVE  TypeOK'
  <1> USE DEF TypeOK
  <1>1. ASSUME NEW t \in Txns, NEW o \in Orgs, Begin(t, o)
        PROVE  TypeOK'
    BY <1>1 DEF Begin, States
  <1>2. ASSUME NEW t \in Txns, SelectHead(t)
        PROVE  TypeOK'
    BY <1>2 DEF SelectHead, States
  <1>3. ASSUME NEW t \in Txns, SelectHeadMiss(t)
        PROVE  TypeOK'
    BY <1>3 DEF SelectHeadMiss, States
  <1>4. ASSUME NEW t \in Txns, InsertHead(t)
        PROVE  TypeOK'
    BY <1>4, MaxSeqAssumption DEF InsertHead, States, Genesis
  <1>5. ASSUME NEW t \in Txns, InsertHeadConflict(t)
        PROVE  TypeOK'
    BY <1>5 DEF InsertHeadConflict, States
  <1>6. ASSUME NEW t \in Txns, InsertEntry(t)
        PROVE  TypeOK'
    <2>1. PICK c \in Contents :
            /\ NewRow(org[t], c, mine[t]).seq <= MaxSeq
            /\ pend' = [pend EXCEPT ![t] = @ \cup {NewRow(org[t], c, mine[t])}]
            /\ mine' = [mine EXCEPT ![t] = TipOf(NewRow(org[t], c, mine[t]))]
      BY <1>6 DEF InsertEntry, Accepted
    <2> DEFINE row == NewRow(org[t], c, mine[t])
    <2>2. /\ row.org \in Orgs
          /\ row.content \in Contents
          /\ row.seq \in 1 .. MaxSeq
          /\ TipOf(row).seq = row.seq
      BY <2>1, MaxSeqAssumption DEF NewRow, TipOf
    <2> HIDE DEF row
    <2>3. \A u \in Txns : RowsTyped(pend'[u])
      BY <2>1, <2>2 DEF RowsTyped, row
    <2>4. \A u \in Txns : mine'[u].seq \in 0 .. MaxSeq
      BY <2>1, <2>2 DEF row
    <2> QED
      BY <1>6, <2>1, <2>3, <2>4 DEF InsertEntry, States
  <1>7. ASSUME NEW t \in Txns, InsertEntryFails(t)
        PROVE  TypeOK'
    BY <1>7 DEF InsertEntryFails, States
  <1>8. ASSUME NEW t \in Txns, AppendAgain(t)
        PROVE  TypeOK'
    BY <1>8 DEF AppendAgain, States
  <1>12. ASSUME NEW t \in Txns, CatchFailure(t)
         PROVE  TypeOK'
    BY <1>12 DEF CatchFailure, States
  <1>9. ASSUME NEW t \in Txns, Commit(t)
        PROVE  TypeOK'
    <2>1. RowsTyped(entries') /\ \A u \in Txns : RowsTyped(pend'[u])
      BY <1>9 DEF Commit, RowsTyped
    <2>2. \A o \in Orgs : head'[o].seq \in 0 .. MaxSeq
      BY <1>9 DEF Commit
    <2>3. \A u \in Txns : mine'[u].seq \in 0 .. MaxSeq
      BY <1>9, MaxSeqAssumption DEF Commit, Genesis
    <2> QED
      BY <1>9, <2>1, <2>2, <2>3 DEF Commit, States
  <1>10. ASSUME NEW t \in Txns, Rollback(t)
         PROVE  TypeOK'
    BY <1>10, MaxSeqAssumption DEF Rollback, States, RowsTyped, Genesis
  <1>11. CASE UNCHANGED vars
    BY <1>11 DEF vars
  <1> QED
    BY <1>1, <1>2, <1>3, <1>4, <1>5, <1>6, <1>7, <1>8, <1>9, <1>10, <1>11, <1>12
    DEF Next, Step

\* TrailLedger's state is well typed.
THEOREM TypeCorrect == Spec => []TypeOK
  <1>1. Init => TypeOK
    BY InitLedgerInv DEF LedgerInv
  <1>2. TypeOK /\ [Next]_vars => TypeOK'
    BY TypeStep
  <1> QED
    BY <1>1, <1>2, PTL DEF Spec

-----------------------------------------------------------------------------
\* A session whose own state, lock, committed rows and committed tip a step
\* leaves alone keeps its part of PendInv.
LEMMA PendFrame ==
    ASSUME NEW u \in Txns, PendInvOf(u),
           pend'[u] = pend[u], mine'[u] = mine[u], org'[u] = org[u],
           OwnsLock(u)' <=> OwnsLock(u),
           OwnsLock(u) => /\ RowsOf(entries', org[u]) = RowsOf(entries, org[u])
                          /\ head'[org[u]] = head[org[u]]
    PROVE  PendInvOf(u)'
  <1>1. CASE OwnsLock(u)
    <2>1. InFlight(u)
      BY <1>1 DEF PendInvOf
    <2>2. InFlight(u)'
      BY <1>1, <2>1 DEF InFlight
    <2> QED
      BY <1>1, <2>2 DEF PendInvOf
  <1>2. CASE ~ OwnsLock(u)
    BY <1>2 DEF PendInvOf
  <1> QED
    BY <1>1, <1>2

\* Steps that only move a session between its program points.
LEMMA LocalStep ==
    ASSUME LedgerInv, NEW t \in Txns,
           UNCHANGED <<entries, head, seeded, rowLock, mine, pend>>,
           pc' = [pc EXCEPT ![t] = pc'[t]],
           \A u \in Txns : u # t \/ OwnsLock(t) => org'[u] = org[u],
           org'[t] \in Orgs,
           \A o \in Orgs : rowLock[o] = t => pc'[t] \in {"ready", "appended", "conflict"},
           pc'[t] \in {"locked", "appended", "conflict"} => OwnsLock(t)',
           pc'[t] = "conflict" => mine[t].seq = MaxSeq
    PROVE  LockInv' /\ PendInv' /\ SeedInv' /\ BackstopUnused' /\ ChainIntact'
  <1> USE DEF LedgerInv
  <1>1. ChainIntact' /\ SeedInv'
    BY DEF ChainIntact, SeedInv
  <1>2. BackstopUnused'
    BY DEF BackstopUnused, TypeOK
  <1>3. ASSUME NEW u \in Txns
        PROVE  LockInvOf(u)'
    <2>1. CASE u = t
      BY <2>1 DEF LockInv, LockInvOf, OwnsLock, Writing, TypeOK
    <2>2. CASE u # t
      BY <2>2 DEF LockInv, LockInvOf, OwnsLock, Writing, TypeOK
    <2> QED
      BY <2>1, <2>2
  <1>4. ASSUME NEW u \in Txns
        PROVE  PendInvOf(u)'
    <2>1. CASE u # t \/ OwnsLock(t)
      BY <2>1, PendFrame DEF PendInv, OwnsLock
    <2>2. CASE u = t /\ ~ OwnsLock(t)
      BY <2>2 DEF PendInv, PendInvOf, LockInv, LockInvOf, OwnsLock, TypeOK
    <2> QED
      BY <2>1, <2>2
  <1> QED
    BY <1>1, <1>2, <1>3, <1>4 DEF LockInv, PendInv

-----------------------------------------------------------------------------
(* The two ways to take the lock, the insert, and the two ends of a         *)
(* transaction, one lemma each.                                             *)

\* Taking the lock, by SELECT ... FOR UPDATE or by inserting the head, keeps the
\* invariant: the version of the head read is the committed one, or one's own.
LEMMA TakeLock ==
    ASSUME LedgerInv, NEW t \in Txns, SelectHead(t) \/ InsertHead(t)
    PROVE  LedgerInv'
  <1> USE DEF LedgerInv
  <1>1. TypeOK'
    BY TypeStep DEF Next, Step
  <1>2. /\ UNCHANGED <<entries, head, seeded, org, pend>>
        /\ rowLock' = [rowLock EXCEPT ![org[t]] = t]
        /\ pc' = [pc EXCEPT ![t] = "locked"]
        /\ rowLock[org[t]] \in {t, NoTxn}
        /\ org[t] \in Orgs
        /\ \A u \in Txns : u # t => mine'[u] = mine[u]
    BY DEF SelectHead, InsertHead, TypeOK
  <1>3. ChainIntact' /\ SeedInv'
    BY <1>2 DEF ChainIntact, SeedInv
  <1>4. BackstopUnused'
    BY <1>2 DEF BackstopUnused, TypeOK, SelectHead, InsertHead
  <1>5. LockInv'
    <2> SUFFICES ASSUME NEW u \in Txns PROVE LockInvOf(u)'
      BY DEF LockInv
    <2>1. LockInvOf(u)
      BY DEF LockInv
    <2>2. CASE u = t
      BY <1>2, <2>1, <2>2 DEF LockInvOf, OwnsLock, Writing, TypeOK
    <2>3. CASE u # t
      BY <1>2, <2>1, <2>3, NoTxnAssumption DEF LockInvOf, OwnsLock, Writing, TypeOK
    <2> QED
      BY <2>2, <2>3
  <1>6. PendInv'
    <2> SUFFICES ASSUME NEW u \in Txns PROVE PendInvOf(u)'
      BY DEF PendInv
    <2>1. PendInvOf(u)
      BY DEF PendInv
    <2>2. CASE u # t
      <3>1. OwnsLock(u)' <=> OwnsLock(u)
        BY <1>2, <2>2, NoTxnAssumption DEF OwnsLock, TypeOK
      <3> QED
        BY <1>2, <2>1, <2>2, <3>1, PendFrame
    <2>3. CASE u = t /\ OwnsLock(t)
      <3>1. mine' = mine
        BY <2>3, NoTxnAssumption DEF SelectHead, InsertHead, OwnsLock
      <3>2. OwnsLock(u)'
        BY <1>2, <2>3 DEF OwnsLock, TypeOK
      <3> QED
        BY <1>2, <2>1, <2>3, <3>1, <3>2, PendFrame
    <2>4. CASE u = t /\ ~ OwnsLock(t)
      <3>1. OwnsLock(t)' /\ pend'[t] = {}
        BY <1>2, <2>1, <2>4 DEF OwnsLock, PendInvOf, TypeOK
      <3>2. mine'[t] = head[org[t]]
        BY <1>2, <2>4 DEF SelectHead, InsertHead, OwnsLock, SeedInv, TypeOK
      <3>3. Chain(RowsOf(entries, org[t]) \cup {}, head[org[t]])
        <4>1. RowsOf(entries, org[t]) \cup {} = RowsOf(entries, org[t])
          OBVIOUS
        <4> QED
          BY <1>2, <4>1 DEF ChainIntact
      <3>4. IsFiniteSet({}) /\ Cardinality({}) = 0
        BY FS_EmptySet
      <3>5. head[org[t]].seq = head[org[t]].seq + 0
        BY <1>2, MaxSeqAssumption DEF TypeOK
      <3>6. InFlight(t)'
        BY <1>2, <3>1, <3>2, <3>3, <3>4, <3>5 DEF InFlight
      <3> QED
        BY <2>4, <3>1, <3>6 DEF PendInvOf
    <2> QED
      BY <2>2, <2>3, <2>4
  <1> QED
    BY <1>1, <1>3, <1>4, <1>5, <1>6

\* The insert continues the chain of the session that owns the lock.
LEMMA InsertStep ==
    ASSUME LedgerInv, NEW t \in Txns, InsertEntry(t)
    PROVE  LedgerInv'
  <1> USE DEF LedgerInv
  <1>1. TypeOK'
    BY TypeStep DEF Next, Step
  <1>2. PICK c \in Contents :
          /\ pend' = [pend EXCEPT ![t] = @ \cup {NewRow(org[t], c, mine[t])}]
          /\ mine' = [mine EXCEPT ![t] = TipOf(NewRow(org[t], c, mine[t]))]
    BY DEF InsertEntry
  <1> DEFINE row == NewRow(org[t], c, mine[t])
             rows == RowsOf(entries, org[t]) \cup pend[t]
  <1>3. /\ UNCHANGED <<entries, head, seeded, rowLock, org>>
        /\ pc' = [pc EXCEPT ![t] = "appended"]
        /\ pc[t] = "locked"
    BY DEF InsertEntry
  <1>4. OwnsLock(t) /\ InFlight(t)
    BY <1>3 DEF LockInv, LockInvOf, Writing, PendInv, PendInvOf
  <1>5. ChainIntact' /\ SeedInv'
    BY <1>3 DEF ChainIntact, SeedInv
  <1>6. BackstopUnused'
    BY <1>2, <1>3 DEF BackstopUnused, TypeOK
  <1>7. LockInv'
    BY <1>3 DEF LockInv, LockInvOf, OwnsLock, Writing, TypeOK
  <1>8. InFlight(t)'
    <2>1. /\ Chain(rows \cup {row}, TipOf(row))
          /\ row \notin rows
      <3>1. mine[t].seq \in Nat /\ \A e \in rows : e.seq \in Nat
        BY MaxSeqAssumption DEF TypeOK, RowsTyped, RowsOf
      <3>2. Chain(rows, mine[t])
        BY <1>4 DEF InFlight
      <3> HIDE DEF rows
      <3> QED
        BY <3>1, <3>2, ChainExtends
    <2>2. /\ pend'[t] = pend[t] \cup {row}
          /\ mine'[t] = TipOf(row)
      BY <1>2 DEF TypeOK
    <2>3. /\ row.org = org[t]
          /\ row.seq = mine[t].seq + 1
          /\ TipOf(row).seq = mine[t].seq + 1
      BY DEF NewRow, TipOf
    <2>4. row \notin pend[t]
      BY <2>1
    <2> HIDE DEF row
    <2>5. Chain(RowsOf(entries, org[t]) \cup pend'[t], mine'[t])
      <3>1. RowsOf(entries, org[t]) \cup pend'[t] = rows \cup {row}
        BY <2>2
      <3> QED
        BY <2>1, <2>2, <3>1
    <2>6. /\ IsFiniteSet(pend'[t])
          /\ Cardinality(pend'[t]) = Cardinality(pend[t]) + 1
      <3>1. IsFiniteSet(pend[t])
        BY <1>4 DEF InFlight
      <3>2. /\ IsFiniteSet(pend[t] \cup {row})
            /\ Cardinality(pend[t] \cup {row}) = Cardinality(pend[t]) + 1
        BY <2>4, <3>1, FS_AddElement
      <3> QED
        BY <2>2, <3>2
    <2>7. /\ mine[t].seq \in Nat
          /\ head[org[t]].seq \in Nat
          /\ Cardinality(pend[t]) \in Nat
      BY <1>4, MaxSeqAssumption, FS_CardinalityType DEF InFlight, TypeOK
    <2>8. mine'[t].seq = head[org[t]].seq + Cardinality(pend'[t])
      BY <1>4, <2>2, <2>3, <2>6, <2>7 DEF InFlight
    <2>9. \A e \in pend'[t] : e.org = org[t] /\ e.seq > head[org[t]].seq
      <3>1. row.seq > head[org[t]].seq
        BY <1>4, <2>3, <2>7 DEF InFlight
      <3> QED
        BY <1>4, <2>2, <2>3, <3>1 DEF InFlight
    <2> QED
      BY <1>3, <2>5, <2>6, <2>8, <2>9 DEF InFlight
  <1>9. PendInv'
    <2> SUFFICES ASSUME NEW u \in Txns PROVE PendInvOf(u)'
      BY DEF PendInv
    <2>1. OwnsLock(u)' <=> OwnsLock(u)
      BY <1>3 DEF OwnsLock
    <2>2. CASE u = t
      BY <1>4, <1>8, <2>1, <2>2 DEF PendInvOf
    <2>3. CASE u # t
      <3>1. pend'[u] = pend[u] /\ mine'[u] = mine[u] /\ PendInvOf(u)
        BY <1>2, <2>3 DEF TypeOK, PendInv
      <3> QED
        BY <1>3, <2>1, <3>1, PendFrame
    <2> QED
      BY <2>2, <2>3
  <1> QED
    BY <1>1, <1>5, <1>6, <1>7, <1>9

\* The commit publishes a chain that extends the committed one, and adds rows
\* past the tip of one tenant only.
LEMMA CommitStep ==
    ASSUME LedgerInv, NEW t \in Txns, Commit(t)
    PROVE  LedgerInv' /\ AppendOnlyStep
  <1> USE DEF LedgerInv
  <1> DEFINE p == org[t]
  <1>1. TypeOK'
    BY TypeStep DEF Next, Step
  <1>2. /\ entries' = entries \cup pend[t]
        /\ head' = [head EXCEPT ![p] = mine[t]]
        /\ seeded' = seeded \cup {p}
        /\ rowLock' = [rowLock EXCEPT ![p] = NoTxn]
        /\ pc' = [pc EXCEPT ![t] = "idle"]
        /\ pend' = [pend EXCEPT ![t] = {}]
        /\ mine' = [mine EXCEPT ![t] = Genesis]
        /\ UNCHANGED org
        /\ pc[t] = "appended"
        /\ p \in Orgs
    BY DEF Commit, TypeOK
  <1>3. OwnsLock(t) /\ InFlight(t)
    BY <1>2 DEF LockInv, LockInvOf, Writing, PendInv, PendInvOf
  <1>4. /\ RowsOf(entries', p) = RowsOf(entries, p) \cup pend[t]
        /\ \A o \in Orgs : o # p => RowsOf(entries', o) = RowsOf(entries, o)
    BY <1>2, <1>3 DEF InFlight, RowsOf
  <1>5. /\ head'[p] = mine[t]
        /\ \A o \in Orgs : o # p => head'[o] = head[o]
    BY <1>2 DEF TypeOK
  <1>6. ChainIntact'
    <2> SUFFICES ASSUME NEW o \in Orgs PROVE Chain(RowsOf(entries', o), head'[o])
      BY DEF ChainIntact
    <2>1. CASE o = p
      BY <1>3, <1>4, <1>5, <2>1 DEF InFlight
    <2>2. CASE o # p
      BY <1>4, <1>5, <2>2 DEF ChainIntact
    <2> QED
      BY <2>1, <2>2
  <1>7. SeedInv'
    BY <1>2, <1>5 DEF SeedInv
  <1>8. BackstopUnused'
    BY <1>2 DEF BackstopUnused, TypeOK
  <1>9. \A u \in Txns : u # t => (OwnsLock(u)' <=> OwnsLock(u)) /\ (OwnsLock(u) => org[u] # p)
    BY <1>2, <1>3, NoTxnAssumption DEF OwnsLock, TypeOK
  <1>10. ~ OwnsLock(t)'
    BY <1>2, NoTxnAssumption DEF OwnsLock, TypeOK
  <1>11. LockInv'
    <2> SUFFICES ASSUME NEW u \in Txns PROVE LockInvOf(u)'
      BY DEF LockInv
    <2>1. LockInvOf(u) /\ LockInvOf(t)
      BY DEF LockInv
    <2>2. CASE u = t
      BY <1>2, <2>1, <2>2, NoTxnAssumption DEF LockInvOf, OwnsLock, Writing, TypeOK
    <2>3. CASE u # t
      BY <1>2, <1>9, <2>1, <2>3, NoTxnAssumption DEF LockInvOf, Writing, TypeOK
    <2> QED
      BY <2>2, <2>3
  <1>12. PendInv'
    <2> SUFFICES ASSUME NEW u \in Txns PROVE PendInvOf(u)'
      BY DEF PendInv
    <2>1. CASE u = t
      BY <1>2, <1>10, <2>1 DEF PendInvOf, TypeOK
    <2>2. CASE u # t
      <3>1. /\ PendInvOf(u)
            /\ pend'[u] = pend[u] /\ mine'[u] = mine[u] /\ org'[u] = org[u]
            /\ org[u] \in Orgs
        BY <1>2, <2>2 DEF PendInv, TypeOK
      <3> QED
        BY <1>4, <1>5, <1>9, <2>2, <3>1, PendFrame
    <2> QED
      BY <2>1, <2>2
  <1>13. AppendOnlyStep
    <2>1. \A e \in pend[t] : e.seq <= mine[t].seq
      BY <1>3 DEF InFlight, Chain, Dense
    <2>2. ASSUME NEW e \in entries' \ entries
          PROVE  e.seq > head[e.org].seq /\ e.seq <= head'[e.org].seq
      BY <1>2, <1>3, <1>5, <2>1 DEF InFlight
    <2> QED
      BY <1>2, <1>5, <2>2 DEF AppendOnlyStep
  <1> QED
    BY <1>1, <1>6, <1>7, <1>8, <1>11, <1>12, <1>13

\* The rollback leaves the committed chains alone and frees the lock.
LEMMA RollbackStep ==
    ASSUME LedgerInv, NEW t \in Txns, Rollback(t)
    PROVE  LedgerInv'
  <1> USE DEF LedgerInv
  <1>1. TypeOK'
    BY TypeStep DEF Next, Step
  <1>2. /\ rowLock' = [o \in Orgs |-> IF rowLock[o] = t THEN NoTxn ELSE rowLock[o]]
        /\ pc' = [pc EXCEPT ![t] = "idle"]
        /\ pend' = [pend EXCEPT ![t] = {}]
        /\ mine' = [mine EXCEPT ![t] = Genesis]
        /\ UNCHANGED <<entries, head, seeded, org>>
    BY DEF Rollback
  <1>3. ChainIntact' /\ SeedInv'
    BY <1>2 DEF ChainIntact, SeedInv
  <1>4. BackstopUnused'
    BY <1>2 DEF BackstopUnused, TypeOK
  <1>5. \A u \in Txns : u # t => (OwnsLock(u)' <=> OwnsLock(u))
    BY <1>2, NoTxnAssumption DEF OwnsLock, TypeOK
  <1>6. ~ OwnsLock(t)'
    BY <1>2, NoTxnAssumption DEF OwnsLock, TypeOK
  <1>7. LockInv'
    <2> SUFFICES ASSUME NEW u \in Txns PROVE LockInvOf(u)'
      BY DEF LockInv
    <2>1. LockInvOf(u)
      BY DEF LockInv
    <2>2. CASE u = t
      BY <1>2, <2>2, NoTxnAssumption DEF LockInvOf, Writing, TypeOK
    <2>3. CASE u # t
      BY <1>2, <1>5, <2>1, <2>3, NoTxnAssumption DEF LockInvOf, Writing, TypeOK
    <2> QED
      BY <2>2, <2>3
  <1>8. PendInv'
    <2> SUFFICES ASSUME NEW u \in Txns PROVE PendInvOf(u)'
      BY DEF PendInv
    <2>1. CASE u = t
      BY <1>2, <1>6, <2>1 DEF PendInvOf, TypeOK
    <2>2. CASE u # t
      <3>1. PendInvOf(u) /\ pend'[u] = pend[u] /\ mine'[u] = mine[u]
        BY <1>2, <2>2 DEF PendInv, TypeOK
      <3> QED
        BY <1>2, <1>5, <2>2, <3>1, PendFrame
    <2> QED
      BY <2>1, <2>2
  <1> QED
    BY <1>1, <1>3, <1>4, <1>7, <1>8

-----------------------------------------------------------------------------
\* LedgerInv is inductive, and a step from it is append-only.
LEMMA StepLedgerInv ==
    ASSUME LedgerInv, [Next]_vars
    PROVE  LedgerInv' /\ AppendOnlyStep
  <1> USE DEF LedgerInv
  <1>1. TypeOK'
    BY TypeStep
  <1>2. ASSUME entries' = entries, head' = head
        PROVE  AppendOnlyStep
    BY <1>2 DEF AppendOnlyStep
  <1>3. ASSUME NEW t \in Txns, NEW o \in Orgs, Begin(t, o)
        PROVE  LedgerInv' /\ AppendOnlyStep
    <2>1. ~ OwnsLock(t) /\ \A p \in Orgs : rowLock[p] # t
      BY <1>3 DEF Begin, LockInv, LockInvOf, OwnsLock, TypeOK
    <2>2. LockInv' /\ PendInv' /\ SeedInv' /\ BackstopUnused' /\ ChainIntact'
      BY <1>3, <2>1, LocalStep DEF Begin, TypeOK
    <2> QED
      BY <1>1, <1>2, <1>3, <2>2 DEF Begin
  <1>4. ASSUME NEW t \in Txns, SelectHead(t) \/ InsertHead(t)
        PROVE  LedgerInv' /\ AppendOnlyStep
    BY <1>2, <1>4, TakeLock DEF SelectHead, InsertHead
  <1>5. ASSUME NEW t \in Txns, SelectHeadMiss(t) \/ InsertHeadConflict(t)
        PROVE  LedgerInv' /\ AppendOnlyStep
    <2>1. \A p \in Orgs : rowLock[p] # t
      BY <1>5 DEF SelectHeadMiss, InsertHeadConflict, LockInv, LockInvOf, OwnsLock, TypeOK
    <2>2. LockInv' /\ PendInv' /\ SeedInv' /\ BackstopUnused' /\ ChainIntact'
      BY <1>5, <2>1, LocalStep DEF SelectHeadMiss, InsertHeadConflict, TypeOK
    <2> QED
      BY <1>1, <1>2, <1>5, <2>2 DEF SelectHeadMiss, InsertHeadConflict
  <1>6. ASSUME NEW t \in Txns, InsertEntry(t)
        PROVE  LedgerInv' /\ AppendOnlyStep
    BY <1>2, <1>6, InsertStep DEF InsertEntry
  <1>7. ASSUME NEW t \in Txns, InsertEntryFails(t)
        PROVE  LedgerInv' /\ AppendOnlyStep
    <2>1. OwnsLock(t) /\ InFlight(t)
      BY <1>7 DEF InsertEntryFails, LockInv, LockInvOf, Writing, PendInv, PendInvOf
    <2>2. mine[t].seq = MaxSeq
      <3>1. PICK c \in Contents : ~Accepted(entries \cup pend[t], NewRow(org[t], c, mine[t]))
        BY <1>7 DEF InsertEntryFails
      <3>2. /\ mine[t].seq \in 0 .. MaxSeq
            /\ Chain(RowsOf(entries, org[t]) \cup pend[t], mine[t])
            /\ \A e \in pend[t] : e.org = org[t]
            /\ org[t] \in Orgs
        BY <2>1 DEF InFlight, TypeOK
      <3>3. mine[t].seq \in Nat
        BY <3>2, MaxSeqAssumption
      <3>4. ~ (mine[t].seq < MaxSeq)
        BY <3>1, <3>2, <3>3, NextIsFree
      <3> QED
        BY <3>2, <3>4, MaxSeqAssumption
    <2>3. OwnsLock(t)'
      BY <1>7, <2>1 DEF InsertEntryFails, OwnsLock
    <2>4. LockInv' /\ PendInv' /\ SeedInv' /\ BackstopUnused' /\ ChainIntact'
      BY <1>7, <2>2, <2>3, LocalStep DEF InsertEntryFails, TypeOK
    <2> QED
      BY <1>1, <1>2, <1>7, <2>4 DEF InsertEntryFails
  <1>8. ASSUME NEW t \in Txns, AppendAgain(t)
        PROVE  LedgerInv' /\ AppendOnlyStep
    <2>1. LockInv' /\ PendInv' /\ SeedInv' /\ BackstopUnused' /\ ChainIntact'
      BY <1>8, LocalStep DEF AppendAgain, TypeOK
    <2> QED
      BY <1>1, <1>2, <1>8, <2>1 DEF AppendAgain
  <1>12. ASSUME NEW t \in Txns, CatchFailure(t)
         PROVE  LedgerInv' /\ AppendOnlyStep
    <2>1. OwnsLock(t)'
      BY <1>12 DEF CatchFailure, LockInv, LockInvOf, Writing, OwnsLock
    <2>2. LockInv' /\ PendInv' /\ SeedInv' /\ BackstopUnused' /\ ChainIntact'
      BY <1>12, <2>1, LocalStep DEF CatchFailure, TypeOK
    <2> QED
      BY <1>1, <1>2, <1>12, <2>2 DEF CatchFailure
  <1>9. ASSUME NEW t \in Txns, Commit(t)
        PROVE  LedgerInv' /\ AppendOnlyStep
    BY <1>9, CommitStep
  <1>10. ASSUME NEW t \in Txns, Rollback(t)
         PROVE  LedgerInv' /\ AppendOnlyStep
    BY <1>2, <1>10, RollbackStep DEF Rollback
  <1>11. CASE UNCHANGED vars
    <2>1. ChainIntact' /\ SeedInv' /\ BackstopUnused'
      BY <1>11 DEF vars, ChainIntact, SeedInv, BackstopUnused
    <2>2. LockInv'
      BY <1>11 DEF vars, LockInv, LockInvOf, OwnsLock, Writing
    <2>3. PendInv'
      BY <1>11 DEF vars, PendInv, PendInvOf, OwnsLock, InFlight
    <2> QED
      BY <1>1, <1>2, <1>11, <2>1, <2>2, <2>3 DEF vars
  <1> QED
    BY <1>3, <1>4, <1>5, <1>6, <1>7, <1>8, <1>9, <1>10, <1>11, <1>12 DEF Next, Step

-----------------------------------------------------------------------------
\* Pending rows are finite sets.
LEMMA PendFinite ==
    ASSUME LedgerInv, NEW t \in Txns
    PROVE  IsFiniteSet(pend[t]) /\ Cardinality(pend[t]) \in Nat
  <1>1. IsFiniteSet(pend[t])
    BY FS_EmptySet DEF LedgerInv, PendInv, PendInvOf, InFlight
  <1> QED
    BY <1>1, FS_CardinalityType

\* Every step keeps the size of the batches.
LEMMA BatchStep ==
    ASSUME LedgerInv, BatchInv, [Next]_vars
    PROVE  BatchInv'
  <1> USE DEF BatchInv
  <1>1. TypeOK /\ LedgerInv'
    BY StepLedgerInv DEF LedgerInv
  <1>2. IsFiniteSet({}) /\ Cardinality({}) = 0
    BY FS_EmptySet
  <1>3. SUFFICES ASSUME NEW u \in Txns PROVE BatchInvOf(u)'
    OBVIOUS
  <1>4. BatchInvOf(u)
    OBVIOUS
  <1>5. ASSUME pc'[u] = pc[u], pend'[u] = pend[u]
        PROVE  BatchInvOf(u)'
    BY <1>4, <1>5 DEF BatchInvOf
  <1>6. ASSUME NEW t \in Txns, NEW o \in Orgs, Begin(t, o)
        PROVE  BatchInvOf(u)'
    <2>1. pc[t] = "idle" /\ pc' = [pc EXCEPT ![t] = "ready"] /\ pend' = pend
      BY <1>6 DEF Begin
    <2>2. CASE u = t
      <3>1. pend'[t] = {} /\ pc'[t] = "ready"
        BY <1>1, <1>4, <2>1, <2>2 DEF TypeOK, BatchInvOf
      <3> QED
        BY <1>2, <2>2, <3>1, MaxAppendsAssumption DEF BatchInvOf
    <2>3. CASE u # t
      BY <1>1, <1>5, <2>1, <2>3 DEF TypeOK
    <2> QED
      BY <2>2, <2>3
  <1>7. ASSUME NEW t \in Txns,
               \/ SelectHead(t) \/ SelectHeadMiss(t) \/ InsertHead(t) \/ InsertHeadConflict(t)
               \/ InsertEntryFails(t) \/ AppendAgain(t)
        PROVE  BatchInvOf(u)'
    BY <1>1, <1>4, <1>5, <1>7 DEF SelectHead, SelectHeadMiss, InsertHead, InsertHeadConflict,
       InsertEntryFails, AppendAgain, TypeOK, BatchInvOf
  <1>8. ASSUME NEW t \in Txns, CatchFailure(t)
        PROVE  BatchInvOf(u)'
    <2>1. Cardinality(pend[t]) \in Nat
      BY PendFinite
    <2> QED
      BY <1>1, <1>4, <1>5, <1>8, <2>1, MaxAppendsAssumption DEF CatchFailure, TypeOK, BatchInvOf
  <1>9. ASSUME NEW t \in Txns, InsertEntry(t)
        PROVE  BatchInvOf(u)'
    <2>1. CASE u = t
      <3>1. PICK row : pend'[t] = pend[t] \cup {row}
        BY <1>1, <1>9 DEF InsertEntry, TypeOK
      <3>2. IsFiniteSet(pend[t]) /\ Cardinality(pend[t]) \in Nat
        BY PendFinite
      <3>3. Cardinality(pend[t] \cup {row}) <= Cardinality(pend[t]) + 1
        BY <3>2, FS_AddElement
      <3>4. Cardinality(pend[t]) < MaxAppends /\ pc'[t] = "appended"
        BY <1>1, <1>4, <1>9, <2>1 DEF InsertEntry, TypeOK, BatchInvOf
      <3>5. Cardinality(pend'[t]) \in Nat
        BY <1>1, PendFinite, FS_AddElement, FS_CardinalityType, <3>1, <3>2
      <3> QED
        BY <2>1, <3>1, <3>2, <3>3, <3>4, <3>5, MaxAppendsAssumption DEF BatchInvOf
    <2>2. CASE u # t
      BY <1>1, <1>5, <1>9, <2>2 DEF InsertEntry, TypeOK
    <2> QED
      BY <2>1, <2>2
  <1>10. ASSUME NEW t \in Txns, Commit(t) \/ Rollback(t)
         PROVE  BatchInvOf(u)'
    BY <1>1, <1>4, <1>5, <1>10 DEF Commit, Rollback, TypeOK, BatchInvOf
  <1>11. CASE UNCHANGED vars
    BY <1>5, <1>11 DEF vars
  <1> QED
    BY <1>6, <1>7, <1>8, <1>9, <1>10, <1>11 DEF Next, Step

\* The strengthened invariant holds in every reachable state.
THEOREM InductiveInvariant == Spec => []IInv
  <1>1. Init => IInv
    BY InitLedgerInv DEF IInv, Init, BatchInv, BatchInvOf
  <1>2. IInv /\ [Next]_vars => IInv'
    BY StepLedgerInv, BatchStep DEF IInv
  <1> QED
    BY <1>1, <1>2, PTL DEF Spec

\* The committed ledger of every tenant is a dense, linked chain that ends at
\* its LEDGER_HEAD (append_trail_entry, services.py:32-71).
THEOREM LedgerIsAChain == Spec => []ChainIntact
  <1>1. IInv => ChainIntact
    BY DEF IInv, LedgerInv
  <1> QED
    BY <1>1, InductiveInvariant, PTL

\* A session that read the tip under the lock works from the current tip until
\* it commits (services.py:33-34).
THEOREM WritersAreFresh == Spec => []NoStaleTip
  <1>1. IInv => NoStaleTip
    BY DEF IInv, LedgerInv, NoStaleTip, LockInv, LockInvOf, PendInv, PendInvOf, InFlight
  <1> QED
    BY <1>1, InductiveInvariant, PTL

\* UNIQUE (organization, sequence) never stops an append: only the range of the
\* sequence column can.
THEOREM UniqueNeverFires == Spec => []BackstopUnused
  <1>1. IInv => BackstopUnused
    BY DEF IInv, LedgerInv
  <1> QED
    BY <1>1, InductiveInvariant, PTL

\* No step changes or removes a committed entry, and entries are added only past
\* the tip of one tenant (TrailEntry is append-only, models.py:11-21, 92-102).
THEOREM EntriesAreAppendOnly == Spec => AppendOnly
  <1>1. IInv /\ [Next]_vars => [AppendOnlyStep]_vars
    BY StepLedgerInv DEF IInv
  <1> QED
    BY <1>1, InductiveInvariant, PTL DEF Spec, AppendOnly

-----------------------------------------------------------------------------
(* The refinement of LedgerLog.                                             *)

\* A function on 1 .. n is a sequence of length n.
LEMMA FunIsSeq ==
    ASSUME NEW n \in Nat, NEW S, NEW f \in [1 .. n -> S]
    PROVE  f \in Seq(S) /\ Len(f) = n
  <1>1. f \in Seq(S)
    BY SeqDef
  <1>2. DOMAIN f = 1 .. n /\ DOMAIN f = 1 .. Len(f) /\ Len(f) \in Nat
    BY <1>1, LenProperties
  <1> QED
    BY <1>1, <1>2

\* The log of a dense set of rows is a sequence, and holds at n what row n does.
LEMMA LogIsSequence ==
    ASSUME NEW rows, NEW tip, RowsTyped(rows), Dense(rows, tip), tip.seq \in Nat
    PROVE  /\ Log(rows) \in [1 .. tip.seq -> Contents]
           /\ \A e \in rows : Log(rows)[e.seq] = e.content
  <1>1. {e.seq : e \in rows} = 1 .. tip.seq
    BY DEF Dense
  <1>2. ASSUME NEW e \in rows
        PROVE  Log(rows)[e.seq] = e.content
    <2>1. (CHOOSE f \in rows : f.seq = e.seq) = e
      BY DEF Dense
    <2> QED
      BY <2>1 DEF Log
  <1>3. ASSUME NEW n \in 1 .. tip.seq
        PROVE  Log(rows)[n] \in Contents
    <2>1. PICK e \in rows : e.seq = n
      BY DEF Dense
    <2> QED
      BY <1>2, <2>1 DEF RowsTyped
  <1> QED
    BY <1>1, <1>2, <1>3 DEF Log

\* Where the elements of a concatenation come from.
LEMMA ConcatAt ==
    ASSUME NEW S, NEW r \in Seq(S), NEW s \in Seq(S), NEW i \in 1 .. Len(r) + Len(s)
    PROVE  (r \o s)[i] = IF i <= Len(r) THEN r[i] ELSE s[i - Len(r)]
  BY ConcatProperties

\* The log of a chain that continues another is the other's followed by a batch.
LEMMA LogContinues ==
    ASSUME NEW rows, NEW more, NEW tip, NEW new, NEW n \in Nat \ {0},
           RowsTyped(rows), RowsTyped(more), Dense(rows, tip), Dense(rows \cup more, new),
           tip.seq \in Nat, new.seq = tip.seq + n
    PROVE  \E batch \in [1 .. n -> Contents] : Log(rows \cup more) = Log(rows) \o batch
  <1> DEFINE all == rows \cup more
             batch == [i \in 1 .. n |-> Log(all)[tip.seq + i]]
  <1>1. /\ Log(rows) \in [1 .. tip.seq -> Contents]
        /\ \A e \in rows : Log(rows)[e.seq] = e.content
    BY LogIsSequence
  <1>2. RowsTyped(all) /\ new.seq \in Nat
    BY DEF RowsTyped
  <1>3. /\ Log(all) \in [1 .. new.seq -> Contents]
        /\ \A e \in all : Log(all)[e.seq] = e.content
    BY <1>2, LogIsSequence
  <1>4. batch \in [1 .. n -> Contents]
    <2>1. \A i \in 1 .. n : tip.seq + i \in 1 .. new.seq
      OBVIOUS
    <2> HIDE DEF all
    <2> QED
      BY <1>3, <2>1
  <1>5. \A i \in 1 .. tip.seq : Log(all)[i] = Log(rows)[i]
    <2> SUFFICES ASSUME NEW i \in 1 .. tip.seq PROVE Log(all)[i] = Log(rows)[i]
      OBVIOUS
    <2>1. PICK e \in rows : e.seq = i
      BY DEF Dense
    <2> QED
      BY <1>1, <1>3, <2>1
  <1>6. /\ Log(rows) \in Seq(Contents) /\ Len(Log(rows)) = tip.seq
        /\ batch \in Seq(Contents) /\ Len(batch) = n
        /\ Log(all) \in Seq(Contents) /\ Len(Log(all)) = tip.seq + n
    <2> HIDE DEF all, batch
    <2> QED
      BY <1>1, <1>2, <1>3, <1>4, FunIsSeq
  <1> HIDE DEF all
  <1>7. \A i \in 1 .. tip.seq + n : (Log(rows) \o batch)[i] = Log(all)[i]
    <2> SUFFICES ASSUME NEW i \in 1 .. tip.seq + n
                 PROVE  (Log(rows) \o batch)[i] = Log(all)[i]
      OBVIOUS
    <2>0. (Log(rows) \o batch)[i] = IF i <= tip.seq THEN Log(rows)[i] ELSE batch[i - tip.seq]
      <3> HIDE DEF batch
      <3>1. i \in 1 .. Len(Log(rows)) + Len(batch)
        BY <1>6
      <3> QED
        BY <1>6, <3>1, ConcatAt, ZenonT(40)
    <2>1. CASE i <= tip.seq
      <3> HIDE DEF batch
      <3> QED
        BY <1>5, <2>0, <2>1
    <2>2. CASE i > tip.seq
      <3>1. (Log(rows) \o batch)[i] = batch[i - tip.seq]
        <4> HIDE DEF batch
        <4> QED
          BY <2>0, <2>2
      <3>2. i - tip.seq \in 1 .. n /\ tip.seq + (i - tip.seq) = i
        BY <2>2
      <3> QED
        BY <3>1, <3>2 DEF batch
    <2>3. i <= tip.seq \/ i > tip.seq
      OBVIOUS
    <2> HIDE DEF batch
    <2> QED
      BY <2>1, <2>2, <2>3, Zenon
  <1>8. Log(rows) \o batch = Log(all)
    <2>1. Log(rows) \o batch \in Seq(Contents) /\ Len(Log(rows) \o batch) = tip.seq + n
      BY <1>6, ConcatProperties
    <2> HIDE DEF batch
    <2> QED
      BY <1>6, <1>7, <2>1, SeqEqual
  <1> QED
    BY <1>4, <1>8 DEF all

\* A commit is the append of one batch to one log.
LEMMA CommitAppends ==
    ASSUME LedgerInv, BatchInv, NEW t \in Txns, Commit(t)
    PROVE  Abstract!AppendBatch(org[t])
  <1> DEFINE p == org[t]
             n == Cardinality(pend[t])
  <1>1. /\ entries' = entries \cup pend[t]
        /\ pc[t] = "appended"
        /\ p \in Orgs
    BY DEF Commit, LedgerInv, TypeOK
  <1>2. OwnsLock(t) /\ InFlight(t)
    BY <1>1 DEF LedgerInv, LockInv, LockInvOf, Writing, PendInv, PendInvOf
  <1>3. /\ RowsOf(entries', p) = RowsOf(entries, p) \cup pend[t]
        /\ \A o \in Orgs : o # p => RowsOf(entries', o) = RowsOf(entries, o)
    BY <1>1, <1>2 DEF InFlight, RowsOf
  <1>4. n \in 1 .. MaxAppends /\ n \in Nat \ {0}
    <2>1. n \in Nat /\ IsFiniteSet(pend[t])
      BY PendFinite
    <2>2. pend[t] # {} /\ n <= MaxAppends
      BY <1>1 DEF BatchInv, BatchInvOf
    <2>3. n # 0
      BY <2>1, <2>2, FS_EmptySet
    <2> QED
      BY <2>1, <2>2, <2>3, MaxAppendsAssumption
  <1>5. /\ RowsTyped(RowsOf(entries, p)) /\ RowsTyped(pend[t])
        /\ head[p].seq \in Nat
        /\ Dense(RowsOf(entries, p), head[p])
        /\ Dense(RowsOf(entries, p) \cup pend[t], mine[t])
        /\ mine[t].seq = head[p].seq + n
    BY <1>1, <1>2 DEF LedgerInv, TypeOK, RowsTyped, RowsOf, ChainIntact, Chain, InFlight
  <1>6. PICK batch \in [1 .. n -> Contents] :
          Log(RowsOf(entries, p) \cup pend[t]) = Log(RowsOf(entries, p)) \o batch
    <2> DEFINE rows == RowsOf(entries, p)
    <2> HIDE DEF n, p, rows
    <2>1. /\ n \in Nat \ {0} /\ head[p].seq \in Nat /\ mine[t].seq = head[p].seq + n
          /\ RowsTyped(rows) /\ RowsTyped(pend[t])
          /\ Dense(rows, head[p]) /\ Dense(rows \cup pend[t], mine[t])
      BY <1>4, <1>5 DEF rows
    <2>2. \E batch \in [1 .. n -> Contents] : Log(rows \cup pend[t]) = Log(rows) \o batch
      BY <2>1, LogContinues, ZenonT(40)
    <2> QED
      BY <2>2 DEF rows
  <1>7. Logs' = [Logs EXCEPT ![p] = @ \o batch]
    BY <1>1, <1>3, <1>6 DEF Logs
  <1>8. batch \in Abstract!Batches
    BY <1>4 DEF Abstract!Batches
  <1> QED
    BY <1>7, <1>8 DEF Abstract!AppendBatch

\* The ledger with its locks, rollbacks and retries implements the append-only log
\* of LedgerLog: a commit appends a batch to one tenant's log, everything
\* else is invisible (append_trail_entry, services.py:13-71).
THEOREM LedgerImplementsLog == Spec => ImplementsLog
  <1>1. Init => Abstract!Init
    <2> SUFFICES ASSUME Init PROVE Abstract!Init
      OBVIOUS
    <2>1. \A o \in Orgs : Log(RowsOf(entries, o)) = << >>
      BY DEF Init, RowsOf, Log
    <2> QED
      BY <2>1 DEF Abstract!Init, Logs
  <1>2. IInv /\ [Next]_vars => [Abstract!Next]_Logs
    <2> SUFFICES ASSUME IInv, [Next]_vars
                 PROVE  Abstract!Next \/ Logs' = Logs
      OBVIOUS
    <2>1. ASSUME NEW t \in Txns, Commit(t)
          PROVE  Abstract!Next
      BY <2>1, CommitAppends DEF Abstract!Next, IInv, LedgerInv, TypeOK
    <2>2. CASE entries' = entries
      BY <2>2 DEF Logs, RowsOf
    <2>3. CASE UNCHANGED vars
      BY <2>2, <2>3 DEF vars
    <2>4. ASSUME NEW t \in Txns, NEW o \in Orgs, Begin(t, o)
          PROVE  entries' = entries
      BY <2>4 DEF Begin
    <2>5. ASSUME NEW t \in Txns, Step(t), ~ Commit(t)
          PROVE  entries' = entries
      BY <2>5 DEF Step, SelectHead, SelectHeadMiss, InsertHead, InsertHeadConflict, InsertEntry,
         InsertEntryFails, CatchFailure, AppendAgain, Rollback
    <2> QED
      BY <2>1, <2>2, <2>3, <2>4, <2>5 DEF Next
  <1> QED
    BY <1>1, <1>2, InductiveInvariant, PTL DEF Spec, ImplementsLog, Abstract!Spec
=============================================================================
