------------------------ MODULE OrgReplicationProofs ------------------------
(***************************************************************************)
(* Proofs about OrgReplication: for any processes, groups, paths, events   *)
(* and tokens, whatever slugs are taken, IInv is an inductive invariant;   *)
(* from it follow the four safety properties of the module.                *)
(***************************************************************************)
EXTENDS OrgReplication, FiniteSetTheorems, SequenceTheorems, TLAPS

ProcStates == [pc : Pcs, op : {"none", "group", "join", "leave", "login"},
               refs : Seq(Refs), own : Tables, org : Ids \cup {None},
               tries : 0 .. MaxSlugs, todo : Seq(Ids), held : SUBSET Ids, joined : SUBSET Ids]

-----------------------------------------------------------------------------
(* Tables of rows, and what may become of a row.                            *)

LEMMA TableIs ==
    ASSUME NEW f
    PROVE  f \in Tables <=> /\ f = [i \in DOMAIN f |-> f[i]]
                            /\ DOMAIN f \subseteq Ids
                            /\ \A i \in DOMAIN f : f[i] \in Rows
BY DEF Tables

LEMMA NoRows == << >> \in Tables /\ DOMAIN << >> = {}
<1>1. << >> \in [{} -> Rows] /\ DOMAIN << >> = {}
  OBVIOUS
<1> QED
  BY <1>1 DEF Tables

\* Writing a row into a table.
LEMMA WithRow ==
    ASSUME NEW f \in Tables, NEW i \in Ids, NEW row \in Rows
    PROVE  /\ With(f, i, row) \in Tables
           /\ DOMAIN With(f, i, row) = DOMAIN f \cup {i}
           /\ With(f, i, row)[i] = row
           /\ \A j \in DOMAIN f : j # i => With(f, i, row)[j] = f[j]
<1>1. /\ DOMAIN With(f, i, row) = DOMAIN f \cup {i}
      /\ With(f, i, row)[i] = row
      /\ \A j \in DOMAIN f : j # i => With(f, i, row)[j] = f[j]
  BY DEF With
<1>2. With(f, i, row) = [j \in DOMAIN With(f, i, row) |-> With(f, i, row)[j]]
  BY DEF With
<1> QED
  BY <1>1, <1>2, TableIs

LEMMA FollowsTransitive ==
    ASSUME NEW a \in Rows, NEW b \in Rows, NEW c \in Rows, Follows(a, b), Follows(b, c)
    PROVE  Follows(a, c)
BY DEF Follows, Rows

LEMMA FollowsItself ==
    ASSUME NEW a \in Rows
    PROVE  Follows(a, a)
BY DEF Follows, Rows

LEMMA AlikeSymmetric ==
    ASSUME NEW a, NEW b
    PROVE  Alike(a, b) <=> Alike(b, a)
BY DEF Alike

\* What a process sees.
LEMMA SeenIs ==
    ASSUME NEW p \in Procs
    PROVE  /\ DOMAIN Seen(p) = DOMAIN orgs \cup DOMAIN proc[p].own
           /\ \A i \in DOMAIN proc[p].own : Seen(p)[i] = proc[p].own[i]
           /\ \A i \in DOMAIN orgs \ DOMAIN proc[p].own : Seen(p)[i] = orgs[i]
BY DEF Seen

LEMMA SeenIsNext ==
    ASSUME NEW p \in Procs
    PROVE  /\ DOMAIN Seen(p)' = DOMAIN orgs' \cup DOMAIN proc'[p].own
           /\ \A i \in DOMAIN proc'[p].own : Seen(p)'[i] = proc'[p].own[i]
           /\ \A i \in DOMAIN orgs' \ DOMAIN proc'[p].own : Seen(p)'[i] = orgs'[i]
BY DEF Seen

LEMMA SeenRows ==
    ASSUME TypeOK, NEW p \in Procs
    PROVE  /\ Seen(p) \in Tables
           /\ orgs \in Tables
           /\ proc[p] \in ProcStates
           /\ proc[p].own \in Tables
           /\ \A i \in DOMAIN Seen(p) : i \in Ids /\ Seen(p)[i] \in Rows
<1>1. orgs \in Tables /\ proc[p] \in ProcStates
  BY DEF TypeOK, ProcStates
<1>2. proc[p].own \in Tables
  BY <1>1 DEF ProcStates
<1>3. Seen(p) = [j \in DOMAIN Seen(p) |-> Seen(p)[j]]
  BY DEF Seen
<1>4. ASSUME NEW i \in DOMAIN Seen(p) PROVE i \in Ids /\ Seen(p)[i] \in Rows
  <2>1. CASE i \in DOMAIN proc[p].own
    <3>1. i \in Ids /\ proc[p].own[i] \in Rows
      BY <1>2, <2>1, TableIs
    <3> QED
      BY <2>1, <3>1, SeenIs
  <2>2. CASE i \notin DOMAIN proc[p].own
    <3>1. i \in DOMAIN orgs /\ Seen(p)[i] = orgs[i]
      BY <2>2, SeenIs
    <3> QED
      BY <1>1, <3>1, TableIs
  <2> QED
    BY <2>1, <2>2
<1>5. DOMAIN Seen(p) \subseteq Ids /\ \A i \in DOMAIN Seen(p) : Seen(p)[i] \in Rows
  BY <1>4
<1>6. Seen(p) \in Tables
  BY <1>3, <1>5, TableIs
<1> QED
  BY <1>1, <1>2, <1>4, <1>6

-----------------------------------------------------------------------------
(* What a step of one process does to the others.                           *)

\* A process whose own state stays goes on as before, if what it sees follows
\* what it saw.
LEMMA OthersGoOn ==
    ASSUME TypeOK, NEW q \in Procs, AsksFor(q), StandsAt(q), LocksUpwards(q),
           proc'[q] = proc[q], now' = now,
           \A i \in DOMAIN Seen(q) : /\ i \in DOMAIN Seen(q)'
                                     /\ Seen(q)'[i] \in Rows
                                     /\ Follows(Seen(q)[i], Seen(q)'[i])
    PROVE  AsksFor(q)' /\ StandsAt(q)' /\ LocksUpwards(q)'
<1>1. AsksFor(q)' /\ LocksUpwards(q)'
  BY DEF AsksFor, LocksUpwards, Ref
<1>2. \A g : PathsOf(g)' = PathsOf(g)
  BY DEF PathsOf
<1>3. Ref(q)' = Ref(q)
  BY DEF Ref
<1>4. ASSUME proc[q].org # None
      PROVE  /\ proc[q].org \in DOMAIN Seen(q)'
             /\ Current(q) \in Rows /\ Current(q)' \in Rows
             /\ Follows(Current(q), Current(q)')
  <2>1. proc[q].org \in DOMAIN Seen(q)
    BY <1>4 DEF StandsAt
  <2> QED
    BY <2>1, SeenRows DEF Current
<1>5. ASSUME proc[q].org # None, Near(q) PROVE Near(q)'
  BY <1>2, <1>3, <1>4, <1>5 DEF Near, Follows, Rows
<1>6. ASSUME proc[q].org # None, Ref(q).gid # None, Current(q).gid = Ref(q).gid
      PROVE  Current(q)'.gid = Ref(q)'.gid
  BY <1>3, <1>4, <1>6 DEF Follows
<1>7. ASSUME proc[q].org # None, Current(q)'.gid = None PROVE Current(q).gid = None
  BY <1>4, <1>7 DEF Follows
<1>8. ASSUME Ref(q).gid # None, \E i \in DOMAIN Seen(q) : Seen(q)[i].gid = Ref(q).gid
      PROVE  \E i \in DOMAIN Seen(q)' : Seen(q)'[i].gid = Ref(q)'.gid
  BY <1>3, <1>8 DEF Follows
<1>9. Settled' = Settled
  BY DEF Settled
<1> QED
  BY <1>1, <1>3, <1>4, <1>5, <1>6, <1>7, <1>8, <1>9 DEF StandsAt

LEMMA GoTypes ==
    ASSUME TypeOK, NEW p \in Procs, NEW new \in ProcStates, Go(p, new)
    PROVE  /\ proc' \in [Procs -> ProcStates] /\ now' = now /\ now' \in Settings
           /\ proc'[p] = new
           /\ \A q \in Procs : q # p => proc'[q] = proc[q]
BY DEF Go, TypeOK, ProcStates

\* A step that writes and commits nothing.
LEMMA LocalStep ==
    ASSUME IInv, NEW p \in Procs, NEW new \in ProcStates, Go(p, new), UNCHANGED orgs,
           new.own = proc[p].own,
           AsksFor(p)', StandsAt(p)', LocksUpwards(p)'
    PROVE  IInv'
<1>0. TypeOK /\ UniqueKeys /\ RowsFollow
  BY DEF IInv
<1>1. /\ proc' \in [Procs -> ProcStates] /\ now' = now /\ now' \in Settings
      /\ \A q \in Procs : q # p => proc'[q] = proc[q]
      /\ \A q \in Procs : proc'[q].own = proc[q].own
  BY <1>0, GoTypes
<1>2. \A q \in Procs : Seen(q)' = Seen(q)
  BY <1>1 DEF Seen
<1>3. TypeOK'
  BY <1>0, <1>1 DEF TypeOK, ProcStates
<1>4. UniqueKeys'
  BY <1>0, <1>1, <1>2 DEF UniqueKeys
<1>5. RowsFollow'
  <2>1. \A g : PathsOf(g)' = PathsOf(g)
    BY <1>1 DEF PathsOf
  <2>2. Settled' = Settled
    BY <1>1 DEF Settled
  <2> QED
    BY <1>0, <1>1, <2>1, <2>2 DEF RowsFollow, RowOK, Follows
<1>6. ASSUME NEW q \in Procs PROVE AsksFor(q)' /\ StandsAt(q)' /\ LocksUpwards(q)'
  <2>1. CASE q = p
    BY <2>1
  <2>2. CASE q # p
    BY <1>0, <1>1, <1>2, <2>2, OthersGoOn, SeenRows, FollowsItself DEF IInv
  <2> QED
    BY <2>1, <2>2
<1> QED
  BY <1>3, <1>4, <1>5, <1>6 DEF IInv

LEMMA IdleOK ==
    /\ Idle \in ProcStates
    /\ Idle.pc = "idle" /\ Idle.org = None /\ Idle.op = "none"
    /\ Idle.own = << >> /\ Idle.refs = << >> /\ Idle.tries = 0 /\ Idle.held = {}
<1>1. << >> \in Seq(Refs) /\ << >> \in Seq(Ids)
  OBVIOUS
<1> QED
  BY <1>1, NoRows, SlugAssumption DEF Idle, ProcStates, Pcs

\* A process that is idle meets its conditions.
LEMMA IdleMeets ==
    ASSUME NEW p \in Procs, proc'[p] = Idle
    PROVE  AsksFor(p)' /\ StandsAt(p)' /\ LocksUpwards(p)'
BY IdleOK, NoRows DEF AsksFor, StandsAt, LocksUpwards

\* What the process wrote is gone.
LEMMA RollbackStep ==
    ASSUME IInv, NEW p \in Procs, Rollback(p)
    PROVE  IInv'
<1>0. TypeOK /\ UniqueKeys /\ RowsFollow /\ Go(p, Idle) /\ UNCHANGED orgs
  BY DEF IInv, Rollback
<1>1. /\ proc' \in [Procs -> ProcStates] /\ now' = now /\ now' \in Settings
      /\ \A q \in Procs : q # p => proc'[q] = proc[q]
      /\ proc'[p] = Idle
  BY <1>0, GoTypes, IdleOK
<1>2. \A q \in Procs : q # p => Seen(q)' = Seen(q)
  BY <1>0, <1>1 DEF Seen
<1>3. DOMAIN proc'[p].own = {}
  BY <1>1, IdleOK, NoRows
<1>4. DOMAIN Seen(p)' = DOMAIN orgs /\ \A i \in DOMAIN orgs : Seen(p)'[i] = orgs[i]
  BY <1>0, <1>3, SeenIsNext
<1>5. TypeOK'
  BY <1>0, <1>1 DEF TypeOK, ProcStates
<1>6. UniqueKeys'
  <2>1. ASSUME NEW q \in Procs, NEW i \in DOMAIN Seen(q)', NEW j \in DOMAIN Seen(q)', i # j
        PROVE  ~ Alike(Seen(q)'[i], Seen(q)'[j])
    <3>1. CASE q = p
      BY <1>0, <1>4, <2>1, <3>1 DEF UniqueKeys
    <3>2. CASE q # p
      BY <1>0, <1>2, <2>1, <3>2 DEF UniqueKeys
    <3> QED
      BY <3>1, <3>2
  <2>2. ASSUME NEW q \in Procs, NEW r \in Procs, q # r,
               NEW i \in DOMAIN proc'[q].own, NEW j \in DOMAIN proc'[r].own
        PROVE  i # j /\ ~ Alike(proc'[q].own[i], proc'[r].own[j])
    <3>1. q # p /\ r # p
      BY <1>3, <2>2
    <3> QED
      BY <1>0, <1>1, <2>2, <3>1 DEF UniqueKeys
  <2>3. \A i, j \in DOMAIN orgs' : i # j => ~ Alike(orgs'[i], orgs'[j])
    BY <1>0 DEF UniqueKeys
  <2> QED
    BY <2>1, <2>2, <2>3 DEF UniqueKeys
<1>7. RowsFollow'
  <2>1. \A g : PathsOf(g)' = PathsOf(g)
    BY <1>1 DEF PathsOf
  <2>2. Settled' = Settled
    BY <1>1 DEF Settled
  <2>5. ASSUME NEW q \in Procs, NEW i \in DOMAIN proc'[q].own
        PROVE  /\ RowOK(proc[q].own[i])'
               /\ i \in DOMAIN orgs' => Follows(orgs[i], proc[q].own[i])'
    <3>1. q # p
      BY <1>3
    <3> QED
      BY <1>0, <1>1, <2>1, <2>2, <2>5, <3>1 DEF RowsFollow, RowOK, Follows
  <2> QED
    BY <1>0, <2>1, <2>2, <2>5 DEF RowsFollow, RowOK, Follows
<1>8. ASSUME NEW q \in Procs PROVE AsksFor(q)' /\ StandsAt(q)' /\ LocksUpwards(q)'
  <2>1. CASE q = p
    BY <1>1, <2>1, IdleMeets
  <2>2. CASE q # p
    BY <1>0, <1>1, <1>2, <2>2, OthersGoOn, SeenRows, FollowsItself DEF IInv
  <2> QED
    BY <2>1, <2>2
<1> QED
  BY <1>5, <1>6, <1>7, <1>8 DEF IInv

\* A row that p writes, in its transaction or (a "group") at once: no other
\* transaction holds it or a key of it, and the row follows the one p saw.
Writes(p, i, row) ==
    /\ RowOK(row)
    /\ i \in DOMAIN Seen(p) => Follows(Seen(p)[i], row)
    /\ \A j \in DOMAIN Seen(p) : j # i => ~ Alike(row, Seen(p)[j])
    /\ \A q \in Procs \ {p} :
          i \notin DOMAIN proc[q].own /\ \A j \in DOMAIN proc[q].own : ~ Alike(row, proc[q].own[j])

\* The rows of a write, of a "group".
LEMMA CommittedWrite ==
    ASSUME TypeOK, UniqueKeys, RowsFollow, NEW p \in Procs, NEW i \in Ids, NEW row \in Rows,
           Writes(p, i, row), DOMAIN proc[p].own = {},
           proc' \in [Procs -> ProcStates], now' = now, now' \in Settings,
           orgs' = With(orgs, i, row), \A q \in Procs : proc'[q].own = proc[q].own
    PROVE  /\ TypeOK' /\ UniqueKeys' /\ RowsFollow'
           /\ Seen(p)'[i] = row /\ i \in DOMAIN Seen(p)'
           /\ \A q \in Procs \ {p} : \A j \in DOMAIN Seen(q) :
                 /\ j \in DOMAIN Seen(q)' /\ Seen(q)'[j] \in Rows
                 /\ Follows(Seen(q)[j], Seen(q)'[j])
<1>1. /\ DOMAIN orgs' = DOMAIN orgs \cup {i} /\ orgs'[i] = row /\ orgs' \in Tables
      /\ \A j \in DOMAIN orgs : j # i => orgs'[j] = orgs[j]
  <2>1. orgs \in Tables
    BY DEF TypeOK
  <2> QED
    BY <2>1, WithRow
<1>2. DOMAIN Seen(p) = DOMAIN orgs /\ \A j \in DOMAIN orgs : Seen(p)[j] = orgs[j]
  BY SeenIs
<1>3. ASSUME NEW q \in Procs
      PROVE  /\ i \notin DOMAIN proc[q].own
             /\ \A j \in DOMAIN proc[q].own : ~ Alike(row, proc[q].own[j])
  BY DEF Writes
<1>4. ASSUME NEW q \in Procs
      PROVE  /\ DOMAIN Seen(q)' = DOMAIN Seen(q) \cup {i} /\ Seen(q)'[i] = row
             /\ \A j \in DOMAIN Seen(q) : j # i => Seen(q)'[j] = Seen(q)[j]
  <2>1. DOMAIN proc'[q].own = DOMAIN proc[q].own
    OBVIOUS
  <2>2. DOMAIN Seen(q)' = DOMAIN Seen(q) \cup {i}
    BY <1>1, <2>1, SeenIs, SeenIsNext, ZenonT(40)
  <2>3. Seen(q)'[i] = row
    BY <1>1, <1>3, <2>1, SeenIsNext
  <2>4. ASSUME NEW j \in DOMAIN Seen(q), j # i PROVE Seen(q)'[j] = Seen(q)[j]
    <3>1. CASE j \in DOMAIN proc[q].own
      <4>1. Seen(q)[j] = proc[q].own[j] /\ Seen(q)'[j] = proc'[q].own[j]
        BY <2>1, <3>1, SeenIs, SeenIsNext, ZenonT(40)
      <4> QED
        BY <4>1
    <3>2. CASE j \notin DOMAIN proc[q].own
      <4>1. j \in DOMAIN orgs /\ Seen(q)[j] = orgs[j]
        BY <2>4, <3>2, SeenIs
      <4>2. j \in DOMAIN orgs' /\ orgs'[j] = orgs[j]
        BY <1>1, <2>4, <4>1
      <4>3. Seen(q)'[j] = orgs'[j]
        BY <2>1, <3>2, <4>2, SeenIsNext
      <4> QED
        BY <4>1, <4>2, <4>3
    <3> QED
      BY <3>1, <3>2
  <2> QED
    BY <2>2, <2>3, <2>4
<1>5. ASSUME NEW q \in Procs, NEW j \in DOMAIN Seen(q), j # i PROVE ~ Alike(row, Seen(q)[j])
  <2>1. CASE j \in DOMAIN proc[q].own
    BY <1>3, <2>1, SeenIs
  <2>2. CASE j \notin DOMAIN proc[q].own
    <3>1. j \in DOMAIN orgs /\ Seen(q)[j] = orgs[j]
      BY <2>2, SeenIs
    <3> QED
      BY <1>2, <1>5, <3>1 DEF Writes
  <2> QED
    BY <2>1, <2>2
<1>6. TypeOK'
  BY <1>1 DEF TypeOK, ProcStates
<1>7. UniqueKeys'
  <2>1. ASSUME NEW j \in DOMAIN orgs', NEW k \in DOMAIN orgs', j # k
        PROVE  ~ Alike(orgs'[j], orgs'[k])
    <3>1. \A m \in DOMAIN orgs : m # i => ~ Alike(row, orgs[m]) /\ ~ Alike(orgs[m], row)
      BY <1>2, AlikeSymmetric DEF Writes
    <3>2. CASE j = i \/ k = i
      BY <1>1, <2>1, <3>1, <3>2
    <3>3. CASE j # i /\ k # i
      BY <1>1, <2>1, <3>3 DEF UniqueKeys
    <3> QED
      BY <3>2, <3>3
  <2>2. ASSUME NEW q \in Procs, NEW j \in DOMAIN Seen(q)', NEW k \in DOMAIN Seen(q)', j # k
        PROVE  ~ Alike(Seen(q)'[j], Seen(q)'[k])
    <3>1. CASE j = i
      BY <1>4, <1>5, <2>2, <3>1
    <3>2. CASE k = i
      BY <1>4, <1>5, <2>2, <3>2, AlikeSymmetric
    <3>3. CASE j # i /\ k # i
      <4>1. /\ j \in DOMAIN Seen(q) /\ k \in DOMAIN Seen(q)
            /\ Seen(q)'[j] = Seen(q)[j] /\ Seen(q)'[k] = Seen(q)[k]
        BY <1>4, <2>2, <3>3
      <4> QED
        BY <2>2, <4>1 DEF UniqueKeys
    <3> QED
      BY <3>1, <3>2, <3>3
  <2>3. \A q, r \in Procs : q # r =>
            \A j \in DOMAIN proc'[q].own, k \in DOMAIN proc'[r].own :
                j # k /\ ~ Alike(proc'[q].own[j], proc'[r].own[k])
    BY DEF UniqueKeys
  <2> QED
    BY <2>1, <2>2, <2>3 DEF UniqueKeys
<1>8. RowsFollow'
  <2>1. \A g : PathsOf(g)' = PathsOf(g)
    BY DEF PathsOf
  <2>2. Settled' = Settled
    BY DEF Settled
  <2>3. ASSUME NEW j \in DOMAIN orgs' PROVE RowOK(orgs[j])'
    <3>1. CASE j = i
      BY <1>1, <2>1, <2>2, <3>1 DEF Writes, RowOK
    <3>2. CASE j # i
      BY <1>1, <2>1, <2>2, <3>2 DEF RowsFollow, RowOK
    <3> QED
      BY <3>1, <3>2
  <2>4. ASSUME NEW q \in Procs, NEW j \in DOMAIN proc'[q].own
        PROVE  /\ RowOK(proc[q].own[j])'
               /\ j \in DOMAIN orgs' => Follows(orgs[j], proc[q].own[j])'
    <3>1. j \in DOMAIN proc[q].own /\ j # i /\ proc'[q].own[j] = proc[q].own[j]
      BY <1>3, <2>4
    <3> QED
      BY <1>1, <2>1, <2>2, <3>1 DEF RowsFollow, RowOK, Follows
  <2> QED
    BY <2>3, <2>4 DEF RowsFollow
<1>9. ASSUME NEW q \in Procs \ {p}, NEW j \in DOMAIN Seen(q)
      PROVE  /\ j \in DOMAIN Seen(q)' /\ Seen(q)'[j] \in Rows
             /\ Follows(Seen(q)[j], Seen(q)'[j])
  <2>1. CASE j = i
    <3>1. i \in DOMAIN orgs /\ Seen(q)[i] = Seen(p)[i]
      BY <1>2, <1>3, <1>9, <2>1, SeenIs
    <3> QED
      BY <1>2, <1>4, <2>1, <3>1 DEF Writes
  <2>2. CASE j # i
    BY <1>4, <2>2, SeenRows, FollowsItself
  <2> QED
    BY <2>1, <2>2
<1> QED
  BY <1>4, <1>6, <1>7, <1>8, <1>9

\* The rows of a write in a transaction.
LEMMA OwnWrite ==
    ASSUME TypeOK, UniqueKeys, RowsFollow, NEW p \in Procs, NEW i \in Ids, NEW row \in Rows,
           Writes(p, i, row),
           proc' \in [Procs -> ProcStates], now' = now, now' \in Settings, orgs' = orgs,
           proc'[p].own = With(proc[p].own, i, row),
           \A q \in Procs \ {p} : proc'[q].own = proc[q].own
    PROVE  /\ TypeOK' /\ UniqueKeys' /\ RowsFollow'
           /\ Seen(p)'[i] = row /\ i \in DOMAIN Seen(p)'
           /\ \A q \in Procs \ {p} : Seen(q)' = Seen(q)
<1>1. /\ DOMAIN proc'[p].own = DOMAIN proc[p].own \cup {i} /\ proc'[p].own[i] = row
      /\ \A j \in DOMAIN proc[p].own : j # i => proc'[p].own[j] = proc[p].own[j]
  <2> DEFINE f == proc[p].own
  <2>1. f \in Tables /\ proc'[p].own = With(f, i, row)
    BY SeenRows
  <2> HIDE DEF f
  <2>2. /\ DOMAIN proc'[p].own = DOMAIN f \cup {i} /\ proc'[p].own[i] = row
        /\ \A j \in DOMAIN f : j # i => proc'[p].own[j] = f[j]
    BY <2>1, WithRow, SMTT(40)
  <2> QED
    BY <2>2 DEF f
<1>2. ASSUME NEW q \in Procs \ {p} PROVE Seen(q)' = Seen(q)
  BY DEF Seen
<1>3. /\ DOMAIN Seen(p)' = DOMAIN Seen(p) \cup {i} /\ Seen(p)'[i] = row
      /\ \A j \in DOMAIN Seen(p) : j # i => Seen(p)'[j] = Seen(p)[j]
  <2>1. DOMAIN Seen(p)' = DOMAIN Seen(p) \cup {i}
    <3>1. DOMAIN Seen(p)' = DOMAIN orgs' \cup DOMAIN proc'[p].own
      BY SeenIsNext
    <3>2. DOMAIN Seen(p) = DOMAIN orgs \cup DOMAIN proc[p].own
      BY SeenIs
    <3> QED
      BY <1>1, <3>1, <3>2
  <2>2. Seen(p)'[i] = row
    BY <1>1, SeenIsNext
  <2>3. ASSUME NEW j \in DOMAIN Seen(p), j # i PROVE Seen(p)'[j] = Seen(p)[j]
    <3>1. CASE j \in DOMAIN proc[p].own
      <4>1. Seen(p)[j] = proc[p].own[j] /\ Seen(p)'[j] = proc'[p].own[j]
        BY <1>1, <3>1, SeenIs, SeenIsNext
      <4> QED
        BY <1>1, <2>3, <3>1, <4>1
    <3>2. CASE j \notin DOMAIN proc[p].own
      <4>1. j \in DOMAIN orgs /\ Seen(p)[j] = orgs[j]
        BY <2>3, <3>2, SeenIs
      <4>2. j \in DOMAIN orgs' \ DOMAIN proc'[p].own
        BY <1>1, <2>3, <3>2, <4>1
      <4>3. Seen(p)'[j] = orgs'[j]
        BY <4>2, SeenIsNext
      <4> QED
        BY <4>1, <4>3
    <3> QED
      BY <3>1, <3>2
  <2> QED
    BY <2>1, <2>2, <2>3
<1>4. TypeOK'
  BY DEF TypeOK, ProcStates
<1>5. UniqueKeys'
  <2>1. ASSUME NEW j \in DOMAIN Seen(p)', NEW k \in DOMAIN Seen(p)', j # k
        PROVE  ~ Alike(Seen(p)'[j], Seen(p)'[k])
    <3>1. CASE j = i
      BY <1>3, <2>1, <3>1 DEF Writes
    <3>2. CASE k = i
      BY <1>3, <2>1, <3>2, AlikeSymmetric DEF Writes
    <3>3. CASE j # i /\ k # i
      <4>1. /\ j \in DOMAIN Seen(p) /\ k \in DOMAIN Seen(p)
            /\ Seen(p)'[j] = Seen(p)[j] /\ Seen(p)'[k] = Seen(p)[k]
        BY <1>3, <2>1, <3>3
      <4> QED
        BY <2>1, <4>1 DEF UniqueKeys
    <3> QED
      BY <3>1, <3>2, <3>3
  <2>2. \A q \in Procs : \A j, k \in DOMAIN Seen(q)' : j # k => ~ Alike(Seen(q)'[j], Seen(q)'[k])
    BY <1>2, <2>1 DEF UniqueKeys
  <2>3. ASSUME NEW q \in Procs \ {p}, NEW j \in DOMAIN proc'[p].own, NEW k \in DOMAIN proc'[q].own
        PROVE  /\ j # k /\ ~ Alike(proc'[p].own[j], proc'[q].own[k])
               /\ ~ Alike(proc'[q].own[k], proc'[p].own[j])
    <3>1. k \in DOMAIN proc[q].own /\ proc'[q].own[k] = proc[q].own[k]
      OBVIOUS
    <3>2. CASE j = i
      BY <1>1, <3>1, <3>2, AlikeSymmetric DEF Writes
    <3>3. CASE j # i
      <4>1. j \in DOMAIN proc[p].own /\ proc'[p].own[j] = proc[p].own[j]
        BY <1>1, <3>3
      <4> QED
        BY <3>1, <4>1 DEF UniqueKeys
    <3> QED
      BY <3>2, <3>3
  <2>4. ASSUME NEW q \in Procs, NEW r \in Procs, q # r,
               NEW j \in DOMAIN proc'[q].own, NEW k \in DOMAIN proc'[r].own
        PROVE  j # k /\ ~ Alike(proc'[q].own[j], proc'[r].own[k])
    <3>1. CASE q = p
      BY <2>3, <2>4, <3>1
    <3>2. CASE r = p
      BY <2>3, <2>4, <3>2
    <3>3. CASE q # p /\ r # p
      BY <2>4, <3>3 DEF UniqueKeys
    <3> QED
      BY <3>1, <3>2, <3>3
  <2>5. \A j, k \in DOMAIN orgs' : j # k => ~ Alike(orgs'[j], orgs'[k])
    BY DEF UniqueKeys
  <2> QED
    BY <2>2, <2>4, <2>5 DEF UniqueKeys
<1>6. RowsFollow'
  <2>1. \A g : PathsOf(g)' = PathsOf(g)
    BY DEF PathsOf
  <2>2. Settled' = Settled
    BY DEF Settled
  <2>3. ASSUME NEW q \in Procs \ {p}, NEW j \in DOMAIN proc'[q].own
        PROVE  /\ RowOK(proc[q].own[j])'
               /\ j \in DOMAIN orgs' => Follows(orgs[j], proc[q].own[j])'
    <3>1. j \in DOMAIN proc[q].own /\ proc'[q].own[j] = proc[q].own[j]
      BY <2>3
    <3> QED
      BY <2>1, <2>2, <3>1 DEF RowsFollow, RowOK, Follows
  <2>4. ASSUME NEW j \in DOMAIN proc'[p].own
        PROVE  /\ RowOK(proc[p].own[j])'
               /\ j \in DOMAIN orgs' => Follows(orgs[j], proc[p].own[j])'
    <3>1. CASE j # i
      <4>1. j \in DOMAIN proc[p].own /\ proc'[p].own[j] = proc[p].own[j]
        BY <1>1, <2>4, <3>1
      <4> QED
        BY <2>1, <2>2, <4>1 DEF RowsFollow, RowOK, Follows
    <3>2. CASE j = i
      <4>1. RowOK(proc[p].own[j])'
        BY <1>1, <2>1, <2>2, <3>2 DEF Writes, RowOK
      <4>2. ASSUME i \in DOMAIN orgs PROVE Follows(orgs[i], row)
        <5>1. i \in DOMAIN Seen(p) /\ Seen(p)[i] \in Rows /\ orgs[i] \in Rows
          BY <4>2, SeenIs, SeenRows, TableIs
        <5>2. Follows(Seen(p)[i], row)
          BY <5>1 DEF Writes
        <5>3. CASE i \in DOMAIN proc[p].own
          <6>1. Seen(p)[i] = proc[p].own[i] /\ Follows(orgs[i], proc[p].own[i])
            BY <4>2, <5>3, SeenIs DEF RowsFollow
          <6> QED
            BY <5>1, <5>2, <6>1, FollowsTransitive
        <5>4. CASE i \notin DOMAIN proc[p].own
          BY <4>2, <5>2, <5>4, SeenIs
        <5> QED
          BY <5>3, <5>4
      <4> QED
        BY <1>1, <2>1, <3>2, <4>1, <4>2 DEF Follows
    <3> QED
      BY <3>1, <3>2
  <2>5. \A j \in DOMAIN orgs' : RowOK(orgs[j])'
    BY <2>1, <2>2 DEF RowsFollow, RowOK
  <2> QED
    BY <2>3, <2>4, <2>5 DEF RowsFollow
<1> QED
  BY <1>2, <1>3, <1>4, <1>5, <1>6

-----------------------------------------------------------------------------
(* The actions.                                                             *)

\* The row is that of the group p asks for: see Near.
IsNear(p, row) ==
    /\ Ref(p).path # None
    /\ IF row.gid = None THEN row.path = Ref(p).path ELSE Ref(p).path \in PathsOf(row.gid)

IsFor(p, row) ==
    \/ IsNear(p, row) /\ (row.gid = None => Ref(p).gid \notin Settled)
    \/ Ref(p).gid # None /\ row.gid = Ref(p).gid

LEMMA ResolvedIs ==
    ASSUME TypeOK, NEW p \in Procs, NEW i \in Ids \cup {None}
    PROVE  /\ Resolved(p, i) \in ProcStates
           /\ Resolved(p, i).org = i /\ Resolved(p, i).own = proc[p].own
           /\ Resolved(p, i).op = proc[p].op /\ Resolved(p, i).refs = proc[p].refs
           /\ Resolved(p, i).pc \in {"end", "sync"}
           /\ Resolved(p, i).pc = "sync" => proc[p].op = "group" /\ i # None
<1>1. proc[p] \in ProcStates
  BY SeenRows
<1> QED
  BY <1>1 DEF Resolved, ProcStates, Pcs

\* What a process that resolved its ref must meet, afterwards.
LEMMA ResolvedMeets ==
    ASSUME TypeOK, NEW p \in Procs, NEW i \in Ids \cup {None}, AsksFor(p), proc[p].pc # "idle",
           now' = now, proc'[p].org = i,
           proc'[p].op = proc[p].op, proc'[p].refs = proc[p].refs,
           proc'[p].pc \in {"end", "sync"},
           proc'[p].pc = "sync" => proc[p].op = "group" /\ i # None,
           proc'[p].op = "group" => DOMAIN proc'[p].own = {},
           i # None => i \in DOMAIN Seen(p)' /\ IsFor(p, Seen(p)'[i])
    PROVE  AsksFor(p)' /\ StandsAt(p)' /\ LocksUpwards(p)'
<1>1. AsksFor(p)' /\ LocksUpwards(p)'
  BY DEF AsksFor, LocksUpwards, Ref
<1>2. Ref(p)' = Ref(p) /\ \A g : PathsOf(g)' = PathsOf(g)
  BY DEF Ref, PathsOf
<1>3. i # None => \/ Near(p)' /\ (Current(p)'.gid = None => Ref(p)'.gid \notin Settled')
                  \/ Ref(p)'.gid # None /\ Current(p)'.gid = Ref(p)'.gid
  <2>1. Settled' = Settled
    BY DEF Settled
  <2> QED
    BY <1>2, <2>1 DEF IsFor, IsNear, Near, Current
<1> QED
  BY <1>1, <1>3 DEF StandsAt

\* A search that ends with an organization p sees, or with none.
LEMMA FoundStep ==
    ASSUME IInv, NEW p \in Procs, NEW i \in Ids \cup {None}, proc[p].pc # "idle",
           Go(p, Resolved(p, i)), UNCHANGED orgs,
           i # None => i \in DOMAIN Seen(p) /\ IsFor(p, Seen(p)[i])
    PROVE  IInv'
<1>0. TypeOK /\ AsksFor(p) /\ StandsAt(p)
  BY DEF IInv
<1> DEFINE new == Resolved(p, i)
<1>1. /\ new \in ProcStates
      /\ new.org = i /\ new.own = proc[p].own
      /\ new.op = proc[p].op /\ new.refs = proc[p].refs
      /\ new.pc \in {"end", "sync"}
      /\ new.pc = "sync" => proc[p].op = "group" /\ i # None
  BY <1>0, ResolvedIs
<1> HIDE DEF new
<1>2. Go(p, new)
  BY DEF new
<1>3. now' = now /\ proc'[p] = new
  BY <1>0, <1>1, <1>2, GoTypes
<1>4. Seen(p)' = Seen(p)
  BY <1>1, <1>3 DEF Seen
<1>5. proc'[p].op = "group" => DOMAIN proc'[p].own = {}
  BY <1>0, <1>1, <1>3 DEF StandsAt
<1>6. AsksFor(p)' /\ StandsAt(p)' /\ LocksUpwards(p)'
  BY <1>0, <1>1, <1>3, <1>4, <1>5, ResolvedMeets
<1> QED
  BY <1>1, <1>2, <1>6, LocalStep

\* A search that ends with a write.
LEMMA WriteStep ==
    ASSUME IInv, NEW p \in Procs, NEW i \in Ids, NEW row \in Rows, proc[p].pc # "idle",
           Save(p, i, row, Resolved(p, i)), Writes(p, i, row), IsFor(p, row)
    PROVE  IInv'
<1>0. TypeOK /\ UniqueKeys /\ RowsFollow /\ AsksFor(p) /\ StandsAt(p) /\ None \notin Ids
  BY NoneAssumption DEF IInv
<1> DEFINE res == Resolved(p, i)
<1>1. /\ res \in ProcStates
      /\ res.org = i /\ res.own = proc[p].own
      /\ res.op = proc[p].op /\ res.refs = proc[p].refs
      /\ res.pc \in {"end", "sync"}
      /\ res.pc = "sync" => proc[p].op = "group" /\ i # None
  BY <1>0, ResolvedIs
<1> HIDE DEF res
<1>2. CASE proc[p].op = "group"
  <2>1. Go(p, res) /\ orgs' = With(orgs, i, row)
    BY <1>2 DEF Save, res
  <2>2. /\ proc' \in [Procs -> ProcStates] /\ now' = now /\ now' \in Settings
        /\ proc'[p] = res
        /\ \A q \in Procs : q # p => proc'[q] = proc[q]
    BY <1>0, <1>1, <2>1, GoTypes
  <2>3. \A q \in Procs : proc'[q].own = proc[q].own
    BY <1>1, <2>2
  <2>4. DOMAIN proc[p].own = {}
    BY <1>0, <1>2 DEF StandsAt
  <2>5. /\ TypeOK' /\ UniqueKeys' /\ RowsFollow'
        /\ Seen(p)'[i] = row /\ i \in DOMAIN Seen(p)'
        /\ \A q \in Procs \ {p} : \A j \in DOMAIN Seen(q) :
              /\ j \in DOMAIN Seen(q)' /\ Seen(q)'[j] \in Rows
              /\ Follows(Seen(q)[j], Seen(q)'[j])
    BY <1>0, <2>1, <2>2, <2>3, <2>4, CommittedWrite
  <2>6. AsksFor(p)' /\ StandsAt(p)' /\ LocksUpwards(p)'
    BY <1>0, <1>1, <2>2, <2>3, <2>4, <2>5, ResolvedMeets
  <2>7. ASSUME NEW q \in Procs, q # p PROVE AsksFor(q)' /\ StandsAt(q)' /\ LocksUpwards(q)'
    BY <1>0, <2>2, <2>5, <2>7, OthersGoOn DEF IInv
  <2> QED
    BY <2>5, <2>6, <2>7 DEF IInv
<1>3. CASE proc[p].op # "group"
  <2> DEFINE new == [res EXCEPT !.own = With(@, i, row)]
             f   == proc[p].own
  <2>1. f \in Tables
    BY <1>0, SeenRows
  <2> HIDE DEF f
  <2>2. With(f, i, row) \in Tables
    BY <2>1, WithRow
  <2>3. /\ new \in ProcStates /\ new.own = With(f, i, row)
        /\ new.org = i /\ new.op = proc[p].op /\ new.refs = proc[p].refs /\ new.pc = "end"
    <3> DEFINE g == With(f, i, row)
    <3>1. new = [res EXCEPT !.own = g]
      BY <1>1 DEF f
    <3>2. g \in Tables
      BY <2>2
    <3> HIDE DEF g, new
    <3>3. /\ new \in ProcStates /\ new.own = g
          /\ new.org = i /\ new.op = proc[p].op /\ new.refs = proc[p].refs /\ new.pc = "end"
      BY <1>1, <1>3, <3>1, <3>2 DEF ProcStates
    <3> QED
      BY <3>3 DEF g
  <2>4. Go(p, new) /\ orgs' = orgs
    BY <1>3 DEF Save, res
  <2> HIDE DEF new
  <2>5. /\ proc' \in [Procs -> ProcStates] /\ now' = now /\ now' \in Settings
        /\ proc'[p] = new
        /\ \A q \in Procs : q # p => proc'[q] = proc[q]
    BY <1>0, <2>3, <2>4, GoTypes
  <2>6. proc'[p].own = With(proc[p].own, i, row) /\ \A q \in Procs \ {p} : proc'[q].own = proc[q].own
    BY <2>3, <2>5 DEF f
  <2>7. /\ TypeOK' /\ UniqueKeys' /\ RowsFollow'
        /\ Seen(p)'[i] = row /\ i \in DOMAIN Seen(p)'
        /\ \A q \in Procs \ {p} : Seen(q)' = Seen(q)
    BY <1>0, <2>4, <2>5, <2>6, OwnWrite
  <2>8. AsksFor(p)' /\ StandsAt(p)' /\ LocksUpwards(p)'
    BY <1>0, <1>3, <2>3, <2>5, <2>7, ResolvedMeets
  <2>9. ASSUME NEW q \in Procs, q # p PROVE AsksFor(q)' /\ StandsAt(q)' /\ LocksUpwards(q)'
    BY <1>0, <2>5, <2>7, <2>9, OthersGoOn, SeenRows, FollowsItself DEF IInv
  <2> QED
    BY <2>7, <2>8, <2>9 DEF IInv
<1> QED
  BY <1>2, <1>3

\* What a process wrote becomes what everybody sees.
LEMMA CommitStep ==
    ASSUME IInv, NEW p \in Procs, Commit(p)
    PROVE  IInv'
<1>0. TypeOK /\ UniqueKeys /\ RowsFollow /\ Go(p, Idle) /\ orgs' = Seen(p)
  BY DEF IInv, Commit
<1>1. /\ proc' \in [Procs -> ProcStates] /\ now' = now /\ now' \in Settings
      /\ \A q \in Procs : q # p => proc'[q] = proc[q]
      /\ proc'[p] = Idle
  BY <1>0, GoTypes, IdleOK
<1>2. DOMAIN proc'[p].own = {} /\ orgs' \in Tables
  BY <1>0, <1>1, IdleOK, NoRows, SeenRows
<1>3. /\ DOMAIN orgs' = DOMAIN orgs \cup DOMAIN proc[p].own
      /\ \A j \in DOMAIN proc[p].own : orgs'[j] = proc[p].own[j]
      /\ \A j \in DOMAIN orgs \ DOMAIN proc[p].own : orgs'[j] = orgs[j]
  BY <1>0, SeenIs
<1>4. \A j, k \in DOMAIN orgs' : j # k => ~ Alike(orgs'[j], orgs'[k])
  BY <1>0 DEF UniqueKeys
<1>5. /\ DOMAIN Seen(p)' = DOMAIN orgs'
      /\ \A j \in DOMAIN orgs' : Seen(p)'[j] = orgs'[j]
  BY <1>2, SeenIsNext
<1>6. ASSUME NEW q \in Procs \ {p}, NEW j \in DOMAIN Seen(q)', j \notin DOMAIN proc[q].own
      PROVE  /\ j \in DOMAIN orgs' /\ Seen(q)'[j] = orgs'[j]
             /\ j \in DOMAIN Seen(q) \/ j \in DOMAIN proc[p].own
             /\ j \notin DOMAIN proc[p].own => j \in DOMAIN Seen(q) /\ Seen(q)[j] = orgs'[j]
  <2>1. proc'[q].own = proc[q].own
    BY <1>1
  <2>2. j \in DOMAIN orgs' /\ Seen(q)'[j] = orgs'[j]
    BY <1>6, <2>1, SeenIsNext
  <2>3. ASSUME j \notin DOMAIN proc[p].own PROVE j \in DOMAIN Seen(q) /\ Seen(q)[j] = orgs'[j]
    BY <1>3, <1>6, <2>2, <2>3, SeenIs
  <2> QED
    BY <2>2, <2>3
<1>7. TypeOK'
  BY <1>1, <1>2 DEF TypeOK, ProcStates
<1>8. ASSUME NEW q \in Procs \ {p}, NEW j \in DOMAIN proc[q].own, NEW k \in DOMAIN Seen(q)', j # k
      PROVE  ~ Alike(proc[q].own[j], Seen(q)'[k])
  <2>1. proc'[q].own = proc[q].own
    BY <1>1
  <2>2. j \in DOMAIN Seen(q) /\ Seen(q)[j] = proc[q].own[j]
    BY SeenIs
  <2>3. CASE k \in DOMAIN proc[q].own
    <3>1. k \in DOMAIN Seen(q) /\ Seen(q)[k] = proc[q].own[k]
      BY <2>3, SeenIs
    <3>2. Seen(q)'[k] = proc'[q].own[k]
      BY <2>1, <2>3, SeenIsNext
    <3>3. k \in DOMAIN Seen(q) /\ Seen(q)'[k] = Seen(q)[k]
      BY <2>1, <3>1, <3>2
    <3> QED
      BY <1>0, <1>8, <2>2, <3>3 DEF UniqueKeys
  <2>4. CASE k \notin DOMAIN proc[q].own /\ k \in DOMAIN proc[p].own
    <3>1. Seen(q)'[k] = proc[p].own[k]
      BY <1>3, <1>6, <2>4
    <3> QED
      BY <1>0, <2>4, <3>1 DEF UniqueKeys
  <2>5. CASE k \notin DOMAIN proc[q].own /\ k \notin DOMAIN proc[p].own
    <3>1. k \in DOMAIN Seen(q) /\ Seen(q)'[k] = Seen(q)[k]
      BY <1>6, <2>5
    <3> QED
      BY <1>0, <1>8, <2>2, <3>1 DEF UniqueKeys
  <2> QED
    BY <2>3, <2>4, <2>5
<1>9. UniqueKeys'
  <2>1. ASSUME NEW q \in Procs \ {p}, NEW j \in DOMAIN Seen(q)', NEW k \in DOMAIN Seen(q)', j # k
        PROVE  ~ Alike(Seen(q)'[j], Seen(q)'[k])
    <3>1. \A m \in DOMAIN proc[q].own : Seen(q)'[m] = proc[q].own[m]
      BY <1>1, SeenIsNext, ZenonT(40)
    <3>2. CASE j \in DOMAIN proc[q].own
      BY <1>8, <2>1, <3>1, <3>2
    <3>3. CASE k \in DOMAIN proc[q].own
      BY <1>8, <2>1, <3>1, <3>3, AlikeSymmetric
    <3>4. CASE j \notin DOMAIN proc[q].own /\ k \notin DOMAIN proc[q].own
      BY <1>4, <1>6, <2>1, <3>4
    <3> QED
      BY <3>2, <3>3, <3>4
  <2>2. ASSUME NEW q \in Procs, NEW j \in DOMAIN Seen(q)', NEW k \in DOMAIN Seen(q)', j # k
        PROVE  ~ Alike(Seen(q)'[j], Seen(q)'[k])
    BY <1>4, <1>5, <2>1, <2>2
  <2>3. ASSUME NEW q \in Procs, NEW r \in Procs, q # r,
               NEW j \in DOMAIN proc'[q].own, NEW k \in DOMAIN proc'[r].own
        PROVE  j # k /\ ~ Alike(proc'[q].own[j], proc'[r].own[k])
    <3>1. q # p /\ r # p
      BY <1>2, <2>3
    <3> QED
      BY <1>0, <1>1, <2>3, <3>1 DEF UniqueKeys
  <2> QED
    BY <1>4, <2>2, <2>3 DEF UniqueKeys
<1>10. RowsFollow'
  <2>1. \A g : PathsOf(g)' = PathsOf(g)
    BY <1>1 DEF PathsOf
  <2>2. Settled' = Settled
    BY <1>1 DEF Settled
  <2>3. ASSUME NEW j \in DOMAIN orgs' PROVE RowOK(orgs[j])'
    <3>1. RowOK(orgs'[j])
      BY <1>0, <1>3 DEF RowsFollow
    <3> QED
      BY <2>1, <2>2, <3>1 DEF RowOK
  <2>4. ASSUME NEW q \in Procs, NEW j \in DOMAIN proc'[q].own
        PROVE  /\ RowOK(proc[q].own[j])'
               /\ j \in DOMAIN orgs' => Follows(orgs[j], proc[q].own[j])'
    <3>1. q # p /\ j \in DOMAIN proc[q].own /\ proc'[q].own[j] = proc[q].own[j]
      BY <1>1, <1>2, <2>4
    <3>2. j \notin DOMAIN proc[p].own
      BY <1>0, <3>1 DEF UniqueKeys
    <3> QED
      BY <1>0, <1>3, <2>1, <2>2, <3>1, <3>2 DEF RowsFollow, RowOK, Follows
  <2> QED
    BY <2>3, <2>4 DEF RowsFollow
<1>11. ASSUME NEW q \in Procs \ {p}, NEW j \in DOMAIN Seen(q)
       PROVE  j \in DOMAIN Seen(q)' /\ Seen(q)'[j] \in Rows /\ Follows(Seen(q)[j], Seen(q)'[j])
  <2>0. proc'[q].own = proc[q].own
    BY <1>1
  <2>1. j \in DOMAIN Seen(q)'
    BY <1>3, <2>0, SeenIs, SeenIsNext, ZenonT(40)
  <2>2. Seen(q)[j] \in Rows
    BY <1>0, SeenRows
  <2>3. CASE j \in DOMAIN proc[q].own
    <3>1. Seen(q)[j] = proc[q].own[j]
      BY <2>3, SeenIs
    <3>2. Seen(q)'[j] = proc'[q].own[j]
      BY <2>0, <2>3, SeenIsNext
    <3>3. Seen(q)'[j] = Seen(q)[j]
      BY <2>0, <3>1, <3>2
    <3> QED
      BY <2>1, <2>2, <3>3, FollowsItself
  <2>4. CASE j \notin DOMAIN proc[q].own /\ j \in DOMAIN proc[p].own
    <3>1. j \in DOMAIN orgs /\ Seen(q)[j] = orgs[j]
      BY <1>11, <2>4, SeenIs
    <3>2. Seen(q)'[j] = proc[p].own[j] /\ Seen(q)'[j] = orgs'[j] /\ j \in DOMAIN orgs'
      BY <1>3, <1>6, <2>1, <2>4
    <3>3. orgs'[j] \in Rows
      BY <1>2, <3>2, TableIs
    <3> QED
      BY <1>0, <2>1, <2>4, <3>1, <3>2, <3>3 DEF RowsFollow
  <2>5. CASE j \notin DOMAIN proc[q].own /\ j \notin DOMAIN proc[p].own
    <3>1. Seen(q)'[j] = Seen(q)[j]
      BY <1>6, <2>1, <2>5
    <3> QED
      BY <2>1, <2>2, <3>1, FollowsItself
  <2> QED
    BY <2>3, <2>4, <2>5
<1>12. ASSUME NEW q \in Procs PROVE AsksFor(q)' /\ StandsAt(q)' /\ LocksUpwards(q)'
  <2>1. CASE q = p
    BY <1>1, <2>1, IdleMeets
  <2>2. CASE q # p
    BY <1>0, <1>1, <1>11, <2>2, OthersGoOn DEF IInv
  <2> QED
    BY <2>1, <2>2
<1> QED
  BY <1>7, <1>9, <1>10, <1>12 DEF IInv

\* A step of a search that goes on.
LEMMA MoveStep ==
    ASSUME IInv, NEW p \in Procs, NEW new \in ProcStates, Go(p, new), UNCHANGED orgs,
           new.own = proc[p].own,
           new.pc \in {"by id", "by path", "absent", "create", "fill id", "fill path", "lost id",
                       "lost path", "failed"},
           new.refs # << >>,
           IF new.op = "login"
           THEN \A n \in DOMAIN new.refs : new.refs[n].gid = None /\ new.refs[n].path # None
           ELSE Len(new.refs) = 1 /\ Head(new.refs) \in now.events,
           new.op = "group" => DOMAIN proc[p].own = {},
           new.org # None => new.org \in DOMAIN Seen(p),
           new.pc \in {"by id", "by path", "absent", "create"} => new.org = None,
           new.pc = "by id" => Head(new.refs).gid # None,
           new.pc = "create" => new.tries < MaxSlugs,
           new.pc \in {"fill id", "fill path", "lost id", "lost path"} =>
               new.org # None /\ new.refs = proc[p].refs /\ Ref(p).gid # None,
           new.pc = "fill id" => IsNear(p, Seen(p)[new.org]),
           new.pc = "lost id" => \E i \in DOMAIN Seen(p) : Seen(p)[i].gid = Ref(p).gid,
           new.pc \in {"fill path", "lost path"} =>
               /\ Ref(p).path # None /\ Seen(p)[new.org].gid = Ref(p).gid
               /\ Ref(p).gid \notin Settled
    PROVE  IInv'
<1>0. TypeOK
  BY DEF IInv
<1>1. now' = now /\ proc'[p] = new
  BY <1>0, GoTypes
<1>2. Seen(p)' = Seen(p)
  BY <1>1 DEF Seen
<1>3. AsksFor(p)' /\ LocksUpwards(p)'
  BY <1>1 DEF AsksFor, LocksUpwards, Ref
<1>4. \A g : PathsOf(g)' = PathsOf(g)
  BY <1>1 DEF PathsOf
<1>5. StandsAt(p)'
  <2>1. Settled' = Settled
    BY <1>1 DEF Settled
  <2> QED
    BY <1>1, <1>2, <1>4, <2>1 DEF StandsAt, Near, Current, IsNear, Ref
<1> QED
  BY <1>3, <1>5, LocalStep

\* What a process that searches knows.
LEMMA Searching ==
    ASSUME IInv, NEW p \in Procs, proc[p].pc # "idle"
    PROVE  /\ TypeOK /\ proc[p] \in ProcStates /\ None \notin Ids \cup Gids \cup Paths
           /\ proc[p].refs \in Seq(Refs) /\ proc[p].refs # << >> /\ Ref(p) \in Refs
           /\ Search(Ref(p)) \in {"by id", "by path"}
           /\ Search(Ref(p)) = "by id" => Ref(p).gid # None
           /\ IF proc[p].op = "login"
              THEN \A n \in DOMAIN proc[p].refs : proc[p].refs[n].gid = None /\ proc[p].refs[n].path # None
              ELSE Len(proc[p].refs) = 1 /\ Ref(p) \in now.events
           /\ proc[p].op = "login" => Ref(p).gid = None /\ Ref(p).path # None
           /\ proc[p].op = "group" => DOMAIN proc[p].own = {}
           /\ proc[p].org # None => proc[p].org \in DOMAIN Seen(p)
           /\ \A i \in DOMAIN Seen(p) : /\ i \in Ids /\ Seen(p)[i] \in Rows /\ RowOK(Seen(p)[i])
<1>1. TypeOK /\ AsksFor(p) /\ StandsAt(p) /\ RowsFollow /\ proc[p] \in ProcStates
  BY SeenRows DEF IInv
<1>2. proc[p].refs \in Seq(Refs) /\ proc[p].refs # << >>
  BY <1>1 DEF AsksFor, ProcStates
<1>3. Ref(p) \in Refs /\ Ref(p) = proc[p].refs[1] /\ 1 \in DOMAIN proc[p].refs
  BY <1>2 DEF Ref
<1>4. IF proc[p].op = "login"
      THEN \A n \in DOMAIN proc[p].refs : proc[p].refs[n].gid = None /\ proc[p].refs[n].path # None
      ELSE Len(proc[p].refs) = 1 /\ Ref(p) \in now.events
  BY <1>1 DEF AsksFor
<1>5. ASSUME NEW i \in DOMAIN Seen(p) PROVE i \in Ids /\ Seen(p)[i] \in Rows /\ RowOK(Seen(p)[i])
  <2>1. i \in Ids /\ Seen(p)[i] \in Rows
    BY <1>1, SeenRows
  <2>2. CASE i \in DOMAIN proc[p].own
    BY <1>1, <2>1, <2>2, SeenIs DEF RowsFollow
  <2>3. CASE i \notin DOMAIN proc[p].own
    BY <1>1, <1>5, <2>1, <2>3, SeenIs DEF RowsFollow
  <2> QED
    BY <2>2, <2>3
<1>6. /\ Search(Ref(p)) \in {"by id", "by path"}
      /\ Search(Ref(p)) = "by id" => Ref(p).gid # None
  BY DEF Search
<1>7. /\ proc[p].op = "group" => DOMAIN proc[p].own = {}
      /\ proc[p].org # None => proc[p].org \in DOMAIN Seen(p)
  BY <1>1 DEF StandsAt
<1>8. proc[p].op = "login" => Ref(p).gid = None /\ Ref(p).path # None
  BY <1>3, <1>4
<1> QED
  BY <1>1, <1>2, <1>3, <1>4, <1>5, <1>6, <1>7, <1>8, NoneAssumption

LEMMA AbsentStep ==
    ASSUME IInv, NEW p \in Procs, Absent(p)
    PROVE  IInv'
<1>1. proc[p].pc = "absent" /\ proc[p].org = None /\ UNCHANGED orgs
  BY DEF Absent, IInv, StandsAt
<1>2. CASE Go(p, Resolved(p, None))
  BY <1>1, <1>2, FoundStep
<1>3. CASE /\ proc[p].tries # MaxSlugs
           /\ Go(p, [proc[p] EXCEPT !.pc = "create"])
  <2> DEFINE new == [proc[p] EXCEPT !.pc = "create"]
  <2>1. /\ new \in ProcStates /\ new.pc = "create" /\ new.own = proc[p].own /\ new.org = None
        /\ new.op = proc[p].op /\ new.refs = proc[p].refs /\ new.tries = proc[p].tries
        /\ proc[p].tries \in 0 .. MaxSlugs
    BY <1>1, Searching, ZenonT(40) DEF ProcStates, Pcs
  <2>2. new.tries < MaxSlugs
    BY <1>3, <2>1, SlugAssumption
  <2>3. Go(p, new)
    BY <1>3
  <2>4. Ref(p) = Head(new.refs)
    BY <2>1 DEF Ref
  <2> HIDE DEF new
  <2> QED
    BY <1>1, <2>1, <2>2, <2>3, <2>4, Searching, MoveStep, ZenonT(40)
<1> QED
  BY <1>2, <1>3 DEF Absent

LEMMA CreateConflictStep ==
    ASSUME IInv, NEW p \in Procs, CreateConflict(p)
    PROVE  IInv'
<1>1. /\ proc[p].pc = "create" /\ proc[p].org = None /\ UNCHANGED orgs
      /\ proc[p].tries < MaxSlugs
  BY DEF CreateConflict, IInv, StandsAt
<1> DEFINE new == [proc[p] EXCEPT !.pc = Search(Ref(p)), !.tries = @ + 1]
<1>2. proc[p] \in ProcStates /\ Search(Ref(p)) \in Pcs /\ proc[p].tries \in 0 .. MaxSlugs
  BY <1>1, Searching DEF ProcStates, Pcs
<1>3. proc[p].tries + 1 \in 0 .. MaxSlugs
  BY <1>1, <1>2, SlugAssumption
<1>4. /\ new \in ProcStates /\ new.pc = Search(Ref(p)) /\ new.own = proc[p].own /\ new.org = None
      /\ new.op = proc[p].op /\ new.refs = proc[p].refs
  BY <1>1, <1>2, <1>3 DEF ProcStates
<1>5. Go(p, new)
  BY DEF CreateConflict
<1>6. Ref(p) = Head(new.refs)
  BY <1>4 DEF Ref
<1> HIDE DEF new
<1> QED
  BY <1>1, <1>4, <1>5, <1>6, Searching, MoveStep, ZenonT(40)

LEMMA SyncFailsStep ==
    ASSUME IInv, NEW p \in Procs, SyncFails(p)
    PROVE  IInv'
<1>1. proc[p].pc = "sync" /\ UNCHANGED orgs
  BY DEF SyncFails
<1> DEFINE new == [proc[p] EXCEPT !.pc = "failed"]
<1>2. /\ new \in ProcStates /\ new.pc = "failed" /\ new.own = proc[p].own /\ new.org = proc[p].org
      /\ new.op = proc[p].op /\ new.refs = proc[p].refs
  BY <1>1, Searching, ZenonT(40) DEF ProcStates, Pcs
<1>3. Go(p, new)
  BY DEF SyncFails
<1>4. Ref(p) = Head(new.refs)
  BY <1>2 DEF Ref
<1> HIDE DEF new
<1> QED
  BY <1>1, <1>2, <1>3, <1>4, Searching, MoveStep

\* What an event carries.
LEMMA EventIs ==
    ASSUME TypeOK, NEW e \in now.events
    PROVE  /\ e \in Refs /\ e.gid \in Gids /\ e.gid # None
           /\ e.path # None => e.path \in PathsOf(e.gid)
           /\ e.gid \in Settled => e.path # None
<1>1. e \in [gid : Gids, path : Paths \cup {None}]
  BY SettingsAssumption DEF TypeOK
<1>2. e.path # None => e.path \in PathsOf(e.gid)
  BY DEF PathsOf
<1>3. ASSUME e.gid \in Settled PROVE e.path # None
  <2>1. PICK path \in Paths : {f.path : f \in {d \in now.events : d.gid = e.gid}} = {path}
    BY <1>3 DEF Settled
  <2>2. e.path = path
    BY <2>1
  <2> QED
    BY <2>2, NoneAssumption
<1> QED
  BY <1>1, <1>2, <1>3, NoneAssumption DEF Refs

\* The row a search by path finds.
LEMMA PathFound ==
    ASSUME IInv, NEW p \in Procs, proc[p].pc # "idle", NEW i \in DOMAIN Seen(p),
           Ref(p).path # None, Seen(p)[i].path = Ref(p).path
    PROVE  IsNear(p, Seen(p)[i])
BY Searching DEF IsNear, RowOK

LEMMA FindByIdStep ==
    ASSUME IInv, NEW p \in Procs, FindById(p)
    PROVE  IInv'
<1>1. proc[p].pc = "by id" /\ proc[p].org = None /\ UNCHANGED orgs /\ Ref(p).gid # None
  BY DEF FindById, IInv, StandsAt
<1>2. CASE Go(p, [proc[p] EXCEPT !.pc = "by path"])
  <2> DEFINE new == [proc[p] EXCEPT !.pc = "by path"]
  <2>1. /\ new \in ProcStates /\ new.pc = "by path" /\ new.own = proc[p].own /\ new.org = None
        /\ new.op = proc[p].op /\ new.refs = proc[p].refs
    BY <1>1, Searching, ZenonT(40) DEF ProcStates, Pcs
  <2>2. Go(p, new)
    BY <1>2
  <2>3. Ref(p) = Head(new.refs)
    BY <2>1 DEF Ref
  <2> HIDE DEF new
  <2> QED
    BY <1>1, <2>1, <2>2, <2>3, Searching, MoveStep
<1>3. ASSUME NEW i \in DOMAIN Seen(p), Seen(p)[i].gid = Ref(p).gid, Ref(p).path # None,
             Seen(p)[i].path = None,
             Go(p, [proc[p] EXCEPT !.pc = "fill path", !.org = i])
      PROVE  IInv'
  <2> DEFINE new == [proc[p] EXCEPT !.pc = "fill path", !.org = i]
  <2>1. proc[p] \in ProcStates /\ i \in Ids
    BY <1>1, Searching
  <2>2. /\ new \in ProcStates /\ new.pc = "fill path" /\ new.own = proc[p].own /\ new.org = i
        /\ new.op = proc[p].op /\ new.refs = proc[p].refs
    BY <2>1 DEF ProcStates, Pcs
  <2>3. Go(p, new)
    BY <1>3
  <2>4. Ref(p) = Head(new.refs)
    BY <2>2 DEF Ref
  <2>5. i # None
    BY <2>1, NoneAssumption
  <2>6. Ref(p).gid \notin Settled
    BY <1>1, <1>3, Searching DEF RowOK
  <2> HIDE DEF new
  <2> QED
    BY <1>1, <1>3, <2>2, <2>3, <2>4, <2>5, <2>6, Searching, MoveStep
<1>4. ASSUME NEW i \in DOMAIN Seen(p), Seen(p)[i].gid = Ref(p).gid, Go(p, Resolved(p, i))
      PROVE  IInv'
  <2>1. i \in Ids /\ IsFor(p, Seen(p)[i])
    BY <1>1, <1>4, Searching DEF IsFor
  <2> QED
    BY <1>1, <1>4, <2>1, FoundStep
<1> QED
  BY <1>2, <1>3, <1>4 DEF FindById

LEMMA FindByPathStep ==
    ASSUME IInv, NEW p \in Procs, FindByPath(p)
    PROVE  IInv'
<1>1. proc[p].pc = "by path" /\ proc[p].org = None /\ UNCHANGED orgs
  BY DEF FindByPath, IInv, StandsAt
<1>2. CASE Go(p, [proc[p] EXCEPT !.pc = "absent"])
  <2> DEFINE new == [proc[p] EXCEPT !.pc = "absent"]
  <2>1. /\ new \in ProcStates /\ new.pc = "absent" /\ new.own = proc[p].own /\ new.org = None
        /\ new.op = proc[p].op /\ new.refs = proc[p].refs
    BY <1>1, Searching, ZenonT(40) DEF ProcStates, Pcs
  <2>2. Go(p, new)
    BY <1>2
  <2>3. Ref(p) = Head(new.refs)
    BY <2>1 DEF Ref
  <2> HIDE DEF new
  <2> QED
    BY <1>1, <2>1, <2>2, <2>3, Searching, MoveStep, ZenonT(40)
<1>3. ASSUME NEW i \in DOMAIN Seen(p), Ref(p).path # None, Seen(p)[i].path = Ref(p).path,
             Ref(p).gid # None,
             Go(p, [proc[p] EXCEPT !.pc = "fill id", !.org = i])
      PROVE  IInv'
  <2> DEFINE new == [proc[p] EXCEPT !.pc = "fill id", !.org = i]
  <2>1. proc[p] \in ProcStates /\ i \in Ids
    BY <1>1, Searching
  <2>2. /\ new \in ProcStates /\ new.pc = "fill id" /\ new.own = proc[p].own /\ new.org = i
        /\ new.op = proc[p].op /\ new.refs = proc[p].refs
    BY <2>1 DEF ProcStates, Pcs
  <2>3. Go(p, new)
    BY <1>3
  <2>4. Ref(p) = Head(new.refs)
    BY <2>2 DEF Ref
  <2>5. i # None /\ IsNear(p, Seen(p)[i])
    BY <1>1, <1>3, <2>1, NoneAssumption, PathFound
  <2> HIDE DEF new
  <2> QED
    BY <1>1, <1>3, <2>2, <2>3, <2>4, <2>5, Searching, MoveStep
<1>4. ASSUME NEW i \in DOMAIN Seen(p), Ref(p).path # None, Seen(p)[i].path = Ref(p).path,
             Ref(p).gid = None \/ Seen(p)[i].gid # None,
             Go(p, Resolved(p, i))
      PROVE  IInv'
  <2>1. None \notin Settled
    BY NoneAssumption DEF Settled
  <2>2. i \in Ids /\ IsFor(p, Seen(p)[i])
    BY <1>1, <1>4, <2>1, Searching, PathFound DEF IsFor
  <2> QED
    BY <1>1, <1>4, <2>2, FoundStep
<1> QED
  BY <1>2, <1>3, <1>4 DEF FindByPath

\* A process that waits for nobody writes what no other transaction holds.
LEMMA Unblocked ==
    ASSUME IInv, NEW p \in Procs, Writing(p), Blockers(p) = {}, NEW q \in Procs \ {p}
    PROVE  /\ proc[p].org \notin DOMAIN proc[q].own
           /\ \A j \in DOMAIN proc[q].own : ~ Alike(Wanted(p), proc[q].own[j])
<1>1. Asked(p) = {proc[p].org}
  BY DEF Asked, Writing, Done
<1>2. proc[p].org \notin DOMAIN proc[q].own
  BY <1>1 DEF Blockers, Holds
<1>3. ~ Clash(proc[q].own, proc[p].org, Wanted(p))
  BY DEF Blockers
<1> QED
  BY <1>2, <1>3 DEF Clash

LEMMA CreateOrgStep ==
    ASSUME IInv, NEW p \in Procs, CreateOrg(p)
    PROVE  IInv'
<1> DEFINE i   == CHOOSE i \in FreeIds : TRUE
           row == NewOrg(Ref(p), proc[p].tries + 1)
<1>1. /\ proc[p].pc = "create" /\ proc[p].org = None /\ proc[p].tries < MaxSlugs
      /\ Blockers(p) = {} /\ ~ Clash(Seen(p), None, Wanted(p)) /\ FreeIds # {}
      /\ Save(p, i, Wanted(p), Resolved(p, i))
  BY DEF CreateOrg, IInv, StandsAt
<1>2. Wanted(p) = row
  BY <1>1 DEF Wanted
<1>3. i \in FreeIds
  BY <1>1
<1>4. /\ i \in Ids /\ i \notin DOMAIN orgs
      /\ \A q \in Procs : i \notin DOMAIN proc[q].own
  BY <1>3 DEF FreeIds
<1>5. Ref(p) \in Refs /\ proc[p].tries \in 0 .. MaxSlugs
  BY <1>1, Searching DEF ProcStates
<1>6. /\ row \in Rows /\ row.gid = Ref(p).gid /\ row.path = Ref(p).path
  <2> DEFINE x == IF Ref(p).path = None THEN Ref(p).gid ELSE Ref(p).path
             sl == <<SlugBase[x], proc[p].tries + 1>>
  <2>1. x \in Gids \cup Paths
    <3>1. CASE proc[p].op = "login"
      <4>1. Ref(p).path # None
        BY <1>1, <3>1, Searching
      <4> QED
        BY <1>5, <4>1 DEF Refs
    <3>2. CASE proc[p].op # "login"
      <4>1. Ref(p).gid \in Gids
        BY <1>1, <3>2, Searching, EventIs
      <4> QED
        BY <1>5, <4>1 DEF Refs
    <3> QED
      BY <3>1, <3>2
  <2>2. proc[p].tries + 1 \in 1 .. MaxSlugs
    BY <1>1, <1>5, SlugAssumption
  <2>3. sl \in Slugs
    BY <2>1, <2>2 DEF Slugs
  <2>4. row = [gid |-> Ref(p).gid, path |-> Ref(p).path, slug |-> sl]
    BY DEF NewOrg
  <2> HIDE DEF sl, row
  <2> QED
    BY <1>5, <2>3, <2>4 DEF Rows, Refs
<1> HIDE DEF i, row
<1>7. RowOK(row)
  <2>1. CASE proc[p].op = "login"
    BY <1>1, <1>6, <2>1, Searching DEF RowOK
  <2>2. CASE proc[p].op # "login"
    BY <1>1, <1>6, <2>2, Searching, EventIs DEF RowOK
  <2> QED
    BY <2>1, <2>2
<1>8. i \notin DOMAIN Seen(p)
  BY <1>4, SeenIs
<1>9. \A j \in DOMAIN Seen(p) : ~ Alike(row, Seen(p)[j])
  BY <1>1, <1>2, Searching DEF Clash
<1>10. \A q \in Procs \ {p} : \A j \in DOMAIN proc[q].own : ~ Alike(row, proc[q].own[j])
  BY <1>1, <1>2, Unblocked DEF Writing
<1>11. Writes(p, i, row)
  BY <1>4, <1>7, <1>8, <1>9, <1>10 DEF Writes
<1>12. IsFor(p, row)
  <2>1. CASE Ref(p).gid # None
    BY <1>6, <2>1 DEF IsFor
  <2>2. CASE Ref(p).gid = None
    <3>1. proc[p].op = "login" /\ None \notin Settled
      BY <1>1, <2>2, Searching, EventIs, NoneAssumption DEF Settled
    <3> QED
      BY <1>1, <1>6, <2>2, <3>1, Searching DEF IsFor, IsNear
  <2> QED
    BY <2>1, <2>2
<1>13. Save(p, i, row, Resolved(p, i))
  BY <1>1, <1>2 DEF i
<1> QED
  BY <1>1, <1>4, <1>6, <1>11, <1>12, <1>13, WriteStep

\* A write of the row p has found, whose new value follows the one p sees.
LEMMA RowWriteStep ==
    ASSUME IInv, NEW p \in Procs, proc[p].pc \in {"fill id", "fill path", "sync"},
           Blockers(p) = {}, ~ Clash(Seen(p), proc[p].org, Wanted(p)),
           Save(p, proc[p].org, Wanted(p), Resolved(p, proc[p].org)),
           Wanted(p) \in Rows, RowOK(Wanted(p)), Follows(Current(p), Wanted(p)),
           IsFor(p, Wanted(p))
    PROVE  IInv'
<1>1. proc[p].org \in DOMAIN Seen(p) /\ proc[p].org \in Ids
  BY Searching DEF IInv, StandsAt
<1>2. \A j \in DOMAIN Seen(p) : j # proc[p].org => ~ Alike(Wanted(p), Seen(p)[j])
  BY DEF Clash
<1>3. \A q \in Procs \ {p} : /\ proc[p].org \notin DOMAIN proc[q].own
                             /\ \A j \in DOMAIN proc[q].own : ~ Alike(Wanted(p), proc[q].own[j])
  BY Unblocked DEF Writing
<1>4. Writes(p, proc[p].org, Wanted(p))
  BY <1>2, <1>3 DEF Writes, Current
<1> QED
  BY <1>1, <1>4, WriteStep

\* The row p has found, and what it knows of it.
LEMMA FoundRow ==
    ASSUME IInv, NEW p \in Procs, proc[p].pc \in {"fill id", "fill path", "sync"}
    PROVE  /\ proc[p].org \in DOMAIN Seen(p) /\ proc[p].org \in Ids
           /\ Current(p) \in Rows /\ RowOK(Current(p)) /\ Ref(p) \in Refs
           /\ proc[p].pc \in {"fill id", "fill path"} => Ref(p).gid # None
           /\ proc[p].pc = "fill id" => IsNear(p, Current(p))
           /\ proc[p].pc = "fill path" => /\ Ref(p).path # None /\ Current(p).gid = Ref(p).gid
                                          /\ Ref(p).gid \notin Settled
           /\ proc[p].pc = "sync" => IsFor(p, Current(p))
           /\ Ref(p).gid # None /\ Ref(p).path # None => Ref(p).path \in PathsOf(Ref(p).gid)
           /\ Ref(p).gid \in Settled => Ref(p).path # None
<1>1. proc[p].org \in DOMAIN Seen(p) /\ proc[p].org \in Ids
  BY Searching DEF IInv, StandsAt
<1>2. Current(p) \in Rows /\ RowOK(Current(p)) /\ Ref(p) \in Refs
  BY <1>1, Searching DEF Current
<1>3. /\ proc[p].pc \in {"fill id", "fill path"} => Ref(p).gid # None
      /\ proc[p].pc = "fill id" => IsNear(p, Current(p))
      /\ proc[p].pc = "fill path" => /\ Ref(p).path # None /\ Current(p).gid = Ref(p).gid
                                     /\ Ref(p).gid \notin Settled
      /\ proc[p].pc = "sync" => IsFor(p, Current(p))
  BY DEF IInv, StandsAt, IsFor, IsNear, Near
<1>4. /\ Ref(p).gid # None /\ Ref(p).path # None => Ref(p).path \in PathsOf(Ref(p).gid)
      /\ Ref(p).gid \in Settled => Ref(p).path # None
  <2>1. CASE proc[p].op = "login"
    BY <2>1, Searching DEF Settled
  <2>2. CASE proc[p].op # "login"
    BY <2>2, Searching, EventIs
  <2> QED
    BY <2>1, <2>2
<1> QED
  BY <1>1, <1>2, <1>3, <1>4

LEMMA BackfillStep ==
    ASSUME IInv, NEW p \in Procs, Backfill(p)
    PROVE  IInv'
<1>1. /\ proc[p].pc \in {"fill id", "fill path"}
      /\ Blockers(p) = {} /\ ~ Clash(Seen(p), proc[p].org, Wanted(p))
      /\ Save(p, proc[p].org, Wanted(p), Resolved(p, proc[p].org))
  BY DEF Backfill
<1> DEFINE row == Current(p)
<1>2. /\ row \in Rows /\ RowOK(row) /\ Ref(p) \in Refs /\ Ref(p).gid # None
      /\ Ref(p).path # None => Ref(p).path \in PathsOf(Ref(p).gid)
      /\ Ref(p).gid \in Settled => Ref(p).path # None
  BY <1>1, FoundRow
<1>3. CASE proc[p].pc = "fill id"
  <2>1. Wanted(p) = FilledId(row, Ref(p).gid) /\ IsNear(p, row)
    BY <1>3, FoundRow DEF Wanted
  <2> HIDE DEF row
  <2>2. CASE row.gid = None
    <3>1. /\ Wanted(p) \in Rows /\ Wanted(p).gid = Ref(p).gid /\ Wanted(p).path = row.path
          /\ row.path = Ref(p).path /\ Ref(p).path # None
      BY <1>2, <2>1, <2>2 DEF FilledId, Rows, Refs, IsNear
    <3>2. RowOK(Wanted(p)) /\ Follows(row, Wanted(p)) /\ IsFor(p, Wanted(p))
      BY <1>2, <2>2, <3>1 DEF RowOK, Follows, IsFor
    <3> QED
      BY <1>1, <3>1, <3>2, RowWriteStep DEF row
  <2>3. CASE row.gid # None
    <3>1. Wanted(p) = row
      BY <2>1, <2>3 DEF FilledId
    <3>2. IsFor(p, Wanted(p))
      BY <2>1, <2>3, <3>1 DEF IsFor
    <3>3. Wanted(p) \in Rows /\ RowOK(Wanted(p)) /\ Follows(row, Wanted(p))
      BY <1>2, <3>1, FollowsItself
    <3> QED
      BY <1>1, <3>2, <3>3, RowWriteStep DEF row
  <2> QED
    BY <2>2, <2>3
<1>4. CASE proc[p].pc = "fill path"
  <2>1. /\ Wanted(p) = FilledPath(row, Ref(p).path)
        /\ Ref(p).path # None /\ row.gid = Ref(p).gid
    BY <1>4, FoundRow DEF Wanted
  <2> HIDE DEF row
  <2>2. CASE row.path = None
    <3>1. /\ Wanted(p) \in Rows /\ Wanted(p).gid = row.gid /\ Wanted(p).path = Ref(p).path
      BY <1>2, <2>1, <2>2 DEF FilledPath, Rows, Refs
    <3>2. RowOK(Wanted(p)) /\ Follows(row, Wanted(p)) /\ IsFor(p, Wanted(p))
      BY <1>2, <2>1, <2>2, <3>1 DEF RowOK, Follows, IsFor
    <3> QED
      BY <1>1, <3>1, <3>2, RowWriteStep DEF row
  <2>3. CASE row.path # None
    <3>1. Wanted(p) = row
      BY <2>1, <2>3 DEF FilledPath
    <3> QED
      BY <1>1, <1>2, <2>1, <3>1, RowWriteStep, FollowsItself DEF row, IsFor
  <2> QED
    BY <2>2, <2>3
<1> QED
  BY <1>1, <1>3, <1>4

\* The row of a backfill that clashes has the key that was to be written.
LEMMA BackfillConflictStep ==
    ASSUME IInv, NEW p \in Procs, BackfillConflict(p)
    PROVE  IInv'
<1>1. /\ proc[p].pc \in {"fill id", "fill path"} /\ UNCHANGED orgs
      /\ Clash(Seen(p), proc[p].org, Wanted(p))
      /\ Go(p, [proc[p] EXCEPT !.pc = IF @ = "fill id" THEN "lost id" ELSE "lost path"])
  BY DEF BackfillConflict
<1> DEFINE pc  == IF proc[p].pc = "fill id" THEN "lost id" ELSE "lost path"
           new == [proc[p] EXCEPT !.pc = pc]
<1>2. /\ new \in ProcStates /\ new.pc = pc /\ new.own = proc[p].own /\ new.org = proc[p].org
      /\ new.op = proc[p].op /\ new.refs = proc[p].refs
  BY <1>1, Searching, ZenonT(40) DEF ProcStates, Pcs
<1>3. Go(p, new) /\ Ref(p) = Head(new.refs)
  BY <1>1, <1>2 DEF Ref
<1>4. /\ proc[p].org \in DOMAIN Seen(p) /\ proc[p].org # None /\ Ref(p).gid # None
      /\ Seen(p)[proc[p].org] = Current(p)
  BY <1>1, FoundRow, NoneAssumption DEF Current
<1>5. ASSUME proc[p].pc = "fill id" PROVE \E j \in DOMAIN Seen(p) : Seen(p)[j].gid = Ref(p).gid
  <2>1. PICK j \in DOMAIN Seen(p) \ {proc[p].org} : Alike(Wanted(p), Seen(p)[j])
    BY <1>1 DEF Clash
  <2>2. ~ Alike(Current(p), Seen(p)[j])
    BY <1>4, <2>1 DEF IInv, UniqueKeys
  <2>3. Wanted(p) = FilledId(Current(p), Ref(p).gid) /\ Current(p) \in Rows
    BY <1>5, FoundRow DEF Wanted
  <2>4. /\ Wanted(p).path = Current(p).path /\ Wanted(p).slug = Current(p).slug
        /\ Wanted(p).gid \in {Current(p).gid, Ref(p).gid}
    BY <2>3 DEF FilledId, Rows
  <2>5. Seen(p)[j].gid = Ref(p).gid
    BY <2>1, <2>2, <2>4 DEF Alike
  <2> QED
    BY <2>5
<1>6. proc[p].pc = "fill path" =>
          Ref(p).path # None /\ Seen(p)[proc[p].org].gid = Ref(p).gid /\ Ref(p).gid \notin Settled
  BY <1>4, FoundRow
<1>7. (pc = "lost id" => proc[p].pc = "fill id") /\ (pc = "lost path" => proc[p].pc = "fill path")
      /\ pc \in {"lost id", "lost path"}
  BY <1>1
<1> HIDE DEF new, pc
<1>8. /\ proc[p].refs # << >>
      /\ proc[p].op = "group" => DOMAIN proc[p].own = {}
      /\ IF proc[p].op = "login"
         THEN \A n \in DOMAIN proc[p].refs : proc[p].refs[n].gid = None /\ proc[p].refs[n].path # None
         ELSE Len(proc[p].refs) = 1 /\ Ref(p) \in now.events
  BY <1>1, Searching
<1>9. /\ new.refs # << >>
      /\ IF new.op = "login"
         THEN \A n \in DOMAIN new.refs : new.refs[n].gid = None /\ new.refs[n].path # None
         ELSE Len(new.refs) = 1 /\ Head(new.refs) \in now.events
      /\ new.op = "group" => DOMAIN proc[p].own = {}
      /\ new.org # None /\ new.org \in DOMAIN Seen(p)
      /\ new.pc \in {"lost id", "lost path"}
      /\ new.pc = "lost id" => \E i \in DOMAIN Seen(p) : Seen(p)[i].gid = Ref(p).gid
      /\ new.pc = "lost path" => /\ Ref(p).path # None /\ Seen(p)[new.org].gid = Ref(p).gid
                                 /\ Ref(p).gid \notin Settled
  BY <1>2, <1>3, <1>4, <1>5, <1>6, <1>7, <1>8
<1> QED
  BY <1>1, <1>2, <1>3, <1>4, <1>9, MoveStep

\* The row that has the id, or the path, or else the row that was to get it, is
\* one for the group p asks for.
LEMMA TakeOwnerStep ==
    ASSUME IInv, NEW p \in Procs, TakeOwner(p)
    PROVE  IInv'
<1>1. /\ proc[p].pc \in {"lost id", "lost path"} /\ UNCHANGED orgs
      /\ Ref(p).gid # None /\ proc[p].org # None /\ proc[p].org \in DOMAIN Seen(p)
  BY DEF TakeOwner, IInv, StandsAt
<1>2. CASE proc[p].pc = "lost id"
  <2>1. \E i \in DOMAIN Seen(p) : Seen(p)[i].gid = Ref(p).gid
    BY <1>2 DEF IInv, StandsAt
  <2>2. PICK i \in DOMAIN Seen(p) : Seen(p)[i].gid = Ref(p).gid /\ Go(p, Resolved(p, i))
    BY <1>2, <2>1 DEF TakeOwner
  <2>3. i \in Ids /\ IsFor(p, Seen(p)[i])
    BY <1>1, <2>2, Searching DEF IsFor
  <2> QED
    BY <1>1, <2>2, <2>3, FoundStep
<1>3. CASE proc[p].pc = "lost path"
  <2>1. /\ Ref(p).path # None /\ Ref(p).gid \notin Settled
        /\ Seen(p)[proc[p].org].gid = Ref(p).gid
    BY <1>3 DEF IInv, StandsAt, Current
  <2>2. ASSUME NEW i \in DOMAIN Seen(p), Seen(p)[i].path = Ref(p).path, Go(p, Resolved(p, i))
        PROVE  IInv'
    <3>1. i \in Ids /\ IsFor(p, Seen(p)[i])
      BY <1>1, <2>1, <2>2, Searching, PathFound DEF IsFor
    <3> QED
      BY <1>1, <2>2, <3>1, FoundStep
  <2>3. ASSUME Go(p, Resolved(p, proc[p].org)) PROVE IInv'
    <3>1. proc[p].org \in Ids /\ IsFor(p, Seen(p)[proc[p].org])
      BY <1>1, <2>1, Searching DEF IsFor
    <3> QED
      BY <1>1, <2>3, <3>1, FoundStep
  <2> QED
    BY <1>3, <2>2, <2>3 DEF TakeOwner
<1> QED
  BY <1>1, <1>2, <1>3

LEMMA SyncStep ==
    ASSUME IInv, NEW p \in Procs, Sync(p)
    PROVE  IInv'
<1>1. /\ proc[p].pc = "sync"
      /\ Blockers(p) = {} /\ ~ Clash(Seen(p), proc[p].org, Wanted(p))
      /\ Save(p, proc[p].org, Wanted(p), Resolved(p, proc[p].org))
  BY DEF Sync
<1> DEFINE row == Current(p)
<1>2. /\ row \in Rows /\ RowOK(row) /\ Ref(p) \in Refs /\ IsFor(p, row)
      /\ Ref(p).gid # None /\ Ref(p).path # None => Ref(p).path \in PathsOf(Ref(p).gid)
  BY <1>1, FoundRow
<1>3. Wanted(p) = IF Ref(p).path = None THEN row ELSE [row EXCEPT !.path = Ref(p).path]
  BY <1>1 DEF Wanted
<1> HIDE DEF row
<1>4. CASE Ref(p).path = None
  <2>1. Wanted(p) = row
    BY <1>3, <1>4
  <2> QED
    BY <1>1, <1>2, <2>1, RowWriteStep, FollowsItself DEF row
<1>5. CASE Ref(p).path # None
  <2>1. /\ Wanted(p) \in Rows /\ Wanted(p).gid = row.gid /\ Wanted(p).path = Ref(p).path
    BY <1>2, <1>3, <1>5 DEF Rows, Refs
  <2>2. IF row.gid = None THEN row.path = Ref(p).path ELSE Ref(p).path \in PathsOf(row.gid)
    BY <1>2, <1>5 DEF IsFor, IsNear
  <2>3. RowOK(Wanted(p)) /\ Follows(row, Wanted(p)) /\ IsFor(p, Wanted(p))
    BY <1>2, <1>5, <2>1, <2>2 DEF RowOK, Follows, IsFor, IsNear
  <2> QED
    BY <1>1, <2>1, <2>3, RowWriteStep DEF row
<1> QED
  BY <1>4, <1>5

LEMMA FunIsSeq ==
    ASSUME NEW S, NEW n \in Nat, NEW f \in [1 .. n -> S]
    PROVE  f \in Seq(S) /\ Len(f) = n
BY SeqDef, LenProperties

\* A login that has yet to lock some rows, or begins to search.
LEMMA LockingStep ==
    ASSUME IInv, NEW p \in Procs, NEW q \in ProcStates, NEW todo \in Seq(Ids),
           Go(p, Locking(q, todo)), UNCHANGED orgs,
           q.own = proc[p].own, DOMAIN proc[p].own = {}, q.op = "login", q.org = None,
           q.refs # << >>,
           \A n \in DOMAIN q.refs : q.refs[n].gid = None /\ q.refs[n].path # None,
           Ascending(todo),
           todo # << >> => \A i \in q.held : i < todo[1]
    PROVE  IInv'
<1>1. CASE todo = << >>
  <2> DEFINE new == [q EXCEPT !.todo = todo, !.pc = Search(q.refs[1])]
  <2>1. Search(q.refs[1]) = "by path"
    <3>1. 1 \in DOMAIN q.refs
      BY DEF ProcStates
    <3> QED
      BY <3>1 DEF Search
  <2>2. /\ new \in ProcStates /\ new.pc = "by path" /\ new.own = proc[p].own /\ new.org = None
        /\ new.op = "login" /\ new.refs = q.refs
    BY <2>1 DEF ProcStates, Pcs
  <2>3. Go(p, new)
    BY <1>1 DEF Locking
  <2> HIDE DEF new
  <2> QED
    BY <2>2, <2>3, MoveStep
<1>2. CASE todo # << >>
  <2> DEFINE new == [q EXCEPT !.todo = todo, !.pc = "lock"]
  <2>1. /\ new \in ProcStates /\ new.pc = "lock" /\ new.own = proc[p].own /\ new.org = None
        /\ new.op = "login" /\ new.refs = q.refs /\ new.todo = todo /\ new.held = q.held
    BY DEF ProcStates, Pcs
  <2>2. Go(p, new)
    BY <1>2 DEF Locking
  <2> HIDE DEF new
  <2>3. proc'[p] = new
    BY <2>1, <2>2, GoTypes DEF IInv
  <2>4. AsksFor(p)' /\ StandsAt(p)'
    BY <2>1, <2>3 DEF AsksFor, StandsAt
  <2>5. LocksUpwards(p)'
    BY <1>2, <2>1, <2>3 DEF LocksUpwards
  <2> QED
    BY <2>1, <2>2, <2>4, <2>5, LocalStep
<1> QED
  BY <1>1, <1>2

LEMMA StartLoginStep ==
    ASSUME IInv, NEW p \in Procs, NEW claim \in now.claims, NEW mine \in SUBSET DOMAIN orgs,
           StartLogin(p, claim, mine)
    PROVE  IInv'
<1>1. PICK s \in SetToSeqs(mine) :
          /\ Ascending(s)
          /\ Go(p, Locking([Idle EXCEPT !.op = "login", !.refs = ClaimRefs(claim)], s))
  BY DEF StartLogin
<1> DEFINE q == [Idle EXCEPT !.op = "login", !.refs = ClaimRefs(claim)]
<1>2. TypeOK /\ proc[p].pc = "idle" /\ UNCHANGED orgs /\ DOMAIN orgs \subseteq Ids
  BY SeenRows, TableIs DEF StartLogin, IInv
<1>3. s \in Seq(Ids)
  <2>1. Cardinality(mine) \in Nat
    BY <1>2, IdsAssumption, FS_Subset, FS_CardinalityType
  <2>2. s \in [1 .. Cardinality(mine) -> mine]
    BY DEF SetToSeqs
  <2>3. s \in Seq(mine)
    BY <2>1, <2>2, FunIsSeq
  <2> QED
    BY <1>2, <2>3
<1>4. claim \in Seq(Paths) /\ claim # << >>
  BY <1>2, SettingsAssumption DEF TypeOK
<1>5. /\ ClaimRefs(claim) \in Seq(Refs) /\ ClaimRefs(claim) # << >>
      /\ \A n \in DOMAIN ClaimRefs(claim) :
            ClaimRefs(claim)[n].gid = None /\ ClaimRefs(claim)[n].path # None
  <2> DEFINE f == ClaimRefs(claim)
  <2>1. DOMAIN f = 1 .. Len(claim) /\ Len(claim) \in Nat /\ Len(claim) # 0
    BY <1>4 DEF ClaimRefs
  <2>2. \A n \in DOMAIN f : /\ f[n] = [gid |-> None, path |-> claim[n]]
                            /\ claim[n] \in Paths
    BY <1>4 DEF ClaimRefs
  <2>3. \A n \in DOMAIN f : f[n] \in Refs /\ f[n].gid = None /\ f[n].path # None
    BY <2>2, NoneAssumption DEF Refs
  <2>4. f \in [1 .. Len(claim) -> Refs]
    BY <2>1, <2>3 DEF ClaimRefs
  <2>5. f \in Seq(Refs) /\ Len(f) = Len(claim)
    BY <2>1, <2>4, FunIsSeq
  <2> HIDE DEF f
  <2>6. f # << >>
    BY <2>1, <2>5
  <2> QED
    BY <2>3, <2>5, <2>6 DEF f
<1>6. /\ q \in ProcStates /\ q.own = << >> /\ q.op = "login" /\ q.org = None
      /\ q.refs = ClaimRefs(claim) /\ q.held = {}
  <2> DEFINE f == ClaimRefs(claim)
  <2>1. f \in Seq(Refs)
    BY <1>5
  <2> HIDE DEF f
  <2>2. [Idle EXCEPT !.op = "login", !.refs = f] \in ProcStates
    BY <2>1, IdleOK DEF ProcStates
  <2>3. /\ [Idle EXCEPT !.op = "login", !.refs = f].own = << >>
        /\ [Idle EXCEPT !.op = "login", !.refs = f].op = "login"
        /\ [Idle EXCEPT !.op = "login", !.refs = f].org = None
        /\ [Idle EXCEPT !.op = "login", !.refs = f].refs = f
        /\ [Idle EXCEPT !.op = "login", !.refs = f].held = {}
    BY IdleOK DEF ProcStates
  <2> QED
    BY <2>2, <2>3 DEF f
<1>7. proc[p].own = << >> /\ DOMAIN proc[p].own = {}
  BY <1>2, IdleOK, NoRows DEF IInv, StandsAt
<1>8. Go(p, Locking(q, s))
  BY <1>1
<1> HIDE DEF q
<1> QED
  BY <1>1, <1>2, <1>3, <1>5, <1>6, <1>7, <1>8, LockingStep

LEMMA LockOrgStep ==
    ASSUME IInv, NEW p \in Procs, LockOrg(p)
    PROVE  IInv'
<1> DEFINE todo == proc[p].todo
           q    == [proc[p] EXCEPT !.held = @ \cup {todo[1]}]
<1>1. /\ proc[p].pc = "lock" /\ Go(p, Locking(q, Tail(todo))) /\ UNCHANGED orgs
      /\ proc[p] \in ProcStates /\ proc[p].op = "login" /\ proc[p].org = None
      /\ DOMAIN proc[p].own = {} /\ todo # << >> /\ Ascending(todo) /\ todo \in Seq(Ids)
      /\ \A i \in proc[p].held : i < todo[1]
  BY SeenRows DEF LockOrg, IInv, StandsAt, LocksUpwards, ProcStates
<1> HIDE DEF todo
<1>2. /\ todo[1] \in Ids /\ Tail(todo) \in Seq(Ids) /\ Len(todo) \in Nat
      /\ DOMAIN todo = 1 .. Len(todo) /\ Len(Tail(todo)) = Len(todo) - 1
      /\ DOMAIN Tail(todo) = 1 .. Len(todo) - 1
      /\ \A n \in 1 .. Len(todo) - 1 : Tail(todo)[n] = todo[n + 1]
  BY <1>1, HeadTailProperties, LenProperties, ElementOfSeq, EmptySeq
<1>3. /\ q \in ProcStates /\ q.own = proc[p].own /\ q.op = "login" /\ q.org = None
      /\ q.refs = proc[p].refs /\ q.held = proc[p].held \cup {todo[1]}
  BY <1>1, <1>2 DEF ProcStates
<1>4. Ascending(Tail(todo))
  BY <1>1, <1>2 DEF Ascending
<1>5. ASSUME Tail(todo) # << >> PROVE \A i \in q.held : i < Tail(todo)[1]
  <2> TAKE i \in q.held
  <2>0. Len(Tail(todo)) \in Nat \ {0}
    BY <1>2, <1>5, EmptySeq
  <2>1. 1 \in 1 .. Len(todo) - 1
    BY <1>2, <2>0
  <2>2. Tail(todo)[1] = todo[2] /\ todo[1] < todo[2] /\ todo[2] \in Ids
    BY <1>1, <1>2, <2>1, ElementOfSeq DEF Ascending
  <2>3. q.held \subseteq Ids
    BY <1>3 DEF ProcStates
  <2>4. i \in Nat /\ todo[1] \in Nat /\ todo[2] \in Nat
    BY <1>2, <1>5, <2>2, <2>3, IdsAssumption
  <2>5. i < todo[1] \/ i = todo[1]
    BY <1>1, <1>3, <1>5
  <2>6. i < todo[2]
    BY <2>2, <2>4, <2>5
  <2> QED
    BY <2>2, <2>6
<1>6. /\ q.refs # << >> /\ Go(p, Locking(q, Tail(todo)))
      /\ \A n \in DOMAIN q.refs : q.refs[n].gid = None /\ q.refs[n].path # None
  BY <1>1, <1>3, Searching, ZenonT(40) DEF q
<1> HIDE DEF q
<1> QED
  BY <1>1, <1>2, <1>3, <1>4, <1>5, <1>6, LockingStep

LEMMA OneRef ==
    ASSUME NEW ref \in Refs
    PROVE  <<ref>> \in Seq(Refs) /\ <<ref>> # << >> /\ Len(<<ref>>) = 1 /\ Head(<<ref>>) = ref
<1>1. <<ref>> \in Seq(Refs) /\ Len(<<ref>>) = 1 /\ Head(<<ref>>) = ref
  OBVIOUS
<1>2. <<ref>> # << >>
  OBVIOUS
<1> QED
  BY <1>1, <1>2

LEMMA StartStep ==
    ASSUME IInv, NEW p \in Procs, NEW op \in {"group", "join", "leave"}, NEW ref \in now.events,
           Start(p, op, <<ref>>)
    PROVE  IInv'
<1> DEFINE new == [Idle EXCEPT !.pc = Search(ref), !.op = op, !.refs = <<ref>>]
<1>1. /\ TypeOK /\ proc[p].pc = "idle" /\ UNCHANGED orgs
      /\ proc[p].own = << >> /\ DOMAIN proc[p].own = {}
  BY IdleOK, NoRows DEF Start, IInv, StandsAt
<1>2. ref \in Refs /\ ref.gid # None /\ Search(ref) = "by id"
  BY <1>1, EventIs DEF Search
<1>3. <<ref>> \in Seq(Refs) /\ <<ref>> # << >> /\ Len(<<ref>>) = 1 /\ Head(<<ref>>) = ref
  BY <1>2, OneRef
<1>4. /\ new \in ProcStates /\ new.pc = "by id" /\ new.own = << >> /\ new.org = None
      /\ new.op = op /\ new.refs = <<ref>>
  <2> DEFINE f == <<ref>>
  <2>1. f \in Seq(Refs)
    BY <1>3
  <2> HIDE DEF f
  <2>2. [Idle EXCEPT !.pc = "by id", !.op = op, !.refs = f] \in ProcStates
    BY <2>1, IdleOK DEF ProcStates, Pcs
  <2>3. /\ [Idle EXCEPT !.pc = "by id", !.op = op, !.refs = f].pc = "by id"
        /\ [Idle EXCEPT !.pc = "by id", !.op = op, !.refs = f].own = << >>
        /\ [Idle EXCEPT !.pc = "by id", !.op = op, !.refs = f].org = None
        /\ [Idle EXCEPT !.pc = "by id", !.op = op, !.refs = f].op = op
        /\ [Idle EXCEPT !.pc = "by id", !.op = op, !.refs = f].refs = f
    BY IdleOK DEF ProcStates
  <2> QED
    BY <1>2, <2>2, <2>3 DEF f
<1>5. Go(p, new)
  BY <1>3 DEF Start
<1> HIDE DEF new
<1> QED
  BY <1>1, <1>2, <1>3, <1>4, <1>5, MoveStep

LEMMA NextRefStep ==
    ASSUME IInv, NEW p \in Procs, NextRef(p)
    PROVE  IInv'
<1> DEFINE refs == proc[p].refs
           new  == [proc[p] EXCEPT !.pc = Search(refs[2]), !.refs = Tail(@), !.org = None,
                                   !.tries = 0, !.joined = Joined(p)]
<1>1. /\ proc[p].pc = "end" /\ UNCHANGED orgs /\ Go(p, new) /\ Len(refs) # 1
      /\ proc[p] \in ProcStates /\ refs \in Seq(Refs) /\ refs # << >>
      /\ proc[p].org \in Ids \cup {None}
  BY Searching DEF NextRef, Done, ProcStates
<1>2. /\ proc[p].op = "login"
      /\ \A n \in DOMAIN refs : refs[n].gid = None /\ refs[n].path # None
  BY <1>1, Searching
<1> HIDE DEF refs
<1>3. /\ Tail(refs) \in Seq(Refs) /\ Len(refs) \in Nat /\ DOMAIN refs = 1 .. Len(refs)
      /\ 2 \in DOMAIN refs
      /\ Len(Tail(refs)) = Len(refs) - 1 /\ DOMAIN Tail(refs) = 1 .. Len(refs) - 1
      /\ \A n \in 1 .. Len(refs) - 1 : Tail(refs)[n] = refs[n + 1]
  <2>1. /\ Len(refs) \in Nat \ {0} /\ DOMAIN refs = 1 .. Len(refs)
    BY <1>1, EmptySeq, LenProperties
  <2>2. 2 \in DOMAIN refs
    BY <1>1, <2>1
  <2>3. /\ Tail(refs) \in Seq(Refs) /\ Len(Tail(refs)) = Len(refs) - 1
        /\ \A n \in 1 .. Len(Tail(refs)) : Tail(refs)[n] = refs[n + 1]
    BY <1>1, HeadTailProperties
  <2>4. DOMAIN Tail(refs) = 1 .. Len(Tail(refs))
    BY <2>3, LenProperties
  <2> QED
    BY <2>1, <2>2, <2>3, <2>4
<1>4. Search(refs[2]) = "by path"
  BY <1>2, <1>3 DEF Search
<1>5. Joined(p) \in SUBSET Ids
  BY <1>1, <1>2 DEF Joined, ProcStates
<1>6. 0 \in 0 .. MaxSlugs
  BY SlugAssumption
<1>7. /\ new \in ProcStates /\ new.pc = "by path" /\ new.own = proc[p].own /\ new.org = None
      /\ new.op = "login" /\ new.refs = Tail(refs)
  <2> DEFINE j == Joined(p)
  <2>1. j \in SUBSET Ids
    BY <1>5
  <2> HIDE DEF j
  <2> QED
    BY <1>1, <1>2, <1>3, <1>4, <1>6, <2>1 DEF ProcStates, Pcs, refs, j
<1>8. Tail(refs) # << >>
  <2>1. Len(refs) - 1 # 0
    BY <1>1, <1>3
  <2>2. Len(<< >>) = 0
    BY EmptySeq
  <2> QED
    BY <1>3, <2>1, <2>2
<1>9. \A n \in DOMAIN Tail(refs) : Tail(refs)[n].gid = None /\ Tail(refs)[n].path # None
  BY <1>2, <1>3
<1> HIDE DEF new
<1> QED
  BY <1>1, <1>7, <1>8, <1>9, MoveStep

-----------------------------------------------------------------------------
(* The inductive invariant.                                                 *)

LEMMA InitIInv ==
    ASSUME Init
    PROVE  IInv
<1>1. /\ DOMAIN orgs = DOMAIN Local /\ orgs = [i \in DOMAIN orgs |-> orgs[i]]
      /\ \A i \in DOMAIN orgs : orgs[i] = [gid |-> None, path |-> None, slug |-> Local[i]]
  BY DEF Init
<1>2. \A i \in DOMAIN orgs : orgs[i] \in Rows
  BY <1>1 DEF Rows, Slugs
<1>3. orgs \in Tables
  BY <1>1, <1>2, TableIs, LocalAssumption
<1>4. proc \in [Procs -> ProcStates] /\ now \in Settings
  BY IdleOK DEF Init
<1>5. TypeOK
  BY <1>3, <1>4 DEF TypeOK, ProcStates
<1>6. \A p \in Procs : proc[p] = Idle /\ DOMAIN proc[p].own = {}
  BY IdleOK, NoRows DEF Init
<1>7. \A i, j \in DOMAIN orgs : i # j => ~ Alike(orgs[i], orgs[j])
  BY <1>1, LocalAssumption DEF Alike, IsInjective
<1>8. \A p \in Procs : /\ DOMAIN Seen(p) = DOMAIN orgs
                       /\ \A i \in DOMAIN orgs : Seen(p)[i] = orgs[i]
  BY <1>6, SeenIs
<1>9. UniqueKeys
  BY <1>6, <1>7, <1>8 DEF UniqueKeys
<1>10. RowsFollow
  BY <1>1, <1>6 DEF RowsFollow, RowOK
<1>11. ASSUME NEW p \in Procs PROVE AsksFor(p) /\ StandsAt(p) /\ LocksUpwards(p)
  <2>1. proc[p].pc = "idle" /\ proc[p].org = None /\ proc[p].op = "none"
    BY <1>6, IdleOK
  <2> QED
    BY <1>6, <2>1 DEF AsksFor, StandsAt, LocksUpwards
<1> QED
  BY <1>5, <1>9, <1>10, <1>11 DEF IInv

LEMMA StutterStep ==
    ASSUME IInv, UNCHANGED vars
    PROVE  IInv'
<1>1. orgs' = orgs /\ proc' = proc /\ now' = now
  BY DEF vars
<1>2. \A p \in Procs : Seen(p)' = Seen(p) /\ Ref(p)' = Ref(p)
  BY <1>1 DEF Seen, Ref
<1>3. TypeOK' /\ UniqueKeys'
  BY <1>1, <1>2 DEF IInv, TypeOK, UniqueKeys
<1>4. /\ \A g : PathsOf(g)' = PathsOf(g)
      /\ Settled' = Settled
  BY <1>1 DEF PathsOf, Settled
<1>5. \A row : RowOK(row)' <=> RowOK(row)
  BY <1>4 DEF RowOK
<1>6. RowsFollow'
  BY <1>1, <1>4, <1>5 DEF IInv, RowsFollow, Follows, RowOK
<1>7. ASSUME NEW p \in Procs PROVE AsksFor(p)' /\ StandsAt(p)' /\ LocksUpwards(p)'
  BY <1>1, <1>2, <1>4 DEF IInv, AsksFor, StandsAt, LocksUpwards, Near, Current
<1> QED
  BY <1>3, <1>6, <1>7 DEF IInv

LEMMA StepIInv ==
    ASSUME IInv, [Next]_vars
    PROVE  IInv'
<1>1. CASE UNCHANGED vars
  BY <1>1, StutterStep
<1>2. ASSUME NEW p \in Procs, NEW op \in {"group", "join", "leave"}, NEW ref \in now.events,
             Start(p, op, <<ref>>)
      PROVE  IInv'
  BY <1>2, StartStep
<1>3. ASSUME NEW p \in Procs, NEW claim \in now.claims, NEW mine \in SUBSET DOMAIN orgs,
             StartLogin(p, claim, mine)
      PROVE  IInv'
  BY <1>3, StartLoginStep
<1>4. ASSUME NEW p \in Procs, Advance(p) PROVE IInv'
  <2>1. CASE LockOrg(p)
    BY <2>1, LockOrgStep
  <2>2. CASE FindById(p)
    BY <2>2, FindByIdStep
  <2>3. CASE FindByPath(p)
    BY <2>3, FindByPathStep
  <2>4. CASE Absent(p)
    BY <2>4, AbsentStep
  <2>5. CASE CreateOrg(p)
    BY <2>5, CreateOrgStep
  <2>6. CASE CreateConflict(p)
    BY <2>6, CreateConflictStep
  <2>7. CASE Backfill(p)
    BY <2>7, BackfillStep
  <2>8. CASE BackfillConflict(p)
    BY <2>8, BackfillConflictStep
  <2>13. CASE TakeOwner(p)
    BY <2>13, TakeOwnerStep
  <2>9. CASE Sync(p)
    BY <2>9, SyncStep
  <2>10. CASE SyncFails(p)
    BY <2>10, SyncFailsStep
  <2>11. CASE NextRef(p)
    BY <2>11, NextRefStep
  <2>12. CASE Commit(p)
    BY <2>12, CommitStep
  <2> QED
    BY <1>4, <2>1, <2>2, <2>3, <2>4, <2>5, <2>6, <2>7, <2>8, <2>9, <2>10, <2>11, <2>12,
       <2>13 DEF Advance
<1>5. ASSUME NEW p \in Procs, Rollback(p) PROVE IInv'
  BY <1>5, RollbackStep
<1>6. \A s \in IF now.members THEN SUBSET DOMAIN orgs ELSE {{}} : s \in SUBSET DOMAIN orgs
  OBVIOUS
<1> QED
  BY <1>1, <1>2, <1>3, <1>4, <1>5, <1>6 DEF Next

\* The invariant that carries every other proof here: of Organization rows, one
\* per key in what any process sees, and no two processes with open writes that
\* clash; every process where its request took it.
THEOREM InductiveInvariant == Spec => []IInv
<1>1. Init => IInv
  BY InitIInv
<1>2. IInv /\ [Next]_vars => IInv'
  BY StepIInv
<1> QED
  BY <1>1, <1>2, PTL DEF Spec

-----------------------------------------------------------------------------
(* What follows from it.                                                    *)

LEMMA SettledPath ==
    ASSUME TypeOK, NEW g \in Settled
    PROVE  \E path \in Paths : PathsOf(g) = {path}
<1>1. PICK path \in Paths : {e.path : e \in {f \in now.events : f.gid = g}} = {path}
  BY DEF Settled
<1>2. PathsOf(g) = {path}
  BY <1>1, NoneAssumption DEF PathsOf
<1> QED
  BY <1>2

LEMMA AtMostOne ==
    ASSUME NEW S, \A i, j \in S : i = j
    PROVE  Cardinality(S) <= 1
<1>1. CASE S = {}
  BY <1>1, FS_EmptySet
<1>2. CASE S # {}
  <2>1. PICK x \in S : TRUE
    BY <1>2
  <2>2. S = {x}
    BY <2>1
  <2> QED
    BY <2>2, FS_Singleton
<1> QED
  BY <1>1, <1>2

LEMMA OneOrg ==
    ASSUME IInv
    PROVE  OneOrgPerGroup
<1>0. TypeOK /\ UniqueKeys /\ RowsFollow
  BY DEF IInv
<1>1. ASSUME NEW g \in Settled
      PROVE  Cardinality({i \in DOMAIN orgs : orgs[i].gid = g \/ orgs[i].path \in PathsOf(g)}) <= 1
  <2> DEFINE S == {i \in DOMAIN orgs : orgs[i].gid = g \/ orgs[i].path \in PathsOf(g)}
  <2>1. PICK path \in Paths : PathsOf(g) = {path}
    BY <1>0, SettledPath
  <2>2. g # None /\ path # None
    BY <2>1, NoneAssumption DEF Settled
  <2>3. ASSUME NEW i \in S PROVE orgs[i].path = path
    BY <1>0, <2>1, <2>2, <2>3 DEF RowsFollow, RowOK
  <2>4. ASSUME NEW i \in S, NEW j \in S PROVE i = j
    <3>1. orgs[i].path = path /\ orgs[j].path = path
      BY <2>3
    <3> QED
      BY <1>0, <2>2, <3>1 DEF UniqueKeys, Alike
  <2> HIDE DEF S
  <2>5. Cardinality(S) <= 1
    BY <2>4, AtMostOne
  <2> QED
    BY <2>5 DEF S
<1>2. \A i \in DOMAIN orgs :
         orgs[i].gid # None /\ orgs[i].path # None => orgs[i].path \in PathsOf(orgs[i].gid)
  BY <1>0 DEF RowsFollow, RowOK
<1> QED
  BY <1>1, <1>2 DEF OneOrgPerGroup

LEMMA IsAnchored ==
    ASSUME IInv
    PROVE  Anchored
<1> SUFFICES ASSUME NEW p \in Procs, proc[p].pc \in {"sync", "end"}, proc[p].org # None
             PROVE  /\ Current(p).gid = None =>
                          /\ Ref(p).path # None /\ Current(p).path = Ref(p).path
                          /\ Ref(p).gid \notin Settled
                    /\ Current(p).gid \notin {None, Ref(p).gid} =>
                          Ref(p).path \in PathsOf(Current(p).gid)
  BY DEF Anchored
<1>1. \/ Near(p) /\ (Current(p).gid = None => Ref(p).gid \notin Settled)
      \/ Ref(p).gid # None /\ Current(p).gid = Ref(p).gid
  BY DEF IInv, StandsAt
<1> QED
  BY <1>1 DEF Near

\* Of the numbers of a finite set, one is the largest.
LEMMA Largest ==
    ASSUME NEW T, T \subseteq Nat, IsFiniteSet(T), T # {}
    PROVE  \E x \in T : \A y \in T : ~ (x < y)
<1> DEFINE Above(x) == {y \in T : x < y}
           W == {Above(x) : x \in T}
           R == StrictSubsetOrdering(T)
           F == FiniteSubsetsOf(T)
<1>1. W \subseteq F
  <2>1. W \subseteq SUBSET T
    OBVIOUS
  <2> QED
    BY <2>1, FS_FiniteSubsetsOfFinite
<1>2. W # {}
  OBVIOUS
<1>3. IsWellFoundedOn(R, F)
  BY FS_StrictSubsetOrderingWellFounded
<1> HIDE DEF R, F, W
<1>4. PICK w \in W : \A v \in W : <<v, w>> \notin R
  BY <1>1, <1>2, <1>3, WFMin
<1>5. PICK x \in T : w = Above(x)
  BY <1>4 DEF W
<1>6. ASSUME NEW y \in T, x < y PROVE FALSE
  <2>0. (\A z \in T : y < z => x < z) /\ ~ (y < y)
    <3>1. x \in Nat /\ y \in Nat /\ \A z \in T : z \in Nat
      OBVIOUS
    <3> QED
      BY <1>6, <3>1
  <2>1. Above(y) \subseteq Above(x) /\ y \in Above(x) /\ y \notin Above(y)
    BY <1>6, <2>0, Zenon
  <2>2. <<Above(y), w>> \in R
    <3>1. w \in SUBSET T /\ Above(y) \in SUBSET T
      BY <1>5
    <3> QED
      BY <1>5, <2>1, <3>1 DEF R, StrictSubsetOrdering
  <2>3. Above(y) \in W
    BY DEF W
  <2> QED
    BY <1>4, <2>2, <2>3
<1> QED
  BY <1>6

LEMMA OrderedLocks ==
    ASSUME IInv
    PROVE  LocksInOrder
<1> SUFFICES ASSUME NEW D \in SUBSET {p \in Procs : proc[p].pc = "lock"}, D # {}
             PROVE  \E p \in D : Blockers(p) \cap D = {}
  BY DEF LocksInOrder
<1> DEFINE First(p) == proc[p].todo[1]
           T == {First(p) : p \in D}
<1>1. ASSUME NEW p \in D
      PROVE  /\ proc[p].pc = "lock" /\ p \in Procs /\ First(p) \in Ids
             /\ DOMAIN proc[p].own = {} /\ \A i \in proc[p].held : i < First(p)
  <2>1. /\ proc[p].pc = "lock" /\ p \in Procs /\ DOMAIN proc[p].own = {}
        /\ proc[p].todo # << >> /\ \A i \in proc[p].held : i < First(p)
    BY DEF IInv, LocksUpwards
  <2>2. proc[p].todo \in Seq(Ids)
    BY <2>1, SeenRows DEF IInv, ProcStates
  <2>3. Len(proc[p].todo) \in Nat \ {0}
    BY <2>1, <2>2, EmptySeq
  <2>4. 1 \in 1 .. Len(proc[p].todo)
    BY <2>3
  <2>5. First(p) \in Ids
    BY <2>2, <2>4, ElementOfSeq
  <2> QED
    BY <2>1, <2>5
<1> HIDE DEF First
<1>2. T \subseteq Ids /\ T # {}
  BY <1>1
<1>3. IsFiniteSet(T) /\ T \subseteq Nat
  BY <1>2, FS_Subset, IdsAssumption
<1> HIDE DEF T
<1>4. PICK x \in T : \A y \in T : ~ (x < y)
  BY <1>2, <1>3, Largest
<1>5. PICK p \in D : x = First(p)
  BY <1>4 DEF T
<1>6. ASSUME NEW q \in D, q \in Blockers(p) PROVE FALSE
  <2>1. Asked(p) = {First(p)}
    BY <1>1 DEF Asked, First, Done, Writing
  <2>2. ~ Writing(p)
    BY <1>1 DEF Writing
  <2>3. First(p) \in Holds(q)
    BY <1>6, <2>1, <2>2 DEF Blockers
  <2>4. First(p) < First(q)
    BY <1>1, <2>3 DEF Holds
  <2>5. First(q) \in T
    BY DEF T
  <2> QED
    BY <1>4, <1>5, <2>4, <2>5
<1> QED
  BY <1>6

LEMMA WantedKeepsId ==
    ASSUME NEW p \in Procs, proc[p].pc \in {"fill id", "fill path", "sync"},
           Current(p) \in Rows, Current(p).gid # None
    PROVE  Wanted(p).gid = Current(p).gid
<1>1. CASE proc[p].pc = "fill id"
  BY <1>1 DEF Wanted, FilledId
<1>2. CASE proc[p].pc = "fill path"
  BY <1>2 DEF Wanted, FilledPath, Rows
<1>3. CASE proc[p].pc = "sync"
  BY <1>3 DEF Wanted, Rows
<1> QED
  BY <1>1, <1>2, <1>3

\* Writing the row of a process keeps the id the row has committed.
LEMMA WriteKeepsId ==
    ASSUME IInv, NEW p \in Procs, proc[p].pc \in {"fill id", "fill path", "sync"},
           Save(p, proc[p].org, Wanted(p), Resolved(p, proc[p].org)),
           NEW i \in DOMAIN orgs, orgs[i].gid # None
    PROVE  orgs'[i].gid = orgs[i].gid
<1>1. TypeOK /\ proc[p].pc # "idle"
  BY DEF IInv
<1>2. CASE proc[p].op # "group"
  BY <1>2 DEF Save
<1>3. CASE proc[p].op = "group"
  <2>1. orgs' = With(orgs, proc[p].org, Wanted(p)) /\ DOMAIN proc[p].own = {}
    BY <1>1, <1>3, Searching DEF Save
  <2>2. CASE i = proc[p].org
    <3>1. Current(p) = orgs[i]
      BY <2>1, <2>2, SeenIs DEF Current
    <3>2. orgs'[i] = Wanted(p)
      BY <2>1, <2>2 DEF With
    <3>3. Current(p) \in Rows
      BY FoundRow
    <3> QED
      BY <3>1, <3>2, <3>3, WantedKeepsId
  <2>3. CASE i # proc[p].org
    BY <2>1, <2>3 DEF With
  <2> QED
    BY <2>2, <2>3
<1> QED
  BY <1>2, <1>3

\* A group id stays through every step.
LEMMA IdStep ==
    ASSUME IInv, [Next]_vars, NEW i \in DOMAIN orgs, orgs[i].gid # None
    PROVE  orgs'[i].gid = orgs[i].gid
<1>1. CASE UNCHANGED orgs
  BY <1>1
<1>2. ASSUME NEW p \in Procs, CreateOrg(p)
      PROVE  orgs'[i].gid = orgs[i].gid
  <2>1. PICK j \in FreeIds : Save(p, j, Wanted(p), Resolved(p, j))
    BY <1>2 DEF CreateOrg
  <2>2. i # j
    BY <2>1 DEF FreeIds
  <2>3. orgs' = orgs \/ orgs' = With(orgs, j, Wanted(p))
    BY <2>1 DEF Save
  <2> QED
    BY <2>2, <2>3 DEF With
<1>3. ASSUME NEW p \in Procs, Backfill(p) \/ Sync(p)
      PROVE  orgs'[i].gid = orgs[i].gid
  BY <1>3, WriteKeepsId DEF Backfill, Sync
<1>4. ASSUME NEW p \in Procs, Commit(p)
      PROVE  orgs'[i].gid = orgs[i].gid
  <2>1. orgs' = Seen(p)
    BY <1>4 DEF Commit
  <2>2. CASE i \in DOMAIN proc[p].own
    <3>1. Follows(orgs[i], proc[p].own[i])
      BY <2>2 DEF IInv, RowsFollow
    <3> QED
      BY <2>1, <2>2, <3>1, SeenIs DEF Follows
  <2>3. CASE i \notin DOMAIN proc[p].own
    BY <2>1, <2>3, SeenIs
  <2> QED
    BY <2>2, <2>3
<1>5. ASSUME NEW p \in Procs, Advance(p)
      PROVE  UNCHANGED orgs \/ CreateOrg(p) \/ Backfill(p) \/ Sync(p) \/ Commit(p)
  BY <1>5 DEF Advance, LockOrg, FindById, FindByPath, Absent, CreateConflict, BackfillConflict,
              TakeOwner, SyncFails, NextRef
<1>6. CASE Next
  <2>1. PICK p \in Procs :
           \/ \E op \in {"group", "join", "leave"}, ref \in now.events : Start(p, op, <<ref>>)
           \/ \E claim \in now.claims, mine \in IF now.members THEN SUBSET DOMAIN orgs ELSE {{}} :
                  StartLogin(p, claim, mine)
           \/ Advance(p)
           \/ Rollback(p)
    BY <1>6 DEF Next
  <2>2. UNCHANGED orgs \/ Advance(p)
    BY <2>1 DEF Start, StartLogin, Rollback
  <2> QED
    BY <1>1, <1>2, <1>3, <1>4, <1>5, <2>2
<1> QED
  BY <1>1, <1>6 DEF vars

\* A group that stays at one path, which all its events carry, has one
\* organization, and no organization has another group's path, however events
\* and logins interleave (Organization.Meta).  A group whose first event has no
\* path may fork, and is not spoken of.
THEOREM OneOrganization == Spec => []OneOrgPerGroup
<1>1. IInv => OneOrgPerGroup
  BY OneOrg
<1> QED
  BY <1>1, InductiveInvariant, PTL

\* Whoever goes on with an organization that is not of the group he asked for got
\* it by the path he asked for: it is nobody's yet, or that of a group of which
\* some event had that path.
THEOREM FindsItsGroup == Spec => []Anchored
<1>1. IInv => Anchored
  BY IsAnchored
<1> QED
  BY <1>1, InductiveInvariant, PTL

\* Logins that lock what their users have wait in the order of the keys, so
\* among any of them one waits for none of the others (Membership.Meta).
THEOREM LoginsLockInOrder == Spec => []LocksInOrder
<1>1. IInv => LocksInOrder
  BY OrderedLocks
<1> QED
  BY <1>1, InductiveInvariant, PTL

\* A group id, once written, stays with its row, through backfills that race,
\* moves and commits (the recheck under the row lock).
THEOREM IdStays == Spec => IdSticks
<1>1. IInv /\ [Next]_vars =>
         [\A i \in DOMAIN orgs : orgs[i].gid # None => orgs'[i].gid = orgs[i].gid]_vars
  BY IdStep
<1> QED
  BY <1>1, InductiveInvariant, PTL DEF Spec, IdSticks
=============================================================================
