------------------------ MODULE TrailPartitionProofs ------------------------
(***************************************************************************)
(* Proofs about TrailPartition: for any tenants, sessions and maintenance  *)
(* processes, each committed row is in one place, archived rows precede    *)
(* live ones, and none is lost if a tenant does not commit while its own   *)
(* rows move.                                                              *)
(***************************************************************************)
EXTENDS TrailPartition, TrailLedgerProofs

-----------------------------------------------------------------------------
(* What a step does to the ledger.                                          *)

\* Every step is one of TrailLedger, or leaves the ledger alone.
LEMMA LedgerStep ==
    ASSUME [PartNext]_allVars
    PROVE  [Next]_vars
<1>1. ASSUME NEW t \in Txns, PartStep(t) \/ PartCommit(t) \/ \E o \in Orgs : PartBegin(t, o)
      PROVE  Next
  BY <1>1 DEF PartStep, PartCommit, PartBegin, Next, Step
<1>2. ASSUME NEW o \in Orgs, NEW signal \in BOOLEAN, CreateOrganization(o, signal)
      PROVE  UNCHANGED vars
  BY <1>2 DEF CreateOrganization
<1>3. ASSUME NEW o \in Orgs, RunHook(o) \/ LoseHook(o)
      PROVE  UNCHANGED vars
  BY <1>3 DEF RunHook, LoseHook
<1>4. ASSUME NEW k \in Jobs, Maintenance(k)
      PROVE  UNCHANGED vars
  <2>1. ASSUME NEW rehome \in BOOLEAN, EnsureStart(k, rehome) PROVE UNCHANGED vars
    BY <2>1 DEF EnsureStart, JobStep
  <2>2. ASSUME NEW o \in Orgs, NEW drop \in BOOLEAN, Archive(k, o, drop) PROVE UNCHANGED vars
    BY <2>2 DEF Archive
  <2>3. CASE RehomeCopy(k) \/ RehomeDelete(k) \/ RehomeFinish(k) \/ EnsureList(k)
    BY <2>3 DEF RehomeCopy, RehomeDelete, RehomeFinish, EnsureList, JobStep
  <2>4. CASE EnsureCreate(k) \/ EnsureDone(k) \/ JobFails(k) \/ JobAbort(k)
    BY <2>4 DEF EnsureCreate, EnsureDone, JobFails, JobAbort, JobStep
  <2>5. CASE ConvertList(k) \/ ConvertCopy(k) \/ ConvertSwap(k) \/ RevertCopy(k) \/ RevertSwap(k)
    BY <2>5 DEF ConvertList, ConvertCopy, ConvertSwap, RevertCopy, RevertSwap, JobStep
  <2> QED
    BY <1>4, <2>1, <2>2, <2>3, <2>4, <2>5 DEF Maintenance
<1> QED
  BY <1>1, <1>2, <1>3, <1>4 DEF PartNext, allVars

\* Who commits adds new rows of its own tenant, numbered after all of it.
LEMMA CommittedRows ==
    ASSUME LedgerInv, NEW t \in Txns, Commit(t)
    PROVE  /\ pc[t] # "idle" /\ entries' = entries \cup pend[t] /\ org[t] \in Orgs
           /\ \A e \in pend[t] : /\ e.org = org[t] /\ e \notin entries
                                 /\ \A f \in entries : f.org = e.org => f.seq < e.seq
<1>1. pc[t] = "appended" /\ entries' = entries \cup pend[t] /\ org[t] \in Orgs
  BY DEF Commit, LedgerInv, TypeOK
<1>2. OwnsLock(t)
  BY <1>1 DEF LedgerInv, LockInv, LockInvOf, Writing
<1>3. \A e \in pend[t] : e.org = org[t] /\ e.seq > head[org[t]].seq
  BY <1>2 DEF LedgerInv, PendInv, PendInvOf, InFlight
<1>4. \A f \in entries : f.org = org[t] => f.seq \in 1 .. head[org[t]].seq
  BY <1>1 DEF LedgerInv, ChainIntact, Chain, Dense, RowsOf
<1>5. head[org[t]].seq \in Nat /\ \A e \in pend[t] : e.seq \in Nat
  BY <1>1, MaxSeqAssumption DEF LedgerInv, TypeOK, RowsTyped
<1>6. ASSUME NEW e \in pend[t], NEW f \in entries, f.org = e.org
      PROVE  f.seq < e.seq
  <2>1. f.seq \in 1 .. head[org[t]].seq /\ e.seq > head[org[t]].seq
    BY <1>3, <1>4, <1>6
  <2> QED
    BY <1>5, <2>1
<1>7. ASSUME NEW e \in pend[t] PROVE e \notin entries
  <2>1. e \in entries => e.seq < e.seq
    BY <1>6
  <2> QED
    BY <1>5, <2>1
<1> QED
  BY <1>1, <1>3, <1>6, <1>7

-----------------------------------------------------------------------------
(* Steps that move no row.                                                  *)

LEMMA LedgerKept ==
    ASSUME LedgerInv, UNCHANGED vars
    PROVE  LedgerInv'
BY StepLedgerInv

\* Jobs keep their types when organizations and entries are added.
LEMMA JobsTyped ==
    ASSUME PartTypeOK, NEW k \in Jobs, created \subseteq created', entries \subseteq entries',
           job'[k] = job[k]
    PROVE  job'[k] \in JobStates'
<1>1. job[k] \in JobStates
  BY DEF PartTypeOK
<1> QED
  BY <1>1 DEF JobStates

LEMMA FitsNext ==
    ASSUME NEW k \in Jobs, NEW j, job'[k] = j, UNCHANGED <<layout, store>>
    PROVE  JobFits(job[k])' <=> JobFits(j)
BY DEF JobFits

\* A job that moves nothing fits wherever the rows are.
LEMMA ClosedFits ==
    ASSUME NEW k \in Jobs, job'[k].copy = {}, job'[k].gone = {},
           job'[k].step \notin {"copied", "deleted", "listed", "converting", "reverting"}
    PROVE  JobFits(job[k])'
BY DEF JobFits

\* While one job takes the tables exclusively, no other moves anything.
LEMMA OthersClosed ==
    ASSUME PartInv, NEW k \in Jobs, Exclusive(k), NEW j \in Jobs \ {k}
    PROVE  /\ job[j].copy = {} /\ job[j].gone = {}
           /\ job[j].step \notin {"copied", "deleted", "listed", "converting", "reverting"}
<1>1. job[j].step \notin {"copied", "deleted", "listed", "converting", "reverting"}
  BY DEF Exclusive, Open
<1> QED
  BY <1>1 DEF PartInv, JobFits

\* A step of one job that leaves the tables alone.
LEMMA JobLocal ==
    ASSUME PartInv, NEW k \in Jobs, NEW new \in JobStates, JobStep(k, new),
           UNCHANGED <<layout, parts, store>>, JobFits(new)
    PROVE  PartInv'
<1>1. /\ job' = [job EXCEPT ![k] = new] /\ UNCHANGED <<vars, created, hooks, archives>>
      /\ UNCHANGED <<entries, pc, org>>
  BY DEF JobStep, vars
<1>2. PartTypeOK /\ LedgerInv
  BY DEF PartInv
<1>3. LedgerInv'
  BY <1>1, <1>2, LedgerKept
<1>4. PartTypeOK'
  <2>1. job' \in [Jobs -> JobStates]
    BY <1>1, <1>2 DEF PartTypeOK
  <2>2. JobStates' = JobStates
    BY <1>1 DEF JobStates
  <2> QED
    BY <1>1, <1>2, <2>1, <2>2 DEF PartTypeOK
<1>5. OnlyCreated'
  BY <1>1 DEF PartInv, OnlyCreated, OrgsOf
<1>6. \A j \in Jobs : JobFits(job[j])'
  <2>1. job'[k] = new /\ \A j \in Jobs \ {k} : job'[j] = job[j]
    BY <1>1, <1>2 DEF PartTypeOK
  <2>2. ASSUME NEW j \in Jobs PROVE JobFits(job[j])'
    <3>1. PICK z : z = job'[j]
      OBVIOUS
    <3>2. JobFits(z)
      BY <2>1, <3>1 DEF PartInv
    <3> QED
      BY <3>1, <3>2, FitsNext
  <2> QED
    BY <2>2
<1>7. OnePlace' /\ Routed' /\ ArchivePrecedesLive' /\ (~ WritesDuringMaintenance => NoRowLost')
  <2>1. Live' = Live
    BY DEF Live
  <2> QED
    BY <1>1, <2>1 DEF PartInv, OnePlace, Routed, ArchivePrecedesLive, NoRowLost, OrgsOf
<1> QED
  BY <1>3, <1>4, <1>5, <1>6, <1>7 DEF PartInv

LEMMA OffFits == Off \in JobStates /\ JobFits(Off) /\ Off.step = "off"
<1>1. Off \in JobStates /\ Off.copy = {} /\ Off.gone = {} /\ Off.step = "off"
  BY DEF Off, JobStates, Steps
<1> QED
  BY <1>1 DEF JobFits

LEMMA OffStep ==
    ASSUME PartInv, NEW k \in Jobs, JobStep(k, Off), UNCHANGED <<layout, parts, store>>
    PROVE  PartInv'
BY OffFits, JobLocal

\* What the tables hold.
LEMMA TableFacts ==
    ASSUME PartInv
    PROVE  /\ store["default"] \subseteq entries /\ store["tenant"] \subseteq entries
           /\ store["flat"] \subseteq entries
           /\ OrgsOf(store["default"]) \subseteq created
           /\ \A k \in Jobs : job[k] \in JobStates /\ JobFits(job[k])
           /\ PartTypeOK
<1>1. PartTypeOK /\ OnlyCreated /\ \A k \in Jobs : JobFits(job[k])
  BY DEF PartInv
<1>2. /\ store["default"] \subseteq entries /\ store["tenant"] \subseteq entries
      /\ store["flat"] \subseteq entries
  BY <1>1 DEF PartTypeOK, Places
<1>3. OrgsOf(store["default"]) \subseteq created
  BY <1>1, <1>2 DEF OnlyCreated, OrgsOf
<1>4. \A k \in Jobs : job[k] \in JobStates
  BY <1>1 DEF PartTypeOK
<1> QED
  BY <1>1, <1>2, <1>3, <1>4

LEMMA EnsureStartStep ==
    ASSUME PartInv, NEW k \in Jobs, NEW rehome \in BOOLEAN, EnsureStart(k, rehome)
    PROVE  PartInv'
<1> DEFINE ids == OrgsOf(store["default"])
           new == [Off EXCEPT !.step = IF rehome THEN "rehome" ELSE "list",
                              !.todo = ids, !.seen = ids]
<1>1. JobStep(k, new) /\ UNCHANGED <<layout, parts, store>>
  BY DEF EnsureStart
<1>2. ids \subseteq created
  BY TableFacts
<1> HIDE DEF ids
<1>3. new \in JobStates
  BY <1>2, OffFits DEF JobStates, Steps
<1>4. new.copy = {} /\ new.gone = {} /\ new.step \in {"rehome", "list"}
  BY DEF Off
<1> HIDE DEF new
<1>5. JobFits(new)
  BY <1>4 DEF JobFits
<1> QED
  BY <1>1, <1>3, <1>5, JobLocal

LEMMA RehomeCopyStep ==
    ASSUME PartInv, NEW k \in Jobs, RehomeCopy(k)
    PROVE  PartInv'
<1>1. PICK o \in job[k].todo :
        JobStep(k, [job[k] EXCEPT !.step = "copied", !.todo = @ \ {o}, !.on = {o},
                                  !.copy = RowsOf(store["default"], o)])
  BY DEF RehomeCopy
<1>2. job[k].step = "rehome" /\ layout = "partitioned" /\ UNCHANGED <<layout, parts, store>>
  BY DEF RehomeCopy
<1> DEFINE rows == RowsOf(store["default"], o)
           new == [job[k] EXCEPT !.step = "copied", !.todo = @ \ {o}, !.on = {o}, !.copy = rows]
<1>3. /\ job[k] \in JobStates /\ JobFits(job[k]) /\ store["default"] \subseteq entries
  BY TableFacts
<1>4. rows = {e \in store["default"] : e.org \in {o}}
  BY DEF RowsOf
<1>5. rows \subseteq entries
  BY <1>3, <1>4
<1>6. JobStep(k, new)
  BY <1>1
<1> HIDE DEF rows
<1>7. new \in JobStates
  BY <1>3, <1>5 DEF JobStates, Steps
<1>8. /\ new.step = "copied" /\ new.on = {o} /\ new.copy = rows /\ new.gone = {}
  <2>1. job[k].gone = {}
    BY <1>2, <1>3 DEF JobFits
  <2> QED
    BY <1>3, <2>1 DEF JobStates
<1> HIDE DEF new
<1>9. JobFits(new)
  BY <1>2, <1>4, <1>8 DEF JobFits, OrgsOf
<1> QED
  BY <1>2, <1>6, <1>7, <1>9, JobLocal

LEMMA RehomeDeleteStep ==
    ASSUME PartInv, NEW k \in Jobs, RehomeDelete(k)
    PROVE  PartInv'
<1> DEFINE rows == {e \in store["default"] : e.org \in job[k].on}
           new == [job[k] EXCEPT !.step = "deleted", !.gone = rows]
<1>1. job[k].step = "copied" /\ JobStep(k, new) /\ UNCHANGED <<layout, parts, store>>
  BY DEF RehomeDelete
<1>2. /\ job[k] \in JobStates /\ JobFits(job[k]) /\ store["default"] \subseteq entries
  BY TableFacts
<1>3. rows \subseteq entries
  BY <1>2
<1>4. /\ layout = "partitioned" /\ job[k].copy \subseteq rows
      /\ ~ WritesDuringMaintenance => job[k].copy = rows
  BY <1>1, <1>2 DEF JobFits, OrgsOf
<1>5. rows \subseteq store["default"] /\ OrgsOf(rows) \subseteq job[k].on
  BY DEF OrgsOf
<1> HIDE DEF rows
<1>6. new \in JobStates
  BY <1>2, <1>3 DEF JobStates, Steps
<1>7. new.step = "deleted" /\ new.on = job[k].on /\ new.copy = job[k].copy /\ new.gone = rows
  BY <1>2 DEF JobStates
<1> HIDE DEF new
<1>8. JobFits(new)
  BY <1>4, <1>5, <1>7 DEF JobFits, OrgsOf
<1> QED
  BY <1>1, <1>6, <1>8, JobLocal

LEMMA EnsureListStep ==
    ASSUME PartInv, NEW k \in Jobs, EnsureList(k)
    PROVE  PartInv'
<1> DEFINE new == [job[k] EXCEPT !.step = "create", !.todo = created]
<1>1. job[k].step \in {"rehome", "list"} /\ JobStep(k, new) /\ UNCHANGED <<layout, parts, store>>
  BY DEF EnsureList
<1>2. job[k] \in JobStates /\ JobFits(job[k])
  BY TableFacts
<1>3. new \in JobStates
  BY <1>2 DEF JobStates, Steps
<1>4. new.step = "create" /\ new.copy = {} /\ new.gone = {}
  BY <1>1, <1>2 DEF JobStates, JobFits
<1> HIDE DEF new
<1>5. JobFits(new)
  BY <1>4 DEF JobFits
<1> QED
  BY <1>1, <1>3, <1>5, JobLocal

LEMMA MigrationReads ==
    ASSUME PartInv, NEW k \in Jobs, ConvertList(k) \/ ConvertCopy(k) \/ RevertCopy(k)
    PROVE  PartInv'
<1>1. UNCHANGED <<layout, parts, store>>
  BY DEF ConvertList, ConvertCopy, RevertCopy
<1>2. /\ store["default"] \subseteq entries /\ store["tenant"] \subseteq entries
      /\ store["flat"] \subseteq entries /\ layout \in {"flat", "partitioned"}
      /\ job[k] \in JobStates /\ JobFits(job[k])
  BY TableFacts DEF PartTypeOK
<1>3. CASE ConvertList(k)
  <2> DEFINE new == [Off EXCEPT !.step = "listed", !.seen = created]
  <2>1. JobStep(k, new) /\ layout = "flat"
    BY <1>3 DEF ConvertList
  <2>2. new \in JobStates
    BY OffFits DEF JobStates, Steps
  <2>3. new.step = "listed" /\ new.copy = {} /\ new.gone = {}
    BY DEF Off
  <2> HIDE DEF new
  <2>4. JobFits(new)
    BY <2>1, <2>3 DEF JobFits
  <2> QED
    BY <1>1, <2>1, <2>2, <2>4, JobLocal
<1>4. CASE ConvertCopy(k)
  <2> DEFINE new == [job[k] EXCEPT !.step = "converting", !.copy = store["flat"]]
  <2>1. JobStep(k, new) /\ layout = "flat"
    BY <1>2, <1>4 DEF ConvertCopy, JobFits
  <2>2. new \in JobStates
    BY <1>2 DEF JobStates, Steps
  <2>3. new.step = "converting" /\ new.copy = store["flat"]
    BY <1>2 DEF JobStates
  <2> HIDE DEF new
  <2>4. JobFits(new)
    BY <2>1, <2>3 DEF JobFits
  <2> QED
    BY <1>1, <2>1, <2>2, <2>4, JobLocal
<1>5. CASE RevertCopy(k)
  <2> DEFINE rows == store["default"] \cup store["tenant"]
             new  == [Off EXCEPT !.step = "reverting", !.copy = rows]
  <2>1. JobStep(k, new) /\ layout = "partitioned"
    BY <1>5 DEF RevertCopy
  <2>2. new \in JobStates
    BY <1>2, OffFits DEF JobStates, Steps
  <2>3. new.step = "reverting" /\ new.copy = rows
    BY DEF Off
  <2> HIDE DEF new
  <2>4. JobFits(new)
    BY <2>1, <2>3 DEF JobFits
  <2> QED
    BY <1>1, <2>1, <2>2, <2>4, JobLocal
<1> QED
  BY <1>3, <1>4, <1>5

-----------------------------------------------------------------------------
(* Organizations, partitions without rows, and sessions.                    *)

\* A partition is created of a tenant that has no row in DEFAULT.
LEMMA PartsStep ==
    ASSUME PartInv, UNCHANGED <<vars, created, layout, store, archives>>, hooks' \subseteq hooks,
           job' \in [Jobs -> JobStates], \A k \in Jobs : JobFits(job'[k]),
           \/ parts' = parts
           \/ /\ layout = "partitioned"
              /\ \E o \in created : parts' = parts \cup {o} /\ Creatable(o, store["default"])
    PROVE  PartInv'
<1>1. UNCHANGED <<entries, pc, org>>
  BY DEF vars
<1>2. PartTypeOK /\ LedgerInv /\ Routed
  BY DEF PartInv
<1>3. LedgerInv'
  BY <1>2, LedgerKept
<1>4. PartTypeOK'
  <2>1. JobStates' = JobStates
    BY <1>1 DEF JobStates
  <2>2. hooks' \cup parts' \cup archives' \subseteq created'
    BY <1>2 DEF PartTypeOK
  <2> QED
    BY <1>1, <1>2, <2>1, <2>2 DEF PartTypeOK
<1>5. OnlyCreated'
  BY <1>1 DEF PartInv, OnlyCreated, OrgsOf
<1>6. \A k \in Jobs : JobFits(job[k])'
  BY FitsNext
<1>7. Routed'
  <2>1. CASE parts' = parts
    BY <1>2, <2>1 DEF Routed, OrgsOf
  <2>2. ASSUME layout = "partitioned",
               NEW o \in created, parts' = parts \cup {o}, Creatable(o, store["default"])
        PROVE  Routed'
    <3>1. OrgsOf(store["default"]) \cap parts' = {} /\ OrgsOf(store["tenant"]) \subseteq parts'
      BY <1>2, <2>2 DEF Routed, Creatable
    <3> QED
      BY <1>2, <2>2, <3>1 DEF Routed, OrgsOf
  <2> QED
    BY <2>1, <2>2
<1>8. OnePlace' /\ ArchivePrecedesLive' /\ (~ WritesDuringMaintenance => NoRowLost')
  <2>1. Live' = Live
    BY DEF Live
  <2> QED
    BY <1>1, <2>1 DEF PartInv, OnePlace, ArchivePrecedesLive, NoRowLost
<1> QED
  BY <1>3, <1>4, <1>5, <1>6, <1>7, <1>8 DEF PartInv

LEMMA HookStep ==
    ASSUME PartInv, NEW o \in Orgs, RunHook(o) \/ LoseHook(o)
    PROVE  PartInv'
<1>1. /\ UNCHANGED <<vars, created, layout, store, archives, job>> /\ hooks' \subseteq hooks
      /\ o \in hooks
      /\ \/ parts' = parts
         \/ layout = "partitioned" /\ Creatable(o, store["default"]) /\ parts' = parts \cup {o}
  BY DEF RunHook, LoseHook
<1>2. o \in created /\ job' \in [Jobs -> JobStates]
  BY <1>1 DEF PartInv, PartTypeOK
<1>3. \A k \in Jobs : JobFits(job'[k])
  BY <1>1, TableFacts
<1> QED
  BY <1>1, <1>2, <1>3, PartsStep

LEMMA EnsureCreateStep ==
    ASSUME PartInv, NEW k \in Jobs, EnsureCreate(k)
    PROVE  PartInv'
<1>1. PICK o \in job[k].todo :
        /\ JobStep(k, [job[k] EXCEPT !.todo = @ \ {o}])
        /\ IF o \in parts \cup job[k].seen
           THEN parts' = parts
           ELSE /\ layout = "partitioned"
                /\ Exclusive(k)
                /\ Creatable(o, store["default"])
                /\ parts' = parts \cup {o}
  BY DEF EnsureCreate
<1> DEFINE new == [job[k] EXCEPT !.todo = @ \ {o}]
<1>2. job[k].step = "create" /\ UNCHANGED <<layout, store>>
  BY DEF EnsureCreate
<1>3. job[k] \in JobStates /\ JobFits(job[k]) /\ PartTypeOK
  BY TableFacts
<1>4. new \in JobStates /\ o \in created
  BY <1>3 DEF JobStates
<1>5. new.step = "create" /\ new.copy = {} /\ new.gone = {}
  BY <1>2, <1>3 DEF JobStates, JobFits
<1>6. job' = [job EXCEPT ![k] = new] /\ UNCHANGED <<vars, created, hooks, archives>>
  BY <1>1 DEF JobStep
<1> HIDE DEF new
<1>7. JobFits(new)
  BY <1>5 DEF JobFits
<1>8. job' \in [Jobs -> JobStates] /\ \A j \in Jobs : JobFits(job'[j])
  <2>1. job \in [Jobs -> JobStates]
    BY <1>3 DEF PartTypeOK
  <2>2. job'[k] = new /\ \A j \in Jobs \ {k} : job'[j] = job[j]
    BY <1>6, <2>1
  <2> QED
    BY <1>4, <1>6, <1>7, <2>1, <2>2, TableFacts
<1>9. \/ parts' = parts
      \/ /\ layout = "partitioned"
         /\ \E x \in created : parts' = parts \cup {x} /\ Creatable(x, store["default"])
  BY <1>1, <1>4
<1> QED
  BY <1>2, <1>6, <1>8, <1>9, PartsStep

\* Organizations and entries are added, and no row moves.
LEMMA CreateOrganizationStep ==
    ASSUME PartInv, NEW o \in Orgs, NEW signal \in BOOLEAN, CreateOrganization(o, signal)
    PROVE  PartInv'
<1>1. /\ created' = created \cup {o} /\ hooks' \subseteq hooks \cup {o}
      /\ UNCHANGED <<vars, layout, parts, store, archives, job>> /\ UNCHANGED <<entries, pc, org>>
  BY DEF CreateOrganization, vars
<1>2. PartTypeOK /\ LedgerInv
  BY DEF PartInv
<1>3. LedgerInv'
  BY <1>1, <1>2, LedgerKept
<1>4. PartTypeOK'
  <2>1. job' \in [Jobs -> JobStates']
    <3>1. \A k \in Jobs : job'[k] \in JobStates'
      BY <1>1, <1>2, JobsTyped
    <3> QED
      BY <1>1, <1>2, <3>1 DEF PartTypeOK
  <2> QED
    BY <1>1, <1>2, <2>1 DEF PartTypeOK
<1>5. OnlyCreated'
  BY <1>1 DEF PartInv, OnlyCreated, OrgsOf
<1>6. \A k \in Jobs : JobFits(job[k])'
  BY <1>1, TableFacts, FitsNext
<1>7. OnePlace' /\ Routed' /\ ArchivePrecedesLive' /\ (~ WritesDuringMaintenance => NoRowLost')
  <2>1. Live' = Live
    BY <1>1 DEF Live
  <2> QED
    BY <1>1, <2>1 DEF PartInv, OnePlace, Routed, ArchivePrecedesLive, NoRowLost, OrgsOf
<1> QED
  BY <1>3, <1>4, <1>5, <1>6, <1>7 DEF PartInv

\* A statement of a session commits nothing.
LEMMA SessionStep ==
    ASSUME PartInv, NEW t \in Txns, PartStep(t) \/ \E o \in Orgs : PartBegin(t, o)
    PROVE  PartInv'
<1>1. UNCHANGED partVars /\ UNCHANGED <<created, hooks, layout, parts, store, archives, job>>
  BY DEF PartStep, PartBegin, partVars
<1>2. PartTypeOK /\ LedgerInv /\ OnlyCreated /\ TypeOK
  BY DEF PartInv, LedgerInv
<1>3. LedgerInv'
  BY <1>2, StepLedgerInv DEF PartStep, PartBegin, Next, Step
<1>4. entries' = entries
  BY DEF PartStep, PartBegin, SelectHead, SelectHeadMiss, InsertHead, InsertHeadConflict,
         InsertEntry, InsertEntryFails, CatchFailure, AppendAgain, Rollback, Begin
<1>5. PartTypeOK'
  <2>1. JobStates' = JobStates
    BY <1>1, <1>4 DEF JobStates
  <2> QED
    BY <1>1, <1>2, <1>4, <2>1 DEF PartTypeOK
<1>6. OnlyCreated'
  <2>1. CASE PartStep(t)
    <3>1. org' = org /\ pc[t] # "idle" /\ \A u \in Txns \ {t} : pc'[u] = pc[u]
      BY <1>2, <2>1 DEF PartStep, SelectHead, SelectHeadMiss, InsertHead, InsertHeadConflict,
         InsertEntry, InsertEntryFails, CatchFailure, AppendAgain, Rollback, TypeOK
    <3> QED
      BY <1>1, <1>2, <1>4, <3>1 DEF OnlyCreated
  <2>2. ASSUME NEW o \in Orgs, PartBegin(t, o) PROVE OnlyCreated'
    <3>1. /\ o \in created /\ org'[t] = o
          /\ \A u \in Txns \ {t} : pc'[u] = pc[u] /\ org'[u] = org[u]
      BY <1>2, <2>2 DEF PartBegin, Begin, TypeOK
    <3> QED
      BY <1>1, <1>2, <1>4, <3>1 DEF OnlyCreated
  <2> QED
    BY <2>1, <2>2
<1>7. \A k \in Jobs : JobFits(job[k])'
  BY <1>1, TableFacts, FitsNext
<1>8. OnePlace' /\ Routed' /\ ArchivePrecedesLive' /\ (~ WritesDuringMaintenance => NoRowLost')
  <2>1. Live' = Live
    BY <1>1 DEF Live
  <2> QED
    BY <1>1, <1>4, <2>1 DEF PartInv, OnePlace, Routed, ArchivePrecedesLive, NoRowLost, OrgsOf
<1> QED
  BY <1>3, <1>5, <1>6, <1>7, <1>8 DEF PartInv

-----------------------------------------------------------------------------
(* Steps that move rows.                                                    *)

\* A job that has the tables to itself moves rows and is through.
LEMMA MoveStep ==
    ASSUME PartInv, NEW k \in Jobs, Exclusive(k), UNCHANGED <<vars, created, hooks>>,
           parts' \subseteq created, archives' \subseteq created,
           layout' \in {"flat", "partitioned"}, store' \in [Places -> SUBSET entries],
           NEW new \in JobStates, job' = [job EXCEPT ![k] = new],
           new.copy = {}, new.gone = {},
           new.step \notin {"copied", "deleted", "listed", "converting", "reverting"},
           OnePlace', Routed', ArchivePrecedesLive', ~ WritesDuringMaintenance => NoRowLost'
    PROVE  PartInv'
<1>1. UNCHANGED <<entries, pc, org>>
  BY DEF vars
<1>2. PartTypeOK /\ LedgerInv
  BY DEF PartInv
<1>3. LedgerInv'
  BY <1>2, LedgerKept
<1>4. PartTypeOK'
  <2>1. job' \in [Jobs -> JobStates]
    BY <1>2 DEF PartTypeOK
  <2>2. JobStates' = JobStates
    BY <1>1 DEF JobStates
  <2> QED
    BY <1>1, <1>2, <2>1, <2>2 DEF PartTypeOK
<1>5. OnlyCreated'
  BY <1>1 DEF PartInv, OnlyCreated, OrgsOf
<1>6. ASSUME NEW j \in Jobs PROVE JobFits(job[j])'
  <2>1. job'[k] = new /\ \A i \in Jobs \ {k} : job'[i] = job[i]
    BY <1>2 DEF PartTypeOK
  <2>2. CASE j = k
    BY <2>1, <2>2, ClosedFits
  <2>3. CASE j # k
    BY <2>1, <2>3, OthersClosed, ClosedFits
  <2> QED
    BY <2>2, <2>3
<1> QED
  BY <1>3, <1>4, <1>5, <1>6 DEF PartInv

LEMMA RehomeFinishStep ==
    ASSUME PartInv, NEW k \in Jobs, RehomeFinish(k)
    PROVE  PartInv'
<1> DEFINE j   == job[k]
           new == [j EXCEPT !.step = "rehome", !.on = {}, !.copy = {}, !.gone = {}]
<1>1. /\ j.step = "deleted" /\ Exclusive(k)
      /\ \A o \in j.on : Creatable(o, store["default"] \ j.gone)
      /\ parts' = parts \cup j.on
      /\ store' = [store EXCEPT !["default"] = @ \ j.gone, !["tenant"] = @ \cup j.copy]
      /\ JobStep(k, new) /\ layout' = layout
  BY DEF RehomeFinish
<1>2. j \in JobStates /\ JobFits(j) /\ PartTypeOK /\ OnePlace /\ Routed /\ ArchivePrecedesLive
  BY TableFacts DEF PartInv
<1>3. /\ layout = "partitioned" /\ j.copy \subseteq j.gone /\ j.gone \subseteq store["default"]
      /\ OrgsOf(j.copy \cup j.gone) \subseteq j.on
      /\ ~ WritesDuringMaintenance => j.copy = j.gone
  BY <1>1, <1>2 DEF JobFits
<1>4. new \in JobStates
  BY <1>2 DEF JobStates, Steps
<1>5. new.step = "rehome" /\ new.copy = {} /\ new.gone = {}
  BY <1>2 DEF JobStates
<1>6. /\ job' = [job EXCEPT ![k] = new] /\ UNCHANGED <<vars, created, hooks, archives>>
      /\ entries' = entries
  BY <1>1 DEF JobStep, vars
<1> HIDE DEF new
<1>7. j.on \subseteq created /\ j.copy \subseteq entries
  BY <1>2 DEF JobStates
<1> HIDE DEF j
<1>8. /\ store'["default"] = store["default"] \ j.gone
      /\ store'["tenant"] = store["tenant"] \cup j.copy
      /\ store'["flat"] = store["flat"] /\ store'["archive"] = store["archive"]
      /\ store'["dropped"] = store["dropped"]
  BY <1>1, <1>2 DEF PartTypeOK, Places
<1>9. store' \in [Places -> SUBSET entries]
  BY <1>1, <1>2, <1>7 DEF PartTypeOK, Places
<1>10. OnePlace'
  <2>1. \A p \in Places : store'[p] \subseteq entries'
    BY <1>6, <1>9
  <2>2. \A p, q \in Places : p # q => store'[p] \cap store'[q] = {}
    BY <1>2, <1>3, <1>8 DEF OnePlace, Places
  <2> QED
    BY <2>1, <2>2 DEF OnePlace
<1>11. Routed'
  <2>1. OrgsOf(store'["default"]) \cap parts' = {}
    BY <1>1, <1>2, <1>8 DEF Routed, OrgsOf, Creatable
  <2>2. OrgsOf(store'["tenant"]) \subseteq parts'
    BY <1>1, <1>2, <1>3, <1>8 DEF Routed, OrgsOf
  <2>3. layout' # "flat" /\ store'["flat"] = {}
    BY <1>1, <1>2, <1>3, <1>8 DEF Routed
  <2> QED
    BY <2>1, <2>2, <2>3 DEF Routed, OrgsOf
<1>12. Live' \subseteq Live /\ (~ WritesDuringMaintenance => Live' = Live)
  BY <1>3, <1>8 DEF Live
<1>13. ArchivePrecedesLive'
  BY <1>2, <1>8, <1>12 DEF ArchivePrecedesLive
<1>14. ~ WritesDuringMaintenance => NoRowLost'
  BY <1>6, <1>8, <1>12 DEF PartInv, NoRowLost
<1>15. parts' \subseteq created /\ archives' \subseteq created /\ layout' \in {"flat", "partitioned"}
  BY <1>1, <1>2, <1>6, <1>7 DEF PartTypeOK
<1> QED
  BY <1>1, <1>4, <1>5, <1>6, <1>9, <1>10, <1>11, <1>13, <1>14, <1>15, MoveStep

\* The whole live ledger of the tenant is archived, so what comes is later.
LEMMA ArchiveStep ==
    ASSUME PartInv, NEW k \in Jobs, NEW o \in Orgs, NEW drop \in BOOLEAN, Archive(k, o, drop)
    PROVE  PartInv'
<1> DEFINE rows == RowsOf(store["tenant"], o)
           to   == IF drop THEN "dropped" ELSE "archive"
<1>1. /\ job[k].step = "off" /\ layout = "partitioned" /\ o \in parts /\ Exclusive(k)
      /\ parts' = parts \ {o} /\ archives' \subseteq archives \cup {o}
      /\ store' = [store EXCEPT !["tenant"] = @ \ rows, ![to] = @ \cup rows]
      /\ UNCHANGED <<vars, created, hooks, layout, job>> /\ entries' = entries
  BY DEF Archive, vars
<1>2. /\ PartTypeOK /\ OnePlace /\ Routed /\ ArchivePrecedesLive
      /\ job[k] \in JobStates /\ JobFits(job[k])
  BY TableFacts DEF PartInv
<1>3. rows = {e \in store["tenant"] : e.org = o}
  BY DEF RowsOf
<1>4. to \in {"archive", "dropped"}
  OBVIOUS
<1> HIDE DEF rows, to
<1>5. /\ store'["tenant"] = store["tenant"] \ rows /\ store'[to] = store[to] \cup rows
      /\ \A p \in Places \ {"tenant", to} : store'[p] = store[p]
  BY <1>1, <1>2, <1>4 DEF PartTypeOK, Places
<1>6. store' \in [Places -> SUBSET entries]
  <2>1. rows \subseteq entries
    BY <1>2, <1>3 DEF PartTypeOK, Places
  <2> QED
    BY <1>1, <1>2, <1>4, <2>1 DEF PartTypeOK, Places
<1>7. /\ store'["default"] = store["default"] /\ store'["flat"] = store["flat"]
      /\ store'["archive"] \cup store'["dropped"] = store["archive"] \cup store["dropped"] \cup rows
  BY <1>4, <1>5 DEF Places
<1>8. OnePlace'
  <2>1. \A p \in Places : store'[p] \subseteq entries'
    BY <1>1, <1>6
  <2>2. ASSUME NEW p \in Places, NEW q \in Places, p # q, NEW e \in store'[p], e \in store'[q]
        PROVE  FALSE
    <3>1. \A x \in Places : e \in store'[x] =>
              IF e \in rows THEN x = to ELSE e \in store[x]
      BY <1>2, <1>3, <1>4, <1>5 DEF OnePlace, Places
    <3> QED
      BY <1>2, <2>2, <3>1 DEF OnePlace
  <2> QED
    BY <2>1, <2>2 DEF OnePlace
<1>9. Routed'
  <2>1. OrgsOf(store'["default"]) \cap parts' = {}
    BY <1>1, <1>2, <1>7 DEF Routed, OrgsOf
  <2>2. OrgsOf(store'["tenant"]) \subseteq parts'
    BY <1>1, <1>2, <1>3, <1>5 DEF Routed, OrgsOf
  <2>3. layout' # "flat" /\ store'["flat"] = {}
    BY <1>1, <1>2, <1>7 DEF Routed
  <2> QED
    BY <2>1, <2>2, <2>3 DEF Routed, OrgsOf
<1>10. Live' = Live \ rows
  BY <1>2, <1>3, <1>5, <1>7 DEF Live, OnePlace, Places
<1>11. ArchivePrecedesLive'
  <2>1. ASSUME NEW e \in rows, NEW f \in Live', e.org = f.org PROVE FALSE
    <3>1. f \in Live /\ f \notin rows /\ f.org = o
      BY <1>3, <1>10, <2>1
    <3>2. f \notin store["flat"] /\ f \notin store["default"]
      BY <1>1, <1>2, <3>1 DEF Routed, OrgsOf
    <3> QED
      BY <1>3, <3>1, <3>2 DEF Live
  <2> QED
    BY <1>2, <1>7, <1>10, <2>1 DEF ArchivePrecedesLive
<1>12. ~ WritesDuringMaintenance => NoRowLost'
  BY <1>1, <1>7, <1>10 DEF PartInv, NoRowLost
<1>13. /\ parts' \subseteq created /\ archives' \subseteq created
       /\ layout' \in {"flat", "partitioned"} /\ job' = [job EXCEPT ![k] = job[k]]
  BY <1>1, <1>2 DEF PartTypeOK
<1>14. job[k].copy = {} /\ job[k].gone = {}
  BY <1>1, <1>2 DEF JobFits
<1> QED
  BY <1>1, <1>2, <1>6, <1>8, <1>9, <1>11, <1>12, <1>13, <1>14, MoveStep

LEMMA ConvertSwapStep ==
    ASSUME PartInv, NEW k \in Jobs, ConvertSwap(k)
    PROVE  PartInv'
<1> DEFINE j == job[k]
<1>1. /\ j.step = "converting" /\ Exclusive(k) /\ layout' = "partitioned" /\ parts' = j.seen
      /\ store' = [store EXCEPT !["flat"] = {},
                                !["tenant"] = {e \in j.copy : e.org \in j.seen},
                                !["default"] = {e \in j.copy : e.org \notin j.seen}]
      /\ JobStep(k, Off)
  BY DEF ConvertSwap
<1>2. j \in JobStates /\ JobFits(j) /\ PartTypeOK /\ OnePlace /\ Routed /\ ArchivePrecedesLive
  BY TableFacts DEF PartInv
<1>3. /\ layout = "flat" /\ j.copy \subseteq store["flat"] /\ j.seen \subseteq created
      /\ ~ WritesDuringMaintenance => j.copy = store["flat"]
  BY <1>1, <1>2 DEF JobFits, JobStates
<1>4. store["default"] = {} /\ store["tenant"] = {}
  BY <1>2, <1>3 DEF Routed
<1>5. /\ job' = [job EXCEPT ![k] = Off] /\ UNCHANGED <<vars, created, hooks, archives>>
      /\ entries' = entries
  BY <1>1 DEF JobStep, vars
<1> HIDE DEF j
<1>6. /\ store'["default"] = {e \in j.copy : e.org \notin j.seen}
      /\ store'["tenant"] = {e \in j.copy : e.org \in j.seen} /\ store'["flat"] = {}
      /\ store'["archive"] = store["archive"] /\ store'["dropped"] = store["dropped"]
  BY <1>1, <1>2 DEF PartTypeOK, Places
<1>7. store' \in [Places -> SUBSET entries]
  <2>1. j.copy \subseteq entries
    BY <1>2, <1>3 DEF PartTypeOK, Places
  <2> QED
    BY <1>1, <1>2, <2>1 DEF PartTypeOK, Places
<1>8. OnePlace'
  <2>1. \A p \in Places : store'[p] \subseteq entries'
    BY <1>5, <1>7
  <2>2. \A p, q \in Places : p # q => store'[p] \cap store'[q] = {}
    BY <1>2, <1>3, <1>6 DEF OnePlace, Places
  <2> QED
    BY <2>1, <2>2 DEF OnePlace
<1>9. Routed'
  <2>1. \A e \in store'["default"] : e.org \notin parts'
    BY <1>1, <1>6
  <2>2. \A e \in store'["tenant"] : e.org \in parts'
    BY <1>1, <1>6
  <2>3. layout' # "flat" /\ store'["flat"] = {}
    BY <1>1, <1>6
  <2> QED
    BY <2>1, <2>2, <2>3 DEF Routed, OrgsOf
<1>10. Live' = j.copy /\ Live = store["flat"]
  BY <1>4, <1>6 DEF Live
<1>11. ArchivePrecedesLive'
  BY <1>2, <1>3, <1>6, <1>10 DEF ArchivePrecedesLive
<1>12. ~ WritesDuringMaintenance => NoRowLost'
  BY <1>3, <1>5, <1>6, <1>10 DEF PartInv, NoRowLost
<1>13. parts' \subseteq created /\ archives' \subseteq created /\ layout' \in {"flat", "partitioned"}
  BY <1>1, <1>2, <1>3, <1>5 DEF PartTypeOK
<1>14. Off.copy = {} /\ Off.gone = {}
  BY DEF Off
<1> QED
  BY <1>1, <1>5, <1>7, <1>8, <1>9, <1>11, <1>12, <1>13, <1>14, OffFits, MoveStep

LEMMA RevertSwapStep ==
    ASSUME PartInv, NEW k \in Jobs, RevertSwap(k)
    PROVE  PartInv'
<1> DEFINE j == job[k]
<1>1. /\ j.step = "reverting" /\ Exclusive(k) /\ layout' = "flat" /\ parts' = {}
      /\ store' = [store EXCEPT !["flat"] = j.copy, !["tenant"] = {}, !["default"] = {}]
      /\ JobStep(k, Off)
  BY DEF RevertSwap
<1>2. JobFits(j) /\ PartTypeOK /\ OnePlace /\ Routed /\ ArchivePrecedesLive
  BY TableFacts DEF PartInv
<1>3. /\ layout = "partitioned" /\ j.copy \subseteq store["default"] \cup store["tenant"]
      /\ ~ WritesDuringMaintenance => j.copy = store["default"] \cup store["tenant"]
  BY <1>1, <1>2 DEF JobFits
<1>4. store["flat"] = {}
  BY <1>2, <1>3 DEF Routed
<1>5. /\ job' = [job EXCEPT ![k] = Off] /\ UNCHANGED <<vars, created, hooks, archives>>
      /\ entries' = entries
  BY <1>1 DEF JobStep, vars
<1> HIDE DEF j
<1>6. /\ store'["default"] = {} /\ store'["tenant"] = {} /\ store'["flat"] = j.copy
      /\ store'["archive"] = store["archive"] /\ store'["dropped"] = store["dropped"]
  BY <1>1, <1>2 DEF PartTypeOK, Places
<1>7. store' \in [Places -> SUBSET entries]
  <2>1. j.copy \subseteq entries
    BY <1>2, <1>3 DEF PartTypeOK, Places
  <2> QED
    BY <1>1, <1>2, <2>1 DEF PartTypeOK, Places
<1>8. OnePlace'
  <2>1. \A p \in Places : store'[p] \subseteq entries'
    BY <1>5, <1>7
  <2>2. \A p, q \in Places : p # q => store'[p] \cap store'[q] = {}
    BY <1>2, <1>3, <1>6 DEF OnePlace, Places
  <2> QED
    BY <2>1, <2>2 DEF OnePlace
<1>9. Routed'
  BY <1>1, <1>6 DEF Routed, OrgsOf
<1>10. Live' = j.copy /\ Live = store["default"] \cup store["tenant"]
  BY <1>4, <1>6 DEF Live
<1>11. ArchivePrecedesLive'
  BY <1>2, <1>3, <1>6, <1>10 DEF ArchivePrecedesLive
<1>12. ~ WritesDuringMaintenance => NoRowLost'
  BY <1>3, <1>5, <1>6, <1>10 DEF PartInv, NoRowLost
<1>13. parts' \subseteq created /\ archives' \subseteq created /\ layout' \in {"flat", "partitioned"}
  BY <1>1, <1>2, <1>5 DEF PartTypeOK
<1>14. Off.copy = {} /\ Off.gone = {}
  BY DEF Off
<1> QED
  BY <1>1, <1>5, <1>7, <1>8, <1>9, <1>11, <1>12, <1>13, <1>14, OffFits, MoveStep

\* New rows are stored where their tenant's rows are, after all of them.
LEMMA PartCommitStep ==
    ASSUME PartInv, NEW t \in Txns, PartCommit(t)
    PROVE  PartInv'
<1> DEFINE P == Place(org[t])
           rows == pend[t]
<1>1. /\ Commit(t) /\ store' = [store EXCEPT ![P] = @ \cup rows]
      /\ UNCHANGED <<created, hooks, layout, parts, archives, job>>
      /\ ~ WritesDuringMaintenance => \A k \in Jobs : ~ Copying(k, org[t])
  BY DEF PartCommit
<1>2. /\ PartTypeOK /\ LedgerInv /\ OnlyCreated /\ TypeOK
      /\ OnePlace /\ Routed /\ ArchivePrecedesLive
  BY DEF PartInv, LedgerInv
<1>3. /\ pc[t] # "idle" /\ entries' = entries \cup rows /\ org[t] \in Orgs
      /\ \A e \in rows : /\ e.org = org[t] /\ e \notin entries
                         /\ \A f \in entries : f.org = e.org => f.seq < e.seq
  BY <1>1, <1>2, CommittedRows
<1>4. LedgerInv'
  BY <1>1, <1>2, StepLedgerInv DEF Next, Step
<1>5. P \in {"flat", "default", "tenant"} /\ P \in Places
  BY DEF Place, Places
<1>6. /\ (P = "flat") <=> (layout = "flat")
      /\ P = "tenant" => org[t] \in parts
      /\ P = "default" => org[t] \notin parts
  <2>1. CASE layout = "flat"
    <3>1. parts = {}
      BY <1>2, <2>1 DEF Routed
    <3>2. P = "flat"
      BY <2>1, <3>1 DEF Place
    <3> QED
      BY <2>1, <3>2
  <2>2. CASE layout # "flat" /\ org[t] \in parts
    <3>1. P = "tenant"
      BY <2>2 DEF Place
    <3> QED
      BY <2>2, <3>1
  <2>3. CASE layout # "flat" /\ org[t] \notin parts
    <3>1. P = "default"
      BY <2>3 DEF Place
    <3> QED
      BY <2>3, <3>1
  <2> QED
    BY <2>1, <2>2, <2>3
<1> HIDE DEF P, rows
<1>7. /\ store'[P] = store[P] \cup rows
      /\ \A q \in Places \ {P} : store'[q] = store[q]
  BY <1>1, <1>2, <1>5 DEF PartTypeOK
<1>8. /\ store'["archive"] = store["archive"] /\ store'["dropped"] = store["dropped"]
      /\ \A q \in Places : store[q] \subseteq store'[q] /\ store'[q] \subseteq store[q] \cup rows
  BY <1>5, <1>7 DEF Places
<1>9. store' \in [Places -> SUBSET entries']
  BY <1>1, <1>2, <1>3, <1>5 DEF PartTypeOK
<1>10. PartTypeOK'
  <2>1. job' \in [Jobs -> JobStates']
    <3>1. \A k \in Jobs : job'[k] \in JobStates'
      BY <1>1, <1>2, <1>3, JobsTyped
    <3> QED
      BY <1>1, <1>2, <3>1 DEF PartTypeOK
  <2> QED
    BY <1>1, <1>2, <1>9, <2>1 DEF PartTypeOK
<1>11. OnlyCreated'
  <2>1. org' = org /\ \A u \in Txns : pc'[u] # "idle" => pc[u] # "idle"
    BY <1>1, <1>2, <1>3 DEF Commit, TypeOK
  <2>2. org[t] \in created
    BY <1>2, <1>3 DEF OnlyCreated
  <2>3. \A e \in entries' : e.org \in created'
    BY <1>1, <1>2, <1>3, <2>2 DEF OnlyCreated, OrgsOf
  <2> QED
    BY <1>1, <1>2, <2>1, <2>3 DEF OnlyCreated, OrgsOf
<1>12. ASSUME NEW k \in Jobs PROVE JobFits(job[k])'
  <2>1. PICK z : z = job[k]
    OBVIOUS
  <2>2. JobFits(z)
    BY <2>1 DEF PartInv
  <2>3. ~ WritesDuringMaintenance =>
            /\ z.step = "copied" => org[t] \notin z.on
            /\ z.step \notin {"converting", "reverting"}
    BY <1>1, <2>1 DEF Copying
  <2>4. /\ layout' = layout
        /\ store["default"] \subseteq store'["default"]
        /\ store'["default"] \subseteq store["default"] \cup rows
        /\ store["tenant"] \subseteq store'["tenant"] /\ store["flat"] \subseteq store'["flat"]
    BY <1>1, <1>8 DEF Places
  <2>5. \A e \in rows : e.org = org[t]
    BY <1>3
  <2>6. JobFits(z)'
    BY <2>2, <2>3, <2>4, <2>5 DEF JobFits
  <2>7. job'[k] = z
    BY <1>1, <2>1
  <2> QED
    BY <2>6, <2>7 DEF JobFits
<1>13. OnePlace'
  <2>1. \A p \in Places : store'[p] \subseteq entries'
    BY <1>9
  <2>2. \A q \in Places : store[q] \cap rows = {}
    BY <1>2, <1>3 DEF OnePlace
  <2>3. ASSUME NEW p \in Places, NEW q \in Places, p # q PROVE store'[p] \cap store'[q] = {}
    <3>1. store[p] \cap store[q] = {}
      BY <1>2, <2>3 DEF OnePlace
    <3>2. p # P \/ q # P
      BY <2>3
    <3> QED
      BY <1>7, <2>2, <3>1, <3>2
  <2> QED
    BY <2>1, <2>3 DEF OnePlace
<1>14. Routed'
  <2>1. \A e \in store'["default"] : e.org \notin parts'
    BY <1>1, <1>2, <1>3, <1>6, <1>7, <1>8 DEF Routed, OrgsOf, Places
  <2>2. \A e \in store'["tenant"] : e.org \in parts'
    BY <1>1, <1>2, <1>3, <1>6, <1>7, <1>8 DEF Routed, OrgsOf, Places
  <2>3. CASE layout = "flat"
    <3>1. store'["default"] = store["default"] /\ store'["tenant"] = store["tenant"]
      BY <1>6, <1>7, <2>3 DEF Places
    <3> QED
      BY <1>1, <1>2, <2>1, <2>2, <2>3, <3>1 DEF Routed, OrgsOf
  <2>4. CASE layout # "flat"
    <3>1. store'["flat"] = store["flat"]
      BY <1>6, <1>7, <2>4 DEF Places
    <3> QED
      BY <1>1, <1>2, <2>1, <2>2, <2>4, <3>1 DEF Routed, OrgsOf
  <2> QED
    BY <2>3, <2>4
<1>15. Live' = Live \cup rows
  BY <1>5, <1>7 DEF Live, Places
<1>16. ArchivePrecedesLive'
  <2>1. store["archive"] \cup store["dropped"] \subseteq entries
    BY <1>2 DEF PartTypeOK, Places
  <2>2. ASSUME NEW e \in store["archive"] \cup store["dropped"], NEW f \in Live \cup rows, e.org = f.org
        PROVE  e.seq < f.seq
    <3>1. CASE f \in Live
      BY <1>2, <2>2, <3>1 DEF ArchivePrecedesLive
    <3>2. CASE f \in rows
      BY <1>3, <2>1, <2>2, <3>2
    <3> QED
      BY <2>2, <3>1, <3>2
  <2> QED
    BY <1>8, <1>15, <2>2 DEF ArchivePrecedesLive
<1>17. ~ WritesDuringMaintenance => NoRowLost'
  BY <1>3, <1>8, <1>15 DEF PartInv, NoRowLost
<1> QED
  BY <1>4, <1>10, <1>11, <1>12, <1>13, <1>14, <1>16, <1>17 DEF PartInv

-----------------------------------------------------------------------------
(* The theorems.                                                            *)

LEMMA InitPartInv ==
    ASSUME PartInit
    PROVE  PartInv
<1>1. /\ Init /\ created = {} /\ hooks = {} /\ parts = {} /\ archives = {}
      /\ layout \in {"flat", "partitioned"}
      /\ store = [p \in Places |-> {}] /\ job = [k \in Jobs |-> Off]
  BY DEF PartInit
<1>2. LedgerInv /\ entries = {} /\ pc = [t \in Txns |-> "idle"]
  BY <1>1, InitLedgerInv DEF Init
<1>3. \A p \in Places : store[p] = {}
  BY <1>1
<1>4. \A k \in Jobs : JobFits(job[k])
  BY <1>1, OffFits
<1>5. PartTypeOK
  BY <1>1, OffFits DEF PartTypeOK
<1>6. OnlyCreated
  BY <1>2 DEF OnlyCreated, OrgsOf
<1>7. OnePlace /\ Routed /\ ArchivePrecedesLive
  BY <1>1, <1>3 DEF OnePlace, Routed, ArchivePrecedesLive, OrgsOf, Places
<1>8. NoRowLost
  BY <1>2 DEF NoRowLost
<1> QED
  BY <1>2, <1>4, <1>5, <1>6, <1>7, <1>8 DEF PartInv

LEMMA MaintenanceStep ==
    ASSUME PartInv, NEW k \in Jobs, Maintenance(k)
    PROVE  PartInv'
<1>1. ASSUME NEW rehome \in BOOLEAN, EnsureStart(k, rehome) PROVE PartInv'
  BY <1>1, EnsureStartStep
<1>2. CASE RehomeCopy(k)
  BY <1>2, RehomeCopyStep
<1>3. CASE RehomeDelete(k)
  BY <1>3, RehomeDeleteStep
<1>4. CASE RehomeFinish(k)
  BY <1>4, RehomeFinishStep
<1>5. CASE EnsureList(k)
  BY <1>5, EnsureListStep
<1>6. CASE EnsureCreate(k)
  BY <1>6, EnsureCreateStep
<1>7. CASE EnsureDone(k) \/ JobFails(k) \/ JobAbort(k)
  BY <1>7, OffStep DEF EnsureDone, JobFails, JobAbort
<1>8. ASSUME NEW o \in Orgs, NEW drop \in BOOLEAN, Archive(k, o, drop) PROVE PartInv'
  BY <1>8, ArchiveStep
<1>9. CASE ConvertList(k) \/ ConvertCopy(k) \/ RevertCopy(k)
  BY <1>9, MigrationReads
<1>10. CASE ConvertSwap(k)
  BY <1>10, ConvertSwapStep
<1>11. CASE RevertSwap(k)
  BY <1>11, RevertSwapStep
<1> QED
  BY <1>1, <1>2, <1>3, <1>4, <1>5, <1>6, <1>7, <1>8, <1>9, <1>10, <1>11 DEF Maintenance

LEMMA StutterStep ==
    ASSUME PartInv, UNCHANGED allVars
    PROVE  PartInv'
<1>1. UNCHANGED <<vars, created, hooks, layout, parts, store, archives, job>>
  BY DEF allVars, partVars
<1>2. job' \in [Jobs -> JobStates] /\ \A k \in Jobs : JobFits(job'[k])
  BY <1>1, TableFacts DEF PartTypeOK
<1> QED
  BY <1>1, <1>2, PartsStep

LEMMA StepPartInv ==
    ASSUME PartInv, [PartNext]_allVars
    PROVE  PartInv'
<1>1. ASSUME NEW t \in Txns, PartStep(t) \/ PartCommit(t) \/ \E o \in Orgs : PartBegin(t, o)
      PROVE  PartInv'
  BY <1>1, SessionStep, PartCommitStep
<1>2. ASSUME NEW o \in Orgs, NEW signal \in BOOLEAN, CreateOrganization(o, signal)
      PROVE  PartInv'
  BY <1>2, CreateOrganizationStep
<1>3. ASSUME NEW o \in Orgs, RunHook(o) \/ LoseHook(o)
      PROVE  PartInv'
  BY <1>3, HookStep
<1>4. ASSUME NEW k \in Jobs, Maintenance(k)
      PROVE  PartInv'
  BY <1>4, MaintenanceStep
<1> QED
  BY <1>1, <1>2, <1>3, <1>4, StutterStep DEF PartNext

\* What holds of sessions and maintenance processes together, at every step.
THEOREM PartInvariant == PartSpec => []PartInv
<1>1. PartInit => PartInv
  BY InitPartInv
<1>2. PartInv /\ [PartNext]_allVars => PartInv'
  BY StepPartInv
<1> QED
  BY <1>1, <1>2, PTL DEF PartSpec

\* The sessions behave as TrailLedger says whatever the maintenance processes do:
\* the partitions never touch a chain or a lock of LEDGER_HEAD.
THEOREM PartitionsKeepTheLedger == PartSpec => Spec
<1>1. PartInit => Init
  BY DEF PartInit
<1>2. [PartNext]_allVars => [Next]_vars
  BY LedgerStep
<1> QED
  BY <1>1, <1>2, PTL DEF PartSpec, Spec

\* No committed row is stored twice, by a rerun or a second command.
THEOREM RowsStoredOnce == PartSpec => []OnePlace
<1>1. PartInv => OnePlace
  BY DEF PartInv
<1> QED
  BY <1>1, PartInvariant, PTL

\* The archive of a tenant is a prefix of its chain.
THEOREM ArchivesArePrefixes == PartSpec => []ArchivePrecedesLive
<1>1. PartInv => ArchivePrecedesLive
  BY DEF PartInv
<1> QED
  BY <1>1, PartInvariant, PTL

\* Maintenance loses no row if no tenant commits between the copy and the
\* removal of its own rows (without that TLC loses one: TrailPartitionBusy).
THEOREM NothingLost == ~ WritesDuringMaintenance => (PartSpec => []NoRowLost)
<1>1. ~ WritesDuringMaintenance => (PartInv => NoRowLost)
  BY DEF PartInv
<1>2. CASE ~ WritesDuringMaintenance
  <2>1. PartInv => NoRowLost
    BY <1>1, <1>2
  <2> QED
    BY <2>1, PartInvariant, PTL
<1> QED
  BY <1>2
=============================================================================
