-------------------------- MODULE AsyncJobsProofs --------------------------
(***************************************************************************)
(* Proofs about AsyncJobs: for any set of tenants, keys, web workers and   *)
(* Celery workers, and whatever faults the environment has, IInv is an     *)
(* inductive invariant, and one key has one job, one dispatch and one      *)
(* answer.                                                                 *)
(***************************************************************************)
EXTENDS AsyncJobs, FiniteSetTheorems, TLAPS

QueueTypes == [[job : Ids, tries : 0 .. MaxRetries] -> Nat]

-----------------------------------------------------------------------------
(* The operators of the broker.                                             *)

\* A set whose members are all the same has at most one.
LEMMA AtMostOne ==
    ASSUME NEW S, \A x, y \in S : x = y
    PROVE  Cardinality(S) <= 1
<1>1. CASE S = {}
  BY <1>1, FS_EmptySet
<1>2. CASE S # {}
  <2>1. PICK x \in S : TRUE
    BY <1>2
  <2>2. S = {x}
    BY <2>1
  <2> QED
    BY <2>2, FS_Singleton
<1> QED
  BY <1>1, <1>2

\* Sending a message about a job adds no message about another job.
LEMMA SentMessages ==
    ASSUME NEW q \in QueueTypes, NEW m \in [job : Ids, tries : 0 .. MaxRetries]
    PROVE  /\ Sent(q, m) \in QueueTypes
           /\ Waiting(Sent(q, m)) \subseteq Waiting(q) \cup {m}
<1> DEFINE M == [job : Ids, tries : 0 .. MaxRetries]
<1>1. q \in [M -> Nat] /\ m \in M /\ QueueTypes = [M -> Nat]
  BY DEF QueueTypes
<1> HIDE DEF M
<1>2. [q EXCEPT ![m] = @ + 1] \in [M -> Nat]
  BY <1>1
<1>3. \A n \in M : n # m => [q EXCEPT ![m] = @ + 1][n] = q[n]
  BY <1>1
<1> QED
  BY <1>1, <1>2, <1>3 DEF Sent, Waiting

\* Taking a message adds none.
LEMMA TakenMessages ==
    ASSUME NEW q \in QueueTypes, NEW m \in Waiting(q)
    PROVE  /\ Taken(q, m) \in QueueTypes
           /\ Waiting(Taken(q, m)) \subseteq Waiting(q)
           /\ m \in [job : Ids, tries : 0 .. MaxRetries]
<1> DEFINE M == [job : Ids, tries : 0 .. MaxRetries]
<1>1. q \in [M -> Nat] /\ m \in M /\ q[m] > 0 /\ QueueTypes = [M -> Nat]
  BY DEF QueueTypes, Waiting
<1> HIDE DEF M
<1>2. [q EXCEPT ![m] = @ - 1] \in [M -> Nat]
  BY <1>1
<1>3. \A n \in M : [q EXCEPT ![m] = @ - 1][n] <= q[n]
  BY <1>1
<1>4. Taken(q, m) \in [M -> Nat] /\ \A n \in M : Taken(q, m)[n] <= q[n]
  BY <1>2, <1>3 DEF Taken
<1>5. DOMAIN Taken(q, m) = M /\ DOMAIN q = M
  BY <1>1, <1>4
<1>6. ASSUME NEW n \in M, Taken(q, m)[n] > 0 PROVE q[n] > 0
  <2>1. Taken(q, m)[n] \in Nat /\ q[n] \in Nat /\ Taken(q, m)[n] <= q[n]
    BY <1>1, <1>4
  <2> QED
    BY <2>1, <1>6
<1>7. m \in [job : Ids, tries : 0 .. MaxRetries]
  BY <1>1 DEF M
<1> QED
  BY <1>1, <1>4, <1>5, <1>6, <1>7 DEF Waiting

\* A retry sends at most a message about the same job.
LEMMA RetriedMessages ==
    ASSUME NEW q \in QueueTypes, NEW m \in [job : Ids, tries : 0 .. MaxRetries]
    PROVE  /\ Retried(q, m, MaxRetries) \in QueueTypes
           /\ \A n \in Waiting(Retried(q, m, MaxRetries)) : n \in Waiting(q) \/ n.job = m.job
<1>1. CASE m.tries < MaxRetries
  <2>1. Message(m.job, m.tries + 1) \in [job : Ids, tries : 0 .. MaxRetries]
    BY <1>1, MaxRetriesAssumption DEF Message
  <2>2. Retried(q, m, MaxRetries) = Sent(q, Message(m.job, m.tries + 1))
    BY <1>1 DEF Retried
  <2>3. Message(m.job, m.tries + 1).job = m.job
    BY DEF Message
  <2> QED
    BY <2>1, <2>2, <2>3, SentMessages
<1>2. CASE ~ (m.tries < MaxRetries)
  BY <1>2 DEF Retried
<1> QED
  BY <1>1, <1>2

-----------------------------------------------------------------------------
(* The invariant.                                                           *)

LEMMA InitIInv == Init => IInv
<1> SUFFICES ASSUME Init PROVE IInv
  OBVIOUS
<1>1. TypeOK
  <2>1. NoBody \in Bodies
    BY DEF NoBody, Bodies
  <2>2. NoWork \in WorkerStates
    BY MaxRetriesAssumption DEF NoWork, Message, WorkerStates
  <2> DEFINE R == {[pc |-> "idle", org |-> o, key |-> k, op |-> op, job |-> NoId,
                    made |-> FALSE, body |-> NoBody] : o \in Orgs, k \in Keys, op \in Operations}
  <2>5. ASSUME NEW x \in R PROVE x \in RequestStates
    <3>1. PICK o \in Orgs, k \in Keys, op \in Operations :
              x = [pc |-> "idle", org |-> o, key |-> k, op |-> op, job |-> NoId,
                   made |-> FALSE, body |-> NoBody]
      OBVIOUS
    <3> QED
      BY <2>1, <3>1 DEF RequestStates
  <2>6. req \in [Requests -> R]
    BY DEF Init
  <2> HIDE DEF R
  <2>3. req \in [Requests -> RequestStates]
    BY <2>5, <2>6
  <2>4. queue \in [[job : Ids, tries : 0 .. MaxRetries] -> Nat]
    BY DEF Init, NoMessages
  <2> QED
    BY <2>2, <2>3, <2>4, MaxFaultsAssumption DEF Init, TypeOK
<1>2. RecordsNameJobs
  BY DEF Init, RecordsNameJobs
<1>3. TransactionsApart
  BY DEF Init, TransactionsApart, InTransaction
<1>4. AnswersRecorded
  BY DEF Init, AnswersRecorded
<1>5. SentAfterCommit
  BY DEF Init, SentAfterCommit, NoMessages, Waiting, NoWork
<1> QED
  BY <1>1, <1>2, <1>3, <1>4, <1>5 DEF IInv

\* A step of a Celery worker, which leaves the rows of the jobs with their
\* keys and operations, keeps what is said of records and requests.
LEMMA WorkerFrame ==
    ASSUME IInv, UNCHANGED <<records, req, answers>>,
           DOMAIN jobs' = DOMAIN jobs,
           \A i \in DOMAIN jobs : /\ jobs'[i].org = jobs[i].org
                                  /\ jobs'[i].key = jobs[i].key
                                  /\ jobs'[i].op = jobs[i].op
    PROVE  RecordsNameJobs' /\ TransactionsApart' /\ AnswersRecorded'
<1>1. RecordsNameJobs'
  BY DEF IInv, RecordsNameJobs, RecordsOf, JobsOf
<1>2. TransactionsApart'
  BY DEF IInv, TransactionsApart, RecordsOf, Claims, InTransaction
<1>3. AnswersRecorded'
  BY DEF IInv, AnswersRecorded
<1> QED
  BY <1>1, <1>2, <1>3

\* A step of a request that commits nothing keeps what is said of committed
\* records and jobs.
LEMMA RequestFrame ==
    ASSUME IInv, UNCHANGED <<records, jobs>>
    PROVE  RecordsNameJobs'
BY DEF IInv, RecordsNameJobs, RecordsOf, JobsOf

\* A step of one request that does not dispatch, and does not leave it about to
\* dispatch, keeps what is said of the broker.
LEMMA NoDispatchFrame ==
    ASSUME IInv, NEW r \in Requests, NEW new,
           Go(r, new), new.pc # "dispatch",
           UNCHANGED <<jobs, queue, dispatched, work>>
    PROVE  SentAfterCommit'
<1>1. \A q \in Requests : req'[q].pc = "dispatch" => req'[q] = req[q]
  BY DEF Go, IInv, TypeOK
<1> QED
  BY <1>1 DEF IInv, SentAfterCommit, Waiting

\* The types, after a step of one request that changes nothing else.
LEMMA GoTypes ==
    ASSUME IInv, NEW r \in Requests, NEW new \in RequestStates, Go(r, new)
    PROVE  /\ req' \in [Requests -> RequestStates]
           /\ req'[r] = new
           /\ \A q \in Requests : q # r => req'[q] = req[q]
BY DEF Go, IInv, TypeOK

\* The actions of a request that change its own state only: what the new state
\* must satisfy.
LEMMA OwnStep ==
    ASSUME IInv, NEW r \in Requests, NEW new \in RequestStates, Go(r, new),
           UNCHANGED <<records, jobs, answers, queue, dispatched, work, env, faults>>,
           lost' \subseteq lost \cup DOMAIN jobs,
           new.pc \in {"view", "save", "commit"} =>
               RecordsOf(new.org, new.key) = {} /\ Claims(new.org, new.key) \subseteq {r},
           new.pc \in {"save", "commit"} => new.made /\ new.job \in Ids \ DOMAIN jobs,
           new.pc \in {"idle", "key", "view"} => new.job = NoId,
           new.job = NoId \/ new.job \notin {req[q].job : q \in Requests \ {r}},
           new.pc = "commit" => new.body = Body(new.job, NewJob(new.org, new.key, new.op)),
           new.pc = "answer" =>
               [org |-> new.org, key |-> new.key, body |-> new.body] \in records,
           new.pc # "dispatch"
    PROVE  IInv'
<1>0. /\ req' \in [Requests -> RequestStates]
      /\ req'[r] = new
      /\ \A q \in Requests : q # r => req'[q] = req[q]
  BY GoTypes
<1>1. TypeOK'
  BY <1>0 DEF IInv, TypeOK
<1>2. RecordsNameJobs'
  BY RequestFrame
<1>3. TransactionsApart'
  <2>1. \A o, k : RecordsOf(o, k)' = RecordsOf(o, k)
    BY DEF RecordsOf
  <2>2. ASSUME NEW q \in Requests, InTransaction(q)'
        PROVE  RecordsOf(req[q].org, req[q].key)' = {} /\ Claims(req[q].org, req[q].key)' = {q}
    <3>1. CASE q = r
      BY <1>0, <2>1, <2>2, <3>1 DEF InTransaction, Claims
    <3>2. CASE q # r
      <4>1. InTransaction(q) /\ req'[q] = req[q]
        BY <1>0, <2>2, <3>2 DEF InTransaction
      <4>2. RecordsOf(req[q].org, req[q].key) = {} /\ Claims(req[q].org, req[q].key) = {q}
        BY <4>1 DEF IInv, TransactionsApart
      <4>3. r \in Claims(req[q].org, req[q].key)' => FALSE
        BY <1>0, <3>2, <4>1 DEF Claims, InTransaction
      <4> QED
        BY <1>0, <2>1, <4>1, <4>2, <4>3 DEF Claims, InTransaction
    <3> QED
      BY <3>1, <3>2
  <2>3. \A q \in Requests : req'[q].pc \in {"save", "commit"} =>
            req'[q].made /\ req'[q].job \in Ids \ DOMAIN jobs'
    BY <1>0 DEF IInv, TransactionsApart
  <2>4. ASSUME NEW p \in Requests, NEW q \in Requests, req'[p].job = req'[q].job
        PROVE  p = q \/ req'[p].job = NoId
    BY <1>0, <2>4 DEF IInv, TransactionsApart
  <2>5. \A q \in Requests : req'[q].pc \in {"idle", "key", "view"} => req'[q].job = NoId
    BY <1>0 DEF IInv, TransactionsApart
  <2> QED
    BY <2>2, <2>3, <2>4, <2>5 DEF TransactionsApart
<1>4. AnswersRecorded'
  BY <1>0 DEF IInv, AnswersRecorded
<1>5. SentAfterCommit'
  BY NoDispatchFrame
<1> QED
  BY <1>1, <1>2, <1>3, <1>4, <1>5 DEF IInv

-----------------------------------------------------------------------------
(* The actions of a request.                                                *)

LEMMA ReceiveStep ==
    ASSUME IInv, NEW r \in Requests, NEW o \in Orgs, NEW k \in Keys, NEW op \in Operations,
           Receive(r, o, k, op)
    PROVE  IInv'
<1> DEFINE new == [req[r] EXCEPT !.pc = "key", !.org = o, !.key = k, !.op = op]
<1>1. req[r] \in RequestStates /\ req[r].job = NoId
  BY DEF Receive, IInv, TypeOK, TransactionsApart
<1>2. new \in RequestStates /\ new.pc = "key" /\ new.job = NoId
  BY <1>1 DEF RequestStates
<1>3. /\ Go(r, new)
      /\ UNCHANGED <<records, jobs, answers, queue, dispatched, work, env, faults, lost>>
  BY DEF Receive
<1> HIDE DEF new
<1> QED
  BY <1>2, <1>3, OwnStep

LEMMA ClaimKeyStep ==
    ASSUME IInv, NEW r \in Requests, ClaimKey(r)
    PROVE  IInv'
<1> DEFINE new == [req[r] EXCEPT !.pc = "view"]
<1>1. req[r] \in RequestStates /\ req[r].job = NoId
  BY DEF ClaimKey, IInv, TypeOK, TransactionsApart
<1>2. /\ new \in RequestStates /\ new.pc = "view" /\ new.job = NoId
      /\ new.org = req[r].org /\ new.key = req[r].key
  BY <1>1 DEF RequestStates
<1>3. /\ Go(r, new)
      /\ UNCHANGED <<records, jobs, answers, queue, dispatched, work, env, faults, lost>>
      /\ RecordsOf(req[r].org, req[r].key) = {} /\ Claims(req[r].org, req[r].key) = {}
  BY DEF ClaimKey
<1> HIDE DEF new
<1> QED
  BY <1>2, <1>3, OwnStep

LEMMA ReplayStep ==
    ASSUME IInv, NEW r \in Requests, Replay(r)
    PROVE  IInv'
<1>1. PICK x \in RecordsOf(req[r].org, req[r].key) :
          Go(r, [req[r] EXCEPT !.pc = "answer", !.body = x.body])
  BY DEF Replay
<1> DEFINE new == [req[r] EXCEPT !.pc = "answer", !.body = x.body]
<1>2. req[r] \in RequestStates /\ req[r].job = NoId
  BY DEF Replay, IInv, TypeOK, TransactionsApart
<1>3. /\ x \in records /\ x \in [org : Orgs, key : Keys, body : Bodies]
      /\ x.org = req[r].org /\ x.key = req[r].key
  BY DEF RecordsOf, IInv, TypeOK
<1>4. /\ new \in RequestStates /\ new.pc = "answer" /\ new.job = NoId
      /\ x = [org |-> new.org, key |-> new.key, body |-> new.body]
  BY <1>2, <1>3 DEF RequestStates
<1>5. /\ Go(r, new)
      /\ UNCHANGED <<records, jobs, answers, queue, dispatched, work, env, faults, lost>>
  BY <1>1 DEF Replay
<1> HIDE DEF new
<1> QED
  BY <1>3, <1>4, <1>5, OwnStep

\* In an open transaction no job of the key is committed, so the job is new.
LEMMA CreateJobStep ==
    ASSUME IInv, NEW r \in Requests, CreateJob(r)
    PROVE  IInv'
<1>1. JobsOf(req[r].org, req[r].key) = {}
  <2>1. RecordsOf(req[r].org, req[r].key) = {}
    BY DEF CreateJob, IInv, TransactionsApart, InTransaction
  <2> QED
    BY <2>1 DEF JobsOf, IInv, RecordsNameJobs
<1>2. PICK i \in Ids \ (DOMAIN jobs \cup {req[q].job : q \in Requests}) :
          Go(r, [req[r] EXCEPT !.pc = "save", !.job = i, !.made = TRUE])
  BY <1>1 DEF CreateJob
<1> DEFINE new == [req[r] EXCEPT !.pc = "save", !.job = i, !.made = TRUE]
<1>3. req[r] \in RequestStates
  BY DEF IInv, TypeOK
<1>4. /\ new \in RequestStates /\ new.pc = "save" /\ new.job = i /\ new.made
      /\ new.org = req[r].org /\ new.key = req[r].key
  BY <1>3 DEF RequestStates
<1>5. /\ RecordsOf(req[r].org, req[r].key) = {}
      /\ Claims(req[r].org, req[r].key) \subseteq {r}
  BY DEF CreateJob, IInv, TransactionsApart, InTransaction
<1>6. /\ Go(r, new)
      /\ UNCHANGED <<records, jobs, answers, queue, dispatched, work, env, faults, lost>>
  BY <1>2 DEF CreateJob
<1> HIDE DEF new
<1> QED
  BY <1>2, <1>4, <1>5, <1>6, OwnStep

LEMMA SaveResponseStep ==
    ASSUME IInv, NEW r \in Requests, SaveResponse(r)
    PROVE  IInv'
<1> DEFINE b == Body(req[r].job, NewJob(req[r].org, req[r].key, req[r].op))
<1> DEFINE new == [req[r] EXCEPT !.pc = "commit", !.body = b]
<1>1. /\ req[r] \in RequestStates /\ req[r].made /\ req[r].job \in Ids \ DOMAIN jobs
      /\ \A q \in Requests : req[q].job = req[r].job => q = r
  BY NoIdAssumption DEF SaveResponse, IInv, TypeOK, TransactionsApart
<1>2. b \in Bodies
  BY <1>1 DEF Body, NewJob, Bodies, RequestStates
<1>3. /\ Go(r, new)
      /\ UNCHANGED <<records, jobs, answers, queue, dispatched, work, env, faults, lost>>
  BY <1>1 DEF SaveResponse
<1>4. /\ new \in RequestStates /\ new.pc = "commit" /\ new.job = req[r].job /\ new.made
      /\ new.org = req[r].org /\ new.key = req[r].key
      /\ new.body = Body(new.job, NewJob(new.org, new.key, new.op))
  <2> HIDE DEF b
  <2>1. /\ new \in RequestStates /\ new.pc = "commit" /\ new.job = req[r].job /\ new.made
        /\ new.org = req[r].org /\ new.key = req[r].key /\ new.op = req[r].op /\ new.body = b
    BY <1>1, <1>2 DEF RequestStates
  <2> QED
    BY <2>1 DEF b
<1>5. /\ RecordsOf(req[r].org, req[r].key) = {}
      /\ Claims(req[r].org, req[r].key) \subseteq {r}
  BY DEF SaveResponse, IInv, TransactionsApart, InTransaction
<1> HIDE DEF new, b
<1> QED
  BY <1>1, <1>3, <1>4, <1>5, OwnStep

LEMMA AbandonStep ==
    ASSUME IInv, NEW r \in Requests, Abandon(r)
    PROVE  IInv'
<1> DEFINE new == NoRequest(r)
<1>1. req[r] \in RequestStates /\ NoBody \in Bodies
  BY DEF IInv, TypeOK, NoBody, Bodies
<1>2. new \in RequestStates /\ new.pc = "idle" /\ new.job = NoId
  BY <1>1 DEF NoRequest, RequestStates
<1>3. /\ Go(r, new)
      /\ UNCHANGED <<records, jobs, answers, queue, dispatched, work, env, faults>>
  BY DEF Abandon
<1>4. lost' \subseteq lost \cup DOMAIN jobs
  BY DEF Abandon, IInv, SentAfterCommit
<1> HIDE DEF new
<1> QED
  BY <1>2, <1>3, <1>4, OwnStep

\* The record and its new job become visible together.
LEMMA CommitStep ==
    ASSUME IInv, NEW r \in Requests, Commit(r)
    PROVE  IInv'
<1> DEFINE new  == [req[r] EXCEPT !.pc = "dispatch"]
           id   == req[r].job
           row  == NewJob(req[r].org, req[r].key, req[r].op)
           rec  == [org |-> req[r].org, key |-> req[r].key, body |-> req[r].body]
<1>1. /\ req[r] \in RequestStates /\ req[r].made /\ req[r].pc = "commit"
      /\ id \in Ids \ DOMAIN jobs
      /\ \A q \in Requests : req[q].job = id => q = r
  BY NoIdAssumption DEF Commit, IInv, TypeOK, TransactionsApart
<1>2. /\ new \in RequestStates /\ new.pc = "dispatch" /\ new.job = id
      /\ new.org = req[r].org /\ new.key = req[r].key /\ new.body = req[r].body
  BY <1>1 DEF RequestStates
<1>3. /\ Go(r, new)
      /\ records' = records \cup {rec}
      /\ jobs' = [i \in DOMAIN jobs \cup {id} |-> IF i = id THEN row ELSE jobs[i]]
      /\ UNCHANGED <<answers, queue, dispatched, work, env, faults, lost>>
  BY <1>1 DEF Commit
<1>4. /\ row \in JobRows /\ row.org = req[r].org /\ row.key = req[r].key
      /\ row.op = req[r].op /\ row.result = Empty
  BY <1>1 DEF NewJob, JobRows, RequestStates
<1>5. /\ req[r].body = Body(id, row) /\ req[r].body \in Bodies
      /\ req[r].body.job = id /\ req[r].body.op = req[r].op
  <2>1. req[r].body = Body(id, row) /\ req[r].body \in Bodies
    BY <1>1 DEF IInv, AnswersRecorded, RequestStates
  <2> HIDE DEF row
  <2>2. Body(id, row).job = id /\ Body(id, row).op = row.op
    BY DEF Body
  <2> QED
    BY <2>1, <2>2, <1>4
<1>6. /\ rec \in [org : Orgs, key : Keys, body : Bodies]
      /\ rec.org = req[r].org /\ rec.key = req[r].key /\ rec.body = req[r].body
  BY <1>1, <1>5 DEF RequestStates
<1>7. RecordsOf(req[r].org, req[r].key) = {} /\ Claims(req[r].org, req[r].key) = {r}
  BY <1>1 DEF IInv, TransactionsApart, InTransaction
<1>8. /\ req' \in [Requests -> RequestStates]
      /\ req'[r] = new
      /\ \A q \in Requests : q # r => req'[q] = req[q]
  BY <1>2, <1>3, GoTypes
<1>9. rec = [org |-> new.org, key |-> new.key, body |-> new.body]
  BY <1>2
<1> HIDE DEF new, id, row, rec
<1>10. /\ DOMAIN jobs' = DOMAIN jobs \cup {id} /\ jobs'[id] = row
       /\ \A i \in DOMAIN jobs : i # id /\ jobs'[i] = jobs[i]
  BY <1>1, <1>3
<1>11. TypeOK'
  BY <1>1, <1>3, <1>4, <1>6, <1>8, <1>10 DEF IInv, TypeOK
<1>12. RecordsNameJobs'
  <2>1. \A x \in records : ~ (x.org = rec.org /\ x.key = rec.key)
    BY <1>6, <1>7 DEF RecordsOf
  <2>2. \A x, y \in records' : x.org = y.org /\ x.key = y.key => x = y
    BY <1>3, <2>1 DEF IInv, RecordsNameJobs
  <2>3. \A x \in records' : x.body.job \in JobsOf(x.org, x.key)' /\ x.body.op = jobs'[x.body.job].op
    BY <1>3, <1>4, <1>5, <1>6, <1>10 DEF IInv, RecordsNameJobs, JobsOf
  <2>4. ASSUME NEW i \in DOMAIN jobs'
        PROVE  \E x \in RecordsOf(jobs[i].org, jobs[i].key)' : x.body.job = i
    <3>1. CASE i = id
      BY <1>3, <1>4, <1>5, <1>6, <1>10, <3>1 DEF RecordsOf
    <3>2. CASE i # id
      <4>1. i \in DOMAIN jobs /\ jobs'[i] = jobs[i]
        BY <1>10, <3>2
      <4>2. PICK x \in RecordsOf(jobs[i].org, jobs[i].key) : x.body.job = i
        BY <4>1 DEF IInv, RecordsNameJobs
      <4> QED
        BY <1>3, <4>1, <4>2 DEF RecordsOf
    <3> QED
      BY <3>1, <3>2
  <2> QED
    BY <2>2, <2>3, <2>4 DEF RecordsNameJobs
<1>13. TransactionsApart'
  <2>1. ASSUME NEW q \in Requests, InTransaction(q)'
        PROVE  RecordsOf(req[q].org, req[q].key)' = {} /\ Claims(req[q].org, req[q].key)' = {q}
    <3>1. q # r /\ InTransaction(q) /\ req'[q] = req[q]
      BY <1>2, <1>8, <2>1 DEF InTransaction
    <3>2. RecordsOf(req[q].org, req[q].key) = {} /\ Claims(req[q].org, req[q].key) = {q}
      BY <3>1 DEF IInv, TransactionsApart
    <3>3. ~ (rec.org = req[q].org /\ rec.key = req[q].key)
      BY <1>1, <1>6, <3>1, <3>2 DEF Claims, InTransaction
    <3>4. RecordsOf(req[q].org, req[q].key)' = {}
      BY <1>3, <3>1, <3>2, <3>3 DEF RecordsOf
    <3>5. Claims(req[q].org, req[q].key)' = {q}
      BY <1>2, <1>8, <3>1, <3>2 DEF Claims, InTransaction
    <3> QED
      BY <3>4, <3>5
  <2>2. ASSUME NEW q \in Requests, req'[q].pc \in {"save", "commit"}
        PROVE  req'[q].made /\ req'[q].job \in Ids \ DOMAIN jobs'
    <3>1. q # r /\ req'[q] = req[q]
      BY <1>2, <1>8, <2>2
    <3> QED
      BY <1>1, <1>10, <2>2, <3>1 DEF IInv, TransactionsApart
  <2>3. \A p, q \in Requests : req'[p].job = req'[q].job => p = q \/ req'[p].job = NoId
    BY <1>2, <1>8, <1>1 DEF IInv, TransactionsApart
  <2>4. \A q \in Requests : req'[q].pc \in {"idle", "key", "view"} => req'[q].job = NoId
    BY <1>2, <1>8 DEF IInv, TransactionsApart
  <2> QED
    BY <2>1, <2>2, <2>3, <2>4 DEF TransactionsApart
<1>14. AnswersRecorded'
  BY <1>2, <1>3, <1>8, <1>9 DEF IInv, AnswersRecorded
<1>15. SentAfterCommit'
  <2>1. dispatched[id] = 0
    <3>1. dispatched[id] \in Nat /\ ~ (dispatched[id] > 0)
      BY <1>1 DEF IInv, TypeOK, SentAfterCommit
    <3> QED
      BY <3>1
  <2>2. \A i \in Ids : dispatched'[i] <= 1 /\ (dispatched'[i] > 0 => i \in DOMAIN jobs')
    BY <1>3, <1>10 DEF IInv, SentAfterCommit
  <2>3. \A q \in Requests : req'[q].pc = "dispatch" =>
            req'[q].job \in DOMAIN jobs' /\ dispatched'[req'[q].job] = 0
    BY <1>2, <1>3, <1>8, <1>10, <2>1 DEF IInv, SentAfterCommit
  <2>4. \A m \in Waiting(queue') : m.job \in DOMAIN jobs'
    BY <1>3, <1>10 DEF IInv, SentAfterCommit
  <2>5. \A w \in Workers : work'[w].pc # "idle" => work'[w].msg.job \in DOMAIN jobs'
    BY <1>3, <1>10 DEF IInv, SentAfterCommit
  <2>6. \A i \in DOMAIN jobs' : jobs'[i].result \in {Empty, jobs'[i].op}
    BY <1>4, <1>10 DEF IInv, SentAfterCommit
  <2> QED
    BY <2>2, <2>3, <2>4, <2>5, <2>6 DEF SentAfterCommit
<1> QED
  BY <1>11, <1>12, <1>13, <1>14, <1>15 DEF IInv

LEMMA DispatchStep ==
    ASSUME IInv, NEW r \in Requests, Dispatch(r)
    PROVE  IInv'
<1> DEFINE new == [req[r] EXCEPT !.pc = "answer"]
           id  == req[r].job
           msg == Message(id, 0)
<1>1. /\ req[r] \in RequestStates /\ req[r].pc = "dispatch"
      /\ id \in DOMAIN jobs /\ id \in Ids /\ dispatched[id] = 0
      /\ \A q \in Requests : req[q].job = id => q = r
  BY NoIdAssumption DEF Dispatch, IInv, TypeOK, TransactionsApart, SentAfterCommit
<1>2. /\ new \in RequestStates /\ new.pc = "answer" /\ new.job = id
      /\ new.org = req[r].org /\ new.key = req[r].key /\ new.body = req[r].body
  BY <1>1 DEF RequestStates
<1>3. /\ Go(r, new)
      /\ queue' = Sent(queue, msg)
      /\ dispatched' = [dispatched EXCEPT ![id] = @ + 1]
      /\ UNCHANGED <<records, jobs, answers, work, env, faults, lost>>
  BY DEF Dispatch
<1>4. /\ req' \in [Requests -> RequestStates]
      /\ req'[r] = new
      /\ \A q \in Requests : q # r => req'[q] = req[q]
  BY <1>2, <1>3, GoTypes
<1>5. msg \in [job : Ids, tries : 0 .. MaxRetries] /\ msg.job = id
  BY <1>1, MaxRetriesAssumption DEF Message
<1> HIDE DEF new, id, msg
<1>6. /\ queue' \in QueueTypes
      /\ Waiting(queue') \subseteq Waiting(queue) \cup {msg}
  BY <1>3, <1>5, SentMessages DEF IInv, TypeOK, QueueTypes
<1>7. /\ dispatched' \in [Ids -> Nat] /\ dispatched'[id] = 1
      /\ \A i \in Ids : i # id => dispatched'[i] = dispatched[i]
  BY <1>1, <1>3 DEF IInv, TypeOK
<1>8. TypeOK'
  BY <1>3, <1>4, <1>6, <1>7 DEF IInv, TypeOK, QueueTypes
<1>9. RecordsNameJobs'
  BY <1>3, RequestFrame
<1>10. TransactionsApart'
  <2>1. \A o, k : RecordsOf(o, k)' = RecordsOf(o, k) /\ Claims(o, k)' = Claims(o, k)
    BY <1>1, <1>2, <1>3, <1>4 DEF RecordsOf, Claims, InTransaction
  <2>2. ASSUME NEW q \in Requests, InTransaction(q)'
        PROVE  RecordsOf(req[q].org, req[q].key)' = {} /\ Claims(req[q].org, req[q].key)' = {q}
    <3>1. InTransaction(q) /\ req'[q] = req[q]
      BY <1>2, <1>4, <2>2 DEF InTransaction
    <3> QED
      BY <2>1, <3>1 DEF IInv, TransactionsApart
  <2>3. \A p, q \in Requests : req'[p].job = req'[q].job => p = q \/ req'[p].job = NoId
    BY <1>1, <1>2, <1>4 DEF IInv, TransactionsApart
  <2> QED
    BY <1>2, <1>3, <1>4, <2>2, <2>3 DEF IInv, TransactionsApart
<1>11. AnswersRecorded'
  BY <1>1, <1>2, <1>3, <1>4 DEF IInv, AnswersRecorded
<1>12. SentAfterCommit'
  <2>1. \A i \in Ids : dispatched'[i] <= 1 /\ (dispatched'[i] > 0 => i \in DOMAIN jobs')
    BY <1>1, <1>3, <1>7 DEF IInv, SentAfterCommit
  <2>2. \A q \in Requests : req'[q].pc = "dispatch" =>
            req'[q].job \in DOMAIN jobs' /\ dispatched'[req'[q].job] = 0
    <3> SUFFICES ASSUME NEW q \in Requests, req'[q].pc = "dispatch"
                 PROVE  req'[q].job \in DOMAIN jobs' /\ dispatched'[req'[q].job] = 0
      OBVIOUS
    <3>1. q # r /\ req'[q] = req[q]
      BY <1>2, <1>4
    <3>2. req[q].job # id /\ req[q].job \in DOMAIN jobs /\ req[q].job \in Ids /\ dispatched[req[q].job] = 0
      BY <1>1, <3>1 DEF IInv, SentAfterCommit, TypeOK
    <3> QED
      BY <1>3, <1>7, <3>1, <3>2
  <2>3. \A m \in Waiting(queue') : m.job \in DOMAIN jobs'
    BY <1>1, <1>3, <1>5, <1>6 DEF IInv, SentAfterCommit
  <2> QED
    BY <1>3, <2>1, <2>2, <2>3 DEF IInv, SentAfterCommit
<1> QED
  BY <1>8, <1>9, <1>10, <1>11, <1>12 DEF IInv

LEMMA AnswerStep ==
    ASSUME IInv, NEW r \in Requests, Answer(r)
    PROVE  IInv'
<1> DEFINE new == NoRequest(r)
           ans == [org |-> req[r].org, key |-> req[r].key, body |-> req[r].body]
<1>1. /\ req[r] \in RequestStates /\ req[r].pc = "answer" /\ NoBody \in Bodies
      /\ ans \in records
  BY DEF Answer, IInv, TypeOK, NoBody, Bodies, AnswersRecorded
<1>2. new \in RequestStates /\ new.pc = "idle" /\ new.job = NoId
  BY <1>1 DEF NoRequest, RequestStates
<1>3. /\ Go(r, new)
      /\ answers' = answers \cup {ans}
      /\ UNCHANGED <<records, jobs, queue, dispatched, work, env, faults, lost>>
  BY DEF Answer
<1>4. /\ req' \in [Requests -> RequestStates]
      /\ req'[r] = new
      /\ \A q \in Requests : q # r => req'[q] = req[q]
  BY <1>2, <1>3, GoTypes
<1> HIDE DEF new, ans
<1>5. TypeOK'
  BY <1>1, <1>3, <1>4 DEF IInv, TypeOK
<1>6. RecordsNameJobs'
  BY <1>3, RequestFrame
<1>7. TransactionsApart'
  <2>1. \A o, k : RecordsOf(o, k)' = RecordsOf(o, k) /\ Claims(o, k)' = Claims(o, k)
    BY <1>1, <1>2, <1>3, <1>4 DEF RecordsOf, Claims, InTransaction
  <2> QED
    BY <1>1, <1>2, <1>3, <1>4, <2>1, SMTT(40) DEF IInv, TransactionsApart, InTransaction
<1>8. AnswersRecorded'
  BY <1>1, <1>2, <1>3, <1>4 DEF IInv, AnswersRecorded
<1>9. SentAfterCommit'
  BY <1>2, <1>3, NoDispatchFrame
<1> QED
  BY <1>5, <1>6, <1>7, <1>8, <1>9 DEF IInv

-----------------------------------------------------------------------------
(* The actions of a worker.                                                 *)

\* A worker is given a new state, the broker new messages, and a job at most a
\* new status and its own result: what must hold of them.
LEMMA WorkerStep ==
    ASSUME IInv, NEW w \in Workers, NEW new \in WorkerStates,
           UNCHANGED <<records, req, answers, dispatched, env>>,
           lost' \subseteq lost \cup DOMAIN jobs,
           work' = [work EXCEPT ![w] = new],
           new.pc # "idle" => new.msg.job \in DOMAIN jobs,
           queue' \in QueueTypes,
           \A m \in Waiting(queue') : m.job \in DOMAIN jobs,
           DOMAIN jobs' = DOMAIN jobs,
           \A i \in DOMAIN jobs :
              /\ jobs'[i] \in JobRows
              /\ jobs'[i].org = jobs[i].org /\ jobs'[i].key = jobs[i].key
              /\ jobs'[i].op = jobs[i].op
              /\ jobs'[i].result \in {jobs[i].result, jobs[i].op},
           faults' \in 0 .. MaxFaults
    PROVE  IInv'
<1>1. /\ work' \in [Workers -> WorkerStates]
      /\ work'[w] = new
      /\ \A v \in Workers : v # w => work'[v] = work[v]
  BY DEF IInv, TypeOK
<1>2. TypeOK'
  BY <1>1 DEF IInv, TypeOK, QueueTypes
<1>3. RecordsNameJobs' /\ TransactionsApart' /\ AnswersRecorded'
  BY WorkerFrame
<1>4. SentAfterCommit'
  <2>1. \A v \in Workers : work'[v].pc # "idle" => work'[v].msg.job \in DOMAIN jobs'
    BY <1>1 DEF IInv, SentAfterCommit
  <2>2. \A i \in DOMAIN jobs' : jobs'[i].result \in {Empty, jobs'[i].op}
    BY DEF IInv, SentAfterCommit
  <2>3. \A m \in Waiting(queue)' : m.job \in DOMAIN jobs'
    BY DEF Waiting
  <2> QED
    BY <2>1, <2>2, <2>3 DEF IInv, SentAfterCommit
<1> QED
  BY <1>2, <1>3, <1>4 DEF IInv

\* What the worker that runs a message knows of it.
LEMMA WorkingOn ==
    ASSUME IInv, NEW w \in Workers
    PROVE  /\ work[w] \in WorkerStates
           /\ NoWork \in WorkerStates /\ NoWork.pc = "idle"
           /\ work[w].pc # "idle" =>
                 /\ work[w].msg \in [job : Ids, tries : 0 .. MaxRetries]
                 /\ work[w].msg.job \in DOMAIN jobs
           /\ queue \in QueueTypes
           /\ \A m \in Waiting(queue) : m.job \in DOMAIN jobs
           /\ \A i \in DOMAIN jobs : jobs[i] \in JobRows
<1>1. NoWork \in WorkerStates /\ NoWork.pc = "idle"
  BY MaxRetriesAssumption DEF NoWork, Message, WorkerStates
<1>2. work[w] \in WorkerStates /\ DOMAIN jobs \subseteq Ids
  BY DEF IInv, TypeOK
<1>3. work[w].pc # "idle" => work[w].msg.job \in DOMAIN jobs
  BY DEF IInv, SentAfterCommit
<1>4. work[w].msg \in [job : Ids \cup {NoId}, tries : 0 .. MaxRetries]
  BY <1>2 DEF WorkerStates
<1>5. work[w].msg.job \in Ids => work[w].msg \in [job : Ids, tries : 0 .. MaxRetries]
  BY <1>4
<1> QED
  BY <1>1, <1>2, <1>3, <1>5 DEF IInv, TypeOK, SentAfterCommit, QueueTypes

LEMMA FaultCounted ==
    ASSUME IInv, NEW kind, Fault(kind)
    PROVE  faults' \in 0 .. MaxFaults
<1>1. faults \in 0 .. MaxFaults
  BY DEF IInv, TypeOK
<1> QED
  BY <1>1, MaxFaultsAssumption DEF Fault

LEMMA FetchStep ==
    ASSUME IInv, NEW w \in Workers, Fetch(w)
    PROVE  IInv'
<1>1. PICK m \in Waiting(queue) :
          /\ queue' = Taken(queue, m)
          /\ work' = [work EXCEPT ![w] = [pc |-> "start", msg |-> m, result |-> jobs[m.job].result]]
  BY WorkingOn DEF Fetch
<1> DEFINE new == [pc |-> "start", msg |-> m, result |-> jobs[m.job].result]
<1>2. /\ queue' \in QueueTypes /\ Waiting(queue') \subseteq Waiting(queue)
      /\ m \in [job : Ids, tries : 0 .. MaxRetries] /\ m.job \in DOMAIN jobs
  BY <1>1, TakenMessages, WorkingOn
<1>3. new \in WorkerStates /\ new.msg.job \in DOMAIN jobs
  BY <1>2, WorkingOn DEF WorkerStates, JobRows
<1>4. work' = [work EXCEPT ![w] = new]
  BY <1>1
<1> HIDE DEF new
<1> QED
  BY <1>2, <1>3, <1>4, WorkerStep, WorkingOn DEF Fetch, IInv, TypeOK

LEMMA MarkStartedStep ==
    ASSUME IInv, NEW w \in Workers, MarkStarted(w)
    PROVE  IInv'
<1> DEFINE new == [work[w] EXCEPT !.pc = "complete"]
           id  == work[w].msg.job
           row == [jobs[id] EXCEPT !.status = "started"]
<1>1. work[w] \in WorkerStates /\ id \in DOMAIN jobs /\ jobs[id] \in JobRows
  BY WorkingOn DEF MarkStarted
<1>2. new \in WorkerStates /\ new.msg.job = id
  BY <1>1 DEF WorkerStates
<1>3. /\ row \in JobRows /\ row.org = jobs[id].org /\ row.key = jobs[id].key
      /\ row.op = jobs[id].op /\ row.result = jobs[id].result
  BY <1>1 DEF JobRows
<1>4. /\ jobs' = [jobs EXCEPT ![id] = row]
      /\ work' = [work EXCEPT ![w] = new]
      /\ UNCHANGED <<records, req, answers, queue, dispatched, env, faults, lost>>
  BY DEF MarkStarted
<1> HIDE DEF new, id, row
<1>5. /\ DOMAIN jobs' = DOMAIN jobs /\ jobs'[id] = row
      /\ \A i \in DOMAIN jobs : i # id => jobs'[i] = jobs[i]
  BY <1>1, <1>4
<1> QED
  BY <1>1, <1>2, <1>3, <1>4, <1>5, WorkerStep, WorkingOn DEF IInv, TypeOK

LEMMA MarkCompletedStep ==
    ASSUME IInv, NEW w \in Workers, MarkCompleted(w)
    PROVE  IInv'
<1> DEFINE id  == work[w].msg.job
           row == [jobs[id] EXCEPT !.status = "completed", !.result = jobs[id].op]
<1>1. id \in DOMAIN jobs /\ jobs[id] \in JobRows
  BY WorkingOn DEF MarkCompleted
<1>2. /\ row \in JobRows /\ row.org = jobs[id].org /\ row.key = jobs[id].key
      /\ row.op = jobs[id].op /\ row.result = jobs[id].op
  BY <1>1 DEF JobRows
<1>3. /\ jobs' = [jobs EXCEPT ![id] = row]
      /\ work' = [work EXCEPT ![w] = NoWork]
      /\ UNCHANGED <<records, req, answers, queue, dispatched, env, faults, lost>>
  BY <1>1 DEF MarkCompleted
<1> HIDE DEF id, row
<1>4. /\ DOMAIN jobs' = DOMAIN jobs /\ jobs'[id] = row
      /\ \A i \in DOMAIN jobs : i # id => jobs'[i] = jobs[i]
  BY <1>1, <1>3
<1> QED
  BY <1>1, <1>2, <1>3, <1>4, WorkerStep, WorkingOn DEF IInv, TypeOK

\* A worker that is lost, and one whose message is delivered twice.
LEMMA RedeliveryStep ==
    ASSUME IInv, NEW w \in Workers, WorkerCrash(w) \/ Redeliver(w)
    PROVE  IInv'
<1>1. /\ work[w].pc # "idle" /\ queue' = Sent(queue, work[w].msg)
      /\ UNCHANGED <<records, jobs, req, answers, dispatched, env, lost>>
      /\ work' = [work EXCEPT ![w] = NoWork] \/ work' = work
  BY DEF WorkerCrash, Redeliver
<1>2. faults' \in 0 .. MaxFaults
  BY FaultCounted DEF WorkerCrash, Redeliver
<1>3. queue' \in QueueTypes /\ Waiting(queue') \subseteq Waiting(queue) \cup {work[w].msg}
  BY <1>1, SentMessages, WorkingOn
<1>4. \A m \in Waiting(queue') : m.job \in DOMAIN jobs
  BY <1>1, <1>3, WorkingOn
<1>5. CASE work' = [work EXCEPT ![w] = NoWork]
  BY <1>1, <1>2, <1>3, <1>4, <1>5, WorkerStep, WorkingOn
<1>6. CASE work' = work
  <2>1. work' = [work EXCEPT ![w] = work[w]]
    BY <1>6 DEF IInv, TypeOK
  <2> QED
    BY <1>1, <1>2, <1>3, <1>4, <2>1, WorkerStep, WorkingOn
<1> QED
  BY <1>1, <1>5, <1>6

LEMMA TimeoutStep ==
    ASSUME IInv, NEW w \in Workers, Timeout(w)
    PROVE  IInv'
<1>1. /\ work[w].pc # "idle" /\ queue' = Retried(queue, work[w].msg, MaxRetries)
      /\ UNCHANGED <<records, jobs, req, answers, dispatched, env>>
      /\ work' = [work EXCEPT ![w] = NoWork]
      /\ lost' \subseteq lost \cup {work[w].msg.job}
  BY DEF Timeout
<1>2. faults' \in 0 .. MaxFaults
  BY FaultCounted DEF Timeout
<1>3. /\ queue' \in QueueTypes
      /\ \A m \in Waiting(queue') : m \in Waiting(queue) \/ m.job = work[w].msg.job
  BY <1>1, RetriedMessages, WorkingOn
<1>4. \A m \in Waiting(queue') : m.job \in DOMAIN jobs
  BY <1>1, <1>3, WorkingOn
<1> QED
  BY <1>1, <1>2, <1>3, <1>4, WorkerStep, WorkingOn

LEMMA TaskErrorStep ==
    ASSUME IInv, NEW w \in Workers, TaskError(w)
    PROVE  IInv'
BY WorkerStep, WorkingOn DEF TaskError, IInv, TypeOK

-----------------------------------------------------------------------------
(* The theorems.                                                            *)

LEMMA StepIInv == IInv /\ [Next]_vars => IInv'
<1> SUFFICES ASSUME IInv, [Next]_vars PROVE IInv'
  OBVIOUS
<1>1. ASSUME NEW r \in Requests, NEW o \in Orgs, NEW k \in Keys, NEW op \in Operations,
             Receive(r, o, k, op)
      PROVE  IInv'
  BY <1>1, ReceiveStep
<1>2. ASSUME NEW r \in Requests, Serve(r) PROVE IInv'
  BY <1>2, ClaimKeyStep, ReplayStep, CreateJobStep, SaveResponseStep, CommitStep,
     DispatchStep, AnswerStep DEF Serve
<1>3. ASSUME NEW r \in Requests, Abandon(r) PROVE IInv'
  BY <1>3, AbandonStep
<1>4. ASSUME NEW w \in Workers, Run(w) PROVE IInv'
  BY <1>4, FetchStep, MarkStartedStep, MarkCompletedStep DEF Run
<1>5. ASSUME NEW w \in Workers, WorkerCrash(w) \/ Redeliver(w) PROVE IInv'
  BY <1>5, RedeliveryStep
<1>6. ASSUME NEW w \in Workers, Timeout(w) \/ TaskError(w) PROVE IInv'
  BY <1>6, TimeoutStep, TaskErrorStep
<1>7. CASE UNCHANGED vars
  <2>1. TypeOK'
    BY <1>7 DEF vars, IInv, TypeOK
  <2>2. RecordsNameJobs' /\ TransactionsApart' /\ AnswersRecorded'
    BY <1>7, WorkerFrame DEF vars
  <2>3. SentAfterCommit'
    BY <1>7 DEF vars, IInv, SentAfterCommit, Waiting
  <2> QED
    BY <2>1, <2>2, <2>3 DEF IInv
<1> QED
  BY <1>1, <1>2, <1>3, <1>4, <1>5, <1>6, <1>7 DEF Next

\* The inductive invariant: of records and their jobs, of open transactions, of
\* answers on their way, and of what the broker and the workers hold.
THEOREM InductiveInvariant == Spec => []IInv
BY InitIInv, StepIInv, PTL DEF Spec

\* All the 202 answers a tenant gets for one key are one stored response, about
\* a job of its own with that key.
THEOREM AnswersAgree == Spec => []OneAnswerPerKey
<1>1. IInv => OneAnswerPerKey
  <2> SUFFICES ASSUME IInv PROVE OneAnswerPerKey
    OBVIOUS
  <2>1. answers \subseteq records
    BY DEF IInv, AnswersRecorded
  <2> QED
    BY <2>1 DEF IInv, RecordsNameJobs, OneAnswerPerKey
<1> QED
  BY <1>1, InductiveInvariant, PTL

\* One key has at most one job, and no job is sent twice by the web workers.
THEOREM OneDispatch == Spec => []DispatchedOnce
<1>1. IInv => DispatchedOnce
  <2> SUFFICES ASSUME IInv PROVE DispatchedOnce
    OBVIOUS
  <2>1. ASSUME NEW o \in Orgs, NEW k \in Keys PROVE Cardinality(JobsOf(o, k)) <= 1
    <3>1. ASSUME NEW i \in JobsOf(o, k), NEW j \in JobsOf(o, k) PROVE i = j
      <4>1. PICK x \in RecordsOf(o, k) : x.body.job = i
        BY DEF IInv, RecordsNameJobs, JobsOf
      <4>2. PICK y \in RecordsOf(o, k) : y.body.job = j
        BY DEF IInv, RecordsNameJobs, JobsOf
      <4>3. x = y
        BY DEF IInv, RecordsNameJobs, RecordsOf
      <4> QED
        BY <4>1, <4>2, <4>3
    <3> QED
      BY <3>1, AtMostOne
  <2>2. \A i \in Ids : dispatched[i] <= 1
    BY DEF IInv, SentAfterCommit
  <2> QED
    BY <2>1, <2>2 DEF DispatchedOnce
<1> QED
  BY <1>1, InductiveInvariant, PTL

\* Whatever task a worker takes from the broker, its job is committed.
THEOREM TasksFindJobs == Spec => []TaskFindsJob
<1>1. IInv => TaskFindsJob
  BY DEF IInv, SentAfterCommit, TaskFindsJob
<1> QED
  BY <1>1, InductiveInvariant, PTL

\* No redelivered, retried or concurrent run of a task changes the result of a
\* job that has one.
THEOREM ResultsStick == Spec => ResultSticks
<1> DEFINE Kept == \A i \in DOMAIN jobs : jobs[i].result # Empty => jobs'[i].result = jobs[i].result
<1>1. ASSUME IInv, [Next]_vars PROVE [Kept]_vars
  <2>1. CASE \E r \in Requests : Commit(r)
    <3>1. PICK r \in Requests : Commit(r)
      BY <2>1
    <3>2. req[r].job \notin DOMAIN jobs /\ req[r].made
      BY <1>1, <3>1 DEF Commit, IInv, TransactionsApart
    <3> QED
      BY <3>1, <3>2 DEF Commit
  <2>2. CASE \E w \in Workers : MarkStarted(w)
    BY <2>2 DEF MarkStarted
  <2>3. CASE \E w \in Workers : MarkCompleted(w)
    BY <1>1, <2>3, SMTT(40) DEF MarkCompleted, IInv, SentAfterCommit
  <2>4. CASE UNCHANGED jobs
    BY <2>4
  <2>5. \/ UNCHANGED jobs
        \/ \E r \in Requests : Commit(r)
        \/ \E w \in Workers : MarkStarted(w) \/ MarkCompleted(w)
    BY <1>1 DEF Next, vars, Serve, Run, Receive, ClaimKey, Replay, CreateJob, SaveResponse,
                Dispatch, Answer, Abandon, Fetch, WorkerCrash, Redeliver, Timeout, TaskError
  <2> QED
    BY <2>1, <2>2, <2>3, <2>4, <2>5
<1> QED
  BY <1>1, InductiveInvariant, PTL DEF Spec, ResultSticks
=============================================================================
