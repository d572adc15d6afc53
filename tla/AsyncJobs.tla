----------------------------- MODULE AsyncJobs -----------------------------
(***************************************************************************)
(* POST /platform/async-jobs from the request to the finished job: the     *)
(* tenant transaction of TenantContextMiddleware, the decorator            *)
(* require_idempotency_key, the view async_job_create, the dispatch of its *)
(* on_commit hook, the broker, and the Celery task complete_async_job      *)
(* (acks_late, reject_on_worker_lost, three retries on TimeoutError).      *)
(*                                                                         *)
(* A request runs in one database transaction: its rows are its own until  *)
(* the outermost commit.  get_or_create on a unique key ends with the      *)
(* committed row or with an insert; an insert waits for the transaction    *)
(* that holds an uncommitted row with the same key.                        *)
(***************************************************************************)
EXTENDS Naturals, FiniteSets, CeleryBroker

CONSTANTS Orgs,       \* tenant scopes, NO_ORGANIZATION being one of them
          Keys,       \* idempotency keys
          Operations, \* what a request asks for
          Requests,   \* web workers; each serves one request at a time
          Workers,    \* Celery worker processes
          Ids,        \* primary keys of AsyncJob
          MaxRetries, \* max_retries of the task
          MaxFaults,  \* bound: worker crashes, timeouts and redeliveries
          Environments, \* the sets of faults, of which one may happen
          NoId        \* the job of a request that has none

ASSUME MaxRetriesAssumption == MaxRetries \in Nat
ASSUME MaxFaultsAssumption == MaxFaults \in Nat
ASSUME EnvironmentsAssumption ==
    UNION Environments \subseteq {"web crash", "worker crash", "redelivery", "timeout", "task error"}
ASSUME NoIdAssumption == NoId \notin Ids

VARIABLES
    records,    \* committed IdempotencyRecord rows
    jobs,       \* committed AsyncJob rows, by primary key
    req,        \* the request each web worker serves
    answers,    \* responses with status 202 that left the server
    queue,      \* messages waiting in the broker
    dispatched, \* how many times each job was sent to the broker
    work,       \* the message each Celery worker runs
    env,        \* the faults that may happen
    faults,     \* worker faults so far
    lost        \* jobs whose task died unsent with its web process, or ended in an error

vars == <<records, jobs, req, answers, queue, dispatched, work, env, faults, lost>>

\* The columns of a job that its task writes.
Empty == "none"

NewJob(o, k, op) == [org |-> o, key |-> k, op |-> op, status |-> "pending", result |-> Empty]

\* _job_payload of a job: what the client is shown, and what is replayed.
Body(id, row) == [job |-> id, op |-> row.op, status |-> row.status]

NoBody == [job |-> NoId, op |-> Empty, status |-> Empty]

\* job: the row get_or_create returned; made: created, the hook registered.
NoRequest(r) == [req[r] EXCEPT !.pc = "idle", !.job = NoId, !.made = FALSE, !.body = NoBody]

NoWork == [pc |-> "idle", msg |-> Message(NoId, 0), result |-> Empty]

-----------------------------------------------------------------------------
Init ==
    /\ records = {}
    /\ jobs = << >>
    /\ req \in [Requests -> {[pc |-> "idle", org |-> o, key |-> k, op |-> op, job |-> NoId,
                              made |-> FALSE, body |-> NoBody] :
                                 o \in Orgs, k \in Keys, op \in Operations}]
    /\ answers = {}
    /\ queue = NoMessages(Ids, MaxRetries)
    /\ dispatched = [i \in Ids |-> 0]
    /\ work = [w \in Workers |-> NoWork]
    /\ env \in Environments
    /\ faults = 0
    /\ lost = {}

RecordsOf(o, k) == {x \in records : x.org = o /\ x.key = k}

JobsOf(o, k) == {i \in DOMAIN jobs : jobs[i].org = o /\ jobs[i].key = k}

InTransaction(r) == req[r].pc \in {"view", "save", "commit"}

\* Requests whose uncommitted IdempotencyRecord has this key.
Claims(o, k) == {r \in Requests : InTransaction(r) /\ req[r].org = o /\ req[r].key = k}

Go(r, new) == req' = [req EXCEPT ![r] = new]

\* A request arrives, or a client that heard nothing sends it again.
Receive(r, o, k, op) ==
    /\ req[r].pc = "idle"
    /\ Go(r, [req[r] EXCEPT !.pc = "key", !.org = o, !.key = k, !.op = op])
    /\ UNCHANGED <<records, jobs, answers, queue, dispatched, work, env, faults, lost>>

\* Mutant: the insert does not wait for, nor clash with, an uncommitted one.
ClaimKey_NoUnique(r) ==
    /\ req[r].pc = "key"
    /\ RecordsOf(req[r].org, req[r].key) = {}
    /\ Go(r, [req[r] EXCEPT !.pc = "view"])
    /\ UNCHANGED <<records, jobs, answers, queue, dispatched, work, env, faults, lost>>

\* get_or_create inserts the IdempotencyRecord of a new key.
ClaimKey(r) ==
    /\ req[r].pc = "key"
    /\ RecordsOf(req[r].org, req[r].key) = {}
    /\ Claims(req[r].org, req[r].key) = {}
    /\ Go(r, [req[r] EXCEPT !.pc = "view"])
    /\ UNCHANGED <<records, jobs, answers, queue, dispatched, work, env, faults, lost>>

\* The key was used: the stored response is sent, and the view does not run.
Replay(r) ==
    /\ req[r].pc = "key"
    /\ \E x \in RecordsOf(req[r].org, req[r].key) :
        Go(r, [req[r] EXCEPT !.pc = "answer", !.body = x.body])
    /\ UNCHANGED <<records, jobs, answers, queue, dispatched, work, env, faults, lost>>

\* Mutant: the job is looked up by its key alone, not by organization and key.
CreateJob_AnyTenant(r) ==
    LET found == {i \in DOMAIN jobs : jobs[i].key = req[r].key}
    IN  /\ req[r].pc = "view"
        /\ \E i \in IF found = {} THEN Ids \ (DOMAIN jobs \cup {req[q].job : q \in Requests})
                                  ELSE found :
            Go(r, [req[r] EXCEPT !.pc = "save", !.job = i, !.made = found = {}])
        /\ UNCHANGED <<records, jobs, answers, queue, dispatched, work, env, faults, lost>>

\* Mutant: the task is sent at once instead of after the commit.
CreateJob_DispatchesNow(r) ==
    LET found == JobsOf(req[r].org, req[r].key)
    IN  /\ req[r].pc = "view"
        /\ \E i \in IF found = {} THEN Ids \ (DOMAIN jobs \cup {req[q].job : q \in Requests})
                                  ELSE found :
            /\ Go(r, [req[r] EXCEPT !.pc = "save", !.job = i])
            /\ queue' = IF found = {} THEN Sent(queue, Message(i, 0))
                                      ELSE queue
            /\ dispatched' = IF found = {} THEN [dispatched EXCEPT ![i] = @ + 1] ELSE dispatched
        /\ UNCHANGED <<records, jobs, answers, work, env, faults, lost>>

\* The view: get_or_create of the AsyncJob; if it is new, its task is to be
\* sent on commit.
CreateJob(r) ==
    LET found == JobsOf(req[r].org, req[r].key)
    IN  /\ req[r].pc = "view"
        /\ \E i \in IF found = {} THEN Ids \ (DOMAIN jobs \cup {req[q].job : q \in Requests})
                                  ELSE found :
            Go(r, [req[r] EXCEPT !.pc = "save", !.job = i, !.made = found = {}])
        /\ UNCHANGED <<records, jobs, answers, queue, dispatched, work, env, faults, lost>>

\* The response of the view is stored in the record of the key.
SaveResponse(r) ==
    /\ req[r].pc = "save"
    /\ LET row == IF req[r].made THEN NewJob(req[r].org, req[r].key, req[r].op)
                                 ELSE jobs[req[r].job]
       IN  Go(r, [req[r] EXCEPT !.pc = "commit", !.body = Body(req[r].job, row)])
    /\ UNCHANGED <<records, jobs, answers, queue, dispatched, work, env, faults, lost>>

\* The transaction of the middleware commits: record and job become visible.
Commit(r) ==
    /\ req[r].pc = "commit"
    /\ records' = records \cup {[org |-> req[r].org, key |-> req[r].key, body |-> req[r].body]}
    /\ jobs' = IF req[r].made
               THEN [i \in DOMAIN jobs \cup {req[r].job} |->
                        IF i = req[r].job THEN NewJob(req[r].org, req[r].key, req[r].op)
                                          ELSE jobs[i]]
               ELSE jobs
    /\ Go(r, [req[r] EXCEPT !.pc = IF req[r].made THEN "dispatch" ELSE "answer"])
    /\ UNCHANGED <<answers, queue, dispatched, work, env, faults, lost>>

\* The on_commit hook sends the task.
Dispatch(r) ==
    /\ req[r].pc = "dispatch"
    /\ queue' = Sent(queue, Message(req[r].job, 0))
    /\ dispatched' = [dispatched EXCEPT ![req[r].job] = @ + 1]
    /\ Go(r, [req[r] EXCEPT !.pc = "answer"])
    /\ UNCHANGED <<records, jobs, answers, work, env, faults, lost>>

Answer(r) ==
    /\ req[r].pc = "answer"
    /\ answers' = answers \cup {[org |-> req[r].org, key |-> req[r].key, body |-> req[r].body]}
    /\ Go(r, NoRequest(r))
    /\ UNCHANGED <<records, jobs, queue, dispatched, work, env, faults, lost>>

\* The view raises and the transaction rolls back, or the process dies, or the
\* broker refuses the task: the hook of a committed job is then lost with it.
Abandon(r) ==
    /\ \/ InTransaction(r)
       \/ "web crash" \in env /\ req[r].pc \in {"key", "dispatch", "answer"}
    /\ lost' = IF req[r].pc = "dispatch" THEN lost \cup {req[r].job} ELSE lost
    /\ Go(r, NoRequest(r))
    /\ UNCHANGED <<records, jobs, answers, queue, dispatched, work, env, faults>>

-----------------------------------------------------------------------------
(* The Celery task complete_async_job.                                      *)

\* A worker gets a message, which stays unacknowledged while it runs, and looks
\* the job up; a job that is not there is an error that is not retried.
Fetch(w) ==
    /\ work[w].pc = "idle"
    /\ \E m \in Waiting(queue) :
        /\ queue' = Taken(queue, m)
        /\ work' = [work EXCEPT ![w] =
                      IF m.job \in DOMAIN jobs
                      THEN [pc |-> "start", msg |-> m, result |-> jobs[m.job].result]
                      ELSE NoWork]
    /\ UNCHANGED <<records, jobs, req, answers, dispatched, env, faults, lost>>

\* Mutant: mark_started saves the whole row it read.
MarkStarted_WholeRow(w) ==
    /\ work[w].pc = "start"
    /\ jobs' = [jobs EXCEPT ![work[w].msg.job].status = "started",
                            ![work[w].msg.job].result = work[w].result]
    /\ work' = [work EXCEPT ![w].pc = "complete"]
    /\ UNCHANGED <<records, req, answers, queue, dispatched, env, faults, lost>>

\* mark_started saves the status only, whatever it was.
MarkStarted(w) ==
    /\ work[w].pc = "start"
    /\ jobs' = [jobs EXCEPT ![work[w].msg.job].status = "started"]
    /\ work' = [work EXCEPT ![w].pc = "complete"]
    /\ UNCHANGED <<records, req, answers, queue, dispatched, env, faults, lost>>

\* mark_completed, with the operation the request asked for as the result, and
\* the acknowledgement.
MarkCompleted(w) ==
    /\ work[w].pc = "complete"
    /\ jobs' = [jobs EXCEPT ![work[w].msg.job].status = "completed",
                            ![work[w].msg.job].result = jobs[work[w].msg.job].op]
    /\ work' = [work EXCEPT ![w] = NoWork]
    /\ UNCHANGED <<records, req, answers, queue, dispatched, env, faults, lost>>

Fault(kind) == kind \in env /\ faults < MaxFaults /\ faults' = faults + 1

\* The worker process is lost: the broker delivers the message again.
WorkerCrash(w) ==
    /\ work[w].pc # "idle"
    /\ Fault("worker crash")
    /\ queue' = Sent(queue, work[w].msg)
    /\ work' = [work EXCEPT ![w] = NoWork]
    /\ UNCHANGED <<records, jobs, req, answers, dispatched, env, lost>>

\* The visibility timeout of the broker ends while the worker still runs.
Redeliver(w) ==
    /\ work[w].pc # "idle"
    /\ Fault("redelivery")
    /\ queue' = Sent(queue, work[w].msg)
    /\ UNCHANGED <<records, jobs, req, answers, dispatched, work, env, lost>>

\* Mutant: a TimeoutError is not retried.
Timeout_NoRetry(w) ==
    /\ work[w].pc # "idle"
    /\ Fault("timeout")
    /\ UNCHANGED queue
    /\ work' = [work EXCEPT ![w] = NoWork]
    /\ lost' = IF work[w].msg.tries < MaxRetries THEN lost ELSE lost \cup {work[w].msg.job}
    /\ UNCHANGED <<records, jobs, req, answers, dispatched, env>>

\* TimeoutError: the task is sent again, until it has no retry left.
Timeout(w) ==
    /\ work[w].pc # "idle"
    /\ Fault("timeout")
    /\ queue' = Retried(queue, work[w].msg, MaxRetries)
    /\ work' = [work EXCEPT ![w] = NoWork]
    /\ lost' = IF work[w].msg.tries < MaxRetries THEN lost ELSE lost \cup {work[w].msg.job}
    /\ UNCHANGED <<records, jobs, req, answers, dispatched, env>>

\* Any other exception: the message is acknowledged, nothing marks the job.
TaskError(w) ==
    /\ work[w].pc # "idle"
    /\ "task error" \in env
    /\ work' = [work EXCEPT ![w] = NoWork]
    /\ lost' = lost \cup {work[w].msg.job}
    /\ UNCHANGED <<records, jobs, req, answers, queue, dispatched, env, faults>>

-----------------------------------------------------------------------------
Serve(r) ==
    \/ ClaimKey(r)
    \/ Replay(r)
    \/ CreateJob(r)
    \/ SaveResponse(r)
    \/ Commit(r)
    \/ Dispatch(r)
    \/ Answer(r)

Run(w) == Fetch(w) \/ MarkStarted(w) \/ MarkCompleted(w)

Next ==
    \/ \E r \in Requests :
        \/ \E o \in Orgs, k \in Keys, op \in Operations : Receive(r, o, k, op)
        \/ Serve(r)
        \/ Abandon(r)
    \/ \E w \in Workers :
        \/ Run(w)
        \/ WorkerCrash(w)
        \/ Redeliver(w)
        \/ Timeout(w)
        \/ TaskError(w)

Spec == Init /\ [][Next]_vars

\* A live web process runs its hooks, and live workers drain the broker.
Fairness ==
    /\ \A r \in Requests : WF_vars(Dispatch(r))
    /\ \A w \in Workers : WF_vars(Run(w))

FairSpec == Spec /\ Fairness

-----------------------------------------------------------------------------
(* Properties.                                                              *)

Bodies == [job : Ids \cup {NoId}, op : Operations \cup {Empty},
           status : {"pending", "started", "completed", Empty}]

JobRows == [org : Orgs, key : Keys, op : Operations,
            status : {"pending", "started", "completed"}, result : Operations \cup {Empty}]

RequestStates == [pc : {"idle", "key", "view", "save", "commit", "dispatch", "answer"},
                  org : Orgs, key : Keys, op : Operations, job : Ids \cup {NoId},
                  made : BOOLEAN, body : Bodies]

WorkerStates == [pc : {"idle", "start", "complete"},
                 msg : [job : Ids \cup {NoId}, tries : 0 .. MaxRetries],
                 result : Operations \cup {Empty}]

\* The types, which the other properties presuppose.
TypeOK ==
    /\ records \cup answers \subseteq [org : Orgs, key : Keys, body : Bodies]
    /\ DOMAIN jobs \subseteq Ids
    /\ \A i \in DOMAIN jobs : jobs[i] \in JobRows
    /\ req \in [Requests -> RequestStates]
    /\ queue \in [[job : Ids, tries : 0 .. MaxRetries] -> Nat]
    /\ dispatched \in [Ids -> Nat]
    /\ work \in [Workers -> WorkerStates]
    /\ env \in Environments
    /\ faults \in 0 .. MaxFaults
    /\ lost \subseteq Ids

\* All the answers a tenant gets for one key are one response, that of a job of
\* its own which was stored with that key (idempotency.py:26-28: "later requests
\* with the same key receive that stored response"; models.py:10-13: one tenant
\* cannot be handed another tenant's).
OneAnswerPerKey ==
    /\ \A a, b \in answers : a.org = b.org /\ a.key = b.key => a = b
    /\ \A a \in answers :
        /\ a.body.job \in JobsOf(a.org, a.key)
        /\ a.body.op = jobs[a.body.job].op

\* A key stands for one job and one dispatch, however often it is sent and
\* whoever dies ("so retries do not duplicate the operation", openapi.yaml).
DispatchedOnce ==
    /\ \A o \in Orgs, k \in Keys : Cardinality(JobsOf(o, k)) <= 1
    /\ \A i \in Ids : dispatched[i] <= 1

\* No task is in the broker before its job is committed, so no worker fails to
\* find it (views.py:70-73).
TaskFindsJob == \A m \in Waiting(queue) : m.job \in DOMAIN jobs

\* The result of a finished job stays, though a redelivered task runs it again
\* and sets its status back to "started".
ResultSticks ==
    [][\A i \in DOMAIN jobs : jobs[i].result # Empty => jobs'[i].result = jobs[i].result]_vars

\* What makes them inductive.  A record and its job are committed together: a
\* record names a job of its own key, and every job is named by a record.
RecordsNameJobs ==
    /\ \A x, y \in records : x.org = y.org /\ x.key = y.key => x = y
    /\ \A x \in records : x.body.job \in JobsOf(x.org, x.key) /\ x.body.op = jobs[x.body.job].op
    /\ \A i \in DOMAIN jobs : \E x \in RecordsOf(jobs[i].org, jobs[i].key) : x.body.job = i

\* An open transaction is the only one with its key, and no such record is
\* committed; the job it made is nobody else's and not committed either.
TransactionsApart ==
    /\ \A r \in Requests : InTransaction(r) =>
          /\ RecordsOf(req[r].org, req[r].key) = {}
          /\ Claims(req[r].org, req[r].key) = {r}
    /\ \A r \in Requests : req[r].pc \in {"save", "commit"} =>
          req[r].made /\ req[r].job \in Ids \ DOMAIN jobs
    /\ \A r, q \in Requests : req[r].job = req[q].job => r = q \/ req[r].job = NoId
    /\ \A r \in Requests : req[r].pc \in {"idle", "key", "view"} => req[r].job = NoId

\* What a request is about to answer is a committed record, or will be one.
AnswersRecorded ==
    /\ answers \subseteq records
    /\ \A r \in Requests :
          /\ req[r].pc = "commit" => req[r].body = Body(req[r].job, NewJob(req[r].org, req[r].key, req[r].op))
          /\ req[r].pc \in {"dispatch", "answer"} =>
                [org |-> req[r].org, key |-> req[r].key, body |-> req[r].body] \in records

\* A job is sent once, after its commit; its messages and tasks follow.
SentAfterCommit ==
    /\ \A i \in Ids : dispatched[i] <= 1 /\ (dispatched[i] > 0 => i \in DOMAIN jobs)
    /\ \A r \in Requests : req[r].pc = "dispatch" =>
          req[r].job \in DOMAIN jobs /\ dispatched[req[r].job] = 0
    /\ \A m \in Waiting(queue) : m.job \in DOMAIN jobs
    /\ \A w \in Workers : work[w].pc # "idle" => work[w].msg.job \in DOMAIN jobs
    /\ \A i \in DOMAIN jobs : jobs[i].result \in {Empty, jobs[i].op}

IInv == TypeOK /\ RecordsNameJobs /\ TransactionsApart /\ AnswersRecorded /\ SentAfterCommit

\* A committed job is completed for good, whatever is delivered again and crashes,
\* unless its web process died between the commit and the dispatch, or its task
\* ran out of retries or failed with anything but TimeoutError.
JobsComplete ==
    \A i \in Ids : <>[](i \in DOMAIN jobs => i \in lost \/ jobs[i].status = "completed")
=============================================================================
