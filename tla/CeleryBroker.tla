---------------------------- MODULE CeleryBroker ----------------------------
(***************************************************************************)
(* The Redis broker as both Celery tasks use it (config/settings/base.py:  *)
(* CELERY_TASK_ACKS_LATE and CELERY_TASK_REJECT_ON_WORKER_LOST): a bag of  *)
(* messages, from which a worker takes one, acknowledges it when the task  *)
(* returns, and into which a lost, timed out or retried message goes back. *)
(***************************************************************************)
EXTENDS Naturals

\* Message about job or event i, at its (n + 1)-th try.
Message(i, n) == [job |-> i, tries |-> n]

NoMessages(ids, maxRetries) == [m \in [job : ids, tries : 0 .. maxRetries] |-> 0]

Waiting(q) == {m \in DOMAIN q : q[m] > 0}

Sent(q, m) == [q EXCEPT ![m] = @ + 1]

Taken(q, m) == [q EXCEPT ![m] = @ - 1]

\* Mutant: no retry.
Retried_Never(q, m, maxRetries) == q

\* self.retry: sent again with one more try, unless max_retries is reached.
Retried(q, m, maxRetries) ==
    IF m.tries < maxRetries THEN Sent(q, Message(m.job, m.tries + 1)) ELSE q
=============================================================================
