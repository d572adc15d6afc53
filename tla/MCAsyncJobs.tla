---------------------------- MODULE MCAsyncJobs ----------------------------
(* Small instances of AsyncJobs: the faults that come together.             *)
EXTENDS AsyncJobs

\* A job is lost for good, or its task is interrupted, retried or run twice.
LossOrRepeats == {{"web crash", "task error"}, {"worker crash", "redelivery", "timeout"}}
=============================================================================
