\* Two tenants use the same key, two web workers, two Celery workers; web
\* processes die and tasks fail, or two worker faults happen, of which two
\* timeouts use up the retries.
CONSTANTS
    Orgs = {o1, o2}
    Keys = {k1}
    Operations = {a}
    Requests = {r1, r2}
    Workers = {w1, w2}
    Ids = {i1, i2}
    MaxRetries = 1
    MaxFaults = 2
    Environments <- LossOrRepeats
    NoId = none

SPECIFICATION FairSpec

INVARIANTS
    OneAnswerPerKey
    DispatchedOnce
    TaskFindsJob
    IInv

PROPERTIES
    ResultSticks
    JobsComplete
