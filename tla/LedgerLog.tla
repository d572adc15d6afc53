----------------------------- MODULE LedgerLog -----------------------------
(***************************************************************************)
(* What the audit trail promises (ADR-0008, docstring of                   *)
(* append_trail_entry): every tenant owns one log; a committed transaction *)
(* adds its entries at the end, together and in order; nothing already in  *)
(* a log ever changes, and no other tenant's log is touched.               *)
(***************************************************************************)
EXTENDS Naturals, Sequences

CONSTANTS Orgs,       \* tenants
          Contents,   \* what an entry records (actor, action, target, payload)
          MaxAppends  \* bound: entries one transaction appends

VARIABLE log          \* log[o]: the contents of o's entries, oldest first

Batches == UNION {[1 .. n -> Contents] : n \in 1 .. MaxAppends}

Init == log = [o \in Orgs |-> << >>]

AppendBatch(o) ==
    \E batch \in Batches : log' = [log EXCEPT ![o] = @ \o batch]

Next == \E o \in Orgs : AppendBatch(o)

Spec == Init /\ [][Next]_log
=============================================================================
