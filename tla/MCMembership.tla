--------------------------- MODULE MCMembership ---------------------------
(* Small instances of Membership: the tokens of the user.                  *)
EXTENDS Membership, TLC

Token(groups, roles) == [groups |-> groups, roles |-> roles]

\* One group with and without a role, and no group at all.
InAndOut == {Token({1}, {"P6"}), Token({1}, {}), Token({}, {})}

\* Both groups, or the second only, with another role.
TwoGroups == {Token({1, 2}, {"P6"}), Token({2}, {"P1"})}

\* All writers together; and the user's own request, while his membership is
\* revoked, restored, given roles and expires.
Writers == AllOps \ {"request", "expire"}

WritersAndCaller == {Writers, {"request", "expire", "join", "leave", "add role", "provision"}}

Race == {{"leave", "add role"}}

Symmetry == Permutations(Procs)
=============================================================================
