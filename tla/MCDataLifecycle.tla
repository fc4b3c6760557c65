--------------------------- MODULE MCDataLifecycle ---------------------------
(* Instances of DataLifecycle for TLC. *)
EXTENDS DataLifecycle, TLC

\* Every object of the small instances belongs to one account.
OneOwner == [o \in Objects |-> CHOOSE u \in Users : TRUE]

RunnerSymmetry == Permutations(Runners)
=============================================================================
