----------------------------- MODULE MCMembership -----------------------------
(* Small instances of Membership for TLC.                                  *)
EXTENDS Membership, TLC

\* Nothing tells two handlers, attempts, people or admitted addresses apart.
Symmetry == Permutations(Handlers) \cup Permutations(Attempts)
               \cup Permutations(Subjects) \cup Permutations(AutoAdmit)

==============================================================================
