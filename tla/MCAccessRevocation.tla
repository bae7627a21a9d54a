-------------------------- MODULE MCAccessRevocation --------------------------
(* Small instances of AccessRevocation for TLC.                            *)
EXTENDS AccessRevocation, TLC

Symmetry == Permutations(Servers) \cup Permutations(Requests) \cup Permutations(Creds)
               \cup Permutations(Principals)

==============================================================================
