-------------------------- MODULE MCGitHistoryMirror --------------------------
(* Small instances of GitHistoryMirror for TLC.                            *)
EXTENDS GitHistoryMirror, TLC

\* Version ids and workers are opaque.
Symmetry == Permutations(Versions) \cup Permutations(Workers)

==============================================================================
