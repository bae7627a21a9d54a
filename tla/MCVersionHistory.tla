--------------------------- MODULE MCVersionHistory ---------------------------
(* Small instances of VersionHistory for TLC.                              *)
EXTENDS VersionHistory, TLC

\* Version ids and keys are opaque.
Symmetry == Permutations(Versions) \cup Permutations(Keys)

==============================================================================
