------------------------ MODULE MCStagedPublication ------------------------
(* Small instances of StagedPublication for TLC.                           *)
EXTENDS StagedPublication, TLC

\* Upload ids and requests are interchangeable.
Symmetry == Permutations(Uploads) \cup Permutations(Requests)
============================================================================
