---------------------------- MODULE MCAgentDispatch ----------------------------
(* Small instances of AgentDispatch for TLC.                               *)
EXTENDS AgentDispatch, TLC

\* All threads are on one artifact.
OneArtifact == [t \in Threads |-> CHOOSE x \in Artifacts : TRUE]

Symmetry == Permutations(Dispatches) \cup Permutations(Threads) \cup Permutations(Agents)
================================================================================
