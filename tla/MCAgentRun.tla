----------------------------- MODULE MCAgentRun -----------------------------
(* Small instances of AgentRun.                                              *)
EXTENDS AgentRun, TLC

\* Goroutines and cancel requests are interchangeable.
ProcSymmetry == Permutations(Procs) \cup Permutations(Cancels)
=============================================================================
