--------------------------- MODULE MCFenceCleanup ---------------------------
(* Instances of FenceCleanup for TLC: the constants are in the cfg files.  *)
EXTENDS FenceCleanup, TLC

\* Callers, fences and payloads are interchangeable; no property of the runs
\* that use this is a liveness property.
Symmetry == Permutations(Callers) \cup Permutations(Fences) \cup Permutations(Payloads)
=============================================================================
