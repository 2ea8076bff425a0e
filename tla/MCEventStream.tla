--------------------------- MODULE MCEventStream ---------------------------
(* Small instances of EventStream.                                           *)
EXTENDS EventStream, TLC

\* Stream requests are interchangeable, and refresh calls are.
TabSymmetry == Permutations(Streams) \cup Permutations(Refreshes)
=============================================================================
