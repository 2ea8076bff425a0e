----------------------------- MODULE MCResearch -----------------------------
(***************************************************************************)
(* Instances of Research for TLC.                                          *)
(***************************************************************************)
EXTENDS Research, TLC

CONSTANTS p1, p2

\* All generations have the same DSL: a regenerated case has the same hash.
SameSHA == [g \in 1..MaxGenerations |-> "dsl"]

\* The client links the generation once it has one, and the rest together.
LinkPrefixes ==
    {l \in Links : OrderedPrefix(l) /\ l.gen # 0 /\ l.sha /\ (l.exec # 0 <=> l.batch # 0)}

\* The warm-up run is only cancelled; the measured one is raced for.
Requested == {<<"cancel", 1>>} \cup
             {<<op, 2>> : op \in {"start", "measure", "complete", "fail", "cancel", "export"}}

Symmetry == Permutations(Requests)
=============================================================================
