---------------------------- MODULE MCTrajectory ----------------------------
(***************************************************************************)
(* Instances of Trajectory for TLC.                                        *)
(***************************************************************************)
EXTENDS Trajectory
=============================================================================
