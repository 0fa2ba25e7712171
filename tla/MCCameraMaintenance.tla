------------------------ MODULE MCCameraMaintenance ------------------------
(* CameraMaintenance for TLC: cameras and threads are interchangeable.      *)
EXTENDS CameraMaintenance, TLC

Symmetry == Permutations(Cameras) \cup Permutations(Threads)
=============================================================================
