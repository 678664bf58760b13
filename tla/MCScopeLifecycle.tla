------------------------- MODULE MCScopeLifecycle -------------------------
(* Instances of ScopeLifecycle for TLC.  Operation ids are numbers; 0 is     *)
(* Nobody.                                                                  *)
EXTENDS ScopeLifecycle

Forgets  == {1, 2}
Releases == {3}
Sweeps   == {4}
=============================================================================
