----------------------- MODULE MCInteractivePlayback -----------------------
(* Two connections for one profile, tracks of three frames, two frames to  *)
(* the millisecond: saved positions are rounded down.                      *)
EXTENDS InteractivePlayback
=============================================================================
