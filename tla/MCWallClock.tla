---------------------------- MODULE MCWallClock ----------------------------
(* A small instance of WallClock: seconds of four ticks, milliseconds of two, *)
(* clocks that start between two seconds.                                  *)
EXTENDS WallClock

MCShifts == {-5, 3}
=============================================================================
