---------------------------- MODULE MCDragManager ----------------------------
(* An instance of DragManager for TLC: two items that may change places,   *)
(* two applications that drag something over the dock.                     *)
EXTENDS DragManager, TLC

CONSTANTS a, b, c1, c2
=============================================================================
