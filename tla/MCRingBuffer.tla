---------------------------- MODULE MCRingBuffer ----------------------------
(* Slots span more than two windows of Capacity = 3, so that puts land     *)
(* below, in and beyond the window and wrap round to the same cell twice.  *)
EXTENDS RingBuffer

MCSlots == 0 .. 6
=============================================================================
