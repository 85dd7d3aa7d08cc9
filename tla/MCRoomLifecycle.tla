--------------------------- MODULE MCRoomLifecycle ---------------------------
(* RoomLifecycle on small instances.  A room that never extends is ended at *)
(* age RowDefault; AgeCap lies beyond the longest window of the instance.   *)
EXTENDS RoomLifecycle

CONSTANTS r1, r2, c1, c2, enforcer

CapIsBeyond == AgeCap > MaxDuration
ASSUME CapIsBeyond
==============================================================================
