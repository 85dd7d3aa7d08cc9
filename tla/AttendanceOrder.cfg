SPECIFICATION AttendanceSpec
CONSTANTS
  People = {p1, p2}
  MaxMoves = 3
  RoomFaults = {{"reorder"}}
INVARIANTS
  PresenceAnyOrder
CHECK_DEADLOCK FALSE
