SPECIFICATION Spec
CONSTANTS
  Joiners <- MCJoiners
  JoinUsers <- MCJoinUsers
  Members = {1, 2, 3}
  MaxPrivate = 4
  MaxSaved = 7
  Limits = {1, 2, 3}
  Devices <- MCDevices
  PlatformOf <- MCPlatformOf
  MaxTokens = 3
  AccountFaults <- MCAccountFaults
  People = {p1, p2}
  p1 = p1
  p2 = p2
  MaxMoves = 5
  RoomFaults <- MCRoomFaults
  Lengths <- MCLengths
  Windows <- MCWindows
  Durations <- MCDurations
INVARIANTS
  ServicesTypeOK
  OneConversation
  HistoryLosesOnlyCut
  SessionHeld
  AttendanceTrue
  ChunksCover
  SummaryRestsOnAll
  URLOutlivesDownload
CHECK_DEADLOCK FALSE
