----------------------------- MODULE MCServices ------------------------------
\* Instances for TLC of the small services.
EXTENDS Services

CONSTANTS p1, p2

\* Two users who ask for each other, one of them for a third at the same time,
\* one who asks for himself, and one who asks for a user there is not.
MCJoinUsers == [a |-> <<1, 2>>, b |-> <<2, 1>>, c |-> <<1, 3>>, d |-> <<2, 2>>, e |-> <<3, 4>>]
MCJoiners == DOMAIN MCJoinUsers

MCDevices == {"laptop", "tablet", "phone"}
MCPlatformOf == [d \in MCDevices |-> IF d = "phone" THEN "mobile" ELSE "web"]
MCAccountFaults == {{}, {"db"}, {"db", "lost"}}

MCRoomFaults == SUBSET {"reorder", "lost", "dispatch"}

\* Windows with no overlap, a small one, one that leaves a step of one, and
\* overlaps as large as the window and larger.
MCWindows == [max : {3}, overlap : {0, 1, 2, 3, 4}] \cup [max : {1}, overlap : {0, 1}]
MCLengths == 0..9

\* Below and above the limits of 15 minutes and 4 hours, at them, and extremes.
MCDurations == {-1, 0, 1, 449, 450, 451, 3600, 7199, 7200, 7201, 14400, 1000000000}
=============================================================================
