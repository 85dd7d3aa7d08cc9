SPECIFICATION FairSpec
CONSTANTS
  ann = ann
  bob = bob
  a1 = a1
  a2 = a2
  b1 = b1
  m1 = m1
  nobody = nobody
  Users = {ann, bob}
  Conns = {a1, a2, b1}
  UserOf <- AnnTwice
  Messages = {m1}
  From <- FromBob
  To <- ToAnn
  Cap = 2
  Scenes <- HubScenes
  NoConn = nobody
  Watchers = {b1}
INVARIANTS
  TypeOK
  HubFollowsHandlers
  PresenceAtRest
  MessageNotForgotten
  EventsTrue
PROPERTIES
  Greeted
CHECK_DEADLOCK FALSE
