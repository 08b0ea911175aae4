SPECIFICATION CommsFairSpec
CONSTANTS
  Scenarios = {"messaging", "gets"}
  NoConn = NoConn p1 = p1 p2 = p2 u1 = u1 u2 = u2 u3 = u3 None = None
  Messages = {m1, m2} Handlers = {1, 2}
  MaxSendRetries = 1 EventCap = 1 Window = 1 InboxSize = 1 MaxTasks = 1 MaxDisconnects = 1 MaxDialFailures = 1
  MaxRemoteCloses = 0 SendRaces = FALSE MayShutDown = FALSE
PROPERTIES
  EveryMessageAnswered
  GetReturns
CHECK_DEADLOCK FALSE
