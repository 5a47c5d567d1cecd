SPECIFICATION ListenersSpec
CONSTANTS
  Datagram = {question, question2, notDns, outside}
  Unanswered = {notDns}
  Stateless = {outside}
  Room = 2
  Others = 2
  Client = {c1, c2, c3}
  MaxConnections = 2
  MaxHttpConnections = 2
  Buffer = 2
INVARIANTS PermitsConserved FramesAligned
PROPERTIES BufferedHandled SilentLeave QueueServed HttpTurnedAwayWhenFull HttpSilentLeave
