CONSTANTS
  Selected = {"enter", "gpio", "tcp", "udp", "mqtt", "http"}
  MaxAsked = 2
  Clients = {c1, c2, c3}
  Nobody = nobody
  Resets = TRUE
  c1 = c1
  c2 = c2
  c3 = c3
SPECIFICATION FairSpec
CHECK_DEADLOCK FALSE
INVARIANTS
  TypeOK
  NoCommandUnasked
PROPERTIES
  ClientAnswered
  LastEventServed
