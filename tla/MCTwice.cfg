CONSTANTS
  Selected = {"mqtt"}
  MaxAsked = 2
  Clients = {c1, c2, c3}
  Nobody = nobody
  Resets = TRUE
  c1 = c1
  c2 = c2
  c3 = c3
SPECIFICATION Spec
CHECK_DEADLOCK FALSE
INVARIANT OneCommandPerMessage
