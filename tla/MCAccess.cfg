SPECIFICATION Spec
CONSTANTS
  None = None
  u1 = u1
  u2 = u2
  m1 = m1
  m2 = m2
  Users <- MCUsers
  Managers <- MCManagers
  Granted <- MCGranted
  Emails = {e1, e2}
  Clients = {c1}
  TokenDuration = 2
  MaxTime = 2
  MaxJobs = 3
SYMMETRY Symmetry
INVARIANTS
  UpdatesKept AnswersBelievable HttpChangesNamed
PROPERTIES
  PowersWereHeld
CHECK_DEADLOCK FALSE
