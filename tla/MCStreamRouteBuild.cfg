CONSTANTS
  visitor = visitor
  r1 = r1
  r2 = r2
  r3 = r3
  Requests <- MCRequests
  Clients  <- MCClients
  ClientOf <- MCClientOf
  Limit = 1
  MaxHour = 1
  MaxFrames = 4
SPECIFICATION Spec
\* Every request ends, and the clock is bounded.
CHECK_DEADLOCK FALSE
INVARIANT FailedBuildRefunded
