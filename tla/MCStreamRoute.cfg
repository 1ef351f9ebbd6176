\* Three requests of a visitor who has one live query an hour, over two hours.
CONSTANTS
  visitor = visitor
  r1 = r1
  r2 = r2
  r3 = r3
  Requests <- MCRequests
  Clients  <- MCClients
  ClientOf <- MCClientOf
  Limit = 1
  MaxHour = 1
  MaxFrames = 4
SPECIFICATION Spec
SYMMETRY MCSymmetry
INVARIANTS TypeOK FramesInOrder EndsTold LimitHolds PaidFor OurFaultGivenBack
\* Every request ends, and the clock is bounded.
CHECK_DEADLOCK FALSE
