SPECIFICATION FairSpec
CONSTANTS
  j1 = j1
  j2 = j2
  t1 = t1
  Job = {j1, j2}
  Ticket = {t1}
  None = None
  Countdown = 2
  TicketLife = 1
  MaxTickets = 1
  MaxGeneration = 4
  Resumes = TRUE
PROPERTY DispatchOnlyIdle
PROPERTY DispatchAfterSuccess
PROPERTY DispatchAfterCountdown
PROPERTY NothingStartsAfterDispatch
PROPERTY FinishSettles
CHECK_DEADLOCK FALSE
