SPECIFICATION Spec
CONSTANTS
  j1 = j1
  j2 = j2
  Job = {j1, j2}
  Ticket = {}
  None = None
  Countdown = 1
  TicketLife = 1
  MaxTickets = 1
  MaxGeneration = 6
  Resumes = TRUE
SYMMETRY Symmetry
PROPERTY ResumedFailureDisarms
CHECK_DEADLOCK FALSE
