SPECIFICATION FairIttiSpec
CONSTANTS
  l2l1 = l2l1
  app = app
  Order <- TwoTasks
  SubTasks = {mac}
  Modem = modem
  Exiters = {app}
  Talkers = {app, modem}
  MaxSends = 1
  Interrupts = TRUE
INVARIANTS
  NobodyRunsAhead
  EventsMatchQueue
PROPERTIES
  TasksEnd
  MessagesArrive
CHECK_DEADLOCK FALSE
