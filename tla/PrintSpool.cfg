CONSTANTS
  Clients = {c1, c2}
  Jobs <- AllJobs
  ListenBacklog = 1
  NoClient = NoClient
SPECIFICATION FairSpec
INVARIANTS JobIsComplete AckMatchesVerdict
PROPERTIES ImplementsPrintJob ThreadsEnd ClientsEndUnlessLast
CHECK_DEADLOCK FALSE
