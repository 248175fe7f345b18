CONSTANTS
  Operations = {"act"}
  MaxSessions = 2
  MaxCalls = 6
  MaxOut = 3
  MaxFaults = 1
  MaxReloads = 1
SPECIFICATION FairSpec
INVARIANTS OpenStreamsTracked TicketSpentOnce ReloadResumes
PROPERTIES SignOutAccounted SignOutSettles
\* The bounds on requests and sign-ins end every behaviour.
CHECK_DEADLOCK FALSE
