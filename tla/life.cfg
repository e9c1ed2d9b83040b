SPECIFICATION LifeSpec
CONSTANTS
  NoApp = NoApp
  NoName = NoName
  MaxApp = 2
  MaxDeletion = 3
  Name = {n1, n2}
  Service = {s1, plain}
  Stateful = {s1}
  InitialDelay = 1
  MaxPollingDelay = 3
  MasterTimeout = 9
  MaxTime = 13
  NoTimer = NoTimer
INVARIANT OnceDeletesTheAppAsked
INVARIANT AppsLeaveForCause
INVARIANT NoEarlyServiceOutlivesApp
INVARIANT PendingIsPolled
PROPERTY ImplementsAppLife
PROPERTY DeletionCompletes
PROPERTY SettlesForGood
PROPERTY PollSettles
CHECK_DEADLOCK FALSE
