SPECIFICATION Spec
CONSTANTS
  NoApp = NoApp
  NoName = NoName
  MaxApp = 2
  MaxDeletion = 2
  Name = {n1, n2}
  Service = {s1, plain}
  Stateful = {s1}
CHECK_DEADLOCK FALSE
INVARIANT DeletesTheAppAsked
