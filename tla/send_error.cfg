SPECIFICATION FairSpec
CONSTANTS
  Msg = {m1, m2, bad}
  Invalid = {bad}
  MaxRetries = 2
  Status200 = s200
  OkStatus = {s200, s204}
  ErrorStatus = {s404, s503}
  RetryStatus = {s503}
  Io = {ECONNRESET, ETIMEDOUT, ENOTFOUND}
  RetryIo = {ECONNRESET, ETIMEDOUT}
INVARIANT ErrorMeansNoneSent
CHECK_DEADLOCK FALSE
