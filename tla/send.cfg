SPECIFICATION FairSpec
CONSTANTS
  Msg = {m1, m2, m3, bad}
  Invalid = {bad}
  MaxRetries = 2
  Status200 = s200
  OkStatus = {s200, s204}
  ErrorStatus = {s404, s503}
  RetryStatus = {s503}
  Io = {ECONNRESET, ETIMEDOUT, ENOTFOUND}
  RetryIo = {ECONNRESET, ETIMEDOUT}
INVARIANT NoSessionLeaked
INVARIANT SessionErrorIsReported
PROPERTY NothingStartsAfterward
PROPERTY ImplementsBatch
PROPERTY BatchSettles
CHECK_DEADLOCK FALSE
