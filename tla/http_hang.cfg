SPECIFICATION FairSpec
CONSTANTS
  MaxRetries = 1
  OkStatus = {s200}
  ErrorStatus = {s404, s503}
  RetryStatus = {s503}
  SocketIo = {ECONNRESET, ENOTFOUND}
  DecodeIo = {Z_DATA_ERROR}
  RetryIo = {ECONNRESET, ETIMEDOUT}
  ETIMEDOUT = ETIMEDOUT
  BackOffMillis = 2
  MaxDelay = 5
  RetryAfter <- MCRetryAfter
  HasTimeout = TRUE
  NoError = NoError
  None = None
PROPERTY SendSettles
CHECK_DEADLOCK FALSE
