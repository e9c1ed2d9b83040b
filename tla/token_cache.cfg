SPECIFICATION Spec
CONSTANTS
  AccessToken = {t1}
  NoToken = NoToken
  Failed = Failed
  NoDispatch = NoDispatch
  Listener = {}
  Lifetime = {3}
  Threshold = 1
  MaxTime = 3
  MaxRefresh = 3
  MaxListeners = 0
INVARIANT GetTokenServesCache
CHECK_DEADLOCK FALSE
