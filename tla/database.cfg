SPECIFICATION DFairSpec
CONSTANTS
  AccessToken = {t1, t2}
  NoToken = NoToken
  Failed = Failed
  NoDispatch = NoDispatch
  Listener = {l1, db}
  db = db
  Url = {u1}
  Ahead = 1
  Lifetime = {2, 3}
  Threshold = 1
  MaxTime = 2
  MaxRefresh = 2
  MaxListeners = 2
INVARIANT WaitersGetPendingPromise
INVARIANT PlainRefreshIsShared
INVARIANT ListenersInSync
INVARIANT RefreshIsScheduled
INVARIANT NoTimerAfterDelete
PROPERTY RefreshFlagClears
CHECK_DEADLOCK FALSE
