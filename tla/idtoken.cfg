SPECIFICATION Spec
CONSTANTS
  k1 = k1
  k2 = k2
  v1 = v1
  v2 = v2
  t1 = t1
  Kid = {k1, k2}
  Verification = {v1, v2}
  Call <- MCCall
  Asked <- MCAsked
  Tenant = {t1}
  KeySet <- MCKeySet
  MaxAge = 1
  MaxCalls = 4
  MaxTime = 2
  NoKeys = NoKeys
  NoTenant = NoTenant
  NotAsked = NotAsked
  MaxRotations = 1
  NoKid = NoKid
  Unsigned = Unsigned
INVARIANT CacheIsNewest
INVARIANT AcceptedWithFreshKey
INVARIANT AcceptedForGoodUser
INVARIANT RefusedForCause
CHECK_DEADLOCK FALSE
SYMMETRY Symmetry
