SPECIFICATION FairSpec
CONSTANTS
  k1 = k1
  k2 = k2
  k3 = k3
  NoKey = NoKey
  Callers = {a, b}
  Keys = {k1, k2, k3}
  Pool <- ThreeKeys
  RateLimitCooldown = 2
  TransientCooldown = 1
  MaxRetryAfter = 1
INVARIANTS
  TypeOK
  FallbackInOrder
PROPERTIES
  FailsOnlyWhenExhausted
  RejectedStayOut
  KeysRecover
 
