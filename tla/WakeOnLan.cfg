\* Two routers.
SPECIFICATION WakeFairSpec
CONSTANT Entry = {e1, e2}
INVARIANTS
  WakeTypeOK
  RightDomain
  SuccessIsReal
PROPERTIES
  EveryRouterTried
  BreaksForAReason
  CallsEnd
