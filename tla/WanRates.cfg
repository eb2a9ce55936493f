\* Both directions; words small enough to wrap.
SPECIFICATION Spec
CONSTANTS
  Directions = {rx, tx}
  Modulus = 2
  MaxCarried = 2
  MaxTime = 2
INVARIANTS
  TypeOK
  RatesAreTraffic
