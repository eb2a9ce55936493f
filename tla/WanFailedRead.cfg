\* A counter read that fails between two that are answered.
SPECIFICATION Spec
CONSTANTS
  Directions = {rx, tx}
  Modulus = 3
  MaxCarried = 1
  MaxTime = 3
INVARIANTS
  RatesComeFromTheLastPoll
