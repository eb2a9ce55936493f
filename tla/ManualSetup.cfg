\* An offer is on the screen while its router is added by hand.
SPECIFICATION Spec
CONSTANTS
  Router = {r1, r2}
  Url = {u1, u2}
  Token = {t1, t2}
  Flow = {f1, f2}
  None = None
PROPERTIES
  ManualSetupAvailable
