\* Three flows about two routers, addresses and tokens.
SPECIFICATION Spec
CONSTANTS
  Router = {r1, r2}
  Url = {u1, u2}
  Token = {t1, t2}
  Flow = {f1, f2, f3}
  None = None
INVARIANTS
  TypeOK
  FlowsUnique
PROPERTIES
  ImplementsRegistry
  DiscoveryNeverRepoints
SYMMETRY Symmetry
