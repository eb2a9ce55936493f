\* Connections that break and overlap, channels that fill up, a client that
\* comes and goes, and a token that may be rejected.
SPECIFICATION FairSpec
CONSTANTS
  Conn = {k1, k2}
  Capacity = 1
  MaxVersion = 3
INVARIANTS
  TypeOK
  LooksAgain
PROPERTIES
  SubscribersEnd
  PushRecovers
