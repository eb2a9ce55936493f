\* Two tokens, rotated at any time; failures, reloads and restarts everywhere.
SPECIFICATION FairSpec
CONSTANTS
  Token = {t1, t2}
  None = None
INVARIANTS
  TypeOK
  NeverSilent
PROPERTIES
  PollingRecovers
  PushRecoversToo
