\* Every interleaving of bus requests, ticks and the loop, however slowly the
\* goroutine is scheduled; the durations keep the order of the code's (poll
\* every 10 s, a floor of 2 s, refreshes of a second or several).
SPECIFICATION FairSpec
CONSTANTS
  PollInterval = 5
  MinEventInterval = 2
  MaxRefresh = 3
INVARIANTS
  TypeOK
  NoLostWakeup
  ServedInTime
  PolledInTime
PROPERTIES
  EventFloor
  ServesEveryRequest
  ScheduledPollsRun
