\* One device. Each unit of time may see refreshes, sightings, updates, restarts, failures
\* and reloads; within three instants a grace period begins, ends and begins again.
SPECIFICATION FairSpec
CONSTANTS
  MAC = {m1}
  ConsiderHome = 1
  MaxTime = 3
  MaxHandlers = 1
INVARIANTS
  TypeOK
  EveryDeviceHasATracker
PROPERTIES
  GraceHonoured
  HomeIsRecent
  TrackersConverge
