\* One device that two bus subscriptions and the refreshes see, with two access
\* points it may roam between, over two seconds; reads fail at will.
SPECIFICATION FairSpec
CONSTANTS
  MAC = {m1}
  AP = {ap1, ap2}
  Topics = {t1, t2}
  MaxTime = 2
INVARIANTS
  TypeOK
  FollowerInSync
  SightingsAreReal
PROPERTIES
  NoClobber
  SnapshotConverges
