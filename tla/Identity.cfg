\* Crashes between any two steps, edits at any time, saves that fail.
SPECIFICATION Spec
CONSTANTS
  Ids = {id1, id2, id3, id4}
  Polls = {0, 30}
INVARIANTS
  TypeOK
  NeverTorn
PROPERTIES
  AnnouncedOnceIfSaved
