\* The plugin is restarted while a device is away for a moment.
SPECIFICATION Spec
CONSTANTS
  MAC = {m1}
  ConsiderHome = 2
  MaxTime = 3
  MaxHandlers = 1
PROPERTIES
  GraceAlwaysHonoured
