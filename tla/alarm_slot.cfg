SPECIFICATION AlarmSpec
CONSTANTS
  OwnerCalls = {owner1, owner2}
  Alarm = alarm
  MaxSteps = 2
  Pages = 2
  MaxWork = 3
  MaxFailures = 2
INVARIANT CollectionIsArmed
PROPERTIES JobsEnd
