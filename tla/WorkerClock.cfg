CONSTANTS
  Million = 3
  Periods <- MCPeriods
  Settings <- MCSettings
  Chunks = 2
  MaxTime = 6
  MaxSetting = 1

SPECIFICATION Spec

PROPERTIES
  NotBeforeThePeriod
  NotLaterThanTheClock
