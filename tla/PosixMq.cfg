SPECIFICATION MqFairSpec
CONSTANTS
  Runs = 4
  MaxMsg = 2
CHECK_DEADLOCK FALSE
INVARIANT
  OneQueue
PROPERTIES
  QueueDrained
  StuckBehindKilled
