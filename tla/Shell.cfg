SPECIFICATION MCSpec
CONSTANTS
  w1 = w1  w2 = w2  t1 = t1  t2 = t2  NoWorker = NoWorker
  Modulus = 7  MaxInterval = 2  Slack = 1  MaxCalls = 2
  Checked = {"watchdog", "ends", "two", "gc", "oom"}
INVARIANTS SleepersWoken WorkersOwned NothingStranded LifetimesKept
PROPERTIES NeverDecidesEarly WatchdogProgress PoolProgress
