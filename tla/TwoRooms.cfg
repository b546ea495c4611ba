CONSTANTS
  Thread = {t1, t2, t3}
  HandOff = TRUE
SPECIFICATION MCFairSpec
INVARIANTS CounterRaceFree BoundedBypass
PROPERTIES ImplementsExclusiveLock NoStarvation
