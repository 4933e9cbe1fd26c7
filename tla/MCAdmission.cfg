SPECIFICATION Spec
CONSTANTS
  Families <- AllFamilies
  MaxNow = 6
INVARIANTS EvictionSuffices VictimsAreIdleAndHighest OkFits NoEvictionPingPong
PROPERTY GraceFlagIsExact
CHECK_DEADLOCK FALSE
