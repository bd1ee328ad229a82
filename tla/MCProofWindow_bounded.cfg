CONSTANTS
  Half <- Width9
  Second = 8
  Skew = 24
  MaxLife = 160
  Clock <- SomeClock
  Created <- SomeDates
  Expiries <- AllDates
SPECIFICATION Spec
INVARIANT LifeBounded
CHECK_DEADLOCK FALSE
