\* A walk over a table with reports that no worker will score.
SPECIFICATION Spec
CONSTANTS
  MaxId = 3
  Ids <- SomeIds
  Severities <- SomeSeverities
  Minima <- SomeMinima
  PageSize = 1
  MaxFaults = 1
INVARIANT EachListedOnce
