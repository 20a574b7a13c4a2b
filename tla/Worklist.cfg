\* Three reports of two severities, pages of one, a filter that an assignment can
\* cross; inserts, scoring, assignments and one worker fault during the walk.
SPECIFICATION FairSpec
CONSTANTS
  MaxId = 3
  Ids <- SomeIds
  Severities <- SomeSeverities
  Minima <- SomeMinima
  PageSize = 1
  MaxFaults = 1
INVARIANT ScoresAgree
PROPERTY NothingSkipped
INVARIANT RepeatNeedsUnscored
PROPERTY PageMeetsFilter
PROPERTY WalkEnds
