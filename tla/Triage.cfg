\* Two requests at a time by two analysts and a manager; three disposition ids.
SPECIFICATION FairSpec
CONSTANTS
  Requests = {q1, q2}
  Analysts = {a1, a2}
  Managers = {m}
  Assignees = {a1, a2}
  States = {triaged, closed}
  NewState = new
  Nobody = Nobody
  NoRequest = NoRequest
  MaxIds = 2
INVARIANT StateIsLastDisposition
INVARIANT UsurpingNeedsOvertaking
INVARIANT AssignedAsAsked
INVARIANT PriorityFollowsFlag
PROPERTY RequestsEnd
