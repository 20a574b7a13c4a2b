\* The bounds of Triage.cfg.
SPECIFICATION Spec
CONSTANTS
  Requests = {q1, q2}
  Analysts = {a1, a2}
  Managers = {m}
  Assignees = {a1, a2}
  States = {triaged, closed}
  NewState = new
  Nobody = Nobody
  NoRequest = NoRequest
  MaxIds = 2
INVARIANT OnlyOwnReports
