\* Two documents that share an ACN, one upload page, two workers.
SPECIFICATION Spec
CONSTANTS
  d1 = d1  d2 = d2  r1 = r1  r2 = r2
  Docs = {d1, d2}
  Reports = {r1, r2}
  Contents <- SharedContents
  Unreadable = {}
  Clients = {c1}
  Workers = {w1, w2}
  NoDoc = NoDoc
  NoMsg = NoMsg
  MaxSends = 1
  MaxReceive = 2
  MaxSendFaults = 0
  MaxApiCrashes = 0
  MaxDbFaults = 0
  MaxWorkerFaults = 1
  QueueUrlSet = TRUE
  HeartbeatReliable = FALSE
SYMMETRY Symmetry
INVARIANT AlertedAtMostOnce
PROPERTY ImplementsCatalogue
