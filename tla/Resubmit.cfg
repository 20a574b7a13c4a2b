\* complete for a document whose message is in the dead-letter queue.
SPECIFICATION Spec
CONSTANTS
  d1 = d1  d2 = d2  r1 = r1  r2 = r2
  Docs = {d1}
  Reports = {r1}
  Contents <- SingleContents
  Unreadable = {}
  Clients = {c1, c2}
  Workers = {w1, w2}
  NoDoc = NoDoc
  NoMsg = NoMsg
  MaxSends = 2
  MaxReceive = 3
  MaxSendFaults = 1
  MaxApiCrashes = 0
  MaxDbFaults = 0
  MaxWorkerFaults = 1
  QueueUrlSet = TRUE
  HeartbeatReliable = TRUE
PROPERTY RefusedMeansUnderWay
