\* A good and a broken document, one delivery each, a prompt heartbeat, and
\* two worker crashes or transient errors against three receives.
SPECIFICATION FairSpec
CONSTANTS
  d1 = d1  d2 = d2  r1 = r1  r2 = r2
  Docs = {d1, d2}
  Reports = {r1}
  Contents <- PoisonContents
  Unreadable = {d2}
  Clients = {c1}
  Workers = {w1, w2}
  NoDoc = NoDoc
  NoMsg = NoMsg
  MaxSends = 1
  MaxReceive = 3
  MaxSendFaults = 0
  MaxApiCrashes = 0
  MaxDbFaults = 0
  MaxWorkerFaults = 2
  QueueUrlSet = TRUE
  HeartbeatReliable = TRUE
 
 
PROPERTY MessagesSettleRightly
PROPERTY GoodDocumentParsed
PROPERTY EveryMessageSettles
PROPERTY PoisonIsDeadLettered
