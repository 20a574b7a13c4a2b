\* The worker's JSON file, the queue statistics, the in-memory repository and
\* the parser.  Each comes to rest at its bounds.
SPECIFICATION OfflineSpec
CONSTANTS
  d1 = d1  d2 = d2  r1 = r1  r2 = r2  r3 = r3
  Documents = {d1, d2}
  Reports = {r1, r2, r3}
  Contents <- MCContents
  Processes = {p1, p2}
  Torn = Torn
  NoDocument = NoDocument  NoCopy = NoCopy
  MaxStarts = 4
  MaxFaults = 1
  Threads = {t1, t2}
  Ttl = 2
  Slowest = 3
  MaxTime = 5
  Clerks = {c1, c2}
  Pdfs = {pdf1, pdf2}
  Rows = {1, 2, 3}
  Base <- MCBase
  FlagBonus = 20
  Dates <- MCDates
  PageSize = 1
  MaxDocuments = 2
  MaxFailures = 1
  Proses <- MCProses
  Tales <- MCTales
  Bodies <- MCBodies
  MaxFront = 1
  MaxRecords = 2
INVARIANTS
  StoredUnlessOverlap
  AnswerIsRecent
  OneFetchPerTtl
  OneRowOneMessage
  SteadyListedOnce
  ExtractedAsPrinted
PROPERTY
  FileImplementsCatalogue
CHECK_DEADLOCK FALSE
