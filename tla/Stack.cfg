\* Migrations, the local stack, the BTS loader and the flight linkage.  The
\* operator types a bounded number of commands, so the run comes to rest.
SPECIFICATION StackAndDataSpec
CONSTANTS
  Uploads = {p1, p2}
  MaxCommands = 5
  C1 = C1  C2 = C2  A1 = A1  A2 = A2  D2 = D2  T1 = T1  S1 = S1
  K1 = K1  K2 = K2  K3 = K3  R1 = R1
  Blank = Blank  Garbage = Garbage
  Number <- MCNumber
  Plain <- MCPlain
  Files <- MCFiles
  Dated <- MCDated
  FlightDate <- MCFlightDate
  Loads = {l1, l2}
  MaxLoads = 3
  Linkers = {s1, s2}
SYMMETRY Interchangeable
INVARIANTS
  MigrationsFit
  AppRunsOnSchema
  OwnReportsUnlessErased
  LoadsGoThrough
  OneLinkUnlessOverlap
PROPERTY
  ReloadChangesNothing
CHECK_DEADLOCK FALSE
