------------------------------ MODULE MCOffline -----------------------------
(***************************************************************************)
(* The components that work without the database, explored in one run.     *)
(* They share no state, so one of them moves and the others rest: their    *)
(* product would show nothing more.                                        *)
(***************************************************************************)
EXTENDS JsonStore, QueueStats, StubRepo, Parser

CONSTANTS d1, d2, r1, r2, r3    \* documents and their ACNs

VARIABLE scene      \* which component moves

(* Two report sets with an ACN in common.                                  *)
MCContents == [d \in Documents |-> IF d = d1 THEN {r1, r2} ELSE {r2, r3}]

(* Reports 2 and 3 tie but for their id; report 1 ages at midnight.        *)
MCBase == [day \in 0 .. 1 |-> [r \in Rows |-> IF r = 1 /\ day = 0 THEN 50 ELSE 40]]
MCDates == [r \in Rows |-> IF r = 1 THEN 7 ELSE 0]

Text == Line("text", "")
Anomaly(axis) == Line("anomaly", axis)
MCProses == {<<>>, <<Text, Text>>, <<Text, Line("bare", "Person"), Text>>,
             <<Line("acn", 9), Text>>, <<Text, Line("acn", 9)>>, <<Line("bare", "Time / Day")>>}
MCTales == {<<<<Text>>>>, <<<<Text>>, <<Anomaly("x")>>>>, <<<<Line("bare", "Events"), Anomaly("x")>>>>}
MCTime == <<Line("bare", "Time / Day"), <<Text>>>>
MCBodies ==
  {<<MCTime>>,
   <<MCTime, <<Line("bare", "Events"), <<Anomaly("x"), Anomaly("y"), Anomaly("x")>>>>>>,
   <<MCTime, <<Line("bare", "Events"), <<Anomaly("x")>>>>,
     <<Line("numbered", "Person : 2"), <<Anomaly("z"), Text>>>>>>}

OfflineInit ==
  /\ JsonInit /\ StatsInit /\ StubInit /\ ParserInit
  /\ scene \in {"store", "stats", "uploads", "walk", "parser"}

OfflineNext ==
  /\ scene' = scene
  /\ \/ scene = "store"   /\ JsonNext   /\ UNCHANGED <<statsVars, stubVars, parserVars>>
     \/ scene = "stats"   /\ StatsNext  /\ UNCHANGED <<jsonVars, stubVars, parserVars>>
     \/ scene = "uploads" /\ UploadNext /\ UNCHANGED <<jsonVars, statsVars, walkVars, parserVars>>
     \/ scene = "walk"    /\ WalkNext   /\ UNCHANGED <<jsonVars, statsVars, uploadVars, parserVars>>
     \/ scene = "parser"  /\ ParserNext /\ UNCHANGED <<jsonVars, statsVars, stubVars>>

offlineVars == <<scene, jsonVars, statsVars, stubVars, parserVars>>

OfflineSpec == OfflineInit /\ [][OfflineNext]_offlineVars
=============================================================================
