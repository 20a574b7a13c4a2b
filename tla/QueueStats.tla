----------------------------- MODULE QueueStats -----------------------------
(***************************************************************************)
(* Queue statistics: one snapshot of the queue, cached in the API process, *)
(* read and refilled by the threads of GET /queue/stats and of the stats   *)
(* fragment without a lock.  A snapshot is stamped with the time at which  *)
(* its request began, and measured some time later, when the queue answers.*)
(***************************************************************************)
EXTENDS Integers, FiniteSets

CONSTANTS
  Threads,
  Ttl,            \* queue_stats_cache_seconds
  Slowest,        \* how long a request to the queue can take
  MaxTime         \* bound of the clock

ASSUME StatsAssumption == Ttl \in Nat /\ Slowest \in Nat /\ MaxTime \in Nat

Never == -1
Snapshots == [taken : 0 .. MaxTime, stamp : 0 .. MaxTime]
NoSnapshot == [taken |-> Never, stamp |-> Never]

VARIABLES
  now,
  snapshot,       \* QueueStatsCache._snapshot
  tpc,            \* "idle", "fetching", "fetched", "answering"
  asked,          \* when a thread's get began
  measured,       \* when the queue answered its fetch
  answer,         \* the snapshot its last get returned
  crossed,        \* whether a fetch began while another was under way
  failed,         \* whether a fetch has raised
  last,           \* when the last fetch began
  early,          \* whether a fetch has begun less than Ttl after another
  rewound         \* whether an older measurement has replaced a newer one

statsVars == <<now, snapshot, tpc, asked, measured, answer, crossed, failed, last, early, rewound>>

StatsInit ==
  /\ now = 0
  /\ snapshot = NoSnapshot
  /\ tpc = [t \in Threads |-> "idle"]
  /\ asked = [t \in Threads |-> 0]
  /\ measured = [t \in Threads |-> 0]
  /\ answer = [t \in Threads |-> NoSnapshot]
  /\ crossed = FALSE
  /\ failed = FALSE
  /\ last = Never
  /\ early = FALSE
  /\ rewound = FALSE

-----------------------------------------------------------------------------
(* The cache has nothing, or what it has is Ttl old.  Variants: every read *)
(* is a miss; a snapshot is still served long after.                       *)
StaleAlways(s, time) == TRUE
StaleLate(s, time) == s = NoSnapshot \/ time - s.stamp > Ttl + Slowest
Stale(s, time) == s = NoSnapshot \/ time - s.stamp >= Ttl

(* get: the clock and the cache are read.                                  *)
Get(t) ==
  /\ tpc[t] = "idle"
  /\ asked' = [asked EXCEPT ![t] = now]
  /\ answer' = [answer EXCEPT ![t] = NoSnapshot]
  /\ IF Stale(snapshot, now)
     THEN /\ tpc' = [tpc EXCEPT ![t] = "fetching"]
          /\ last' = now
          /\ early' = (early \/ (last # Never /\ now - last < Ttl))
          /\ crossed' = (crossed \/ \E u \in Threads : tpc[u] \in {"fetching", "fetched"})
     ELSE /\ tpc' = [tpc EXCEPT ![t] = "answering"]
          /\ UNCHANGED <<last, early, crossed>>
  /\ UNCHANGED <<now, snapshot, measured, failed, rewound>>

(* fetch_from_sqs: the queue answers.                                      *)
Measure(t) ==
  /\ tpc[t] = "fetching"
  /\ measured' = [measured EXCEPT ![t] = now]
  /\ tpc' = [tpc EXCEPT ![t] = "fetched"]
  /\ UNCHANGED <<now, snapshot, asked, answer, crossed, failed, last, early, rewound>>

(* The fetch raises: the request fails, the cache stays as it is.          *)
FetchRaises(t) ==
  /\ tpc[t] \in {"fetching", "fetched"}
  /\ tpc' = [tpc EXCEPT ![t] = "idle"]
  /\ failed' = TRUE
  /\ measured' = [measured EXCEPT ![t] = 0]
  /\ UNCHANGED <<now, snapshot, asked, answer, crossed, last, early, rewound>>

(* The snapshot is stamped with the beginning of the get, and stored.      *)
Filled(t) == [taken |-> measured[t], stamp |-> asked[t]]
Fill(t) ==
  /\ tpc[t] = "fetched"
  /\ snapshot' = Filled(t)
  /\ rewound' = (rewound \/ measured[t] < snapshot.taken)
  /\ tpc' = [tpc EXCEPT ![t] = "answering"]
  /\ measured' = [measured EXCEPT ![t] = 0]
  /\ UNCHANGED <<now, asked, answer, crossed, failed, last, early>>

(* get returns self._snapshot, read again: another thread's, perhaps.      *)
Answer(t) ==
  /\ tpc[t] = "answering"
  /\ answer' = [answer EXCEPT ![t] = snapshot]
  /\ tpc' = [tpc EXCEPT ![t] = "idle"]
  /\ UNCHANGED <<now, snapshot, asked, measured, crossed, failed, last, early, rewound>>

(* Time passes; a fetch is over, or given up, after Slowest, and what a    *)
(* thread does by itself takes no time.                                    *)
Tick ==
  /\ now < MaxTime
  /\ \A t \in Threads :
       /\ tpc[t] # "answering"
       /\ tpc[t] # "idle" => now - asked[t] < Slowest
  /\ now' = now + 1
  /\ UNCHANGED <<snapshot, tpc, asked, measured, answer, crossed, failed, last, early, rewound>>

StatsNext ==
  \/ Tick
  \/ \E t \in Threads : Get(t) \/ Measure(t) \/ FetchRaises(t) \/ Fill(t) \/ Answer(t)

StatsSpec == StatsInit /\ [][StatsNext]_statsVars

-----------------------------------------------------------------------------
(* What get returns was measured less than Ttl before the call, or no      *)
(* longer before it than a fetch can take - even when threads overwrite    *)
(* one another's snapshots.                                                *)
AnswerIsRecent ==
  \A t \in Threads : answer[t] # NoSnapshot =>
    answer[t].taken > asked[t] - Ttl \/ answer[t].taken >= asked[t] - Slowest

(* The queue sees at most one request per Ttl, and the console's numbers   *)
(* do not go back in time, unless two fetches overlap - nothing stops two  *)
(* threads that both find the cache stale - or, for the first, a fetch     *)
(* fails: a failure is not cached.                                         *)
OneFetchPerTtl ==
  \/ crossed
  \/ /\ ~rewound
     /\ early => failed
=============================================================================
