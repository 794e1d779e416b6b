---------------------------- MODULE MCMainServer ----------------------------
(* One known and one unknown collector, one database.  A workload is a      *)
(* failed run with two more requests of a collector, or a scan and a PII    *)
(* report with one more of either.                                          *)
EXTENDS MainServer

CONSTANTS n1, n2, db

R(kind, node, at, error, guc) ==
    [kind |-> kind, node |-> node, target |-> db, at |-> at,
     error |-> error, guc |-> guc]

MCNodes == {n1, n2}
MCTargets == {db}

Heartbeat == R("heartbeat", n1, 2, FALSE, FALSE)
BadRun    == R("run", n1, 3, TRUE, FALSE)
GoodRun   == R("run", n1, 2, FALSE, FALSE)
PiiReport == R("pii", n1, 2, FALSE, FALSE)

Activity  == R("activity", n1, 2, FALSE, FALSE)

Fleet == {Heartbeat, BadRun, R("register", n1, 1, FALSE, FALSE),
          R("log", n2, 1, FALSE, FALSE)}
OldScan   == R("scan", n1, 1, FALSE, TRUE)
Scans == {OldScan, R("scan", n1, 3, FALSE, FALSE),
          PiiReport, R("pii", n1, 3, FALSE, FALSE)}

MCRequests == Fleet \cup Scans \cup {GoodRun, Activity}
MCWorkloads == {w \in SUBSET Fleet : Cardinality(w) = 3 /\ BadRun \in w}
               \cup {w \in SUBSET Scans : Cardinality(w) = 3 /\ {OldScan, PiiReport} \subseteq w}
               \cup {{Heartbeat, BadRun, GoodRun}, {Heartbeat, BadRun, Activity},
                      {BadRun, Activity, PiiReport}}
=============================================================================
