---------------------------- MODULE MainServer ----------------------------
(***************************************************************************)
(* The store of the main server as its collector endpoints fill it.  A     *)
(* delivery is one HTTP post of a request, handled by a goroutine of its   *)
(* own; a request whose 2xx does not reach the collector is posted again,  *)
(* so it may be handled twice, late, and beside its own first copy.  A     *)
(* handler is a row of SQL statements: every one is atomic, any one may    *)
(* fail, and the server may stop between two.                              *)
(*                                                                         *)
(* Two repositories stand behind one interface.  The SQLite one holds a    *)
(* mutex over each repository call, the PostgreSQL one does not; backend   *)
(* says which one is in use.                                               *)
(***************************************************************************)
EXTENDS Integers, FiniteSets

CONSTANTS
    Nodes,       \* collectors, by node_id
    Targets,     \* databases, by target_id
    Requests,    \* the requests collectors have to post
    Workloads,   \* sets of requests that may be under way together
    MaxPosts,    \* bound: posts of one request (1 + maxRetries in the code)
    MaxDeliveries,  \* bound: posts of all requests together
    MaxTime,     \* bound: timestamps are 1 .. MaxTime
    None         \* no row, nobody

Kinds == {"register", "heartbeat", "activity", "log", "run", "scan", "pii"}
Times == 1 .. MaxTime

\* A request: what the statements write of it.  A field that the kind of
\* request does not have is never read.
Request == [kind : Kinds, node : Nodes, target : Targets, at : Times,
            error : BOOLEAN, guc : BOOLEAN]

\* A delivery is a request and the number of its post.
Deliveries == Requests \X (1 .. MaxPosts)
Req(d) == d[1]

\* A row of collector_status: when the node was last seen, when its last run
\* ended (0: none yet) and whether it shows an error.
StatusRow == [seen : Times, lastRun : 0 .. MaxTime, error : BOOLEAN]

\* A row of scan_results: its target, when its run started, and which requests
\* wrote its two reports.
RunRow == [target : Targets, started : Times, scan : Requests \cup {None},
           pii : Requests \cup {None}]

ASSUME RequestsAssumption == Requests \subseteq Request
ASSUME WorkloadsAssumption == Workloads \subseteq SUBSET Requests
ASSUME BoundsAssumption ==
    MaxPosts \in Nat \ {0} /\ MaxTime \in Nat /\ MaxDeliveries \in Nat
ASSUME NoneAssumption ==
    None \notin Requests /\ None \notin Deliveries
    /\ None \notin StatusRow /\ None \notin RunRow

VARIABLES
    backend,   \* "sqlite" or "postgres"
    load,      \* the requests of this behaviour
    posts,     \* posts[r]: how often r has been posted
    pc,        \* pc[d]: the statement delivery d executes next
    found,     \* found[d]: the run that PersistPIIReport has looked up
    writeMu,   \* the delivery that holds the SQLite repository's mutex
    status,    \* collector_status: by node
    children,  \* rows of collector_activity, _logs and _runs: by delivery
    runs,      \* scan_results: by the delivery that inserted the row
    gucs,      \* server_guc_snapshots: by target, the request it came from
    acked      \* requests answered with 200

vars == <<backend, load, posts, pc, found, writeMu, status, children,
          runs, gucs, acked>>

Statements == {"upsertStatus", "insertChild", "touch", "insertRun",
               "runStatus", "upsertGuc", "insertScan", "lookup", "attach",
               "answer"}

\* StoreScanResult writes the settings before the scan, if there are any.
ScanBegins(r) == IF r.guc THEN "upsertGuc" ELSE "insertScan"

\* The first statement of a request's handler.
FirstStatement(r) ==
    CASE r.kind \in {"register", "heartbeat"} -> "upsertStatus"
      [] r.kind \in {"activity", "log"} -> "insertChild"
      [] r.kind = "run" -> "insertRun"
      [] r.kind = "scan" -> ScanBegins(r)
      [] r.kind = "pii" -> "lookup"

Init ==
    /\ backend \in {"sqlite", "postgres"}
    /\ load \in Workloads
    /\ posts = [r \in Requests |-> 0]
    /\ pc = [d \in Deliveries |-> "idle"]
    /\ found = [d \in Deliveries |-> None]
    /\ writeMu = None
    /\ status = [n \in Nodes |-> None]
    /\ children = {}
    /\ runs = [d \in Deliveries |-> None]
    /\ gucs = [t \in Targets |-> None]
    /\ acked = {}

-----------------------------------------------------------------------------
(* The collector's side and the network.                                   *)

\* A post reaches the server.  The collector posts again when it has heard an
\* error, or nothing in time: the 200 may have been lost, and the handler of
\* the earlier post may still be at work.
Post(r) ==
    /\ r \in load /\ posts[r] < MaxPosts
    /\ Cardinality({d \in Deliveries : pc[d] # "idle"}) < MaxDeliveries
    /\ posts' = [posts EXCEPT ![r] = @ + 1]
    /\ pc' = [pc EXCEPT ![<<r, posts[r] + 1>>] = FirstStatement(r)]
    /\ UNCHANGED <<backend, load, found, writeMu, status, children, runs, gucs,
                   acked>>

-----------------------------------------------------------------------------
(* The handlers.                                                           *)

\* withWriteLock: a SQLite statement that writes needs the mutex, or has it
\* from the statement before.
MayWriteUnlocked(d) == TRUE     \* mutant: the first statement is not under it
MayWrite(d) == backend = "postgres" \/ writeMu \in {None, d}

\* The statement of d is done and the repository call ends with it.
Done(d, next) ==
    /\ pc' = [pc EXCEPT ![d] = next]
    /\ writeMu' = IF writeMu = d THEN None ELSE writeMu

\* The statement of d is done and the repository call goes on.
Continue(d, next) ==
    /\ pc' = [pc EXCEPT ![d] = next]
    /\ writeMu' = IF backend = "sqlite" THEN d ELSE None

\* The foreign keys of the child tables.  SQLite checks them only on the one
\* pooled connection that EnsureSchema sent its PRAGMA to, so that a statement
\* for an unknown node may pass there.
ParentKnown(d) == backend = "sqlite" \/ status[Req(d).node] # None

\* INSERT INTO collector_status ... ON CONFLICT DO UPDATE by a registration or
\* a heartbeat: every column but last_run_at is overwritten.
UpsertCollectorStatus(d) ==
    /\ pc[d] = "upsertStatus" /\ MayWrite(d)
    /\ LET r == Req(d)
           row == status[r.node]
       IN  /\ status' = [status EXCEPT ![r.node] =
                [seen |-> r.at,
                 lastRun |-> IF row = None THEN 0 ELSE row.lastRun,
                 error |-> r.kind = "heartbeat" /\ r.error]]
           /\ Done(d, IF r.kind = "register" THEN "insertChild" ELSE "answer")
    /\ UNCHANGED <<backend, load, posts, found, children, runs, gucs, acked>>

\* INSERT INTO collector_activity or collector_logs.
InsertCollectorActivity(d) ==
    /\ pc[d] = "insertChild" /\ MayWrite(d) /\ ParentKnown(d)
    /\ children' = children \cup {d}
    /\ Done(d, IF Req(d).kind = "register" THEN "answer" ELSE "touch")
    /\ UNCHANGED <<backend, load, posts, found, status, runs, gucs, acked>>

\* UPDATE collector_status SET last_seen_at: no row, no effect.
TouchCollectorLastSeen(d) ==
    /\ pc[d] = "touch" /\ MayWrite(d)
    /\ status' = [status EXCEPT ![Req(d).node] =
                    IF @ = None THEN None ELSE [@ EXCEPT !.seen = Req(d).at]]
    /\ Done(d, "answer")
    /\ UNCHANGED <<backend, load, posts, found, children, runs, gucs, acked>>

\* InsertCollectorRun, first statement: the row of collector_runs.
InsertCollectorRun(d) ==
    /\ pc[d] = "insertRun" /\ MayWrite(d) /\ ParentKnown(d)
    /\ children' = children \cup {d}
    /\ Continue(d, "runStatus")
    /\ UNCHANGED <<backend, load, posts, found, status, runs, gucs, acked>>

\* Its second statement: the status row.  An error stays until a heartbeat or
\* a registration overwrites it.
UpsertRunStatusPlain(d) ==      \* mutant: last_error = excluded.last_error
    /\ pc[d] = "runStatus" /\ MayWrite(d)
    /\ status' = [status EXCEPT ![Req(d).node] =
          [seen |-> Req(d).at, lastRun |-> Req(d).at, error |-> Req(d).error]]
    /\ Done(d, "answer")
    /\ UNCHANGED <<backend, load, posts, found, children, runs, gucs, acked>>

UpsertRunStatus(d) ==
    /\ pc[d] = "runStatus" /\ MayWrite(d)
    /\ LET r == Req(d)
           row == status[r.node]
       IN  status' = [status EXCEPT ![r.node] =
             [seen |-> r.at, lastRun |-> r.at,
              error |-> r.error \/ (row # None /\ row.error)]]
    /\ Done(d, "answer")
    /\ UNCHANGED <<backend, load, posts, found, children, runs, gucs, acked>>

\* StoreScanResult, first call: the snapshot of the settings, if it has one.
UpsertServerGucSnapshot(d) ==
    /\ pc[d] = "upsertGuc" /\ MayWrite(d)
    /\ gucs' = [gucs EXCEPT ![Req(d).target] = Req(d)]
    /\ Done(d, "insertScan")
    /\ UNCHANGED <<backend, load, posts, found, status, children, runs, acked>>

Run(target, started, scan, pii) ==
    [target |-> target, started |-> started, scan |-> scan, pii |-> pii]

\* Its second call: a new row with a new id, also for a request that was
\* stored before.
PersistScanResult(d) ==
    /\ pc[d] = "insertScan" /\ MayWrite(d)
    /\ runs' = [runs EXCEPT ![d] =
                  Run(Req(d).target, Req(d).at, Req(d), None)]
    /\ Done(d, "answer")
    /\ UNCHANGED <<backend, load, posts, found, status, children, gucs, acked>>

\* ORDER BY started_at DESC LIMIT 1: any one of the newest runs of a target.
RunsOf(t) == {i \in Deliveries : runs[i] # None /\ runs[i].target = t}
Latest(t) == {i \in RunsOf(t) : \A j \in RunsOf(t) :
                                   runs[j].started <= runs[i].started}

\* PersistPIIReport, first statement: look up the latest run of the target.
LookupRun(d) ==
    /\ pc[d] = "lookup" /\ MayWrite(d)
    /\ IF RunsOf(Req(d).target) = {}
       THEN found' = [found EXCEPT ![d] = None]
       ELSE \E i \in Latest(Req(d).target) : found' = [found EXCEPT ![d] = i]
    /\ Continue(d, "attach")
    /\ UNCHANGED <<backend, load, posts, status, children, runs, gucs, acked>>

\* Its second statement: UPDATE the run that was found, or insert a run that
\* has nothing but the PII report and starts now, by the server's clock.
PersistPIIOverwrites(d) ==      \* mutant: the row is written as a new one
    /\ pc[d] = "attach" /\ MayWrite(d)
    /\ \E now \in Times :
          runs' = [runs EXCEPT ![IF found[d] = None THEN d ELSE found[d]] =
                     Run(Req(d).target, now, None, Req(d))]
    /\ Done(d, "answer")
    /\ UNCHANGED <<backend, load, posts, found, status, children, gucs, acked>>

PersistPIIReport(d) ==
    /\ pc[d] = "attach" /\ MayWrite(d)
    /\ \/ /\ found[d] # None
          /\ runs' = [runs EXCEPT ![found[d]].pii = Req(d)]
       \/ /\ found[d] = None
          /\ \E now \in Times :
                runs' = [runs EXCEPT ![d] =
                           Run(Req(d).target, now, None, Req(d))]
    /\ Done(d, "answer")
    /\ UNCHANGED <<backend, load, posts, found, status, children, gucs, acked>>

\* Every statement succeeded: 200.
AnswerOk(d) ==
    /\ pc[d] = "answer"
    /\ pc' = [pc EXCEPT ![d] = "ended"]
    /\ acked' = acked \cup {Req(d)}
    /\ UNCHANGED <<backend, load, posts, found, writeMu, status, children,
                   runs, gucs>>

\* A statement fails (a key violation, a busy or unreachable database, the
\* context of a request whose sender has given up): 500, the rest is skipped.
FailHolding(d) ==       \* mutant: the unlock is not deferred
    /\ pc[d] \in Statements \ {"answer"} /\ MayWrite(d)
    /\ pc' = [pc EXCEPT ![d] = "ended"]
    /\ UNCHANGED <<backend, load, posts, found, writeMu, status, children, runs,
                   gucs, acked>>

FailIgnored(d) ==       \* mutant: an error is logged and passed over
    /\ pc[d] \in Statements \ {"answer"} /\ MayWrite(d)
    /\ Done(d, CASE pc[d] = "insertRun" -> "runStatus"
                 [] pc[d] = "upsertGuc" -> "insertScan"
                 [] OTHER -> "answer")
    /\ UNCHANGED <<backend, load, posts, found, status, children, runs, gucs,
                   acked>>

Fail(d) ==
    /\ pc[d] \in Statements \ {"answer"} /\ MayWrite(d)
    /\ Done(d, "ended")
    /\ UNCHANGED <<backend, load, posts, found, status, children, runs, gucs,
                   acked>>

\* The process stops and is started again: the handlers and the mutex are
\* gone, the tables stay.
Crash ==
    /\ \E d \in Deliveries : pc[d] \in Statements
    /\ pc' = [d \in Deliveries |->
                IF pc[d] \in Statements THEN "ended" ELSE pc[d]]
    /\ writeMu' = None
    /\ UNCHANGED <<backend, load, posts, found, status, children, runs, gucs,
                   acked>>

Statement(d) ==
    \/ UpsertCollectorStatus(d)
    \/ InsertCollectorActivity(d)
    \/ TouchCollectorLastSeen(d)
    \/ InsertCollectorRun(d)
    \/ UpsertRunStatus(d)
    \/ UpsertServerGucSnapshot(d)
    \/ PersistScanResult(d)
    \/ LookupRun(d)
    \/ PersistPIIReport(d)
    \/ AnswerOk(d)
    \/ Fail(d)

Next ==
    \/ \E r \in Requests : Post(r)
    \/ \E d \in Deliveries : Statement(d)
    \/ Crash

\* While a handler can execute its next statement some handler does: goroutines
\* are scheduled and the database answers or fails.
Spec == Init /\ [][Next]_vars /\ WF_vars(\E d \in Deliveries : Statement(d))
-----------------------------------------------------------------------------
(* Properties.                                                             *)

\* Types, and where the mutex can be: nobody has it under PostgreSQL, and
\* under SQLite only a handler between the two statements of one call.
TypeOK ==
    /\ backend \in {"sqlite", "postgres"}
    /\ load \subseteq Requests
    /\ posts \in [Requests -> 0 .. MaxPosts]
    /\ pc \in [Deliveries -> {"idle", "ended"} \cup Statements]
    /\ found \in [Deliveries -> Deliveries \cup {None}]
    /\ status \in [Nodes -> StatusRow \cup {None}]
    /\ children \subseteq Deliveries
    /\ runs \in [Deliveries -> RunRow \cup {None}]
    /\ gucs \in [Targets -> Requests \cup {None}]
    /\ acked \subseteq Requests
    /\ writeMu \in Deliveries \cup {None}
    /\ writeMu # None => backend = "sqlite" /\ pc[writeMu] \in {"runStatus", "attach"}

\* What a 200 promises: the rows of the request are there, and whatever went
\* wrong on the way (a failed statement, a stop between two) gave no 200.
Stored(r) ==
    CASE r.kind = "heartbeat" -> status[r.node] # None
      [] r.kind \in {"activity", "log"} -> \E d \in children : Req(d) = r
      [] r.kind \in {"register", "run"} ->
            status[r.node] # None /\ \E d \in children : Req(d) = r
      [] r.kind = "scan" -> \E d \in Deliveries : runs[d] # None /\ runs[d].scan = r
      [] r.kind = "pii" -> \E d \in RunsOf(r.target) : runs[d].pii # None

AckedIsStored == \A r \in acked : Stored(r)

\* A node that shows a last run has that run in its list: the run is written
\* first, and a stop before the second statement leaves the older time.
LastRunIsStored ==
    \A n \in Nodes :
       status[n] # None /\ status[n].lastRun # 0 =>
          \E d \in children : /\ Req(d).kind = "run" /\ Req(d).node = n
                              /\ Req(d).at = status[n].lastRun

\* A scan that brought its settings is never in the store without a snapshot
\* of settings for its target: the snapshot is written first.
SnapshotWithScan ==
    \A d \in Deliveries :
       runs[d] # None /\ runs[d].scan # None /\ runs[d].scan.guc =>
          gucs[runs[d].target] # None

\* Under SQLite a target has at most one run that holds nothing but a PII
\* report: looking for a run and inserting one is one step for all others,
\* however many PII reports arrive at once.
OnePiiOnlyRun ==
    backend = "sqlite" =>
       \A t \in Targets : \A i, j \in RunsOf(t) :
          runs[i].scan = None /\ runs[j].scan = None => i = j

\* Under SQLite a PII report lands on a run that is the target's latest when
\* it is written, not only when it was looked up.
PiiOnLatest ==
    [][backend = "sqlite" =>
         \A d \in Deliveries :
            runs[d] # None /\ runs'[d].pii # runs[d].pii =>
               d \in Latest(runs[d].target)]_vars

\* A stored report stays as it is: neither a PII report nor a second copy of
\* the scan changes the scan part of a run, its target or its start.
ReportsKept ==
    [][\A d \in Deliveries :
          runs[d] # None =>
             /\ runs'[d] # None
             /\ [runs'[d] EXCEPT !.pii = None] = [runs[d] EXCEPT !.pii = None]]_vars

\* An error shown for a node goes away only with a heartbeat or a
\* registration: a later run that ends well does not hide it.
ErrorStays ==
    [][\A n \in Nodes :
          status[n] # None /\ status[n].error /\ ~status'[n].error =>
             \E d \in Deliveries : /\ pc[d] = "upsertStatus" /\ pc'[d] # pc[d]
                                   /\ Req(d).node = n]_vars

\* Every handler ends: no way out of a repository call, and no failure in
\* one, leaves the mutex behind.  (Posts are bounded, so all handlers come to
\* their end together.)
HandlersEnd == []<>(\A d \in Deliveries : pc[d] \notin Statements)
=============================================================================
