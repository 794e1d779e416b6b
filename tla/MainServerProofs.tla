-------------------------- MODULE MainServerProofs --------------------------
(* What the store of the main server keeps for any collectors, databases,    *)
(* requests, numbers of posts and both repositories.                         *)
EXTENDS MainServer, TLAPS

-----------------------------------------------------------------------------
(* Where a handler is, and what is in the tables when it is there.           *)

\* A handler executes statements of its own kind of request only.
KindOK(d) ==
    LET k == Req(d).kind
    IN  /\ pc[d] = "upsertStatus" => k \in {"register", "heartbeat"}
        /\ pc[d] = "insertChild" => k \in {"register", "activity", "log"}
        /\ pc[d] = "touch" => k \in {"activity", "log"}
        /\ pc[d] \in {"insertRun", "runStatus"} => k = "run"
        /\ pc[d] \in {"upsertGuc", "insertScan"} => k = "scan"
        /\ pc[d] \in {"lookup", "attach"} => k = "pii"

\* A post that is still to come has no handler yet.
NotYet == \A r \in Requests, k \in 1 .. MaxPosts :
             k > posts[r] => pc[<<r, k>>] = "idle"

\* A delivery has a row of its own only when it is past its last statement.
RowOK(d) ==
    runs[d] # None => /\ pc[d] \in {"answer", "ended"}
                      /\ runs[d].target = Req(d).target
                      /\ runs[d].scan \in {None, Req(d)}

\* A run that was found is there.
FoundOK(d) ==
    found[d] # None =>
       runs[found[d]] # None /\ runs[found[d]].target = Req(d).target

Control == /\ TypeOK /\ NotYet
           /\ \A d \in Deliveries : KindOK(d) /\ RowOK(d) /\ FoundOK(d)

LEMMA RequestFacts ==
    ASSUME NEW d \in Deliveries
    PROVE  /\ Req(d) \in Requests /\ Req(d) # None
           /\ Req(d).kind \in Kinds /\ Req(d).node \in Nodes
           /\ Req(d).target \in Targets /\ Req(d).at \in Times
           /\ Req(d).error \in BOOLEAN /\ Req(d).guc \in BOOLEAN
BY RequestsAssumption, NoneAssumption DEF Deliveries, Req, Request

LEMMA RowFacts ==
    ASSUME NEW t \in Targets, NEW at \in Times,
           NEW s \in Requests \cup {None}, NEW p \in Requests \cup {None}
    PROVE  Run(t, at, s, p) \in RunRow /\ Run(t, at, s, p) # None
BY NoneAssumption DEF Run, RunRow

LEMMA ControlInit == Init => Control
<1> SUFFICES ASSUME Init PROVE Control
  OBVIOUS
<1>1. TypeOK
  BY BoundsAssumption, WorkloadsAssumption DEF Init, TypeOK
<1> QED BY <1>1 DEF Init, Control, NotYet, KindOK, RowOK, FoundOK, Deliveries

LEMMA PostControl ==
    ASSUME Control, NEW r \in Requests, Post(r)
    PROVE  Control'
<1>1. posts[r] + 1 \in 1 .. MaxPosts /\ <<r, posts[r] + 1>> \in Deliveries
  BY BoundsAssumption DEF Control, TypeOK, Post, Deliveries
<1>2. pc[<<r, posts[r] + 1>>] = "idle"
  BY <1>1, BoundsAssumption DEF Control, TypeOK, NotYet
<1>3. r.kind \in Kinds
  BY RequestsAssumption DEF Request
<1>4. FirstStatement(r) \in Statements
  BY <1>3 DEF FirstStatement, ScanBegins, Statements, Kinds
<1>5. TypeOK'
  BY <1>1, <1>2, <1>4, BoundsAssumption DEF Control, TypeOK, Post
<1>6. NotYet'
  BY <1>1, BoundsAssumption DEF Control, TypeOK, Post, NotYet, Deliveries
<1>7. ASSUME NEW d \in Deliveries PROVE KindOK(d)' /\ RowOK(d)' /\ FoundOK(d)'
  <2>1. CASE d = <<r, posts[r] + 1>>
    <3>1. Req(d) = r
      BY <2>1 DEF Req
    <3>2. pc'[d] = FirstStatement(r)
      BY <2>1, <1>1 DEF Control, TypeOK, Post
    <3> QED BY <1>2, <1>3, <2>1, <3>1, <3>2
            DEF Control, Post, KindOK, RowOK, FoundOK, FirstStatement, ScanBegins, Kinds, Req
  <2>2. CASE d # <<r, posts[r] + 1>>
    BY <2>2, <1>1 DEF Control, TypeOK, Post, KindOK, RowOK, FoundOK, Req
  <2> QED BY <2>1, <2>2
<1> QED BY <1>5, <1>6, <1>7 DEF Control

\* Both statements that write a whole status row write one of the right type.
LEMMA StatusRows ==
    ASSUME Control, NEW d \in Deliveries,
           UpsertCollectorStatus(d) \/ UpsertRunStatus(d)
    PROVE  \E row \in StatusRow : status' = [status EXCEPT ![Req(d).node] = row]
<1> DEFINE r == Req(d)
           seenBefore == IF status[r.node] = None THEN 0 ELSE status[r.node].lastRun
           shown == r.kind = "heartbeat" /\ r.error
           sticky == r.error \/ (status[r.node] # None /\ status[r.node].error)
<1>1. shown \in BOOLEAN /\ sticky \in BOOLEAN
  OBVIOUS
<1>2. seenBefore \in 0 .. MaxTime /\ r.at \in 0 .. MaxTime /\ r.at \in Times
  BY RequestFacts, BoundsAssumption DEF Control, TypeOK, StatusRow, Times
<1> HIDE DEF seenBefore, shown, sticky
<1>3. /\ [seen |-> r.at, lastRun |-> seenBefore, error |-> shown] \in StatusRow
      /\ [seen |-> r.at, lastRun |-> r.at, error |-> sticky] \in StatusRow
  BY <1>1, <1>2 DEF StatusRow
<1>4. CASE UpsertCollectorStatus(d)
  BY <1>3, <1>4 DEF UpsertCollectorStatus, seenBefore, shown
<1>5. CASE UpsertRunStatus(d)
  BY <1>3, <1>5 DEF UpsertRunStatus, sticky
<1> QED BY <1>4, <1>5

\* A statement that leaves the runs alone.
LEMMA FleetControl ==
    ASSUME Control, NEW d \in Deliveries,
           \/ UpsertCollectorStatus(d) \/ InsertCollectorActivity(d)
           \/ TouchCollectorLastSeen(d) \/ InsertCollectorRun(d)
           \/ UpsertRunStatus(d) \/ UpsertServerGucSnapshot(d)
           \/ AnswerOk(d) \/ Fail(d)
    PROVE  Control'
<1> USE RequestFacts DEF Control
<1>1. /\ status' \in [Nodes -> StatusRow \cup {None}]
      /\ children' \subseteq Deliveries
      /\ gucs' \in [Targets -> Requests \cup {None}]
      /\ acked' \subseteq Requests
  <2>1. CASE UpsertCollectorStatus(d) \/ UpsertRunStatus(d)
    BY <2>1, StatusRows DEF TypeOK, UpsertCollectorStatus, UpsertRunStatus
  <2>2. CASE TouchCollectorLastSeen(d)
    BY <2>2 DEF TypeOK, TouchCollectorLastSeen, StatusRow
  <2>3. CASE InsertCollectorActivity(d) \/ InsertCollectorRun(d) \/ AnswerOk(d)
             \/ Fail(d) \/ UpsertServerGucSnapshot(d)
    BY <2>3 DEF TypeOK, InsertCollectorActivity, InsertCollectorRun, AnswerOk,
                Fail, UpsertServerGucSnapshot
  <2> QED BY <2>1, <2>2, <2>3
<1>2. /\ UNCHANGED <<backend, load, posts, found, runs>>
      /\ \E next \in {"ended", "answer", "insertChild", "touch", "runStatus",
                      "insertScan"} : pc' = [pc EXCEPT ![d] = next]
  BY DEF UpsertCollectorStatus, InsertCollectorActivity, TouchCollectorLastSeen,
         InsertCollectorRun, UpsertRunStatus, UpsertServerGucSnapshot, AnswerOk,
         Fail, Done, Continue
<1>3. writeMu' \in Deliveries \cup {None}
      /\ (writeMu' # None => backend = "sqlite" /\ pc'[writeMu'] \in {"runStatus", "attach"})
  <2>1. CASE InsertCollectorRun(d)
    BY <2>1 DEF TypeOK, InsertCollectorRun, Continue, MayWrite
  <2>2. CASE AnswerOk(d)
    BY <2>2 DEF TypeOK, AnswerOk
  <2>3. CASE /\ MayWrite(d)
             /\ \/ Done(d, "answer") \/ Done(d, "insertChild") \/ Done(d, "touch")
                \/ Done(d, "insertScan") \/ Done(d, "ended")
    BY <2>3 DEF TypeOK, Done, MayWrite
  <2> QED BY <2>1, <2>2, <2>3
          DEF UpsertCollectorStatus, InsertCollectorActivity,
              TouchCollectorLastSeen, UpsertRunStatus, UpsertServerGucSnapshot, Fail
<1>4. TypeOK'
  BY <1>1, <1>2, <1>3 DEF TypeOK, Statements
<1>5. pc[d] \in Statements
  BY DEF UpsertCollectorStatus, InsertCollectorActivity, TouchCollectorLastSeen,
         InsertCollectorRun, UpsertRunStatus, UpsertServerGucSnapshot, AnswerOk,
         Fail, Statements
<1>6. NotYet'
  BY <1>2, <1>5 DEF TypeOK, NotYet, Statements
<1>7. KindOK(d)'
  BY <1>2 DEF KindOK, TypeOK, UpsertCollectorStatus, InsertCollectorActivity,
              TouchCollectorLastSeen, InsertCollectorRun, UpsertRunStatus,
              UpsertServerGucSnapshot, AnswerOk, Fail, Done, Continue, Req
<1>8. RowOK(d)'
  BY <1>2 DEF RowOK, TypeOK, UpsertCollectorStatus, InsertCollectorActivity,
              TouchCollectorLastSeen, InsertCollectorRun, UpsertRunStatus,
              UpsertServerGucSnapshot, AnswerOk, Fail, Done, Continue, Req,
              Statements
<1>9. ASSUME NEW e \in Deliveries PROVE KindOK(e)' /\ RowOK(e)' /\ FoundOK(e)'
  BY <1>2, <1>7, <1>8 DEF TypeOK, KindOK, RowOK, FoundOK, Req
<1> QED BY <1>4, <1>6, <1>9

\* A statement on scan_results.
LEMMA ScanControl ==
    ASSUME Control, NEW d \in Deliveries,
           PersistScanResult(d) \/ LookupRun(d) \/ PersistPIIReport(d)
    PROVE  Control'
<1> USE RequestFacts DEF Control
<1>0. pc[d] \in Statements /\ runs[d] = None
  BY DEF PersistScanResult, LookupRun, PersistPIIReport, Statements, RowOK
<1>1. CASE PersistScanResult(d)
  <2> DEFINE new == Run(Req(d).target, Req(d).at, Req(d), None)
  <2>1. new \in RunRow /\ new # None /\ new.target = Req(d).target /\ new.scan = Req(d)
    BY RowFacts DEF Run
  <2> HIDE DEF new
  <2>2. /\ runs' = [runs EXCEPT ![d] = new]
        /\ pc' = [pc EXCEPT ![d] = "answer"]
        /\ writeMu' = IF writeMu = d THEN None ELSE writeMu
        /\ UNCHANGED <<backend, load, posts, found, status, children, gucs, acked>>
    BY <1>1 DEF PersistScanResult, Done, new
  <2>3. TypeOK'
    BY <2>1, <2>2 DEF TypeOK, Statements
  <2>4. NotYet'
    BY <1>0, <2>2 DEF TypeOK, NotYet, Statements
  <2>5. ASSUME NEW e \in Deliveries PROVE KindOK(e)' /\ RowOK(e)' /\ FoundOK(e)'
    BY <1>0, <2>1, <2>2 DEF TypeOK, KindOK, RowOK, FoundOK, Req
  <2> QED BY <2>3, <2>4, <2>5
<1>2. CASE LookupRun(d)
  <2>1. /\ pc' = [pc EXCEPT ![d] = "attach"] /\ MayWrite(d)
        /\ writeMu' = IF backend = "sqlite" THEN d ELSE None
        /\ UNCHANGED <<backend, load, posts, status, children, runs, gucs, acked>>
        /\ pc[d] = "lookup"
    BY <1>2 DEF LookupRun, Continue
  <2>2. PICK i \in Deliveries \cup {None} :
           /\ found' = [found EXCEPT ![d] = i]
           /\ i # None => i \in RunsOf(Req(d).target)
    BY <1>2 DEF LookupRun, Latest, RunsOf
  <2>3. TypeOK'
    BY <2>1, <2>2 DEF TypeOK, Statements
  <2>4. NotYet'
    BY <1>0, <2>1 DEF TypeOK, NotYet, Statements
  <2>5. ASSUME NEW e \in Deliveries PROVE KindOK(e)' /\ RowOK(e)' /\ FoundOK(e)'
    <3>1. KindOK(e)' /\ RowOK(e)'
      BY <1>0, <2>1 DEF TypeOK, KindOK, RowOK, Req
    <3>2. FoundOK(e)'
      BY <2>1, <2>2 DEF TypeOK, FoundOK, RunsOf, Req
    <3> QED BY <3>1, <3>2
  <2> QED BY <2>3, <2>4, <2>5
<1>3. CASE PersistPIIReport(d)
  <2>1. /\ pc' = [pc EXCEPT ![d] = "answer"] /\ pc[d] = "attach"
        /\ writeMu' = IF writeMu = d THEN None ELSE writeMu
        /\ UNCHANGED <<backend, load, posts, found, status, children, gucs, acked>>
    BY <1>3 DEF PersistPIIReport, Done
  <2>2. /\ runs' \in [Deliveries -> RunRow \cup {None}]
        /\ \A e \in Deliveries :
              /\ runs[e] # None => runs'[e] # None /\ runs'[e].target = runs[e].target
                                     /\ runs'[e].scan = runs[e].scan
              /\ e # d /\ runs'[e] # None => runs[e] # None
        /\ runs'[d] # None => runs'[d].target = Req(d).target /\ runs'[d].scan \in {None, Req(d)}
    <3>1. CASE found[d] # None /\ runs' = [runs EXCEPT ![found[d]].pii = Req(d)]
      <4>1. found[d] \in Deliveries /\ runs[found[d]] \in RunRow
        BY <3>1 DEF TypeOK, FoundOK
      <4>2. [runs[found[d]] EXCEPT !.pii = Req(d)] \in RunRow
        BY <4>1 DEF RunRow
      <4> QED BY <1>0, <3>1, <4>1, <4>2, NoneAssumption DEF TypeOK, RunRow
    <3>2. CASE \E now \in Times :
                 runs' = [runs EXCEPT ![d] = Run(Req(d).target, now, None, Req(d))]
      <4>1. PICK now \in Times :
               runs' = [runs EXCEPT ![d] = Run(Req(d).target, now, None, Req(d))]
        BY <3>2
      <4> DEFINE new == Run(Req(d).target, now, None, Req(d))
      <4>2. new \in RunRow /\ new.target = Req(d).target /\ new.scan = None
        BY RowFacts DEF Run
      <4> HIDE DEF new
      <4>3. runs' = [runs EXCEPT ![d] = new]
        BY <4>1 DEF new
      <4> QED BY <1>0, <4>2, <4>3 DEF TypeOK
    <3> QED BY <1>3, <3>1, <3>2 DEF PersistPIIReport
  <2>3. TypeOK'
    BY <2>1, <2>2 DEF TypeOK, Statements
  <2>4. NotYet'
    BY <1>0, <2>1 DEF TypeOK, NotYet, Statements
  <2>5. ASSUME NEW e \in Deliveries PROVE KindOK(e)' /\ RowOK(e)' /\ FoundOK(e)'
    <3>1. KindOK(e)'
      BY <2>1 DEF TypeOK, KindOK, Req
    <3>2. RowOK(e)'
      BY <1>0, <2>1, <2>2 DEF TypeOK, RowOK, Req
    <3>3. FoundOK(e)'
      BY <2>1, <2>2 DEF TypeOK, FoundOK, Req
    <3> QED BY <3>1, <3>2, <3>3
  <2> QED BY <2>3, <2>4, <2>5
<1> QED BY <1>1, <1>2, <1>3

LEMMA CrashControl == Control /\ Crash => Control'
<1> SUFFICES ASSUME Control, Crash PROVE Control'
  OBVIOUS
<1>1. TypeOK'
  BY DEF Control, TypeOK, Crash
<1>2. NotYet'
  BY DEF Control, TypeOK, Crash, NotYet, Deliveries, Statements
<1>3. ASSUME NEW d \in Deliveries PROVE KindOK(d)' /\ RowOK(d)' /\ FoundOK(d)'
  BY DEF Control, TypeOK, Crash, KindOK, RowOK, FoundOK, Statements, Req
<1> QED BY <1>1, <1>2, <1>3 DEF Control

LEMMA ControlNext == Control /\ [Next]_vars => Control'
<1> SUFFICES ASSUME Control, [Next]_vars PROVE Control'
  OBVIOUS
<1>1. CASE UNCHANGED vars
  BY <1>1 DEF Control, vars, TypeOK, NotYet, KindOK, RowOK, FoundOK, Req
<1>2. CASE \E r \in Requests : Post(r)
  BY <1>2, PostControl
<1>3. ASSUME NEW d \in Deliveries, Statement(d) PROVE Control'
  BY <1>3, FleetControl, ScanControl DEF Statement
<1>4. CASE Crash
  BY <1>4, CrashControl
<1> QED BY <1>1, <1>2, <1>3, <1>4 DEF Next

\* The types are right, and the mutex is held only by a handler between the
\* two statements of one SQLite call (sqlite.go:27).
THEOREM TypeCorrect == Spec => []TypeOK
<1>1. Control => TypeOK
  BY DEF Control
<1> QED BY <1>1, ControlInit, ControlNext, PTL DEF Spec

-----------------------------------------------------------------------------
(* A stored report stays as it is.                                           *)

ScanKept(e) ==
    runs[e] # None => /\ runs'[e] # None
                      /\ [runs'[e] EXCEPT !.pii = None] = [runs[e] EXCEPT !.pii = None]

LEMMA ScanKeptStep == Control /\ [Next]_vars => \A e \in Deliveries : ScanKept(e)
<1> SUFFICES ASSUME Control, [Next]_vars, NEW e \in Deliveries, runs[e] # None
             PROVE  /\ runs'[e] # None
                    /\ [runs'[e] EXCEPT !.pii = None] = [runs[e] EXCEPT !.pii = None]
  BY DEF ScanKept
<1>1. CASE runs' = runs
  BY <1>1
<1>2. ASSUME NEW d \in Deliveries, PersistScanResult(d) \/ PersistPIIReport(d)
      PROVE  /\ runs'[e] # None
             /\ [runs'[e] EXCEPT !.pii = None] = [runs[e] EXCEPT !.pii = None]
  <2>1. runs[d] = None
    BY <1>2 DEF Control, RowOK, PersistScanResult, PersistPIIReport
  <2>2. CASE \E row : runs' = [runs EXCEPT ![d] = row]
    BY <2>1, <2>2 DEF Control, TypeOK
  <2>3. CASE found[d] # None /\ runs' = [runs EXCEPT ![found[d]].pii = Req(d)]
    <3>1. found[d] \in Deliveries /\ runs[e] \in RunRow /\ Req(d) \in Requests
      BY <2>3, RequestFacts DEF Control, TypeOK
    <3>2. [runs[e] EXCEPT !.pii = Req(d)] \in RunRow
      BY <3>1 DEF RunRow
    <3>3. [[runs[e] EXCEPT !.pii = Req(d)] EXCEPT !.pii = None]
            = [runs[e] EXCEPT !.pii = None]
      BY <3>1 DEF RunRow
    <3> QED BY <2>3, <3>1, <3>2, <3>3, NoneAssumption DEF Control, TypeOK
  <2> QED BY <1>2, <2>2, <2>3 DEF PersistScanResult, PersistPIIReport
<1>3. ASSUME NEW d \in Deliveries, Statement(d),
             ~(PersistScanResult(d) \/ PersistPIIReport(d))
      PROVE  runs' = runs
  BY <1>3 DEF Statement, UpsertCollectorStatus, InsertCollectorActivity,
          TouchCollectorLastSeen, InsertCollectorRun, UpsertRunStatus,
          UpsertServerGucSnapshot, LookupRun, AnswerOk, Fail
<1>4. CASE Crash \/ UNCHANGED vars \/ \E r \in Requests : Post(r)
  BY <1>4, <1>1 DEF Crash, Post, vars
<1> QED BY <1>1, <1>2, <1>3, <1>4 DEF Next

\* What the scan part of a run is never touched by: not by a PII report
\* (pii_persist.go:16), not by a second copy of the scan.
THEOREM KeepsReports == Spec => ReportsKept
<1>1. Control /\ [Next]_vars =>
        [\A d \in Deliveries :
           runs[d] # None =>
             /\ runs'[d] # None
             /\ [runs'[d] EXCEPT !.pii = None] = [runs[d] EXCEPT !.pii = None]]_vars
  BY ScanKeptStep DEF ScanKept
<1> QED BY <1>1, ControlInit, ControlNext, PTL DEF Spec, ReportsKept

-----------------------------------------------------------------------------
(* A 200 means that the rows are there.                                      *)

\* The tables only grow: no step takes back a row, and an empty field of a
\* row stays empty or is filled.
Grows ==
    /\ \A n \in Nodes : status[n] # None => status'[n] # None
    /\ children \subseteq children'
    /\ \A t \in Targets : gucs[t] # None => gucs'[t] # None
    /\ \A e \in Deliveries :
          runs[e] # None => /\ runs'[e] # None
                            /\ runs'[e].target = runs[e].target
                            /\ runs'[e].scan = runs[e].scan
                            /\ runs[e].pii # None => runs'[e].pii # None

LEMMA GrowsStep == Control /\ [Next]_vars => Grows
<1> SUFFICES ASSUME Control, [Next]_vars PROVE Grows
  OBVIOUS
<1> USE RequestFacts, NoneAssumption DEF Control, TypeOK
<1>1. \A n \in Nodes : status[n] # None => status'[n] # None
  <2>1. ASSUME NEW n \in Nodes, NEW d \in Deliveries, status[n] # None,
               NEW row, row # None, status' = [status EXCEPT ![Req(d).node] = row]
        PROVE  status'[n] # None
    BY <2>1
  <2>2. ASSUME NEW d \in Deliveries, UpsertCollectorStatus(d) \/ UpsertRunStatus(d)
        PROVE  \E row \in StatusRow : status' = [status EXCEPT ![Req(d).node] = row]
    BY <2>2, StatusRows
  <2>3. ASSUME NEW d \in Deliveries, TouchCollectorLastSeen(d), NEW n \in Nodes,
               status[n] # None
        PROVE  status'[n] # None
    BY <2>3 DEF TouchCollectorLastSeen, StatusRow
  <2> QED BY <2>1, <2>2, <2>3, ZenonT(40)
          DEF Next, vars, Statement, Post, Crash, InsertCollectorActivity,
              InsertCollectorRun, UpsertServerGucSnapshot, PersistScanResult,
              LookupRun, PersistPIIReport, AnswerOk, Fail
<1>2. children \subseteq children'
  BY ZenonT(40) DEF Next, vars, Statement, Post, Crash, UpsertCollectorStatus,
         InsertCollectorActivity, TouchCollectorLastSeen, InsertCollectorRun,
         UpsertRunStatus, UpsertServerGucSnapshot, PersistScanResult, LookupRun,
         PersistPIIReport, AnswerOk, Fail
<1>3. \A t \in Targets : gucs[t] # None => gucs'[t] # None
  BY ZenonT(40) DEF Next, vars, Statement, Post, Crash, UpsertCollectorStatus,
         InsertCollectorActivity, TouchCollectorLastSeen, InsertCollectorRun,
         UpsertRunStatus, UpsertServerGucSnapshot, PersistScanResult, LookupRun,
         PersistPIIReport, AnswerOk, Fail
<1>4. ASSUME NEW e \in Deliveries, runs[e] # None
      PROVE  /\ runs'[e] # None
             /\ runs'[e].target = runs[e].target /\ runs'[e].scan = runs[e].scan
             /\ runs[e].pii # None => runs'[e].pii # None
  <2>1. runs[e] \in RunRow /\ runs'[e] \in RunRow /\ ScanKept(e)
    BY <1>4, ScanKeptStep, ControlNext DEF ScanKept
  <2>2. runs'[e].target = runs[e].target /\ runs'[e].scan = runs[e].scan
    <3>1. /\ [runs'[e] EXCEPT !.pii = None].target = [runs[e] EXCEPT !.pii = None].target
          /\ [runs'[e] EXCEPT !.pii = None].scan = [runs[e] EXCEPT !.pii = None].scan
      BY <1>4, <2>1 DEF ScanKept
    <3> QED BY <2>1, <3>1 DEF RunRow
  <2>3. ASSUME NEW d \in Deliveries, PersistPIIReport(d) PROVE
               runs[e].pii # None => runs'[e].pii # None
    BY <1>4, <2>1, <2>3 DEF PersistPIIReport, RowOK, RunRow
  <2>4. ASSUME NEW d \in Deliveries, PersistScanResult(d) PROVE
               runs[e].pii # None => runs'[e].pii # None
    BY <1>4, <2>4 DEF PersistScanResult, RowOK
  <2>5. CASE UNCHANGED runs
    BY <1>4, <2>5
  <2> QED BY <1>4, <2>1, <2>2, <2>3, <2>4, <2>5
          DEF ScanKept, Next, vars, Statement, Post, Crash, UpsertCollectorStatus,
              InsertCollectorActivity, TouchCollectorLastSeen, InsertCollectorRun,
              UpsertRunStatus, UpsertServerGucSnapshot, LookupRun, AnswerOk, Fail
<1> QED BY <1>1, <1>2, <1>3, <1>4 DEF Grows

\* What is stored when a handler has come to a statement.
Progress(d) ==
    LET r == Req(d)
    IN  /\ pc[d] = "insertChild" /\ r.kind = "register" => status[r.node] # None
        /\ pc[d] \in {"touch", "runStatus"} => d \in children
        /\ pc[d] = "insertScan" /\ r.guc => gucs[r.target] # None
        /\ pc[d] = "answer" => Stored(r)

StoreInv == /\ Control /\ AckedIsStored /\ SnapshotWithScan
            /\ \A d \in Deliveries : Progress(d)

LEMMA StoredStays ==
    ASSUME Control, [Next]_vars, NEW r \in Requests, Stored(r)
    PROVE  Stored(r)'
<1> USE GrowsStep, ControlNext, RequestsAssumption DEF Grows, Control, TypeOK, Request
<1>1. CASE r.kind = "scan"
  BY <1>1, NoneAssumption DEF Stored
<1>2. CASE r.kind = "pii"
  BY <1>2 DEF Stored, RunsOf
<1>3. CASE r.kind \in {"activity", "log", "heartbeat", "register", "run"}
  BY <1>3 DEF Stored
<1> QED BY <1>1, <1>2, <1>3 DEF Kinds

\* The statement a handler executes leaves what the next one relies on.
LEMMA StatementProgress ==
    ASSUME StoreInv, NEW d \in Deliveries, Statement(d)
    PROVE  Progress(d)'
<1> USE RequestFacts, NoneAssumption DEF StoreInv, Control, TypeOK, Progress, KindOK
<1>0. Control' /\ Grows /\ [Next]_vars
  BY ControlNext, GrowsStep DEF Next
<1>1. CASE UpsertCollectorStatus(d)
  <2>1. status'[Req(d).node] # None
    BY <1>1, StatusRows
  <2> QED BY <1>1, <2>1 DEF UpsertCollectorStatus, Done, Stored
<1>2. CASE InsertCollectorActivity(d)
  BY <1>2 DEF InsertCollectorActivity, Done, Stored, Req
<1>3. CASE TouchCollectorLastSeen(d)
  BY <1>3 DEF TouchCollectorLastSeen, Done, Stored, Req
<1>4. CASE InsertCollectorRun(d)
  BY <1>4 DEF InsertCollectorRun, Continue
<1>5. CASE UpsertRunStatus(d)
  <2>1. status'[Req(d).node] # None
    BY <1>5, StatusRows
  <2> QED BY <1>5, <2>1 DEF UpsertRunStatus, Done, Stored
<1>6. CASE UpsertServerGucSnapshot(d)
  BY <1>6 DEF UpsertServerGucSnapshot, Done
<1>7. CASE PersistScanResult(d)
  <2>1. runs'[d] # None /\ runs'[d].scan = Req(d)
    BY <1>7, RowFacts DEF PersistScanResult, Run
  <2> QED BY <1>7, <2>1 DEF PersistScanResult, Done, Stored
<1>8. CASE LookupRun(d)
  BY <1>8 DEF LookupRun, Continue
<1>9. CASE PersistPIIReport(d)
  <2>1. CASE found[d] # None /\ runs' = [runs EXCEPT ![found[d]].pii = Req(d)]
    <3>1. runs'[found[d]] # None /\ runs'[found[d]].target = Req(d).target
          /\ runs'[found[d]].pii # None
      BY <1>0, <2>1 DEF FoundOK, Grows, RunRow
    <3> QED BY <1>9, <2>1, <3>1, ZenonT(40) DEF PersistPIIReport, Done, Stored, RunsOf
  <2>2. CASE \E now \in Times :
               runs' = [runs EXCEPT ![d] = Run(Req(d).target, now, None, Req(d))]
    <3>1. runs'[d] # None /\ runs'[d].target = Req(d).target /\ runs'[d].pii # None
      BY <2>2, RowFacts DEF Run
    <3> QED BY <1>9, <3>1 DEF PersistPIIReport, Done, Stored, RunsOf
  <2> QED BY <1>9, <2>1, <2>2 DEF PersistPIIReport
<1>10. CASE AnswerOk(d)
  BY <1>10 DEF AnswerOk
<1>11. CASE Fail(d)
  BY <1>11 DEF Fail, Done
<1> QED BY <1>1, <1>2, <1>3, <1>4, <1>5, <1>6, <1>7, <1>8, <1>9, <1>10, <1>11
        DEF Statement

\* What another handler relies on stays.
LEMMA OtherProgress ==
    ASSUME StoreInv, [Next]_vars, NEW e \in Deliveries, pc'[e] = pc[e]
    PROVE  Progress(e)'
<1>1. Control' /\ Grows
  BY ControlNext, GrowsStep DEF StoreInv
<1>2. Stored(Req(e)) => Stored(Req(e))'
  BY StoredStays, RequestFacts DEF StoreInv
<1> QED BY <1>1, <1>2, RequestFacts DEF StoreInv, Progress, Grows

LEMMA StoreNext == StoreInv /\ [Next]_vars => StoreInv'
<1> SUFFICES ASSUME StoreInv, [Next]_vars PROVE StoreInv'
  OBVIOUS
<1>1. Control /\ Control' /\ Grows
  BY ControlNext, GrowsStep DEF StoreInv
<1>2. AckedIsStored'
  <2>1. ASSUME NEW r \in acked PROVE Stored(r)'
    BY <2>1, StoredStays DEF StoreInv, Control, TypeOK, AckedIsStored
  <2>2. ASSUME NEW d \in Deliveries, AnswerOk(d) PROVE Stored(Req(d))'
    BY <2>2, StoredStays, RequestFacts DEF StoreInv, Control, Progress, AnswerOk
  <2>3. acked' = acked \/ \E d \in Deliveries : AnswerOk(d) /\ acked' = acked \cup {Req(d)}
    BY DEF Next, vars, Statement, Post, Crash, UpsertCollectorStatus,
           InsertCollectorActivity, TouchCollectorLastSeen, InsertCollectorRun,
           UpsertRunStatus, UpsertServerGucSnapshot, PersistScanResult, LookupRun,
           PersistPIIReport, AnswerOk, Fail
  <2> QED BY <2>1, <2>2, <2>3 DEF AckedIsStored
<1>3. SnapshotWithScan'
  <2> SUFFICES ASSUME NEW e \in Deliveries, runs'[e] # None, runs'[e].scan # None,
                      runs'[e].scan.guc
               PROVE  gucs'[runs'[e].target] # None
    BY DEF SnapshotWithScan
  <2>1. CASE runs[e] # None
    BY <1>1, <2>1 DEF StoreInv, SnapshotWithScan, Grows, Control, TypeOK, RunRow
  <2>2. CASE runs[e] = None
    <3>1. PICK d \in Deliveries : PersistScanResult(d) \/ PersistPIIReport(d)
      BY <2>2 DEF Next, vars, Statement, Post, Crash, UpsertCollectorStatus,
           InsertCollectorActivity, TouchCollectorLastSeen, InsertCollectorRun,
           UpsertRunStatus, UpsertServerGucSnapshot, LookupRun, AnswerOk, Fail
    <3>2. CASE PersistScanResult(d)
      <4>1. e = d
        BY <2>2, <3>2 DEF PersistScanResult, Control, TypeOK, StoreInv
      <4>2. runs'[e].scan = Req(d) /\ runs'[e].target = Req(d).target
        BY <4>1, <1>1, <3>2 DEF PersistScanResult, Run, Control, TypeOK
      <4> QED BY <3>2, <4>2, <1>1, RequestFacts
              DEF StoreInv, Progress, PersistScanResult, Grows
    <3>3. CASE PersistPIIReport(d)
      <4>1. found[d] # None => runs[found[d]] # None /\ found[d] \in Deliveries
        BY <1>1 DEF Control, TypeOK, FoundOK
      <4>2. runs'[e].scan = None
        BY <2>2, <3>3, <4>1, <1>1 DEF PersistPIIReport, Run, Control, TypeOK
      <4> QED BY <4>2
    <3> QED BY <3>1, <3>2, <3>3
  <2> QED BY <2>1, <2>2
<1>4. ASSUME NEW e \in Deliveries PROVE Progress(e)'
  <2>1. CASE pc'[e] = pc[e]
    BY <2>1, OtherProgress
  <2>2. ASSUME NEW d \in Deliveries, Statement(d) PROVE Progress(e)'
    <3>1. e = d \/ pc'[e] = pc[e]
      BY <2>2 DEF StoreInv, Control, TypeOK, Statement, UpsertCollectorStatus,
           InsertCollectorActivity, TouchCollectorLastSeen, InsertCollectorRun,
           UpsertRunStatus, UpsertServerGucSnapshot, PersistScanResult, LookupRun,
           PersistPIIReport, AnswerOk, Fail, Done, Continue
    <3> QED BY <3>1, <2>2, StatementProgress, OtherProgress
  <2>3. ASSUME NEW r \in Requests, Post(r) PROVE Progress(e)'
    <3>1. CASE e = <<r, posts[r] + 1>>
      <4>1. Req(e) = r /\ pc'[e] = FirstStatement(r) /\ r.kind \in Kinds
        BY <2>3, <3>1, <1>1, RequestsAssumption DEF Req, Post, Control, TypeOK, Request
      <4> QED BY <4>1 DEF Progress, FirstStatement, ScanBegins, Kinds, Req
    <3>2. CASE e # <<r, posts[r] + 1>>
      BY <2>3, <3>2, <1>1, OtherProgress DEF Post, Control, TypeOK
    <3> QED BY <3>1, <3>2
  <2>4. CASE Crash
    BY <2>4, <2>1, <1>1 DEF Crash, Progress, Control, TypeOK
  <2>5. CASE UNCHANGED vars
    BY <2>5, <2>1 DEF vars
  <2> QED BY <2>2, <2>3, <2>4, <2>5 DEF Next
<1> QED BY <1>1, <1>2, <1>3, <1>4 DEF StoreInv

LEMMA StoreInit == Init => StoreInv
<1> SUFFICES ASSUME Init PROVE StoreInv
  OBVIOUS
<1> QED BY ControlInit DEF Init, StoreInv, AckedIsStored, SnapshotWithScan, Progress

\* A request that was answered with 200 is in the tables and stays there,
\* whatever fails, repeats or stops on the way (collector_handlers.go:99-105).
THEOREM AckedStored == Spec => []AckedIsStored
<1>1. StoreInv => AckedIsStored
  BY DEF StoreInv
<1> QED BY <1>1, StoreInit, StoreNext, PTL DEF Spec

\* A stored scan that brought its settings has a snapshot beside it
\* (service.go:44-56).
THEOREM SnapshotsFirst == Spec => []SnapshotWithScan
<1>1. StoreInv => SnapshotWithScan
  BY DEF StoreInv
<1> QED BY <1>1, StoreInit, StoreNext, PTL DEF Spec

-----------------------------------------------------------------------------
(* Under SQLite a PII report lands where it belongs.                         *)

\* What a handler between lookup and attach has found is still so: it has the
\* mutex, and nobody else writes.
LookupHolds(d) ==
    backend = "sqlite" /\ pc[d] = "attach" =>
       /\ writeMu = d
       /\ found[d] = None => RunsOf(Req(d).target) = {}
       /\ found[d] # None => found[d] \in Latest(Req(d).target)

PiiInv == /\ Control /\ OnePiiOnlyRun
          /\ \A d \in Deliveries : LookupHolds(d)

\* Who writes has or takes the mutex.
LEMMA WritersLock ==
    ASSUME NEW d \in Deliveries, Statement(d)
    PROVE  AnswerOk(d) \/ MayWrite(d)
BY DEF Statement, UpsertCollectorStatus, InsertCollectorActivity,
       TouchCollectorLastSeen, InsertCollectorRun, UpsertRunStatus,
       UpsertServerGucSnapshot, PersistScanResult, LookupRun, PersistPIIReport, Fail

LEMMA LookupHoldsStep ==
    ASSUME PiiInv, [Next]_vars, NEW d \in Deliveries
    PROVE  LookupHolds(d)'
<1> SUFFICES ASSUME backend' = "sqlite", pc'[d] = "attach" PROVE LookupHolds(d)'
  BY DEF LookupHolds
<1> USE NoneAssumption DEF PiiInv, Control, TypeOK
<1>1. ASSUME UNCHANGED <<backend, runs, found, writeMu>>, pc[d] = "attach"
      PROVE  LookupHolds(d)'
  BY <1>1 DEF LookupHolds, Latest, RunsOf
<1>2. ASSUME NEW e \in Deliveries, Statement(e) PROVE LookupHolds(d)'
  <2>1. CASE pc[d] = "attach" /\ e # d
    <3>1. backend = "sqlite" /\ writeMu = d /\ d # None
      BY <1>2, <2>1 DEF LookupHolds, Statement, UpsertCollectorStatus,
           InsertCollectorActivity, TouchCollectorLastSeen, InsertCollectorRun,
           UpsertRunStatus, UpsertServerGucSnapshot, PersistScanResult, LookupRun,
           PersistPIIReport, AnswerOk, Fail
    <3>2. AnswerOk(e)
      BY <1>2, <2>1, <3>1, WritersLock DEF MayWrite
    <3> QED BY <1>1, <2>1, <3>2 DEF AnswerOk
  <2>2. CASE e = d
    <3>1. LookupRun(d)
      BY <1>2, <2>2 DEF Statement, UpsertCollectorStatus,
           InsertCollectorActivity, TouchCollectorLastSeen, InsertCollectorRun,
           UpsertRunStatus, UpsertServerGucSnapshot, PersistScanResult,
           PersistPIIReport, AnswerOk, Fail, Done, Continue
    <3> QED BY <3>1 DEF LookupRun, Continue, LookupHolds, Latest, RunsOf
  <2>3. CASE pc[d] # "attach" /\ e # d
    BY <1>2, <2>3 DEF Statement, UpsertCollectorStatus,
           InsertCollectorActivity, TouchCollectorLastSeen, InsertCollectorRun,
           UpsertRunStatus, UpsertServerGucSnapshot, PersistScanResult, LookupRun,
           PersistPIIReport, AnswerOk, Fail, Done, Continue
  <2> QED BY <2>1, <2>2, <2>3
<1>3. ASSUME NEW r \in Requests, Post(r) PROVE LookupHolds(d)'
  <2>1. FirstStatement(r) # "attach"
    BY RequestsAssumption DEF FirstStatement, ScanBegins, Request, Kinds
  <2>2. pc[d] = "attach"
    BY <1>3, <2>1 DEF Post
  <2> QED BY <1>1, <1>3, <2>2 DEF Post
<1>4. CASE Crash
  BY <1>4 DEF Crash, Statements
<1>5. CASE UNCHANGED vars
  BY <1>1, <1>5 DEF vars
<1> QED BY <1>2, <1>3, <1>4, <1>5 DEF Next

LEMMA OnePiiOnlyStep ==
    ASSUME PiiInv, [Next]_vars
    PROVE  OnePiiOnlyRun'
<1> SUFFICES ASSUME backend' = "sqlite", NEW t \in Targets,
                    NEW i \in RunsOf(t)', NEW j \in RunsOf(t)',
                    runs'[i].scan = None, runs'[j].scan = None
             PROVE  i = j
  BY DEF OnePiiOnlyRun
<1> USE NoneAssumption DEF PiiInv, Control, TypeOK
<1>1. i \in Deliveries /\ j \in Deliveries /\ Control' /\ Grows
  BY ControlNext, GrowsStep DEF RunsOf
<1>2. backend = "sqlite"
  BY DEF Next, vars, Statement, Post, Crash, UpsertCollectorStatus,
         InsertCollectorActivity, TouchCollectorLastSeen, InsertCollectorRun,
         UpsertRunStatus, UpsertServerGucSnapshot, PersistScanResult, LookupRun,
         PersistPIIReport, AnswerOk, Fail
<1>3. ASSUME NEW k \in RunsOf(t)', runs'[k].scan = None, runs[k] = None
      PROVE  RunsOf(t) = {} /\ \A l \in RunsOf(t)' : l = k
  <2>1. PICK d \in Deliveries : PersistScanResult(d) \/ PersistPIIReport(d)
    BY <1>3 DEF RunsOf, Next, vars, Statement, Post, Crash, UpsertCollectorStatus,
         InsertCollectorActivity, TouchCollectorLastSeen, InsertCollectorRun,
         UpsertRunStatus, UpsertServerGucSnapshot, LookupRun, AnswerOk, Fail
  <2>2. CASE PersistScanResult(d)
    BY <1>3, <2>2, RowFacts, RequestFacts DEF PersistScanResult, Run, RunsOf
  <2>3. CASE PersistPIIReport(d)
    <3>1. found[d] = None /\ k = d
      BY <1>3, <2>3 DEF PersistPIIReport, RunsOf, FoundOK
    <3>2. RunsOf(Req(d).target) = {}
      BY <1>2, <2>3, <3>1 DEF LookupHolds, PersistPIIReport
    <3>3. PICK now \in Times :
             runs' = [runs EXCEPT ![d] = Run(Req(d).target, now, None, Req(d))]
      BY <2>3, <3>1 DEF PersistPIIReport
    <3>4. t = Req(d).target
      BY <1>3, <3>1, <3>3 DEF RunsOf, Run
    <3> QED BY <3>1, <3>2, <3>3, <3>4 DEF RunsOf
  <2> QED BY <2>1, <2>2, <2>3
<1>4. CASE runs[i] = None \/ runs[j] = None
  BY <1>3, <1>4
<1>5. CASE runs[i] # None /\ runs[j] # None
  <2>1. i \in RunsOf(t) /\ j \in RunsOf(t) /\ runs[i].scan = None /\ runs[j].scan = None
    BY <1>1, <1>5 DEF Grows, RunsOf
  <2> QED BY <1>2, <2>1 DEF OnePiiOnlyRun
<1> QED BY <1>4, <1>5

LEMMA PiiNext == PiiInv /\ [Next]_vars => PiiInv'
BY ControlNext, LookupHoldsStep, OnePiiOnlyStep DEF PiiInv

LEMMA PiiInit == Init => PiiInv
<1> SUFFICES ASSUME Init PROVE PiiInv
  OBVIOUS
<1> QED BY ControlInit DEF Init, PiiInv, OnePiiOnlyRun, RunsOf, LookupHolds

\* However many PII reports of a target arrive at once, they find or make one
\* run to live in (sqlite.go:88, pii_persist.go:35-56).
THEOREM AtMostOnePiiOnly == Spec => []OnePiiOnlyRun
<1>1. PiiInv => OnePiiOnlyRun
  BY DEF PiiInv
<1> QED BY <1>1, PiiInit, PiiNext, PTL DEF Spec

\* A PII report that goes to an existing run goes to the target's latest
\* (pii_persist.go:15): no scan can slip in between lookup and update.
THEOREM LandsOnLatest == Spec => PiiOnLatest
<1> DEFINE Lands == backend = "sqlite" =>
                      \A d \in Deliveries :
                         runs[d] # None /\ runs'[d].pii # runs[d].pii =>
                            d \in Latest(runs[d].target)
<1>1. PiiInv /\ [Next]_vars => Lands
  <2> SUFFICES ASSUME PiiInv, [Next]_vars, backend = "sqlite", NEW e \in Deliveries,
                      runs[e] # None, runs'[e].pii # runs[e].pii
               PROVE  e \in Latest(runs[e].target)
    OBVIOUS
  <2>1. PICK d \in Deliveries : PersistScanResult(d) \/ PersistPIIReport(d)
    BY DEF Next, vars, Statement, Post, Crash, UpsertCollectorStatus,
         InsertCollectorActivity, TouchCollectorLastSeen, InsertCollectorRun,
         UpsertRunStatus, UpsertServerGucSnapshot, LookupRun, AnswerOk, Fail
  <2>2. runs[d] = None
    BY <2>1 DEF PiiInv, Control, RowOK, PersistScanResult, PersistPIIReport
  <2>3. PersistPIIReport(d) /\ found[d] = e
    BY <2>1, <2>2 DEF PiiInv, Control, TypeOK, PersistScanResult, PersistPIIReport
  <2>4. e \in Latest(Req(d).target) /\ runs[e].target = Req(d).target
    BY <2>3, NoneAssumption DEF PiiInv, Control, LookupHolds, PersistPIIReport, FoundOK
  <2> QED BY <2>4
<1>2. PiiInv /\ [Next]_vars => [Lands]_vars
  BY <1>1
<1> QED BY <1>2, PiiInit, PiiNext, PTL DEF Spec, PiiOnLatest

-----------------------------------------------------------------------------
(* The status row of a node follows its runs.                                *)

LEMMA LastRunStep ==
    ASSUME StoreInv, LastRunIsStored, [Next]_vars
    PROVE  LastRunIsStored'
<1> SUFFICES ASSUME NEW n \in Nodes, status'[n] # None, status'[n].lastRun # 0
             PROVE  \E d \in children' : /\ Req(d).kind = "run" /\ Req(d).node = n
                                         /\ Req(d).at = status'[n].lastRun
  BY DEF LastRunIsStored
<1> USE RequestFacts, NoneAssumption DEF StoreInv, Control, TypeOK
<1>1. children \subseteq children'
  BY GrowsStep DEF Grows
<1>2. ASSUME status[n] # None, status[n].lastRun = status'[n].lastRun
      PROVE  \E d \in children' : /\ Req(d).kind = "run" /\ Req(d).node = n
                                  /\ Req(d).at = status'[n].lastRun
  BY <1>1, <1>2 DEF LastRunIsStored
<1>3. ASSUME NEW d \in Deliveries, UpsertCollectorStatus(d)
      PROVE  status[n] # None /\ status[n].lastRun = status'[n].lastRun
  BY <1>3 DEF UpsertCollectorStatus
<1>4. ASSUME NEW d \in Deliveries, TouchCollectorLastSeen(d)
      PROVE  status[n] # None /\ status[n].lastRun = status'[n].lastRun
  <2>1. CASE n # Req(d).node
    BY <1>4, <2>1 DEF TouchCollectorLastSeen
  <2>2. CASE n = Req(d).node
    <3>1. status[n] # None /\ status[n] \in StatusRow
      BY <1>4, <2>2 DEF TouchCollectorLastSeen
    <3> QED BY <1>4, <2>2, <3>1 DEF TouchCollectorLastSeen, StatusRow
  <2> QED BY <2>1, <2>2
<1>5. ASSUME NEW d \in Deliveries, UpsertRunStatus(d)
      PROVE  \/ status[n] # None /\ status[n].lastRun = status'[n].lastRun
             \/ /\ d \in children' /\ Req(d).kind = "run" /\ Req(d).node = n
                /\ Req(d).at = status'[n].lastRun
  BY <1>1, <1>5 DEF UpsertRunStatus, Progress, KindOK
<1>6. CASE UNCHANGED status
  BY <1>2, <1>6
<1> QED BY <1>2, <1>3, <1>4, <1>5, <1>6
        DEF Next, vars, Statement, Post, Crash, InsertCollectorActivity,
            InsertCollectorRun, UpsertServerGucSnapshot, PersistScanResult,
            LookupRun, PersistPIIReport, AnswerOk, Fail

\* The last run a node shows is one of its stored runs, also when the server
\* stops between the two statements that write them (sqlite.go:206-221).
THEOREM LastRunListed == Spec => []LastRunIsStored
<1>1. Init => LastRunIsStored
  BY DEF Init, LastRunIsStored
<1>2. StoreInv /\ LastRunIsStored /\ [Next]_vars => LastRunIsStored'
  BY LastRunStep
<1> QED BY <1>1, <1>2, StoreInit, StoreNext, PTL DEF Spec

\* Only a heartbeat or a registration takes an error off a node
\* (sqlite.go:219): a run that ends well keeps it.
THEOREM ErrorsStay == Spec => ErrorStays
<1> DEFINE Stays == \A n \in Nodes :
                      status[n] # None /\ status[n].error /\ ~status'[n].error =>
                         \E d \in Deliveries : /\ pc[d] = "upsertStatus" /\ pc'[d] # pc[d]
                                               /\ Req(d).node = n
<1>1. Control /\ [Next]_vars => Stays
  <2> SUFFICES ASSUME Control, [Next]_vars, NEW n \in Nodes, status[n] # None,
                      status[n].error, ~status'[n].error
               PROVE  \E d \in Deliveries : /\ pc[d] = "upsertStatus" /\ pc'[d] # pc[d]
                                            /\ Req(d).node = n
    OBVIOUS
  <2> USE RequestFacts DEF Control, TypeOK
  <2>1. ASSUME NEW d \in Deliveries, UpsertCollectorStatus(d)
        PROVE  /\ pc[d] = "upsertStatus" /\ pc'[d] # pc[d]
               /\ Req(d).node = n
    BY <2>1 DEF UpsertCollectorStatus, Done
  <2>2. ASSUME NEW d \in Deliveries, TouchCollectorLastSeen(d) PROVE FALSE
    <3>1. n = Req(d).node /\ status[n] \in StatusRow
      BY <2>2 DEF TouchCollectorLastSeen
    <3>2. status'[n].error = status[n].error
      BY <2>2, <3>1, NoneAssumption DEF TouchCollectorLastSeen, StatusRow
    <3> QED BY <3>2
  <2>3. ASSUME NEW d \in Deliveries, UpsertRunStatus(d) PROVE FALSE
    BY <2>3 DEF UpsertRunStatus
  <2>4. CASE UNCHANGED status
    BY <2>4
  <2> QED BY <2>1, <2>2, <2>3, <2>4
          DEF Next, vars, Statement, Post, Crash, InsertCollectorActivity,
              InsertCollectorRun, UpsertServerGucSnapshot, PersistScanResult,
              LookupRun, PersistPIIReport, AnswerOk, Fail
<1>2. Control /\ [Next]_vars => [Stays]_vars
  BY <1>1
<1> QED BY <1>2, ControlInit, ControlNext, PTL DEF Spec, ErrorStays
=============================================================================
