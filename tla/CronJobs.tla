------------------------------ MODULE CronJobs ------------------------------
(***************************************************************************)
(* The scheduled jobs of the collector: every invocation the cron library   *)
(* fires runs through the chain Recover, SkipIfStillRunning (pkg/cron) into *)
(* the function scheduleRunner built for its schedule (crons.go), whose     *)
(* deferred calls report the run and clear the shared running flag.         *)
(*                                                                          *)
(* Invocations of one schedule share one token channel; all schedules share *)
(* cronPushState and the client of the main server, which is enabled and    *)
(* has its client here.  Every step is one access to shared state.  What    *)
(* the scans compute is left out: a scan ends well, with an error, or       *)
(* panics; of a post only what the server answers matters.  A post it could *)
(* not take now is queued, and RetryQueue says what becomes of it.          *)
(***************************************************************************)
EXTENDS Naturals, FiniteSets

CONSTANTS
    Schedules,    \* the cron expressions that have an entry
    Invocations,  \* the firings looked at
    Of,           \* the schedule each firing belongs to
    Scans,        \* processors one invocation runs, over its commands and targets
    CanPanic      \* whether code called by a job may panic

ASSUME OfAssumption   == Of \in [Invocations -> Schedules]
ASSUME ScanAssumption == Scans \in Nat /\ CanPanic \in BOOLEAN

VARIABLES
    token,        \* the channel of SkipIfStillRunning holds its value
    pc,           \* where each invocation is
    left,         \* processors an invocation has still to run
    runErr,       \* scheduleRunner's runErr is not ""
    panicking,    \* a panic is unwinding the invocation
    report,       \* what became of the invocation's run report
    authBlocked,  \* RetryQueue.authBlocked: a 401 was met, nothing is sent
    cronRunning,  \* cronPushState.cronRunning
    lastError,    \* cronPushState.lastError is not ""
    process       \* "up", "stopping" after the signal, "exited"

jobVars == <<left, runErr, panicking, report>>
shared  == <<authBlocked, cronRunning, lastError>>
vars    == <<token, pc, left, runErr, panicking, report, authBlocked,
             cronRunning, lastError, process>>

\* Between the receive from the channel and the end of the wrapper, and the
\* part of it in which the running flag should be set.
Marked == {"scan", "render", "results", "push", "unmark"}
Inside == {"entered", "leave"} \cup Marked
Places == {"idle", "fired", "skipped", "done"} \cup Inside

\* A report is handed to send as a success or a failure, and posted or queued;
\* it is refused unsent after a 401, or turned down by the server; or it is
\* never made, since the results' push before it panicked.
Handed  == {"ok", "failed"}
Reports == Handed \cup {"none", "blocked", "rejected", "cut"}

Init ==
    /\ token = [s \in Schedules |-> TRUE]
    /\ pc = [i \in Invocations |-> "idle"]
    /\ left = [i \in Invocations |-> Scans]
    /\ runErr = [i \in Invocations |-> FALSE]
    /\ panicking = [i \in Invocations |-> FALSE]
    /\ report = [i \in Invocations |-> "none"]
    /\ authBlocked = FALSE
    /\ cronRunning = FALSE
    /\ lastError = FALSE
    /\ process = "up"

At(i, place)   == pc[i] = place /\ process # "exited"
GoTo(i, place) == pc' = [pc EXCEPT ![i] = place]

\* The library starts a goroutine for an entry that is due.
Fire(i) ==
    /\ At(i, "idle") /\ process = "up"
    /\ GoTo(i, "fired")
    /\ UNCHANGED <<token, jobVars, shared, process>>

\* case v := <-ch
EnterUnguarded(i) ==      \* mutant: the channel is read only to be looked at
    /\ At(i, "fired") /\ token[Of[i]]
    /\ GoTo(i, "entered")
    /\ UNCHANGED <<token, jobVars, shared, process>>

Enter(i) ==
    /\ At(i, "fired") /\ token[Of[i]]
    /\ token' = [token EXCEPT ![Of[i]] = FALSE]
    /\ GoTo(i, "entered")
    /\ UNCHANGED <<jobVars, shared, process>>

\* default: the invocation is skipped.
Skip(i) ==
    /\ At(i, "fired") /\ ~token[Of[i]]
    /\ GoTo(i, "skipped")
    /\ UNCHANGED <<token, jobVars, shared, process>>

\* markCronRunning(true)
MarkRunning(i) ==
    /\ At(i, "entered")
    /\ cronRunning' = TRUE
    /\ GoTo(i, "scan")
    /\ UNCHANGED <<token, jobVars, authBlocked, lastError, process>>

\* A processor is left to run.
More(i) == left[i] > 0

\* One processor returns: with nil, or with an error that is recorded.
Scan(i) ==
    /\ At(i, "scan") /\ More(i)
    /\ left' = [left EXCEPT ![i] = @ - 1]
    /\ \/ UNCHANGED <<runErr, lastError>>
       \/ runErr' = [runErr EXCEPT ![i] = TRUE] /\ lastError' = TRUE
    /\ UNCHANGED <<token, pc, panicking, report, authBlocked, cronRunning, process>>

ScansDone(i) ==
    /\ At(i, "scan") /\ left[i] = 0
    /\ GoTo(i, "render")
    /\ UNCHANGED <<token, jobVars, shared, process>>

\* A scan panics: the deferred calls run next.
ScanPanics(i) ==
    /\ At(i, "scan") /\ More(i) /\ CanPanic
    /\ panicking' = [panicking EXCEPT ![i] = TRUE]
    /\ GoTo(i, "render")
    /\ UNCHANGED <<token, left, runErr, report, shared, process>>

\* The deferred call that renders and mails the HTML reports.
Render(i) ==
    /\ At(i, "render")
    /\ \/ UNCHANGED panicking
       \/ CanPanic /\ panicking' = [panicking EXCEPT ![i] = TRUE]
    /\ GoTo(i, "results")
    /\ UNCHANGED <<token, left, runErr, report, shared, process>>

\* The posts of the deferred push may meet the 401 that blocks the client.
MayBlock == authBlocked' \in {authBlocked, TRUE}

\* The deferred push begins with the results of every target
\* (pushMainServerTickResults).
PushResults(i) ==
    /\ At(i, "results")
    /\ MayBlock
    /\ GoTo(i, "push")
    /\ UNCHANGED <<token, jobVars, cronRunning, lastError, process>>

\* A panic in them (SHOW ALL is read and the scores are counted there) leaves
\* the deferred function: the run report, which comes after, is not made.
ResultsPanic(i) ==
    /\ At(i, "results") /\ CanPanic
    /\ MayBlock
    /\ panicking' = [panicking EXCEPT ![i] = TRUE]
    /\ report' = [report EXCEPT ![i] = "cut"]
    /\ GoTo(i, "unmark")
    /\ UNCHANGED <<token, left, runErr, cronRunning, lastError, process>>

\* pushCronRunFinishWithClient: a run is a success when it recorded no error
\* and FlushRetries leaves nothing pending.  What PushRun returns is ignored.
Reported(i, r) ==
    /\ report' = [report EXCEPT ![i] = r]
    /\ GoTo(i, "unmark")
    /\ UNCHANGED <<token, left, runErr, panicking, cronRunning, lastError, process>>

PushUnlessPanic(i) ==     \* mutant: the push is an ordinary call
    /\ At(i, "push") /\ ~authBlocked
    /\ Reported(i, IF panicking[i] THEN "none" ELSE "ok")
    /\ UNCHANGED authBlocked

Push(i) ==
    /\ At(i, "push") /\ ~authBlocked
    /\ \E pending \in BOOLEAN :
         Reported(i, IF runErr[i] \/ pending THEN "failed" ELSE "ok")
    /\ UNCHANGED authBlocked

\* The client is blocked, or the flush or the report itself meets the 401.
PushBlocked(i) ==
    /\ At(i, "push")
    /\ authBlocked' = TRUE
    /\ Reported(i, "blocked")

\* Any other error that no retry can mend.
PushRejected(i) ==
    /\ At(i, "push") /\ ~authBlocked
    /\ Reported(i, "rejected")
    /\ UNCHANGED authBlocked

\* The heartbeat, or another post of the shared client, meets a 401.
Unauthorized ==
    /\ ~authBlocked /\ process # "exited"
    /\ authBlocked' = TRUE
    /\ UNCHANGED <<token, pc, jobVars, cronRunning, lastError, process>>

\* defer c.markCronRunning(false)
Unmark(i) ==
    /\ At(i, "unmark")
    /\ cronRunning' = FALSE
    /\ GoTo(i, "leave")
    /\ UNCHANGED <<token, jobVars, authBlocked, lastError, process>>

\* ch <- v after job.Run() returns.
LeaveEmpty(i) ==          \* mutant: the value is not put back
    /\ At(i, "leave") /\ ~panicking[i]
    /\ GoTo(i, "done")
    /\ UNCHANGED <<token, jobVars, shared, process>>

Leave(i) ==
    /\ At(i, "leave") /\ ~panicking[i]
    /\ token' = [token EXCEPT ![Of[i]] = TRUE]
    /\ GoTo(i, "done")
    /\ UNCHANGED <<jobVars, shared, process>>

\* A panic leaves SkipIfStillRunning before ch <- v; Recover ends it.
Recovered(i) ==
    /\ At(i, "leave") /\ panicking[i]
    /\ GoTo(i, "done")
    /\ UNCHANGED <<token, jobVars, shared, process>>

\* cronHelper.Run: a signal stops the scheduler; Run does not wait for the
\* jobs that are running, and the process ends when main returns.
StopCron ==
    /\ process = "up"
    /\ process' = "stopping"
    /\ UNCHANGED <<token, pc, jobVars, shared>>

Exit ==
    /\ process = "stopping"
    /\ process' = "exited"
    /\ UNCHANGED <<token, pc, jobVars, shared>>

Job(i) ==
    \/ Enter(i) \/ Skip(i) \/ MarkRunning(i)
    \/ Scan(i) \/ ScansDone(i) \/ ScanPanics(i)
    \/ Render(i) \/ PushResults(i) \/ ResultsPanic(i)
    \/ Push(i) \/ PushBlocked(i) \/ PushRejected(i)
    \/ Unmark(i) \/ Leave(i) \/ Recovered(i)

Next ==
    \/ \E i \in Invocations : Fire(i) \/ Job(i)
    \/ Unauthorized \/ StopCron \/ Exit

Spec == Init /\ [][Next]_vars

\* A goroutine that can go on does; scans and pushes have timeouts.
LiveSpec == Spec /\ \A i \in Invocations : WF_vars(Job(i))
-----------------------------------------------------------------------------
TypeOK ==
    /\ token \in [Schedules -> BOOLEAN]
    /\ pc \in [Invocations -> Places]
    /\ left \in [Invocations -> 0 .. Scans]
    /\ runErr \in [Invocations -> BOOLEAN]
    /\ panicking \in [Invocations -> BOOLEAN]
    /\ report \in [Invocations -> Reports]
    /\ authBlocked \in BOOLEAN
    /\ cronRunning \in BOOLEAN /\ lastError \in BOOLEAN
    /\ process \in {"up", "stopping", "exited"}

\* "assuring us one running instance at a time" (cron.go:83-84), panics and
\* firings that come together included.
OneInstance ==
    \A i, j \in Invocations :
        i # j /\ Of[i] = Of[j] => ~(pc[i] \in Inside /\ pc[j] \in Inside)

\* An invocation is skipped only "if its previous invocation is still
\* running" (cron.go:82-83).
SkipsOnlyOverlap ==
    [][\A i \in Invocations :
         pc[i] = "fired" /\ pc'[i] = "skipped" =>
           \E j \in Invocations : Of[j] = Of[i] /\ pc[j] \in Inside]_vars

\* What an invocation past the push shows: its report was handed over, as a
\* success only if no error was recorded; or the server turned it down; or the
\* client is blocked by a 401; or the push of the results before it panicked,
\* and the panic is unwinding the job.  A panic in a scan or in the rendering
\* excuses nothing (crons.go:318-333).
Settled(i) ==
    \/ report[i] \in Handed /\ (report[i] = "ok" => ~runErr[i])
    \/ report[i] = "rejected"
    \/ report[i] = "blocked" /\ authBlocked
    \/ report[i] = "cut" /\ panicking[i]

\* Every invocation that starts gets to its run report, also when its scans
\* panic, unless the process ends before or the excuses of Settled hold.
EveryRunReported ==
    \A i \in Invocations :
        pc[i] \in Inside ~> Settled(i) \/ process = "exited"

\* Only a panic or the end of the process can keep a schedule from running
\* again: its token always comes back (cron.go:92-94).
TokenComesBack ==
    \A s \in Schedules :
        []<>(\/ token[s] \/ process = "exited"
             \/ \E i \in Invocations : Of[i] = s /\ panicking[i])
=============================================================================
