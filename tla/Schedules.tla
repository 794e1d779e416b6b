----------------------------- MODULE Schedules -----------------------------
(***************************************************************************)
(* The collector as a daemon, from its configuration to the reports: what   *)
(* [collector], [piiscanner], [collector.logparser] and [[crons]] ask for   *)
(* becomes a map from schedules to commands (collector_schedules.go), every *)
(* schedule a job (crons.go) that runs the scans of each command on each    *)
(* target, collects their reports per target and pushes them when it ends.  *)
(* Servers and the log file come and go while a job runs; a push may fail.  *)
(***************************************************************************)
EXTENDS Naturals, Sequences, FiniteSets, SequencesExt

CONSTANTS
    ScConfigs,   \* the configurations: [targets, ping, tokens, main, pii, log,
                 \*   logFile, hbaFile, piiDb, piiOk, legacy]; piiDb: Unset or the database
                 \*   of [piiscanner]; legacy: Legacy below
    ScGaps,      \* schedule |-> the hours between its firings, as they repeat;
                 \*   a schedule cron cannot parse is not in its domain
    ScChanges,   \* BOUND: how often the servers or the log file change
    ScLate       \* BOUND: hours from a firing to the last of its log commands

Unset == ""
\* A command of [[crons]]: its PostgreSQL targets, how many MySQL servers it names.
Legacy == [schedule : STRING, name : STRING, targets : Seq(STRING), mysql : Nat,
           logParser : BOOLEAN]

\* The configurations are of that shape.
ASSUME ScConfigsAssumption ==
    \A c \in ScConfigs :
        /\ c.targets \in Seq(STRING) /\ c.tokens \in Seq(STRING) /\ c.legacy \in Seq(Legacy)
ASSUME ScLateAssumption == ScLate \in Nat
\* A schedule fires again and again.
ASSUME ScGapsAssumption ==
    \A s \in DOMAIN ScGaps : ScGaps[s] \in Seq(Nat \ {0}) /\ ScGaps[s] # <<>>

VARIABLES
    scConfig, scWorld,  \* the configuration; [down: targets, log: "missing"/"useless"/"lines"]
    scChanged,          \* changes of the world so far
    scState,            \* the collector: "starts", "refused", "serves", "exited"
    scMap,              \* schedule |-> its commands
    scJob,              \* the job that runs
    scStored,           \* <<schedule, target, scan>>: what the main server has been sent
    scRuns              \* schedule |-> how its job ended: [success, panicked, missed,
                        \*   unsent, untaken, down]

scVars == <<scConfig, scWorld, scChanged, scState, scMap, scJob, scStored, scRuns>>

LogScans  == {"inactive_users", "unique_ip", "unused_lines", "password_leak_scanner"}
LogTokens == <<"inactive_users", "unique_ip", "unused_lines", "password_leak_scanner">>
CoreScans == <<"postgres_cis", "hba_scanner", "ssl_check", "common_users">>
Tokens    == {"postgres_cis", "hba_scanner", "guc_drift", "ssl_check", "ssl_audit",
              "pii_scanner"} \cup LogScans

RdsCommands == {"aws_rds", "aws_aurora"}

ScCommand(name, targets, mysql, logParser) ==
    [name |-> name, targets |-> targets, mysql |-> mysql, logParser |-> logParser]
\* A job: its schedule; where its loops over commands, targets and scans are (the scan
\* is 0 until the runners of the command are known); the reports and the errors; whose
\* PII reports the main server did not take; and of its log: which firing of the
\* schedule this is, how many hours after it the clock was last read for a log command,
\* how many in the run before, and the readings that leave a part of the log out.
ScIdle == [schedule |-> Unset, command |-> 0, target |-> 0, scan |-> 0,
           reports |-> <<>>, failed |-> FALSE, unsent |-> {},
           log |-> [firing |-> 0, late |-> 0, before |-> 0, missed |-> {}]]

ScStart(config) ==
    /\ scConfig = config
    /\ scWorld = [down |-> {}, log |-> "lines"] /\ scChanged = 0
    /\ scState = "starts" /\ scMap = <<>> /\ scJob = ScIdle
    /\ scStored = {} /\ scRuns = <<>>
ScInit == \E config \in ScConfigs : ScStart(config)
-----------------------------------------------------------------------------
\* BuildCollectorScheduleMap.

\* parseScanCommands gives nothing for "," alone: CIS and HBA then.
Wanted == IF scConfig.tokens = <<>> THEN <<"postgres_cis", "hba_scanner">> ELSE scConfig.tokens
Ready  == scConfig.main # Unset

\* resolveLogParserInput: a log file, and for the unused lines pg_hba.conf.
LogResolved(requireHba) == scConfig.logFile /\ (requireHba => scConfig.hbaFile)

CommandsRefused ==
    \/ scConfig.targets = <<>>
    \/ IF Contains(Wanted, "all")
       THEN ~LogResolved(TRUE)
       ELSE \E i \in DOMAIN Wanted :
               \/ Wanted[i] \notin Tokens
               \/ Wanted[i] \in LogScans /\ ~LogResolved(Wanted[i] = "unused_lines")

Named(name) == ScCommand(name, scConfig.targets, 0, scConfig.logFile)
CommandsFromPostgres ==
    IF Contains(Wanted, "all") THEN <<Named("all")>>
    ELSE [i \in DOMAIN Wanted |->
            Named(IF Wanted[i] = "ssl_audit" THEN "ssl_check" ELSE Wanted[i])]

\* The raw tokens are looked at, not the default.
IncludesPii == ToSet(scConfig.tokens) \cap {"pii_scanner", "all"} # {}
IncludesLog == ToSet(scConfig.tokens) \cap (LogScans \cup {"all"}) # {}
SeparatePii == scConfig.pii # Unset /\ IncludesPii
SeparateLog == scConfig.log # Unset /\ IncludesLog

\* expandAllScheduleCommands and partitionScheduledCommands.
ExpandAll == [main |-> <<Named("all_core")>>, pii |-> <<Named("pii_scanner")>>,
              log |-> [i \in DOMAIN LogTokens |-> Named(LogTokens[i])]]
\* What of a sequence is in a set, in its order.
Keeping(seq, S) ==
    LET kept[n \in 0 .. Len(seq)] ==
          IF n = 0 THEN <<>>
          ELSE IF seq[n] \in S THEN Append(kept[n - 1], seq[n]) ELSE kept[n - 1]
    IN kept[Len(seq)]
Partitioned(cmds) ==
    LET isPii == {c \in ToSet(cmds) : c.name = "pii_scanner"}
        isLog == {c \in ToSet(cmds) : c.name \in LogScans}
    IN [main |-> Keeping(cmds, ToSet(cmds) \ (isPii \cup isLog)), pii |-> Keeping(cmds, isPii),
        log |-> Keeping(cmds, isLog)]
Buckets ==
    IF Contains(Wanted, "all") /\ (SeparatePii \/ SeparateLog) THEN ExpandAll
    ELSE IF ~SeparatePii /\ ~SeparateLog
         THEN [main |-> CommandsFromPostgres, pii |-> <<>>, log |-> <<>>]
         ELSE Partitioned(CommandsFromPostgres)

\* assignScheduleCommands overwriting what another bucket put there.
AssignOver(out, schedule, cmds) ==
    IF schedule = Unset \/ cmds = <<>> THEN out
    ELSE [s \in DOMAIN out \cup {schedule} |-> IF s = schedule THEN cmds ELSE out[s]]
\* assignScheduleCommands.
Assign(out, schedule, cmds) ==
    IF schedule = Unset \/ cmds = <<>> THEN out
    ELSE [s \in DOMAIN out \cup {schedule} |->
            IF s # schedule THEN out[s]
            ELSE (IF s \in DOMAIN out THEN out[s] ELSE <<>>) \o cmds]

CollectorMap ==
    LET main == Buckets.main \o (IF SeparatePii THEN <<>> ELSE Buckets.pii)
                             \o (IF SeparateLog THEN <<>> ELSE Buckets.log)
        withPii == IF SeparatePii THEN Assign(Assign(<<>>, scConfig.main, main),
                                              scConfig.pii, Buckets.pii)
                                  ELSE Assign(<<>>, scConfig.main, main)
    IN IF SeparateLog THEN Assign(withPii, scConfig.log, Buckets.log) ELSE withPii

\* The hours before the k-th firing of a schedule.
Gap(s, k) == ScGaps[s][((k - 1) % Len(ScGaps[s])) + 1]
\* IsLessThan24Hours, which looks at the next two firings only.
LegacyAccepted(l) ==
    l.schedule \in DOMAIN ScGaps /\ \E now \in DOMAIN ScGaps[l.schedule] : Gap(l.schedule, now) >= 24
LegacyRefused(l) ==
    l.schedule \in DOMAIN ScGaps => \E now \in DOMAIN ScGaps[l.schedule] : Gap(l.schedule, now) < 24

\* mergeLegacyCrons.
LegacyCommands(s) ==
    LET of == Keeping(scConfig.legacy, {l \in ToSet(scConfig.legacy) : l.schedule = s})
    IN [i \in DOMAIN of |->
          ScCommand(of[i].name, of[i].targets, of[i].mysql, of[i].logParser)]
MergeLegacyCrons(out) ==
    [s \in DOMAIN out \cup {l.schedule : l \in ToSet(scConfig.legacy)} |->
       (IF s \in DOMAIN out THEN out[s] ELSE <<>>) \o LegacyCommands(s)]
BuildCollectorScheduleMap == MergeLegacyCrons(IF Ready THEN CollectorMap ELSE <<>>)
AllParsed == DOMAIN BuildCollectorScheduleMap \subseteq DOMAIN ScGaps

\* reconcileSchedules: a schedule cron refuses ends the setup, and main with it.
SetupRefused ==
    \/ Ready /\ CommandsRefused
    \/ \E l \in ToSet(scConfig.legacy) : LegacyRefused(l)
    \/ ~AllParsed
SetupServes ==
    /\ ~(Ready /\ CommandsRefused)
    /\ \A l \in ToSet(scConfig.legacy) : LegacyAccepted(l)
    /\ AllParsed
SetupCron ==
    /\ scState = "starts"
    /\ \/ SetupRefused /\ scState' = "refused" /\ UNCHANGED scMap
       \/ SetupServes /\ scState' = "serves" /\ scMap' = BuildCollectorScheduleMap
    /\ UNCHANGED <<scConfig, scWorld, scChanged, scJob, scStored, scRuns>>
-----------------------------------------------------------------------------
\* A job: scheduleRunner.
Running  == scJob.command # 0
Commands == scMap[scJob.schedule]
AtEnd    == scJob.command > Len(Commands)
Command  == Commands[scJob.command]
Target   == Command.targets[scJob.target]

ScTargets == UNION {ToSet(l.targets) : l \in ToSet(scConfig.legacy) \cup {scConfig}}

Fire ==
    /\ scState = "serves" /\ ~Running
    /\ \E s \in DOMAIN scMap \ DOMAIN scRuns : \E k \in DOMAIN ScGaps[s] :
         scJob' = [ScIdle EXCEPT !.schedule = s, !.command = 1, !.target = 1,
                                 !.reports = [t \in ScTargets |-> {}], !.log.firing = k]
    /\ UNCHANGED <<scConfig, scWorld, scChanged, scState, scMap, scStored, scRuns>>

\* getProcessorsForCron: the scans of a command, in their order; the log scans of
\* "all" are one runner, and every MySQL server has one.
ScanNames(c) ==
    IF c.name = "all" THEN CoreScans \o <<"logs", "pii_scanner">>
    ELSE IF c.name = "all_core" THEN CoreScans
    ELSE IF c.name = "mysql" THEN [i \in 1 .. c.mysql |-> "mysql"] ELSE <<c.name>>
ValidCommand(name) ==
    name \in {"all", "all_core", "guc_drift", "pii_scanner", "mysql"} \cup RdsCommands
             \cup ToSet(CoreScans) \cup LogScans
NeedsLog(name) == name = "all" \/ name \in LogScans

\* On to the next command, target or scan.
NextCommand == [scJob EXCEPT !.command = @ + 1, !.target = 1, !.scan = 0]
NextTarget  == IF scJob.target < Len(Command.targets)
               THEN [scJob EXCEPT !.target = @ + 1, !.scan = 0] ELSE NextCommand
NextScan    == IF scJob.scan < Len(ScanNames(Command))
               THEN [scJob EXCEPT !.scan = @ + 1] ELSE NextTarget
Failing(job) == [job EXCEPT !.failed = TRUE]

\* len(commnd.Postgres) == 0: an error for a command for MySQL or RDS too.
NoTargets ==
    /\ Running /\ ~AtEnd /\ Command.targets = <<>>
    /\ scJob' = Failing(NextCommand)
    /\ UNCHANGED <<scConfig, scWorld, scChanged, scState, scMap, scStored, scRuns>>

AtProcessors == Running /\ ~AtEnd /\ Command.targets # <<>> /\ scJob.scan = 0
\* A log command of [[crons]] without its table: LogParser is nil.
LogParserNil == AtProcessors /\ NeedsLog(Command.name) /\ ~Command.logParser

\* NewLogParser: no file.  NewConfig of the PII scanner: an unknown run_option.
NewLogParserFails == scWorld.log = "missing"
PiiConfigFails == ~scConfig.piiOk
NeedsPii(name) == name \in {"all", "pii_scanner"}
ProcessorsFail ==
    \/ ~ValidCommand(Command.name)
    \/ NeedsLog(Command.name) /\ NewLogParserFails
    \/ NeedsPii(Command.name) /\ PiiConfigFails

\* GetPreviousExecutionTime: from the time it is called at, after the commands and
\* targets before, as far back as the next two firings are apart.  What the run before
\* read ends at the time it was called at then.  BOUND: a run comes to its log commands
\* before its schedule fires again.
ReachesBack(s, k, late, before) == Gap(s, k) + late <= Gap(s, k + 2) + before
InTime(late, before) ==
    /\ late < Gap(scJob.schedule, scJob.log.firing + 1)
    /\ before < Gap(scJob.schedule, scJob.log.firing)
Reading(late, before) ==
    [scJob.log EXCEPT !.late = late, !.before = before,
                      !.missed = IF ReachesBack(scJob.schedule, scJob.log.firing, late, before)
                                 THEN @
                                 ELSE @ \cup {<<late, before>>}]

Processors ==
    /\ AtProcessors /\ ~LogParserNil
    /\ \/ ProcessorsFail /\ scJob' = Failing(NextTarget)  \* none of the command's scans runs
       \/ /\ ~ProcessorsFail /\ ScanNames(Command) = <<>>
          /\ scJob' = NextTarget
       \/ /\ ~ProcessorsFail /\ ScanNames(Command) # <<>> /\ ~NeedsLog(Command.name)
          /\ scJob' = [scJob EXCEPT !.scan = 1]
       \/ /\ ~ProcessorsFail /\ NeedsLog(Command.name)
          /\ \E late \in scJob.log.late .. ScLate, before \in scJob.log.before .. ScLate :
                /\ InTime(late, before)
                /\ scJob' = [scJob EXCEPT !.scan = 1, !.log = Reading(late, before)]
    /\ UNCHANGED <<scConfig, scWorld, scChanged, scState, scMap, scStored, scRuns>>

ScanName == ScanNames(Command)[scJob.scan]
Scans(scan) == Running /\ ~AtEnd /\ scJob.scan # 0 /\ ScanName = scan
TargetDown == Target \in scWorld.down
\* Open looks for the server with pingCheck only; without, the first query fails.
OpenFails == TargetDown /\ scConfig.ping
QueriesFail == TargetDown /\ ~scConfig.ping

Adding(found, job) == [job EXCEPT !.reports[Target] = found]
TargetFound == scJob.reports[Target]
Runner(fails, scans) ==
    /\ scJob' = IF fails THEN Failing(NextScan) ELSE Adding(TargetFound \cup scans, NextScan)
    /\ UNCHANGED <<scConfig, scWorld, scChanged, scState, scMap, scStored, scRuns>>

RunPostgresCis == Scans("postgres_cis") /\ Runner(OpenFails \/ QueriesFail, {"postgres_cis"})
AuditSsl == Scans("ssl_check") /\ Runner(OpenFails \/ QueriesFail, {"ssl_check"})

\* Users that could not be listed are none, in a report of their own.
CommonUsers == Scans("common_users") /\ Runner(OpenFails, {"common_users"})

\* Fetched and thrown away.
FetchGucs == Scans("guc_drift") /\ Runner(TargetDown, {})

\* HBAScanner ends the process when it can neither query nor read the file, and
\* the log runner when it cannot read the settings.
ProcessEnds ==
    /\ scState' = "exited"
    /\ UNCHANGED <<scConfig, scWorld, scChanged, scMap, scJob, scStored, scRuns>>
ScanHba ==
    /\ Scans("hba_scanner")
    /\ IF QueriesFail THEN ProcessEnds ELSE Runner(OpenFails, {"hba_scanner"})

\* Without a store the log is read all the same.
SettingsUnread == QueriesFail
NoLineParsed == scWorld.log # "lines"
LogReports == IF ScanName = "logs" THEN LogScans ELSE {ScanName}
\* PrintSummary has one key: what an earlier log command left there is replaced.
Summarised(found) == (found \ LogScans) \cup LogReports
\* embedLogReadinessInFileData: whether the log has what the parsers need.
Readied(found) == found \cup {"log_readiness"}
ScanLog ==
    /\ \E scan \in LogScans \cup {"logs"} : Scans(scan)
    /\ IF SettingsUnread THEN ProcessEnds
       ELSE /\ scJob' = IF NoLineParsed THEN Adding(Readied(TargetFound), Failing(NextScan))
                                      ELSE Adding(Readied(Summarised(TargetFound)), NextScan)
            /\ UNCHANGED <<scConfig, scWorld, scChanged, scState, scMap, scStored, scRuns>>

\* A server of MySQL answers or not; those of a command share one key.
RunMySql == Scans("mysql") /\ \E answers \in BOOLEAN : Runner(~answers, {"mysql"})

\* Validate ends the process without an answer of aws, as a goroutine of the checks
\* does that panics; what there is to say otherwise is no error.
ScansRds == \E scan \in RdsCommands : Scans(scan)
RunRds == ScansRds /\ (ProcessEnds \/ Runner(FALSE, {ScanName}))

\* A database of [piiscanner] takes the place of every target's own.
PiiDb(t) == IF scConfig.piiDb = Unset THEN t ELSE scConfig.piiDb

\* The PII runner pushes its report itself, with a client of its own: a push that
\* fails is printed and forgotten.  Of a server that is down there is an error only.
ScanPii ==
    /\ Scans("pii_scanner")
    /\ LET db == PiiDb(Target)
       IN IF db \in scWorld.down THEN scJob' = Failing(NextScan) /\ UNCHANGED scStored
          ELSE \/ /\ scJob' = NextScan
                  /\ scStored' = scStored \cup {<<scJob.schedule, db, "pii_scanner">>}
               \/ /\ scJob' = [NextScan EXCEPT !.unsent = @ \cup {db}]
                  /\ UNCHANGED scStored
    /\ UNCHANGED <<scConfig, scWorld, scChanged, scState, scMap, scRuns>>

\* The settings join a report before it is pushed, and how ready the log is, when
\* the server answers or the configuration has log scans; without the settings, CIS
\* or HBA there is no payload.
CollectGuc(t, found) == found \cup (IF t \in scWorld.down THEN {} ELSE {"guc_drift"})
CollectLogReadiness(t, found) ==
    IF t \notin scWorld.down \/ IncludesLog THEN Readied(found) ELSE found
NodePayload(found) ==
    IF found \cap {"postgres_cis", "hba_scanner", "guc_drift"} = {} THEN {} ELSE found
Pushed(t) ==
    IF scJob.reports[t] = {} THEN {}
    ELSE NodePayload(CollectLogReadiness(t, CollectGuc(t, scJob.reports[t])))

Pushing == {t \in DOMAIN scJob.reports : Pushed(t) # {}}

\* A runner without its log table or a check of the suites may panic and leave the
\* job, whose deferred calls push what there is and report the run by its
\* errors.  A push may fail: settled, nothing is pending, and what was not taken was
\* refused or is lost (RetryQueue); not settled, there is a retry to come, or a 401 or
\* a panic in the pushes themselves (CronJobs) keeps the report of the run back.
ScanPanics == LogParserNil \/ ScansRds
              \/ \E scan \in {"postgres_cis", "hba_scanner", "mysql"} : Scans(scan)
JobEnds ==
    /\ (Running /\ AtEnd) \/ ScanPanics
    /\ \E taken \in SUBSET Pushing, settled \in BOOLEAN :
         /\ scStored' = scStored \cup
              UNION {{<<scJob.schedule, t, x>> : x \in Pushed(t)} : t \in taken}
         /\ scRuns' = [s \in DOMAIN scRuns \cup {scJob.schedule} |->
                         IF s # scJob.schedule THEN scRuns[s]
                         ELSE [success |-> settled /\ ~scJob.failed, panicked |-> ~AtEnd,
                               missed |-> scJob.log.missed, unsent |-> scJob.unsent,
                               untaken |-> Pushing \ taken, down |-> scWorld.down]]
    /\ scJob' = ScIdle
    /\ UNCHANGED <<scConfig, scWorld, scChanged, scState, scMap>>

\* A server stops or comes back, the log file is rotated away or is another's.
WorldChanges ==
    /\ scState = "serves" /\ scChanged < ScChanges
    /\ \/ \E t \in ScTargets :
            scWorld' = [scWorld EXCEPT !.down = SymDiff(@, {t})]
       \/ \E log \in {"missing", "useless", "lines"} \ {scWorld.log} :
            scWorld' = [scWorld EXCEPT !.log = log]
    /\ scChanged' = scChanged + 1
    /\ UNCHANGED <<scConfig, scState, scMap, scJob, scStored, scRuns>>

ScWork == Processors \/ NoTargets \/ RunPostgresCis \/ AuditSsl \/ CommonUsers \/ FetchGucs
          \/ ScanHba \/ ScanLog \/ RunMySql \/ RunRds \/ ScanPii \/ JobEnds
ScNext == SetupCron \/ Fire \/ (scState = "serves" /\ ScWork) \/ WorldChanges
-----------------------------------------------------------------------------
\* What the configuration asks of a schedule, read without the code's buckets.
AllScans == ToSet(CoreScans) \cup LogScans \cup {"pii_scanner"}
Meant(c) == IF c.name = "all" THEN AllScans
            ELSE IF c.name = "all_core" THEN ToSet(CoreScans)
            ELSE IF c.name = "mysql" /\ c.mysql = 0 THEN {} ELSE {c.name}
AskedTokens ==
    IF Contains(Wanted, "all") THEN AllScans
    ELSE {IF x = "ssl_audit" THEN "ssl_check" ELSE x : x \in ToSet(Wanted)}
When(x) == IF x = "pii_scanner" /\ scConfig.pii # Unset THEN scConfig.pii
           ELSE IF x \in LogScans /\ scConfig.log # Unset THEN scConfig.log ELSE scConfig.main
Requested(s) ==
    (IF Ready THEN ToSet(scConfig.targets) \X {x \in AskedTokens : When(x) = s} ELSE {})
    \cup UNION {ToSet(l.targets) \X Meant(l) :
                  l \in {k \in ToSet(scConfig.legacy) : k.schedule = s}}
Asked(s) == {<<IF a[2] = "pii_scanner" THEN PiiDb(a[1]) ELSE a[1], a[2]>> : a \in Requested(s)}

\* Scans the code does not deliver although the run counts as a success.
Replaced(s, t, x) ==       \* a later log command of the job takes the key
    x \in LogScans /\ \E y \in LogScans \ {x} : <<s, t, y>> \in scStored
Lonely(s, t, x) ==         \* only reports that are not sent alone
    /\ ~\E y \in {"postgres_cis", "hba_scanner"} : <<s, t, y>> \in scStored
    /\ x = "guc_drift" \/ t \in scRuns[s].down
Reread(s, t, x) ==         \* the settings fetched by the scan are fetched again
    x = "guc_drift" /\ t \in scRuns[s].down

Untaken(s, t, x) ==        \* no push of it was taken, and nobody was told
    IF x = "pii_scanner" THEN t \in scRuns[s].unsent ELSE t \in scRuns[s].untaken

\* A scan that the configuration asks for is run by the job of its schedule for
\* every target and reaches the main server, or the run is not reported there as a
\* success; nothing is run that was not asked for.  Excepted: log scans that another
\* replaces, settings alone, settings and lone reports of a server that went down
\* before the push, what follows a panic, a push that is refused or forgotten.  What
\* one run reads of a log joins what the run before read, except by schedules with
\* three or more firings to a cycle and in a run that is later to its log command
\* than that one was (BuildCollectorScheduleMap, scheduleRunner, PrintSummary,
\* BuildNodePayload, GetPreviousExecutionTime).
ScansDelivered ==
    /\ \A s \in DOMAIN scRuns :
         /\ scRuns[s].success /\ ~scRuns[s].panicked =>
              \A a \in Asked(s) : \/ <<s, a[1], a[2]>> \in scStored
                                  \/ Replaced(s, a[1], a[2])
                                  \/ Lonely(s, a[1], a[2])
                                  \/ Reread(s, a[1], a[2])
                                  \/ Untaken(s, a[1], a[2])
         /\ \A w \in scRuns[s].missed : Len(ScGaps[s]) >= 3 \/ w[1] > w[2]
    /\ \A d \in scStored : <<d[2], d[3]>> \in Asked(d[1]) \/ d[3] \in {"guc_drift", "log_readiness"}
    /\ scState = "serves" => \A s \in DOMAIN ScGaps : Asked(s) # {} => s \in DOMAIN scMap
    /\ scState = "exited" => ScansRds \/ (scWorld.down # {} /\ ~scConfig.ping)
=============================================================================
