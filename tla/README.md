# Formal models of ciscollector

TLA+ models of ciscollector-v2: the parts in which several goroutines or
several programs have to agree (the collector's client of the main server, its
scheduled jobs, its PII scan, its log reader, the main server's WebSocket hub
and its store), and the programs that run alone but whose outcome depends on
the order of their steps and on what fails on the way (the check suites, the
HBA and log scans, the configuration generator, the dashboard's page, the
schedules, a run by hand, the Python helper of the PII scan). TLC checks small
instances; TLAPS proves all the invariants and all the action properties for
every value of the constants.

## 1. The system

`ciscollector` scans databases (PostgreSQL, MySQL, RDS) and either prints and
mails reports or, as a daemon, runs scans on schedules and pushes the results
to `main-server`. The main server stores scan results and the state of the
collectors in SQLite or PostgreSQL and shows them in a web front end.

| component | state it keeps | operations | talks to |
|---|---|---|---|
| main-server client (`pkg/mainserverclient`) | the in-memory retry queue, the 401 latch | `send`, `Enqueue`, `Flush`, `StartFlusher` | main server over HTTP; called by the heartbeat loop and the jobs |
| cron wrapper (`pkg/cron/cron.go`) | one token channel per schedule | `Recover`, `SkipIfStillRunning` around each job | the robfig/cron library |
| schedule map and runner (`pkg/config/collector_schedules.go`, `cmd/ciscollector/crons.go`, `mainserver_push.go`) | the map from schedules to commands; `cronPushState`: running flag, last error, client; the payload under construction | `BuildCollectorScheduleMap`, `scheduleRunner`, heartbeat loop, run report, shutdown | configuration, cron wrapper, client, scanners |
| run by hand (`pkg/config/config.go`, `cmd/ciscollector/main.go`) | the overview and error maps, `fileData`, `manualPushed` | `NewConfig` (flags, menus), the steps of `main`, what it defers | scanners, client, files |
| WebSocket hub (`cmd/main-server/ws_hub.go`, `ws_handler.go`) | set of clients, one bounded channel per client | register, unregister, broadcast | registration handler, dashboard browsers |
| handlers, repositories and report store (`cmd/main-server`, `pkg/mainserver/service`, `pkg/repository`, `pkg/reportstore`) | tables of runs, reports, GUC snapshots, collector status, activity, logs; SQLite's write mutex | register, heartbeat, activity, log, run, scan, PII report | the collector's client, the hub, the database |
| dashboard service (`pkg/dashboard/service`) | none | which run of a target is shown, 25 critical checks | the report store |
| PII scan pipeline (`pkg/piiscanner`, `pkg/cmd_processor`, `python/spacy_runner.py`) | input, output and error channels, the map of findings; a Python process per worker behind a terminal | `Scan`, `PushColumn`, `PushValue`, the workers, `OutputRunner`, `Output`; `Start`, `Process` | detectors, the scanned database |
| fast log runner and parsers (`pkg/runner`, `pkg/parselog`, `pkg/hbarules`) | the reader's position, the chunk under construction, the two time layouts, the rules found in use | `Process`, `Parse`, `mergeContinueLines`, `baseParser.Parse`, `Feed` | log files |
| check suites (`postgres`, `mysql`, `rds`, `postgres/hbascanner`) | the result records of the checks, the map of instances | `PerformAllChecks`, `CheckByControl`, the pool of goroutines, `HBAScanner` | databases, shell commands, the aws command line |
| configuration generator (`postgresconfig`) | the map of answers | the questions, `ConfigGenerator` | terminal, file |

### Hard behaviours

- **Copy, unlock, post, write back.** `Flush` copies the queue, posts without
  the lock and replaces the queue by what it kept. Sends and other flushes run
  in between.
- **The 401 latch.** One goroutine sees a 401 while others are between their
  check of the latch and their own result.
- **Deferred calls, panics and tokens.** A job is a stack of wrappers and
  deferred calls; a panic takes a different way out than a return.
- **Bounded channels that are closed.** A hub client can leave through three
  doors; a PII worker or its Python helper can go while somebody sends to it.
- **Delivery.** A request can arrive twice (reply lost, then retried), late, or
  not at all; the server has no request identifiers.
- **Several statements, one meaning.** The stores write related rows in
  separate statements, on PostgreSQL without a common transaction.
- **Records that outlive a run.** The checks of a version write into the same
  results for every target and every tick; RDS keeps its map of instances.
- **The same rule twice.** HBA controls, logging settings and the answers of
  the dashboard exist in two copies that have drifted apart.
- **Failures that end the program.** `os.Exit`, `log.Fatal` and nil errors in a
  scan take a daemon with them.
- **Orders nobody chose.** Which command of a schedule runs before which, which
  question an earlier answer makes superfluous, which file of results comes
  last.

### What makes each component correct

- client: bounded, ordered, duplicate-free queue; bounded number of attempts;
  no delivery after an acknowledgement; silence after a 401; nothing lost
  without an error or a log line; the queue empties.
- jobs: one instance per schedule, a report for every run, skips only when
  something runs; every scan the configuration asks for is run and reaches the
  main server, or the run counts as failed.
- run by hand: every result that was asked for is shown, every failure told.
- hub: never crashes, no gaps in what a client is given, never waits for a
  client, dead connections leave.
- store: what was answered with 200 is there; a stored report is never changed
  by another; a scan that brings settings finds their snapshot; a later good
  run does not hide an error; no handler keeps the mutex.
- dashboard: a verdict is earned by what the shown run reports of that subject.
- PII pipeline and log runner: every row or line is looked at exactly once,
  whatever fails on the way; the pipeline ends; an answer of the helper belongs
  to the value it was asked about.
- suites: a report tells of its own target and tick; a verdict depends on the
  server and not on the path taken; a scan ends the collector for no finding.
- generator: the file it reports as generated is one PostgreSQL starts with.

## 2. The modules

| module | models | state and actions |
|---|---|---|
| `RetryQueue` | `mainserverclient` | `items`, `authBlocked` are the fields of `RetryQueue`; `pc`, `body`, `pending`, `remaining` are the locals of the goroutines in `send` and `Flush`. `SendStart` is the check of the latch; `SendOk`, `SendAuthError`, `SendRejected`, `SendRetryable` are the outcomes of the exchange with the section that follows; `FlushStart`, `FlushKeep`, `FlushOk`, `FlushAuthError`, `FlushFailed`, `FlushEnd` are the sections of `Flush`. |
| `PostLedger` | what the client promises | one status per request and the moves it may make |
| `RetryQueueProofs` | | theorems on `RetryQueue` |
| `CronJobs` | `pkg/cron` around `scheduleRunner` | `token` is the channel of `SkipIfStillRunning`, `pc` walks through the wrapper, the body and the deferred calls in their order: the results (`PushResults`), which may panic and take the report with them, then the report (`Push`, `PushBlocked`, `PushRejected`), then the flag. `authBlocked` is the latch of the client; any other goroutine may have set it (`Unauthorized`) |
| `CronJobsProofs` | | theorems on `CronJobs` |
| `WsHub` | the hub, its pumps and handlers | `clients`, `broadcast`, `send`, `closed` are the hub's data; `fanout` and `msg` are the position inside the range over the clients; `handler` and `pump` are the goroutines of a connection |
| `WsHubProofs` | | theorems on `WsHub` |
| `PiiPipeline` | one scan: `databasePiiScanner`, `TableScanManager`, `TableScanWorker` | `scanner` and `next` are the position in `Scan`, `processTable` and the pushes; `inputChan`, `errorChan`, `outClosed` are the channels of the manager, `holding` and `merged` belong to `OutputRunner`; `worker`, `data`, `det` are the two loops of a worker. Inputs are numbered in the order of the scan. |
| `PiiPipelineProofs` | | theorems on `PiiPipeline` |
| `LogChunks` | `ProcessHelper.Process` and `ChunkProcessor.Parse` | `pos` is the position of the `bufio.Reader`, `from` and `to` delimit `buf`; `Read`, `CompleteLine`, `AppendLine`, `CutOff` are the statements of the loop in their order; `Parsed` is what `Parse` makes of a chunk |
| `LogChunksProofs` | | theorem on `LogChunks` |
| `MainServer` | `cmd/main-server` collector, scan and PII handlers, the service, both repositories, the report store | a delivery `d` is one post of a request, `pc[d]` the SQL statement it executes next; `status`, `children`, `runs`, `gucs` are the tables, `writeMu` the SQLite mutex, `backend` the repository. One action per statement (`UpsertCollectorStatus`, `InsertCollectorActivity`, `TouchCollectorLastSeen`, `InsertCollectorRun`, `UpsertRunStatus`, `UpsertServerGucSnapshot`, `PersistScanResult`, `LookupRun`, `PersistPIIReport`), `Post`, `AnswerOk`, `Fail`, `Crash` |
| `MainServerProofs` | | theorems on `MainServer` |
| `PgChecks`, `PgSuite` | the PostgreSQL suite (`postgres/check.go`, the checks of `postgres/*`) | `PgChecks` is the catalogue: numbers, error and pass rules, suites by version. `PgSuite` follows one check through a job: `pgNumbers` and `pgResult` are the shared `Result` records, `pgTold` what each target's run found, `pgSent` what is reported |
| `LogSettings` | the logging settings (`postgres/lma`) | one setting, judged by its own function (`lmaLone`) and by `Check_LMA_Results` (`lmaSuite`) |
| `MySqlChecks`, `MySqlSuite` | the MySQL suite (`mysql`) | the catalogue as functions of what the probe yields; a run with its score |
| `RdsScan` | the RDS runner (`rds`) | ticks, the pool's goroutines per control and instance, `rdsMap` for `dbMap`, the mutex of the report; instances that come and go |
| `HbaScan` | `postgres/hbascanner` | nine queries, the fall-back to the file, nine rules line by line; the file may be edited in between |
| `HbaUsage` | `pkg/hbarules`, `HbaUnusedLineParser` | the server matching connections to rules (type, databases, users and roles, address) and logging them; the parser reading the rules its own way and marking those used |
| `TimeFormats` | `baseParser.Parse` (`pkg/parselog`) | the unguarded swap of the two layouts by several goroutines, one read and one write at a time |
| `ConfigWizard` | `postgresconfig` | the questions in order, skipped, answered or mistyped; `ConfigGenerator` as a function of the answers; `Starts` is PostgreSQL |
| `Dashboard` | `pkg/dashboard/service` | runs of a target arrive, with the controls they have and the queries that failed; `PreferRunRow` chooses, `CheckFromCIS`, `ResolveCritical` and `EvalUsers` answer |
| `Schedules` | `collector_schedules.go`, `crons.go`, the runners of a job, `payload.go` | from the configuration (`BuildCollectorScheduleMap`, `SetupCron`) through a job (`Fire`, `Processors`, which reads the clock for log commands, one action per runner, `JobEnds` with the pushes that are taken) to what the main server has (`scStored`) |
| `SchedulesProofs` | | what the map of schedules means, and the invariant of the daemon |
| `ManualRun` | `config.go` (`NewConfig`), `main.go` | flags or menus to `mrPhase`, the steps of `main` in their order, what is deferred |
| `SpacyHelper` | `pkg/cmd_processor`, `spacy_detector.go`, `spacy_runner.py` | a worker, the goroutines `inputFunction`, `outputFunction` and the one that waits, the unbuffered channels between them, the process |
| `CheckRuns` | the twelve programs above side by side | each has its own variables and nothing else; `runner` says whose steps are followed |
| `CheckRunsProofs` | | theorems on `CheckRuns`, one program after the other |
| `MC*` | | instances for TLC |

History variables (`unsent`, `enqueued`, `tries`, `acked`, `dropped` in
`RetryQueue`; `report` in `CronJobs`; `taken`, `given` in `WsHub`; `pushed` in
`PiiPipeline`; `chunks` in `LogChunks`; those marked in the modules of
`CheckRuns`) are marked as such where they are declared. Definitions marked
"mutant" are deliberately wrong variants of the definition below them; no
specification uses them. They show that the property they belong to notices
the error.

### Abstractions

- *HTTP exchanges.* An exchange touches no shared state of the client. It is
  taken in one step with the locked section that follows it; anything another
  goroutine does during the exchange can equally happen before that step.
- *Time.* Whether an item's `nextTry` has passed is a choice made when `Flush`
  looks at it. Once passed it stays passed (`ripe`). The backoff table and the
  three-second ticker are fairness only.
- *Replies.* Only the four classes the code tells apart are kept: 2xx, 401,
  retryable (5xx, 429, network), and any other.
- *Shutdown.* When a tick and a cancellation are both ready, Go's `select` may
  take the tick. Such a flush keeps every item, as one that the cancellation
  overtakes does; `FlushStart` therefore leaves it out.
- *Scans.* A scan ends well, with an error or, with `CanPanic`, in a panic.
- *Values of a scan.* Every column, line and piece is its own input, so the
  model can say "once"; what a detector thinks of it is not kept. A detector's
  answer is taken together with sending it, since detecting shares nothing.
- *Bytes of a log.* A byte is a newline, a tab or anything else. `Parse` runs in
  goroutines that only count and feed, so it is a function of the chunk. A
  chunk is always contiguous and is kept as an interval.
- *Lengths of reads.* After the first read `bufio` may return any number of
  bytes, from one to the rest of the file.
- *Writes of the hub.* `WriteMessage` has no deadline; on an open connection
  nothing forces it to end.
- *Statements.* An SQL statement of the main server is atomic; every one may
  fail; the server may stop between two. A row keeps what the properties tell
  apart: times, whether there is an error, which request a report came from.
- *Checks.* A check is its last probe: not run, refused, nothing found, as the
  benchmark asks, or a violation; a MySQL command is its exit status and what it
  wrote. Every rule for these is taken from the check's code; texts are not.
- *Rules of pg_hba.conf.* For usage a rule is its type, the names meant by its
  columns with the way they are written (one way for both columns), its address
  out of a table of ranges, host names and keywords over three clients, and
  whether the file's pattern matches its line. Membership is one table
  (`HuMembers`); a replication connection is one to no database.
- *Texts that are searched.* Where the code looks for words (the dashboard), a
  control is the set of those words its text has, and of those in the table that
  comes with it: the names of the settings it lists (`critical_checks_resolve.go:15`).
  Cells that name roles or rules of pg_hba.conf, and the texts of errors, hold none
  of them; a query that failed has no table. Titles and numbers are those of the
  suites for versions 13 and 14; a report may lack any control. What the `grep`
  of control 1.7 prints depends on the machine: it is taken for the judge of
  `PGPASSWORD` that it is meant to be.
- *Answers at the terminal.* What the patterns of the generator let through is
  reduced to a few answers, chosen so that every branch of the generator is
  taken and every limit of the server is passed by some answer: versions before
  and after the known ones (`user_input.go:62` takes any integer), 262143 workers,
  64 TB of memory, 2 TB of temporary files, an address of another machine, a port
  of root's, a prefix with a quote. Not among them: numbers with a leading zero,
  which PostgreSQL reads in octal or not at all; a `max_wal_size` of 1024 TB and
  more; a port in use. PostgreSQL is taken to have the certificate `ssl` asks
  for. `Room` and `Starts` state the server's limits (`MAX_BACKENDS`, sizes in
  blocks of 31 bits) for the versions in `Releases`. A user thinks about some questions (`cfFollowed`) and gives the usual
  answer to the others.
- *Schedules.* A schedule is the list of gaps between its firings. A job is the
  place its three loops have reached (command, target, scan) and the reports of
  each target. A legacy command whose name is none of the collector's fails its
  target, as in the code; one for MySQL or RDS runs once per target of PostgreSQL
  it names, because the loop is over those (`crons.go:379`), and fails without any.
  The clock is read when a log command is reached (`crons.go:177`), in whole hours
  after the firing (`late`) and never backwards; `before` is how late the run before
  was, which no state of the job remembers, so it is any. A run comes to its log
  commands before its schedule fires again (`InTime`; later firings are skipped, see
  `CronJobs`). What keeps a push from being taken is in `RetryQueue` and `CronJobs`;
  here any subset of the targets' pushes is (`taken`), and whether anything is left
  to retry or the run's own report is kept back is one bit (`settled`). MySQL and
  RDS scans do not depend on the target they run for.
- *Scans of a job and of a run by hand.* In `Schedules` and `ManualRun` a scan
  works, fails, ends the process by `log.Fatal` or panics; what it does inside is in
  its own module. A broken scan of `ManualRun` is one of whose queries, rows or tools
  fails, which one is not said: what depends on that (an error, an exit or a panic of
  the wraparound scan) is a choice. What `ManualRun` has sent is handed to the client;
  what becomes of it there is in `RetryQueue`.
- *The terminal of the helper.* Lines in order; the terminal's echo of a value
  never starts with a brace and is left out with the reader's other ignored
  lines.

## 3. Runs

| run | question | instance |
|---|---|---|
| `retry_cron` | does the queue stay bounded, ordered and duplicate-free (`QueueBounded`, `QueueInOrder`), and is the client silent after a 401 (`BlockedIsQuiet`), when everything overlaps? | flusher, heartbeat and job; 3 requests; queue of 2; 1 retry; all replies; cancellation |
| `retry_one_flusher` | are requests posted at most 1 + maxRetries times (`RetryBudget`) and never after their 2xx (`NoRepost`)? does the queue empty (`QueueDrains`)? | flusher and heartbeat; 3 requests; queue of 2; 3 retries |
| `retry_manual` | does a goroutine that has the client for itself keep what `PostLedger` promises (`KeepsLedger`, a refinement)? | 1 goroutine that sends and flushes; 3 requests; queue of 2; 2 retries |
| `retry_lost` | is every failed request kept (`NothingLost`)? No: see findings | flusher and heartbeat |
| `cron` | one instance (`OneInstance`), every run reported, but for a panic in the results' push, a 401 and a refusal (`EveryRunReported`), token back (`TokenComesBack`) | 1 schedule; 3 firings; 1 scan each; panics; 401s and refusals; shutdown |
| `cron_skip` | are firings skipped only when something runs (`SkipsOnlyOverlap`)? No: see findings | 1 schedule; 2 firings |
| `hub` | can the hub crash (`NeverCrashes`), a registered client miss a message (`NoGaps`), broadcasting wait for a client (`BroadcastReturns`), a dead connection stay (`DeadClientsLeave`)? | 2 connections; 2 broadcasters; capacities 1; 6 connections and messages together |
| `pii` | does a scan end (`ScanEnds`), deliver everything once (`AllDelivered`), hide no error (`ErrorsSurface`), close its channels safely (`NoSendOnClosed`)? | 2 tables, 7 inputs of all kinds; 2 workers; 2 detectors; input capacity 1; any failure |
| `log_chunks` | where reads end anywhere, is a record torn, counted twice, or lost, and how many (`RecordsKept`)? | every file of up to 8 bytes over 3 kinds; first read of 4 |
| `log_lost` | is every record parsed (`EveryRecord`)? No: see findings | same |
| `server` | is what was answered stored (`AckedIsStored`, `LastRunIsStored`, `SnapshotWithScan`), do reports stay as they are (`ReportsKept`) and PII reports land where they belong (`OnePiiOnlyRun`, `PiiOnLatest`), does an error stay (`ErrorStays`), does every handler end (`HandlersEnd`)? | both repositories; a known and an unknown collector, 1 database; 8 workloads of 3 requests; each posted up to 2 times, 4 posts in all; 3 points in time; any statement may fail; stops |
| `checks` | what the twelve programs of `CheckRuns` may get wrong, one invariant each: `PgReportSound`, `VerdictsRight`, `RdsReportSound`, `HbaCopiesAgree`, `UnusedExact`, `LostByCrossing`, `BroughtDown`, `GeneratedFits`, `VerdictsEarned`, `ScansDelivered`, `RunTells`, `AnswersBelong` | below |

The programs of `checks` share no state, so their product would say nothing
more; a behaviour follows one of them and the others rest at their start. What
is enumerated for each:

- `PgReportSound` (`ReportsOwn` and `SettingsJudged`): one target of each
  version, and pairs of the same and of different versions; two ticks; every
  check watched in turn with every answer; every logging setting with 14
  values.
- `VerdictsRight`: every MySQL check with every answer its probe can give.
- `RdsReportSound`: 2 instances, 2 changes, 2 ticks, six lists of event
  subscriptions, the controls in groups of two.
- `HbaCopiesAgree`: files of one and two lines of 12 kinds, one edit.
- `UnusedExact`: pairs and triples of 7 rules the program reads as the server
  does, and 17 others (every way in which the two differ, and replication)
  before a rule for all; read from the view, the file, and the file without a database; two
  of 5 connections (users, hosts, encryption, turned away, to no database);
  every kind of log `Init` admits. Each disjunct of `Differ` is necessary: without
  it the invariant is violated in this instance.
- `LostByCrossing`: one and two readers, two lines each, both layouts.
- `BroughtDown`: what MySQL, RDS and HBA scans may die of.
- `GeneratedFits`: nine sets of questions that belong together, with every
  answer to each of them and with mistyped ones.
- `VerdictsEarned`: three runs of nine kinds, with controls that are missing and
  controls whose query failed (the probe for `pg_basebackup` of 7.3 and the query of
  7.5 among them), faults that come and go, one for each of the 25 checks and one
  that no check is about; the page looks at two.
- `ScansDelivered`: configurations that split the commands over up to three
  schedules, with and without ping, files, legacy commands (`all_core`, MySQL and
  RDS ones with and without targets, unknown names); one change of the world while
  jobs run, every subset of pushes taken, log commands reached up to `ScLate`, an
  hour, after the firing: any later than the run before is late.
- `RunTells`: every scan alone and some together, by flags, by both menus and
  with all checks, with and without file, JSON, main server and log options;
  databases that are down, scans one of whose queries fails.
- `AnswersBelong`: workers with one to three values, one of which may be the
  word that ends the helper; a timeout, an error and the helper's death at any
  point.

**Why these bounds are enough.** A queue of two with three requests makes a
full queue overflow while a flush holds a copy; one more request repeats the
same overlap. The retry limit of 1 makes the first failed retry the last one,
3 makes items come back with different counts. Three firings of a schedule
give one that runs, one that is skipped and one that finds the token back or
gone. Channel capacities of 1 make the hub drop a client with the second
message; the later ones show what happens after it, and with one connection
there are five, which fill every place behind a client that does not read: its
pump, its channel, the hub, the broadcast channel and a caller. An input
capacity of 1 with two workers fills the channel while both are busy, or dead
with one value left; two tables let a scan go on after the first ends early,
and two detectors let a worker fail between its outputs. Eight bytes hold four
lines and up to three chunks, so a chunk can follow a lost line and start with
its continuation. Two posts of a request are a first one and its repetition,
side by side or late; a workload of three has a run with the two requests that
touch the same row, or a scan and a PII report with a second of either; three
points in time are before, at and after. Two ticks are one that finds the
records fresh and one that finds them used. Cut-offs in the guards: `MaxEvents`
in `WsHub`; `MaxPosts`, `MaxDeliveries` in `MainServer`; `PgRounds`, `RdsTicks`,
`RdsChanges`, `HbaEdits`, `HuLength`, `TfLines`, `DbRuns`, `ScChanges`, `ScLate` in the
modules of `CheckRuns`; `PickLimit` is the code's limit of runs looked at,
made small. All runs set `CHECK_DEADLOCK FALSE` because each instance ends when
its requests, firings, messages, inputs or bytes are used up.

**Fairness.** `RetryQueue`: the HTTP client has a timeout of 30 seconds, so an
exchange ends (weak fairness of the replies); the ticker keeps ticking (weak
fairness of `FlushStart`); an item that is looked at again and again is due in
the end, the backoff being at most 60 seconds (strong fairness of `Attempt`).
Nothing is assumed about what the server answers. `CronJobs`: a goroutine that
can go on does; firings and the signal are not fair. `WsHub`: goroutines that
can go on do, `select` does not pass over a ready case for ever (strong
fairness of `Register` and `Unregister`); writes, broadcasts and disconnects
are not fair. `PiiPipeline`: goroutines that can go on do, and detectors
answer; strong fairness of the scanning goroutine and of each worker, because a
Go channel serves the senders and receivers that wait on it in their order. No
failure is fair: the scan must end without one and with any. `MainServer`: while
handlers have statements to execute, one of them is executed (weak fairness of
some handler's statement: the database answers or fails, and waiting for the
mutex is not being able to go on); posts, failures and stops are not fair, and
the sum of posts being bounded, all handlers come to their end together.
`LogChunks` and the modules of `CheckRuns` state safety only.

## 4. Findings

- **A failed post can be lost** (`retry_lost`, `retry.go:118`). `Flush` writes
  back what it kept of a copy taken before its posts. What another goroutine
  enqueued meanwhile is overwritten.
- **A panic silences a schedule** (`cron_skip`, `cron.go:93`). The token goes
  back with an ordinary statement after `job.Run()`, which a panic passes over.
  `Recover` is the outer wrapper, so the daemon lives on and skips every later
  firing of that schedule.
- **A log line is lost after every chunk** (`log_lost`, `fastrunner.go:201`). A
  chunk is completed up to a newline and then one more line is read to see
  whether it starts with a tab. When it does not, it belongs to the next chunk
  but is kept nowhere: `previousLine` is set to the line before it, and what is
  appended to the buffer from that is overwritten by the read. Files of more
  than 250 KiB lose a record per chunk; `RecordsKept` shows that it is
  never more than one.

### Seen while modelling

These are what the exceptions in the properties name, or what follows from the
definitions; where a property excepts one, the exception is a definition with a
name of its own.

- *Client.* `NoRepost` needs one flushing goroutine: two bring delivered items
  back. A 401 in the middle of a flush leaves delivered items in the queue and
  in its count.
- *Jobs.* The deferred call of a run pushes the results before it reports the
  run (`crons.go:320-330`): a panic there (`payload.go:407` goes through a
  control's score that may be nil) leaves the run unreported, and after a 401
  nothing is reported either, the error being dropped (`mainserver_push.go:160`).
  The running flag is one for all schedules: the first of two
  overlapping jobs to end clears it. `lastError` is never cleared by a good run.
- *Store.* On PostgreSQL two PII reports at once leave two runs with nothing but
  a report, or one that is written to a run no longer the latest; a late
  heartbeat moves `last_seen_at` back.
- *PII scan.* `Output` can return the map while the last output is still in
  `OutputRunner`'s hands; when every table is excluded it closes a nil channel;
  rows that break off with an error count as scanned; after a failed scan its
  goroutines stay behind.
- *Python helper.* Nothing ends the process: the context is `context.TODO` and
  there is no `Close`, so a daemon's every spacy scan leaves its processes and
  goroutines behind. A value `EXIT` ends it and fails the scan. An answer that
  comes after the timeout waits for the next `Process`; it does no harm because
  the worker stops at its first error.
- *PostgreSQL suite.* In a cron job a later target of the same version goes over
  the results of an earlier one before they are sent; a manual check that failed
  once stays failed; two pairs of checks have one number outside 15 and 16.
  Three rules for logging settings have drifted from their second copy, four
  settings pass when they could not be read.
- *MySQL suite.* 8.1, 9.2 and 9.3 cannot pass; 2.14, 3.9 and 8.3 pass on a path
  where nothing was looked at. 7.4 (`authentication.go:121`) fails only a lifetime
  under 364 days, so passwords that are never due pass and a stricter policy
  fails; 2.17 (`installation.go:413`) fails the approved ciphers and passes others.
  2.7, 2.15, 4.2, 4.5 and 7.3 let a kind of violation pass (`PartlyBlind`);
  twelve checks can call `Error()` on a nil error or lose a file between two
  commands, and panic.
- *RDS.* When the instances cannot be listed the results of 4.3.0 and 4.4.0 have
  neither a control nor a title (`4.3.0.go:134`, `4.4.0.go:63`). Instances made
  after the first listing are not looked at by the controls that ask one by one;
  failures of the aws command line in a pool goroutine end the collector.
- *HBA.* In the file's copy the connection type is judged the other way round;
  as a query the address is never found; a line without a rule ends the scan
  with a panic.
- *HBA usage.* The type of a rule is read over, so that a `hostssl` rule passes
  for one that a plain connection uses (`hba_helpers.go:34`); a rule whose
  columns are one blank apart is not recognised. `+role` is expanded to the
  roles it belongs to instead of its members (`hba.go:53`), not at all in the
  view or in a file of names, and without a database the rule is skipped.
  Names in quotes and patterns are taken as they are written in the file.
  `samerole` is read as `sameuser`, `samegroup` as a name, `samehost` and
  `samenet` as host names; host names are looked for in the client's address,
  "all" is IPv4 only and "localhost" 127.0.0.1 only. With `log_hostname` no
  range fits any line; `log_connections` with a prefix that has no host is
  accepted although no line can then match. Without user and database in the
  prefix, clients that are turned away or give no application name are not seen.
- *Time layouts.* Two goroutines that swap at once can leave the same layout
  twice; every line in the other is rejected from then on.
- *Schedules.* The log commands of one job share the key "Log Parser Summary",
  so only the last reaches the server (`docker_testing/e2e/README.md:126` has
  all four in one list). `guc_drift` alone delivers nothing; the settings
  it fetched are fetched again for the push. A server that is down at the push
  leaves no settings and mostly no payload, and the run still counts as a success.
  "all" without its log file runs nothing. Legacy MySQL and RDS commands run only
  when they name PostgreSQL targets, once for each; several MySQL servers share the
  key "MySQL Report", so the last one's report is kept. A legacy log command without
  logparser panics. Without the ping a server that is down ends the daemon through
  the HBA scan or a log command, as does an RDS command without AWS. A PII report
  the server does not take is printed and forgotten (`piiscanner.go:80`); scan data
  it turns down (4xx) is only logged (`mainserver_push.go:216`): both runs are
  reported as a success. The log is read back from the time its command is reached,
  as far as the next two firings are apart: a daily run whose earlier commands take
  longer than they did the day before leaves the lines in between unread, and so
  does a schedule with three or more irregular firings to a cycle.
- *Run by hand.* The error of the PostgreSQL suite is stored under a key that is
  never shown; with all checks and no database that answers the score is a nil
  pointer; the errors of mysql, attack, generate and encrypt are dropped;
  users that could not be listed are shown, filed and sent as "No common usernames
  found" (`passwordmanager.go:199`); a query of the wraparound scan that fails, or one
  database of the server that it cannot open, ends the process by `log.Fatal`
  (`calctransactions/utils.go:54`, `:94`), so nothing that is deferred happens: what
  was found before is not filed, and sent only if it was CIS or HBA;
  once CIS or HBA has been pushed nothing else is; files of several databases
  have one name. Several flags have no effect (custom template, verbose alone,
  `--spacy-only`).
- *Dashboard.* The run with the most counted controls is shown although the
  comment at `service.go:39` says the newest; checks 3, 4, 18, 23 and 25 pass
  without evidence (23 even when control 5.5 of the same run failed); the
  section of check 24 never has a table, for its query asks for a role PUBLIC; 2,
  15, 17, 21, 24, and 11, 12, 20 with few controls, are answered by a control about
  something else, 15 by a table of settings that always passes (6.4) or always
  fails (6.3). A control for review whose query failed is Fail there, not Manual:
  on a machine without `pg_basebackup` (7.3, `replication.go:158`), or for a user who
  may not read what 7.5 asks for, SSL is said to be violated. Such failures count
  among the controls that decide which run is shown, so a run with more failed
  queries hides a newer one without.
- *Generator.* Answers that pass validation and still give a file PostgreSQL
  does not start with: a version that is none (`user_input.go:62`), RAM in MB,
  "8G" or of 22 TB and more, more reserved connections than there are, more
  replicas and autovacuum workers than there may be processes (262143 workers,
  which `user_input.go:326` allows, are that many without anything else), "csv",
  the form of standby list the help shows, a prefix with a quote
  (`user_input.go:440`), a limit of 2 TB, an address of another machine, a port
  below 1024. `Unfit` names them, and only them.

## 5. Proofs

All proofs are checked by TLAPS for every value of the constants, under the
assumptions named in the modules, which TLC evaluates for the instances:

| module | assumptions |
|---|---|
| `RetryQueue` | `ThreadAssumption`, `LimitAssumption`, `PostAssumption`, `ReplyAssumption` |
| `CronJobs` | `OfAssumption`, `ScanAssumption` |
| `WsHub` | `CapAssumption` |
| `PiiPipeline` | `InputAssumption`, `CapAssumption`, `WorkerAssumption` |
| `LogChunks` | `FileAssumption`, `ReadAssumption` |
| `MainServer` | `RequestsAssumption`, `WorkloadsAssumption`, `BoundsAssumption`, `NoneAssumption` |
| `CheckRuns` | `TfAssumption`, `LayoutAssumption`, `SpTextAssumption`, `HbaAssumption`, `HuAssumption`, `RdsAssumption`, `PgPlanAssumption`, `SettingAssumption`, `ManualAssumption`, `PickLimitAssumption`, `ReportsAssumption`, `ScConfigsAssumption`, `ScGapsAssumption` |

They say of what kind a constant is, or what the code makes sure of (at least
one worker, a retry limit that is not zero, two different layouts). Three
theorems have a hypothesis besides: `OneFlusher` (at most one goroutine calls
`Flush`, which is so while no cron job runs) and `OneThread` (one goroutine has
the client to itself, as in a run by hand).

### Client, jobs, hub

- `RetryQueueProofs!TypeCorrect`. Beyond types it says that no queued item has
  used up its retries.
- `QueueBoundedHolds`. `QueueBounded` is not inductive, for `Flush` writes back
  a list it made from a copy. `BoundInv` adds that copy and kept list of every
  flush together are within the limit; each step of `Flush` moves an item from
  one to the other or drops it.
- `QueueInOrderHolds`. Order by the time of `Enqueue` has to hold of the copies
  too: `OrderInv` says that every flush's kept list is in order, its copy is in
  order, and the one comes before the other, since `Flush` takes the copy from
  the front. That no request is there twice follows, `Before` being strict.
- `BlockedIsQuietHolds`, an action property: step by step, from the guards.
- `NoRepostHolds`, with `OneFlusher`. `OnceInv` says where a
  request can be: unsent, in exactly one `send`, or in the queue and the flush
  together at most once, and never there once acknowledged.
- `RetryBudgetHolds`, with `OneFlusher`. The bound is about all posts of a
  request, the code's limit about a number in an item. `TallyInv` ties them: the
  item's attempts and the one of `send` are all the posts there were. The counts
  in the queue are out of date during a flush and after a 401, and are then
  not used; without `OneFlusher` they would be.
- `KeepsLedgerHolds` and `NothingLostAlone`, with `OneThread`: `RetryQueue`
  implements `PostLedger`. Initial states map to initial states and every step
  to a move of one request or a stutter. `LedgerInv` says that during a flush the
  queue, the copy, the kept list and what was settled are the same requests.
- `CronJobsProofs!TypeCorrect`, `OneInstanceHolds`. The invariant ties the
  token to the invocations: while one is inside, the token is taken, and no two
  of a schedule are inside.
- `CronJobsProofs!NoneEndsUnreported`, the safety half of `EveryRunReported`: no
  invocation clears the running flag or leaves without its run report, whether
  its scans ended or panicked, but for the three exceptions `Settled` names. That
  it gets there is left to TLC.
- `WsHubProofs!NeverCrashesHolds`. The invariant says that a client in the hub
  has an open channel, and that a fan-out only visits clients in the hub.
- `NoGapsHolds`. `GapInv` numbers the messages: those in the broadcast channel
  follow the last one taken; a registered client has been given everything from
  its first message up to that one, or up to the one before if the fan-out has
  yet to reach it.

### PII pipeline, log runner, store

- `PiiPipelineProofs!TypeCorrect`, `ErrorsSurfaceHolds`, `NoSendOnClosedHolds`.
  The invariant follows the error from the worker that failed: a group error
  means a worker has ended; once the group is done `errorChan` holds the error
  until somebody reads it, and whoever reads an error ends the scan with it.
  `outputChan` is closed only after `errorChan` was heard, which needs every
  worker to have ended.
- `AllDeliveredHolds`. `DeliveryInv` finds every pushed value in exactly one
  place (the channel, one worker's hand, or behind it) and, as long as no worker
  has failed, says of every output that it is still to come or has come once
  (`Balanced`). A worker that ends without an error saw the channel closed and
  empty; this needs `WorkerAssumption`, for with no workers nothing is taken.
- `LogChunksProofs!RecordsKeptHolds`. `ChunkInv` says that a chunk starts where
  a line starts and ends where nothing continues, that `Process` only goes
  forward, and that a line passed by is in a chunk or begins right after one.
  Lemmas then show that what `Parse` makes of such a chunk is records of the
  file, whole, and that the only line start a chunk can lose is the one after it.
- `MainServerProofs`. The invariant `Control` says of every delivery that it
  executes statements of its own kind of request, that the rows it wrote are of
  its request, and who holds the mutex; `TypeCorrect`, `KeepsReports` (no later
  delivery changes the scan part of a run) and `ErrorsStay` follow from it.
  `StoreInv` adds how far each delivery is (`Progress`): the rows of the
  statements it has passed are there; `AckedStored` and `SnapshotsFirst` follow,
  and with the order of the two statements of a run, `LastRunListed`. `PiiInv`
  adds that under SQLite what a PII handler looked up is still the latest run
  when it writes, because it holds the mutex: `AtMostOnePiiOnly`,
  `LandsOnLatest`.

### The programs of `CheckRuns`

`CheckRunsProofs` proves the twelve invariants of the run `checks`. A
program that is not followed rests at its start; for the one that is, the
invariant is that of its module.

- `LostByCrossingHolds`. `OneSwap`: as long as no two swaps have overlapped, at
  most one goroutine is swapping, and how far it is determines the two layouts.
- `AnswersBelongHolds`. `OneUnderWay`: a value or its answer is in one place
  only (writer, pipe, process, terminal, reader) and only while the worker waits
  for it; `OverWithIt`: every end seen on the Go side comes from the process's
  end.
- `HbaCopiesAgreeHolds`. The answers so far are those of the controls before the
  next one, all from the file as it was read, or all from the queries. The rest
  is a comparison of the two copies of each rule over every sequence of lines.
- `UnusedExactHolds`. What the server wrote in the log tells of connections whose
  rules are counted as served (`HuLogged`), one that served a connection the log
  tells of is told of unless the log is blind (`HuServedTold`), and the parser
  marked what it was fed (`HuFedMarked`, `HuUsedLogged`). `SameReading` shows that
  a rule outside `Differ` is a candidate exactly for the connections the server
  takes by it, and `SameChoice` that both then take the same one.
- `RdsReportSoundHolds`. `ReportGrows`: one append at a time to the report as it
  is, so its length is the number of controls that have ended; with one entry
  for each (`ReportFits`), finite cardinalities make it whole. `NameSound` keeps
  the results that have lost their name apart, which are failures. `ControlSound` says what a
  control that has found nothing yet has asked.
- `VerdictsRightHolds`. `MyInv`: every status is the verdict of its check on
  what it was answered. The rest is the catalogue of 45 checks, one step each
  (`AsBenchmark`), and the score as a cardinality.
- `BroughtDownHolds` combines what the MySQL, HBA and RDS invariants say of the
  state in which the program ends.
- `PgReportSoundHolds`. `PgInv` follows the shared results: a check's number
  changes with a version's first run and never again (`NumbersSettle`); a result
  is what its version's last run of the tick made of it (`LastTold`); a cron job
  sends nothing before its last target's turn. That numbers are unequal but for
  the pairs the property names is a lemma over the catalogue of each version;
  that the two rules of each of the 26 logging settings agree, but for those
  named, is one over the settings.
- `RunTellsHolds`. `MrInv` says of every step of `main` that is over that its
  results were shown if it worked, its failures told, kept, or dropped where the
  property says so (`StepsDealt`); that the end tells what was kept (`EndTells`); what has
  been filed and sent (`FileSent`); and what an early end is caused by
  (`Caused`).
- `VerdictsEarnedHolds`. The state needs types only: the property is about what
  is computed from it. `PreferRunRow` is a choice by four things in turn;
  lemmas on maxima of finite sets show that there is one best run. Of each of
  the 25 checks the theorem needs which of the 34 controls it finds first by its
  words, over the texts and tables of the controls (`WordsFound`), and that those
  which answer it have not failed as queries (`AnsweredBy`).
- `GeneratedFitsHolds`. The run lets the user think about nine sets of
  questions; the theorem holds for every set, so for every combination of the
  answers the model has. `CfInv`: the fields that a question behind the user
  settles have a value, because a question is skipped only when the field it asks
  for has one (`Settles`), and every value given is one of those its field can
  have (`FieldsOk`). `NodesSound` shows, question by question over the 39, that
  every field the file needs is settled by some question; `SensibleStarts` that a
  file made of such answers is one PostgreSQL starts with.
- `ScansDeliveredHolds`, for every configuration, from `SchedulesProofs`. First
  the map of schedules (`MapMeansRequests`): the commands at a schedule mean
  together exactly what the configuration requests of it (`MapServes`). It
  follows from what each bucket of
  `BuildCollectorScheduleMap` holds (`BucketsSound`) and from `Assigned`, which
  says that assigning adds and never overwrites. Then the job, `JobOk`: its loops
  are at a place that exists (`Placed`); every scan it is past was seen, in the
  reports, at the main server or among the PII reports it did not take, unless it
  failed (`Finished`); its reports hold nothing that was not asked for, and what it
  reads of a log joins what was read before but for the readings named
  (`Reporting`). At the end every scan is past (`AllSeen`), and what is pushed of a
  target is all of its reports or nothing (`PushedFacts`). That a reading joins the
  last is arithmetic on the schedule's cycle (`GapFacts`, `JoinsLog`,
  `ReadingFacts`). `ScInv` keeps what earlier runs sent, since nobody adds to a
  schedule whose run has ended (`DeliveredKept`), and what a process ends for
  (`EndsProcess`).

The first attempts at three of these proofs changed what is checked. The one of
`AllDelivered` found the missing assumption of a worker. The one of
`VerdictsEarned` found that the run had no report with CIS controls and nothing
else, and that the property counted verdicts as earned that rest on a list the
report does not have: `Unearned` now names them, and such a report is among
those enumerated. The one of `ScansDelivered` found a case the run did not have,
settings asked for together with CIS: the scan fetches them and throws them away,
and if the server goes down before the push fetches them again they are missing
from a run that is a success. `Reread` names it and the run now has it.

### Only model-checked

- All liveness properties: `QueueDrains`, `EveryRunReported`, `TokenComesBack`,
  `BroadcastReturns`, `DeadClientsLeave`, `ScanEnds`, `HandlersEnd` (liveness and
  ENABLED are out of the prover's reach).

## 6. Not modelled

- The front end (about 8,000 lines of JavaScript), the SQL migrations (10,000
  lines) and the lists of passwords and user names (7,500 lines): data and
  presentation. They are more than half of what the map does not cover.
- Rendering, mail, HTML and text reports; TLS, flags and wiring of the main
  server; one-shot probes and files of identity.
- The reading side of the main server: the dashboard's other pages are views of
  rows without state of their own.
- Regular expressions and dictionaries of the detectors, the patterns of log
  lines, the query parser, the comparison and the attack on passwords.
- Backup history: a sequential reading of a tool's output.
- Retention (`PurgeRetention`) has no caller.

Every hazard in `PROJECT.json` has a property. Known and without one: the retry
queue is lost when the process ends (by design); a run counts as failed when
anything is pending in the shared queue, even an item of another goroutine; the
running flag is one for all schedules; a late heartbeat moves `last_seen_at`
back (modelled, and true of the code); the goroutines of a failed PII scan stay
behind; `rows.Err()` is not asked, so a broken list looks whole; two schedules
that overlap judge the same result records at once (`PgSuite` follows one job).

The component list in `PROJECT.json` says for each component what is modelled
and what is not.

## 7. Plan

Modelled, checked and proved: what sections 2, 3 and 5 say; of what the runs
check only liveness has no proof. What is left, in the order of its weight:

1. `CronJobs` with `RetryQueue` behind it: the outcome of a run depends on what
   is pending in the queue all goroutines share.
2. `PgSuite` with two jobs at once, which judge the same result records.
3. The dashboard's other pages, from the rows `MainServer` stores.
