---------------------------- MODULE ConfigWizard ----------------------------
(***************************************************************************)
(* The generator of a postgresql.conf (postgresconfig): questions asked one *)
(* after the other on the terminal, each skipped when an earlier answer has *)
(* set what it asks for, each with three tries; the answers end in a map    *)
(* from which ConfigGenerator computes the file.                            *)
(*                                                                          *)
(* An answer is <<>> for Enter, else a tuple.  What the expressions that    *)
(* validate an answer let through is reduced to a few answers, the bounds    *)
(* the server has on it among them; any other is a mistyped one.  The user thinks about the questions in cfFollowed and   *)
(* gives the usual answer to the others.                                    *)
(***************************************************************************)
EXTENDS Integers, Sequences, FiniteSets

CONSTANTS CfFollows   \* sets of questions a user may think about

VARIABLES
    cfFollowed,  \* the questions whose answers vary
    cfAt,        \* the number of the question asked
    cfTries,     \* wrong answers to it so far
    cfData,      \* the answers: a function from field to value
    cfState,     \* "asking", "refused", "failed" or "written"
    cfFile       \* the file, a function from setting to value

cfVars == <<cfFollowed, cfAt, cfTries, cfData, cfState, cfFile>>

-----------------------------------------------------------------------------
(* Questions: what a valid answer sets, what makes it superfluous.           *)

Enter   == <<>>
NoField == <<>>                           \* the map without a field
Sets(f, v) == [x \in {f} |-> v]           \* what setting a field gives
Over(d, e) == [x \in DOMAIN d \cup DOMAIN e |-> IF x \in DOMAIN d THEN d[x] ELSE e[x]]
Always  == "always"                       \* no field: nothing makes a question superfluous
Broken  == Sets("error", TRUE)            \* the answer passes validation and is refused then

Question(name, skip, usual, gives) ==
    [name |-> name, skip |-> skip, usual |-> usual, gives |-> gives]

\* fieldSetFunction: an answer is needed; asked in any case.
Required(f, usual, answers) == Question(f, Always, usual, [a \in answers |-> Sets(f, a[1])])

\* fieldSetFunctionDefault: Enter stands for the default.
WithDefault(f, default, values) ==
    [a \in {Enter} \cup {<<v>> : v \in values} |-> Sets(f, IF a = Enter THEN default ELSE a[1])]
Optional(f, default, values)  == Question(f, f, Enter, WithDefault(f, default, values))
AlwaysAsk(f, default, values) == Question(f, Always, Enter, WithDefault(f, default, values))

\* simplifyBoolVal: Enter is neither yes nor no.
YesNo(name, skip, yes, no, enter) ==
    Question(name, skip, Enter,
             [a \in {<<"yes">>, <<"no">>, Enter} |->
                IF a = <<"yes">> THEN yes ELSE IF a = <<"no">> THEN no ELSE enter])

\* fieldSetSizeInMB, fieldSetSizeInKB: a size in the unit of the field.
Scale(units, u) == CASE u = units[1] -> 1 [] u = units[2] -> 1024 [] OTHER -> 0
Sized(f, skip, default, units, answers) ==
    Question(f, skip, Enter,
             [a \in answers |->
                IF a = Enter THEN Sets(f, default)
                ELSE IF Scale(units, a[2]) = 0 THEN Broken
                ELSE Sets(f, a[1] * Scale(units, a[2]))])

ServerQuestions ==
    <<Required("version", <<16>>, {<<9>>, <<10>>, <<12>>, <<13>>, <<16>>, <<99>>}),
      Question("ram", Always, <<8, "GB">>,
               [a \in {<<256, "MB">>, <<8, "G">>, <<8, "GB">>, <<32, "GB">>, <<1, "TB">>,
                       <<64, "TB">>} |-> Sets("ram", a)]),
      Required("cpu", <<4>>, {<<1>>, <<4>>}),
      Required("diskType", <<"SSD">>, {<<"SSD">>, <<"HDD">>, <<"SAN">>}),
      Required("dbType", <<"web">>,
               {<<"web">>, <<"oltp">>, <<"warehouse">>, <<"desktop">>, <<"mixed">>}),
      Required("replica", <<0>>, {<<0>>, <<2>>, <<20>>, <<300000>>})>>

ConnectionQuestions ==
    <<Optional("listen_addr", "*", {"*", "own", "foreign"}),
      Optional("port", 5432, {1, 65535}),
      Optional("superuser_reserved_connections", 3, {3, 10, 20})>>

\* What "wal_level" gets from the three questions that ask around it.
WalQuestions ==
    LET level(l) == Sets("wal_level", l)
    IN <<Sized("max_wal_size", Always, 1024, <<"MB", "GB">>,
               {Enter, <<100, "MB">>, <<2, "GB">>}),
         YesNo("wal_compression", Always, Sets("wal_compression", "on"),
               Sets("wal_compression", "off"), Sets("wal_compression", "off")),
         YesNo("logical", "wal_level", level("logical"), NoField, NoField),
         YesNo("test", "wal_level", NoField, level("minimal"), level("minimal")),
         YesNo("archival", "wal_level", level("replica"), level("minimal"), level("minimal"))>>

CommitQuestions ==
    LET commit(c) == Sets("synchronous_commit", c)
    IN <<YesNo("synchronous_commit", "synchronous_commit",
               commit("ON"), commit("OFF"), commit("OFF")),
         AlwaysAsk("synchronous_standby_names", "*", {"*", "ANY(s1, s2)"}),
         AlwaysAsk("temp_file_limit", "1GB", {"2GB", "2TB"})>>

VacuumQuestions ==
    LET defaults == [autovacuum_naptime |-> 60, autovacuum_vacuum_cost_limit |-> -1,
                     autovacuum_vacuum_cost_delay |-> 2, autovacuum_max_workers |-> 3]
    IN <<YesNo("autovacuum", Always, NoField, defaults, defaults),
         Optional("autovacuum_naptime", 60, {1, 2147483}),
         Optional("autovacuum_vacuum_cost_limit", -1, {10000}),
         Optional("autovacuum_vacuum_cost_delay", 2, {-1, 100}),
         Optional("autovacuum_max_workers", 3, {1, 262143})>>

SessionQuestions ==
    <<AlwaysAsk("jit", "off", {"on"}),
      AlwaysAsk("statement_timeout", 60000, {0}),
      AlwaysAsk("idle_in_transaction_session_timeout", 1800000, {0})>>

SecurityQuestions ==
    LET prefix == "%m [%p]: [%l-1] db=%d,user=%u,app=%a,client=%h"
        recommended == [log_connections |-> "on", log_disconnections |-> "on",
                        log_statement |-> "all", ssl |-> "on", log_line_prefix |-> prefix,
                        logging_collector |-> "on", log_destination |-> "stderr"]
    IN <<YesNo("security", Always, recommended, NoField, recommended),
         Optional("log_connections", "on", {"off"}),
         Optional("log_disconnections", "on", {"off"}),
         Optional("log_statement", "all", {"none"}),
         Optional("ssl", "on", {"off"}),
         Optional("log_line_prefix", prefix, {"%m [%p]", "quoted"}),
         Optional("logging_collector", "on", {"off"}),
         Optional("log_destination", "stderr", {"csv", "syslog"})>>

LoggingQuestions ==
    LET recommended == [log_checkpoints |-> "on", log_lock_waits |-> "on",
                        log_temp_files |-> 1, log_autovacuum_min_duration |-> 600000,
                        log_min_duration_statement |-> 1000]
    IN <<YesNo("logging", Always, recommended, NoField, recommended),
         Optional("log_checkpoints", "on", {"off"}),
         Optional("log_lock_waits", "on", {"off"}),
         Sized("log_temp_files", "log_temp_files", 1, <<"KB", "MB">>,
               {Enter, <<5, "KB">>, <<1, "MB">>, <<5, "LB">>}),
         Optional("log_autovacuum_min_duration", 600000, {1}),
         Optional("log_min_duration_statement", 1000, {1})>>

Nodes == ServerQuestions \o ConnectionQuestions \o WalQuestions \o CommitQuestions
         \o VacuumQuestions \o SessionQuestions \o SecurityQuestions \o LoggingQuestions

\* No answer to it is refused.
Unchecked == {"log_line_prefix"}

-----------------------------------------------------------------------------
(* The file.                                                                 *)

ParseSize(size) == CASE size[2] = "GB" -> size[1] [] size[2] = "TB" -> size[1] * 1024
                     [] OTHER -> 0

Connections(dbType) == CASE dbType = "web" -> 200 [] dbType = "oltp" -> 300
                         [] dbType = "warehouse" -> 40 [] dbType = "desktop" -> 20
                         [] OTHER -> 100

AtLeast(low, n) == IF n < low THEN low ELSE n
Rounded(n, d)   == (2 * n + d) \div (2 * d)     \* n/d, a half upwards

\* Memory in kB less shared_buffers in MB, (1048576 - 256) * ram, over three times the
\* connections: both divided by 60, their numbers being multiples of 20.
WorkerMem(ram, connections, dbType) ==
    LET share == (17472 * ram) \div (connections \div 20)
        part  == CASE dbType \in {"warehouse", "mixed"} -> 2 [] dbType = "desktop" -> 6
                   [] OTHER -> 1
    IN AtLeast(4096, share \div part)

\* Mutant: the senders stay when nothing can be sent.
WalSendersAnyLevel(d) == AtLeast(10, d.replica + 4)

WalSenders(d) == IF d.wal_level = "minimal" THEN 0 ELSE AtLeast(10, d.replica + 4)

Archiving(d) == IF d.wal_level = "minimal" THEN NoField ELSE Sets("archive_mode", "on")

Replication(d, maxWalSize) ==
    IF d.replica = 0 THEN NoField
    ELSE IF d.version >= 13
    THEN Sets("wal_keep_size", 10 * ((1600 + 2 * maxWalSize + 9) \div 10))
    ELSE Sets("wal_keep_segments", 10 * ((100 + 2 * maxWalSize + 159) \div 160))

Parallel(d) ==
    Over([max_worker_processes |-> d.cpu, max_parallel_workers_per_gather |-> d.cpu \div 2,
          max_parallel_workers |-> d.cpu],
         IF d.version > 10
         THEN [max_parallel_maintenance_workers |-> d.cpu \div 2,
               parallel_leader_participation |-> "on"]
         ELSE NoField)

\* The answers that are written as they were given.
Copied == {"superuser_reserved_connections", "listen_addr", "port", "log_connections",
           "log_disconnections", "log_statement", "ssl", "log_line_prefix",
           "logging_collector", "log_destination", "log_checkpoints", "log_lock_waits",
           "log_autovacuum_min_duration", "log_min_duration_statement", "wal_level",
           "synchronous_commit", "wal_compression", "synchronous_standby_names",
           "temp_file_limit", "autovacuum_naptime", "autovacuum_vacuum_cost_limit",
           "autovacuum_vacuum_cost_delay", "autovacuum_max_workers", "statement_timeout",
           "idle_in_transaction_session_timeout"}

\* Empty when a number is missing.  The template sets log_temp_files twice: the
\* second, its own, counts.
ConfigGenerator(d) ==
    IF ~({"version", "ram", "cpu", "diskType", "dbType", "replica", "max_wal_size"}
           \subseteq DOMAIN d)
    THEN NoField
    ELSE LET ram           == ParseSize(d.ram)
             connections   == Connections(d.dbType)
             sharedBuffers == 256 * ram
             maxWalSize    == AtLeast(512, d.max_wal_size)
             computed ==
               [max_connections |-> connections,
                shared_buffers  |-> sharedBuffers,
                work_mem        |-> WorkerMem(ram, connections, d.dbType),
                maintenance_work_mem |-> AtLeast(64, Rounded(256 * ram, 5)),
                huge_pages      |-> IF ram >= 32 THEN "try" ELSE "off",
                effective_cache_size |-> Rounded(3 * ram, 4),
                effective_io_concurrency |->
                   CASE d.diskType = "SSD" -> 200 [] d.diskType = "HDD" -> 2 [] OTHER -> 300,
                random_page_cost |-> IF d.diskType = "HDD" THEN 40 ELSE 11,   \* in tenths
                max_wal_senders |-> WalSenders(d),
                max_wal_size    |-> maxWalSize,
                min_wal_size    |-> AtLeast(512, maxWalSize \div 2),
                log_temp_files  |-> 1000,
                default_statistics_target |-> IF d.dbType = "warehouse" THEN 500 ELSE 100]
             version  == Over(Archiving(d), Over(Replication(d, maxWalSize), Parallel(d)))
         IN Over(computed, Over(version, [f \in Copied \cap DOMAIN d |-> d[f]]))

-----------------------------------------------------------------------------
(* The dialogue.                                                             *)

CfStart(followed) ==
    /\ cfFollowed = followed
    /\ cfAt = 1 /\ cfTries = 0 /\ cfData = NoField
    /\ cfState = "asking" /\ cfFile = NoField

CfInit == \E followed \in CfFollows : CfStart(followed)

Asking  == cfState = "asking" /\ cfAt <= Len(Nodes)
Skipped == Nodes[cfAt].skip \in DOMAIN cfData

Skip ==
    /\ Asking /\ Skipped
    /\ cfAt' = cfAt + 1
    /\ UNCHANGED <<cfFollowed, cfTries, cfData, cfState, cfFile>>

Replies(q) == IF q.name \in cfFollowed THEN DOMAIN q.gives ELSE {q.usual}

Answer ==
    /\ Asking /\ ~Skipped
    /\ \E a \in Replies(Nodes[cfAt]) :
         LET given == Nodes[cfAt].gives[a]
         IN IF given = Broken
            THEN cfState' = "refused" /\ UNCHANGED <<cfAt, cfTries, cfData>>
            ELSE /\ cfData' = Over(given, cfData)
                 /\ cfAt' = cfAt + 1 /\ cfTries' = 0
                 /\ UNCHANGED cfState
    /\ UNCHANGED <<cfFollowed, cfFile>>

\* The third wrong answer ends the dialogue.
Mistype ==
    /\ Asking /\ ~Skipped
    /\ Nodes[cfAt].name \in cfFollowed \ Unchecked
    /\ cfTries' = cfTries + 1
    /\ cfState' = IF cfTries' = 3 THEN "refused" ELSE "asking"
    /\ UNCHANGED <<cfFollowed, cfAt, cfData, cfFile>>

GenerateConfigFile ==
    /\ cfState = "asking" /\ cfAt > Len(Nodes)
    /\ \/ cfState' = "written" /\ cfFile' = ConfigGenerator(cfData)
       \/ cfState' = "failed" /\ UNCHANGED cfFile       \* the file cannot be made
    /\ UNCHANGED <<cfFollowed, cfAt, cfTries, cfData>>

CfNext == Skip \/ Answer \/ Mistype \/ GenerateConfigFile

-----------------------------------------------------------------------------
(* PostgreSQL.                                                               *)

\* Settings of some versions only.
KnownTo(version, s) ==
    CASE s = "wal_keep_size" -> version >= 13
      [] s = "wal_keep_segments" -> version < 13
      [] s \in {"max_parallel_maintenance_workers", "parallel_leader_participation"} ->
            version >= 11
      [] OTHER -> TRUE

Releases    == 10 .. 17     \* those whose settings and limits these are
MaxBackends == 262143
MaxShared   == 8388607      \* MB: fewer than 2^30 blocks of 8 kB
MaxCache    == 16383        \* GB: fewer than 2^31
MaxRam      == 21844        \* GB: the last of which three quarters are not more

\* Slots for the superuser and, before 12, for the senders are part of those for
\* connections; all processes together are limited.
Room(version, connections, reserved, senders, workers) ==
    IF version < 12
    THEN reserved + senders < connections /\ connections + workers <= MaxBackends
    ELSE reserved < connections /\ connections + senders + workers <= MaxBackends

\* PostgreSQL, of that version and run by an ordinary user of a machine with a
\* certificate, starts with the file: every line is one, with a value in range, of
\* a setting the version has; senders and archiving ask for a level that has what
\* they send.
Starts(file, version) ==
    /\ version \in Releases
    /\ Copied \subseteq DOMAIN file
    /\ \A s \in DOMAIN file : KnownTo(version, s)
    /\ 1 <= file.shared_buffers /\ file.shared_buffers <= MaxShared
    /\ 1 <= file.effective_cache_size /\ file.effective_cache_size <= MaxCache
    /\ file.temp_file_limit # "2TB"
    /\ Room(version, file.max_connections, file.superuser_reserved_connections,
            file.max_wal_senders, file.autovacuum_max_workers + 1 + file.max_worker_processes)
    /\ file.wal_level = "minimal" =>
          file.max_wal_senders = 0 /\ "archive_mode" \notin DOMAIN file
    /\ file.listen_addr # "foreign" /\ file.port >= 1024
    /\ file.synchronous_standby_names = "*"
    /\ file.log_destination # "csv" /\ file.log_line_prefix # "quoted"

\* More processes than that are asked for.
Crowded(d) == ~Room(d.version, Connections(d.dbType), d.superuser_reserved_connections,
                    WalSenders(d), d.autovacuum_max_workers + 1 + d.cpu)

\* Answers the questions let through that no file can be made of: a number that is
\* not a version's; memory in MB, without the B or too much; a limit of 2 TB; more
\* slots, senders and workers than there is room for; an address of another machine,
\* a port of root's; the form of standby list the help text gives, csv for csvlog; a
\* quote within the quotes of the prefix.
Unfit(d) ==
    \/ d.version \notin Releases
    \/ d.ram[2] \notin {"GB", "TB"} \/ ParseSize(d.ram) > MaxRam
    \/ d.temp_file_limit = "2TB"
    \/ Crowded(d)
    \/ d.listen_addr = "foreign" \/ d.port < 1024
    \/ d.synchronous_standby_names # "*"
    \/ d.log_destination = "csv" \/ d.log_line_prefix = "quoted"

\* Whichever questions the earlier answers made superfluous and however often the
\* user had to try, a file that is reported as generated is complete and one that
\* PostgreSQL starts with, the answers in Unfit apart (user_input.go:599,
\* generator.go:121).
GeneratedFits ==
    cfState = "written" => Unfit(cfData) \/ Starts(cfFile, cfData.version)
=============================================================================
