---------------------------- MODULE MCCheckRuns ----------------------------
(***************************************************************************)
(* Instances of CheckRuns for TLC.                                          *)
(***************************************************************************)
EXTENDS CheckRuns

\* One target of every version, and pairs of the same and of different versions.
MCPgPlans == {<<v>> : v \in Versions} \cup {<<13, 13>>, <<13, 15>>, <<16, 16>>}

\* Event subscriptions: none; one for everything; one for all of the instances
\* or some of the events; one that names a single instance; two.
Sub(type, ids, events, topic) ==
    [type |-> type, ids |-> ids, events |-> events, topic |-> topic]
OneInstance == CHOOSE i \in Instances : TRUE

MCEventLists ==
    {<<>>,
     <<Sub("", <<>>, "any", "confirmed")>>,
     <<Sub("db-instance", <<>>, "all", "confirmed")>>,
     <<Sub("db-instance", <<>>, "some", "pending")>>,
     <<Sub("db-instance", <<{OneInstance}>>, "all", "confirmed")>>,
     <<Sub("db-instance", <<{OneInstance}>>, "any", "confirmed"),
       Sub("db-security-group", <<>>, "any", "none")>>}

MCRdsJobs ==
    {[controls |-> {"2.3.1", "2.3.3"}, events |-> <<>>]}
    \cup {[controls |-> cs, events |-> e] : e \in MCEventLists,
            cs \in {{"2.3.2", "4.3.0"}, {"3.5.0", "4.4.0"}, {"3.8.0", "4.2.0"}}}

\* Lines of pg_hba.conf for HbaScan: every method, plain rules and rules with a
\* list, an option or a trailing comment, and lines without a rule.
MCHbaLines ==
    {Rule("local", "all", "all", "", m, <<>>) : m \in {"trust", "peer"}}
    \cup {Rule("host", "one", "one", a, "md5", <<>>) : a \in {"everyone", "some"}}
    \cup {Rule("hostssl", "several", "one", a, "md5", <<>>) : a \in {"everyone", "some"}}
    \cup {Rule("hostssl", "one", "one", "some", "md5", <<"#", "word">>),
          Rule("host", "all", "several", "some", "ident", <<"map">>),
          Rule("host", "one", "all", "some", "password", <<>>),
          Blank, Comment}
MCHbaFiles == {<<l>> : l \in MCHbaLines} \cup {<<l, k>> : l, k \in MCHbaLines}

\* Rules for HbaUsage: plain ones, and one of each way to write another.
PlainRule == [type |-> "host", dbs |-> {"app"}, users |-> {"all"}, roles |-> {},
          form |-> "plain", addr |-> "v4a", spaced |-> TRUE]
AllRule == [PlainRule EXCEPT !.dbs = {"all"}, !.addr = "v4"]
MCPlainRules ==
    {PlainRule, AllRule, [PlainRule EXCEPT !.users = {"app", "eve"}], [AllRule EXCEPT !.users = {"eve"}],
     [PlainRule EXCEPT !.dbs = {"sameuser", "db"}], [AllRule EXCEPT !.addr = "v6"],
     [PlainRule EXCEPT !.form = "listed", !.users = {"app"}]}
MCOtherRules ==
    {[AllRule EXCEPT !.type = "hostssl"], [AllRule EXCEPT !.type = "hostnossl"],
     [AllRule EXCEPT !.type = "hostgssenc"], [AllRule EXCEPT !.type = "hostnogssenc"],
     [AllRule EXCEPT !.users = {}, !.roles = {"app"}],
     [AllRule EXCEPT !.users = {}, !.roles = {"eve"}],
     [AllRule EXCEPT !.users = {}, !.roles = {"app"}, !.form = "listed"],
     [AllRule EXCEPT !.dbs = {"samerole"}], [AllRule EXCEPT !.dbs = {"samegroup"}],
     [AllRule EXCEPT !.dbs = {"replication"}],
     [PlainRule EXCEPT !.form = "quoted"], [PlainRule EXCEPT !.form = "pattern"],
     [AllRule EXCEPT !.addr = "all"], [AllRule EXCEPT !.addr = "localhost"],
     [AllRule EXCEPT !.addr = "samehost"], [AllRule EXCEPT !.addr = ".example"],
     [PlainRule EXCEPT !.spaced = FALSE]}
MCHuFiles ==
    {<<l, k>> : l, k \in MCPlainRules} \cup {<<l, AllRule>> : l \in MCOtherRules}
    \cup {<<PlainRule, l, AllRule>> : l \in MCPlainRules}
Visitor == [user |-> "app", db |-> "app", host |-> "v4a", crypt |-> "none", entry |-> "named"]
MCHuConnections ==
    {Visitor, [Visitor EXCEPT !.user = "eve", !.crypt = "ssl"],
     [Visitor EXCEPT !.host = "v6", !.entry = "unnamed"],
     [Visitor EXCEPT !.db = "db", !.host = "loop", !.crypt = "gss", !.entry = "never"],
     [Visitor EXCEPT !.db = "replication"]}
MCHuMembers == {<<"eve", "app">>}

\* Questions the user thinks about: those that belong together.
Names(questions) == {questions[i].name : i \in DOMAIN questions}
MCFollows ==
    {{"version", "replica", "logical", "test", "archival"},
     {"ram", "dbType", "superuser_reserved_connections"},
     {"version", "dbType", "superuser_reserved_connections", "replica", "archival", "test"},
     {"cpu", "diskType", "listen_addr", "port", "max_wal_size", "wal_compression"},
     {"synchronous_commit", "synchronous_standby_names", "temp_file_limit",
      "jit", "statement_timeout", "idle_in_transaction_session_timeout"},
     {"cpu", "dbType", "replica", "autovacuum", "autovacuum_max_workers"},
     Names(VacuumQuestions), Names(SecurityQuestions), Names(LoggingQuestions)}

\* Runs of one target: a full one; one whose server has no pg_basebackup, one whose
\* user may not ask; one of a later version without its suite's missing controls,
\* with a section that could not be read; one of a collector without the sections
\* for the checks; a template's few controls, with tables of settings; other jobs'.
DbReport(controls, failed, users, lists, parts) ==
    [controls |-> controls, failed |-> failed, users |-> users, lists |-> lists, parts |-> parts]
MCDbReports ==
    {DbReport(CisControls, {}, PassSections, DbLists, {"cis", "users", "hba"}),
     DbReport(CisControls, {"7.3"}, PassSections, DbLists, {"cis", "users", "hba"}),
     DbReport(CisControls \ {"6.7"}, {"7.5", "6.5", "5.2", "5.6", "8.3"}, {}, DbLists, {"cis", "users"}),
     DbReport(CisControls \ {"1.6", "1.7", "2.3", "5.1", "5.2", "5.5", "6.9", "6.10"}, {},
              PassSections \ {2}, DbLists, {"cis", "users", "hba"}),
     DbReport({"1.7", "2.3", "3.1.3", "5.2", "5.3", "5.6", "6.2", "6.8", "7.5", "8.3"}, {},
              {}, {}, {"cis", "users"}),
     DbReport({"6.3", "6.4", "6.5", "6.6", "6.10", "7.3"}, {}, {}, {}, {"cis"}),
     DbReport(CisControls, {}, {}, {}, {"cis"}),
     DbReport({}, {}, {}, {}, {"hba", "leaks"}),
     DbReport({}, {}, {}, {}, {"passwords"})}
MCDbWatched == {{i} : i \in (Checks \cup {Another}) \ {25}} \cup {{18, 25}}

\* Configurations of the daemon: every way to split the commands over schedules,
\* with and without ping, without files, with legacy commands beside them.
ScConfig(targets, ping, tokens, schedules, files, legacy) ==
    [piiDb |-> "", piiOk |-> TRUE, targets |-> targets, ping |-> ping, tokens |-> tokens, main |-> schedules[1],
     pii |-> schedules[2], log |-> schedules[3],
     logFile |-> "log" \in files, hbaFile |-> "hba" \in files, legacy |-> legacy]
ScLegacy(schedule, name, targets, logParser) ==
    [schedule |-> schedule, name |-> name, targets |-> targets, mysql |-> 0,
     logParser |-> logParser]
ScMySql(schedule, targets, mysql) ==
    [ScLegacy(schedule, "mysql", targets, FALSE) EXCEPT !.mysql = mysql]
MCScTokens ==
    {<<>>, <<"all">>, <<"unique_ip", "all", "guc_drift">>, <<"postgres_cis", "pii_scanner">>,
     <<"unused_lines", "password_leak_scanner">>, <<"guc_drift">>,
     <<"postgres_cis", "guc_drift">>, <<"ssl_audit", "unique_ip">>, <<"backup">>}
MCScSchedules ==
    {<<"daily", "", "">>, <<"daily", "weekly", "">>, <<"daily", "", "daily">>,
     <<"hourly", "twice", "thrice">>, <<"never", "", "">>}
MCScLegacy ==
    {<<>>, <<ScLegacy("daily", "common_users", <<"a">>, FALSE)>>,
     <<ScLegacy("thrice", "inactive_users", <<"a">>, TRUE),
       ScMySql("thrice", <<>>, 1)>>,
     <<ScLegacy("weekly", "hba_scanner", <<"a">>, FALSE), ScMySql("weekly", <<"a">>, 2),
       ScMySql("weekly", <<"b">>, 0)>>,
     <<ScLegacy("daily", "aws_rds", <<"a">>, FALSE),
       ScLegacy("weekly", "aws_aurora", <<"a", "b">>, FALSE)>>,
     <<ScLegacy("daily", "unique_ip", <<"a">>, FALSE),
       ScLegacy("weekly", "hba_scanner", <<"b">>, FALSE)>>,
     <<ScLegacy("weekly", "all", <<"a">>, TRUE)>>,
     <<ScLegacy("weekly", "all_core", <<"a">>, FALSE),
       ScLegacy("weekly", "backup_audit_tool", <<"a">>, FALSE)>>,
     <<ScLegacy("weekly", "all_core", <<"a">>, FALSE)>>,
     <<ScLegacy("uneven", "hba_scanner", <<"a">>, FALSE)>>}
BothFiles == {"log", "hba"}
MCScConfigs ==
    {ScConfig(IF s[3] = "" THEN <<"a", "b">> ELSE <<"a">>, ping, tokens, s, BothFiles, <<>>) :
       ping \in BOOLEAN, tokens \in MCScTokens, s \in MCScSchedules}
    \cup {ScConfig(<<"a">>, TRUE, tokens, <<"daily", "", "">>, files, <<>>) :
            tokens \in MCScTokens, files \in {{}, {"log"}}}
    \cup {ScConfig(<<"a">>, TRUE, <<"hba_scanner">>, <<m, "", "">>, BothFiles, l) :
            m \in {"", "daily"}, l \in MCScLegacy}
    \cup {ScConfig(<<>>, TRUE, <<"hba_scanner">>, <<"daily", "", "">>, {}, <<>>)}
    \cup {[ScConfig(<<"a", "b">>, FALSE, <<"all">>, <<"daily", p, "">>, BothFiles, <<>>)
            EXCEPT !.piiDb = "b", !.piiOk = ok] : p \in {"", "weekly"}, ok \in BOOLEAN}
MCScGaps == [hourly |-> <<1>>, daily |-> <<24>>, weekly |-> <<168>>, twice |-> <<24, 144>>,
             thrice |-> <<24, 72, 72>>, uneven |-> <<30, 8, 130>>]

\* Runs by hand: every scan alone and some together, with every file; with
\* databases that are down and scans that fail; all checks; both menus.
MrRequest(mode, asked, toml, dbs, flags, down, broken) ==
    [mode |-> mode, asked |-> asked, toml |-> toml, dbs |-> dbs,
     json |-> "json" \in flags, spacy |-> "spacy" \in flags, enabled |-> "enabled" \in flags,
     logOk |-> "log" \in flags, down |-> down, broken |-> broken]
MrAsked ==
    {{x} : x \in ToSet(MrSteps) \ {"overview", "hbaControl"}}
    \cup {{"postgres", "hba", "log"}, {"postgres", "users", "ssl"}, {"log", "ssl"},
          {"hba", "attack"}, {"users", "generate"}}
MrFlags == {{"json", "enabled", "log"}, {"enabled", "log"}, {"json", "enabled"}}
MCMrRequests ==
    {MrRequest("flags", a, t, <<"a", "b">>, {"json", "log"}, {}, {}) :
       a \in MrAsked \cup {{}}, t \in {"none", "neither", "postgres", "mysql", "both"}}
    \cup {MrRequest("flags", a, IF a = {"mysql"} THEN "mysql" ELSE "postgres", <<"a", "b">>,
                    f, d, IF b THEN a ELSE {}) :
            a \in MrAsked, f \in MrFlags, d \in SUBSET {"a", "b"}, b \in BOOLEAN}
    \cup {MrRequest("allchecks", a, t, d, {"json", "enabled", "log"}, w, b) :
            a \in {{}, {"rds"}, {"users"}}, t \in {"postgres", "mysql"},
            d \in {<<"a">>, <<"a", "b">>}, w \in SUBSET {"a", "b"},
            b \in {{}} \cup {{x} : x \in AllChecks}}
    \cup {MrRequest(m, a, t, <<"a", "b">>, f, d, {}) :
            m \in {"menu", "verbose"}, a \in MrAsked \cup {AllChecks},
            t \in {"none", "postgres", "mysql"}, f \in {{}, {"enabled", "log"}},
            d \in {{}, {"a"}}}
    \cup {MrRequest(m, {"pii"}, "postgres", <<"a">>, {"spacy"}, {}, {}) : m \in {"flags", "menu"}}

\* Values of a spacy worker: one, several, and one that ends the helper.
MCSpTexts ==
    {<<"word">>, <<"word", "word", "word">>, <<"word", "EXIT">>, <<"EXIT", "word">>}

MCLogLayouts == {<<Zone>>, <<Offset>>, <<Zone, Zone>>, <<Zone, Offset>>}
=============================================================================
