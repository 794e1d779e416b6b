----------------------------- MODULE LogSettings -----------------------------
(***************************************************************************)
(* The logging settings of a PostgreSQL server are judged by two bodies of  *)
(* code in postgres/lma: one function per setting, which asks the server    *)
(* for it (SHOW) and runs when a control is asked for by its number, and    *)
(* Check_LMA_Results, which judges all of them in a map loaded once by      *)
(* PerformAllChecks and runs with the whole suite.                          *)
(*                                                                          *)
(* One setting is watched; a setting that is not in the map reads as "".    *)
(***************************************************************************)
EXTENDS Integers, Sequences, FiniteSets

CONSTANTS SettingValues   \* what the watched settings can be set to

ASSUME SettingAssumption == "" \in SettingValues

VARIABLES
    lmaName,    \* the watched setting
    lmaServer,  \* its value on the server now
    lmaLoaded,  \* its value in the suite's map, once loaded
    lmaSuite,   \* the suite's status for it, "" before it has run
    lmaLone,    \* the status of its own function, "" before it has run
    lmaAsked    \* history: the value its own function saw

lmaVars == <<lmaName, lmaServer, lmaLoaded, lmaSuite, lmaLone, lmaAsked>>

-----------------------------------------------------------------------------
(* The functions that judge one setting.  A value is a word; of a list or a  *)
(* pattern only what the rule looks for is kept ("local", "pgaudit", and     *)
(* "escapes" for a prefix with all seven escapes in it).                     *)

LogDest(v)          == v # ""
LogCol(v)           == v = "on"
LogDir(v)           == v # ""
LogFile(v)          == v # ""
LogFilePerm(v)      == v = "0600"
LogTrunc(v)         == v = "on"
LogLT(v)            == v # ""
LogFileSize(v)      == v # "0"
Syslog(v)           == v = "local"
SyslogSuppr(v)      == v = "on"
ServLogMsgSize(v)   == v = "on"
SyslogMsg(v)        == v # ""
ServLogMsg(v)       == v \notin {"error", "log", "fatal", "panic"}
SQLStat(v)          == v \notin {"log", "fatal", "panic"}
DebugPrintParse(v)  == v = "off"
DebugPrintRewritten(v) == v = "off"
DebugPrintPlan(v)   == v = "off"
DebugPrettyPrint(v) == v = "on"
LogConnections(v)   == v = "on"
LogDisconnections(v) == v = "on"
ErrorVerbosity(v)   == v = "verbose"
LogHostname(v)      == v = "off"
LogLinePrefix(v)    == v = "escapes"
LogStatement(v)     == v # "none"
LogTimezone(v)      == v # ""
SharedPreload(v)    == v = "pgaudit"

Lone(v) ==
    [log_destination |-> LogDest(v), logging_collector |-> LogCol(v),
     log_directory |-> LogDir(v), log_filename |-> LogFile(v),
     log_file_mode |-> LogFilePerm(v), log_truncate_on_rotation |-> LogTrunc(v),
     log_rotation_age |-> LogLT(v), log_rotation_size |-> LogFileSize(v),
     syslog_facility |-> Syslog(v), syslog_sequence_numbers |-> SyslogSuppr(v),
     syslog_split_messages |-> ServLogMsgSize(v), syslog_ident |-> SyslogMsg(v),
     log_min_messages |-> ServLogMsg(v), log_min_error_statement |-> SQLStat(v),
     debug_print_parse |-> DebugPrintParse(v),
     debug_print_rewritten |-> DebugPrintRewritten(v),
     debug_print_plan |-> DebugPrintPlan(v),
     debug_pretty_print |-> DebugPrettyPrint(v),
     log_connections |-> LogConnections(v),
     log_disconnections |-> LogDisconnections(v),
     log_error_verbosity |-> ErrorVerbosity(v), log_hostname |-> LogHostname(v),
     log_line_prefix |-> LogLinePrefix(v), log_statement |-> LogStatement(v),
     log_timezone |-> LogTimezone(v), shared_preload_libraries |-> SharedPreload(v)]

Settings == DOMAIN Lone("")

-----------------------------------------------------------------------------
(* The suite's rules.                                                        *)

NonEmpty == {"log_destination", "log_directory", "log_filename",
             "log_rotation_age", "syslog_ident", "log_timezone"}
SwitchedOn == {"logging_collector", "log_truncate_on_rotation",
               "syslog_sequence_numbers", "syslog_split_messages",
               "debug_pretty_print", "log_disconnections"}
SwitchedOff == {"debug_print_parse", "debug_print_rewritten", "debug_print_plan",
                "log_hostname"}

Accepts(s, v) ==
    CASE s \in NonEmpty    -> v # ""
      [] s \in SwitchedOn  -> v = "on"
      [] s \in SwitchedOff -> v = "off"
      [] s = "log_file_mode"       -> v = "0600"
      [] s = "log_rotation_size"   -> v # "0"
      [] s = "syslog_facility"     -> v = "local"
      [] s = "log_min_messages"    -> v \notin {"error", "log", "fatal", "panic"}
      [] s = "log_min_error_statement" -> v \notin {"error", "fatal", "panic"}
      [] s = "log_connections"     -> v \in {"on", "all"}
      [] s = "log_error_verbosity" -> v = "verbose"
      [] s = "log_line_prefix"     -> v = "escapes"
      [] s = "log_statement"       -> v # "none"
      [] s = "shared_preload_libraries" -> v = "pgaudit"

\* The status a setting gets; one of them is spelt in capitals.
CheckLmaResults(s, v) ==
    IF ~Accepts(s, v) THEN "Fail"
    ELSE IF s = "log_line_prefix" THEN "PASS" ELSE "Pass"

-----------------------------------------------------------------------------
(* Suite, single check, and a server whose settings change.                 *)

LmaStart(name, value) ==
    /\ lmaName = name /\ lmaServer = value
    /\ lmaLoaded = <<>>
    /\ lmaSuite = "" /\ lmaLone = "" /\ lmaAsked = <<>>

LmaInit == \E name \in Settings, value \in SettingValues : LmaStart(name, value)

\* getPG_settings: an error leaves a nil map behind.
Load ==
    /\ lmaLoaded = <<>>
    /\ \E loaded \in {lmaServer, ""} : lmaLoaded' = <<loaded>>
    /\ UNCHANGED <<lmaName, lmaServer, lmaSuite, lmaLone, lmaAsked>>

RunSuite ==
    /\ lmaLoaded # <<>> /\ lmaSuite = ""
    /\ lmaSuite' = CheckLmaResults(lmaName, lmaLoaded[1])
    /\ UNCHANGED <<lmaName, lmaServer, lmaLoaded, lmaLone, lmaAsked>>

RunLone ==
    /\ lmaLone = ""
    /\ lmaLone' = IF Lone(lmaServer)[lmaName] THEN "Pass" ELSE "Fail"
    /\ lmaAsked' = <<lmaServer>>
    /\ UNCHANGED <<lmaName, lmaServer, lmaLoaded, lmaSuite>>

\* The query fails: so does the check.
RunLoneFails ==
    /\ lmaLone = ""
    /\ lmaLone' = "Fail"
    /\ UNCHANGED <<lmaName, lmaServer, lmaLoaded, lmaSuite, lmaAsked>>

\* Somebody sets it anew and the server reloads.
SetAnew ==
    /\ lmaServer' \in SettingValues \ {lmaServer}
    /\ lmaSuite = "" /\ lmaLone = ""
    /\ UNCHANGED <<lmaName, lmaLoaded, lmaSuite, lmaLone, lmaAsked>>

LmaNext == Load \/ RunSuite \/ RunLone \/ RunLoneFails \/ SetAnew

-----------------------------------------------------------------------------
(* Properties. *)

\* Where the two bodies of code are known to differ.
KnownToDiffer(s, v) ==
    \/ s = "log_min_error_statement" /\ v \in {"error", "log"}
    \/ s = "log_connections" /\ v = "all"
    \/ s = "log_line_prefix" /\ v = "escapes"

\* The suite counts a pass (CalculateScore, check.go:511: exactly "Pass") for
\* the values the setting's own function passes, and for no other; they
\* differ on the three settings of KnownToDiffer alone (lma.go:639 and 1654,
\* 843 and 1694, 1020 and 1733).
CopiesAgree ==
    lmaSuite # "" /\ lmaAsked # <<>> /\ lmaLoaded = lmaAsked =>
        ((lmaSuite = "Pass") <=> (lmaLone = "Pass"))
            \/ KnownToDiffer(lmaName, lmaAsked[1])

\* When pg_settings cannot be read the suite goes on with an empty map
\* (check.go:371-392): it then passes four settings it knows nothing of, and
\* none but these.
PassNeedsValue ==
    lmaSuite = "Pass" /\ lmaLoaded = <<"">> =>
        lmaName \in {"log_rotation_size", "log_min_messages",
                     "log_min_error_statement", "log_statement"}

\* The suite judges the logging settings as their own functions do, and what
\* it could not read it does not pass, but for the cases named (lma.go:1585-1764,
\* check.go:371-392).
SettingsJudged == CopiesAgree /\ PassNeedsValue
=============================================================================
