----------------------------- MODULE MySqlChecks -----------------------------
(***************************************************************************)
(* The catalogue of MySQL checks: for every check its number and the status *)
(* it gives to each answer of its last probe, a query or a shell command.   *)
(* A check that calls Error() on the nil error of a command that ended well *)
(* panics; that is the status "panic" here.                                 *)
(***************************************************************************)
EXTENDS Integers, Sequences, FiniteSets

(* Answers of a query: it fails; it has no row for us, or broke off before   *)
(* the first (GetJSON does not ask rows.Err()); what the benchmark asks for; *)
(* a violation.  "gone": a file went away between two commands of a check.   *)
(* Some checks judge a part of what they ask for: "unseen" is a violation    *)
(* their condition or their query does not cover, "stricter" a server that   *)
(* does more than is asked.                                                  *)
Down == <<"down">>  None == <<"none">>  Good == <<"good">>  Bad == <<"bad">>
Gone == <<"gone">>  Unseen == <<"unseen">>  Stricter == <<"stricter">>

(* Answers of a command: whether it wrote to its output and to its error     *)
(* output, and how it ended.                                                 *)
Shell(out, said, exit) == <<out, said, exit>>
Out(a) == a[1]    Said(a) == a[2]    Exit(a) == a[3]

\* A grep, or a pipeline that ends with one: 0 means that a line was printed,
\* 1 that none was; what comes before it in the pipeline may complain anyway.
Greps == {a \in BOOLEAN \X BOOLEAN \X {0, 1, 2} :
            /\ Exit(a) = 0 => Out(a)
            /\ Exit(a) = 1 => ~Out(a)}

\* A find: a directory it cannot read makes it complain and end with 1.
Finds == {a \in BOOLEAN \X BOOLEAN \X {0, 1} : Said(a) <=> Exit(a) = 1}

Found   == Shell(TRUE, FALSE, 0)
NoMatch == Shell(FALSE, FALSE, 1)
NoFile  == Shell(FALSE, FALSE, 0)

-----------------------------------------------------------------------------
(* The ways a check judges.  A check: its number, its status for each answer *)
(* it can get, the answer of a server that does as the benchmark asks, and   *)
(* the answer of one that does not.                                          *)

Judging(number, answers, verdict(_), good, bad) ==
    [number |-> number, good |-> good, bad |-> bad,
     verdict |-> [a \in answers |-> verdict(a)]]

\* A query for a value, for which there are other answers than the usual.
ValueAmong(number, others, passes) ==
    Judging(number, {Down, None, Good, Bad} \cup others,
            LAMBDA a : IF a \in passes THEN "Pass" ELSE "Fail", Good, Bad)

Value(number, passes) == ValueAmong(number, {}, passes)

\* A query that lists violations, all of them or some.
ListAmong(number, others, found) ==
    Judging(number, {Down, None, Bad} \cup others,
            LAMBDA a : CASE a \in {None, Unseen} -> "Pass" [] a = Bad -> found
                         [] a = Down -> "Fail", None, Bad)

Violations(number, found) == ListAmong(number, {}, found)

\* An error or a word of complaint fails the check, by way of err.Error().
Complaint(a) == IF Exit(a) = 0 THEN "panic" ELSE "Fail"
Complains(a) == Exit(a) # 0 \/ Said(a)

\* Status on a silent grep without a match, on a complaint, on a match.
Matched(a, silent, match) ==
    CASE ~Out(a) /\ ~Said(a) /\ Exit(a) = 1 -> silent
      [] Complains(a) /\ ~(~Out(a) /\ ~Said(a) /\ Exit(a) = 1) -> Complaint(a)
      [] ~Complains(a) -> match

\* A query for the name of a file and a grep in its listing.
Listed(number, answers, verdict(_)) ==
    Judging(number, answers \cup Greps,
            LAMBDA a : IF a = Down THEN "Fail" ELSE verdict(a), Found, NoMatch)

-----------------------------------------------------------------------------
(* 1 Operating system.                                                       *)

IsDBOnNPS == Value(<<1, 1>>, {None, Good})

LeastPrivileged ==
    Judging(<<1, 2>>, Greps, LAMBDA a : Matched(a, "Fail", "Pass"), Found, NoMatch)

CheckHistoryInverted ==     \* mutant: what a find lists is what it asks for
    Judging(<<1, 3>>, Finds,
            LAMBDA a : IF Complains(a) THEN Complaint(a)
                       ELSE IF Out(a) THEN "Pass" ELSE "Fail", NoFile, Found)

\* Two finds in turn; the first to find something or to complain decides.
CheckCommandHistory ==
    Judging(<<1, 3>>, Finds,
            LAMBDA a : IF Complains(a) THEN Complaint(a)
                       ELSE IF Out(a) THEN "Fail" ELSE "Pass", NoFile, Found)

CheckMYSQLPWD ==
    Judging(<<1, 4>>, Greps,
            LAMBDA a : IF a = NoMatch THEN "Pass" ELSE Complaint(a), NoMatch, Found)

CheckInteractiveLogin ==
    Judging(<<1, 5>>, Greps,
            LAMBDA a : IF Complains(a) THEN Complaint(a) ELSE "Pass", Found, NoMatch)

\* Whatever the errors, no output is a pass.
CheckMYSQLPWDUserProfile ==
    Judging(<<1, 6>>, Greps,
            LAMBDA a : IF ~Out(a) THEN "Pass" ELSE Complaint(a), NoMatch, Found)

(* 2 Installation.                                                           *)

PointInTimeRec  == Value(<<2, 1, 5>>, {Good})
BinaryRelayLogs == Value(<<2, 2, 1>>, {Good})
\* Unseen: 0, with which passwords never expire.
DefaultPassLt   == ValueAmong(<<2, 7>>, {Unseen}, {Good, Unseen})
ResetPassLt     == Value(<<2, 8>>, {Good})
CurrentPassLt   == Value(<<2, 9>>, {Good})
BlockEncryp     == Value(<<2, 12>>, {Good})
\* Any address passes.
BindAddr        == Value(<<2, 14>>, {Good, Bad})
\* Only tls_version is judged: the versions in use are asked for and not read.
TLS             == ValueAmong(<<2, 15>>, {Unseen}, {None, Good, Unseen})
ClientCert      == Value(<<2, 16>>, {None, Good})
\* The cipher must be the approved one and the suites must not: Good has both
\* and fails, Bad has another cipher, Unseen the cipher and other suites.
SSLTLS          == ValueAmong(<<2, 17>>, {Unseen}, {Unseen})

(* 3 File permissions.                                                       *)

DataDirPerm == Listed(<<3, 1>>, {Down}, LAMBDA a : Matched(a, "Fail", "Pass"))

\* The binary logs with the permissions and all of them are counted by two
\* commands.  The first is guarded; a log purged in between, when it was the
\* last, makes the second complain.
LogBinBasenamePerm ==
    Judging(<<3, 2>>, {Down, None, Good, Bad, Gone},
            LAMBDA a : CASE a = Good -> "Pass" [] a = Gone -> "panic"
                         [] OTHER -> "Fail", Good, Bad)

\* A match passes after an error has failed the check.
LogErrorPerm ==
    Listed(<<3, 3>>, {Down},
           LAMBDA a : IF Matched(a, "Fail", "Pass") = "Fail" /\ Out(a)
                      THEN "Pass" ELSE Matched(a, "Fail", "Pass"))

\* The same; None: the slow query log is off.
SlowQueryLogPerm ==
    Listed(<<3, 4>>, {Down, None},
           LAMBDA a : IF a = None THEN "Pass"
                      ELSE IF Matched(a, "Fail", "Pass") = "Fail" /\ Out(a)
                      THEN "Pass" ELSE Matched(a, "Fail", "Pass"))

\* Mutant: the guard of the listing is forgotten.
RelayLogUnguarded ==
    Judging(<<3, 5>>, {Down, None, Good, Bad, Gone},
            LAMBDA a : CASE a \in {None, Good} -> "Pass" [] a = Gone -> "panic"
                         [] OTHER -> "Fail", Good, Bad)

\* Every command is guarded; no relay log is a pass.
RelayLogBasenamePerm == Value(<<3, 5>>, {None, Good})

\* None and Bad: the log is off and its file is gone, or still there.
GeneralLogFilePerm ==
    Listed(<<3, 6>>, {Down, None, Bad},
           LAMBDA a : CASE a = None -> "Pass" [] a = Bad -> "Fail"
                        [] a \in Greps -> IF Complains(a) THEN Complaint(a)
                                          ELSE "Pass")

\* Every certificate file is listed for its mode and then, in a second loop,
\* for its owner; None: there is no such file.
SSLKeyFilePerm ==
    Judging(<<3, 7>>, {Down, None, Good, Bad, Gone},
            LAMBDA a : CASE a \in {None, Good} -> "Pass" [] a = Gone -> "panic"
                         [] OTHER -> "Fail", Good, Bad)

\* Mutant: a grep that finds nothing is nothing to complain about.
PluginDirPerm == Listed(<<3, 8>>, {Down}, LAMBDA a : Matched(a, "Fail", "Pass"))

\* The file has a name; nobody looks at its permissions.
AuditLogFilePerm == Value(<<3, 9>>, {Good, Bad})

(* 4 General.                                                                *)

\* Six names are looked for; Unseen: a database with the name test.
TestDBOnServer == ValueAmong(<<4, 2>>, {Unseen}, {None, Good, Unseen})

\* A match leaves the status empty.
AllowSuspiciousUdfs ==
    Judging(<<4, 3>>, Greps, LAMBDA a : Matched(a, "Pass", ""), NoMatch, Found)

\* The variable is looked for under the name of the option; Unseen: it is set,
\* and is not called that.
PrefixMySqld    == ListAmong(<<4, 5>>, {Unseen}, "")
SymbolicLink    == Value(<<4, 6>>, {Good})
DaemonMemcached == Violations(<<4, 7>>, "Fail")
SecureFilePriv  == Value(<<4, 8>>, {Good})
SQLMode         == Value(<<4, 9>>, {Good})

(* 6 Auditing and logging.  7 Authentication.                                *)

LogError          == Value(<<6, 1>>, {None, Good})
LogFiles          == Value(<<6, 2>>, {None, Good})
LogErrorVerbosity == Value(<<6, 3>>, {Good})

DefaultAuthPlugin   == Value(<<7, 1>>, {None, Good})
\* Unseen: an account without password under a plugin the query does not name.
PassForAllAcc       == ListAmong(<<7, 3>>, {Unseen}, "Fail")
\* A lifetime below 364 days fails and any longer one passes.  Good: a year;
\* Stricter: less; Unseen: more; Bad: 0, for ever.
DPLPassExp          == ValueAmong(<<7, 4>>, {Stricter, Unseen}, {Good, Unseen})
PassComplexPolicies == Value(<<7, 5>>, {Good})
WildcardHostnames   == Violations(<<7, 6>>, "Fail")
AnonymousAccounts   == Violations(<<7, 7>>, "Fail")

(* 8 Network.  9 Replication.                                                *)

\* The answer is looked for under a column that the query does not have.
RequireSecureTransport == Value(<<8, 1>>, {})

\* The limits of single users are asked for under a column that is not there:
\* Bad is a server whose users have no limit of their own, and it passes.
MaxConnLimits  == Value(<<8, 3>>, {Good, Bad})
SOURCESSL      == Value(<<9, 2>>, {})
MasterInfoRepo == Value(<<9, 3>>, {})

-----------------------------------------------------------------------------
\* The checks, by name and in order.
CheckList ==
    <<"nps", "leastPrivileged", "history", "mysqlPwd", "interactive", "pwdProfile",
      "pointInTime", "binlogs", "defaultLt", "resetLt", "currentLt", "encryption",
      "bindAddr", "tls", "clientCert", "sslTls",
      "dataDir", "logBin", "logError", "slowLog", "relayLog", "generalLog",
      "sslKey", "pluginDir", "auditLog",
      "testDb", "udfs", "skipGrant", "symlink", "memcached", "filePriv", "sqlMode",
      "errorLog", "logFiles", "verbosity",
      "authPlugin", "passwords", "expiry", "complexity", "wildcards", "anonymous",
      "secureTransport", "connLimits", "sourceSsl", "masterInfo">>

MySqlCheck ==
    [nps |-> IsDBOnNPS, leastPrivileged |-> LeastPrivileged,
     history |-> CheckCommandHistory, mysqlPwd |-> CheckMYSQLPWD,
     interactive |-> CheckInteractiveLogin, pwdProfile |-> CheckMYSQLPWDUserProfile,
     pointInTime |-> PointInTimeRec, binlogs |-> BinaryRelayLogs,
     defaultLt |-> DefaultPassLt, resetLt |-> ResetPassLt,
     currentLt |-> CurrentPassLt, encryption |-> BlockEncryp,
     bindAddr |-> BindAddr, tls |-> TLS, clientCert |-> ClientCert,
     sslTls |-> SSLTLS, dataDir |-> DataDirPerm, logBin |-> LogBinBasenamePerm,
     logError |-> LogErrorPerm, slowLog |-> SlowQueryLogPerm,
     relayLog |-> RelayLogBasenamePerm, generalLog |-> GeneralLogFilePerm,
     sslKey |-> SSLKeyFilePerm, pluginDir |-> PluginDirPerm,
     auditLog |-> AuditLogFilePerm, testDb |-> TestDBOnServer,
     udfs |-> AllowSuspiciousUdfs, skipGrant |-> PrefixMySqld,
     symlink |-> SymbolicLink, memcached |-> DaemonMemcached,
     filePriv |-> SecureFilePriv, sqlMode |-> SQLMode, errorLog |-> LogError,
     logFiles |-> LogFiles, verbosity |-> LogErrorVerbosity,
     authPlugin |-> DefaultAuthPlugin, passwords |-> PassForAllAcc,
     expiry |-> DPLPassExp, complexity |-> PassComplexPolicies,
     wildcards |-> WildcardHostnames, anonymous |-> AnonymousAccounts,
     secureTransport |-> RequireSecureTransport, connLimits |-> MaxConnLimits,
     sourceSsl |-> SOURCESSL, masterInfo |-> MasterInfoRepo]
=============================================================================
