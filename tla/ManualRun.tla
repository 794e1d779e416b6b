----------------------------- MODULE ManualRun -----------------------------
(***************************************************************************)
(* The collector run by hand: flags or the menu become a configuration      *)
(* (config.go, NewConfig) or a refusal, and main.go runs what it asks for    *)
(* in a fixed order, with one map for the results, one for the errors and   *)
(* what is deferred: the push to the main server and the file.              *)
(***************************************************************************)
EXTENDS Naturals, Sequences, FiniteSets, SequencesExt

CONSTANT MrRequests   \* [mode, asked, toml, dbs, json, enabled, spacy, down, broken, logOk]
(* mode    "flags", "allchecks" (with flags beside it), "menu" or "verbose"  *)
(* asked   the scans of the flags or of the choice in the menu               *)
(* toml    "none" (no file), "neither", "postgres", "mysql", "both"          *)
(* dbs     the databases of [postgres]; down: those that refuse; broken:     *)
(*         scans one of whose queries, rows or tools fails; logOk: usable    *)
(*         log options;                                                      *)
(*         spacy: -spacy-only                                                *)

VARIABLES
    mrReq,
    mrPhase,    \* "flags", "running", "refused", "exited", "crashed", "ended"
    mrAt,       \* the step of main that is next
    mrScore,    \* the summary of the first target that had one
    mrSeen,     \* <<scan, database>> whose result the user sees
    mrTold,     \* <<scan, database>> whose failure is printed at once
    mrErrors,   \* overviewErrorMap: scan |-> [db, failed]
    mrFile,     \* fileData: scan |-> database
    mrPushed,   \* manualPushed
    mrSent      \* <<scan, database>> handed to the client of the main server

mrVars == <<mrReq, mrPhase, mrAt, mrScore, mrSeen, mrTold, mrErrors, mrFile, mrPushed, mrSent>>

MrSteps == <<"mysql", "postgres", "hba", "overview", "rds", "hbaControl", "log", "attack",
             "generate", "encrypt", "users", "pwned", "compare", "wraparound", "pii",
             "backup", "create", "audit", "ssl">>
AllChecks == {"postgres", "hba", "log", "users", "wraparound", "ssl"}

\* What can be asked for: any step but the summary and, with flags, one control.
ASSUME ManualAssumption ==
    \A req \in MrRequests : /\ req.asked \subseteq ToSet(MrSteps) \ {"overview", "hbaControl"}
                            /\ req.dbs \in Seq(STRING)

MrStart(req) ==
    /\ mrReq = req
    /\ mrPhase = "flags" /\ mrAt = 1 /\ mrScore = FALSE
    /\ mrSeen = {} /\ mrTold = {} /\ mrErrors = <<>> /\ mrFile = <<>>
    /\ mrPushed = FALSE /\ mrSent = {}
MrInit == \E req \in MrRequests : MrStart(req)
-----------------------------------------------------------------------------
\* NewConfig.

\* -run-rds loads no file; the menu's choice comes after it was loaded.
Loads == ~(mrReq.mode \in {"flags", "allchecks"} /\ "rds" \in mrReq.asked)
HasPg == Loads /\ mrReq.toml \in {"postgres", "both"}
HasMy == Loads /\ mrReq.toml \in {"mysql", "both"}
Dbs == IF HasPg THEN mrReq.dbs ELSE <<>>

MrAsks == mrReq.asked \cup (IF mrReq.mode = "allchecks" THEN AllChecks ELSE {})
MenuAll == mrReq.mode \in {"menu", "verbose"} /\ mrReq.asked = AllChecks
Summary == mrReq.mode = "allchecks" \/ MenuAll

\* The second menu: PII is not available, create is noted too late.
VerboseRuns ==
    IF MenuAll THEN {"postgresControl", "hbaControl", "log", "users", "wraparound"}
    ELSE UNION {CASE x = "postgres" -> {"postgresControl"}
                  [] x = "hba" -> {"hbaControl"}
                  [] x \in {"pii", "create"} -> {}
                  [] OTHER -> {x} : x \in mrReq.asked}
Runs == IF mrReq.mode = "verbose" THEN VerboseRuns ELSE MrAsks

\* Choices that exit: not available with -verbose or without [postgres].
VerboseAvailable == {"postgres", "hba", "pii", "attack", "generate", "encrypt", "users",
                     "pwned", "create", "audit"}
VerboseExits ==
    /\ mrReq.mode = "verbose"
    /\ \/ ~MenuAll /\ ~(mrReq.asked \subseteq VerboseAvailable)
       \/ mrReq.asked \cap {"postgres", "hba"} # {} /\ ~HasPg
\* BuildPiiScannerConfig fills in a run option, with which NewConfig refuses
\* -spacy-only; the menu's way leaves the option out.
PiiExits ==
    /\ "pii" \in mrReq.asked /\ mrReq.mode # "verbose"
    /\ ~HasPg \/ (mrReq.spacy /\ mrReq.mode # "menu")

LoadFails == Loads /\ mrReq.toml = "none"
             /\ ~(mrReq.mode \in {"flags", "allchecks"} /\ "log" \in mrReq.asked)

\* postgresConfigNeeded without the last flag that was added.
MissingSslFlag ==
    Runs \cap {"postgres", "hba", "pii", "wraparound"} # {} /\ ~HasPg
\* postgresConfigNeeded: users, attack and audit are not asked about.
PostgresMissing ==
    Runs \cap {"postgres", "hba", "pii", "wraparound", "ssl"} # {} /\ ~HasPg

\* c.LogParser is set below these conditions: it counts for none of them.
ConfigRefused ==
    \/ LoadFails
    \/ ~HasPg /\ ~HasMy /\ "rds" \notin Runs /\ "backup" \notin Runs
    \/ HasPg /\ HasMy /\ "rds" \notin Runs
    \/ ~HasMy /\ "mysql" \in Runs
    \/ PostgresMissing

MrUnstarted == UNCHANGED <<mrAt, mrScore, mrSeen, mrTold, mrErrors, mrFile, mrPushed, mrSent>>
NewConfig ==
    /\ mrPhase = "flags"
    /\ mrPhase' = IF \/ mrReq.mode = "flags" /\ mrReq.asked = {}   \* the help text
                     \/ VerboseExits \/ PiiExits \/ ConfigRefused
                  THEN "refused" ELSE "running"
    /\ UNCHANGED mrReq /\ MrUnstarted
-----------------------------------------------------------------------------
\* main.

MrStep == MrSteps[mrAt]
At(steps) == mrPhase = "running" /\ mrAt <= Len(MrSteps) /\ MrStep \in steps
MrMoveOn == mrAt' = mrAt + 1 /\ UNCHANGED <<mrReq, mrPhase>>

\* One control of the CIS suite: it is all that is run then.
ByControl == mrPhase = "running" /\ "postgresControl" \in Runs
RunByControl ==
    /\ ByControl
    /\ mrPhase' = "ended"
    /\ mrSeen' = IF Head(Dbs) \in mrReq.down THEN mrSeen
                 ELSE mrSeen \cup {<<"postgresControl", Head(Dbs)>>}
    /\ UNCHANGED <<mrReq, mrAt, mrScore, mrTold, mrErrors, mrFile, mrPushed, mrSent>>

NotAsked ==
    /\ At(ToSet(MrSteps) \ {"overview"}) /\ MrStep \notin Runs
    /\ MrMoveOn
    /\ UNCHANGED <<mrScore, mrSeen, mrTold, mrErrors, mrFile, mrPushed, mrSent>>

Works(scan, db) == db \notin mrReq.down /\ scan \notin mrReq.broken
Put(f, scan, value) == [x \in DOMAIN f \cup {scan} |-> IF x = scan THEN value ELSE f[x]]
LastDb(S) == Dbs[Max({i \in DOMAIN Dbs : Dbs[i] \in S})]

\* What works of a scan of every database: shown, filed under a key without the
\* database, pushed with the server's settings.
TargetScan(scan) ==
    LET good == {db \in ToSet(Dbs) : Works(scan, db)}
    IN /\ mrSeen' = mrSeen \cup {<<scan, db>> : db \in good}
       /\ mrFile' = IF good = {} THEN mrFile ELSE Put(mrFile, scan, LastDb(good))
       /\ mrPushed' = (mrPushed \/ (mrReq.enabled /\ good # {}))
       /\ mrSent' = mrSent \cup (IF mrReq.enabled THEN {<<scan, db>> : db \in good} ELSE {})

\* The error is kept under a key of its own for every host, which nobody reads.
RunPostgres ==
    /\ At({"postgres"}) /\ "postgres" \in Runs
    /\ TargetScan("postgres")
    /\ mrScore' = \E db \in ToSet(Dbs) : Works("postgres", db)
    /\ MrMoveOn /\ UNCHANGED <<mrTold, mrErrors>>

\* HBAScanner ends the process when neither the query nor the file can be read;
\* the error of the last database is the one that is kept.
HbaExits == \E db \in ToSet(Dbs) : db \notin mrReq.down /\ "hba" \in mrReq.broken
RunHba ==
    /\ At({"hba"}) /\ "hba" \in Runs /\ ~HbaExits
    /\ TargetScan("hba")
    /\ mrErrors' = Put(mrErrors, "hba", [db |-> Dbs[Len(Dbs)],
                                         failed |-> ~Works("hba", Dbs[Len(Dbs)])])
    /\ MrMoveOn /\ UNCHANGED <<mrTold, mrScore>>

\* PrintShortSummary: the error has another key, so the score is used; there is
\* none when no database could be checked.  PrintScore returns on none.
NoScore == Summary /\ ~mrScore
Overview ==
    /\ At({"overview"}) /\ ~NoScore
    /\ MrMoveOn
    /\ UNCHANGED <<mrScore, mrSeen, mrTold, mrErrors, mrFile, mrPushed, mrSent>>

\* Scans of the first database or of none.
Db == IF Dbs = <<>> THEN "" ELSE Head(Dbs)
OnDb == {"attack", "users", "wraparound", "pii", "audit", "ssl", "hbaControl"}
LogUsable == mrReq.logOk    \* getLogParserInputs, NewLogParser
Succeeds(scan) ==
    /\ scan \notin mrReq.broken
    /\ scan \in OnDb => Db \notin mrReq.down
    /\ scan = "log" => LogUsable

\* GetPostgresUsers' error is dropped: no users pass for the answer.
NoUsersListed(scan) ==
    scan \in {"attack", "users"} /\ scan \in mrReq.broken /\ Db \notin mrReq.down
Returns(scan) == Succeeds(scan) \/ NoUsersListed(scan)

\* Errors that are printed at once, kept for the end, or dropped.
ToldAtOnce == {"pii", "create", "wraparound", "pwned"} \cup (IF Summary THEN {} ELSE {"log"})
ToldAtEnd  == {"users", "compare", "backup", "create", "audit", "ssl"}
              \cup (IF Summary THEN {"log", "wraparound"} ELSE {})
\* -r or json decides whether a result is filed.
Filed == {"mysql"} \cup (IF mrReq.json THEN {"rds", "log", "users", "ssl"} ELSE {})
         \cup (IF mrReq.mode \in {"menu", "verbose"} THEN {"log", "users"} ELSE {})

\* A nil [postgres] is opened.
NilPostgres == At({"attack", "users", "audit", "ssl"}) /\ MrStep \in Runs /\ ~HasPg
\* A scan that ends the process: HBA and RDS do when what they read first, the
\* rules and the list of instances, cannot be read, which is what broken says of
\* them; the log when it is the settings that cannot be read; the
\* wraparound when it is the age of the cluster, a database or its tables, or a
\* database that cannot be opened.
ScanExits == \/ At({"hba"}) /\ "hba" \in Runs /\ HbaExits
             \/ At({"rds"}) /\ "rds" \in Runs /\ "rds" \in mrReq.broken
LogExits == "log" \in mrReq.broken /\ HasPg /\ Db \notin mrReq.down /\ LogUsable
WraparoundBreaks == "wraparound" \in mrReq.broken /\ Db \notin mrReq.down
ScanMayExit == \/ At({"log"}) /\ "log" \in Runs /\ LogExits
               \/ At({"wraparound"}) /\ "wraparound" \in Runs /\ WraparoundBreaks
\* A failing check of a suite may panic, and the wraparound on a row it cannot read.
ScanCrashes ==
    \/ At({"mysql"}) /\ "mysql" \in Runs /\ "mysql" \in mrReq.broken
    \/ /\ At({"postgres", "hba"}) /\ MrStep \in Runs /\ MrStep \in mrReq.broken
       /\ ~(ToSet(Dbs) \subseteq mrReq.down)
    \/ At({"wraparound"}) /\ "wraparound" \in Runs /\ WraparoundBreaks

RunScan ==
    /\ At(ToSet(MrSteps) \ {"postgres", "hba", "overview"}) /\ MrStep \in Runs
    /\ ~NilPostgres /\ ~ScanExits
    /\ IF Returns(MrStep)
       THEN /\ mrSeen' = mrSeen \cup {<<MrStep, Db>>}
            /\ mrFile' = IF MrStep \in Filed THEN Put(mrFile, MrStep, Db) ELSE mrFile
            /\ mrSent' = mrSent \cup (IF MrStep = "pii" /\ mrReq.enabled
                                      THEN {<<"pii", Db>>} ELSE {})
            /\ UNCHANGED mrTold
       ELSE /\ mrTold' = mrTold \cup (IF MrStep \in ToldAtOnce THEN {<<MrStep, Db>>} ELSE {})
            /\ UNCHANGED <<mrSeen, mrFile, mrSent>>
    /\ mrErrors' = IF MrStep \in ToldAtEnd
                   THEN Put(mrErrors, MrStep, [db |-> Db, failed |-> ~Returns(MrStep)])
                   ELSE mrErrors
    \* log options that cannot be used end main at once
    /\ IF MrStep = "log" /\ ~LogUsable /\ ~Summary
       THEN mrAt' = Len(MrSteps) + 1 ELSE mrAt' = mrAt + 1
    /\ UNCHANGED <<mrReq, mrPhase, mrScore, mrPushed>>

\* What is deferred: push and file.  It runs after a panic too.  A payload needs
\* the server's settings or the log's options.
FinalPush ==
    IF /\ mrReq.enabled /\ mrFile # <<>> /\ ~mrPushed /\ HasPg
       /\ Db \notin mrReq.down \/ ("log" \in Runs /\ LogUsable)
    THEN {<<x, mrFile[x]>> : x \in DOMAIN mrFile} ELSE {}
MrDeferred == mrSent' = mrSent \cup FinalPush
MrEnds ==
    /\ mrPhase = "running" /\ mrAt > Len(MrSteps)
    /\ mrPhase' = "ended" /\ MrDeferred
    /\ LET failed == {x \in DOMAIN mrErrors : mrErrors[x].failed}
       IN mrTold' = mrTold \cup {<<x, mrErrors[x].db>> : x \in failed}
    /\ UNCHANGED <<mrReq, mrAt, mrScore, mrSeen, mrErrors, mrFile, mrPushed>>
Crashes ==
    /\ NilPostgres \/ (At({"overview"}) /\ NoScore) \/ ScanCrashes
    /\ mrPhase' = "crashed" /\ MrDeferred
    /\ UNCHANGED <<mrReq, mrAt, mrScore, mrSeen, mrTold, mrErrors, mrFile, mrPushed>>
Exits ==
    /\ ScanExits \/ ScanMayExit
    /\ mrPhase' = "exited" /\ mrTold' = mrTold \cup {<<MrStep, Db>>}
    /\ UNCHANGED <<mrReq, mrAt, mrScore, mrSeen, mrErrors, mrFile, mrPushed, mrSent>>

MrWork == NotAsked \/ RunPostgres \/ RunHba \/ Overview \/ RunScan \/ MrEnds
MrNext == NewConfig \/ RunByControl \/ (~ByControl /\ (MrWork \/ Crashes \/ Exits))
-----------------------------------------------------------------------------
\* What was asked, for every database where the scan is one of a database.
MrWanted == {<<x, db>> : x \in MrAsks \cap {"postgres", "hba"}, db \in ToSet(Dbs)}
            \cup {<<x, Db>> : x \in MrAsks \ {"postgres", "hba"}}

Worked(x, db) == IF x \in {"postgres", "hba"} THEN Works(x, db) ELSE Succeeds(x)

\* Failures nobody hears of: the CIS suite's, another than the last of the HBA
\* scan, those main drops, and users that could not be listed, whose scan shows none.
Unheard(x, db) ==
    \/ x = "postgres"
    \/ x = "hba" /\ db # Dbs[Len(Dbs)]
    \/ x \in {"mysql", "attack", "generate", "encrypt"}
    \/ x = "users" /\ NoUsersListed(x)

\* A run by hand that ends has shown the result of every scan that was asked for
\* and worked, and told of every one that failed, except those it drops
\* (Unheard), those after unusable log options and those the second menu leaves
\* out; with a main server it has sent what it filed, of HBA and CIS for every
\* database, unless one of these went before the others (NewConfig, main,
\* overviewErrorMap, fileData, manualPushed).
RunTells ==
    /\ mrPhase = "ended" /\ mrReq.mode # "verbose" =>
         \A w \in MrWanted :
            \/ Worked(w[1], w[2]) /\ w \in mrSeen
            \/ ~Worked(w[1], w[2]) /\ (w \in mrTold \/ Unheard(w[1], w[2]))
            \/ "log" \in MrAsks /\ ~LogUsable /\ ~Summary
    /\ mrPhase = "ended" /\ mrReq.enabled /\ HasPg =>
         \A x \in DOMAIN mrFile :
            \/ <<x, mrFile[x]>> \in mrSent
            \/ x \notin {"postgres", "hba"} /\ MrAsks \cap {"postgres", "hba"} # {}
            \/ Db \in mrReq.down
    \* it breaks off for these causes alone
    /\ mrPhase = "crashed" => \/ Summary /\ ToSet(Dbs) \subseteq mrReq.down
                              \/ mrReq.broken \cap {"mysql", "postgres", "hba", "wraparound"} # {}
                              \/ ~HasPg /\ MrAsks \cap {"attack", "users", "audit"} # {}
    /\ mrPhase = "exited" => mrReq.broken \cap {"hba", "rds", "log", "wraparound"} # {}
    /\ mrSent # {} => mrReq.enabled
=============================================================================
