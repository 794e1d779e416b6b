----------------------------- MODULE MySqlSuite -----------------------------
(***************************************************************************)
(* One run of the MySQL checks (mysql.PerformAllChecks) and its score.  One *)
(* check is watched and may get any answer; the server answers the others   *)
(* as the benchmark asks.  A check that panics takes the run with it: the   *)
(* process when it was started by hand, the rest of the job under cron.     *)
(***************************************************************************)
EXTENDS MySqlChecks

VARIABLES
    myWatch,     \* the watched check
    myAnswer,    \* what its probe came back with, once it has run
    myStatuses,  \* the statuses of the checks that have run
    myScore      \* CalculateScore's result, at the end

myVars == <<myWatch, myAnswer, myStatuses, myScore>>

MyStart(watch) ==
    /\ myWatch = watch
    /\ myAnswer = <<>> /\ myStatuses = <<>> /\ myScore = <<>>

MyInit == \E watch \in DOMAIN MySqlCheck : MyStart(watch)

NextCheck == CheckList[Len(myStatuses) + 1]
Done      == Len(myStatuses) = Len(CheckList)
Panicked  == \E i \in DOMAIN myStatuses : myStatuses[i] = "panic"

PerformCheck ==
    /\ ~Done /\ ~Panicked
    /\ LET check == MySqlCheck[NextCheck] IN
       \E a \in IF NextCheck = myWatch THEN DOMAIN check.verdict ELSE {check.good} :
          /\ myStatuses' = Append(myStatuses, check.verdict[a])
          /\ myAnswer' = IF NextCheck = myWatch THEN a ELSE myAnswer
    /\ UNCHANGED <<myWatch, myScore>>

-----------------------------------------------------------------------------
(* CalculateScore: whatever is not "Pass" is a failure.                      *)

SectionOf(i) == MySqlCheck[CheckList[i]].number[1]

Count(sec) ==
    LET mine == {i \in DOMAIN myStatuses : sec = 0 \/ SectionOf(i) = sec}
    IN  [pass |-> Cardinality({i \in mine : myStatuses[i] = "Pass"}),
         fail |-> Cardinality({i \in mine : myStatuses[i] # "Pass"})]

CalculateScore ==
    /\ Done /\ ~Panicked /\ myScore = <<>>
    /\ myScore' = <<[sec \in 0 .. 10 |-> Count(sec)]>>
    /\ UNCHANGED <<myWatch, myAnswer, myStatuses>>

MyNext == PerformCheck \/ CalculateScore

-----------------------------------------------------------------------------
(* Properties. *)

\* The status the watched check got.
Place(name) == CHOOSE i \in DOMAIN CheckList : CheckList[i] = name
Watched == myStatuses[Place(myWatch)]

\* A server that does as the benchmark asks passes every check but four: three
\* read a column their query does not have and fail whatever it says
\* (network.go:29, replication.go:35, 73), one fails the approved cipher suites
\* (installation.go:413).  Passwords that expire within the year fail a check
\* that asks for a yearly change (authentication.go:121).
CompliantPasses ==
    myAnswer \in {MySqlCheck[myWatch].good, Stricter} =>
        \/ Watched = "Pass"
        \/ myWatch \in {"secureTransport", "sourceSsl", "masterInfo", "sslTls"}
        \/ myAnswer = Stricter /\ myWatch = "expiry"

\* The checks whose condition or query leaves a violation out.
PartlyBlind == {"defaultLt", "tls", "sslTls", "testDb", "skipGrant", "passwords", "expiry"}

\* A violation found passes nowhere but in the three checks that do not look
\* at what they ask for (installation.go:276, checkpermission.go:632,
\* network.go:128).  Seven let another kind of violation pass: passwords that
\* never expire or only after years (installation.go:121, authentication.go:121),
\* old TLS versions in use, other cipher suites (installation.go:327, 413), a
\* database called test, skipped grant tables (general.go:33, 84) and accounts
\* with an empty password under another plugin (authentication.go:61).
ViolationFails ==
    myAnswer \in {MySqlCheck[myWatch].bad, Unseen} =>
        \/ Watched # "Pass"
        \/ myWatch \in {"bindAddr", "auditLog", "connLimits"}
        \/ myAnswer = Unseen /\ myWatch \in PartlyBlind

\* A run is brought down by a shell command that ended well and yet said
\* something, and there alone: never by the server's answers, nor by a command
\* that failed.  Two checks are brought down by the violation they look for
\* (oslevelconfig.go:139, 185), two by a file that goes away meanwhile.
MyBroughtDown ==
    Panicked =>
        \/ myWatch \in {"mysqlPwd", "pwdProfile"} /\ Exit(myAnswer) = 0
        \/ myWatch \in {"logBin", "sslKey"} /\ myAnswer = Gone
        \/ /\ myWatch \in {"leastPrivileged", "interactive", "dataDir", "logError",
                           "slowLog", "generalLog", "pluginDir", "udfs"}
           /\ Exit(myAnswer) = 0 /\ Said(myAnswer)

\* The score of a run that ends counts every check once, in its section and in
\* the total, the ones whose status stayed empty among the failures.
ScoreWhole ==
    myScore # <<>> =>
        /\ myScore[1][0].pass + myScore[1][0].fail = Len(CheckList)
        /\ \A sec \in 1 .. 10 :
             myScore[1][sec].pass + myScore[1][sec].fail
                = Cardinality({i \in DOMAIN CheckList : SectionOf(i) = sec})

\* A server that complies passes, one that does not fails, and the score counts
\* both, but for the checks named (mysql/check.go:345-455).
VerdictsRight == CompliantPasses /\ ViolationFails /\ ScoreWhole
=============================================================================
