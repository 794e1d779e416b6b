----------------------------- MODULE Dashboard -----------------------------
(***************************************************************************)
(* The page of critical checks (pkg/dashboard/service).  Jobs of one target *)
(* push runs, each with the parts its schedule makes: controls of the CIS   *)
(* suite, sections of the users report, the HBA scan, a PII report.  Of the *)
(* newest runs one is shown, and each of 25 checks is answered from it, by  *)
(* a section of the users report or by the first control whose text has one *)
(* of the words looked for.                                                 *)
(*                                                                          *)
(* What is wrong on the server is a set of faults, the number of the check  *)
(* it is about, or Another; a run reports those there were when it was made. *)
(***************************************************************************)
EXTENDS Integers, Sequences, FiniteSets

CONSTANTS
    DbReports,   \* what runs may hold
    DbWatched,   \* the faults a behaviour follows, a set of sets
    DbRuns,      \* scans that are pushed
    PickLimit    \* runs that are looked at (15)

ASSUME PickLimitAssumption == PickLimit \in Nat \ {0}

VARIABLES
    dbWatch,     \* the faults that come and go
    dbBad,       \* they are there now
    dbRuns       \* the runs of the target, the newest last

dbVars == <<dbWatch, dbBad, dbRuns>>

Checks  == 1 .. 25
Another == 26     \* a fault no check is about
Never   == 0      \* of a control that passes whatever it finds

-----------------------------------------------------------------------------
(* The controls with a word that is looked for, in the order of the suite: in  *)
(* its own text, or in the table that comes with it.                           *)

Decided(control, words, about) ==
    [control |-> control, words |-> words, table |-> {}, about |-> about, manual |-> FALSE]
ForReview(control, words, table, about) ==
    [control |-> control, words |-> words, table |-> table, about |-> about, manual |-> TRUE]

CisResults ==
    <<Decided("1.6", {"pgpassword", "profile", "environment", "password"}, 20),
      Decided("1.7", {"pgpassword", "environment", "password"}, 21),
      Decided("2.3", {"psql_history", "command history"}, 22),
      Decided("3.1.2", {"log_destination"}, Never),
      Decided("3.1.3", {"logging_collector"}, 15),
      Decided("3.1.6", {"logging_collector"}, Another),
      Decided("3.1.7", {"logging_collector"}, Another),
      Decided("3.1.8", {"logging_collector"}, Another),
      Decided("3.1.20", {"log_connections", "connect"}, 11),
      Decided("3.1.21", {"log_disconnections", "connect"}, 12),
      Decided("3.1.23", {"connect"}, Another),
      Decided("3.1.24", {"log_line_prefix"}, 14),
      Decided("3.1.25", {"log_statement"}, 13),
      Decided("3.2", {"pgaudit.log", "pgaudit", "shared_preload"}, 16),
      Decided("4.5", {"pg_authid", "prosecdef", "function privileges"}, 6),
      ForReview("4.9", {"environment"}, {}, Another),
      ForReview("5.1", {"command history", "password"}, {}, Another),
      ForReview("5.2", {"listen_addresses", "connect"}, {}, 9),
      ForReview("5.3", {"connect"}, {}, Another),
      ForReview("5.4", {"connect"}, {}, Another),
      Decided("5.5", {"connect"}, 23),
      ForReview("5.6", {"password_encryption", "password complexity", "pg_shadow", "password"},
                {"shared_preload"}, 1),
      Decided("6.2", {"log_connections", "log_disconnections", "connect"}, Another),
      ForReview("6.3", {}, {"listen_addresses", "logging_collector", "shared_preload", "connect"}, 16),
      ForReview("6.4", {}, {"log_destination", "log_line_prefix"}, 14),
      ForReview("6.5", {}, {"log_statement"}, 13),
      ForReview("6.6", {}, {"password_encryption", "password", "public"}, 1),
      Decided("6.7", {"ssl"}, Another),
      Decided("6.8", {"ssl"}, 5),
      Decided("6.9", {"ssl", "tls"}, 5),
      Decided("6.10", {"ssl", "tls"}, 5),
      ForReview("7.3", {"tls"}, {}, Another),
      ForReview("7.5", {"ssl", "connect", "password"}, {}, Another),
      ForReview("8.3", {"shared_preload"}, {}, 16)>>

CisControls == {CisResults[n].control : n \in DOMAIN CisResults}

\* findCISForCritical: the words of a check, to be tried in this order.
WordsFor(i) ==
    CASE i = 1  -> <<{"password_encryption", "password complexity"}>>
      [] i = 2  -> <<{"rolpassword", "pg_shadow", "pg_authid"}, {"md5", "password"}>>
      [] i = 6  -> <<{"prosecdef", "security definer", "function privileges"}>>
      [] i = 9  -> <<{"listen_addresses"}>>
      [] i = 11 -> <<{"log_connections"}>>
      [] i = 12 -> <<{"log_disconnections"}>>
      [] i = 13 -> <<{"log_statement"}>>
      [] i = 14 -> <<{"log_line_prefix"}>>
      [] i = 15 -> <<{"log_destination"}, {"logging_collector"}>>
      [] i = 16 -> <<{"pgaudit", "shared_preload"}>>
      [] i = 17 -> <<{"pgaudit.log", "pgaudit"}>>
      [] i = 20 -> <<{"pgpassword", "profile"}>>
      [] i = 21 -> <<{"pgpassword", "environment"}>>
      [] i = 22 -> <<{"psql_history", "command history"}>>
      [] i = 24 -> <<{"has_database_privilege", "public", "connect"}>>
      [] OTHER  -> <<>>

\* The sections of the users report that are made for a check; the others are
\* lists of roles.  The one for 24 asks for a role PUBLIC, which no server has, and
\* comes without a table.
PassSections == {1, 2, 6, 7} \cup {9} \cup 11 .. 17

-----------------------------------------------------------------------------
(* Answering a check from a run: [report, faults, pii].                      *)

PassUnless(bad) == IF bad THEN "Fail" ELSE "Pass"

\* What a person should judge is judged from the table or list it comes with:
\* from the setting asked for, or for 2 and 24 by whether the table has rows.  The
\* query behind the one of 5.6 never finds a row, those of settings and of roles
\* that replicate always do, and 15 takes two settings, which no table has both.
ResolveCritical(i, row, faults) ==
    CASE row.about = i -> PassUnless(i \in faults)
      [] i = 2 /\ row.control = "5.6"   -> "Pass"
      [] i = 2 /\ row.control \in {"6.6", "7.5"} -> "Fail"
      [] i = 15 /\ row.control = "6.4"  -> "Pass"
      [] i = 15 /\ row.control = "6.3"  -> "Fail"
      [] i = 24 /\ row.control \in {"5.3", "5.4"} -> PassUnless(Another \in faults)
      [] i = 24 /\ row.control \in {"6.3", "6.6", "7.5"} -> "Fail"
      [] OTHER -> "Manual"

\* A control whose query or command failed has failed, the ones for review too.
CheckFromCIS(i, row, run) ==
    IF row.control \in run.report.failed THEN "Fail"
    ELSE IF row.manual THEN ResolveCritical(i, row, run.faults)
                       ELSE PassUnless(row.about \in run.faults)

\* The lists of the users report, and the reports a run may hold.
DbLists == {"users", "limits", "superusers"}
DbParts == {"cis", "hba", "users", "leaks", "passwords"}

ASSUME ReportsAssumption ==
    DbReports \subseteq [controls : SUBSET CisControls, failed : SUBSET CisControls,
                         users : SUBSET PassSections, lists : SUBSET DbLists,
                         parts : SUBSET DbParts]

NoReport == [controls |-> {}, failed |-> {}, users |-> {}, lists |-> {}, parts |-> {}]
Reports  == DbReports \cup {NoReport}

\* The controls of a report that have one of the words, and the first of them.
\* A query that failed has no table.
Text(row, report) == IF row.control \in report.failed THEN row.words ELSE row.words \cup row.table
Results(report, words) ==
    {n \in DOMAIN CisResults : CisResults[n].control \in report.controls
                               /\ Text(CisResults[n], report) \cap words # {}}
Earliest(S) == CHOOSE n \in S : \A k \in S : n <= k

\* The controls that answer check i in a report: one or none.
FindCISForCritical ==
    [report \in Reports |->
        [i \in Checks |->
            LET tried == {t \in DOMAIN WordsFor(i) : Results(report, WordsFor(i)[t]) # {}}
            IN IF tried = {} THEN {} ELSE {Earliest(Results(report, WordsFor(i)[Earliest(tried)]))}]]

EvalCIS(i, run) ==
    LET found == FindCISForCritical[run.report][i]
    IN IF found = {} THEN "Manual"
       ELSE CheckFromCIS(i, CisResults[CHOOSE n \in found : TRUE], run)

\* Without its section a check falls back on the controls.
EvalUsers(i, run) == PassUnless(i \in run.faults)
PreferUsersThenCIS(i, run) ==
    IF i \in run.report.users THEN EvalUsers(i, run) ELSE EvalCIS(i, run)

HbaControl(i) == CASE i = 8 -> 1 [] i = 10 -> 9 [] i = 19 -> 8

HbaFault(control) == CASE control = 1 -> 8 [] control = 9 -> 10 [] control = 8 -> 19
EvalHBA(i, run) ==
    IF "hba" \in run.report.parts THEN PassUnless(HbaFault(HbaControl(i)) \in run.faults)
                                  ELSE "Manual"

\* A control with ssl or tls in its title or description that failed, then the
\* HBA scan, then the first with one of them in its title, as those have that are
\* not for review.
EvalSSL(run) ==
    LET found  == Results(run.report, {"ssl", "tls"})
        titled == {n \in found : ~CisResults[n].manual}
        plain  == "hba" \in run.report.parts /\ 19 \in run.faults
    IN  IF plain \/ \E n \in found : CheckFromCIS(5, CisResults[n], run) = "Fail" THEN "Fail"
        ELSE IF titled # {} THEN "Pass" ELSE "Manual"

EvalPII(pii) == PassUnless(pii = "found")

\* Any report of the password manager, whatever it says.
EvalPasswordLeak(run) == PassUnless({"passwords", "leaks"} \cap run.report.parts # {})

EvalSuperuserCount(run) ==
    IF 7 \in run.report.users \/ "superusers" \in run.report.lists
    THEN PassUnless(7 \in run.faults) ELSE "Manual"

\* What is not listed is not there.
EvalList(i, section, run) == PassUnless(section \in run.report.lists /\ i \in run.faults)

EvalCriticalCheck(i, run, pii) ==
    CASE i = 3  -> EvalPII(pii)
      [] i = 4  -> EvalPasswordLeak(run)
      [] i = 5  -> EvalSSL(run)
      [] i = 7  -> EvalSuperuserCount(run)
      [] i \in {8, 10, 19}  -> EvalHBA(i, run)
      [] i = 18 -> EvalList(18, "users", run)
      [] i = 23 -> EvalList(23, "limits", run)
      [] i = 25 -> EvalList(25, "users", run)
      [] i \in {20, 21, 22} -> EvalCIS(i, run)
      [] OTHER -> PreferUsersThenCIS(i, run)

-----------------------------------------------------------------------------
(* Which run is shown.                                                       *)

Counted ==
    [report \in Reports |->
        Cardinality({n \in DOMAIN CisResults :
                       /\ CisResults[n].control \in report.controls
                       /\ CisResults[n].manual => CisResults[n].control \in report.failed})]
HasReport(report) == report.parts \cap {"cis", "hba", "leaks", "users"} # {}

Rank(n) ==
    LET report == dbRuns[n].report
    IN <<Counted[report], Cardinality(report.parts), IF HasReport(report) THEN 1 ELSE 0, n>>

\* Mutant: of two runs that are equal the older one stays.
PreferRunRowOlder(n, k) ==
    LET a == [Rank(n) EXCEPT ![4] = -n]
        b == [Rank(k) EXCEPT ![4] = -k]
    IN \E d \in 1 .. 4 : a[d] > b[d] /\ \A c \in 1 .. d - 1 : a[c] = b[c]

\* More controls that passed or failed, more parts, the newer.
PreferRunRow(n, k) ==
    \E d \in 1 .. 4 : Rank(n)[d] > Rank(k)[d] /\ \A c \in 1 .. d - 1 : Rank(n)[c] = Rank(k)[c]

Recent == {n \in DOMAIN dbRuns : n > Len(dbRuns) - PickLimit}
Shown == CHOOSE n \in Recent : \A k \in Recent \ {n} : PreferRunRow(n, k)

WithPII == {n \in DOMAIN dbRuns : dbRuns[n].pii # "none"}

\* Its own PII report, else the newest of the target.
ResolvePIIReport(n) ==
    IF dbRuns[n].pii # "none" \/ WithPII = {} THEN dbRuns[n].pii
    ELSE dbRuns[CHOOSE k \in WithPII : \A m \in WithPII : m <= k].pii

Verdict(i, n) == EvalCriticalCheck(i, dbRuns[n], ResolvePIIReport(n))

-----------------------------------------------------------------------------
(* The target and its jobs.                                                  *)

Faults == IF dbBad THEN dbWatch ELSE {}

DbStart(watch) == dbWatch = watch /\ dbBad = FALSE /\ dbRuns = <<>>
DbInit == \E watch \in DbWatched : DbStart(watch)

Change == dbBad' = ~dbBad /\ UNCHANGED <<dbWatch, dbRuns>>

Scan(report) ==
    /\ Len(dbRuns) < DbRuns
    /\ dbRuns' = Append(dbRuns, [report |-> report, faults |-> Faults, pii |-> "none"])
    /\ UNCHANGED <<dbWatch, dbBad>>

\* A PII report goes to the newest run, or makes one of its own.  It is of
\* interest where the fault that is followed is the one it reports.
ScanPII ==
    /\ 3 \in dbWatch
    /\ LET pii == IF dbBad THEN "found" ELSE "clean"
       IN dbRuns' = IF dbRuns = <<>>
                    THEN <<[report |-> NoReport, faults |-> {}, pii |-> pii]>>
                    ELSE [dbRuns EXCEPT ![Len(dbRuns)].pii = pii]
    /\ UNCHANGED <<dbWatch, dbBad>>

DbNext == Change \/ ScanPII \/ \E report \in DbReports : Scan(report)

-----------------------------------------------------------------------------
(* What a verdict may rest on.                                               *)

\* A section or a control of the run that is about check i.
Spoken(i, run) ==
    \/ i \in run.report.users
    \/ \E n \in DOMAIN CisResults :
          CisResults[n].about = i /\ CisResults[n].control \in run.report.controls
    \/ i \in {5, 8, 10, 19} /\ "hba" \in run.report.parts
    \/ i = 7 /\ "superusers" \in run.report.lists
    \/ i \in {18, 25} /\ "users" \in run.report.lists
    \/ i = 23 /\ "limits" \in run.report.lists

\* What is wrong with check i as that run has it; a missing hostssl is a
\* violation of SSL.
Wrong(i, run) ==
    \/ i \in run.faults
    \/ i = 5 /\ 19 \in run.faults /\ "hba" \in run.report.parts

\* The controls that answer check i.
AnsweredBy(i, run) ==
    CASE i = 5 -> Results(run.report, {"ssl", "tls"})
      [] i \in run.report.users \/ i \in {3, 4, 7, 8, 10, 18, 19, 23, 25} -> {}
      [] OTHER -> FindCISForCritical[run.report][i]

\* The verdicts that do not rest on it: a list that is missing passes, whatever
\* control 5.5 says; a report of the password manager fails whatever it says; the
\* first control with the words is about something else; the query of a control
\* that answers has failed, for 5 also one about backups or replication; a PII
\* report newer than that of the run shown.
Unearned(i, n) ==
    LET run == dbRuns[n]
    IN \/ i \in {18, 25} /\ "users" \notin run.report.lists
       \/ i = 23 /\ "limits" \notin run.report.lists
       \/ i = 4
       \/ i \in {2, 15, 17, 24} /\ i \notin run.report.users
       \/ i \in {11, 12, 20} /\ ~Spoken(i, run)
       \/ i = 21
       \/ i = 5 /\ "6.7" \in run.report.controls
       \/ \E k \in AnsweredBy(i, run) : CisResults[k].control \in run.report.failed
       \/ i = 3 /\ (WithPII = {} \/ run.pii # "none")

\* No run that is looked at has other controls, other queries that failed (each
\* counts as a control that failed), more parts, or a report where this one has none.
HasMost(report) ==
    \A n \in Recent :
      LET r == dbRuns[n].report
      IN /\ r.controls \subseteq report.controls /\ r.failed \subseteq report.failed
         /\ Cardinality(r.parts) <= Cardinality(report.parts)
         /\ HasReport(r) => HasReport(report)

\* Whatever runs a target has pushed, the most complete one shows as soon as it is
\* there, and what the page says of a check, Pass or Fail, is what the shown run
\* reports of that very subject: no verdict comes from a control about another,
\* from a part the run does not have or from an older run, the ones Unearned
\* names apart (critical_checks.go:258, critical_checks_resolve.go:41,
\* service.go:78).
VerdictsEarned ==
    dbRuns # <<>> =>
      LET shown  == Shown
          run    == dbRuns[shown]
          newest == dbRuns[Len(dbRuns)]
      IN /\ HasMost(newest.report) => shown = Len(dbRuns)
         /\ \A i \in Checks \ {3} :
              \/ Verdict(i, shown) = "Manual" \/ Unearned(i, shown)
              \/ Spoken(i, run) /\ Verdict(i, shown) = PassUnless(Wrong(i, run))
         /\ \/ Unearned(3, shown)
            \/ \E k \in WithPII : /\ \A m \in WithPII : m <= k
                                  /\ Verdict(3, shown) = PassUnless(dbRuns[k].pii = "found")
=============================================================================
