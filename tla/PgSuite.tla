------------------------------ MODULE PgSuite ------------------------------
(***************************************************************************)
(* A job that runs the PostgreSQL checks (postgres.PerformAllChecks) on a   *)
(* list of targets: a one-shot command or a cron schedule.  The checks are  *)
(* made once, when the program starts; each writes what it finds into a     *)
(* result of its own, and every run on a target of its version reports that *)
(* same result.  A one-shot command sends a target's report at once, a cron *)
(* job sends all reports at the end of the tick.                            *)
(*                                                                          *)
(* One check is watched, under all its versions; the numbers of all checks  *)
(* are kept.  A cron job ticks several times, one tick after the other.     *)
(***************************************************************************)
EXTENDS PgChecks

CONSTANTS
    PgPlans,     \* lists of targets: the version each of them runs
    PgRounds     \* bound: ticks of a cron job

ASSUME PgPlanAssumption ==
    PgPlans \subseteq Seq(Versions) \ {<<>>} /\ PgRounds \in Nat \ {0}

VARIABLES
    pgJob,      \* the targets, how the job reports, the numbers it asks for
    pgWatch,    \* the watched check
    pgNumbers,  \* Result.Control of every check, for every version
    pgResult,   \* the watched check's result, for every version
    pgAt,       \* the target whose turn is next, or one past the last
    pgRound,    \* ticks begun
    pgTold,     \* history: what each target's run found in this tick
    pgSent      \* what the report sent for each target says

pgVars == <<pgJob, pgWatch, pgNumbers, pgResult, pgAt, pgRound, pgTold, pgSent>>

NoTarget == 0
Targets  == 1 .. Len(pgJob.plan)
VersionOf(t) == pgJob.plan[t]
Nothing  == [t \in Targets |-> <<>>]

\* The numbers of a template file, or the set that contains everything.
Asks(number) == pgJob.asks = <<>> \/ number \in ToSet(pgJob.asks)

\* A template is for the one-shot command only.
Jobs ==
    {[plan |-> p, cron |-> c, asks |-> <<>>] : p \in PgPlans, c \in BOOLEAN}
    \cup {[plan |-> p, cron |-> FALSE, asks |-> <<n>>] : p \in PgPlans,
          n \in {<<4, 3>>, <<4, 5>>, <<4, 6>>, <<4, 8>>, <<6, 9>>}}

\* One result per check and version, whoever runs it.
HomeShared(v) == 13     \* mutant: one list of checks for all versions
Home(v) == v

Fresh(check) ==
    [status |-> IF check.manual THEN "Manual" ELSE "",
     reason |-> NoTarget, listed |-> NoTarget]

PgStart(job, watch) ==
    /\ pgJob = job
    /\ pgWatch = watch
    /\ pgNumbers = [v \in Versions |->
                      [n \in NamesOf(v) |-> CheckOf(v)[n].number]]
    /\ pgResult = [v \in Versions |-> Fresh(CheckOf(v)[pgWatch])]
    /\ pgAt = 1
    /\ pgRound = 1
    /\ pgTold = Nothing
    /\ pgSent = Nothing

PgInit == \E job \in Jobs, watch \in NamesOf(13) : PgStart(job, watch)

-----------------------------------------------------------------------------
(* What a run does to a check's result.  A passing check keeps the reason of *)
(* an earlier failure, and a manual check that failed once stays failed.     *)

Judge(check, r, answer, t) ==
    IF answer \in check.passes THEN [r EXCEPT !.status = "Pass"]
    ELSE [r EXCEPT !.status = "Fail", !.reason = t]

ListFound(check, r, answer, t) ==
    IF answer \in check.passes THEN [r EXCEPT !.listed = t]
    ELSE [r EXCEPT !.status = "Fail", !.reason = t]

After(check, r, answer, t) ==
    IF check.manual THEN ListFound(check, r, answer, t)
                    ELSE Judge(check, r, answer, t)

Chosen(v) == {n \in NamesOf(v) : Asks(pgNumbers[v][n])}

Renumber(v) ==
    pgNumbers' = [pgNumbers EXCEPT ![v] =
        [n \in NamesOf(v) |-> IF n \in Chosen(v) THEN Renumbered(n, v, @[n])
                                                 ELSE @[n]]]

PerformAllChecks(t, answer) ==
    LET v     == VersionOf(t)
        check == CheckOf(v)[pgWatch]
    IN  /\ Renumber(v)
        /\ IF pgWatch \in Chosen(v)
           THEN /\ pgResult' = [pgResult EXCEPT ![Home(v)] =
                                  After(check, @, answer, t)]
                /\ pgTold' = [pgTold EXCEPT ![t] =
                                <<[answer |-> answer,
                                   result |-> pgResult'[Home(v)]]>>]
           ELSE answer = "good" /\ UNCHANGED <<pgResult, pgTold>>

-----------------------------------------------------------------------------
(* postgresRunner.run on the next target, and the report of it.             *)

Turn(t) == t = pgAt /\ t \in Targets /\ pgAt' = pgAt + 1

\* main.go sends a target's report as soon as its run has ended.
Send(t) ==
    pgSent' = IF pgJob.cron \/ pgTold'[t] = <<>> THEN pgSent
              ELSE [pgSent EXCEPT ![t] = <<pgResult'[Home(VersionOf(t))]>>]

RunTarget(t) ==
    /\ Turn(t)
    /\ \E answer \in Answers : PerformAllChecks(t, answer)
    /\ Send(t)
    /\ UNCHANGED <<pgJob, pgWatch, pgRound>>

\* The target cannot be opened: nothing of it is reported.
RunFails(t) ==
    /\ Turn(t)
    /\ UNCHANGED <<pgJob, pgWatch, pgNumbers, pgResult, pgRound, pgTold, pgSent>>

\* scheduleRunner sends what its targets' reports have become by now.
SendAll ==
    /\ pgJob.cron /\ pgAt = Len(pgJob.plan) + 1
    /\ pgAt' = pgAt + 1
    /\ pgSent' = [t \in Targets |->
                    IF pgTold[t] = <<>> THEN <<>>
                    ELSE <<pgResult[Home(VersionOf(t))]>>]
    /\ UNCHANGED <<pgJob, pgWatch, pgNumbers, pgResult, pgRound, pgTold>>

Tick ==
    /\ pgJob.cron /\ pgAt = Len(pgJob.plan) + 2 /\ pgRound < PgRounds
    /\ pgAt' = 1
    /\ pgRound' = pgRound + 1
    /\ pgTold' = Nothing
    /\ pgSent' = Nothing
    /\ UNCHANGED <<pgJob, pgWatch, pgNumbers, pgResult>>

PgNext ==
    \/ \E t \in Targets : RunTarget(t) \/ RunFails(t)
    \/ SendAll
    \/ Tick

-----------------------------------------------------------------------------
(* Properties. *)

\* A report says of a target what the run on that target found, unless a later
\* target of the same version went over the same results before a cron job
\* sent them (check.go:42-320, crons.go:318-333; "so reports don't overlap",
\* main.go:162).
SentAsTold ==
    \A t \in Targets : pgSent[t] # <<>> =>
        \/ pgSent[t][1] = pgTold[t][1].result
        \/ /\ pgJob.cron
           /\ \E u \in Targets : u > t /\ VersionOf(u) = VersionOf(t)
                                 /\ pgTold[u] # <<>>

\* A check that judges is judged anew by every run, whatever it found before
\* in the life of the process: a long-running collector reports neither a
\* violation that is gone nor a pass that no longer holds.
JudgedAnew ==
    \A t \in Targets : pgTold[t] # <<>> =>
        LET told  == pgTold[t][1]
            check == CheckOf(VersionOf(t))[pgWatch]
        IN  ~check.manual =>
                /\ told.result.status = "Pass" <=> told.answer \in check.passes
                /\ told.result.status = "Fail" => told.result.reason = t

\* Two checks of one report never share a number on 15 and 16, however often
\* the version has been run; elsewhere two pairs do: functionPrivileges has the
\* number of privilegedAccess and setUser that of dmlPrivileges
\* (check.go:466-491 changes numbers by number).
Twins(v) == IF v \in {15, 16} THEN {} ELSE {"functionPrivileges", "setUser"}
NumbersApart ==
    \A t \in Targets : pgTold[t] # <<>> /\ pgJob.asks = <<>> =>
        LET v == VersionOf(t)
            names == NamesOf(v) \ Twins(v)
        IN  Cardinality({pgNumbers[v][n] : n \in names}) = Cardinality(names)

\* A report says of each target what its own run found, judged anew, under
\* numbers that tell the checks apart (check.go:42-320, 460-491,
\* crons.go:318-333).
ReportsOwn == SentAsTold /\ JudgedAnew /\ NumbersApart
=============================================================================
