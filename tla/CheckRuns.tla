----------------------------- MODULE CheckRuns -----------------------------
(***************************************************************************)
(* What runs alone: each runner of a job (getCron, main) scans one kind of   *)
(* target with state of its own, and a job's runners run one after the       *)
(* other; the postgresql.conf generator, the dashboard's page, the daemon's  *)
(* jobs, a run by hand and a worker's Python helper share no state with them.   A behaviour follows one *)
(* of them; the others rest where they start.                                *)
(***************************************************************************)
EXTENDS PgSuite, LogSettings, MySqlSuite, RdsScan, HbaScan, HbaUsage, TimeFormats,
        ConfigWizard, Dashboard, Schedules, ManualRun, SpacyHelper

VARIABLE runner    \* the runner that is followed

vars == <<runner, pgVars, lmaVars, myVars, rdsVars, hbaVars, huVars, tfVars, cfVars, dbVars,
          scVars, mrVars, spVars>>

Runners == {"postgres", "settings", "mysql", "rds", "hba", "hbaUsage", "logLines",
            "generator", "dashboard", "schedules", "manual", "spacy"}

\* Where a runner rests that nobody follows: one start of it, whichever.
OneOf(S) == CHOOSE x \in S : TRUE

RestJob == OneOf(Jobs)
RestNames == OneOf(NamesOf(13))
RestSettings == OneOf(Settings)
RestCheck == OneOf(DOMAIN MySqlCheck)
RestHbaFile == OneOf(HbaFiles)
RestHuFile == OneOf(HuFiles)
RestLogKind == OneOf(LogKinds)
RestLayout == OneOf(LogLayouts)
RestConfig == OneOf(ScConfigs)
RestRequest == OneOf(MrRequests)
RestText == OneOf(SpTexts)

PgRests  == PgStart(RestJob, RestNames)
LmaRests == LmaStart(RestSettings, "")
MyRests  == MyStart(RestCheck)
RdsRests == RdsStart([i \in Instances |-> "absent"], <<>>, {})
HbaRests == HbaStart(RestHbaFile)
HuRests  == HuStart(RestHuFile, "view", RestLogKind)
TfRests  == TfStart(RestLayout)
CfRests  == CfStart({})
DbRests  == DbStart({})
ScRests  == ScStart(RestConfig)
MrRests  == MrStart(RestRequest)
SpRests  == SpStart(RestText)

Init ==
    /\ runner \in Runners
    /\ IF runner = "postgres" THEN PgInit  ELSE PgRests
    /\ IF runner = "settings" THEN LmaInit ELSE LmaRests
    /\ IF runner = "mysql"    THEN MyInit  ELSE MyRests
    /\ IF runner = "rds"      THEN RdsInit ELSE RdsRests
    /\ IF runner = "hba"      THEN HbaInit ELSE HbaRests
    /\ IF runner = "hbaUsage" THEN HuInit  ELSE HuRests
    /\ IF runner = "logLines" THEN TfInit  ELSE TfRests
    /\ IF runner = "generator" THEN CfInit ELSE CfRests
    /\ IF runner = "dashboard" THEN DbInit ELSE DbRests
    /\ IF runner = "schedules" THEN ScInit ELSE ScRests
    /\ IF runner = "manual"   THEN MrInit  ELSE MrRests
    /\ IF runner = "spacy"    THEN SpInit  ELSE SpRests

Postgres ==
    /\ runner = "postgres" /\ PgNext
    /\ UNCHANGED <<runner, lmaVars, myVars, rdsVars, hbaVars, huVars, tfVars, cfVars, dbVars, scVars, mrVars,
                   spVars>>

LogSetting ==
    /\ runner = "settings" /\ LmaNext
    /\ UNCHANGED <<runner, pgVars, myVars, rdsVars, hbaVars, huVars, tfVars, cfVars, dbVars, scVars, mrVars,
                   spVars>>

MySql ==
    /\ runner = "mysql" /\ MyNext
    /\ UNCHANGED <<runner, pgVars, lmaVars, rdsVars, hbaVars, huVars, tfVars, cfVars, dbVars, scVars, mrVars,
                   spVars>>

Rds ==
    /\ runner = "rds" /\ RdsNext
    /\ UNCHANGED <<runner, pgVars, lmaVars, myVars, hbaVars, huVars, tfVars, cfVars, dbVars, scVars, mrVars,
                   spVars>>

Hba ==
    /\ runner = "hba" /\ HbaNext
    /\ UNCHANGED <<runner, pgVars, lmaVars, myVars, rdsVars, huVars, tfVars, cfVars, dbVars, scVars, mrVars,
                   spVars>>

HbaLines ==
    /\ runner = "hbaUsage" /\ HuNext
    /\ UNCHANGED <<runner, pgVars, lmaVars, myVars, rdsVars, hbaVars, tfVars, cfVars, dbVars, scVars, mrVars,
                   spVars>>

LogLines ==
    /\ runner = "logLines" /\ TfNext
    /\ UNCHANGED <<runner, pgVars, lmaVars, myVars, rdsVars, hbaVars, huVars, cfVars, dbVars, scVars, mrVars,
                   spVars>>

Generator ==
    /\ runner = "generator" /\ CfNext
    /\ UNCHANGED <<runner, pgVars, lmaVars, myVars, rdsVars, hbaVars, huVars, tfVars, dbVars, scVars, mrVars,
                   spVars>>

CriticalChecks ==
    /\ runner = "dashboard" /\ DbNext
    /\ UNCHANGED <<runner, pgVars, lmaVars, myVars, rdsVars, hbaVars, huVars, tfVars, cfVars, scVars, mrVars,
                   spVars>>

Daemon ==
    /\ runner = "schedules" /\ ScNext
    /\ UNCHANGED <<runner, pgVars, lmaVars, myVars, rdsVars, hbaVars, huVars, tfVars, cfVars, dbVars, mrVars,
                   spVars>>

ByHand ==
    /\ runner = "manual" /\ MrNext
    /\ UNCHANGED <<runner, pgVars, lmaVars, myVars, rdsVars, hbaVars, huVars, tfVars, cfVars, dbVars, scVars,
                   spVars>>

Spacy ==
    /\ runner = "spacy" /\ SpNext
    /\ UNCHANGED <<runner, pgVars, lmaVars, myVars, rdsVars, hbaVars, huVars, tfVars, cfVars, dbVars, scVars,
                   mrVars>>

Next == Postgres \/ LogSetting \/ MySql \/ Rds \/ Hba \/ HbaLines \/ LogLines \/ Generator
        \/ CriticalChecks \/ Daemon \/ ByHand \/ Spacy

Spec == Init /\ [][Next]_vars
-----------------------------------------------------------------------------
\* A PostgreSQL job's reports and its findings about logging settings are those
\* of its own servers: ReportsOwn says that no control and no server's part is
\* taken from another run of the job, SettingsJudged that every setting is judged
\* by its own value (check.go:42, lma.go:1654).
PgReportSound == ReportsOwn /\ SettingsJudged

\* A scan takes the collector, a daemon, with it for the causes named alone: a
\* MySQL command that ended well and yet said something, aws failing or an
\* instance it had listed going away, a line of pg_hba.conf without a rule;
\* never for a violation or an answer of a server (oslevelconfig.go:139,
\* 2.3.1.go:132, hbascanner.go:204).
BroughtDown == MyBroughtDown /\ DiesForCause /\ HbaBroughtDown
=============================================================================
