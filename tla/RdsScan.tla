------------------------------ MODULE RdsScan ------------------------------
(***************************************************************************)
(* Scans of the RDS instances of a region (rdsRunner.run): every tick lists *)
(* the instances, unless an earlier tick has, and runs the controls side by *)
(* side in a pool of goroutines.  A control asks the aws command line, for  *)
(* the region or for one instance after the other, each in a goroutine of   *)
(* its own, and appends its result to the report under a mutex.  No pool    *)
(* goroutine recovers: a panic in one ends the process.                     *)
(*                                                                          *)
(* Some of the eight controls are followed.  An instance is as every        *)
(* control on instances asks for ("good") or as none does ("bad"); it may   *)
(* be created, changed and deleted at any time.                             *)
(***************************************************************************)
EXTENDS Integers, Sequences, FiniteSets, SequencesExt

CONSTANTS
    Instances,      \* names of instances
    RdsJobs,        \* sets of controls to follow, with what
                    \* describe-event-subscriptions lists
    RdsTicks,       \* bound: ticks
    RdsChanges      \* bound: changes of instances

PerInstance == {"2.3.1", "2.3.2", "2.3.3"}
PerRegion   == {"3.5.0", "3.8.0"}
OfEvents    == {"4.2.0", "4.3.0", "4.4.0"}
Controls    == PerInstance \cup PerRegion \cup OfEvents

\* Execute430 and Execute440 name their result when they have the instances,
\* the others before they ask for anything (2.3.1.go:67, 4.2.0.go:150).
NamedLate == {"4.3.0", "4.4.0"}
Nameless  == "nameless"     \* a result whose Control and Title are empty

\* What aws lists of a subscription: of the names there is a list or none.
Subscriptions ==
    [type : STRING, ids : {<<>>} \cup {<<S>> : S \in SUBSET Instances},
     events : {"any", "all", "some"}, topic : STRING]

ASSUME RdsAssumption ==
    /\ IsFiniteSet(Instances)
    /\ \A job \in RdsJobs :
         job.controls \subseteq Controls /\ job.events \in Seq(Subscriptions)
    /\ RdsTicks \in Nat \ {0} /\ RdsChanges \in Nat

VARIABLES
    rdsReal,     \* the instances as they are now
    rdsMap,      \* dbMap: the instances the process knows
    rdsEvents,   \* the event subscriptions
    rdsTick,     \* ticks begun
    rdsAt,       \* "idle", "scan", or "dead": the process is gone
    rdsWork,     \* the controls of this tick and how far they are
    rdsLock,     \* who holds the mutex of the report
    rdsReport,   \* listOfResult
    rdsChanged,  \* changes of instances so far
    rdsBad,      \* history: the instances that were bad all through this tick
    rdsTrouble   \* history: whether aws ever failed of its own, or the listing
                 \* came out empty

rdsVars == <<rdsReal, rdsMap, rdsEvents, rdsTick, rdsAt, rdsWork, rdsLock,
             rdsReport, rdsChanged, rdsBad, rdsTrouble>>

Free    == "free"
Present == {i \in Instances : rdsReal[i] # "absent"}
BadNow  == {i \in Instances : rdsReal[i] = "bad"}
Ongoing == DOMAIN rdsWork

-----------------------------------------------------------------------------
(* RdsCommand.Run: a warning on the error output makes the status Fail and   *)
(* leaves the output; a complaint leaves no output; a command that says      *)
(* nothing at all panics, on the nil error that nobody assigns.              *)

AwsAnswers == {"ok", "warned", "complained", "silent"}

\* An instance that is not there is complained about.
AwsOn(i) == IF i \in Present THEN AwsAnswers ELSE {"complained", "silent"}

Troubled(a, there) == rdsTrouble' = (rdsTrouble \/ (there /\ a # "ok"))

-----------------------------------------------------------------------------
(* The event subscriptions.  One has a type ("" is every type), a list of    *)
(* names or NoList, the event categories it is for, and a topic.             *)

NoList == <<>>

\* Without a list of categories a subscription is for "any"; with one it is for
\* "all" of them by name, or for "some".
AnyEvent(sub) == sub.events = "any"

\* CheckForAllSourceTypesAllEventCategories...
ForAll(sub, type) ==
    sub.type \in {"", type} /\ sub.ids = NoList /\ AnyEvent(sub)

\* Execute420: every subscription's topic has confirmed subscribers.
TopicsVerdict(subs) ==
    IF subs # <<>> /\ \A k \in DOMAIN subs : subs[k].topic = "confirmed"
    THEN "Pass" ELSE "Fail"

\* Execute430: names are counted, not compared.
InstanceEventsVerdict(subs, known) ==
    IF \E k \in DOMAIN subs : ForAll(subs[k], "db-instance") THEN "Pass"
    ELSE IF Len(subs) # 1 THEN (IF subs = <<>> THEN "Fail" ELSE "Manual")
    ELSE IF /\ subs[1].type = "db-instance"
            /\ subs[1].ids = NoList \/ Cardinality(subs[1].ids[1]) = Cardinality(known)
            /\ subs[1].events # "some"
    THEN "Pass" ELSE "Fail"

\* Execute440.
GroupEventsVerdict(subs) ==
    IF \E k \in DOMAIN subs : ForAll(subs[k], "db-security-group") THEN "Pass"
    ELSE IF Len(subs) > 1 THEN "Manual" ELSE "Fail"

EventsVerdict(c) ==
    CASE c = "4.2.0" -> TopicsVerdict(rdsEvents)
      [] c = "4.3.0" -> InstanceEventsVerdict(rdsEvents, rdsMap)
      [] c = "4.4.0" -> GroupEventsVerdict(rdsEvents)

-----------------------------------------------------------------------------
(* A tick.                                                                   *)

Idle(c) ==
    [at |-> IF c \in PerInstance \cup {"4.3.0", "4.4.0"} THEN "look" ELSE "ask",
     left |-> {}, name |-> c, status |-> "Pass", seen |-> <<>>]

RdsStart(real, events, followed) ==
    /\ rdsReal = real
    /\ rdsMap = {}
    /\ rdsEvents = events
    /\ rdsTick = 0 /\ rdsAt = "idle"
    /\ rdsWork = [c \in followed |-> Idle(c)]
    /\ rdsLock = Free /\ rdsReport = <<>>
    /\ rdsChanged = 0 /\ rdsBad = {} /\ rdsTrouble = FALSE

RdsInit ==
    \E real \in [Instances -> {"absent", "good", "bad"}], job \in RdsJobs :
        RdsStart(real, job.events, job.controls)

StartScan ==
    /\ rdsAt' = "scan"
    /\ rdsWork' = [c \in Ongoing |-> Idle(c)]
    /\ rdsReport' = <<>>

\* Validate: log.Fatalln when there is no listing yet and none to be had; a
\* panic here is the schedule's own goroutine's and costs the tick only.
Validate ==
    /\ rdsAt = "idle" /\ rdsTick < RdsTicks
    /\ rdsTick' = rdsTick + 1
    /\ rdsBad' = BadNow
    /\ IF rdsMap # {} THEN StartScan /\ UNCHANGED <<rdsMap, rdsTrouble>>
       ELSE \E a \in AwsAnswers :
            /\ rdsTrouble' = (rdsTrouble \/ a # "ok" \/ Present = {})
            /\ CASE a \in {"ok", "warned"} -> rdsMap' = Present /\ StartScan
                 [] a = "complained" -> rdsAt' = "dead"
                                        /\ UNCHANGED <<rdsMap, rdsWork, rdsReport>>
                 [] a = "silent"     -> rdsReport' = <<>>
                                        /\ UNCHANGED <<rdsMap, rdsWork, rdsAt>>
    /\ UNCHANGED <<rdsReal, rdsEvents, rdsLock, rdsChanged>>

Scanning(c, at) == rdsAt = "scan" /\ c \in Ongoing /\ rdsWork[c].at = at

Goes(c, work) == rdsWork' = [rdsWork EXCEPT ![c] = work]
Ends(c, status) ==
    Goes(c, [rdsWork[c] EXCEPT !.at = "report", !.left = {}, !.status = status])

Panics == rdsAt' = "dead" /\ UNCHANGED rdsWork

\* Without the instances a control fails, and one that is named late has no name.
NameUnlisted(c) == IF c \in NamedLate THEN Nameless ELSE c
EndsUnlisted(c) ==
    Goes(c, [rdsWork[c] EXCEPT !.at = "report", !.left = {}, !.name = NameUnlisted(c),
                               !.status = "Fail"])

\* What a control does once it has the map: a job for every instance in it.
Proceeds(c, map) ==
    Goes(c, [rdsWork[c] EXCEPT !.at = "ask", !.left = map, !.seen = <<>>])

Cached == rdsMap # {}

\* GetDBMap: without a lock.
Look(c) ==
    /\ Scanning(c, "look")
    /\ IF Cached
       THEN Proceeds(c, rdsMap) /\ UNCHANGED <<rdsAt, rdsTrouble>>
       ELSE \E a \in AwsAnswers :
            /\ Troubled(a, TRUE)
            /\ CASE a \in {"ok", "warned"} ->
                      Goes(c, [rdsWork[c] EXCEPT !.at = "store", !.seen = <<Present>>])
                      /\ UNCHANGED rdsAt
                 [] a = "complained" -> EndsUnlisted(c) /\ UNCHANGED rdsAt
                 [] a = "silent" -> Panics
    /\ UNCHANGED <<rdsReal, rdsMap, rdsEvents, rdsTick, rdsLock, rdsReport,
                   rdsChanged, rdsBad>>

Store(c) ==
    /\ Scanning(c, "store")
    /\ rdsMap' = rdsMap \cup rdsWork[c].seen[1]
    /\ Proceeds(c, rdsMap')
    /\ UNCHANGED <<rdsReal, rdsEvents, rdsTick, rdsAt, rdsLock, rdsReport,
                   rdsChanged, rdsBad, rdsTrouble>>

\* Two goroutines at the map, one of them writing: the runtime may notice.
StoreRaces(c) ==
    /\ Scanning(c, "store") /\ rdsWork[c].seen[1] # {}
    /\ \E d \in Ongoing \ {c} : Scanning(d, "store") \/ (d = "4.3.0" /\ Scanning(d, "ask"))
    /\ Panics
    /\ UNCHANGED <<rdsReal, rdsMap, rdsEvents, rdsTick, rdsLock, rdsReport,
                   rdsChanged, rdsBad, rdsTrouble>>

-----------------------------------------------------------------------------
(* The controls. *)

\* Without output the array is empty, and its first element is read all the same.
EncryptionStatusOfDB(a, i) ==
    CASE a \in {"silent", "complained"} -> "panic"
      [] a = "ok" /\ rdsReal[i] = "good" -> "Pass"
      [] OTHER -> "Fail"

\* The same.
AutoMinorVersionOfDB(a, i) == EncryptionStatusOfDB(a, i)

\* Here every error returns.  A warning does not keep the instance from passing.
PublicAccessStatusOfDB(a, i) ==
    CASE a = "silent" -> "panic"
      [] a \in {"ok", "warned"} /\ rdsReal[i] = "good" -> "Pass"
      [] OTHER -> "Fail"

StatusOfDB(c, a, i) ==
    CASE c = "2.3.1" -> EncryptionStatusOfDB(a, i)
      [] c = "2.3.2" -> AutoMinorVersionOfDB(a, i)
      [] c = "2.3.3" -> PublicAccessStatusOfDB(a, i)

\* ExecutePerDB, the job for one instance.
AskInstance(c, i) ==
    /\ Scanning(c, "ask") /\ c \in PerInstance /\ i \in rdsWork[c].left
    /\ \E a \in AwsOn(i) :
         /\ Troubled(a, i \in Present \/ a = "silent")
         /\ IF StatusOfDB(c, a, i) = "panic" THEN Panics
            ELSE /\ Goes(c, [rdsWork[c] EXCEPT
                        !.left = @ \ {i},
                        !.status = IF StatusOfDB(c, a, i) = "Pass" THEN @ ELSE "Fail"])
                 /\ UNCHANGED rdsAt
    /\ UNCHANGED <<rdsReal, rdsMap, rdsEvents, rdsTick, rdsLock, rdsReport,
                   rdsChanged, rdsBad>>

AllAskedUnwaited(c) == c \in PerInstance     \* mutant: nobody waits for the jobs
AllAsked(c) == rdsWork[c].left = {}

\* Execute231, Execute232 and Execute233, after WaitGroup.Wait.
JudgeInstances(c) ==
    /\ Scanning(c, "ask") /\ c \in PerInstance /\ AllAsked(c)
    /\ Ends(c, rdsWork[c].status)
    /\ UNCHANGED <<rdsReal, rdsMap, rdsEvents, rdsTick, rdsAt, rdsLock, rdsReport,
                   rdsChanged, rdsBad, rdsTrouble>>

\* Execute350 and Execute380 list the instances anew; here a warning fails.
MultiAZVerdict(a)          == IF a = "ok" /\ BadNow = {} THEN "Pass" ELSE "Fail"
BackupRetentionVerdict(a)  == MultiAZVerdict(a)
RegionVerdict(c, a) ==
    CASE c = "3.5.0" -> MultiAZVerdict(a) [] c = "3.8.0" -> BackupRetentionVerdict(a)

AskRegion(c) ==
    /\ Scanning(c, "ask") /\ c \in PerRegion
    /\ \E a \in AwsAnswers :
         /\ Troubled(a, TRUE)
         /\ IF a = "silent" THEN Panics
            ELSE Ends(c, RegionVerdict(c, a)) /\ UNCHANGED rdsAt
    /\ UNCHANGED <<rdsReal, rdsMap, rdsEvents, rdsTick, rdsLock, rdsReport,
                   rdsChanged, rdsBad>>

\* Execute420, Execute430 and Execute440: the status of the command is dropped.
\* left keeps the map that the verdict was made with.
AskEvents(c) ==
    /\ Scanning(c, "ask") /\ c \in OfEvents
    /\ \E a \in AwsAnswers :
         /\ Troubled(a, TRUE)
         /\ IF a = "silent" THEN Panics
            ELSE /\ Goes(c, [rdsWork[c] EXCEPT !.at = "report", !.left = rdsMap,
                       !.status = IF a = "complained" THEN "Fail" ELSE EventsVerdict(c)])
                 /\ UNCHANGED rdsAt
    /\ UNCHANGED <<rdsReal, rdsMap, rdsEvents, rdsTick, rdsLock, rdsReport,
                   rdsChanged, rdsBad>>

MayLock == rdsLock = Free

\* The append of PerformAllChecks: the list is read and written under the lock.
LockReport(c) ==
    /\ Scanning(c, "report") /\ MayLock
    /\ rdsLock' = c
    /\ Goes(c, [rdsWork[c] EXCEPT !.at = "append", !.seen = rdsReport])
    /\ UNCHANGED <<rdsReal, rdsMap, rdsEvents, rdsTick, rdsAt, rdsReport,
                   rdsChanged, rdsBad, rdsTrouble>>

AppendResult(c) ==
    /\ Scanning(c, "append")
    /\ rdsReport' = Append(rdsWork[c].seen,
                         [control |-> rdsWork[c].name, status |-> rdsWork[c].status])
    /\ rdsLock' = Free
    /\ Goes(c, [rdsWork[c] EXCEPT !.at = "ended", !.seen = <<>>])
    /\ UNCHANGED <<rdsReal, rdsMap, rdsEvents, rdsTick, rdsAt, rdsChanged, rdsBad,
                   rdsTrouble>>

ScanEnds ==
    /\ rdsAt = "scan" /\ \A c \in Ongoing : rdsWork[c].at = "ended"
    /\ rdsAt' = "idle"
    /\ UNCHANGED <<rdsReal, rdsMap, rdsEvents, rdsTick, rdsWork, rdsLock, rdsReport,
                   rdsChanged, rdsBad, rdsTrouble>>

\* Somebody works on the region's instances.
ChangeInstance(i) ==
    /\ rdsAt # "dead" /\ rdsChanged < RdsChanges
    /\ rdsChanged' = rdsChanged + 1
    /\ \E r \in {"absent", "good", "bad"} \ {rdsReal[i]} :
         rdsReal' = [rdsReal EXCEPT ![i] = r]
    /\ rdsBad' = rdsBad \ {i}
    /\ UNCHANGED <<rdsMap, rdsEvents, rdsTick, rdsAt, rdsWork, rdsLock, rdsReport,
                   rdsTrouble>>

RdsNext ==
    \/ Validate \/ ScanEnds
    \/ \E c \in Ongoing :
         \/ Look(c) \/ Store(c) \/ StoreRaces(c)
         \/ \E i \in Instances : AskInstance(c, i)
         \/ JudgeInstances(c) \/ AskRegion(c) \/ AskEvents(c)
         \/ LockReport(c) \/ AppendResult(c)
    \/ \E i \in Instances : ChangeInstance(i)

-----------------------------------------------------------------------------
(* Properties. *)

Reported(c) == {rdsReport[k].status : k \in {k \in DOMAIN rdsReport : rdsReport[k].control = c}}
Complete == rdsAt = "scan" /\ \A c \in Ongoing : rdsWork[c].at = "ended"

\* The report of a scan that ends has one result of every control, although
\* they append side by side (check.go:54-57).  Two results may come without a
\* name, as failures, and only when aws has failed: those of 4.3.0 and 4.4.0,
\* which return before they have named themselves (4.3.0.go:134, 4.4.0.go:63).
WholeReport ==
    Complete =>
        /\ Len(rdsReport) = Cardinality(Ongoing)
        /\ \A k, l \in DOMAIN rdsReport :
             rdsReport[k].control = rdsReport[l].control =>
                 k = l \/ rdsReport[k].control = Nameless
        /\ \A c \in Ongoing :
             \/ Reported(c) # {}
             \/ c \in NamedLate /\ rdsTrouble /\ Reported(Nameless) = {"Fail"}

\* An instance that is bad from the start of a tick to the end of it is found:
\* always by the controls that list the region, by those that ask instance by
\* instance only if it was there when the process first listed them
\* (4.2.0.go:101: the listing is never made again).
ViolationReported ==
    Complete => \A c \in Ongoing :
        Reported(c) = {"Pass"} =>
            /\ c \in PerRegion   => rdsBad = {}
            /\ c \in PerInstance => rdsBad \cap rdsMap = {}

\* What a subscription has to be for an instance to be covered.
Covers(sub, i) ==
    /\ sub.type \in {"", "db-instance"}
    /\ sub.ids = NoList \/ i \in sub.ids[1]
    /\ sub.events # "some"

\* 4.3.0 compares how many instances are subscribed and how many are known.  A
\* pass means that every known instance is covered, unless a subscription
\* names one that is not known (4.3.0.go:235).
PassCovers ==
    \A c \in Ongoing \cap {"4.3.0"} :
        Scanning(c, "report") /\ rdsWork[c].status = "Pass" =>
            LET known == rdsWork[c].left
            IN  \/ \A i \in known : \E k \in DOMAIN rdsEvents : Covers(rdsEvents[k], i)
                \/ \E k \in DOMAIN rdsEvents : rdsEvents[k].ids # NoList
                                                /\ ~(rdsEvents[k].ids[1] \subseteq known)

\* What ends the process: aws failing, an instance it has listed going away,
\* or goroutines that list an empty region at once; neither a violation nor a
\* change of an instance does (2.3.1.go:132, 2.3.2.go:72, 4.2.0.go:122).
DiesForCause ==
    rdsAt = "dead" => rdsTrouble \/ ~(rdsMap \subseteq Present)

\* The report of a tick is whole, two names apart, a violation that lasts is in
\* it, and events are not said to be covered when they are not (check.go:54-57,
\* 4.2.0.go:101, 4.3.0.go:235).
RdsReportSound == WholeReport /\ ViolationReported /\ PassCovers
=============================================================================
