--------------------------- MODULE CronJobsProofs ---------------------------
(* That SkipIfStillRunning keeps every schedule to one running instance, for *)
(* any number of schedules, firings and scans, panics included, and that     *)
(* none of them ends unreported.                                             *)
EXTENDS CronJobs, TLAPS

\* The strengthening: while the channel of a schedule holds its value, no
\* invocation of that schedule is inside.
TokenOut ==
    \A i \in Invocations : token[Of[i]] => pc[i] \notin Inside

IInv == TypeOK /\ TokenOut /\ OneInstance

LEMMA InitInv == Init => IInv
<1> SUFFICES ASSUME Init PROVE IInv
  OBVIOUS
<1>1. left \in [Invocations -> 0 .. Scans]
  BY ScanAssumption DEF Init
<1>2. TypeOK
  BY <1>1 DEF Init, TypeOK, Places, Reports
<1>3. TokenOut /\ OneInstance
  BY DEF Init, TokenOut, OneInstance, Inside, Marked
<1> QED BY <1>2, <1>3 DEF IInv

\* An invocation that only moves on inside, or stays outside, disturbs nothing.
LEMMA Stay ==
    ASSUME IInv, NEW i \in Invocations, NEW place \in Places,
           GoTo(i, place), UNCHANGED token,
           place \in Inside => pc[i] \in Inside
    PROVE  TokenOut' /\ OneInstance'
BY OfAssumption DEF IInv, TypeOK, TokenOut, OneInstance, GoTo

LEMMA StepInv == IInv /\ [Next]_vars => IInv'
<1> SUFFICES ASSUME IInv, [Next]_vars PROVE IInv'
  OBVIOUS
<1> USE OfAssumption, ScanAssumption
<1>1. ASSUME NEW i \in Invocations, Fire(i) PROVE IInv'
  <2>1. TypeOK'
    BY <1>1 DEF IInv, TypeOK, Fire, GoTo, jobVars, shared, Places
  <2> QED BY <1>1, <2>1, Stay DEF Fire, IInv, At, Places, Inside, Marked
<1>2. ASSUME NEW i \in Invocations, Enter(i) PROVE IInv'
  <2>1. TypeOK'
    BY <1>2 DEF IInv, TypeOK, Enter, GoTo, jobVars, shared, Places, Inside
  <2>2. TokenOut'
    BY <1>2 DEF IInv, TypeOK, TokenOut, Enter, At, GoTo
  <2>3. OneInstance'
    BY <1>2 DEF IInv, TypeOK, TokenOut, OneInstance, Enter, At, GoTo
  <2> QED BY <2>1, <2>2, <2>3 DEF IInv
<1>3. ASSUME NEW i \in Invocations, Skip(i) PROVE IInv'
  <2>1. TypeOK'
    BY <1>3 DEF IInv, TypeOK, Skip, GoTo, jobVars, shared, Places
  <2> QED BY <1>3, <2>1, Stay DEF Skip, IInv, At, Places, Inside, Marked
<1>4. ASSUME NEW i \in Invocations, MarkRunning(i) PROVE IInv'
  <2>1. TypeOK'
    BY <1>4 DEF IInv, TypeOK, MarkRunning, GoTo, jobVars, Places, Inside, Marked
  <2> QED BY <1>4, <2>1, Stay DEF MarkRunning, IInv, At, Places, Inside, Marked
<1>5. ASSUME NEW i \in Invocations, Scan(i) PROVE IInv'
  <2> DEFINE new == left[i] - 1
  <2>0. left[i] \in 0 .. Scans /\ left[i] > 0
    BY <1>5 DEF IInv, TypeOK, Scan, More
  <2>a. new \in 0 .. Scans
    BY <2>0
  <2>b. left' = [left EXCEPT ![i] = new]
    BY <1>5 DEF Scan
  <2>c. left' \in [Invocations -> 0 .. Scans]
    BY <2>a, <2>b DEF IInv, TypeOK
  <2>1. TypeOK'
    BY <1>5, <2>c DEF IInv, TypeOK, Scan
  <2> QED BY <1>5, <2>1 DEF Scan, IInv, TokenOut, OneInstance
<1>6. ASSUME NEW i \in Invocations, ScansDone(i) PROVE IInv'
  <2>1. TypeOK'
    BY <1>6 DEF IInv, TypeOK, ScansDone, GoTo, jobVars, shared, Places, Inside, Marked
  <2> QED BY <1>6, <2>1, Stay DEF ScansDone, IInv, At, Places, Inside, Marked
<1>7. ASSUME NEW i \in Invocations, ScanPanics(i) PROVE IInv'
  <2>1. TypeOK'
    BY <1>7 DEF IInv, TypeOK, ScanPanics, GoTo, shared, Places, Inside, Marked
  <2> QED BY <1>7, <2>1, Stay DEF ScanPanics, IInv, At, Places, Inside, Marked
<1>8. ASSUME NEW i \in Invocations, Render(i) PROVE IInv'
  <2>1. TypeOK'
    BY <1>8 DEF IInv, TypeOK, Render, GoTo, shared, Places, Inside, Marked
  <2> QED BY <1>8, <2>1, Stay DEF Render, IInv, At, Places, Inside, Marked
<1>9. ASSUME NEW i \in Invocations, PushResults(i) \/ ResultsPanic(i) PROVE IInv'
  <2>1. TypeOK'
    BY <1>9 DEF IInv, TypeOK, PushResults, ResultsPanic, MayBlock, GoTo, jobVars, Reports,
                Places, Inside, Marked
  <2> QED
    BY <1>9, <2>1, Stay DEF PushResults, ResultsPanic, IInv, At, Places, Inside, Marked
<1>9a. ASSUME NEW i \in Invocations, Push(i) \/ PushBlocked(i) \/ PushRejected(i)
      PROVE  IInv'
  <2>1. PICK r \in Reports : Reported(i, r)
    BY <1>9a DEF Push, PushBlocked, PushRejected, Reports, Handed
  <2>2. authBlocked' \in BOOLEAN
    BY <1>9a DEF IInv, TypeOK, Push, PushBlocked, PushRejected
  <2>3. TypeOK'
    BY <2>1, <2>2 DEF IInv, TypeOK, Reported, GoTo, Places, Inside, Marked
  <2>4. At(i, "push")
    BY <1>9a DEF Push, PushBlocked, PushRejected
  <2> QED BY <2>1, <2>3, <2>4, Stay DEF Reported, IInv, At, Places, Inside, Marked
<1>10. ASSUME NEW i \in Invocations, Unmark(i) PROVE IInv'
  <2>1. TypeOK'
    BY <1>10 DEF IInv, TypeOK, Unmark, GoTo, jobVars, Places, Inside
  <2> QED BY <1>10, <2>1, Stay DEF Unmark, IInv, At, Places, Inside, Marked
<1>11. ASSUME NEW i \in Invocations, Leave(i) PROVE IInv'
  \* The one inside gives the token back: OneInstance says it was the only one.
  <2>1. TypeOK'
    BY <1>11 DEF IInv, TypeOK, Leave, GoTo, jobVars, shared, Places
  <2>2. pc[i] \in Inside
    BY <1>11 DEF Leave, At, Inside
  <2>3. pc'[i] \notin Inside /\ \A j \in Invocations \ {i} : pc'[j] = pc[j]
    BY <1>11 DEF IInv, TypeOK, Leave, GoTo, Inside, Marked
  <2>4. TokenOut'
    BY <1>11, <2>2, <2>3 DEF IInv, TypeOK, TokenOut, OneInstance, Leave
  <2>5. OneInstance'
    BY <2>3 DEF IInv, OneInstance
  <2> QED BY <2>1, <2>4, <2>5 DEF IInv
<1>12. ASSUME NEW i \in Invocations, Recovered(i) PROVE IInv'
  <2>1. TypeOK'
    BY <1>12 DEF IInv, TypeOK, Recovered, GoTo, jobVars, shared, Places
  <2> QED BY <1>12, <2>1, Stay DEF Recovered, IInv, At, Places, Inside, Marked
<1>13. CASE Unauthorized \/ StopCron \/ Exit \/ UNCHANGED vars
  BY <1>13 DEF IInv, TypeOK, TokenOut, OneInstance, Unauthorized, StopCron, Exit, jobVars,
               shared, vars
<1> QED
  BY <1>1, <1>2, <1>3, <1>4, <1>5, <1>6, <1>7, <1>8, <1>9, <1>10, <1>11,
     <1>9a, <1>12, <1>13 DEF Next, Job

\* At most one invocation of a schedule is between the receive from its
\* channel and the end of the wrapper, whatever panics (cron.go:86-100).
THEOREM OneInstanceHolds == Spec => []OneInstance
<1>1. IInv => OneInstance
  BY DEF IInv
<1> QED
  BY InitInv, StepInv, <1>1, PTL DEF Spec

\* The type invariant of the model.
THEOREM TypeCorrect == Spec => []TypeOK
<1>1. IInv => TypeOK
  BY DEF IInv
<1> QED
  BY InitInv, StepInv, <1>1, PTL DEF Spec
-----------------------------------------------------------------------------
\* An invocation that is past the deferred push, whether its scans ended or
\* panicked, has reported, or shows why it could not: the safety half of
\* EveryRunReported.
AfterPush == {"unmark", "leave", "done"}
PastPushReported == \A i \in Invocations : pc[i] \in AfterPush => Settled(i)

LEMMA InitReported == Init => PastPushReported
BY DEF Init, PastPushReported, AfterPush

\* What a settled invocation shows stays while it only moves on: the client
\* stays blocked, a panic goes on, and nothing records an error after the push.
LEMMA StaySettled ==
    ASSUME NEW i \in Invocations, Settled(i), report'[i] = report[i],
           runErr'[i] = runErr[i], panicking'[i] = panicking[i], authBlocked => authBlocked'
    PROVE  Settled(i)'
BY DEF Settled

\* Only the deferred push brings an invocation from before it to after it.
LEMMA StepReported == IInv /\ PastPushReported /\ [Next]_vars => PastPushReported'
<1> SUFFICES ASSUME IInv, PastPushReported, [Next]_vars,
                    NEW i \in Invocations, pc'[i] \in AfterPush
             PROVE  Settled(i)'
  BY DEF PastPushReported
<1> USE DEF PastPushReported, AfterPush
<1>1. ASSUME NEW j \in Invocations,
             ResultsPanic(j) \/ Push(j) \/ PushBlocked(j) \/ PushRejected(j)
      PROVE  Settled(i)'
  <2>1. authBlocked => authBlocked'
    BY <1>1 DEF IInv, TypeOK, ResultsPanic, MayBlock, Push, PushBlocked, PushRejected
  <2>2. CASE i # j
    <3>1. /\ pc'[i] = pc[i] /\ report'[i] = report[i]
          /\ runErr'[i] = runErr[i] /\ panicking'[i] = panicking[i]
      BY <1>1, <2>2 DEF IInv, TypeOK, ResultsPanic, Push, PushBlocked, PushRejected,
                        Reported, GoTo
    <3> QED BY <2>1, <3>1, StaySettled
  <2>3. CASE i = j /\ ResultsPanic(j)
    BY <2>3 DEF IInv, TypeOK, ResultsPanic, Settled
  <2>4. CASE i = j /\ Push(j)
    BY <2>4 DEF IInv, TypeOK, Push, Reported, Settled, Handed
  <2>5. CASE i = j /\ (PushBlocked(j) \/ PushRejected(j))
    BY <2>5 DEF IInv, TypeOK, PushBlocked, PushRejected, Reported, Settled
  <2> QED BY <1>1, <2>2, <2>3, <2>4, <2>5
<1>2. ASSUME NEW j \in Invocations,
             \/ Fire(j) \/ Enter(j) \/ Skip(j) \/ MarkRunning(j) \/ ScansDone(j)
             \/ PushResults(j) \/ Unmark(j) \/ Leave(j) \/ Recovered(j)
      PROVE  Settled(i)'
  <2>1. /\ report' = report /\ runErr' = runErr /\ panicking' = panicking
        /\ authBlocked => authBlocked'
    BY <1>2 DEF IInv, TypeOK, Fire, Enter, Skip, MarkRunning, ScansDone, PushResults,
                MayBlock, Unmark, Leave, Recovered, jobVars, shared
  <2>2. pc[i] \in AfterPush
    BY <1>2 DEF IInv, TypeOK, Fire, Enter, Skip, MarkRunning, ScansDone, PushResults,
                Unmark, Leave, Recovered, GoTo, At
  <2> QED BY <2>1, <2>2, StaySettled
<1>3. ASSUME NEW j \in Invocations, Scan(j) \/ ScanPanics(j) \/ Render(j)
      PROVE  Settled(i)'
  <2>1. pc[j] \notin AfterPush /\ report' = report /\ authBlocked' = authBlocked
    BY <1>3 DEF Scan, ScanPanics, Render, At, shared
  <2>2. pc[i] \in AfterPush
    BY <1>3 DEF IInv, TypeOK, Scan, ScanPanics, Render, GoTo
  <2>3. runErr'[i] = runErr[i] /\ panicking'[i] = panicking[i]
    BY <1>3, <2>1, <2>2 DEF IInv, TypeOK, Scan, ScanPanics, Render
  <2> QED BY <2>1, <2>2, <2>3, StaySettled
<1>4. CASE Unauthorized \/ StopCron \/ Exit \/ UNCHANGED vars
  <2>1. /\ UNCHANGED <<pc, report, runErr, panicking>>
        /\ authBlocked => authBlocked'
    BY <1>4 DEF Unauthorized, StopCron, Exit, jobVars, shared, vars
  <2> QED BY <2>1, StaySettled
<1> QED
  BY <1>1, <1>2, <1>3, <1>4 DEF Next, Job

\* No invocation ends, or even clears the running flag, without its run report,
\* but for the three cases Settled names: the push is deferred and runs after a
\* panic of a scan too (crons.go:318-333).
THEOREM NoneEndsUnreported == Spec => []PastPushReported
<1>1. Init => IInv /\ PastPushReported
  BY InitInv, InitReported
<1>2. (IInv /\ PastPushReported) /\ [Next]_vars => (IInv /\ PastPushReported)'
  BY StepInv, StepReported
<1> QED
  BY <1>1, <1>2, PTL DEF Spec
=============================================================================
