-------------------------- MODULE CheckRunsProofs --------------------------
(***************************************************************************)
(* Of what runs alone: for each runner an invariant of its own steps, which  *)
(* holds as long as that runner is the one that is followed; one that nobody *)
(* follows rests where it starts.                                            *)
(***************************************************************************)
EXTENDS CheckRuns, SchedulesProofs, FiniteSetTheorems, SequenceTheorems, WellFoundedInduction,
        TLAPS

-----------------------------------------------------------------------------
(* Who moves.                                                                *)

LEMMA Starts0 ==
  Init =>
    /\ runner \in Runners
    /\ IF runner = "logLines" THEN TfInit ELSE TfRests
    /\ IF runner = "spacy" THEN SpInit ELSE SpRests
    /\ IF runner = "hba" THEN HbaInit ELSE HbaRests
    /\ IF runner = "hbaUsage" THEN HuInit ELSE HuRests
    /\ IF runner = "rds" THEN RdsInit ELSE RdsRests
    /\ IF runner = "mysql" THEN MyInit ELSE MyRests
    /\ IF runner = "postgres" THEN PgInit ELSE PgRests
    /\ IF runner = "settings" THEN LmaInit ELSE LmaRests
    /\ IF runner = "manual" THEN MrInit ELSE MrRests
    /\ IF runner = "generator" THEN CfInit ELSE CfRests
    /\ IF runner = "dashboard" THEN DbInit ELSE DbRests
    /\ IF runner = "schedules" THEN ScInit ELSE ScRests
  BY SMTT(40) DEF Init

LEMMA Moves ==
  ASSUME [Next]_vars
  PROVE  /\ UNCHANGED runner
         /\ IF runner = "logLines" THEN [TfNext]_tfVars ELSE UNCHANGED tfVars
         /\ IF runner = "spacy" THEN [SpNext]_spVars ELSE UNCHANGED spVars
         /\ IF runner = "hba" THEN [HbaNext]_hbaVars ELSE UNCHANGED hbaVars
         /\ IF runner = "hbaUsage" THEN [HuNext]_huVars ELSE UNCHANGED huVars
         /\ IF runner = "rds" THEN [RdsNext]_rdsVars ELSE UNCHANGED rdsVars
         /\ IF runner = "mysql" THEN [MyNext]_myVars ELSE UNCHANGED myVars
         /\ IF runner = "postgres" THEN [PgNext]_pgVars ELSE UNCHANGED pgVars
         /\ IF runner = "settings" THEN [LmaNext]_lmaVars ELSE UNCHANGED lmaVars
         /\ IF runner = "manual" THEN [MrNext]_mrVars ELSE UNCHANGED mrVars
         /\ IF runner = "generator" THEN [CfNext]_cfVars ELSE UNCHANGED cfVars
         /\ IF runner = "dashboard" THEN [DbNext]_dbVars ELSE UNCHANGED dbVars
         /\ IF runner = "schedules" THEN [ScNext]_scVars ELSE UNCHANGED scVars
  <1>1. CASE UNCHANGED vars
    BY <1>1 DEF vars
  <1>2. CASE Postgres
    BY <1>2 DEF Postgres
  <1>3. CASE LogSetting
    BY <1>3 DEF LogSetting
  <1>4. CASE MySql
    BY <1>4 DEF MySql
  <1>5. CASE Rds
    BY <1>5 DEF Rds
  <1>6. CASE Hba
    BY <1>6 DEF Hba
  <1>7. CASE HbaLines
    BY <1>7 DEF HbaLines
  <1>8. CASE LogLines
    BY <1>8 DEF LogLines
  <1>9. CASE Generator
    BY <1>9 DEF Generator
  <1>10. CASE CriticalChecks
    BY <1>10 DEF CriticalChecks
  <1>11. CASE Daemon
    BY <1>11 DEF Daemon
  <1>12. CASE ByHand
    BY <1>12 DEF ByHand
  <1>13. CASE Spacy
    BY <1>13 DEF Spacy
  <1> QED
    BY <1>1, <1>2, <1>3, <1>4, <1>5, <1>6, <1>7, <1>8, <1>9, <1>10, <1>11, <1>12, <1>13
       DEF Next
-----------------------------------------------------------------------------
(* TimeFormats.                                                              *)

Layouts == {Offset, Zone}

TfTypes ==
    /\ \A f \in Readers : tfFiles[f] \in Layouts
    /\ tfAt \in [Readers -> {"line", "swap", "first", "second", "again"}]
    /\ DOMAIN tfHolds = Readers
    /\ tfLine \in [Readers -> Nat]
    /\ tfRejected \in [Readers -> Nat]

\* How far a swap is that no other overlaps.
SwapDone(f) ==
    /\ tfAt[f] = "swap" => {tfFormat, tfAlt} = Layouts /\ tfFormat # tfFiles[f]
    /\ tfAt[f] = "first" =>
          /\ {tfFormat, tfAlt} = Layouts /\ tfFormat # tfFiles[f]
          /\ tfHolds[f] = <<tfAlt, tfFormat>>
    /\ tfAt[f] = "second" =>
          /\ tfFormat = tfFiles[f]
          /\ {tfFormat, tfHolds[f][2]} = Layouts
    /\ tfAt[f] = "again" => {tfFormat, tfAlt} = Layouts /\ tfFormat = tfFiles[f]

OneSwap ==
    tfCrossed = {} =>
        /\ \A f \in Readers : tfRejected[f] = 0 /\ SwapDone(f)
        /\ \A f, g \in Readers : Swapping(f) /\ Swapping(g) => f = g
        /\ (\A f \in Readers : ~Swapping(f)) => {tfFormat, tfAlt} = Layouts

TfInv == TfTypes /\ OneSwap

LEMMA TfInvInit == TfInit => TfInv
  <1> SUFFICES ASSUME NEW files \in LogLayouts, TfStart(files) PROVE TfInv
    BY DEF TfInit
  <1>1. TfTypes
    BY LayoutAssumption DEF TfStart, TfTypes, Readers, Layouts, Offset, Zone
  <1>2. OneSwap
    BY DEF TfStart, OneSwap, SwapDone, Swapping, Readers, Layouts
  <1> QED
    BY <1>1, <1>2 DEF TfInv

LEMMA TfInvNext == TfInv /\ [TfNext]_tfVars => TfInv'
  <1> SUFFICES ASSUME TfInv, [TfNext]_tfVars PROVE TfInv'
    OBVIOUS
  <1>1. TfTypes /\ OneSwap
    BY DEF TfInv
  <1>2. CASE UNCHANGED tfVars
    BY <1>1, <1>2 DEF tfVars, TfInv, TfTypes, OneSwap, SwapDone, Swapping, Readers
  <1>3. ASSUME NEW f \in Readers, TryFormat(f) PROVE TfInv'
    <2>1. PICK layout \in Seen(f, tfFormat, "first") :
            IF Fits(f, layout) THEN LineDone(f) /\ UNCHANGED tfCrossed
            ELSE /\ TfGoes(f, "swap")
                 /\ tfCrossed' = tfCrossed \cup {g \in Readers \ {f} : Swapping(g)}
                      \cup (IF \E g \in Readers \ {f} : Swapping(g) THEN {f} ELSE {})
                 /\ UNCHANGED tfLine
      BY <1>3 DEF TryFormat
    <2>2. UNCHANGED <<tfFiles, tfFormat, tfAlt, tfHolds, tfRejected, Readers>> /\ tfAt[f] = "line"
      BY <1>3 DEF TryFormat, Readers
    <2>3. CASE Fits(f, layout)
      <3>1. tfAt' = tfAt /\ tfLine' \in [Readers -> Nat] /\ UNCHANGED tfCrossed
        <4>1. tfAt' = [tfAt EXCEPT ![f] = "line"] /\ tfLine' = [tfLine EXCEPT ![f] = @ + 1]
          BY <2>1, <2>3 DEF LineDone, TfGoes
        <4>2. tfAt' = tfAt
          BY <1>1, <2>2, <4>1 DEF TfTypes
        <4>3. tfLine' \in [Readers -> Nat]
          BY <1>1, <4>1 DEF TfTypes
        <4> QED
          BY <2>1, <2>3, <4>2, <4>3
      <3> QED
        BY <1>1, <2>2, <3>1 DEF TfInv, TfTypes, OneSwap, SwapDone, Swapping, Readers
    <2>4. CASE ~Fits(f, layout)
      <3>1. tfAt' = [tfAt EXCEPT ![f] = "swap"] /\ UNCHANGED tfLine
        BY <2>1, <2>4 DEF TfGoes
      <3>2. TfTypes'
        BY <1>1, <2>2, <3>1 DEF TfTypes
      <3>3. tfCrossed' = {} => tfCrossed = {} /\ \A g \in Readers \ {f} : ~Swapping(g)
        BY <2>1, <2>4
      <3>4. OneSwap'
        <4> SUFFICES ASSUME tfCrossed' = {} PROVE OneSwap'
          BY DEF OneSwap
        <4>1. tfCrossed = {} /\ \A g \in Readers : ~Swapping(g)
          BY <2>2, <3>3 DEF Swapping
        <4>2. layout = tfFormat /\ tfFormat # tfFiles[f]
          BY <2>4, <4>1 DEF Seen, Fits, Swapping
        <4>3. {tfFormat, tfAlt} = Layouts
          BY <1>1, <4>1 DEF OneSwap
        <4>4. \A g \in Readers : g # f => tfAt'[g] = tfAt[g]
          BY <1>1, <3>1 DEF TfTypes
        <4>5. tfAt'[f] = "swap"
          BY <1>1, <3>1 DEF TfTypes
        <4> QED
          BY <1>1, <2>2, <4>1, <4>2, <4>3, <4>4, <4>5 DEF OneSwap, SwapDone, Swapping
      <3> QED
        BY <3>2, <3>4 DEF TfInv
    <2> QED
      BY <2>3, <2>4
  <1>4. ASSUME NEW f \in Readers, ReadBoth(f) PROVE TfInv'
    <2>1. PICK alt \in Seen(f, tfAlt, "second"), format \in Seen(f, tfFormat, "first") :
            tfHolds' = [tfHolds EXCEPT ![f] = <<alt, format>>]
      BY <1>4 DEF ReadBoth
    <2>2. /\ UNCHANGED <<tfFiles, tfFormat, tfAlt, tfLine, tfRejected, tfCrossed, Readers>>
          /\ tfAt[f] = "swap" /\ tfAt' = [tfAt EXCEPT ![f] = "first"]
      BY <1>4 DEF ReadBoth, Readers, TfGoes
    <2>3. TfTypes'
      BY <1>1, <2>1, <2>2 DEF TfTypes
    <2>4. OneSwap'
      <3> SUFFICES ASSUME tfCrossed = {} PROVE OneSwap'
        BY <2>2 DEF OneSwap
      <3>1. \A g \in Readers \ {f} : ~Swapping(g) /\ tfAt'[g] = tfAt[g]
        BY <1>1, <2>2 DEF OneSwap, Swapping, TfTypes
      <3>2. alt = tfAlt /\ format = tfFormat
        BY <2>1, <3>1 DEF Seen, Swapping
      <3>3. tfAt'[f] = "first" /\ tfHolds'[f] = <<tfAlt, tfFormat>>
        BY <1>1, <2>1, <2>2, <3>2 DEF TfTypes
      <3> QED
        BY <1>1, <2>2, <3>1, <3>3 DEF OneSwap, SwapDone, Swapping
    <2> QED
      BY <2>3, <2>4 DEF TfInv
  <1>5. ASSUME NEW f \in Readers, WriteFormat(f) PROVE TfInv'
    <2>1. /\ UNCHANGED <<tfFiles, tfAlt, tfHolds, tfLine, tfRejected, tfCrossed, Readers>>
          /\ tfAt[f] = "first" /\ tfAt' = [tfAt EXCEPT ![f] = "second"]
          /\ tfFormat' = tfHolds[f][1]
      BY <1>5 DEF WriteFormat, Readers, TfGoes
    <2>2. TfTypes'
      BY <1>1, <2>1 DEF TfTypes
    <2>3. OneSwap'
      <3> SUFFICES ASSUME tfCrossed = {} PROVE OneSwap'
        BY <2>1 DEF OneSwap
      <3>1. \A g \in Readers \ {f} : ~Swapping(g) /\ tfAt'[g] = tfAt[g]
        BY <1>1, <2>1 DEF OneSwap, Swapping, TfTypes
      <3>2. /\ {tfFormat, tfAlt} = Layouts /\ tfFormat # tfFiles[f]
            /\ tfHolds[f] = <<tfAlt, tfFormat>> /\ tfFiles[f] \in Layouts
        BY <1>1, <2>1 DEF OneSwap, SwapDone, TfTypes
      <3>3. tfAt'[f] = "second" /\ tfFormat' = tfAlt /\ tfAlt = tfFiles[f]
            /\ {tfFormat', tfHolds[f][2]} = Layouts
        BY <1>1, <2>1, <3>2 DEF TfTypes
      <3> QED
        BY <1>1, <2>1, <3>1, <3>3 DEF OneSwap, SwapDone, Swapping
    <2> QED
      BY <2>2, <2>3 DEF TfInv
  <1>6. ASSUME NEW f \in Readers, WriteAlt(f) PROVE TfInv'
    <2>1. /\ UNCHANGED <<tfFiles, tfFormat, tfLine, tfRejected, tfCrossed, Readers>>
          /\ tfAt[f] = "second" /\ tfAt' = [tfAt EXCEPT ![f] = "again"]
          /\ tfAlt' = tfHolds[f][2] /\ tfHolds' = [tfHolds EXCEPT ![f] = <<>>]
      BY <1>6 DEF WriteAlt, Readers, TfGoes, SwapsBack
    <2>2. TfTypes'
      BY <1>1, <2>1 DEF TfTypes
    <2>3. OneSwap'
      <3> SUFFICES ASSUME tfCrossed = {} PROVE OneSwap'
        BY <2>1 DEF OneSwap
      <3>1. \A g \in Readers \ {f} : ~Swapping(g) /\ tfAt'[g] = tfAt[g]
        BY <1>1, <2>1 DEF OneSwap, Swapping, TfTypes
      <3>2. tfAt'[f] = "again" /\ tfFormat = tfFiles[f] /\ {tfFormat, tfAlt'} = Layouts
        BY <1>1, <2>1 DEF OneSwap, SwapDone, TfTypes
      <3> QED
        BY <1>1, <2>1, <3>1, <3>2 DEF OneSwap, SwapDone, Swapping
    <2> QED
      BY <2>2, <2>3 DEF TfInv
  <1>7. ASSUME NEW f \in Readers, TryAgain(f) PROVE TfInv'
    <2>1. PICK layout \in Seen(f, tfFormat, "first") :
            tfRejected' = [tfRejected EXCEPT ![f] = IF Fits(f, layout) THEN @ ELSE @ + 1]
      BY <1>7 DEF TryAgain
    <2>2. /\ UNCHANGED <<tfFiles, tfFormat, tfAlt, tfHolds, tfCrossed, Readers>>
          /\ tfAt[f] = "again" /\ tfAt' = [tfAt EXCEPT ![f] = "line"]
          /\ tfLine' = [tfLine EXCEPT ![f] = @ + 1]
      BY <1>7 DEF TryAgain, Readers, LineDone, TfGoes
    <2>3. TfTypes'
      BY <1>1, <2>1, <2>2 DEF TfTypes
    <2>4. OneSwap'
      <3> SUFFICES ASSUME tfCrossed = {} PROVE OneSwap'
        BY <2>2 DEF OneSwap
      <3>1. \A g \in Readers \ {f} : ~Swapping(g) /\ tfAt'[g] = tfAt[g]
        BY <1>1, <2>2 DEF OneSwap, Swapping, TfTypes
      <3>2. {tfFormat, tfAlt} = Layouts /\ tfFormat = tfFiles[f]
        BY <1>1, <2>2 DEF OneSwap, SwapDone
      <3>3. layout = tfFormat
        BY <2>1, <3>1 DEF Seen, Swapping
      <3>4. tfAt'[f] = "line" /\ \A g \in Readers : tfRejected'[g] = 0
        BY <1>1, <2>1, <2>2, <3>2, <3>3 DEF OneSwap, Fits, TfTypes
      <3> QED
        BY <1>1, <2>2, <3>1, <3>2, <3>4 DEF OneSwap, SwapDone, Swapping
    <2> QED
      BY <2>3, <2>4 DEF TfInv
  <1> QED
    BY <1>2, <1>3, <1>4, <1>5, <1>6, <1>7 DEF TfNext

\* A line is lost only where two swaps of the layouts of the one parser have
\* overlapped (logline_prefix_parser.go:264).
THEOREM LostByCrossingHolds == Spec => []LostByCrossing
  <1> DEFINE Inv == IF runner = "logLines" THEN TfInv ELSE TfRests
  <1>1. Init => Inv
    BY Starts0, TfInvInit
  <1>2. Inv /\ [Next]_vars => Inv'
    <2> SUFFICES ASSUME Inv, [Next]_vars PROVE Inv'
      OBVIOUS
    <2>1. CASE runner = "logLines"
      BY <2>1, Moves, TfInvNext
    <2>2. CASE runner # "logLines"
      BY <2>2, Moves DEF tfVars, TfRests, TfStart, Readers
    <2> QED
      BY <2>1, <2>2
  <1>3. Inv => LostByCrossing
    BY DEF TfInv, OneSwap, LostByCrossing, TfRests, TfStart, Layouts, Readers
  <1> QED
    BY <1>1, <1>2, <1>3, PTL DEF Spec
-----------------------------------------------------------------------------
(* SpacyHelper.                                                              *)

Live == spCaller \in {"starts", "idle", "passes", "waits"}

\* The lines that answer a value.
Answering(line) == line.type = "output"
NoneSaid == \A i \in 1 .. Len(spOut) : ~Answering(spOut[i])

OneSaid ==
    \E i \in 1 .. Len(spOut) :
       /\ Answering(spOut[i]) /\ spOut[i].about = spAt
       /\ \A j \in 1 .. Len(spOut) : Answering(spOut[j]) => j = i

SpLines == [type : {"none", "log", "loaded", "error", "exit", "output"}, about : Nat]

SpTypes ==
    /\ Len(spText) \in Nat
    /\ spAt \in Nat \ {0} /\ spAt <= Len(spText) + 1
    /\ spCaller \in {"starts", "idle", "passes", "waits", "done", "failed", "panicked"}
    /\ spAnswers \in Seq(Nat)
    /\ spIn \in Seq(Nat)
    /\ spOut \in Seq(SpLines)
    /\ spLine \in SpLines
    /\ spMsg \in Nat
    /\ spHelper \in {"loads", "serves", "dead"}
    /\ spWriter \in {"receives", "writes", "pushes", "ended"}
    /\ spReader \in {"reads", "sends", "pushes", "ended"}
    /\ spWaiter \in {"waits", "pushes", "closes", "ended"}
    /\ spReader # "sends" => spLine = NoLine

\* The answers are those to the values before the one asked about.
InTurn ==
    /\ Len(spAnswers) + 1 = spAt
    /\ \A i \in DOMAIN spAnswers : spAnswers[i] = i
    /\ spCaller \in {"passes", "waits"} => spAt <= Len(spText)
    /\ spCaller = "done" => spAt = Len(spText) + 1

\* A value or its answer is in one place, and only while the worker waits for it.
Quiet == spWriter # "writes" /\ spIn = <<>> /\ NoneSaid /\ ~Answering(spLine)
OneUnderWay ==
    /\ Live /\ spCaller # "waits" => Quiet
    /\ spCaller = "waits" =>
         \/ Quiet
         \/ spWriter = "writes" /\ spMsg = spAt
              /\ spIn = <<>> /\ NoneSaid /\ ~Answering(spLine)
         \/ spWriter # "writes" /\ spIn = <<spAt>> /\ NoneSaid /\ ~Answering(spLine)
         \/ spWriter # "writes" /\ spIn = <<>> /\ ~Answering(spLine) /\ OneSaid
         \/ spWriter # "writes" /\ spIn = <<>> /\ NoneSaid
              /\ Answering(spLine) /\ spLine.about = spAt

\* What is over when the process has ended, and not before.
OverWithIt ==
    \/ spClosed \/ spWriter \in {"pushes", "ended"} \/ spReader \in {"pushes", "ended"}
    \/ spWaiter # "waits" \/ spCause \in {"error", "ended"} \/ spCaller = "panicked"
    => spHelper = "dead"

SpInv == SpTypes /\ InTurn /\ OneUnderWay /\ OverWithIt

LEMMA SpInvInit == SpInit => SpInv
  <1> SUFFICES ASSUME NEW text \in SpTexts, SpStart(text) PROVE SpInv
    BY DEF SpInit
  <1>1. Len(spText) \in Nat
    <2>1. text \in Seq({"word", "EXIT"}) /\ spText = text
      BY SpTextAssumption DEF SpStart
    <2> QED
      BY <2>1
  <1>2. spAnswers = <<>> /\ spIn = <<>> /\ spOut = <<>> /\ spLine = NoLine
    BY DEF SpStart
  <1>3. /\ spAt = 1 /\ spCaller = "starts" /\ spCause = "" /\ spHelper = "loads" /\ spMsg = 0
        /\ spClosed = FALSE /\ spWriter = "receives" /\ spReader = "reads" /\ spWaiter = "waits"
    BY DEF SpStart
  <1>4. SpTypes
    <2>1. spLine \in SpLines
      BY <1>2 DEF NoLine, SpLine, SpLines
    <2>2. spAnswers \in Seq(Nat) /\ spIn \in Seq(Nat) /\ spOut \in Seq(SpLines)
      BY <1>2
    <2>3. spAt <= Len(spText) + 1 /\ spAt \in Nat \ {0}
      <3>1. spAt = 1
        BY <1>3
      <3> QED
        BY <1>1, <3>1
    <2>4. spReader # "sends" => spLine = NoLine
      BY <1>2
    <2> QED
      BY <1>1, <1>3, <2>1, <2>2, <2>3, <2>4 DEF SpTypes
  <1>5. InTurn
    <2>1. Len(spAnswers) + 1 = 1 /\ DOMAIN spAnswers = {}
      BY <1>2
    <2> QED
      BY <1>3, <2>1 DEF InTurn
  <1>6. OneUnderWay
    <2>1. NoneSaid
      BY <1>2 DEF NoneSaid
    <2>2. ~Answering(spLine)
      BY <1>2 DEF Answering, NoLine, SpLine
    <2> QED
      BY <1>2, <1>3, <2>1, <2>2 DEF OneUnderWay, OneSaid, Quiet
  <1>7. OverWithIt
    BY <1>3 DEF OverWithIt
  <1> QED
    BY <1>4, <1>5, <1>6, <1>7 DEF SpInv

\* Lines that answer nothing change nothing about what is under way.
LEMMA SaysNothing ==
  ASSUME SpTypes, OneUnderWay, NEW lines \in Seq(SpLines), Says(lines),
         \A i \in 1 .. Len(lines) : ~Answering(lines[i]),
         UNCHANGED <<spAt, spCaller, spWriter, spIn, spLine, spMsg>>
  PROVE  OneUnderWay' /\ spOut' \in Seq(SpLines)
  <1>1. /\ spOut' \in Seq(SpLines) /\ Len(spOut') = Len(spOut) + Len(lines)
        /\ Len(spOut) \in Nat /\ Len(lines) \in Nat
        /\ \A i \in 1 .. Len(spOut) : spOut'[i] = spOut[i]
        /\ \A i \in 1 .. Len(spOut') : i > Len(spOut) => spOut'[i] = lines[i - Len(spOut)]
    BY SMTT(40) DEF SpTypes, Says
  <1>2. \A i \in 1 .. Len(spOut') :
          Answering(spOut'[i]) => i \in 1 .. Len(spOut) /\ Answering(spOut[i])
    <2> SUFFICES ASSUME NEW i \in 1 .. Len(spOut'), Answering(spOut'[i])
                 PROVE  i \in 1 .. Len(spOut) /\ Answering(spOut[i])
      OBVIOUS
    <2>1. CASE i > Len(spOut)
      <3>1. i - Len(spOut) \in 1 .. Len(lines) /\ spOut'[i] = lines[i - Len(spOut)]
        BY <1>1, <2>1
      <3> QED
        BY <3>1
    <2>2. CASE ~(i > Len(spOut))
      <3>1. i \in 1 .. Len(spOut)
        BY <1>1, <2>2
      <3> QED
        BY <1>1, <3>1
    <2> QED
      BY <2>1, <2>2
  <1>3. \A i \in 1 .. Len(spOut) : i \in 1 .. Len(spOut')
    BY <1>1
  <1>4. NoneSaid => NoneSaid'
    BY <1>2 DEF NoneSaid, Answering
  <1>5. OneSaid => OneSaid'
    <2> SUFFICES ASSUME NEW i \in 1 .. Len(spOut), Answering(spOut[i]), spOut[i].about = spAt,
                        \A j \in 1 .. Len(spOut) : Answering(spOut[j]) => j = i
                 PROVE  OneSaid'
      BY DEF OneSaid
    <2>1. i \in 1 .. Len(spOut') /\ spOut'[i] = spOut[i]
      BY <1>1, <1>3
    <2>2. \A j \in 1 .. Len(spOut') : Answering(spOut'[j]) => j = i
      BY <1>2
    <2>3. Answering(spOut'[i]) /\ spOut'[i].about = spAt'
      BY <2>1
    <2> QED
      BY <2>1, <2>2, <2>3 DEF OneSaid, Answering
  <1>6. Answering(spLine)' <=> Answering(spLine)
    BY DEF Answering
  <1> QED
    BY <1>1, <1>4, <1>5, <1>6 DEF OneUnderWay, Quiet, Live

\* Nor does what goes on elsewhere.
LEMMA NothingSaid ==
  ASSUME OneUnderWay,
         UNCHANGED <<spAt, spCaller, spWriter, spIn, spOut, spLine, spMsg>>
  PROVE  OneUnderWay'
  BY DEF OneUnderWay, OneSaid, Quiet, NoneSaid, Live, Answering

LEMMA InTurnKept ==
  ASSUME InTurn, UNCHANGED <<spText, spAt, spAnswers>>,
         spCaller' \in {spCaller, "failed", "panicked"}
  PROVE  InTurn'
  BY DEF InTurn

LEMMA HelperStep ==
  ASSUME SpInv, HelperLoads \/ HelperAnswers \/ HelperDies
  PROVE  SpInv'
  <1> USE DEF SpInv
  <1>1. /\ UNCHANGED <<spText, spAt, spCaller, spCause, spAnswers>>
        /\ UNCHANGED <<spClosed, spWriter, spReader, spWaiter, spLine, spMsg>>
    BY DEF HelperLoads, HelperAnswers, HelperDies, HelperKept, spCallerVars
  <1>2. InTurn'
    BY <1>1, InTurnKept
  <1>3. spHelper' \in {"loads", "serves", "dead"} /\ (spHelper = "dead" => spHelper' = "dead")
    BY DEF HelperLoads, HelperAnswers, HelperDies, HelperEnds, SpTypes
  <1>4. OverWithIt'
    BY <1>1, <1>3 DEF OverWithIt
  <1>5. spIn' \in Seq(Nat)
    <2>1. CASE HelperAnswers
      <3>1. spIn # <<>> /\ spIn' = Tail(spIn) /\ spIn \in Seq(Nat)
        BY <2>1 DEF HelperAnswers, SpTypes
      <3> QED
        BY <3>1
    <2>2. CASE HelperLoads \/ HelperDies
      BY <2>2 DEF HelperLoads, HelperDies, SpTypes
    <2> QED
      BY <2>1, <2>2
  <1>6. OneUnderWay' /\ spOut' \in Seq(SpLines)
    <2>1. CASE HelperLoads
      <3>1. PICK lines \in {<<SpLine("log", 0), SpLine("loaded", 0)>>,
                            <<SpLine("log", 0), SpLine("error", 0), SpLine("exit", 0)>>} :
              Says(lines)
        BY <2>1 DEF HelperLoads
      <3>2. /\ SpLine("log", 0) \in SpLines /\ SpLine("loaded", 0) \in SpLines
            /\ SpLine("error", 0) \in SpLines /\ SpLine("exit", 0) \in SpLines
            /\ ~Answering(SpLine("log", 0)) /\ ~Answering(SpLine("loaded", 0))
            /\ ~Answering(SpLine("error", 0)) /\ ~Answering(SpLine("exit", 0))
        BY DEF SpLine, SpLines, Answering
      <3>3. lines \in Seq(SpLines) /\ \A i \in 1 .. Len(lines) : ~Answering(lines[i])
        <4>1. CASE lines = <<SpLine("log", 0), SpLine("loaded", 0)>>
          <5>1. lines \in Seq(SpLines) /\ Len(lines) = 2
                /\ lines[1] = SpLine("log", 0) /\ lines[2] = SpLine("loaded", 0)
            BY <3>2, <4>1
          <5> QED
            BY <3>2, <5>1
        <4>2. CASE lines = <<SpLine("log", 0), SpLine("error", 0), SpLine("exit", 0)>>
          <5>1. lines \in Seq(SpLines) /\ Len(lines) = 3
                /\ lines[1] = SpLine("log", 0) /\ lines[2] = SpLine("error", 0)
                /\ lines[3] = SpLine("exit", 0)
            BY <3>2, <4>2
          <5> QED
            BY <3>2, <5>1
        <4> QED
          BY <3>1, <4>1, <4>2
      <3> QED
        BY <1>1, <2>1, <3>1, <3>3, SaysNothing DEF HelperLoads
    <2>2. CASE HelperDies
      BY <1>1, <2>2, NothingSaid DEF HelperDies, SpTypes
    <2>3. CASE HelperAnswers
      <3> DEFINE k == Head(spIn)
      <3>1. /\ spIn # <<>> /\ spIn' = Tail(spIn) /\ k \in Nat
        BY <2>3 DEF HelperAnswers, SpTypes
      <3>2. PICK type \in {"output", "error", "exit"} : Says(<<SpLine("log", k), SpLine(type, k)>>)
        BY <2>3 DEF HelperAnswers
      <3> HIDE DEF k
      <3>3. /\ SpLine("log", k) \in SpLines /\ SpLine(type, k) \in SpLines
            /\ ~Answering(SpLine("log", k)) /\ SpLine(type, k).about = k
            /\ Answering(SpLine(type, k)) <=> type = "output"
        BY <3>1 DEF SpLine, SpLines, Answering
      <3>4. /\ spOut' \in Seq(SpLines) /\ Len(spOut') = Len(spOut) + 2 /\ Len(spOut) \in Nat
            /\ \A i \in 1 .. Len(spOut) : spOut'[i] = spOut[i]
            /\ spOut'[Len(spOut) + 1] = SpLine("log", k)
            /\ spOut'[Len(spOut) + 2] = SpLine(type, k)
        BY <3>2, <3>3 DEF Says, SpTypes
      <3>5. CASE ~Live
        BY <1>1, <3>4, <3>5 DEF OneUnderWay, OneSaid, Live
      <3>6. CASE Live
        <4>1. /\ spCaller = "waits" /\ spWriter # "writes" /\ spIn = <<spAt>> /\ NoneSaid
              /\ ~Answering(spLine)
          BY <3>1, <3>6 DEF OneUnderWay, OneSaid, Quiet
        <4>2. spIn' = <<>> /\ k = spAt
          BY <3>1, <4>1 DEF k
        <4>3. \A i \in 1 .. Len(spOut') : Answering(spOut'[i]) => i = Len(spOut) + 2 /\ type = "output"
          <5> SUFFICES ASSUME NEW i \in 1 .. Len(spOut'), Answering(spOut'[i])
                       PROVE  i = Len(spOut) + 2 /\ type = "output"
            OBVIOUS
          <5>1. i \in 1 .. Len(spOut) \/ i = Len(spOut) + 1 \/ i = Len(spOut) + 2
            BY <3>4
          <5> QED
            BY <3>3, <3>4, <4>1, <5>1 DEF NoneSaid
        <4>4. CASE type = "output"
          <5>1. Len(spOut) + 2 \in 1 .. Len(spOut') /\ Answering(spOut'[Len(spOut) + 2])
                /\ spOut'[Len(spOut) + 2].about = spAt
            BY <3>3, <3>4, <4>2, <4>4
          <5> QED
            BY <1>1, <3>4, <4>1, <4>2, <4>3, <5>1 DEF OneUnderWay, OneSaid, Live, Answering
        <4>5. CASE type # "output"
          <5>1. NoneSaid'
            BY <4>3, <4>5 DEF NoneSaid, Answering
          <5> QED
            BY <1>1, <3>4, <4>1, <4>2, <5>1 DEF OneUnderWay, OneSaid, Quiet, Live, Answering
        <4> QED
          BY <4>4, <4>5
      <3> QED
        BY <3>5, <3>6
    <2> QED
      BY <2>1, <2>2, <2>3
  <1>7. SpTypes'
    BY <1>1, <1>3, <1>5, <1>6 DEF SpTypes
  <1> QED
    BY <1>2, <1>4, <1>6, <1>7


\* Who offers an error does so because the process has ended.
LEMMA ErrorMeans ==
  ASSUME OverWithIt, NEW role \in {"writer", "reader", "waiter"}, ErrorTakenFrom(role)
  PROVE  spHelper = "dead"
  BY DEF OverWithIt, ErrorTakenFrom

LEMMA ErrorLeft ==
  ASSUME SpInv, NEW role \in {"writer", "reader", "waiter"}, ErrorTakenFrom(role),
         ErrorLeaves(role), UNCHANGED <<spText, spAt, spAnswers>>,
         \/ UNCHANGED spCaller /\ UNCHANGED spCause
         \/ spCaller' = "failed"
  PROVE  SpInv'
  <1> USE DEF SpInv
  <1>1. UNCHANGED <<spIn, spOut, spHelper, spStatus, spClosed, spLine, spMsg>>
    BY DEF ErrorLeaves, spHelperVars
  <1>2. spHelper' = "dead"
    BY <1>1, ErrorMeans
  <1>3. InTurn'
    BY DEF InTurn
  <1>4. /\ spWriter' \in {spWriter, "ended"} /\ (spWriter = "writes" => spWriter' = "writes")
        /\ spReader' \in {spReader, "reads"} /\ spWaiter' \in {spWaiter, "closes"}
        /\ (spReader' = "sends") <=> (spReader = "sends")
    BY DEF ErrorLeaves, ErrorTakenFrom
  <1>5. (spWriter = "writes") <=> (spWriter' = "writes")
    BY <1>4
  <1>6. OneUnderWay'
    BY <1>1, <1>5 DEF OneUnderWay, OneSaid, Quiet, NoneSaid, Live, Answering
  <1>7. SpTypes'
    BY <1>1, <1>4 DEF SpTypes
  <1>8. OverWithIt'
    BY <1>2 DEF OverWithIt
  <1> QED
    BY <1>3, <1>6, <1>7, <1>8

LEMMA GoroutineStep ==
  ASSUME SpInv,
         PushError \/ WriterWrites \/ WriterEnds \/ ReaderReads \/ WaiterReturns \/ WaiterCloses
  PROVE  SpInv'
  <1> USE DEF SpInv
  <1>1. CASE PushError
    <2>1. PICK role \in {"writer", "reader", "waiter"} :
            ErrorTakenFrom(role) /\ ErrorLeaves(role) /\ UNCHANGED spCallerVars
      BY <1>1 DEF PushError
    <2> QED
      BY <2>1, ErrorLeft DEF spCallerVars
  <1>2. CASE WriterWrites
    <2>1. /\ UNCHANGED <<spText, spAt, spCaller, spCause, spAnswers, spOut, spHelper>>
          /\ UNCHANGED <<spClosed, spReader, spWaiter, spLine, spMsg>> /\ spWriter = "writes"
      BY <1>2 DEF WriterWrites, spCallerVars
    <2>2. InTurn'
      BY <2>1, InTurnKept
    <2>3. \/ spWriter' = "receives" /\ spIn' = Append(spIn, spMsg)
          \/ spWriter' = "ended" /\ UNCHANGED spIn /\ spReader = "ended"
          \/ spWriter' = "pushes" /\ UNCHANGED spIn /\ spHelper = "dead"
      BY <1>2 DEF WriterWrites
    <2>4. OverWithIt'
      BY <2>1, <2>3 DEF OverWithIt
    <2>5. SpTypes'
      <3>1. spIn' \in Seq(Nat)
        <4>1. CASE spIn' = Append(spIn, spMsg)
          BY <4>1 DEF SpTypes
        <4> QED
          BY <2>3, <4>1 DEF SpTypes
      <3> QED
        BY <2>1, <2>3, <3>1 DEF SpTypes
    <2>6. OneUnderWay'
      <3>1. CASE ~Live
        BY <2>1, <3>1 DEF OneUnderWay, OneSaid, Live
      <3>2. CASE Live
        <4>1. /\ spCaller = "waits" /\ spMsg = spAt /\ spIn = <<>> /\ NoneSaid
              /\ ~Answering(spLine)
          BY <2>1, <3>2 DEF OneUnderWay, OneSaid, Quiet
        <4>2. NoneSaid' /\ ~Answering(spLine')
          BY <2>1, <4>1 DEF NoneSaid, Answering
        <4>3. spWriter' # "writes" /\ (spIn' = <<>> \/ spIn' = <<spAt>>)
          BY <2>3, <4>1 DEF SpTypes
        <4> QED
          BY <2>1, <4>1, <4>2, <4>3 DEF OneUnderWay, OneSaid, Quiet, Live, Answering
      <3> QED
        BY <3>1, <3>2
    <2> QED
      BY <2>2, <2>4, <2>5, <2>6
  <1>3. CASE WriterEnds
    <2>1. /\ UNCHANGED <<spText, spAt, spCaller, spCause, spAnswers, spIn, spOut, spHelper>>
          /\ UNCHANGED <<spClosed, spReader, spWaiter, spLine, spMsg>>
          /\ spWriter = "receives" /\ spClosed /\ spWriter' = "ended"
      BY <1>3 DEF WriterEnds, spCallerVars, spHelperVars
    <2>2. InTurn'
      BY <2>1, InTurnKept
    <2>3. OverWithIt' /\ SpTypes'
      BY <2>1 DEF OverWithIt, SpTypes
    <2>4. OneUnderWay'
      BY <2>1 DEF OneUnderWay, OneSaid, Quiet, NoneSaid, Live, Answering
    <2> QED
      BY <2>2, <2>3, <2>4
  <1>4. CASE ReaderReads
    <2>1. /\ UNCHANGED <<spText, spAt, spCaller, spCause, spAnswers, spIn, spHelper>>
          /\ UNCHANGED <<spClosed, spWriter, spWaiter, spMsg>> /\ spReader = "reads"
      BY <1>4 DEF ReaderReads, spCallerVars
    <2>2. InTurn'
      BY <2>1, InTurnKept
    <2>3. \/ UNCHANGED <<spOut, spLine>> /\ spReader' = "ended" /\ spWriter = "ended"
          \/ UNCHANGED <<spOut, spLine>> /\ spReader' = "pushes" /\ (spClosed \/ spHelper = "dead")
          \/ /\ spReader' = "sends" /\ spOut # <<>>
             /\ spLine' = Head(spOut) /\ spOut' = Tail(spOut)
      BY <1>4 DEF ReaderReads
    <2>4. OverWithIt'
      BY <2>1, <2>3 DEF OverWithIt
    <2>5. CASE UNCHANGED <<spOut, spLine>>
      <3>1. SpTypes'
        BY <2>1, <2>3, <2>5 DEF SpTypes
      <3> QED
        BY <2>1, <2>2, <2>4, <2>5, <3>1, NothingSaid
    <2>6. CASE spReader' = "sends" /\ spOut # <<>> /\ spLine' = Head(spOut) /\ spOut' = Tail(spOut)
      <3>1. /\ spOut' \in Seq(SpLines) /\ Len(spOut') + 1 = Len(spOut) /\ Len(spOut) \in Nat
            /\ Len(spOut') \in Nat
            /\ spLine' = spOut[1] /\ spLine' \in SpLines
            /\ \A i \in 1 .. Len(spOut') : spOut'[i] = spOut[i + 1]
        BY <2>6 DEF SpTypes
      <3>2. SpTypes'
        BY <2>1, <2>6, <3>1 DEF SpTypes
      <3>3. \A i \in 1 .. Len(spOut') : i + 1 \in 1 .. Len(spOut)
        BY <3>1
      <3>4. 1 \in 1 .. Len(spOut)
        BY <3>1
      <3>5. NoneSaid => NoneSaid' /\ ~Answering(spLine')
        BY <3>1, <3>3, <3>4 DEF NoneSaid, Answering
      <3>6. OneUnderWay'
        <4>1. CASE NoneSaid /\ ~Answering(spLine)
          BY <2>1, <3>5, <4>1 DEF OneUnderWay, OneSaid, Quiet, Live, NoneSaid, Answering
        <4>2. CASE ~Live
          BY <2>1, <4>2 DEF OneUnderWay, OneSaid, Live
        <4>3. CASE Live /\ NoneSaid /\ Answering(spLine)
          \* The reader sends one line before it reads the next.
          BY <2>1, <4>3 DEF SpTypes, Answering, NoLine, SpLine
        <4>4. CASE Live /\ ~NoneSaid
          <5>1. /\ spCaller = "waits" /\ spWriter # "writes" /\ spIn = <<>> /\ ~Answering(spLine)
            BY <4>4 DEF OneUnderWay, OneSaid, Quiet
          <5>2. PICK i \in 1 .. Len(spOut) :
                   /\ Answering(spOut[i]) /\ spOut[i].about = spAt
                   /\ \A j \in 1 .. Len(spOut) : Answering(spOut[j]) => j = i
            BY <4>4 DEF OneUnderWay, OneSaid, Quiet
          <5>3. CASE i = 1
            <6>1. Answering(spLine') /\ spLine'.about = spAt
              BY <3>1, <5>2, <5>3
            <6>2. NoneSaid'
              <7> SUFFICES ASSUME NEW j \in 1 .. Len(spOut'), Answering(spOut'[j]) PROVE FALSE
                BY DEF NoneSaid, Answering
              <7>1. j + 1 = 1
                BY <3>1, <3>3, <5>2, <5>3
              <7> QED
                BY <3>1, <7>1
            <6> QED
              BY <2>1, <5>1, <6>1, <6>2 DEF OneUnderWay, OneSaid, Live, Answering
          <5>4. CASE i # 1
            <6>1. ~Answering(spLine')
              BY <3>1, <3>4, <5>2, <5>4
            <6>2. i - 1 \in 1 .. Len(spOut') /\ spOut'[i - 1] = spOut[i]
              BY <3>1, <5>4
            <6>3. \A j \in 1 .. Len(spOut') : Answering(spOut'[j]) => j = i - 1
              <7> SUFFICES ASSUME NEW j \in 1 .. Len(spOut'), Answering(spOut'[j])
                           PROVE  j = i - 1
                OBVIOUS
              <7>1. j + 1 = i
                BY <3>1, <3>3, <5>2
              <7> QED
                BY <3>1, <7>1
            <6>4. Answering(spOut'[i - 1]) /\ spOut'[i - 1].about = spAt
              BY <5>2, <6>2
            <6> QED
              BY <2>1, <5>1, <6>1, <6>2, <6>3, <6>4 DEF OneUnderWay, OneSaid, Live, Answering
          <5> QED
            BY <5>3, <5>4
        <4> QED
          BY <4>1, <4>2, <4>3, <4>4
      <3> QED
        BY <2>2, <2>4, <3>2, <3>6
    <2> QED
      BY <2>3, <2>5, <2>6
  <1>5. CASE WaiterReturns \/ WaiterCloses
    <2>1. /\ UNCHANGED <<spText, spAt, spCaller, spCause, spAnswers, spIn, spOut, spHelper>>
          /\ UNCHANGED <<spWriter, spReader, spLine, spMsg>>
          /\ spWaiter' \in {"pushes", "closes", "ended"}
          /\ spWaiter # "waits" \/ spHelper = "dead"
      BY <1>5 DEF WaiterReturns, WaiterCloses, spCallerVars, spHelperVars
    <2>2. InTurn' /\ OneUnderWay'
      BY <2>1, InTurnKept, NothingSaid
    <2>3. OverWithIt' /\ SpTypes'
      BY <2>1 DEF OverWithIt, SpTypes
    <2> QED
      BY <2>2, <2>3
  <1> QED
    BY <1>1, <1>2, <1>3, <1>4, <1>5


\* The worker takes the line the reader sends.
LEMMA LineGone ==
  ASSUME SpInv, LineTaken
  PROVE  /\ UNCHANGED <<spIn, spOut, spHelper, spStatus, spClosed, spWriter, spWaiter, spMsg>>
         /\ spReader = "sends" /\ spReader' = "reads" /\ spLine' = NoLine /\ NoLine \in SpLines
         /\ ~Answering(spLine')
  BY DEF LineTaken, spHelperVars, NoLine, SpLine, SpLines, Answering

LEMMA WorkerStep ==
  ASSUME SpInv, SpWorker
  PROVE  SpInv'
  <1> USE DEF SpInv
  <1>1. CASE TimeIsUp \/ SendOnClosed
    <2>1. /\ UNCHANGED <<spText, spAt, spAnswers, spIn, spOut, spHelper, spStatus>>
          /\ UNCHANGED <<spClosed, spWriter, spReader, spWaiter, spLine, spMsg>>
          /\ \/ spCaller' = "failed" /\ spCause' = "timeout"
             \/ spCaller' = "panicked" /\ UNCHANGED spCause /\ spClosed
      BY <1>1 DEF TimeIsUp, SendOnClosed, Fail, Kept, spHelperVars
    <2>2. InTurn' /\ SpTypes' /\ OverWithIt'
      BY <2>1 DEF InTurn, SpTypes, OverWithIt
    <2>3. OneUnderWay'
      BY <2>1 DEF OneUnderWay, OneSaid, Live
    <2> QED
      BY <2>2, <2>3
  <1>2. CASE TakeError
    <2>1. PICK role \in {"writer", "reader", "waiter"} : ErrorTakenFrom(role) /\ ErrorLeaves(role)
      BY <1>2 DEF TakeError
    <2>2. spCaller' = "failed" /\ UNCHANGED <<spText, spAt, spAnswers>>
      BY <1>2 DEF TakeError, Fail
    <2> QED
      BY <2>1, <2>2, ErrorLeft
  <1>3. CASE TakeLineAtStart
    <2>1. /\ UNCHANGED <<spText, spAt, spAnswers>> /\ LineTaken /\ spCaller = "starts"
          /\ \/ spCaller' = "idle" /\ UNCHANGED spCause
             \/ UNCHANGED <<spCaller, spCause>>
             \/ spCaller' = "failed" /\ spCause' = "message"
      BY <1>3 DEF TakeLineAtStart, Fail, spCallerVars
    <2>2. InTurn'
      BY <2>1 DEF InTurn
    <2>3. SpTypes' /\ OverWithIt'
      BY <2>1, LineGone DEF SpTypes, OverWithIt
    <2>4. OneUnderWay'
      <3>1. Quiet
        BY <2>1 DEF OneUnderWay, OneSaid, Live
      <3>2. Quiet'
        BY <2>1, <3>1, LineGone DEF Quiet, NoneSaid, Answering
      <3> QED
        BY <2>1, <3>2 DEF OneUnderWay, OneSaid, Live
    <2> QED
      BY <2>2, <2>3, <2>4
  <1>4. CASE NextValue
    <2>1. /\ UNCHANGED <<spText, spAt, spAnswers, spIn, spOut, spHelper, spStatus>>
          /\ UNCHANGED <<spClosed, spWriter, spReader, spWaiter, spLine, spMsg>>
          /\ spCaller = "idle"
          /\ \/ spCaller' = "done" /\ UNCHANGED spCause /\ spAt > Len(spText)
             \/ /\ spCaller' = "failed" /\ spCause' = "ended"
                /\ spWriter = "ended" \/ spReader = "ended"
             \/ spCaller' = "passes" /\ UNCHANGED spCause /\ ~(spAt > Len(spText))
      BY <1>4 DEF NextValue, Fail, Kept, spHelperVars
    <2>2. InTurn'
      BY <2>1 DEF InTurn, SpTypes
    <2>3. SpTypes' /\ OverWithIt'
      BY <2>1 DEF SpTypes, OverWithIt
    <2>4. OneUnderWay'
      <3>1. Quiet
        BY <2>1 DEF OneUnderWay, OneSaid, Live
      <3>2. Quiet'
        BY <2>1, <3>1 DEF Quiet, NoneSaid, Answering
      <3> QED
        BY <2>1, <3>2 DEF OneUnderWay, OneSaid, Live
    <2> QED
      BY <2>2, <2>3, <2>4
  <1>5. CASE PassValue
    <2>1. /\ UNCHANGED <<spText, spAt, spCause, spAnswers, spIn, spOut, spHelper, spStatus>>
          /\ UNCHANGED <<spClosed, spReader, spWaiter, spLine>>
          /\ spCaller = "passes" /\ spCaller' = "waits"
          /\ spWriter = "receives" /\ spWriter' = "writes" /\ spMsg' = spAt
      BY <1>5 DEF PassValue, spHelperVars
    <2>2. InTurn'
      BY <2>1 DEF InTurn
    <2>3. SpTypes' /\ OverWithIt'
      BY <2>1 DEF SpTypes, OverWithIt
    <2>4. OneUnderWay'
      <3>1. Quiet
        BY <2>1 DEF OneUnderWay, OneSaid, Live
      <3>2. spIn' = <<>> /\ NoneSaid' /\ ~Answering(spLine')
        BY <2>1, <3>1 DEF Quiet, NoneSaid, Answering
      <3> QED
        BY <2>1, <3>2 DEF OneUnderWay, OneSaid, Live, Answering
    <2> QED
      BY <2>2, <2>3, <2>4
  <1>6. CASE TakeLine
    <2>1. UNCHANGED spText /\ LineTaken /\ spCaller = "waits"
      BY <1>6 DEF TakeLine, Fail, spCallerVars
    <2>2. CASE Answering(spLine)
      <3>1. /\ spAnswers' = Append(spAnswers, spLine.about)
            /\ spAt' = spAt + 1 /\ spCaller' = "idle" /\ UNCHANGED spCause
        BY <1>6, <2>2 DEF TakeLine, Answering
      <3>2. spLine.about = spAt /\ spWriter # "writes" /\ spIn = <<>> /\ NoneSaid
        BY <2>1, <2>2 DEF OneUnderWay, OneSaid, Quiet
      <3>3. /\ spAnswers' \in Seq(Nat) /\ Len(spAnswers') = Len(spAnswers) + 1
            /\ Len(spAnswers) \in Nat /\ DOMAIN spAnswers = 1 .. Len(spAnswers)
            /\ DOMAIN spAnswers' = 1 .. Len(spAnswers')
            /\ \A i \in 1 .. Len(spAnswers) : spAnswers'[i] = spAnswers[i]
            /\ spAnswers'[Len(spAnswers) + 1] = spAt
        BY <3>1, <3>2 DEF SpTypes
      <3>4. InTurn'
        <4>1. Len(spAnswers') + 1 = spAt' /\ spAt = Len(spAnswers) + 1
          BY <3>1, <3>3 DEF InTurn, SpTypes
        <4>2. \A i \in DOMAIN spAnswers' : spAnswers'[i] = i
          BY <3>3, <4>1 DEF InTurn
        <4> QED
          BY <3>1, <4>1, <4>2 DEF InTurn
      <3>5. SpTypes' /\ OverWithIt'
        <4>1. spAt' \in Nat \ {0} /\ spAt' <= Len(spText) + 1
          BY <2>1, <3>1 DEF SpTypes, InTurn
        <4> QED
          BY <2>1, <3>1, <3>3, <4>1, LineGone DEF SpTypes, OverWithIt
      <3>6. OneUnderWay'
        <4>1. Quiet'
          BY <2>1, <3>2, LineGone DEF Quiet, NoneSaid, Answering
        <4> QED
          BY <3>1, <4>1 DEF OneUnderWay, OneSaid, Live
      <3> QED
        BY <3>4, <3>5, <3>6
    <2>3. CASE ~Answering(spLine)
      <3>1. /\ UNCHANGED <<spAt, spAnswers>>
            /\ \/ UNCHANGED <<spCaller, spCause>>
               \/ spCaller' = "failed" /\ spCause' = "message"
        BY <1>6, <2>3 DEF TakeLine, Answering, Fail, spCallerVars
      <3>2. InTurn'
        BY <2>1, <3>1, InTurnKept
      <3>3. SpTypes' /\ OverWithIt'
        BY <2>1, <3>1, LineGone DEF SpTypes, OverWithIt
      <3>4. OneUnderWay'
        <4>1. ~Answering(spLine')
          BY <2>1, LineGone
        <4> QED
          BY <2>1, <2>3, <3>1, <4>1, LineGone DEF OneUnderWay, OneSaid, Quiet, NoneSaid, Live, Answering
      <3> QED
        BY <3>2, <3>3, <3>4
    <2> QED
      BY <2>2, <2>3
  <1> QED
    BY <1>1, <1>2, <1>3, <1>4, <1>5, <1>6 DEF SpWorker

LEMMA SpInvNext == SpInv /\ [SpNext]_spVars => SpInv'
  <1> SUFFICES ASSUME SpInv, [SpNext]_spVars PROVE SpInv'
    OBVIOUS
  <1>1. CASE UNCHANGED spVars
    <2>1. /\ UNCHANGED <<spText, spAt, spCaller, spCause, spAnswers, spIn, spOut, spHelper>>
          /\ UNCHANGED <<spClosed, spWriter, spReader, spWaiter, spLine, spMsg>>
      BY <1>1 DEF spVars
    <2>2. InTurn' /\ OneUnderWay'
      BY <2>1, InTurnKept, NothingSaid DEF SpInv
    <2>3. OverWithIt' /\ SpTypes'
      BY <2>1 DEF OverWithIt, SpTypes, SpInv
    <2> QED
      BY <2>2, <2>3 DEF SpInv
  <1> QED
    BY <1>1, HelperStep, GoroutineStep, WorkerStep DEF SpNext

\* A value gets the answer to it and no other, and the worker hears of an error,
\* an end or a closed channel only once the process has ended
\* (cmd_processor, Process and pushError; spacyDetector.Detect).
THEOREM AnswersBelongHolds == Spec => []AnswersBelong
  <1> DEFINE Inv == IF runner = "spacy" THEN SpInv ELSE SpRests
  <1>1. Init => Inv
    BY Starts0, SpInvInit
  <1>2. Inv /\ [Next]_vars => Inv'
    <2> SUFFICES ASSUME Inv, [Next]_vars PROVE Inv'
      OBVIOUS
    <2>1. CASE runner = "spacy"
      BY <2>1, Moves, SpInvNext
    <2>2. CASE runner # "spacy"
      <3>1. UNCHANGED spVars /\ UNCHANGED runner
        BY <2>2, Moves
      <3> QED
        BY <2>2, <3>1 DEF spVars, SpRests, SpStart
    <2> QED
      BY <2>1, <2>2
  <1>3. SpInv => AnswersBelong
    BY DEF SpInv, SpTypes, InTurn, OverWithIt, AnswersBelong
  <1>4. SpRests => AnswersBelong
    <2> SUFFICES ASSUME SpRests PROVE AnswersBelong
      OBVIOUS
    <2>1. spAnswers = <<>> /\ spCaller = "starts" /\ spCause = ""
      BY DEF SpRests, SpStart
    <2>2. Len(spAnswers) = 0 /\ DOMAIN spAnswers = 1 .. 0
      <3>1. spAnswers = <<>>
        BY <2>1
      <3> QED
        BY <3>1
    <2>3. \A i \in DOMAIN spAnswers : spAnswers[i] = i
      BY <2>2
    <2> QED
      BY <2>1, <2>3 DEF AnswersBelong
  <1>5. Inv => AnswersBelong
    BY <1>3, <1>4
  <1> QED
    BY <1>1, <1>2, <1>5, PTL DEF Spec
-----------------------------------------------------------------------------
(* HbaScan.                                                                  *)

HbaWords == STRING \cup {"local", "host", "hostssl", "everyone", "some", "", "#"}

LEMMA WordAppended ==
  ASSUME NEW W, NEW s \in Seq(W), NEW w \in W
  PROVE  /\ s \o <<w>> \in Seq(W) /\ Len(s \o <<w>>) = Len(s) + 1
         /\ \A i \in 1 .. Len(s) : (s \o <<w>>)[i] = s[i]
         /\ (s \o <<w>>)[Len(s) + 1] = w
  <1>1. <<w>> \in Seq(W) /\ Len(<<w>>) = 1 /\ <<w>>[1] = w
    OBVIOUS
  <1> QED
    BY <1>1

\* The words of a rule are its columns in order; one without an address is a
\* word shorter.
LEMMA FieldsOfRule ==
  ASSUME NEW l \in LineForms, IsRule(l)
  PROVE  /\ Len(Fields(l)) \in Nat /\ Len(Fields(l)) >= 4
         /\ Fields(l)[1] = l.type /\ Fields(l)[2] = l.db /\ Fields(l)[3] = l.user
         /\ l.tail = <<>> => Last(Fields(l)) = l.method
  <1>1. /\ l.type \in HbaWords /\ l.db \in HbaWords /\ l.user \in HbaWords
        /\ l.addr \in HbaWords /\ l.method \in HbaWords /\ l.tail \in Seq(HbaWords)
    <2>1. /\ l.type \in {"local", "host", "hostssl", "", "#"} /\ l.db \in STRING
          /\ l.user \in STRING /\ l.addr \in {"everyone", "some", ""} /\ l.method \in STRING
          /\ l.tail \in Seq(STRING)
      BY DEF LineForms
    <2>2. l.tail \in Seq(HbaWords)
      <3>1. STRING \subseteq HbaWords
        BY DEF HbaWords
      <3> HIDE DEF HbaWords
      <3> QED
        BY <2>1, <3>1, SeqMonotonic
    <2> QED
      BY <2>1, <2>2 DEF HbaWords
  <1>2. l.type # "" /\ l.db # "" /\ l.user # "" /\ l.method # ""
    BY DEF LineForms, IsRule
  <1> DEFINE two   == <<l.type>> \o <<l.db>>
             three == two \o <<l.user>>
             four  == three \o Word(l.addr)
             front == four \o <<l.method>>
  <1>3. Fields(l) = front \o l.tail
    BY <1>2 DEF Fields, Word
  <1>4. two \in Seq(HbaWords) /\ Len(two) = 2 /\ two[1] = l.type /\ two[2] = l.db
    <2>1. <<l.type>> \in Seq(HbaWords) /\ Len(<<l.type>>) = 1 /\ <<l.type>>[1] = l.type
      BY <1>1
    <2> DEFINE one == <<l.type>>
    <2>2. two = one \o <<l.db>>
      OBVIOUS
    <2>3. one \in Seq(HbaWords) /\ Len(one) = 1 /\ one[1] = l.type
      BY <2>1
    <2> HIDE DEF one, two
    <2>4. /\ two \in Seq(HbaWords) /\ Len(two) = Len(one) + 1
          /\ \A i \in 1 .. Len(one) : two[i] = one[i]
          /\ two[Len(one) + 1] = l.db
      <3>1. l.db \in HbaWords
        BY <1>1
      <3> QED
        BY <2>2, <2>3, <3>1, WordAppended, ZenonT(90)
    <2> QED
      BY <2>3, <2>4
  <1>5. /\ three \in Seq(HbaWords) /\ Len(three) = 3
        /\ three[1] = l.type /\ three[2] = l.db /\ three[3] = l.user
    <2>1. three = two \o <<l.user>>
      OBVIOUS
    <2> HIDE DEF two, three
    <2>2. /\ three \in Seq(HbaWords) /\ Len(three) = Len(two) + 1
          /\ \A i \in 1 .. Len(two) : three[i] = two[i]
          /\ three[Len(two) + 1] = l.user
      <3>1. l.user \in HbaWords /\ two \in Seq(HbaWords)
        BY <1>1, <1>4
      <3> QED
        BY <2>1, <3>1, WordAppended
    <2> QED
      BY <1>4, <2>2
  <1>6. /\ four \in Seq(HbaWords) /\ Len(four) \in Nat /\ Len(four) >= 3
        /\ four[1] = l.type /\ four[2] = l.db /\ four[3] = l.user
    <2> HIDE DEF three
    <2>1. CASE l.addr = ""
      <3>1. Word(l.addr) = <<>>
        BY <2>1 DEF Word
      <3>2. four = three
        BY <1>5, <3>1
      <3> QED
        BY <1>5, <3>2
    <2>2. CASE l.addr # ""
      <3>1. four = three \o <<l.addr>>
        BY <2>2 DEF Word
      <3> HIDE DEF four
      <3>2. /\ four \in Seq(HbaWords) /\ Len(four) = Len(three) + 1
            /\ \A i \in 1 .. Len(three) : four[i] = three[i]
        <4>1. l.addr \in HbaWords /\ three \in Seq(HbaWords)
          BY <1>1, <1>5
        <4> QED
          BY <3>1, <4>1, WordAppended
      <3> QED
        BY <1>5, <3>2
    <2> QED
      BY <2>1, <2>2
  <1>7. /\ front \in Seq(HbaWords) /\ Len(front) \in Nat /\ Len(front) >= 4
        /\ front[1] = l.type /\ front[2] = l.db /\ front[3] = l.user
        /\ front[Len(front)] = l.method
    <2>1. front = four \o <<l.method>>
      OBVIOUS
    <2> HIDE DEF four, front
    <2>2. /\ front \in Seq(HbaWords) /\ Len(front) = Len(four) + 1
          /\ \A i \in 1 .. Len(four) : front[i] = four[i]
          /\ front[Len(four) + 1] = l.method
      BY <1>1, <1>6, <2>1, WordAppended
    <2> QED
      BY <1>6, <2>2
  <1> HIDE DEF front
  <1>8. /\ Len(Fields(l)) = Len(front) + Len(l.tail) /\ Len(l.tail) \in Nat
        /\ \A i \in 1 .. Len(front) : Fields(l)[i] = front[i]
    BY <1>1, <1>3, <1>7
  <1>9. ASSUME l.tail = <<>> PROVE Last(Fields(l)) = l.method
    <2>1. Fields(l) = front
      BY <1>3, <1>7, <1>9
    <2> QED
      BY <1>7, <2>1 DEF Last
  <1>10. Len(Fields(l)) \in Nat /\ Len(Fields(l)) >= 4
    <2>1. Len(front) \in Nat /\ Len(front) >= 4
      BY <1>7
    <2>2. Len(Fields(l)) = Len(front) + Len(l.tail) /\ Len(l.tail) \in Nat
      BY <1>8
    <2> QED
      BY <2>1, <2>2
  <1> QED
    BY <1>7, <1>8, <1>9, <1>10

LEMMA RulesAreLong ==
  ASSUME NEW l \in LineForms, NEW c \in HbaControls, IsRule(l)
  PROVE  Len(Fields(l)) >= Needs(c, Fields(l))
  <1>1. Needs(c, Fields(l)) \in {1, 2, 3, 4}
    BY DEF Needs
  <1> QED
    BY <1>1, FieldsOfRule

\* The nine rules of the file and of the view on one plain line.
LEMMA PlainLinesAgree ==
  ASSUME NEW l \in LineForms, Plain(l), NEW c \in HbaControls
  PROVE  /\ c <= 7 => (FileFinds(c, l) <=> QueryFinds(c, l))
         /\ c = 8 => (FileFinds(c, l) <=> ~QueryFinds(c, l))
         /\ c = 9 => ~QueryFinds(c, l)
  <1>1. /\ IsRule(l) /\ l.tail = <<>> /\ l.db # "several" /\ l.user # "several"
    BY DEF Plain
  <1>2. /\ Fields(l)[1] = l.type /\ Fields(l)[2] = l.db /\ Fields(l)[3] = l.user
        /\ Last(Fields(l)) = l.method
    BY <1>1, FieldsOfRule
  <1>3. CASE c = 1
    BY <1>1, <1>2, <1>3 DEF FileFinds, QueryFinds, CheckTrustInMethod, QueryTrustInMethod
  <1>4. CASE c = 2
    BY <1>1, <1>2, <1>4 DEF FileFinds, QueryFinds, CheckNames, QueryNames
  <1>5. CASE c = 3
    BY <1>1, <1>2, <1>5 DEF FileFinds, QueryFinds, CheckNames, QueryNames
  <1>6. CASE c \in 4 .. 7
    <2>0. c <= 7 /\ c # 1 /\ c # 2 /\ c # 3 /\ c # 8 /\ c # 9
      BY <1>6
    <2>1. FileFinds(c, l) <=> CheckMethod(c, Fields(l))
      BY <1>6, <2>0, Zenon DEF FileFinds
    <2>2. QueryFinds(c, l) <=> QueryMethod(c, l)
      BY <1>1, <1>6, <2>0, Zenon DEF QueryFinds
    <2> QED
      BY <1>2, <2>0, <2>1, <2>2 DEF CheckMethod, QueryMethod
  <1>7. CASE c = 8
    BY <1>1, <1>2, <1>7 DEF FileFinds, QueryFinds, CheckType, QueryType
  <1>8. CASE c = 9
    BY <1>1, <1>8 DEF QueryFinds, QueryIPPrivilege
  <1>9. c = 1 \/ c = 2 \/ c = 3 \/ c \in 4 .. 7 \/ c = 8 \/ c = 9
    BY DEF HbaControls
  <1> QED
    BY <1>3, <1>4, <1>5, <1>6, <1>7, <1>8, <1>9

HbaAnswers == [control : HbaControls, found : SUBSET Nat, status : {"Pass", "Fail"}]

HbaTypes ==
    /\ hbaFile \in Seq(LineForms) /\ hbaRows \in Seq(LineForms)
    /\ hbaNext \in 1 .. 10 /\ hbaResults \in Seq(HbaAnswers)
    /\ hbaAt \in {"query", "read", "file", "done", "exit", "panic"}

\* The answers so far are those of the controls before the next, and of one copy.
HbaOrder ==
    /\ Len(hbaResults) = hbaNext - 1
    /\ \A k \in 1 .. Len(hbaResults) : hbaResults[k].control = k
    /\ hbaAt \in {"query", "read", "file"} => hbaNext <= 9
    /\ hbaAt = "done" => hbaNext = 10
    /\ hbaAt = "read" => hbaNext = 1
    /\ hbaAt \in {"query", "read"} => hbaRows = <<>>

HbaOneCopy ==
    hbaRows # <<>> =>
        \A k \in 1 .. Len(hbaResults) :
            hbaResults[k].found = {n \in DOMAIN hbaRows : FileFinds(k, hbaRows[n])}

HbaInv == HbaTypes /\ HbaOrder /\ HbaOneCopy /\ HbaBroughtDown

LEMMA HbaInvStart == ASSUME NEW file \in Seq(LineForms), HbaStart(file) PROVE HbaInv
  <1>1. hbaResults = <<>> /\ hbaRows = <<>> /\ hbaNext = 1 /\ hbaAt = "query" /\ hbaFile = file
    BY DEF HbaStart
  <1>2. hbaResults \in Seq(HbaAnswers) /\ hbaRows \in Seq(LineForms) /\ Len(hbaResults) = 0
    <2>1. hbaResults = <<>> /\ hbaRows = <<>>
      BY <1>1
    <2> QED
      BY <2>1
  <1> QED
    BY <1>1, <1>2 DEF HbaInv, HbaTypes, HbaOrder, HbaOneCopy, HbaBroughtDown

\* One control appends its answer and passes the turn on.
LEMMA ControlRuns ==
  ASSUME HbaTypes, HbaOrder, hbaAt \in {"query", "file"}, UNCHANGED <<hbaFile, hbaRows>>,
         NEW found \in SUBSET Nat, RunControl(found)
  PROVE  /\ HbaTypes' /\ HbaOrder' /\ hbaAt' # "panic"
         /\ Len(hbaResults') = hbaNext
         /\ \A k \in 1 .. Len(hbaResults) : hbaResults'[k] = hbaResults[k]
         /\ hbaResults'[hbaNext].found = found
  <1>1. PICK answer \in HbaAnswers :
          /\ answer.control = hbaNext /\ answer.found = found
          /\ hbaResults' = Append(hbaResults, answer)
    <2> DEFINE answer == [control |-> hbaNext, found |-> found,
                          status |-> IF found = {} THEN "Pass" ELSE "Fail"]
    <2>1. hbaNext \in HbaControls
      BY DEF HbaTypes, HbaOrder, HbaControls
    <2>2. answer \in HbaAnswers
      BY <2>1 DEF HbaAnswers
    <2> QED
      BY <2>2 DEF RunControl
  <1>2. hbaNext \in 1 .. 9 /\ hbaNext' = hbaNext + 1 /\ Len(hbaResults) = hbaNext - 1
    BY DEF RunControl, HbaTypes, HbaOrder
  <1>3. /\ hbaResults' \in Seq(HbaAnswers) /\ Len(hbaResults') = hbaNext
        /\ \A k \in 1 .. Len(hbaResults) : hbaResults'[k] = hbaResults[k]
        /\ hbaResults'[hbaNext] = answer
    BY <1>1, <1>2 DEF HbaTypes
  <1>4. hbaAt' = IF hbaNext = 9 THEN "done" ELSE hbaAt
    BY DEF RunControl
  <1>5. HbaTypes'
    BY <1>2, <1>3, <1>4 DEF HbaTypes
  <1>6. \A k \in 1 .. Len(hbaResults') : hbaResults'[k].control = k
    <2> SUFFICES ASSUME NEW k \in 1 .. Len(hbaResults') PROVE hbaResults'[k].control = k
      OBVIOUS
    <2>1. CASE k = hbaNext
      BY <1>1, <1>3, <2>1
    <2>2. CASE k # hbaNext
      <3>1. k \in 1 .. Len(hbaResults)
        BY <1>2, <1>3, <2>2
      <3> QED
        BY <1>3, <3>1 DEF HbaOrder
    <2> QED
      BY <2>1, <2>2
  <1>7. HbaOrder'
    <2>1. Len(hbaResults') = hbaNext' - 1 /\ hbaNext' \in 2 .. 10 /\ (hbaNext # 9 => hbaNext' <= 9)
      BY <1>2, <1>3
    <2>2. hbaNext = 9 => hbaNext' = 10
      BY <1>2
    <2> QED
      BY <1>4, <1>6, <2>1, <2>2 DEF HbaOrder
  <1> QED
    BY <1>1, <1>3, <1>4, <1>5, <1>7

LEMMA HbaInvNext == HbaInv /\ [HbaNext]_hbaVars => HbaInv'
  <1> SUFFICES ASSUME HbaInv, [HbaNext]_hbaVars PROVE HbaInv'
    OBVIOUS
  <1>0. HbaTypes /\ HbaOrder /\ HbaOneCopy /\ HbaBroughtDown
    BY DEF HbaInv
  <1>1. CASE UNCHANGED hbaVars
    BY <1>0, <1>1 DEF hbaVars, HbaInv, HbaTypes, HbaOrder, HbaOneCopy, HbaBroughtDown
  <1>2. CASE Query
    <2> DEFINE found == {n \in DOMAIN hbaFile : QueryFinds(hbaNext, hbaFile[n])}
    <2>1. /\ hbaAt = "query" /\ RunControl(found) /\ UNCHANGED <<hbaFile, hbaRows>>
      BY <1>2 DEF Query
    <2>2. found \in SUBSET Nat
      BY <1>0 DEF HbaTypes
    <2> HIDE DEF found
    <2>3. HbaTypes' /\ HbaOrder' /\ hbaAt' # "panic"
      BY <1>0, <2>1, <2>2, ControlRuns
    <2>4. hbaRows' = <<>>
      BY <1>0, <2>1 DEF HbaOrder
    <2> QED
      BY <2>3, <2>4 DEF HbaInv, HbaOneCopy, HbaBroughtDown
  <1>3. CASE QueryFails
    <2>1. /\ hbaAt' = "read" /\ hbaNext' = 1 /\ hbaResults' = <<>> /\ hbaRows' = hbaRows
          /\ hbaFile' = hbaFile
      BY <1>3 DEF QueryFails, FromScratch
    <2>2. hbaResults' \in Seq(HbaAnswers) /\ Len(hbaResults') = 0
      <3>1. hbaResults' = <<>>
        BY <2>1
      <3> QED
        BY <3>1
    <2>3. hbaRows = <<>>
      BY <1>0, <1>3 DEF QueryFails, HbaOrder
    <2> QED
      BY <1>0, <2>1, <2>2, <2>3 DEF HbaInv, HbaTypes, HbaOrder, HbaOneCopy, HbaBroughtDown
  <1>4. CASE ReadFile
    <2>1. /\ hbaNext' = 1 /\ hbaResults' = hbaResults /\ Len(hbaResults) = 0
          /\ hbaFile' = hbaFile /\ hbaAt' \in {"file", "exit"} /\ hbaRows' \in {hbaFile, hbaRows}
      BY <1>0, <1>4 DEF ReadFile, HbaOrder
    <2> QED
      BY <1>0, <2>1 DEF HbaInv, HbaTypes, HbaOrder, HbaOneCopy, HbaBroughtDown
  <1>5. CASE CheckRows
    <2>1. hbaAt = "file" /\ UNCHANGED <<hbaFile, hbaRows>> /\ hbaNext \in HbaControls
      BY <1>0, <1>5 DEF CheckRows, HbaTypes, HbaOrder, HbaControls
    <2>2. CASE \E n \in DOMAIN hbaRows : TooShort(hbaRows[n])
      <3>1. PICK n \in DOMAIN hbaRows : TooShort(hbaRows[n])
        BY <2>2
      <3>2. hbaRows[n] \in LineForms
        BY <1>0 DEF HbaTypes
      <3>3. ~IsRule(hbaRows[n])
        <4> SUFFICES ASSUME IsRule(hbaRows[n]) PROVE FALSE
          OBVIOUS
        <4>1. Len(Fields(hbaRows[n])) >= Needs(hbaNext, Fields(hbaRows[n]))
          BY <2>1, <3>2, RulesAreLong
        <4>2. Len(Fields(hbaRows[n])) \in Nat /\ Needs(hbaNext, Fields(hbaRows[n])) \in 1 .. 4
          BY <3>2, FieldsOfRule DEF Needs
        <4> QED
          BY <3>1, <4>1, <4>2 DEF TooShort
      <3>4. hbaAt' = "panic" /\ UNCHANGED <<hbaNext, hbaResults>>
        BY <1>5, <2>2 DEF CheckRows
      <3> QED
        BY <1>0, <2>1, <3>3, <3>4 DEF HbaInv, HbaTypes, HbaOrder, HbaOneCopy, HbaBroughtDown
    <2>3. CASE ~\E n \in DOMAIN hbaRows : TooShort(hbaRows[n])
      <3> DEFINE found == {n \in DOMAIN hbaRows : FileFinds(hbaNext, hbaRows[n])}
      <3>1. RunControl(found)
        BY <1>5, <2>3 DEF CheckRows
      <3>2. found \in SUBSET Nat
        BY <1>0 DEF HbaTypes
      <3>3. found = {n \in DOMAIN hbaRows : FileFinds(hbaNext, hbaRows[n])}
        OBVIOUS
      <3> HIDE DEF found
      <3>4. /\ HbaTypes' /\ HbaOrder' /\ hbaAt' # "panic"
            /\ Len(hbaResults') = hbaNext /\ Len(hbaResults) = hbaNext - 1 /\ hbaNext \in Nat
            /\ \A k \in 1 .. Len(hbaResults) : hbaResults'[k] = hbaResults[k]
            /\ hbaResults'[hbaNext].found = found
        BY <1>0, <2>1, <3>1, <3>2, ControlRuns DEF HbaOrder, HbaTypes
      <3>5. HbaOneCopy'
        <4> SUFFICES ASSUME hbaRows # <<>>, NEW k \in 1 .. Len(hbaResults')
                     PROVE  hbaResults'[k].found = {n \in DOMAIN hbaRows : FileFinds(k, hbaRows[n])}
          BY <2>1 DEF HbaOneCopy
        <4>1. CASE k = hbaNext
          BY <3>3, <3>4, <4>1
        <4>2. CASE k # hbaNext
          <5>1. k \in 1 .. Len(hbaResults)
            BY <3>4, <4>2
          <5> QED
            BY <1>0, <3>4, <5>1 DEF HbaOneCopy
        <4> QED
          BY <4>1, <4>2
      <3> QED
        BY <3>4, <3>5 DEF HbaInv, HbaBroughtDown
    <2> QED
      BY <2>2, <2>3
  <1>6. CASE EditFile
    <2>1. /\ UNCHANGED <<hbaAt, hbaNext, hbaRows, hbaResults>> /\ hbaFile' \in Seq(LineForms)
      BY <1>6, HbaAssumption DEF EditFile
    <2> QED
      BY <1>0, <2>1 DEF HbaInv, HbaTypes, HbaOrder, HbaOneCopy, HbaBroughtDown
  <1> QED
    BY <1>1, <1>2, <1>3, <1>4, <1>5, <1>6 DEF HbaNext

LEMMA ReportsAgree == HbaInv => HbaCopiesAgree
  <1> SUFFICES ASSUME HbaInv, hbaAt = "done" PROVE HbaWhole /\ RulesAgree
    BY DEF HbaCopiesAgree, HbaWhole, RulesAgree
  <1>1. /\ Len(hbaResults) = 9 /\ hbaResults \in Seq(HbaAnswers)
        /\ \A k \in 1 .. Len(hbaResults) : hbaResults[k].control = k
    BY DEF HbaInv, HbaTypes, HbaOrder
  <1>2. DOMAIN hbaResults = HbaControls
    BY <1>1 DEF HbaControls
  <1>3. HbaWhole
    <2>1. \A k \in DOMAIN hbaResults : hbaResults[k].control = k
      BY <1>1, <1>2 DEF HbaControls
    <2> QED
      BY <1>2, <2>1 DEF HbaWhole
  <1>4. ASSUME hbaRows # <<>>, \A n \in DOMAIN hbaRows : Plain(hbaRows[n]),
               NEW k \in DOMAIN hbaResults
        PROVE  LET c == hbaResults[k].control
                   asked == {n \in DOMAIN hbaRows : QueryFinds(c, hbaRows[n])}
               IN  CASE c <= 7 -> hbaResults[k].found = asked
                     [] c = 8  -> hbaResults[k].found = DOMAIN hbaRows \ asked
                     [] c = 9  -> asked \subseteq hbaResults[k].found
    <2> DEFINE asked == {n \in DOMAIN hbaRows : QueryFinds(k, hbaRows[n])}
    <2>1. /\ hbaResults[k].control = k /\ k \in HbaControls
          /\ hbaResults[k].found = {n \in DOMAIN hbaRows : FileFinds(k, hbaRows[n])}
      BY <1>1, <1>2, <1>4 DEF HbaInv, HbaOneCopy, HbaControls
    <2>2. ASSUME NEW n \in DOMAIN hbaRows
          PROVE  /\ k <= 7 => (FileFinds(k, hbaRows[n]) <=> QueryFinds(k, hbaRows[n]))
                 /\ k = 8 => (FileFinds(k, hbaRows[n]) <=> ~QueryFinds(k, hbaRows[n]))
                 /\ k = 9 => ~QueryFinds(k, hbaRows[n])
      <3>1. hbaRows[n] \in LineForms /\ Plain(hbaRows[n])
        BY <1>4 DEF HbaInv, HbaTypes
      <3> QED
        BY <2>1, <3>1, PlainLinesAgree
    <2>3. /\ k <= 7 => hbaResults[k].found = asked
          /\ k = 8 => hbaResults[k].found = DOMAIN hbaRows \ asked
          /\ k = 9 => asked \subseteq hbaResults[k].found
      BY <2>1, <2>2
    <2>4. k <= 7 \/ k = 8 \/ k = 9
      BY <2>1 DEF HbaControls
    <2>5. (k = 8 => ~(k <= 7)) /\ (k = 9 => ~(k <= 7) /\ k # 8)
      OBVIOUS
    <2> HIDE DEF asked
    <2> SUFFICES CASE k <= 7 -> hbaResults[k].found = asked
                   [] k = 8  -> hbaResults[k].found = DOMAIN hbaRows \ asked
                   [] k = 9  -> asked \subseteq hbaResults[k].found
      BY <2>1, Zenon DEF asked
    <2> QED
      BY <2>3, <2>4, <2>5, Zenon
  <1>5. RulesAgree
    BY <1>4 DEF RulesAgree
  <1> QED
    BY <1>3, <1>5

\* The invariant of the runner that is followed, beside the others at rest.
HbaFollowed == IF runner = "hba" THEN HbaInv ELSE HbaRests

LEMMA HbaInvHolds == Spec => []HbaFollowed
  <1>1. Init => HbaFollowed
    <2>1. ASSUME HbaInit PROVE HbaInv
      <3>1. PICK file \in HbaFiles : HbaStart(file)
        BY <2>1 DEF HbaInit
      <3>2. file \in Seq(LineForms)
        BY <3>1, HbaAssumption
      <3> QED
        BY <3>1, <3>2, HbaInvStart
    <2> QED
      BY <2>1, Starts0 DEF HbaFollowed
  <1>2. HbaFollowed /\ [Next]_vars => HbaFollowed'
    <2> SUFFICES ASSUME HbaFollowed, [Next]_vars PROVE HbaFollowed'
      OBVIOUS
    <2>1. CASE runner = "hba"
      BY <2>1, Moves, HbaInvNext DEF HbaFollowed
    <2>2. CASE runner # "hba"
      <3>1. UNCHANGED hbaVars /\ UNCHANGED runner
        BY <2>2, Moves
      <3> QED
        BY <2>2, <3>1 DEF HbaFollowed, hbaVars, HbaRests, HbaStart
    <2> QED
      BY <2>1, <2>2
  <1> QED
    BY <1>1, <1>2, PTL DEF Spec

\* A report has every control once and in order, from one copy of the rules
\* alone, and on plain rules the copies differ in the last two controls only
\* (hbascanner.go:77-102, 465).
THEOREM HbaCopiesAgreeHolds == Spec => []HbaCopiesAgree
  <1>1. HbaFollowed => HbaCopiesAgree
    <2>1. HbaRests => hbaAt = "query"
      BY DEF HbaRests, HbaStart
    <2>2. hbaAt = "query" => HbaCopiesAgree
      BY DEF HbaCopiesAgree, HbaWhole, RulesAgree
    <2> QED
      BY <2>1, <2>2, ReportsAgree DEF HbaFollowed
  <1> QED
    BY <1>1, HbaInvHolds, PTL
-----------------------------------------------------------------------------
(* HbaUsage.                                                                 *)

LEMMA FirstOfNumbers ==
  ASSUME NEW S \in SUBSET Nat
  PROVE  /\ FirstOf(S) = {} <=> S = {}
         /\ \A n \in FirstOf(S) : n \in S /\ FirstOf(S) = {n} /\ \A x \in S : n <= x
         /\ \A n \in S : (\A x \in S : n <= x) => FirstOf(S) = {n}
  <1>1. CASE S = {}
    BY <1>1 DEF FirstOf
  <1>2. CASE S # {}
    <2>1. Min(S) \in S /\ \A x \in S : Min(S) <= x
      BY <1>2, LeastNumber
    <2>2. FirstOf(S) = {Min(S)}
      BY <1>2 DEF FirstOf
    <2>3. ASSUME NEW n \in S, \A x \in S : n <= x PROVE n = Min(S)
      <3>1. n <= Min(S) /\ Min(S) <= n /\ n \in Nat /\ Min(S) \in Nat
        BY <2>1, <2>3
      <3> QED
        BY <3>1
    <2> QED
      BY <1>2, <2>1, <2>2, <2>3
  <1> QED
    BY <1>1, <1>2

\* A rule the program reads as the server does is a candidate of the program's
\* with an address that fits if and only if the server takes the connection by it.
LEMMA SameReading ==
  ASSUME huRules \in Seq(HuRule), ~huLogs.names, NEW c \in HuConnections, c.db # ToNoDb,
         NEW k, ~Differ(k)
  PROVE  /\ k \in DOMAIN huRules
         /\ ServerTakes(huRules[k], c) <=>
              k \in Candidates(Telling(c)) /\ IsValid(huRules[k].addr, Telling(c).host)
  <1>1. /\ k \in Known /\ k \in DOMAIN huRules
        /\ huRules[k].type = "host" /\ huRules[k].dbs \cap {"samerole", "samegroup"} = {}
        /\ huRules[k].roles = {} /\ Within(huRules[k].addr) # {}
    BY DEF Differ, Known
  <1>2. huRules[k].form \in {"plain", "listed"}
    <2>1. huRules[k] \in HuRule
      BY <1>1
    <2>2. huRules[k].form \in {"plain", "listed", "quoted", "pattern"}
      BY <2>1 DEF HuRule
    <2> QED
      BY <2>2 DEF Differ
  <1>3. Telling(c).user = c.user /\ Telling(c).db = c.db /\ Telling(c).host = c.host
    BY DEF Telling
  <1>4. c.host \in Hosts
    BY HuAssumption DEF HuConnection
  <1>5. PICK r : r = huRules[k]
    OBVIOUS
  <1>6. DbsRead(r) = r.dbs /\ UsersRead(r) = r.users
    <2>1. NamesRead(r)
      BY <1>2, <1>5 DEF NamesRead
    <2>2. RolesRead(r) = {}
      BY <1>1, <1>5 DEF RolesRead
    <2> QED
      BY <2>1, <2>2 DEF DbsRead, UsersRead
  <1>7. k \in Candidates(Telling(c)) <=> TakesDb(r, c) /\ TakesUser(r, c)
    <2>1. \A db, user : k \in Lines(db, user) <=> db \in r.dbs /\ user \in r.users
      BY <1>1, <1>5, <1>6 DEF Lines
    <2>2. k \in Candidates(Telling(c)) <=>
            \E user \in {c.user, "all"},
               db \in {c.db, "all"} \cup
                      (IF c.user = c.db THEN {"sameuser", "samerole"} ELSE {}) :
              k \in Lines(db, user)
      BY <1>3 DEF Candidates
    <2>3. TakesUser(r, c) <=> \E user \in {c.user, "all"} : user \in r.users
      BY <1>1, <1>5 DEF TakesUser
    <2>4. TakesDb(r, c) <=>
            \E db \in {c.db, "all"} \cup (IF c.user = c.db THEN {"sameuser", "samerole"} ELSE {}) :
              db \in r.dbs
      BY <1>1, <1>5 DEF TakesDb
    <2> QED
      BY <2>1, <2>2, <2>3, <2>4
  <1>8. IsValid(r.addr, Telling(c).host) <=> TakesAddress(r, c)
    <2>1. /\ r.addr # "all" /\ r.addr # "localhost" /\ r.addr # "samehost" /\ r.addr # "samenet"
          /\ r.addr # "a.example" /\ r.addr # ".example" /\ r.addr # "example"
      BY <1>1, <1>5 DEF Within, Hosts
    <2> QED
      BY <1>3, <2>1 DEF IsValid, TakesAddress
  <1>9. TakesType(r, c)
    BY <1>1, <1>5 DEF TakesType
  <1> QED
    BY <1>1, <1>5, <1>7, <1>8, <1>9 DEF ServerTakes

\* Up to a rule before which the program reads every one as the server does,
\* both choose the same.
LEMMA SameChoice ==
  ASSUME huRules \in Seq(HuRule), ~huLogs.names, NEW c \in HuConnections, c.db # ToNoDb,
         NEW n \in Nat, \A k \in 1 .. n : ~Differ(k)
  PROVE  n \in ServerRule(c) <=> n \in Marked(Telling(c))
  <1> DEFINE taken == {k \in DOMAIN huRules : ServerTakes(huRules[k], c)}
             valid == {k \in Candidates(Telling(c)) :
                         IsValid(huRules[k].addr, Telling(c).host)}
  <1>1. ASSUME NEW k \in 1 .. n PROVE k \in taken <=> k \in valid
    BY <1>1, SameReading
  <1>2. taken \in SUBSET Nat /\ valid \in SUBSET Nat /\ 0 \notin taken /\ 0 \notin valid
    <2>1. DOMAIN huRules \subseteq Nat \ {0}
      OBVIOUS
    <2> QED
      BY <2>1 DEF Candidates, Lines, Known
  <1>3. ServerRule(c) = FirstOf(taken) /\ Marked(Telling(c)) = FirstOf(valid)
    BY DEF ServerRule, Marked
  <1> HIDE DEF taken, valid
  <1>4. ASSUME NEW A \in SUBSET Nat, NEW B \in SUBSET Nat, 0 \notin A, 0 \notin B,
               \A k \in 1 .. n : k \in A <=> k \in B, n \in FirstOf(A)
        PROVE  n \in FirstOf(B)
    <2>1. n \in A /\ \A x \in A : n <= x
      BY <1>4, FirstOfNumbers
    <2>2. n \in B
      BY <1>4, <2>1
    <2>3. \A x \in B : n <= x
      <3> SUFFICES ASSUME NEW x \in B, ~(n <= x) PROVE FALSE
        OBVIOUS
      <3>1. x \in 1 .. n
        BY <1>4
      <3> QED
        BY <1>4, <2>1, <3>1
    <2>4. FirstOf(B) = {n}
      BY <1>4, <2>2, <2>3, FirstOfNumbers
    <2> QED
      BY <2>4
  <1> QED
    BY <1>1, <1>2, <1>3, <1>4

HuText   == STRING \cup {Untold, "a.example", "localhost"} \cup Hosts
HuSaid   == [user : HuText, db : HuText, host : HuText]
HuLine   == [prefix : HuSaid, text : HuSaid]

\* What a line tells is told of the connection it was logged for.
TellsOf(line, c) ==
    /\ Tells(line, "user") \in {Untold, Telling(c).user}
    /\ Tells(line, "db") \in {Untold, Telling(c).db}
    /\ Tells(line, "host") \in {Untold, Telling(c).host}
TellsAll(line) ==
    Tells(line, "user") # Untold /\ Tells(line, "db") # Untold /\ Tells(line, "host") # Untold

HuTypes ==
    /\ huRules \in Seq(HuRule)
    /\ huLogs \in LogKinds
    /\ huLog \in Seq(HuLine)
    /\ huFed \in 0 .. Len(huLog)

HuLogged ==
    \A p \in 1 .. Len(huLog) : \E c \in HuConnections :
        ServerRule(c) \subseteq Served /\ TellsOf(huLog[p], c)
HuServedTold ==
    ~Blind => \A n : <<n, FALSE>> \in huServed =>
        \E c \in HuConnections, p \in 1 .. Len(huLog) :
            n \in ServerRule(c) /\ TellsOf(huLog[p], c) /\ TellsAll(huLog[p])
HuFedMarked ==
    \A p \in 1 .. huFed : \A c \in HuConnections :
        TellsAll(huLog[p]) /\ TellsOf(huLog[p], c) => Marked(Telling(c)) \subseteq huUsed
HuUsedLogged ==
    \A n \in huUsed : \E c \in HuConnections :
        n \in Marked(Telling(c)) /\ c.db # ToNoDb /\ ServerRule(c) \subseteq Served

HuInv == HuTypes /\ HuLogged /\ HuServedTold /\ HuFedMarked /\ HuUsedLogged

LEMMA HuInvInit == HuInit => HuInv
  <1> SUFFICES ASSUME NEW rules \in HuFiles, NEW source \in Sources, NEW logs \in LogKinds,
                      HuStart(rules, source, logs)
               PROVE  HuInv
    BY DEF HuInit
  <1>1. /\ huLog = <<>> /\ huFed = 0 /\ huUsed = {} /\ huServed = {}
        /\ huRules = rules /\ huLogs = logs
    BY DEF HuStart
  <1>2. huLog \in Seq(HuLine) /\ Len(huLog) = 0
    <2>1. huLog = <<>>
      BY <1>1
    <2> QED
      BY <2>1
  <1>3. huRules \in Seq(HuRule)
    BY <1>1, HuAssumption
  <1> QED
    BY <1>1, <1>2, <1>3
       DEF HuInv, HuTypes, HuLogged, HuServedTold, HuFedMarked, HuUsedLogged

\* The lines of a connection: each tells of it, and unless Init admits settings
\* that tell too little or the connection is one that is not told of, one tells
\* all of it.
LEMMA LinesOfConnection ==
  ASSUME HuTypes, NEW c \in HuConnections
  PROVE  /\ LinesOf(c) \in Seq(HuLine) /\ Len(LinesOf(c)) \in Nat
         /\ \A i \in 1 .. Len(LinesOf(c)) : TellsOf(LinesOf(c)[i], c)
         /\ ~Blind /\ ~Silent(c) /\ ServerRule(c) # {} =>
              \E i \in 1 .. Len(LinesOf(c)) : TellsAll(LinesOf(c)[i])
  <1>1. /\ c.user \in HuText /\ c.db \in HuText /\ c.host \in Hosts
        /\ c.user # Untold /\ c.db # Untold
    BY HuAssumption DEF HuText, HuConnection
  <1>2. /\ huLogs.h \in BOOLEAN /\ huLogs.ud \in BOOLEAN /\ huLogs.connections \in BOOLEAN
        /\ IF huLogs.connections THEN huLogs.h \/ huLogs.ud ELSE huLogs.h /\ huLogs.ud
    BY DEF HuTypes, LogKinds, Admitted
  <1>3. /\ Telling(c).user = c.user /\ Telling(c).db \in HuText
        /\ c.db # ToNoDb => Telling(c).db # Untold
        /\ Telling(c).host \in HuText /\ Telling(c).host # Untold
        /\ Telling(c) = [user |-> Telling(c).user, db |-> Telling(c).db,
                         host |-> Telling(c).host]
    <2>1. /\ "v4a" # Untold /\ "loop" # Untold /\ "v6" # Untold
          /\ "a.example" # Untold /\ "localhost" # Untold
      BY DEF Untold
    <2> QED
      BY <1>1, <2>1 DEF Telling, Name, Hosts, HuText
  <1>4. Received(c) \in HuLine /\ Authorized(c) \in HuLine /\ Statement(c) \in HuLine
    <2>1. Empty \in HuSaid /\ Prefix(c) \in HuSaid /\ Telling(c) \in HuSaid
      BY <1>1, <1>3 DEF Empty, Prefix, HuSaid, HuText
    <2>2. /\ Received(c).prefix = [user |-> Untold, db |-> Untold, host |-> Prefix(c).host]
          /\ Received(c).text = [user |-> Untold, db |-> Untold, host |-> Telling(c).host]
          /\ Received(c) = [prefix |-> Received(c).prefix, text |-> Received(c).text]
      BY <2>1 DEF Received, Empty, Prefix
    <2>3. Received(c).prefix \in HuSaid /\ Received(c).text \in HuSaid
      BY <1>3, <2>1, <2>2 DEF HuSaid, HuText
    <2>4. /\ [Telling(c) EXCEPT !.host = Untold]
               = [user |-> Telling(c).user, db |-> Telling(c).db, host |-> Untold]
          /\ [user |-> Telling(c).user, db |-> Telling(c).db, host |-> Untold] \in HuSaid
      BY <1>1, <1>3 DEF HuSaid, HuText
    <2>5. Authorized(c).text \in HuSaid
      BY <2>1, <2>4 DEF Authorized
    <2>6. /\ Authorized(c) = [prefix |-> Prefix(c), text |-> Authorized(c).text]
          /\ Statement(c) = [prefix |-> Prefix(c), text |-> Empty]
      BY DEF Authorized, Statement
    <2> QED
      BY <2>1, <2>2, <2>3, <2>5, <2>6 DEF HuLine
  <1>5. TellsOf(Statement(c), c)
    BY <1>3 DEF TellsOf, Tells, Statement, Prefix, Empty
  <1>6. TellsOf(Received(c), c)
    BY <1>3 DEF TellsOf, Tells, Received, Prefix, Empty
  <1>7. TellsOf(Authorized(c), c)
    BY <1>3 DEF TellsOf, Tells, Authorized, Prefix, Empty
  <1>8. huLogs.h /\ huLogs.ud /\ c.db # ToNoDb => TellsAll(Statement(c))
    BY <1>1, <1>3 DEF TellsAll, Tells, Statement, Prefix
  <1>9. huLogs.connections /\ huLogs.h /\ c.entry = "named" /\ c.db # ToNoDb
          => TellsAll(Authorized(c))
    BY <1>1, <1>3 DEF TellsAll, Tells, Authorized, Prefix
  <1>10. CASE huLogs.connections /\ LetIn(c)
    <2>1. LinesOf(c) = <<Received(c), Authorized(c), Statement(c)>>
      BY <1>10 DEF LinesOf
    <2>2. /\ LinesOf(c) \in Seq(HuLine) /\ Len(LinesOf(c)) = 3
          /\ LinesOf(c)[1] = Received(c) /\ LinesOf(c)[2] = Authorized(c)
          /\ LinesOf(c)[3] = Statement(c)
      BY <1>4, <2>1
    <2>3. \A i \in 1 .. Len(LinesOf(c)) : i = 1 \/ i = 2 \/ i = 3
      BY <2>2
    <2>4. /\ 2 \in 1 .. Len(LinesOf(c)) /\ 3 \in 1 .. Len(LinesOf(c))
          /\ Len(LinesOf(c)) \in Nat
      BY <2>2
    <2>5. ~Blind /\ ~Silent(c) => TellsAll(Authorized(c)) \/ TellsAll(Statement(c))
      BY <1>2, <1>8, <1>9, <1>10 DEF Blind, Silent
    <2> QED
      BY <1>5, <1>6, <1>7, <2>2, <2>3, <2>4, <2>5
  <1>11. CASE huLogs.connections /\ ~LetIn(c)
    <2>1. LinesOf(c) = <<Received(c), Statement(c)>>
      BY <1>11 DEF LinesOf
    <2>2. /\ LinesOf(c) \in Seq(HuLine) /\ Len(LinesOf(c)) = 2
          /\ LinesOf(c)[1] = Received(c) /\ LinesOf(c)[2] = Statement(c)
      BY <1>4, <2>1
    <2>3. \A i \in 1 .. Len(LinesOf(c)) : i = 1 \/ i = 2
      BY <2>2
    <2>4. 2 \in 1 .. Len(LinesOf(c)) /\ Len(LinesOf(c)) \in Nat
      BY <2>2
    <2>5. ~Blind /\ ~Silent(c) /\ ServerRule(c) # {} => TellsAll(Statement(c))
      BY <1>2, <1>8, <1>11 DEF Blind, Silent, LetIn
    <2> QED
      BY <1>5, <1>6, <2>2, <2>3, <2>4, <2>5
  <1>12. CASE ~huLogs.connections
    <2>1. LinesOf(c) = <<Statement(c)>>
      BY <1>12 DEF LinesOf
    <2>2. LinesOf(c) \in Seq(HuLine) /\ Len(LinesOf(c)) = 1 /\ LinesOf(c)[1] = Statement(c)
      BY <1>4, <2>1
    <2>3. \A i \in 1 .. Len(LinesOf(c)) : i = 1
      BY <2>2
    <2>4. 1 \in 1 .. Len(LinesOf(c)) /\ Len(LinesOf(c)) \in Nat
      BY <2>2
    <2>5. ~Silent(c) => TellsAll(Statement(c))
      BY <1>2, <1>8, <1>12 DEF Silent
    <2> QED
      BY <1>5, <2>2, <2>3, <2>4, <2>5
  <1> QED
    BY <1>10, <1>11, <1>12

\* The rules and what the server logs stay as they are.
LEMMA HuSettled ==
  ASSUME UNCHANGED <<huRules, huSource, huLogs>>
  PROVE  /\ \A c : ServerRule(c)' = ServerRule(c) /\ Telling(c)' = Telling(c)
         /\ \A told : Marked(told)' = Marked(told)
         /\ Blind' = Blind
  <1>1. ASSUME NEW c PROVE ServerRule(c)' = ServerRule(c) /\ Telling(c)' = Telling(c)
    BY DEF ServerRule, FirstOf, Min, Telling
  <1>2. ASSUME NEW told PROVE Marked(told)' = Marked(told)
    BY DEF Marked, Candidates, Lines, Known, Readable, DbsRead, UsersRead, NamesRead, RolesRead,
           FirstOf, Min
  <1> QED
    BY <1>1, <1>2 DEF Blind

LEMMA SameTelling ==
  ASSUME UNCHANGED huLogs, NEW p, NEW c
  PROVE  /\ TellsOf(huLog[p], c)' <=> TellsOf(huLog'[p], c)
         /\ TellsAll(huLog[p])' <=> TellsAll(huLog'[p])
  BY DEF TellsOf, TellsAll, Tells, Telling

LEMMA HuConnects ==
  ASSUME HuInv, NEW c0 \in HuConnections, Connect(c0)
  PROVE  HuInv'
  <1>0. HuTypes /\ HuLogged /\ HuServedTold /\ HuFedMarked /\ HuUsedLogged
    BY DEF HuInv
  <1>1. /\ UNCHANGED <<huRules, huSource, huLogs, huFed, huUsed>>
        /\ huServed' = huServed \cup (ServerRule(c0) \X {Silent(c0)})
        /\ huLog' = huLog \o LinesOf(c0)
    BY DEF Connect
  <1>2. /\ \A c : ServerRule(c)' = ServerRule(c) /\ Telling(c)' = Telling(c)
        /\ \A told : Marked(told)' = Marked(told)
        /\ Blind' = Blind
    BY <1>1, HuSettled
  <1>3. PICK lines \in Seq(HuLine) :
          /\ lines = LinesOf(c0) /\ Len(lines) \in Nat
          /\ \A i \in 1 .. Len(lines) : TellsOf(lines[i], c0)
          /\ ~Blind /\ ~Silent(c0) /\ ServerRule(c0) # {} =>
                \E i \in 1 .. Len(lines) : TellsAll(lines[i])
    BY <1>0, LinesOfConnection
  <1>4. /\ huLog' \in Seq(HuLine) /\ Len(huLog') = Len(huLog) + Len(lines) /\ Len(huLog) \in Nat
        /\ \A p \in 1 .. Len(huLog) : huLog'[p] = huLog[p]
        /\ \A i \in 1 .. Len(lines) : huLog'[Len(huLog) + i] = lines[i]
    BY <1>0, <1>1, <1>3 DEF HuTypes
  <1>5. \A p \in 1 .. Len(huLog) : p \in 1 .. Len(huLog')
    BY <1>3, <1>4
  <1>6. \A i \in 1 .. Len(lines) : Len(huLog) + i \in 1 .. Len(huLog')
    BY <1>3, <1>4
  <1>61. Served \subseteq Served' /\ ServerRule(c0) \subseteq Served'
    <2>1. ASSUME NEW n \in ServerRule(c0) PROVE n \in Served'
      <3>1. <<n, Silent(c0)>> \in huServed' /\ <<n, Silent(c0)>>[1] = n
        BY <1>1, <2>1
      <3> QED
        BY <3>1 DEF Served
    <2> QED
      BY <1>1, <2>1 DEF Served
  <1>7. HuTypes'
    <2>1. huFed' \in 0 .. Len(huLog')
      BY <1>0, <1>1, <1>3, <1>4 DEF HuTypes
    <2> QED
      BY <1>0, <1>1, <1>4, <2>1 DEF HuTypes
  <1>8. HuLogged'
    <2>1. ASSUME NEW p \in 1 .. Len(huLog')
          PROVE  \E c \in HuConnections :
                   ServerRule(c) \subseteq Served' /\ TellsOf(huLog'[p], c)
      <3>1. CASE p \in 1 .. Len(huLog)
        BY <1>0, <1>4, <1>61, <3>1 DEF HuLogged
      <3>2. CASE p \notin 1 .. Len(huLog)
        <4>1. p - Len(huLog) \in 1 .. Len(lines) /\ p = Len(huLog) + (p - Len(huLog))
          BY <1>3, <1>4, <3>2
        <4>2. TellsOf(huLog'[p], c0)
          BY <1>3, <1>4, <4>1
        <4> QED
          BY <1>61, <4>2
      <3> QED
        BY <3>1, <3>2
    <2> QED
      BY <1>1, <1>2, <2>1, SameTelling DEF HuLogged
  <1>9. HuServedTold'
    <2>1. ASSUME ~Blind, NEW n, <<n, FALSE>> \in huServed'
          PROVE  \E c \in HuConnections, p \in 1 .. Len(huLog') :
                   n \in ServerRule(c) /\ TellsOf(huLog'[p], c) /\ TellsAll(huLog'[p])
      <3>1. CASE <<n, FALSE>> \in huServed
        BY <1>0, <1>4, <1>5, <2>1, <3>1 DEF HuServedTold
      <3>2. CASE <<n, FALSE>> \in ServerRule(c0) \X {Silent(c0)}
        <4>0. n \in ServerRule(c0) /\ ~Silent(c0)
          BY <3>2
        <4>1. PICK i \in 1 .. Len(lines) : TellsOf(lines[i], c0) /\ TellsAll(lines[i])
          BY <1>3, <2>1, <4>0
        <4> QED
          BY <1>4, <1>6, <4>0, <4>1
      <3> QED
        BY <1>1, <2>1, <3>1, <3>2
    <2> QED
      BY <1>1, <1>2, <2>1, SameTelling DEF HuServedTold
  <1>10. HuFedMarked'
    <2>1. \A p \in 1 .. huFed : huLog'[p] = huLog[p]
      BY <1>0, <1>4 DEF HuTypes
    <2>2. \A p \in 1 .. huFed : \A c \in HuConnections :
            TellsAll(huLog'[p]) /\ TellsOf(huLog'[p], c) => Marked(Telling(c)) \subseteq huUsed
      BY <1>0, <2>1 DEF HuFedMarked
    <2> QED
      BY <1>1, <1>2, <2>2, SameTelling DEF HuFedMarked
  <1>11. HuUsedLogged'
    BY <1>0, <1>1, <1>2, <1>61 DEF HuUsedLogged
  <1> QED
    BY <1>7, <1>8, <1>9, <1>10, <1>11 DEF HuInv

LEMMA HuFeeds ==
  ASSUME HuInv, Feed
  PROVE  HuInv'
  <1>0. HuTypes /\ HuLogged /\ HuServedTold /\ HuFedMarked /\ HuUsedLogged
    BY DEF HuInv
  <1>1. /\ UNCHANGED <<huRules, huSource, huLogs, huLog, huServed>>
        /\ huFed < Len(huLog) /\ huFed' = huFed + 1
    BY DEF Feed
  <1>2. /\ \A c : ServerRule(c)' = ServerRule(c) /\ Telling(c)' = Telling(c)
        /\ \A told : Marked(told)' = Marked(told)
        /\ Blind' = Blind
    BY <1>1, HuSettled
  <1>3. PICK line : line = huLog[huFed + 1]
    OBVIOUS
  <1>4. huFed + 1 \in 1 .. Len(huLog) /\ huFed \in Nat /\ Len(huLog) \in Nat
    BY <1>0, <1>1 DEF HuTypes
  <1>5. huUsed' = IF TellsAll(line) THEN huUsed \cup Marked(Told(line)) ELSE huUsed
    BY <1>3 DEF Feed, Told, TellsAll
  <1>6. ASSUME NEW c \in HuConnections, TellsAll(line), TellsOf(line, c)
        PROVE  Marked(Telling(c)) = Marked(Told(line)) /\ c.db # ToNoDb
    <2>1. /\ Told(line).user = Telling(c).user /\ Told(line).db = Telling(c).db
          /\ Told(line).host = Telling(c).host /\ Telling(c).db # Untold
      BY <1>6 DEF Told, TellsAll, TellsOf
    <2>2. c.db # ToNoDb
      BY <2>1 DEF Telling
    <2>3. Candidates(Telling(c)) = Candidates(Told(line))
      BY <2>1 DEF Candidates
    <2> QED
      BY <2>1, <2>2, <2>3 DEF Marked
  <1>7. HuTypes'
    BY <1>0, <1>1, <1>4 DEF HuTypes
  <1>8. HuLogged' /\ HuServedTold'
    BY <1>0, <1>1, <1>2, SameTelling DEF HuLogged, HuServedTold, Served
  <1>9. HuFedMarked'
    <2>1. ASSUME NEW p \in 1 .. huFed + 1, NEW c \in HuConnections,
                 TellsAll(huLog[p]), TellsOf(huLog[p], c)
          PROVE  Marked(Telling(c)) \subseteq huUsed'
      <3>1. CASE p = huFed + 1
        BY <1>3, <1>5, <1>6, <2>1, <3>1
      <3>2. CASE p # huFed + 1
        <4>1. p \in 1 .. huFed
          BY <1>4, <3>2
        <4> QED
          BY <1>0, <1>5, <2>1, <4>1 DEF HuFedMarked
      <3> QED
        BY <3>1, <3>2
    <2> QED
      BY <1>1, <1>2, <2>1, SameTelling DEF HuFedMarked
  <1>10. HuUsedLogged'
    <2>1. ASSUME NEW n \in huUsed'
          PROVE  \E c \in HuConnections :
                   n \in Marked(Telling(c)) /\ c.db # ToNoDb /\ ServerRule(c) \subseteq Served
      <3>1. CASE n \in huUsed
        BY <1>0, <3>1 DEF HuUsedLogged
      <3>2. CASE n \notin huUsed
        <4>1. TellsAll(line) /\ n \in Marked(Told(line))
          BY <1>5, <2>1, <3>2
        <4>2. PICK c \in HuConnections :
                ServerRule(c) \subseteq Served /\ TellsOf(line, c)
          BY <1>0, <1>3, <1>4 DEF HuLogged
        <4> QED
          BY <1>6, <4>1, <4>2
      <3> QED
        BY <3>1, <3>2
    <2> QED
      BY <1>1, <1>2, <2>1 DEF HuUsedLogged, Served
  <1> QED
    BY <1>7, <1>8, <1>9, <1>10 DEF HuInv

LEMMA HuInvNext == HuInv /\ [HuNext]_huVars => HuInv'
  <1> SUFFICES ASSUME HuInv, [HuNext]_huVars PROVE HuInv'
    OBVIOUS
  <1>1. CASE UNCHANGED huVars
    <2>1. /\ UNCHANGED <<huRules, huSource, huLogs>>
          /\ UNCHANGED <<huLog, huFed, huUsed, huServed>>
      BY <1>1 DEF huVars
    <2>2. /\ \A c : ServerRule(c)' = ServerRule(c) /\ Telling(c)' = Telling(c)
          /\ \A told : Marked(told)' = Marked(told)
          /\ Blind' = Blind
      BY <2>1, HuSettled
    <2> QED
      BY <2>1, <2>2, SameTelling
         DEF HuInv, HuTypes, HuLogged, HuServedTold, HuFedMarked, HuUsedLogged, Served
  <1> QED
    BY <1>1, HuConnects, HuFeeds DEF HuNext

LEMMA UnusedTold == HuInv => UnusedExact
  <1> SUFFICES ASSUME HuInv, huFed = Len(huLog) PROVE UnusedExact
    BY DEF UnusedExact, UnusedIsUnused, UsedIsUsed
  <1>0. HuTypes /\ HuServedTold /\ HuFedMarked /\ HuUsedLogged
    BY DEF HuInv
  <1>1. huRules \in Seq(HuRule) /\ DOMAIN huRules \subseteq Nat \ {0}
    BY <1>0 DEF HuTypes
  <1>2. \A c : \A n \in ServerRule(c) : n \in Nat /\ ServerRule(c) = {n}
    <2> SUFFICES ASSUME NEW c, NEW n \in ServerRule(c)
                 PROVE  n \in Nat /\ ServerRule(c) = {n}
      OBVIOUS
    <2> DEFINE taken == {k \in DOMAIN huRules : ServerTakes(huRules[k], c)}
    <2>1. taken \in SUBSET Nat /\ ServerRule(c) = FirstOf(taken)
      BY <1>1 DEF ServerRule
    <2> HIDE DEF taken
    <2>2. \A m \in FirstOf(taken) : m \in taken /\ FirstOf(taken) = {m}
      BY <2>1, FirstOfNumbers
    <2> QED
      BY <2>1, <2>2
  <1>3. \A told : \A n \in Marked(told) : n \in Nat \ {0} /\ IsValid(huRules[n].addr, told.host)
    <2> SUFFICES ASSUME NEW told, NEW n \in Marked(told)
                 PROVE  n \in Nat \ {0} /\ IsValid(huRules[n].addr, told.host)
      OBVIOUS
    <2> DEFINE valid == {k \in Candidates(told) : IsValid(huRules[k].addr, told.host)}
    <2>0. \A k \in valid : k \in Nat \ {0} /\ IsValid(huRules[k].addr, told.host)
      BY <1>1 DEF Candidates, Lines, Known
    <2>1. valid \in SUBSET Nat /\ Marked(told) = FirstOf(valid)
      BY <1>1 DEF Marked, Candidates, Lines, Known
    <2> HIDE DEF valid
    <2>2. \A m \in FirstOf(valid) : m \in valid /\ FirstOf(valid) = {m}
      BY <2>1, FirstOfNumbers
    <2> QED
      BY <2>0, <2>1, <2>2
  <1>4. ASSUME ~Blind, NEW n \in Unused, <<n, FALSE>> \in huServed, \A k \in 1 .. n : ~Differ(k)
        PROVE  FALSE
    <2>1. PICK c \in HuConnections, p \in 1 .. Len(huLog) :
            n \in ServerRule(c) /\ TellsOf(huLog[p], c) /\ TellsAll(huLog[p])
      BY <1>0, <1>4 DEF HuServedTold
    <2>2. Marked(Telling(c)) \subseteq huUsed
      BY <1>0, <2>1 DEF HuFedMarked
    <2>3. c.db # ToNoDb /\ ~huLogs.names
      BY <1>4, <2>1 DEF TellsOf, TellsAll, Telling, Blind
    <2>4. n \in Marked(Telling(c))
      BY <1>1, <1>2, <1>4, <2>1, <2>3, SameChoice
    <2> QED
      BY <1>4, <2>2, <2>4 DEF Unused
  <1>5. ASSUME NEW n \in huUsed \ Served, \A k \in 1 .. n : ~Differ(k)
        PROVE  FALSE
    <2>1. PICK c \in HuConnections :
            n \in Marked(Telling(c)) /\ c.db # ToNoDb /\ ServerRule(c) \subseteq Served
      BY <1>0, <1>5 DEF HuUsedLogged
    <2>2. n \in Nat \ {0} /\ IsValid(huRules[n].addr, Telling(c).host)
      BY <1>3, <2>1
    <2>3. ~huLogs.names
      <3> SUFFICES ASSUME huLogs.names PROVE FALSE
        OBVIOUS
      <3>1. Within(huRules[n].addr) # {}
        <4>1. n \in 1 .. n
          BY <2>2
        <4> QED
          BY <1>5, <4>1 DEF Differ
      <3>2. Telling(c).host \in {"a.example", "localhost"}
        BY DEF Telling, Name
      <3> QED
        BY <2>2, <3>1, <3>2 DEF IsValid, Within, Hosts
    <2>4. n \in ServerRule(c)
      BY <1>1, <1>5, <2>1, <2>2, <2>3, SameChoice
    <2> QED
      BY <1>5, <2>1, <2>4
  <1>6. UnusedIsUnused
    BY <1>4 DEF UnusedIsUnused
  <1>7. UsedIsUsed
    BY <1>5 DEF UsedIsUsed
  <1> QED
    BY <1>6, <1>7 DEF UnusedExact

\* What is reported as unused when the log has been fed is what the server did
\* not use, as far as the program reads the rules as the server does
\* (hba_unused_lines.go:72, hba_file_rule.go:50-115).
THEOREM UnusedExactHolds == Spec => []UnusedExact
  <1> DEFINE Inv == IF runner = "hbaUsage" THEN HuInv ELSE HuRests
  <1>1. Init => Inv
    BY Starts0, HuInvInit
  <1>2. Inv /\ [Next]_vars => Inv'
    <2> SUFFICES ASSUME Inv, [Next]_vars PROVE Inv'
      OBVIOUS
    <2>1. CASE runner = "hbaUsage"
      BY <2>1, Moves, HuInvNext
    <2>2. CASE runner # "hbaUsage"
      <3>1. UNCHANGED huVars /\ UNCHANGED runner
        BY <2>2, Moves
      <3> QED
        BY <2>2, <3>1 DEF huVars, HuRests, HuStart
    <2> QED
      BY <2>1, <2>2
  <1>3. HuRests => UnusedExact
    <2>1. HuRests => huServed = {} /\ huUsed = {}
      BY DEF HuRests, HuStart
    <2> QED
      BY <2>1 DEF UnusedExact, UnusedIsUnused, UsedIsUsed
  <1>4. Inv => UnusedExact
    BY <1>3, UnusedTold
  <1> QED
    BY <1>1, <1>2, <1>4, PTL DEF Spec
-----------------------------------------------------------------------------
(* RdsScan.                                                                  *)

Statuses   == {"Pass", "Fail", "Manual"}
RdsResults == [control : Controls \cup {Nameless}, status : Statuses]
RdsSeen    == Seq(RdsResults) \cup {<<S>> : S \in SUBSET Instances}
RdsWorks   ==
    [at : {"look", "ask", "store", "report", "append", "ended"},
     left : SUBSET Instances, name : Controls \cup {Nameless}, status : Statuses,
     seen : RdsSeen]

RdsTypes ==
    /\ rdsReal \in [Instances -> {"absent", "good", "bad"}]
    /\ rdsMap \subseteq Instances /\ rdsBad \subseteq BadNow
    /\ rdsEvents \in Seq(Subscriptions)
    /\ rdsAt \in {"idle", "scan", "dead"}
    /\ Ongoing \subseteq Controls /\ rdsWork \in [Ongoing -> RdsWorks]
    /\ rdsReport \in Seq(RdsResults)
    /\ rdsAt = "idle" => rdsLock = Free

Ended == {c \in Ongoing : rdsWork[c].at = "ended"}

\* The report has the results of the controls that have ended, one of each.
ResultOf(k, c) ==
    rdsReport[k].control = rdsWork[c].name /\ rdsReport[k].status = rdsWork[c].status

ReportFits ==
    /\ Len(rdsReport) = Cardinality(Ended)
    /\ \A k \in 1 .. Len(rdsReport) : \E c \in Ended : ResultOf(k, c)
    /\ \A c \in Ended : \E k \in 1 .. Len(rdsReport) : ResultOf(k, c)
    /\ \A k, l \in 1 .. Len(rdsReport) :
         rdsReport[k].control = rdsReport[l].control =>
             k = l \/ rdsReport[k].control = Nameless

\* One append at a time, to the report as it is.
ReportGrows ==
    /\ rdsLock # Free => rdsLock \in Ongoing /\ rdsWork[rdsLock].at = "append"
    /\ \A c \in Ongoing : rdsWork[c].at = "append" =>
         rdsLock = c /\ rdsWork[c].seen = rdsReport
    /\ ReportFits

\* A result is its control's by name, or else a failure for want of a listing.
NameSound(c) ==
    \/ rdsWork[c].name = c
    \/ /\ c \in NamedLate /\ rdsWork[c].name = Nameless /\ rdsTrouble
       /\ rdsWork[c].status = "Fail" /\ rdsWork[c].at \in {"report", "append", "ended"}

\* What a control that has not found anything has asked so far.
ControlSound(c) ==
    /\ NameSound(c)
    /\ rdsWork[c].at = "store" =>
         rdsBad = {} /\ rdsTrouble /\ \E S \in SUBSET Instances : rdsWork[c].seen = <<S>>
    /\ c \in PerInstance /\ rdsWork[c].at = "ask" =>
         /\ rdsWork[c].left \subseteq rdsMap
         /\ rdsWork[c].status = "Pass" => rdsBad \cap (rdsMap \ rdsWork[c].left) = {}
    /\ rdsWork[c].at \in {"report", "append", "ended"} /\ rdsWork[c].status = "Pass" =>
         /\ c \in PerRegion => rdsBad = {}
         /\ c \in PerInstance => rdsBad \cap rdsMap = {}
    /\ c = "4.3.0" /\ rdsWork[c].at = "report" /\ rdsWork[c].status = "Pass" =>
         InstanceEventsVerdict(rdsEvents, rdsWork[c].left) = "Pass"

\* Without a listing there is no instance that was bad all along, and one that
\* comes out empty is trouble.
EmptyListing == rdsMap = {} => rdsBad = {} /\ rdsTrouble

ScanSound ==
    rdsAt = "scan" => ReportGrows /\ EmptyListing /\ \A c \in Ongoing : ControlSound(c)

RdsInv == RdsTypes /\ ScanSound /\ DiesForCause

LEMMA ControlsFinite == \A S \in SUBSET Controls : IsFiniteSet(S)
  <1>1. IsFiniteSet(PerInstance)
    <2>1. IsFiniteSet({"2.3.1"} \cup {"2.3.2"} \cup {"2.3.3"})
      BY FS_Singleton, FS_Union
    <2>2. PerInstance = {"2.3.1"} \cup {"2.3.2"} \cup {"2.3.3"}
      BY DEF PerInstance
    <2> QED
      BY <2>1, <2>2
  <1>2. IsFiniteSet(PerRegion)
    <2>1. IsFiniteSet({"3.5.0"} \cup {"3.8.0"})
      BY FS_Singleton, FS_Union
    <2>2. PerRegion = {"3.5.0"} \cup {"3.8.0"}
      BY DEF PerRegion
    <2> QED
      BY <2>1, <2>2
  <1>3. IsFiniteSet(OfEvents)
    <2>1. IsFiniteSet({"4.2.0"} \cup {"4.3.0"} \cup {"4.4.0"})
      BY FS_Singleton, FS_Union
    <2>2. OfEvents = {"4.2.0"} \cup {"4.3.0"} \cup {"4.4.0"}
      BY DEF OfEvents
    <2> QED
      BY <2>1, <2>2
  <1>4. IsFiniteSet(Controls)
    BY <1>1, <1>2, <1>3, FS_Union DEF Controls
  <1> QED
    BY <1>4, FS_Subset

LEMMA IdleWork ==
  ASSUME NEW c \in Controls
  PROVE  /\ Idle(c) \in RdsWorks /\ Idle(c).at \in {"look", "ask"} /\ Idle(c).name = c
         /\ Idle(c).left = {} /\ Idle(c).status = "Pass"
         /\ c \in PerInstance => Idle(c).at = "look"
  <1>1. Idle(c).seen = <<>> /\ <<>> \in Seq(RdsResults)
    BY DEF Idle
  <1> QED
    BY <1>1 DEF Idle, RdsWorks, RdsSeen, Statuses

LEMMA RdsInvInit == RdsInit => RdsInv
  <1> SUFFICES ASSUME NEW real \in [Instances -> {"absent", "good", "bad"}],
                      NEW job \in RdsJobs, RdsStart(real, job.events, job.controls)
               PROVE  RdsInv
    BY DEF RdsInit
  <1>1. /\ rdsReal = real /\ rdsMap = {} /\ rdsEvents = job.events /\ rdsAt = "idle"
        /\ rdsLock = Free /\ rdsBad = {}
    BY DEF RdsStart
  <1>2. rdsReport \in Seq(RdsResults)
    <2>1. rdsReport = <<>>
      BY DEF RdsStart
    <2> QED
      BY <2>1
  <1>3. Ongoing \subseteq Controls /\ rdsWork \in [Ongoing -> RdsWorks]
    <2>1. rdsWork = [c \in job.controls |-> Idle(c)] /\ job.controls \subseteq Controls
      BY RdsAssumption DEF RdsStart
    <2> QED
      BY <2>1, IdleWork DEF Ongoing
  <1>4. rdsEvents \in Seq(Subscriptions)
    BY <1>1, RdsAssumption
  <1> QED
    BY <1>1, <1>2, <1>3, <1>4 DEF RdsInv, RdsTypes, ScanSound, DiesForCause

-----------------------------------------------------------------------------
\* One control goes on.
LEMMA WorkGoes ==
  ASSUME RdsTypes, NEW c \in Ongoing, NEW w \in RdsWorks, Goes(c, w)
  PROVE  /\ Ongoing' = Ongoing /\ rdsWork' \in [Ongoing -> RdsWorks]
         /\ rdsWork'[c] = w /\ \A d \in Ongoing : d # c => rdsWork'[d] = rdsWork[d]
  BY DEF RdsTypes, Goes, Ongoing

\* A control has its name until it has a verdict.
LEMMA NamedYet ==
  ASSUME RdsInv, rdsAt = "scan", NEW c \in Ongoing,
         rdsWork[c].at \in {"look", "store", "ask"}
  PROVE  rdsWork[c].name = c
  BY DEF RdsInv, ScanSound, ControlSound, NameSound

LEMMA ReportStays ==
  ASSUME ReportFits, UNCHANGED rdsReport, Ended' = Ended,
         \A d \in Ended : rdsWork'[d] = rdsWork[d]
  PROVE  ReportFits'
  BY SMTT(40) DEF ReportFits, ResultOf

\* A control that neither holds the lock nor takes it leaves the report alone.
LEMMA ControlGoes ==
  ASSUME RdsInv, NEW c \in Ongoing, NEW w \in RdsWorks, rdsAt = "scan", Goes(c, w),
         UNCHANGED <<rdsReal, rdsMap, rdsEvents, rdsAt, rdsLock, rdsReport, rdsBad>>,
         rdsTrouble => rdsTrouble',
         rdsWork[c].at \notin {"append", "ended"}, w.at \notin {"append", "ended"},
         ControlSound(c)'
  PROVE  RdsInv'
  <1>0. RdsTypes /\ ReportGrows /\ EmptyListing /\ \A d \in Ongoing : ControlSound(d)
    BY DEF RdsInv, ScanSound
  <1>1. /\ Ongoing' = Ongoing /\ rdsWork' \in [Ongoing -> RdsWorks]
        /\ rdsWork'[c] = w /\ \A d \in Ongoing : d # c => rdsWork'[d] = rdsWork[d]
    BY <1>0, WorkGoes
  <1>2. RdsTypes'
    BY <1>0, <1>1 DEF RdsTypes, BadNow
  <1>3. Ended' = Ended
    BY <1>1 DEF Ended
  <1>4. ReportGrows'
    <2>1. \A d \in Ended : rdsWork'[d] = rdsWork[d]
      BY <1>1 DEF Ended
    <2>2. /\ rdsLock' # Free => rdsLock' \in Ongoing' /\ rdsWork'[rdsLock'].at = "append"
          /\ \A d \in Ongoing' : rdsWork'[d].at = "append" =>
               rdsLock' = d /\ rdsWork'[d].seen = rdsReport'
      BY <1>0, <1>1 DEF ReportGrows
    <2>3. ReportFits'
      BY <1>0, <1>3, <2>1, ReportStays DEF ReportGrows
    <2> QED
      BY <2>2, <2>3 DEF ReportGrows
  <1>5. EmptyListing'
    BY <1>0 DEF EmptyListing
  <1>6. \A d \in Ongoing' : ControlSound(d)'
    <2>1. ASSUME NEW d \in Ongoing, d # c PROVE ControlSound(d)'
      <3>1. ControlSound(d) /\ rdsWork'[d] = rdsWork[d]
        BY <1>0, <1>1, <2>1
      <3> QED
        BY <3>1 DEF ControlSound, NameSound, InstanceEventsVerdict, ForAll, AnyEvent
    <2> QED
      BY <1>1, <2>1
  <1>7. DiesForCause'
    BY DEF DiesForCause
  <1> QED
    BY <1>2, <1>4, <1>5, <1>6, <1>7 DEF RdsInv, ScanSound

\* Nothing is asked of a process that is gone but that it had cause.
LEMMA ProcessDies ==
  ASSUME RdsInv, rdsAt' = "dead", DiesForCause', UNCHANGED <<rdsReal, rdsMap, rdsEvents>>,
         UNCHANGED <<rdsWork, rdsReport>>, rdsBad' \subseteq BadNow
  PROVE  RdsInv'
  <1>1. rdsBad' \subseteq BadNow'
    BY DEF BadNow
  <1> QED
    BY <1>1 DEF RdsInv, RdsTypes, ScanSound, Ongoing

-----------------------------------------------------------------------------
\* A control looks at the map, lists the instances itself, or dies on silence.
LEMMA LookKeeps ==
  ASSUME RdsInv, NEW c \in Ongoing, Look(c)
  PROVE  RdsInv'
  <1>0. /\ RdsTypes /\ EmptyListing /\ rdsAt = "scan" /\ rdsWork[c].at = "look"
        /\ rdsWork[c] \in RdsWorks
    BY DEF RdsInv, ScanSound, RdsTypes, Look, Scanning
  <1>1. UNCHANGED <<rdsReal, rdsMap, rdsEvents, rdsLock, rdsReport, rdsBad>>
    BY DEF Look
  <1>2. CASE Cached
    <2>1. PICK w \in RdsWorks :
            /\ w.at = "ask" /\ w.left = rdsMap /\ w.status = rdsWork[c].status
            /\ w.name = rdsWork[c].name /\ Goes(c, w)
      <3> DEFINE w == [rdsWork[c] EXCEPT !.at = "ask", !.left = rdsMap, !.seen = <<>>]
      <3>1. <<>> \in RdsSeen
        BY DEF RdsSeen
      <3>2. w \in RdsWorks
        BY <1>0, <3>1 DEF RdsWorks, RdsTypes
      <3>3. /\ w.at = "ask" /\ w.left = rdsMap /\ w.status = rdsWork[c].status
            /\ w.name = rdsWork[c].name
        BY <1>0 DEF RdsWorks
      <3>4. Goes(c, w)
        BY <1>2 DEF Look, Proceeds
      <3> QED
        BY <3>2, <3>3, <3>4
    <2>2. rdsWork'[c] = w
      BY <1>0, <2>1, WorkGoes
    <2>3. ControlSound(c)'
      BY <1>0, NamedYet, <1>1, <2>1, <2>2 DEF ControlSound, NameSound
    <2>4. UNCHANGED <<rdsAt, rdsTrouble>>
      BY <1>2 DEF Look
    <2> QED
      BY <1>0, <1>1, <2>1, <2>3, <2>4, ControlGoes
  <1>3. CASE ~Cached
    <2>1. PICK a \in AwsAnswers :
            /\ Troubled(a, TRUE)
            /\ CASE a \in {"ok", "warned"} ->
                      Goes(c, [rdsWork[c] EXCEPT !.at = "store", !.seen = <<Present>>])
                      /\ UNCHANGED rdsAt
                 [] a = "complained" -> EndsUnlisted(c) /\ UNCHANGED rdsAt
                 [] a = "silent" -> Panics
      BY <1>3 DEF Look
    <2>2. (rdsTrouble => rdsTrouble') /\ (a # "ok" => rdsTrouble')
      BY <2>1, Zenon DEF Troubled
    <2>3. rdsBad = {} /\ rdsTrouble
      BY <1>0, <1>3 DEF Cached, EmptyListing
    <2>4. CASE a \in {"ok", "warned"}
      <3>1. PICK w \in RdsWorks :
              /\ w.at = "store" /\ w.seen = <<Present>> /\ w.name = rdsWork[c].name
              /\ Goes(c, w)
        <4> DEFINE w == [rdsWork[c] EXCEPT !.at = "store", !.seen = <<Present>>]
        <4>1. <<Present>> \in RdsSeen
          BY DEF RdsSeen, Present
        <4>2. /\ w \in RdsWorks /\ w.at = "store" /\ w.seen = <<Present>>
              /\ w.name = rdsWork[c].name
          BY <1>0, <4>1 DEF RdsWorks
        <4>3. Goes(c, w)
          BY <2>1, <2>4
        <4> QED
          BY <4>2, <4>3
      <3>2. rdsWork'[c] = w /\ Present \in SUBSET Instances
        BY <1>0, <3>1, WorkGoes DEF Present
      <3>3. ControlSound(c)'
        BY <1>0, NamedYet, <1>1, <2>2, <2>3, <3>1, <3>2 DEF ControlSound, NameSound
      <3>4. UNCHANGED rdsAt
        BY <2>1, <2>4
      <3> QED
        BY <1>0, <1>1, <2>2, <3>1, <3>3, <3>4, ControlGoes
    <2>5. CASE a = "complained"
      <3>1. PICK w \in RdsWorks :
              /\ w.at = "report" /\ w.status = "Fail" /\ w.name = NameUnlisted(c)
              /\ Goes(c, w)
        <4> DEFINE w == [rdsWork[c] EXCEPT !.at = "report", !.left = {},
                                           !.name = NameUnlisted(c), !.status = "Fail"]
        <4>0. NameUnlisted(c) \in Controls \cup {Nameless}
          BY <1>0 DEF NameUnlisted, RdsTypes
        <4>1. /\ w \in RdsWorks /\ w.at = "report" /\ w.status = "Fail"
              /\ w.name = NameUnlisted(c)
          BY <1>0, <4>0 DEF RdsWorks, Statuses
        <4>2. Goes(c, w)
          BY <2>1, <2>5 DEF EndsUnlisted
        <4> QED
          BY <4>1, <4>2
      <3>2. rdsWork'[c] = w
        BY <1>0, <3>1, WorkGoes
      <3>3. ControlSound(c)'
        BY <2>2, <2>3, <2>5, <3>1, <3>2 DEF ControlSound, NameSound, NameUnlisted
      <3>4. UNCHANGED rdsAt
        BY <2>1, <2>5
      <3> QED
        BY <1>0, <1>1, <2>2, <3>1, <3>3, <3>4, ControlGoes
    <2>6. CASE a = "silent"
      <3>1. rdsAt' = "dead" /\ UNCHANGED rdsWork
        BY <2>1, <2>6 DEF Panics
      <3>2. DiesForCause'
        BY <2>2, <2>6 DEF DiesForCause
      <3> QED
        BY <1>0, <1>1, <3>1, <3>2, ProcessDies DEF RdsTypes
    <2> QED
      BY <2>4, <2>5, <2>6 DEF AwsAnswers
  <1> QED
    BY <1>2, <1>3

\* Where the map is stored a listing came out empty before: there is no instance
\* that was bad all along.
LEMMA StoreKeeps ==
  ASSUME RdsInv, NEW c \in Ongoing, Store(c)
  PROVE  RdsInv'
  <1>0. /\ RdsTypes /\ ReportGrows /\ EmptyListing /\ \A d \in Ongoing : ControlSound(d)
        /\ rdsAt = "scan" /\ rdsWork[c].at = "store" /\ rdsWork[c] \in RdsWorks
    BY DEF RdsInv, ScanSound, RdsTypes, Store, Scanning
  <1>1. UNCHANGED <<rdsReal, rdsEvents, rdsAt, rdsLock, rdsReport, rdsBad, rdsTrouble>>
    BY DEF Store
  <1>2. PICK S \in SUBSET Instances : rdsWork[c].seen = <<S>>
    BY <1>0 DEF ControlSound
  <1>3. rdsBad = {} /\ rdsTrouble
    BY <1>0 DEF ControlSound
  <1>4. rdsMap' = rdsMap \cup S
    BY <1>2 DEF Store
  <1>5. PICK w \in RdsWorks :
          /\ w.at = "ask" /\ w.left = rdsMap' /\ w.status = rdsWork[c].status
          /\ w.name = rdsWork[c].name /\ Goes(c, w)
    <2> DEFINE w == [rdsWork[c] EXCEPT !.at = "ask", !.left = rdsMap', !.seen = <<>>]
    <2>1. <<>> \in RdsSeen
      BY DEF RdsSeen
    <2>2. rdsMap' \in SUBSET Instances
      BY <1>0, <1>4 DEF RdsTypes
    <2>3. /\ w \in RdsWorks /\ w.at = "ask" /\ w.left = rdsMap' /\ w.status = rdsWork[c].status
          /\ w.name = rdsWork[c].name
      BY <1>0, <2>1, <2>2 DEF RdsWorks
    <2>4. Goes(c, w)
      BY DEF Store, Proceeds
    <2> QED
      BY <2>3, <2>4
  <1>6. /\ Ongoing' = Ongoing /\ rdsWork' \in [Ongoing -> RdsWorks]
        /\ rdsWork'[c] = w /\ \A d \in Ongoing : d # c => rdsWork'[d] = rdsWork[d]
    BY <1>0, <1>5, WorkGoes
  <1>7. RdsTypes'
    BY <1>0, <1>1, <1>4, <1>6 DEF RdsTypes, BadNow
  <1>8. ReportGrows'
    <2>1. Ended' = Ended
      BY <1>0, <1>5, <1>6 DEF Ended
    <2>2. \A d \in Ended : rdsWork'[d] = rdsWork[d]
      BY <1>0, <1>6 DEF Ended
    <2>3. /\ rdsLock' # Free => rdsLock' \in Ongoing' /\ rdsWork'[rdsLock'].at = "append"
          /\ \A d \in Ongoing' : rdsWork'[d].at = "append" =>
               rdsLock' = d /\ rdsWork'[d].seen = rdsReport'
      BY <1>0, <1>1, <1>5, <1>6 DEF ReportGrows
    <2>4. ReportFits'
      BY <1>0, <1>1, <2>1, <2>2, ReportStays DEF ReportGrows
    <2> QED
      BY <2>3, <2>4 DEF ReportGrows
  <1>9. EmptyListing'
    BY <1>1, <1>3 DEF EmptyListing
  <1>10. \A d \in Ongoing' : ControlSound(d)'
    <2>1. ASSUME NEW d \in Ongoing, d # c PROVE ControlSound(d)'
      <3>1. ControlSound(d) /\ rdsWork'[d] = rdsWork[d]
        BY <1>0, <1>6, <2>1
      <3> QED
        BY <1>1, <1>3, <1>4, <3>1
           DEF ControlSound, NameSound, InstanceEventsVerdict, ForAll, AnyEvent
    <2>2. ControlSound(c)'
      BY <1>0, NamedYet, <1>1, <1>3, <1>5, <1>6 DEF ControlSound, NameSound
    <2> QED
      BY <1>6, <2>1, <2>2
  <1>11. DiesForCause'
    BY <1>0, <1>1 DEF DiesForCause
  <1> QED
    BY <1>7, <1>8, <1>9, <1>10, <1>11 DEF RdsInv, ScanSound

LEMMA StoreRacesKeeps ==
  ASSUME RdsInv, NEW c \in Ongoing, StoreRaces(c)
  PROVE  RdsInv'
  <1>1. /\ rdsAt' = "dead" /\ UNCHANGED <<rdsReal, rdsMap, rdsEvents, rdsWork, rdsReport>>
        /\ UNCHANGED <<rdsBad, rdsTrouble>>
    BY DEF StoreRaces, Panics
  <1>2. rdsTrouble /\ rdsBad \subseteq BadNow
    BY DEF RdsInv, RdsTypes, ScanSound, ControlSound, StoreRaces, Scanning
  <1>3. DiesForCause'
    BY <1>1, <1>2 DEF DiesForCause
  <1> QED
    BY <1>1, <1>2, <1>3, ProcessDies

-----------------------------------------------------------------------------
\* An instance that is bad all along does not pass, and a control that complains
\* without cause asked for one that is not there.
LEMMA AskInstanceKeeps ==
  ASSUME RdsInv, NEW c \in Ongoing, NEW i \in Instances, AskInstance(c, i)
  PROVE  RdsInv'
  <1>0. /\ RdsTypes /\ ControlSound(c) /\ rdsAt = "scan" /\ rdsWork[c].at = "ask"
        /\ rdsWork[c] \in RdsWorks /\ c \in PerInstance /\ i \in rdsWork[c].left
    BY DEF RdsInv, ScanSound, RdsTypes, AskInstance, Scanning
  <1>1. UNCHANGED <<rdsReal, rdsMap, rdsEvents, rdsLock, rdsReport, rdsBad>>
    BY DEF AskInstance
  <1>2. PICK a \in AwsOn(i) :
          /\ Troubled(a, i \in Present \/ a = "silent")
          /\ IF StatusOfDB(c, a, i) = "panic" THEN Panics
             ELSE /\ Goes(c, [rdsWork[c] EXCEPT
                         !.left = @ \ {i},
                         !.status = IF StatusOfDB(c, a, i) = "Pass" THEN @ ELSE "Fail"])
                  /\ UNCHANGED rdsAt
    BY DEF AskInstance
  <1>3. /\ rdsTrouble => rdsTrouble'
        /\ (i \in Present \/ a = "silent") /\ a # "ok" => rdsTrouble'
    BY <1>2, Zenon DEF Troubled
  <1>4. c = "2.3.1" \/ c = "2.3.2" \/ c = "2.3.3"
    BY <1>0 DEF PerInstance
  <1>5. /\ StatusOfDB(c, a, i) = "panic" => a \in {"silent", "complained"}
        /\ StatusOfDB(c, a, i) = "Pass" => rdsReal[i] = "good"
    <2>1. CASE c = "2.3.1"
      <3>1. StatusOfDB(c, a, i) = EncryptionStatusOfDB(a, i)
        BY <2>1 DEF StatusOfDB
      <3> QED
        BY <3>1 DEF EncryptionStatusOfDB
    <2>2. CASE c = "2.3.2"
      <3>1. StatusOfDB(c, a, i) = EncryptionStatusOfDB(a, i)
        BY <2>2 DEF StatusOfDB, AutoMinorVersionOfDB
      <3> QED
        BY <3>1 DEF EncryptionStatusOfDB
    <2>3. CASE c = "2.3.3"
      <3>1. StatusOfDB(c, a, i) = PublicAccessStatusOfDB(a, i)
        BY <2>3 DEF StatusOfDB
      <3> QED
        BY <3>1 DEF PublicAccessStatusOfDB
    <2> QED
      BY <1>4, <2>1, <2>2, <2>3
  <1>6. CASE StatusOfDB(c, a, i) = "panic"
    <2>1. rdsAt' = "dead" /\ UNCHANGED rdsWork
      BY <1>2, <1>6 DEF Panics
    <2>2. rdsTrouble' \/ i \notin Present
      BY <1>3, <1>5, <1>6
    <2>3. i \in rdsMap
      BY <1>0 DEF ControlSound
    <2>4. DiesForCause'
      BY <1>1, <2>2, <2>3 DEF DiesForCause, Present
    <2> QED
      BY <1>0, <1>1, <2>1, <2>4, ProcessDies DEF RdsTypes
  <1>7. CASE StatusOfDB(c, a, i) # "panic"
    <2>1. PICK w \in RdsWorks :
            /\ w.at = "ask" /\ w.left = rdsWork[c].left \ {i}
            /\ w.status = IF StatusOfDB(c, a, i) = "Pass" THEN rdsWork[c].status ELSE "Fail"
            /\ w.name = rdsWork[c].name /\ Goes(c, w)
      <3> DEFINE status == IF StatusOfDB(c, a, i) = "Pass" THEN rdsWork[c].status ELSE "Fail"
                 w == [rdsWork[c] EXCEPT !.left = rdsWork[c].left \ {i}, !.status = status]
      <3>1. status \in Statuses
        BY <1>0 DEF RdsWorks, Statuses
      <3>2. Goes(c, w)
        BY <1>2, <1>7
      <3> HIDE DEF status
      <3>3. /\ w \in RdsWorks /\ w.at = "ask" /\ w.left = rdsWork[c].left \ {i}
            /\ w.status = status /\ w.name = rdsWork[c].name
        BY <1>0, <3>1 DEF RdsWorks
      <3> QED
        BY <3>2, <3>3 DEF status
    <2>2. rdsWork'[c] = w
      BY <1>0, <2>1, WorkGoes
    <2>3. ControlSound(c)'
      <3>1. rdsWork[c].left \subseteq rdsMap
        BY <1>0 DEF ControlSound
      <3>2. ASSUME w.status = "Pass" PROVE rdsBad \cap (rdsMap \ w.left) = {}
        <4>1. rdsWork[c].status = "Pass" /\ rdsReal[i] = "good"
          BY <1>5, <2>1, <3>2
        <4>2. i \notin rdsBad
          BY <1>0, <4>1 DEF RdsTypes, BadNow
        <4>3. rdsBad \cap (rdsMap \ rdsWork[c].left) = {}
          BY <1>0, <4>1 DEF ControlSound
        <4> QED
          BY <2>1, <4>2, <4>3
      <3> QED
        BY <1>0, NamedYet, <1>1, <2>1, <2>2, <3>1, <3>2 DEF ControlSound, NameSound
    <2>4. UNCHANGED rdsAt
      BY <1>2, <1>7
    <2> QED
      BY <1>0, <1>1, <1>3, <2>1, <2>3, <2>4, ControlGoes
  <1> QED
    BY <1>6, <1>7

LEMMA JudgeInstancesKeeps ==
  ASSUME RdsInv, NEW c \in Ongoing, JudgeInstances(c)
  PROVE  RdsInv'
  <1>0. /\ RdsTypes /\ ControlSound(c) /\ rdsAt = "scan" /\ rdsWork[c].at = "ask"
        /\ rdsWork[c] \in RdsWorks /\ c \in PerInstance /\ rdsWork[c].left = {}
    BY DEF RdsInv, ScanSound, RdsTypes, JudgeInstances, Scanning, AllAsked
  <1>1. /\ UNCHANGED <<rdsReal, rdsMap, rdsEvents, rdsLock, rdsReport, rdsBad>>
        /\ UNCHANGED <<rdsAt, rdsTrouble>>
    BY DEF JudgeInstances
  <1>2. PICK w \in RdsWorks :
          /\ w.at = "report" /\ w.status = rdsWork[c].status
          /\ w.name = rdsWork[c].name /\ Goes(c, w)
    <2> DEFINE w == [rdsWork[c] EXCEPT !.at = "report", !.left = {}, !.status = rdsWork[c].status]
    <2>1. /\ w \in RdsWorks /\ w.at = "report" /\ w.status = rdsWork[c].status
          /\ w.name = rdsWork[c].name
      BY <1>0 DEF RdsWorks
    <2>2. Goes(c, w)
      BY DEF JudgeInstances, Ends
    <2> QED
      BY <2>1, <2>2
  <1>3. rdsWork'[c] = w
    BY <1>0, <1>2, WorkGoes
  <1>4. rdsWork[c].status = "Pass" => rdsBad \cap rdsMap = {}
    BY <1>0 DEF ControlSound
  <1>5. c \notin PerRegion /\ c # "4.3.0"
    BY <1>0 DEF PerInstance, PerRegion
  <1>6. ControlSound(c)'
    BY <1>0, NamedYet, <1>1, <1>2, <1>3, <1>4, <1>5 DEF ControlSound, NameSound
  <1> QED
    BY <1>0, <1>1, <1>2, <1>6, ControlGoes

LEMMA AskRegionKeeps ==
  ASSUME RdsInv, NEW c \in Ongoing, AskRegion(c)
  PROVE  RdsInv'
  <1>0. /\ RdsTypes /\ rdsAt = "scan" /\ rdsWork[c].at = "ask"
        /\ rdsWork[c] \in RdsWorks /\ c \in PerRegion
    BY DEF RdsInv, RdsTypes, AskRegion, Scanning
  <1>1. UNCHANGED <<rdsReal, rdsMap, rdsEvents, rdsLock, rdsReport, rdsBad>>
    BY DEF AskRegion
  <1>2. PICK a \in AwsAnswers :
          /\ Troubled(a, TRUE)
          /\ IF a = "silent" THEN Panics
             ELSE Ends(c, RegionVerdict(c, a)) /\ UNCHANGED rdsAt
    BY DEF AskRegion
  <1>3. (rdsTrouble => rdsTrouble') /\ (a # "ok" => rdsTrouble')
    BY <1>2, Zenon DEF Troubled
  <1>4. CASE a = "silent"
    <2>1. rdsAt' = "dead" /\ UNCHANGED rdsWork
      BY <1>2, <1>4 DEF Panics
    <2>2. DiesForCause'
      BY <1>3, <1>4 DEF DiesForCause
    <2> QED
      BY <1>0, <1>1, <2>1, <2>2, ProcessDies DEF RdsTypes
  <1>5. CASE a # "silent"
    <2>1. RegionVerdict(c, a) = MultiAZVerdict(a)
      <3>1. c = "3.5.0" \/ c = "3.8.0"
        BY <1>0 DEF PerRegion
      <3> QED
        BY <3>1 DEF RegionVerdict, BackupRetentionVerdict
    <2>2. RegionVerdict(c, a) \in {"Pass", "Fail"}
          /\ (RegionVerdict(c, a) = "Pass" => BadNow = {})
      BY <2>1 DEF MultiAZVerdict
    <2>3. PICK w \in RdsWorks :
            /\ w.at = "report" /\ w.status = RegionVerdict(c, a) /\ w.name = rdsWork[c].name
            /\ Goes(c, w)
      <3> DEFINE w == [rdsWork[c] EXCEPT !.at = "report", !.left = {},
                                         !.status = RegionVerdict(c, a)]
      <3>1. /\ w \in RdsWorks /\ w.at = "report" /\ w.status = RegionVerdict(c, a)
            /\ w.name = rdsWork[c].name
        BY <1>0, <2>2 DEF RdsWorks, Statuses
      <3>2. Goes(c, w)
        BY <1>2, <1>5 DEF Ends
      <3> QED
        BY <3>1, <3>2
    <2>4. rdsWork'[c] = w
      BY <1>0, <2>3, WorkGoes
    <2>5. w.status = "Pass" => rdsBad = {}
      BY <1>0, <2>2, <2>3 DEF RdsTypes
    <2>6. c \notin PerInstance /\ c # "4.3.0"
      BY <1>0 DEF PerInstance, PerRegion
    <2>7. ControlSound(c)'
      BY <1>0, NamedYet, <1>1, <2>3, <2>4, <2>5, <2>6 DEF ControlSound, NameSound
    <2>8. UNCHANGED rdsAt
      BY <1>2, <1>5
    <2> QED
      BY <1>0, <1>1, <1>3, <2>3, <2>7, <2>8, ControlGoes
  <1> QED
    BY <1>4, <1>5

LEMMA AskEventsKeeps ==
  ASSUME RdsInv, NEW c \in Ongoing, AskEvents(c)
  PROVE  RdsInv'
  <1>0. /\ RdsTypes /\ rdsAt = "scan" /\ rdsWork[c].at = "ask"
        /\ rdsWork[c] \in RdsWorks /\ c \in OfEvents
    BY DEF RdsInv, RdsTypes, AskEvents, Scanning
  <1>1. UNCHANGED <<rdsReal, rdsMap, rdsEvents, rdsLock, rdsReport, rdsBad>>
    BY DEF AskEvents
  <1>2. PICK a \in AwsAnswers :
          /\ Troubled(a, TRUE)
          /\ IF a = "silent" THEN Panics
             ELSE /\ Goes(c, [rdsWork[c] EXCEPT !.at = "report", !.left = rdsMap,
                        !.status = IF a = "complained" THEN "Fail" ELSE EventsVerdict(c)])
                  /\ UNCHANGED rdsAt
    BY DEF AskEvents
  <1>3. (rdsTrouble => rdsTrouble') /\ (a # "ok" => rdsTrouble')
    BY <1>2, Zenon DEF Troubled
  <1>4. CASE a = "silent"
    <2>1. rdsAt' = "dead" /\ UNCHANGED rdsWork
      BY <1>2, <1>4 DEF Panics
    <2>2. DiesForCause'
      BY <1>3, <1>4 DEF DiesForCause
    <2> QED
      BY <1>0, <1>1, <2>1, <2>2, ProcessDies DEF RdsTypes
  <1>5. CASE a # "silent"
    <2> DEFINE status == IF a = "complained" THEN "Fail" ELSE EventsVerdict(c)
    <2>1. /\ EventsVerdict(c) \in Statuses
          /\ c = "4.3.0" => EventsVerdict(c) = InstanceEventsVerdict(rdsEvents, rdsMap)
      <3>1. CASE c = "4.2.0"
        <4>1. EventsVerdict(c) = TopicsVerdict(rdsEvents)
          BY <3>1 DEF EventsVerdict
        <4> QED
          BY <3>1, <4>1 DEF TopicsVerdict, Statuses
      <3>2. CASE c = "4.3.0"
        <4>1. EventsVerdict(c) = InstanceEventsVerdict(rdsEvents, rdsMap)
          BY <3>2 DEF EventsVerdict
        <4> QED
          BY <4>1 DEF InstanceEventsVerdict, Statuses
      <3>3. CASE c = "4.4.0"
        <4>1. EventsVerdict(c) = GroupEventsVerdict(rdsEvents)
          BY <3>3 DEF EventsVerdict
        <4> QED
          BY <3>3, <4>1 DEF GroupEventsVerdict, Statuses
      <3> QED
        BY <1>0, <3>1, <3>2, <3>3 DEF OfEvents
    <2>2. status \in Statuses /\ (status = "Pass" => status = EventsVerdict(c))
      BY <2>1 DEF Statuses
    <2>3. Goes(c, [rdsWork[c] EXCEPT !.at = "report", !.left = rdsMap, !.status = status])
      BY <1>2, <1>5
    <2> HIDE DEF status
    <2>4. PICK w \in RdsWorks :
            /\ w.at = "report" /\ w.left = rdsMap /\ w.status = status
            /\ w.name = rdsWork[c].name /\ Goes(c, w)
      <3> DEFINE w == [rdsWork[c] EXCEPT !.at = "report", !.left = rdsMap, !.status = status]
      <3>1. /\ w \in RdsWorks /\ w.at = "report" /\ w.left = rdsMap /\ w.status = status
            /\ w.name = rdsWork[c].name
        BY <1>0, <2>2 DEF RdsWorks, RdsTypes
      <3> QED
        BY <2>3, <3>1
    <2>5. rdsWork'[c] = w
      BY <1>0, <2>4, WorkGoes
    <2>6. c \notin PerInstance /\ c \notin PerRegion
      BY <1>0 DEF PerInstance, PerRegion, OfEvents
    <2>7. ControlSound(c)'
      <3>1. c = "4.3.0" /\ w.status = "Pass" => InstanceEventsVerdict(rdsEvents, w.left) = "Pass"
        BY <2>1, <2>2, <2>4
      <3>2. c = "4.3.0" /\ w.status = "Pass" =>
              InstanceEventsVerdict(rdsEvents', rdsWork'[c].left) = "Pass"
        BY <1>1, <2>5, <3>1
      <3> QED
        BY <1>0, NamedYet, <1>1, <2>4, <2>5, <2>6, <3>2
           DEF ControlSound, NameSound, InstanceEventsVerdict, ForAll, AnyEvent
    <2>8. UNCHANGED rdsAt
      BY <1>2, <1>5
    <2> QED
      BY <1>0, <1>1, <1>3, <2>4, <2>7, <2>8, ControlGoes
  <1> QED
    BY <1>4, <1>5

-----------------------------------------------------------------------------
\* The lock is taken by one that finds nobody at the report.
LEMMA LockReportKeeps ==
  ASSUME RdsInv, NEW c \in Ongoing, LockReport(c)
  PROVE  RdsInv'
  <1>0. /\ RdsTypes /\ ReportGrows /\ EmptyListing /\ \A d \in Ongoing : ControlSound(d)
        /\ rdsAt = "scan" /\ rdsWork[c].at = "report" /\ rdsLock = Free
        /\ rdsWork[c] \in RdsWorks
    BY DEF RdsInv, ScanSound, RdsTypes, LockReport, Scanning, MayLock
  <1>1. /\ UNCHANGED <<rdsReal, rdsMap, rdsEvents, rdsAt, rdsReport, rdsBad, rdsTrouble>>
        /\ rdsLock' = c
    BY DEF LockReport
  <1>2. PICK w \in RdsWorks :
          /\ w.at = "append" /\ w.seen = rdsReport /\ w.status = rdsWork[c].status
          /\ w.name = rdsWork[c].name /\ Goes(c, w)
    <2> DEFINE w == [rdsWork[c] EXCEPT !.at = "append", !.seen = rdsReport]
    <2>1. rdsReport \in RdsSeen
      BY <1>0 DEF RdsTypes, RdsSeen
    <2>2. /\ w \in RdsWorks /\ w.at = "append" /\ w.seen = rdsReport
          /\ w.status = rdsWork[c].status /\ w.name = rdsWork[c].name
      BY <1>0, <2>1 DEF RdsWorks
    <2>3. Goes(c, w)
      BY DEF LockReport
    <2> QED
      BY <2>2, <2>3
  <1>3. /\ Ongoing' = Ongoing /\ rdsWork' \in [Ongoing -> RdsWorks]
        /\ rdsWork'[c] = w /\ \A d \in Ongoing : d # c => rdsWork'[d] = rdsWork[d]
    BY <1>0, <1>2, WorkGoes
  <1>4. RdsTypes'
    BY <1>0, <1>1, <1>3 DEF RdsTypes, BadNow
  <1>5. ReportGrows'
    <2>1. Ended' = Ended
      BY <1>0, <1>2, <1>3 DEF Ended
    <2>2. \A d \in Ended : rdsWork'[d] = rdsWork[d]
      BY <1>0, <1>3 DEF Ended
    <2>3. \A d \in Ongoing : rdsWork[d].at # "append"
      <3>1. c # Free /\ \A d \in Ongoing : d # Free
        BY <1>0 DEF RdsTypes, Controls, PerInstance, PerRegion, OfEvents, Free
      <3> QED
        BY <1>0, <3>1 DEF ReportGrows
    <2>4. /\ rdsLock' # Free => rdsLock' \in Ongoing' /\ rdsWork'[rdsLock'].at = "append"
          /\ \A d \in Ongoing' : rdsWork'[d].at = "append" =>
               rdsLock' = d /\ rdsWork'[d].seen = rdsReport'
      BY <1>1, <1>2, <1>3, <2>3
    <2>5. ReportFits'
      BY <1>0, <1>1, <2>1, <2>2, ReportStays DEF ReportGrows
    <2> QED
      BY <2>4, <2>5 DEF ReportGrows
  <1>6. EmptyListing'
    BY <1>0, <1>1 DEF EmptyListing
  <1>7. \A d \in Ongoing' : ControlSound(d)'
    <2>1. ASSUME NEW d \in Ongoing, d # c PROVE ControlSound(d)'
      <3>1. ControlSound(d) /\ rdsWork'[d] = rdsWork[d]
        BY <1>0, <1>3, <2>1
      <3> QED
        BY <1>1, <3>1 DEF ControlSound, NameSound, InstanceEventsVerdict, ForAll, AnyEvent
    <2>2. ControlSound(c)'
      BY <1>0, <1>1, <1>2, <1>3 DEF ControlSound, NameSound
    <2> QED
      BY <1>3, <2>1, <2>2
  <1>8. DiesForCause'
    BY <1>0, <1>1 DEF DiesForCause
  <1> QED
    BY <1>4, <1>5, <1>6, <1>7, <1>8 DEF RdsInv, ScanSound

\* What was read under the lock is the report still.
LEMMA AppendResultKeeps ==
  ASSUME RdsInv, NEW c \in Ongoing, AppendResult(c)
  PROVE  RdsInv'
  <1>0. /\ RdsTypes /\ ReportGrows /\ EmptyListing /\ \A d \in Ongoing : ControlSound(d)
        /\ rdsAt = "scan" /\ rdsWork[c].at = "append"
        /\ rdsWork[c] \in RdsWorks
    BY DEF RdsInv, ScanSound, RdsTypes, AppendResult, Scanning
  <1>1. /\ UNCHANGED <<rdsReal, rdsMap, rdsEvents, rdsAt, rdsBad, rdsTrouble>>
        /\ rdsLock' = Free
    BY DEF AppendResult
  <1>2. rdsLock = c /\ rdsWork[c].seen = rdsReport
    BY <1>0 DEF ReportGrows
  <1>3. PICK w \in RdsWorks :
          /\ w.at = "ended" /\ w.status = rdsWork[c].status
          /\ w.name = rdsWork[c].name /\ Goes(c, w)
    <2> DEFINE w == [rdsWork[c] EXCEPT !.at = "ended", !.seen = <<>>]
    <2>1. <<>> \in RdsSeen
      BY DEF RdsSeen
    <2>2. /\ w \in RdsWorks /\ w.at = "ended" /\ w.status = rdsWork[c].status
          /\ w.name = rdsWork[c].name
      BY <1>0, <2>1 DEF RdsWorks
    <2>3. Goes(c, w)
      BY DEF AppendResult
    <2> QED
      BY <2>2, <2>3
  <1>4. /\ Ongoing' = Ongoing /\ rdsWork' \in [Ongoing -> RdsWorks]
        /\ rdsWork'[c] = w /\ \A d \in Ongoing : d # c => rdsWork'[d] = rdsWork[d]
    BY <1>0, <1>3, WorkGoes
  <1>5. PICK r \in RdsResults :
          /\ r.control = rdsWork[c].name /\ r.status = rdsWork[c].status
          /\ rdsReport' = Append(rdsReport, r)
    <2> DEFINE r == [control |-> rdsWork[c].name, status |-> rdsWork[c].status]
    <2>1. r \in RdsResults
      BY <1>0 DEF RdsResults, RdsTypes, RdsWorks
    <2> QED
      BY <1>2, <2>1 DEF AppendResult
  <1>6. /\ rdsReport' \in Seq(RdsResults) /\ Len(rdsReport') = Len(rdsReport) + 1
        /\ Len(rdsReport) \in Nat
        /\ \A k \in 1 .. Len(rdsReport) : rdsReport'[k] = rdsReport[k]
        /\ rdsReport'[Len(rdsReport) + 1] = r
    BY <1>0, <1>5 DEF RdsTypes
  <1>7. RdsTypes'
    BY <1>0, <1>1, <1>4, <1>6 DEF RdsTypes, BadNow
  <1>8. ReportGrows'
    <2>1. Ended' = Ended \cup {c} /\ c \notin Ended
      BY <1>0, <1>3, <1>4 DEF Ended
    <2>2. \A d \in Ended : rdsWork'[d] = rdsWork[d]
      BY <1>0, <1>4 DEF Ended
    <2>3. Cardinality(Ended') = Cardinality(Ended) + 1
      <3>1. Ended \in SUBSET Controls
        BY <1>0 DEF Ended, RdsTypes
      <3>2. IsFiniteSet(Ended)
        BY <3>1, ControlsFinite
      <3> QED
        BY <2>1, <3>2, FS_AddElement
    <2>4. \A d \in Ongoing' : rdsWork'[d].at # "append"
      BY <1>0, <1>2, <1>3, <1>4 DEF ReportGrows
    <2>5. Len(rdsReport') = Cardinality(Ended')
      BY <1>0, <1>6, <2>3 DEF ReportGrows, ReportFits
    <2>6. ASSUME NEW k \in 1 .. Len(rdsReport')
          PROVE  \E d \in Ended' : ResultOf(k, d)'
      <3>1. CASE k = Len(rdsReport) + 1
        BY <1>3, <1>4, <1>5, <1>6, <2>1, <3>1 DEF ResultOf
      <3>2. CASE k # Len(rdsReport) + 1
        <4>1. k \in 1 .. Len(rdsReport)
          BY <1>6, <3>2
        <4>2. PICK d \in Ended : ResultOf(k, d)
          BY <1>0, <4>1 DEF ReportGrows, ReportFits
        <4> QED
          BY <1>6, <2>1, <2>2, <4>1, <4>2 DEF ResultOf
      <3> QED
        BY <3>1, <3>2
    <2>7. ASSUME NEW d \in Ended'
          PROVE  \E k \in 1 .. Len(rdsReport') : ResultOf(k, d)'
      <3>1. CASE d = c
        <4>1. Len(rdsReport) + 1 \in 1 .. Len(rdsReport')
          BY <1>6
        <4> QED
          BY <1>3, <1>4, <1>5, <1>6, <3>1, <4>1 DEF ResultOf
      <3>2. CASE d # c
        <4>1. d \in Ended
          BY <2>1, <2>7, <3>2
        <4>2. PICK k \in 1 .. Len(rdsReport) : ResultOf(k, d)
          BY <1>0, <4>1 DEF ReportGrows, ReportFits
        <4>3. k \in 1 .. Len(rdsReport')
          BY <1>6, <4>2
        <4> QED
          BY <1>6, <2>2, <4>1, <4>2, <4>3 DEF ResultOf
      <3> QED
        BY <3>1, <3>2
    <2>8. ASSUME NEW k \in 1 .. Len(rdsReport), rdsReport[k].control = r.control
          PROVE  rdsReport[k].control = Nameless
      <3>1. PICK d \in Ended : rdsReport[k].control = rdsWork[d].name
        BY <1>0 DEF ReportGrows, ReportFits, ResultOf
      <3>2. d # c /\ d \in Ongoing /\ NameSound(c) /\ NameSound(d)
        BY <1>0, <2>1, <3>1 DEF Ended, ControlSound
      <3> QED
        BY <1>5, <2>8, <3>1, <3>2 DEF NameSound
    <2>9. ASSUME NEW k \in 1 .. Len(rdsReport'), NEW l \in 1 .. Len(rdsReport'),
                 rdsReport'[k].control = rdsReport'[l].control, k # l
          PROVE  rdsReport'[k].control = Nameless
      <3>1. CASE k = Len(rdsReport) + 1
        <4>1. l \in 1 .. Len(rdsReport)
          BY <1>6, <2>9, <3>1
        <4> QED
          BY <1>6, <2>8, <2>9, <3>1, <4>1
      <3>2. CASE l = Len(rdsReport) + 1
        <4>1. k \in 1 .. Len(rdsReport)
          BY <1>6, <2>9, <3>2
        <4> QED
          BY <1>6, <2>8, <2>9, <3>2, <4>1
      <3>3. CASE k # Len(rdsReport) + 1 /\ l # Len(rdsReport) + 1
        <4>1. k \in 1 .. Len(rdsReport) /\ l \in 1 .. Len(rdsReport)
          BY <1>6, <3>3
        <4>2. rdsReport[k].control = rdsReport[l].control
          BY <1>6, <2>9, <4>1
        <4> QED
          BY <1>0, <1>6, <2>9, <4>1, <4>2 DEF ReportGrows, ReportFits
      <3> QED
        BY <3>1, <3>2, <3>3
    <2>10. ReportFits'
      BY <2>5, <2>6, <2>7, <2>9 DEF ReportFits
    <2> QED
      BY <1>1, <2>4, <2>10 DEF ReportGrows
  <1>9. EmptyListing'
    BY <1>0, <1>1 DEF EmptyListing
  <1>10. \A d \in Ongoing' : ControlSound(d)'
    <2>1. ASSUME NEW d \in Ongoing, d # c PROVE ControlSound(d)'
      <3>1. ControlSound(d) /\ rdsWork'[d] = rdsWork[d]
        BY <1>0, <1>4, <2>1
      <3> QED
        BY <1>1, <3>1 DEF ControlSound, NameSound, InstanceEventsVerdict, ForAll, AnyEvent
    <2>2. ControlSound(c)'
      BY <1>0, <1>1, <1>3, <1>4 DEF ControlSound, NameSound
    <2> QED
      BY <1>4, <2>1, <2>2
  <1>11. DiesForCause'
    BY <1>0, <1>1 DEF DiesForCause
  <1> QED
    BY <1>7, <1>8, <1>9, <1>10, <1>11 DEF RdsInv, ScanSound

LEMMA ScanEndsKeeps ==
  ASSUME RdsInv, ScanEnds
  PROVE  RdsInv'
  <1>1. /\ RdsTypes /\ ReportGrows /\ rdsAt = "scan" /\ rdsAt' = "idle"
        /\ UNCHANGED <<rdsReal, rdsMap, rdsEvents, rdsWork, rdsLock, rdsReport, rdsBad>>
        /\ \A c \in Ongoing : rdsWork[c].at = "ended"
    BY DEF RdsInv, ScanSound, ScanEnds
  <1>2. rdsLock = Free
    BY <1>1 DEF ReportGrows
  <1>3. RdsTypes'
    BY <1>1, <1>2 DEF RdsTypes, BadNow, Ongoing
  <1> QED
    BY <1>1, <1>3 DEF RdsInv, ScanSound, DiesForCause

\* A tick starts over, with the instances that are bad now.
LEMMA ValidateKeeps ==
  ASSUME RdsInv, Validate
  PROVE  RdsInv'
  <1>0. RdsTypes /\ rdsAt = "idle" /\ rdsLock = Free
    BY DEF RdsInv, RdsTypes, Validate
  <1>1. UNCHANGED <<rdsReal, rdsEvents, rdsLock>> /\ rdsBad' = BadNow /\ BadNow' = BadNow
    BY DEF Validate, BadNow
  <1>2. ASSUME StartScan, rdsMap' \in SUBSET Instances,
               rdsMap' = {} => BadNow = {} /\ rdsTrouble'
        PROVE  RdsInv'
    <2>1. rdsAt' = "scan" /\ rdsWork' = [c \in Ongoing |-> Idle(c)] /\ Ongoing' = Ongoing
      BY <1>2 DEF StartScan, Ongoing
    <2>2. rdsReport' \in Seq(RdsResults) /\ Len(rdsReport') = 0
      <3>1. rdsReport' = <<>>
        BY <1>2 DEF StartScan
      <3> QED
        BY <3>1
    <2>3. \A c \in Ongoing : rdsWork'[c] = Idle(c)
      BY <2>1
    <2>4. rdsWork' \in [Ongoing' -> RdsWorks]
      BY <1>0, <2>1, IdleWork DEF RdsTypes
    <2>5. RdsTypes'
      BY <1>0, <1>1, <1>2, <2>1, <2>2, <2>4 DEF RdsTypes
    <2>6. Ended' = {}
      BY <1>0, <2>1, <2>3, IdleWork DEF Ended, RdsTypes
    <2>7. ReportGrows'
      <3>1. Cardinality(Ended') = 0
        BY <2>6, FS_EmptySet
      <3>2. \A c \in Ongoing' : rdsWork'[c].at # "append"
        BY <1>0, <2>1, <2>3, IdleWork DEF RdsTypes
      <3>3. ReportFits'
        BY <2>2, <2>6, <3>1 DEF ReportFits
      <3> QED
        BY <1>0, <1>1, <3>2, <3>3 DEF ReportGrows
    <2>8. EmptyListing'
      BY <1>1, <1>2 DEF EmptyListing
    <2>9. \A c \in Ongoing' : ControlSound(c)'
      <3>1. ASSUME NEW c \in Ongoing PROVE ControlSound(c)'
        <4>1. /\ rdsWork'[c].at \in {"look", "ask"} /\ rdsWork'[c].name = c
              /\ c \in PerInstance => rdsWork'[c].at = "look"
          BY <1>0, <2>3, IdleWork DEF RdsTypes
        <4> QED
          BY <4>1 DEF ControlSound, NameSound
      <3> QED
        BY <2>1, <3>1
    <2> QED
      BY <2>1, <2>5, <2>7, <2>8, <2>9 DEF RdsInv, ScanSound, DiesForCause
  <1>3. CASE rdsMap # {}
    <2>1. StartScan /\ rdsMap' = rdsMap
      BY <1>3 DEF Validate
    <2> QED
      BY <1>0, <1>2, <1>3, <2>1 DEF RdsTypes
  <1>4. CASE rdsMap = {}
    <2>1. PICK a \in AwsAnswers :
            /\ rdsTrouble' = (rdsTrouble \/ a # "ok" \/ Present = {})
            /\ CASE a \in {"ok", "warned"} -> rdsMap' = Present /\ StartScan
                 [] a = "complained" -> rdsAt' = "dead"
                                        /\ UNCHANGED <<rdsMap, rdsWork, rdsReport>>
                 [] a = "silent"     -> rdsReport' = <<>>
                                        /\ UNCHANGED <<rdsMap, rdsWork, rdsAt>>
      BY <1>4 DEF Validate
    <2>2. (a # "ok" => rdsTrouble') /\ (Present = {} => rdsTrouble')
      BY <2>1, Zenon
    <2>3. CASE a \in {"ok", "warned"}
      <3>1. rdsMap' = Present /\ StartScan
        BY <2>1, <2>3
      <3>2. Present = {} => BadNow = {}
        BY DEF Present, BadNow
      <3> QED
        BY <1>2, <2>2, <3>1, <3>2 DEF Present
    <2>4. CASE a = "complained"
      <3>1. rdsAt' = "dead" /\ UNCHANGED <<rdsMap, rdsWork, rdsReport>>
        BY <2>1, <2>4
      <3>2. DiesForCause'
        BY <2>2, <2>4 DEF DiesForCause
      <3> QED
        BY <1>1, <3>1, <3>2, ProcessDies
    <2>5. CASE a = "silent"
      <3>1. rdsReport' = <<>> /\ UNCHANGED <<rdsMap, rdsWork, rdsAt>>
        BY <2>1, <2>5
      <3>2. rdsReport' \in Seq(RdsResults)
        <4>1. rdsReport' = <<>>
          BY <3>1
        <4> QED
          BY <4>1
      <3>3. RdsTypes'
        BY <1>0, <1>1, <3>1, <3>2 DEF RdsTypes, Ongoing
      <3> QED
        BY <1>0, <3>1, <3>3 DEF RdsInv, ScanSound, DiesForCause
    <2> QED
      BY <2>3, <2>4, <2>5 DEF AwsAnswers
  <1> QED
    BY <1>3, <1>4

LEMMA ChangeInstanceKeeps ==
  ASSUME RdsInv, NEW i \in Instances, ChangeInstance(i)
  PROVE  RdsInv'
  <1>1. /\ RdsTypes /\ ScanSound /\ rdsAt # "dead"
        /\ rdsBad' = rdsBad \ {i}
        /\ UNCHANGED <<rdsMap, rdsEvents, rdsAt, rdsWork, rdsLock, rdsReport, rdsTrouble>>
    BY DEF RdsInv, ChangeInstance
  <1>2. PICK r \in {"absent", "good", "bad"} : rdsReal' = [rdsReal EXCEPT ![i] = r]
    BY DEF ChangeInstance
  <1>3. /\ rdsReal' \in [Instances -> {"absent", "good", "bad"}]
        /\ \A j \in Instances \ {i} : rdsReal'[j] = rdsReal[j]
    BY <1>1, <1>2 DEF RdsTypes
  <1>4. rdsBad' \subseteq BadNow' /\ rdsBad' \subseteq rdsBad
    BY <1>1, <1>3 DEF RdsTypes, BadNow
  <1>5. RdsTypes'
    BY <1>1, <1>3, <1>4 DEF RdsTypes, Ongoing
  <1>6. ScanSound'
    <2> SUFFICES ASSUME rdsAt = "scan"
                 PROVE  ReportGrows' /\ EmptyListing' /\ \A c \in Ongoing' : ControlSound(c)'
      BY <1>1 DEF ScanSound
    <2>1. ReportGrows /\ EmptyListing /\ \A c \in Ongoing : ControlSound(c)
      BY <1>1 DEF ScanSound
    <2>2. Ongoing' = Ongoing /\ Ended' = Ended
      BY <1>1 DEF Ongoing, Ended
    <2>3. ReportGrows'
      BY <1>1, <2>1, <2>2 DEF ReportGrows, ReportFits, ResultOf
    <2>4. EmptyListing'
      BY <1>1, <1>4, <2>1 DEF EmptyListing
    <2>5. ASSUME NEW c \in Ongoing PROVE ControlSound(c)'
      BY <1>1, <1>4, <2>1, <2>5 DEF ControlSound, NameSound, InstanceEventsVerdict, ForAll, AnyEvent
    <2> QED
      BY <2>2, <2>3, <2>4, <2>5
  <1> QED
    BY <1>1, <1>5, <1>6 DEF RdsInv, DiesForCause

LEMMA RdsInvNext == RdsInv /\ [RdsNext]_rdsVars => RdsInv'
  <1> SUFFICES ASSUME RdsInv, [RdsNext]_rdsVars PROVE RdsInv'
    OBVIOUS
  <1>1. CASE UNCHANGED rdsVars
    <2>1. /\ UNCHANGED <<rdsReal, rdsMap, rdsEvents, rdsAt, rdsWork, rdsLock>>
          /\ UNCHANGED <<rdsReport, rdsBad, rdsTrouble>>
      BY <1>1 DEF rdsVars
    <2>2. RdsTypes' /\ DiesForCause'
      BY <2>1 DEF RdsInv, RdsTypes, BadNow, Ongoing, DiesForCause, Present
    <2>3. ScanSound'
      <3> SUFFICES ASSUME rdsAt = "scan"
                   PROVE  ReportGrows' /\ EmptyListing' /\ \A c \in Ongoing' : ControlSound(c)'
        BY <2>1 DEF ScanSound
      <3>1. ReportGrows /\ EmptyListing /\ \A c \in Ongoing : ControlSound(c)
        BY DEF RdsInv, ScanSound
      <3>2. Ongoing' = Ongoing /\ Ended' = Ended
        BY <2>1 DEF Ongoing, Ended
      <3>3. ReportGrows' /\ EmptyListing'
        BY <2>1, <3>1, <3>2 DEF ReportGrows, ReportFits, ResultOf, EmptyListing
      <3>4. ASSUME NEW c \in Ongoing PROVE ControlSound(c)'
        BY <2>1, <3>1, <3>4, ZenonT(60) DEF ControlSound, NameSound, InstanceEventsVerdict, ForAll, AnyEvent
      <3> QED
        BY <3>2, <3>3, <3>4
    <2> QED
      BY <2>2, <2>3 DEF RdsInv
  <1>2. CASE \E c \in Ongoing :
               \/ Look(c) \/ Store(c) \/ StoreRaces(c)
               \/ \E i \in Instances : AskInstance(c, i)
               \/ JudgeInstances(c) \/ AskRegion(c) \/ AskEvents(c)
               \/ LockReport(c) \/ AppendResult(c)
    BY <1>2, LookKeeps, StoreKeeps, StoreRacesKeeps, AskInstanceKeeps, JudgeInstancesKeeps,
       AskRegionKeeps, AskEventsKeeps, LockReportKeeps, AppendResultKeeps
  <1> QED
    BY <1>1, <1>2, ValidateKeeps, ScanEndsKeeps, ChangeInstanceKeeps DEF RdsNext

-----------------------------------------------------------------------------
\* Counting the names of one subscription is as good as comparing them, as long
\* as they are names of known instances.
LEMMA CountsCover ==
  ASSUME NEW subs \in Seq(Subscriptions), NEW known \in SUBSET Instances,
         InstanceEventsVerdict(subs, known) = "Pass"
  PROVE  \/ \A i \in known : \E k \in DOMAIN subs : Covers(subs[k], i)
         \/ \E k \in DOMAIN subs : subs[k].ids # NoList /\ ~(subs[k].ids[1] \subseteq known)
  <1>1. CASE \E k \in DOMAIN subs : ForAll(subs[k], "db-instance")
    BY <1>1 DEF ForAll, AnyEvent, Covers
  <1>2. CASE ~\E k \in DOMAIN subs : ForAll(subs[k], "db-instance")
    <2>1. /\ Len(subs) = 1 /\ subs[1].type = "db-instance" /\ subs[1].events # "some"
          /\ subs[1].ids = NoList \/ Cardinality(subs[1].ids[1]) = Cardinality(known)
      BY <1>2 DEF InstanceEventsVerdict
    <2>2. 1 \in DOMAIN subs
      BY <2>1
    <2>3. CASE subs[1].ids = NoList
      BY <2>1, <2>2, <2>3 DEF Covers
    <2>4. CASE subs[1].ids # NoList
      <3> SUFFICES ASSUME subs[1].ids[1] \subseteq known
                   PROVE  \A i \in known : i \in subs[1].ids[1]
        BY <2>1, <2>2, <2>4 DEF Covers
      <3>1. IsFiniteSet(known)
        BY RdsAssumption, FS_Subset
      <3> QED
        BY <2>1, <2>4, <3>1, FS_Subset
    <2> QED
      BY <2>3, <2>4
  <1> QED
    BY <1>1, <1>2

LEMMA ReportTells == RdsInv => RdsReportSound
  <1> SUFFICES ASSUME RdsInv PROVE RdsReportSound
    OBVIOUS
  <1>1. ASSUME Complete
        PROVE  /\ ReportGrows /\ Ended = Ongoing /\ \A c \in Ongoing : ControlSound(c)
               /\ DOMAIN rdsReport = 1 .. Len(rdsReport)
    BY <1>1 DEF RdsInv, RdsTypes, ScanSound, Complete, Ended
  <1>2. ASSUME Complete, NEW c \in Ongoing
        PROVE  \/ Reported(c) # {} /\ (Reported(c) = {"Pass"} => rdsWork[c].status = "Pass")
               \/ c \in NamedLate /\ rdsTrouble /\ Reported(Nameless) = {"Fail"}
    <2>1. PICK k \in 1 .. Len(rdsReport) : ResultOf(k, c)
      BY <1>1, <1>2 DEF ReportGrows, ReportFits
    <2>2. NameSound(c)
      BY <1>1, <1>2 DEF ControlSound
    <2>3. CASE rdsWork[c].name = c
      BY <1>1, <1>2, <2>1, <2>3 DEF ResultOf, Reported
    <2>4. CASE rdsWork[c].name # c
      <3>1. c \in NamedLate /\ rdsTrouble /\ rdsReport[k].control = Nameless
            /\ rdsReport[k].status = "Fail"
        BY <2>1, <2>2, <2>4 DEF NameSound, ResultOf
      <3>2. ASSUME NEW l \in 1 .. Len(rdsReport), rdsReport[l].control = Nameless
            PROVE  rdsReport[l].status = "Fail"
        <4>1. PICK d \in Ongoing : ResultOf(l, d) /\ NameSound(d)
          BY <1>1, <1>2 DEF ReportGrows, ReportFits, ControlSound
        <4>2. d # Nameless
          BY DEF RdsInv, RdsTypes, Controls, PerInstance, PerRegion, OfEvents, Nameless
        <4> QED
          BY <3>2, <4>1, <4>2 DEF NameSound, ResultOf
      <3> QED
        BY <1>1, <1>2, <3>1, <3>2 DEF Reported
    <2> QED
      BY <2>3, <2>4
  <1>21. WholeReport
    BY <1>1, <1>2 DEF WholeReport, ReportGrows, ReportFits
  <1>3. ViolationReported
    <2> SUFFICES ASSUME Complete, NEW c \in Ongoing, Reported(c) = {"Pass"}
                 PROVE  /\ c \in PerRegion   => rdsBad = {}
                        /\ c \in PerInstance => rdsBad \cap rdsMap = {}
      BY DEF ViolationReported
    <2>1. c \in PerRegion \cup PerInstance => rdsWork[c].status = "Pass"
      BY <1>2 DEF NamedLate, PerRegion, PerInstance
    <2>2. rdsWork[c].at = "ended"
      BY <1>1 DEF Ended
    <2> QED
      BY <1>1, <2>1, <2>2 DEF ControlSound
  <1>4. PassCovers
    <2> SUFFICES ASSUME NEW c \in Ongoing \cap {"4.3.0"}, Scanning(c, "report"),
                        rdsWork[c].status = "Pass"
                 PROVE  \/ \A i \in rdsWork[c].left :
                             \E k \in DOMAIN rdsEvents : Covers(rdsEvents[k], i)
                        \/ \E k \in DOMAIN rdsEvents :
                             /\ rdsEvents[k].ids # NoList
                             /\ ~(rdsEvents[k].ids[1] \subseteq rdsWork[c].left)
      BY DEF PassCovers
    <2>1. InstanceEventsVerdict(rdsEvents, rdsWork[c].left) = "Pass"
      BY DEF RdsInv, ScanSound, ControlSound, Scanning
    <2>2. rdsEvents \in Seq(Subscriptions) /\ rdsWork[c].left \in SUBSET Instances
      BY DEF RdsInv, RdsTypes, RdsWorks
    <2> QED
      BY <2>1, <2>2, CountsCover
  <1> QED
    BY <1>21, <1>3, <1>4 DEF RdsReportSound

LEMMA RdsInvHolds == Spec => [](IF runner = "rds" THEN RdsInv ELSE RdsRests)
  <1> DEFINE Inv == IF runner = "rds" THEN RdsInv ELSE RdsRests
  <1>1. Init => Inv
    BY Starts0, RdsInvInit
  <1>2. Inv /\ [Next]_vars => Inv'
    <2> SUFFICES ASSUME Inv, [Next]_vars PROVE Inv'
      OBVIOUS
    <2>1. CASE runner = "rds"
      BY <2>1, Moves, RdsInvNext
    <2>2. CASE runner # "rds"
      <3>1. UNCHANGED rdsVars /\ UNCHANGED runner
        BY <2>2, Moves
      <3> QED
        BY <2>2, <3>1 DEF rdsVars, RdsRests, RdsStart
    <2> QED
      BY <2>1, <2>2
  <1> QED
    BY <1>1, <1>2, PTL DEF Spec

\* The report of a tick is whole but for two names (4.3.0.go:134), an instance
\* that is bad all through it is in the report, and events that are said to be
\* covered are (check.go:54-57, 4.2.0.go:101, 4.3.0.go:235).
THEOREM RdsReportSoundHolds == Spec => []RdsReportSound
  <1>1. RdsRests => RdsReportSound
    <2>1. RdsRests => rdsAt = "idle"
      BY DEF RdsRests, RdsStart
    <2>2. rdsAt = "idle" => RdsReportSound
      BY DEF RdsReportSound, WholeReport, ViolationReported, PassCovers, Complete, Scanning
    <2> QED
      BY <2>1, <2>2
  <1>2. (IF runner = "rds" THEN RdsInv ELSE RdsRests) => RdsReportSound
    BY <1>1, ReportTells
  <1> QED
    BY <1>2, RdsInvHolds, PTL
-----------------------------------------------------------------------------
(* MySqlSuite.                                                               *)

\* What brings a check down.
MayPanic(c, a) ==
  \/ c \in {"mysqlPwd", "pwdProfile"} /\ Exit(a) = 0
  \/ c \in {"logBin", "sslKey"} /\ a = Gone
  \/ /\ c \in {"leastPrivileged", "interactive", "dataDir", "logError",
               "slowLog", "generalLog", "pluginDir", "udfs"}
     /\ Exit(a) = 0 /\ Said(a)

\* A check passes the answer the benchmark asks for and fails the violation, but
\* for the ones named, and panics for its cause alone.
AsBenchmark(c, check) ==
  /\ check.good \in DOMAIN check.verdict /\ check.good # <<>>
  /\ check.bad \in DOMAIN check.verdict /\ check.bad # <<>>
  /\ \/ check.verdict[check.good] = "Pass"
     \/ /\ check.verdict[check.good] = "Fail"
        /\ c \in {"secureTransport", "sourceSsl", "masterInfo", "sslTls"}
  /\ check.verdict[check.bad] # "Pass" \/ c \in {"bindAddr", "auditLog", "connLimits"}
  /\ Stricter \in DOMAIN check.verdict => c = "expiry"
  /\ Unseen \in DOMAIN check.verdict => c \in PartlyBlind
  /\ check.good \notin {Stricter, Unseen} /\ check.bad \notin {Stricter, Unseen}
  /\ \A a \in DOMAIN check.verdict : check.verdict[a] = "panic" => MayPanic(c, a)

\* Answers are told apart.
LEMMA AnswersDiffer ==
  /\ Down # None /\ Down # Good /\ Down # Bad /\ None # Good /\ None # Bad /\ Good # Bad
  /\ Gone # Down /\ Gone # None /\ Gone # Good /\ Gone # Bad
  /\ Unseen # Down /\ Unseen # None /\ Unseen # Good /\ Unseen # Bad /\ Unseen # Gone
  /\ Stricter # Down /\ Stricter # None /\ Stricter # Good /\ Stricter # Bad
  /\ Stricter # Gone /\ Stricter # Unseen
  /\ Down # <<>> /\ None # <<>> /\ Good # <<>> /\ Bad # <<>>
  BY DEF Down, None, Good, Bad, Gone, Unseen, Stricter

LEMMA ShellWords ==
  /\ Out(Found) = TRUE /\ Said(Found) = FALSE /\ Exit(Found) = 0
  /\ Out(NoMatch) = FALSE /\ Said(NoMatch) = FALSE /\ Exit(NoMatch) = 1
  /\ Out(NoFile) = FALSE /\ Said(NoFile) = FALSE /\ Exit(NoFile) = 0
  /\ Found # <<>> /\ NoMatch # <<>> /\ NoFile # <<>>
  BY DEF Found, NoMatch, NoFile, Shell, Out, Said, Exit

LEMMA ShellAnswers ==
  /\ Found \in Greps /\ NoMatch \in Greps /\ Found \in Finds /\ NoFile \in Finds
  <1>1. /\ Found \in BOOLEAN \X BOOLEAN \X {0, 1, 2} /\ NoMatch \in BOOLEAN \X BOOLEAN \X {0, 1, 2}
        /\ Found \in BOOLEAN \X BOOLEAN \X {0, 1} /\ NoFile \in BOOLEAN \X BOOLEAN \X {0, 1}
    BY DEF Found, NoMatch, NoFile, Shell
  <1> QED
    BY <1>1, ShellWords DEF Greps, Finds

LEMMA ShellIsNoQuery ==
  \A a \in Greps \cup Finds :
    a # Down /\ a # None /\ a # Bad /\ a # Good /\ a # Unseen /\ a # Stricter
  <1> TAKE a \in Greps \cup Finds
  <1>1. PICK x \in BOOLEAN, y \in BOOLEAN, z \in {0, 1, 2} : a = <<x, y, z>>
    BY DEF Greps, Finds
  <1>2. <<x, y, z>> # Down
    BY DEF Down
  <1>3. <<x, y, z>> # None
    BY DEF None
  <1>4. <<x, y, z>> # Bad
    BY DEF Bad
  <1>5. <<x, y, z>> # Good
    BY DEF Good
  <1>6. <<x, y, z>> # Unseen
    BY DEF Unseen
  <1>7. <<x, y, z>> # Stricter
    BY DEF Stricter
  <1> QED
    BY <1>1, <1>2, <1>3, <1>4, <1>5, <1>6, <1>7

\* A query for a value judges each answer by whether it is one that passes.
LEMMA AmongJudges ==
  ASSUME NEW n, NEW others, NEW passes
  PROVE  LET k == ValueAmong(n, others, passes) IN
         /\ k.good = Good /\ k.bad = Bad /\ DOMAIN k.verdict = {Down, None, Good, Bad} \cup others
         /\ \A a \in {Down, None, Good, Bad} \cup others :
              k.verdict[a] = IF a \in passes THEN "Pass" ELSE "Fail"
  BY DEF ValueAmong, Judging

LEMMA ValueJudges ==
  ASSUME NEW n, NEW passes
  PROVE  LET k == Value(n, passes) IN
         /\ k.good = Good /\ k.bad = Bad /\ DOMAIN k.verdict = {Down, None, Good, Bad}
         /\ \A a \in {Down, None, Good, Bad} : k.verdict[a] = IF a \in passes THEN "Pass" ELSE "Fail"
  BY DEF Value, ValueAmong, Judging

LEMMA ValueJudged ==
  ASSUME NEW c, NEW n, NEW passes, Good \in passes, Bad \notin passes
  PROVE  AsBenchmark(c, Value(n, passes))
  BY ValueJudges, AnswersDiffer, SMTT(40) DEF AsBenchmark

LEMMA AmongJudged ==
  ASSUME NEW c \in PartlyBlind, NEW n, NEW passes, Good \in passes \/ c = "sslTls",
         Bad \notin passes
  PROVE  AsBenchmark(c, ValueAmong(n, {Unseen}, passes))
  <1>1. "Pass" # "panic" /\ "Fail" # "panic"
    BY SMTT(40)
  <1> QED
    BY <1>1, AmongJudges, AnswersDiffer, SMTT(40) DEF AsBenchmark

\* All 45 checks of the catalogue.
LEMMA CatalogueJudged == \A c \in DOMAIN MySqlCheck : AsBenchmark(c, MySqlCheck[c])
<1>1. /\ AsBenchmark("nps", IsDBOnNPS)
      /\ AsBenchmark("pointInTime", PointInTimeRec)
      /\ AsBenchmark("binlogs", BinaryRelayLogs)
      /\ AsBenchmark("resetLt", ResetPassLt)
      /\ AsBenchmark("currentLt", CurrentPassLt)
      /\ AsBenchmark("encryption", BlockEncryp)
      /\ AsBenchmark("clientCert", ClientCert)
      /\ AsBenchmark("relayLog", RelayLogBasenamePerm)
    BY ValueJudged, AnswersDiffer DEF IsDBOnNPS, PointInTimeRec, BinaryRelayLogs,
       ResetPassLt, CurrentPassLt, BlockEncryp, ClientCert, RelayLogBasenamePerm
<1>2. /\ AsBenchmark("symlink", SymbolicLink)
      /\ AsBenchmark("filePriv", SecureFilePriv)
      /\ AsBenchmark("sqlMode", SQLMode)
      /\ AsBenchmark("errorLog", LogError)
      /\ AsBenchmark("logFiles", LogFiles)
      /\ AsBenchmark("verbosity", LogErrorVerbosity)
      /\ AsBenchmark("authPlugin", DefaultAuthPlugin)
      /\ AsBenchmark("complexity", PassComplexPolicies)
    BY ValueJudged, AnswersDiffer DEF SymbolicLink, SecureFilePriv, SQLMode, LogError,
       LogFiles, LogErrorVerbosity, DefaultAuthPlugin, PassComplexPolicies
<1>8. /\ AsBenchmark("defaultLt", DefaultPassLt)
      /\ AsBenchmark("tls", TLS)
      /\ AsBenchmark("sslTls", SSLTLS)
      /\ AsBenchmark("testDb", TestDBOnServer)
    BY AmongJudged, AnswersDiffer DEF DefaultPassLt, TLS, SSLTLS, TestDBOnServer, PartlyBlind
<1>9. AsBenchmark("expiry", DPLPassExp)
    BY AmongJudges, AnswersDiffer DEF AsBenchmark, DPLPassExp, PartlyBlind
<1>3. /\ AsBenchmark("bindAddr", BindAddr)
      /\ AsBenchmark("auditLog", AuditLogFilePerm)
      /\ AsBenchmark("secureTransport", RequireSecureTransport)
      /\ AsBenchmark("connLimits", MaxConnLimits)
      /\ AsBenchmark("sourceSsl", SOURCESSL)
      /\ AsBenchmark("masterInfo", MasterInfoRepo)
    BY ValueJudges, AnswersDiffer, SMTT(40) DEF AsBenchmark, BindAddr, AuditLogFilePerm,
       RequireSecureTransport, MaxConnLimits, SOURCESSL, MasterInfoRepo
<1>4. /\ AsBenchmark("skipGrant", PrefixMySqld)
      /\ AsBenchmark("memcached", DaemonMemcached)
      /\ AsBenchmark("passwords", PassForAllAcc)
      /\ AsBenchmark("wildcards", WildcardHostnames)
      /\ AsBenchmark("anonymous", AnonymousAccounts)
    BY AnswersDiffer DEF AsBenchmark, ListAmong, Violations, Judging, PrefixMySqld, DaemonMemcached,
       PassForAllAcc, WildcardHostnames, AnonymousAccounts, PartlyBlind
<1>5. /\ AsBenchmark("logBin", LogBinBasenamePerm)
      /\ AsBenchmark("sslKey", SSLKeyFilePerm)
    BY AnswersDiffer DEF AsBenchmark, Judging, MayPanic, LogBinBasenamePerm, SSLKeyFilePerm
<1>6. /\ AsBenchmark("leastPrivileged", LeastPrivileged)
      /\ AsBenchmark("history", CheckCommandHistory)
      /\ AsBenchmark("mysqlPwd", CheckMYSQLPWD)
      /\ AsBenchmark("interactive", CheckInteractiveLogin)
      /\ AsBenchmark("pwdProfile", CheckMYSQLPWDUserProfile)
      /\ AsBenchmark("udfs", AllowSuspiciousUdfs)
    BY ShellWords, ShellAnswers, ShellIsNoQuery, AnswersDiffer, SMTT(40) DEF AsBenchmark, Judging, Matched, Complains, Complaint,
       MayPanic, Finds, LeastPrivileged, CheckCommandHistory, CheckMYSQLPWD,
       CheckInteractiveLogin, CheckMYSQLPWDUserProfile, AllowSuspiciousUdfs
<1>7. /\ AsBenchmark("dataDir", DataDirPerm)
      /\ AsBenchmark("logError", LogErrorPerm)
      /\ AsBenchmark("slowLog", SlowQueryLogPerm)
      /\ AsBenchmark("generalLog", GeneralLogFilePerm)
      /\ AsBenchmark("pluginDir", PluginDirPerm)
    BY ShellWords, ShellAnswers, ShellIsNoQuery, AnswersDiffer DEF AsBenchmark, Listed, Judging, Matched, Complains,
       Complaint, MayPanic, DataDirPerm, LogErrorPerm, SlowQueryLogPerm,
       GeneralLogFilePerm, PluginDirPerm
<1> QED
  BY <1>1, <1>2, <1>3, <1>4, <1>5, <1>6, <1>7, <1>8, <1>9 DEF MySqlCheck

\* The list has every check of the catalogue once.
LEMMA PlaceUnique == \A i, j \in DOMAIN CheckList : CheckList[i] = CheckList[j] => i = j
  BY DEF CheckList

LEMMA ListNames ==
  /\ Len(CheckList) = 45 /\ DOMAIN CheckList = 1 .. 45
  /\ \A i \in 1 .. 45 : CheckList[i] \in DOMAIN MySqlCheck
  BY DEF CheckList, MySqlCheck

LEMMA NameListed == \A c \in DOMAIN MySqlCheck : \E i \in 1 .. 45 : CheckList[i] = c
  BY SMTT(40) DEF CheckList, MySqlCheck

LEMMA PlaceOf ==
  ASSUME NEW i \in 1 .. 45
  PROVE  Place(CheckList[i]) = i
  BY PlaceUnique, ListNames DEF Place

\* Every status some check gives to some answer.
AllVerdicts ==
  UNION {{MySqlCheck[c].verdict[a] : a \in DOMAIN MySqlCheck[c].verdict} : c \in DOMAIN MySqlCheck}

\* What the check at a place was answered.
AnswerGiven(i) == IF CheckList[i] = myWatch THEN myAnswer ELSE MySqlCheck[CheckList[i]].good
VerdictOf(i) == MySqlCheck[CheckList[i]].verdict

ScoreCounted == [sec \in 0 .. 10 |-> Count(sec)]

\* Every status is the verdict of its check on what it was answered, and the
\* score counts them.
MyInv ==
  /\ myWatch \in DOMAIN MySqlCheck
  /\ myStatuses \in Seq(AllVerdicts) /\ Len(myStatuses) <= 45
  /\ \A i \in 1 .. Len(myStatuses) :
       AnswerGiven(i) \in DOMAIN VerdictOf(i) /\ myStatuses[i] = VerdictOf(i)[AnswerGiven(i)]
  /\ (\A i \in 1 .. Len(myStatuses) : CheckList[i] # myWatch) => myAnswer = <<>>
  /\ myScore # <<>> => Len(myStatuses) = 45 /\ myScore[1] = ScoreCounted

LEMMA MyInvInit == ASSUME NEW c \in DOMAIN MySqlCheck, MyStart(c) PROVE MyInv
  <1>1. myStatuses = <<>>
    BY DEF MyStart
  <1>2. myStatuses \in Seq(AllVerdicts) /\ Len(myStatuses) = 0
    BY <1>1
  <1> QED
    BY <1>2 DEF MyStart, MyInv

LEMMA MyInvStep == MyInv /\ [MyNext]_myVars => MyInv'
  <1> SUFFICES ASSUME MyInv, [MyNext]_myVars PROVE MyInv'
    OBVIOUS
  <1>1. CASE PerformCheck
    <2>0. PICK m \in Nat : m = Len(myStatuses) /\ m <= 45
      BY DEF MyInv
    <2> DEFINE n == m + 1
    <2>1. n \in 1 .. 45 /\ NextCheck = CheckList[n] /\ CheckList[n] \in DOMAIN MySqlCheck
      <3>1. m # 45
        BY <1>1, <2>0, ListNames DEF PerformCheck, Done
      <3>2. n \in 1 .. 45
        <4>1. m <= 45
          BY <2>0
        <4> QED
          BY <3>1, <4>1
      <3> QED
        BY <2>0, <3>2, ListNames DEF NextCheck
    <2>14. n = m + 1
      OBVIOUS
    <2> HIDE DEF n
    <2>2. PICK a : /\ a \in IF NextCheck = myWatch THEN DOMAIN VerdictOf(n) ELSE {MySqlCheck[CheckList[n]].good}
                   /\ myStatuses' = Append(myStatuses, VerdictOf(n)[a])
                   /\ myAnswer' = IF NextCheck = myWatch THEN a ELSE myAnswer
                   /\ myWatch' = myWatch /\ myScore' = myScore
      BY <1>1, <2>1 DEF PerformCheck, VerdictOf
    <2>3. a \in DOMAIN VerdictOf(n)
      BY <2>1, <2>2, CatalogueJudged DEF VerdictOf, AsBenchmark
    <2>4. VerdictOf(n)[a] \in AllVerdicts
      BY <2>1, <2>3 DEF AllVerdicts, VerdictOf
    <2>5. /\ myStatuses' \in Seq(AllVerdicts) /\ Len(myStatuses') = n
          /\ \A i \in 1 .. Len(myStatuses) : myStatuses'[i] = myStatuses[i]
          /\ myStatuses'[n] = VerdictOf(n)[a]
      BY <2>0, <2>14, <2>2, <2>4 DEF MyInv
    <2>6. AnswerGiven(n)' = a
      <3>1. CASE CheckList[n] = myWatch
        BY <2>1, <2>2, <3>1 DEF AnswerGiven
      <3>2. CASE CheckList[n] # myWatch
        <4>1. a = MySqlCheck[CheckList[n]].good /\ CheckList[n] # myWatch'
          BY <2>1, <2>2, <3>2
        <4> QED
          BY <4>1 DEF AnswerGiven
      <3> QED
        BY <3>1, <3>2
    <2>7. ASSUME NEW i \in 1 .. Len(myStatuses) PROVE AnswerGiven(i)' = AnswerGiven(i)
      <3>1. CASE NextCheck = myWatch
        <4>1. i # n /\ i \in 1 .. 45 /\ CheckList[i] # CheckList[n]
          <5>1. i # n /\ i \in 1 .. 45
            <6>1. i \in 1 .. m
              BY <2>0
            <6> QED
              BY <2>0, <2>14, <6>1
          <5> QED
            BY <5>1, <2>1, PlaceUnique, ListNames, ZenonT(40)
        <4> QED
          BY <3>1, <4>1, <2>1, <2>2 DEF AnswerGiven
      <3>2. CASE NextCheck # myWatch
        BY <3>2, <2>2 DEF AnswerGiven
      <3> QED
        BY <3>1, <3>2
    <2>8. ASSUME NEW i \in 1 .. Len(myStatuses')
          PROVE  AnswerGiven(i)' \in DOMAIN VerdictOf(i) /\ myStatuses'[i] = VerdictOf(i)[AnswerGiven(i)']
      <3>1. CASE i = n
        <4>1. AnswerGiven(n)' \in DOMAIN VerdictOf(n) /\ myStatuses'[n] = VerdictOf(n)[AnswerGiven(n)']
          BY <2>3, <2>5, <2>6
        <4> QED
          BY <3>1, <4>1
      <3>2. CASE i # n
        <4>1. i \in 1 .. Len(myStatuses)
          BY <3>2, <2>0, <2>14, <2>1, <2>5
        <4> QED
          BY <4>1, <2>5, <2>7 DEF MyInv
      <3> QED
        BY <3>1, <3>2
    <2>9. (\A i \in 1 .. Len(myStatuses') : CheckList[i] # myWatch') => myAnswer' = <<>>
      BY <2>1, <2>2, <2>5 DEF MyInv
    <2>10. myScore' = <<>>
      BY <1>1, <2>2, ListNames DEF MyInv, PerformCheck, Done
    <2>11. Len(myStatuses') <= 45 /\ myWatch' \in DOMAIN MySqlCheck
      BY <2>1, <2>2, <2>5 DEF MyInv
    <2>12. \A i : VerdictOf(i)' = VerdictOf(i)
      BY SMTT(40) DEF VerdictOf
    <2> QED
      BY <2>5, <2>8, <2>9, <2>10, <2>11, <2>12 DEF MyInv
  <1>2. CASE CalculateScore
    <2>1. /\ myScore'[1] = ScoreCounted /\ Len(myStatuses) = 45
          /\ myStatuses' = myStatuses /\ myAnswer' = myAnswer /\ myWatch' = myWatch
      BY <1>2, ListNames, SMTT(40) DEF CalculateScore, ScoreCounted, Done
    <2>2. ScoreCounted' = ScoreCounted
      BY <2>1 DEF ScoreCounted, Count
    <2> QED
      BY <2>1, <2>2, ZenonT(30) DEF MyInv, AnswerGiven, VerdictOf
  <1>3. CASE UNCHANGED myVars
    BY <1>3 DEF myVars, MyInv, AnswerGiven, VerdictOf, ScoreCounted, Count
  <1> QED
    BY <1>1, <1>2, <1>3 DEF MyNext

\* The watched check has run once it has an answer, and has the status for it.
LEMMA WatchedStatus ==
  ASSUME MyInv, myAnswer # <<>>
  PROVE  /\ myAnswer \in DOMAIN MySqlCheck[myWatch].verdict
         /\ Watched = MySqlCheck[myWatch].verdict[myAnswer]
  <1>1. PICK i \in 1 .. Len(myStatuses) : CheckList[i] = myWatch
    BY DEF MyInv
  <1>0. i \in 1 .. 45
    BY <1>1 DEF MyInv
  <1>2. i \in 1 .. 45 /\ Place(myWatch) = i
    BY <1>0, <1>1, PlaceOf
  <1> QED
    BY <1>1, <1>2 DEF MyInv, AnswerGiven, VerdictOf, Watched

LEMMA VerdictOfWatched ==
  ASSUME MyInv
  PROVE  CompliantPasses /\ ViolationFails
  <1>1. PICK check : check = MySqlCheck[myWatch]
    OBVIOUS
  <1>2. AsBenchmark(myWatch, check)
    BY <1>1, CatalogueJudged DEF MyInv
  <1>3. CASE myAnswer = <<>>
    <2>1. Stricter # <<>> /\ Unseen # <<>>
      BY DEF Stricter, Unseen
    <2> QED
      BY <1>1, <1>2, <1>3, <2>1 DEF AsBenchmark, CompliantPasses, ViolationFails
  <1>4. CASE myAnswer # <<>>
    <2>1. myAnswer \in DOMAIN check.verdict /\ Watched = check.verdict[myAnswer]
      BY <1>1, <1>4, WatchedStatus
    <2>2. CompliantPasses
      BY <1>1, <1>2, <2>1 DEF AsBenchmark, CompliantPasses
    <2>3. ViolationFails
      BY <1>1, <1>2, <2>1 DEF AsBenchmark, ViolationFails
    <2> QED
      BY <2>2, <2>3
  <1> QED
    BY <1>3, <1>4

\* The check that panicked is the watched one, on the answer it was given.
LEMMA PanicOfWatched ==
  ASSUME MyInv
  PROVE  MyBroughtDown
  <1> SUFFICES ASSUME Panicked PROVE MayPanic(myWatch, myAnswer)
    BY DEF MyBroughtDown, MayPanic
  <1>1. PICK i \in 1 .. Len(myStatuses) : myStatuses[i] = "panic"
    BY DEF Panicked, MyInv
  <1>2. /\ CheckList[i] \in DOMAIN MySqlCheck
        /\ AnswerGiven(i) \in DOMAIN VerdictOf(i) /\ VerdictOf(i)[AnswerGiven(i)] = "panic"
    <2>1. i \in 1 .. 45
      BY <1>1 DEF MyInv
    <2>2. AnswerGiven(i) \in DOMAIN VerdictOf(i) /\ myStatuses[i] = VerdictOf(i)[AnswerGiven(i)]
      BY <1>1 DEF MyInv
    <2> QED
      BY <1>1, <2>1, <2>2, ListNames
  <1>3. MayPanic(CheckList[i], AnswerGiven(i)) /\ AnswerGiven(i) # MySqlCheck[CheckList[i]].good
    BY <1>2, CatalogueJudged DEF AsBenchmark, VerdictOf
  <1> QED
    BY <1>3 DEF AnswerGiven

\* What has passed and what has not are all.
LEMMA Halves ==
  ASSUME NEW S, IsFiniteSet(S), NEW P \in SUBSET S
  PROVE  Cardinality(P) + Cardinality(S \ P) = Cardinality(S)
  <1>1. IsFiniteSet(P) /\ IsFiniteSet(S \ P)
    BY FS_Subset
  <1>2. P \cup (S \ P) = S /\ P \cap (S \ P) = {}
    OBVIOUS
  <1>3. /\ Cardinality(S) = Cardinality(P) + Cardinality(S \ P) - Cardinality({})
        /\ Cardinality(P) \in Nat /\ Cardinality(S \ P) \in Nat
    BY <1>1, <1>2, FS_Union, FS_CardinalityType
  <1> QED
    BY <1>3, FS_EmptySet

LEMMA FortyFive == IsFiniteSet(1 .. 45) /\ Cardinality(1 .. 45) = 45
  <1>1. /\ IsFiniteSet(1 .. 45)
        /\ Cardinality(1 .. 45) = IF 1 > 45 THEN 0 ELSE 45 - 1 + 1
    BY FS_Interval, 1 \in Int, 45 \in Int
  <1> QED
    BY <1>1

LEMMA CountOf ==
  ASSUME MyInv, Len(myStatuses) = 45, NEW sec \in 0 .. 10
  PROVE  Count(sec).pass + Count(sec).fail
           = Cardinality({i \in 1 .. 45 : sec = 0 \/ SectionOf(i) = sec})
  <1> DEFINE mine == {i \in 1 .. 45 : sec = 0 \/ SectionOf(i) = sec}
             won == {i \in mine : myStatuses[i] = "Pass"}
             lost == {i \in mine : myStatuses[i] # "Pass"}
  <1>1. DOMAIN myStatuses = 1 .. 45
    BY DEF MyInv
  <1>2. Count(sec).pass = Cardinality(won) /\ Count(sec).fail = Cardinality(lost)
    BY <1>1 DEF Count
  <1>3. IsFiniteSet(mine) /\ won \in SUBSET mine /\ lost = mine \ won
    BY FortyFive, FS_Subset
  <1> QED
    BY <1>2, <1>3, Halves

\* A score counts every check once.
LEMMA WholeScore == ASSUME MyInv PROVE ScoreWhole
  <1> SUFFICES ASSUME myScore # <<>> PROVE ScoreWhole
    BY DEF ScoreWhole
  <1>1. Len(myStatuses) = 45 /\ \A sec \in 0 .. 10 : myScore[1][sec] = Count(sec)
    BY DEF MyInv, ScoreCounted
  <1>2. Cardinality(1 .. 45) = 45
    BY FortyFive
  <1>3. {i \in 1 .. 45 : 0 = 0 \/ SectionOf(i) = 0} = 1 .. 45
    OBVIOUS
  <1>4. myScore[1][0].pass + myScore[1][0].fail = 45
    <2>1. 0 \in 0 .. 10
      OBVIOUS
    <2>2. Count(0).pass + Count(0).fail = Cardinality({i \in 1 .. 45 : 0 = 0 \/ SectionOf(i) = 0})
      BY <1>1, <2>1, CountOf
    <2> QED
      BY <1>1, <1>2, <1>3, <2>1, <2>2
  <1>5. ASSUME NEW sec \in 1 .. 10
        PROVE  myScore[1][sec].pass + myScore[1][sec].fail
                 = Cardinality({i \in 1 .. 45 : SectionOf(i) = sec})
    <2>1. sec \in 0 .. 10 /\ sec # 0
      OBVIOUS
    <2>2. {i \in 1 .. 45 : sec = 0 \/ SectionOf(i) = sec} = {i \in 1 .. 45 : SectionOf(i) = sec}
      BY <2>1
    <2> QED
      BY <1>1, <2>1, <2>2, CountOf
  <1> QED
    BY <1>4, <1>5, ListNames DEF ScoreWhole

LEMMA MyInvHolds == Spec => []MyInv
  <1>1. Init => MyInv
    <2>1. RestCheck \in DOMAIN MySqlCheck
      <3>1. "nps" \in DOMAIN MySqlCheck
        BY DEF MySqlCheck
      <3> QED
        BY <3>1 DEF RestCheck, OneOf
    <2>2. Init => \E watch \in DOMAIN MySqlCheck : MyStart(watch)
      BY <2>1, Starts0 DEF MyInit, MyRests
    <2> QED
      BY <2>2, MyInvInit
  <1>2. MyInv /\ [Next]_vars => MyInv'
    BY Moves, MyInvStep DEF myVars
  <1> QED
    BY <1>1, <1>2, PTL DEF Spec

\* A server that complies passes, one that does not fails, and the score counts
\* both, but for the checks named (mysql/check.go:345-455).
THEOREM VerdictsRightHolds == Spec => []VerdictsRight
  <1>1. MyInv => VerdictsRight
    BY VerdictOfWatched, WholeScore DEF VerdictsRight
  <1> QED
    BY <1>1, MyInvHolds, PTL

\* A scan of MySQL, of RDS or of pg_hba.conf takes the collector with it for the
\* causes named alone (oslevelconfig.go:139, 2.3.1.go:132, hbascanner.go:204).
THEOREM BroughtDownHolds == Spec => []BroughtDown
  <1>1. (IF runner = "rds" THEN RdsInv ELSE RdsRests) => DiesForCause
    <2>1. RdsRests => rdsAt = "idle"
      BY DEF RdsRests, RdsStart
    <2> QED
      BY <2>1 DEF RdsInv, DiesForCause
  <1>2. HbaFollowed => HbaBroughtDown
    <2>1. HbaRests => hbaAt = "query"
      BY DEF HbaRests, HbaStart
    <2> QED
      BY <2>1 DEF HbaFollowed, HbaInv, HbaBroughtDown
  <1>3. MyInv => MyBroughtDown
    BY PanicOfWatched
  <1> QED
    BY <1>1, <1>2, <1>3, MyInvHolds, RdsInvHolds, HbaInvHolds, PTL DEF BroughtDown
-----------------------------------------------------------------------------
(* The numbers of the PostgreSQL checks.                                     *)

\* The checks a version from 15 on runs, and those that 13 and 14 run.
LaterNames ==
  {"systemd", "dataCluster", "umask",
   "privilegedAccess", "functionPrivileges", "dmlPrivileges", "rowLevelSecurity", "setUser",
   "predefinedRoles", "localSocketLogin", "hostSocketLogin", "passwordComplexity",
   "backendParams", "postmasterParams", "sighupParams", "superuserParams", "userParams",
   "fips", "ssl", "pgCrypto",
   "replicationUser", "replicationLogging", "baseBackup", "archiveMode", "streamingParams",
   "subdirectories", "pgBackRest", "miscellaneousParams"}
AllNames ==
  LaterNames \cup
  {"pgPasswordProfiles", "pgPasswordEnvVar", "extensionDir", "commandHistory",
   "lockoutInactive", "passwordInCommand", "ipBound", "connectionLimits",
   "tlsVersions", "sslCiphers"}

\* What a list holds is of its kind, and finite.
LEMMA OfSequence ==
  ASSUME NEW S, NEW s \in Seq(S)
  PROVE  ToSet(s) \subseteq S /\ IsFiniteSet(ToSet(s))
  <1> DEFINE f == [i \in 1 .. Len(s) |-> s[i]]
  <1>1. ToSet(s) = {s[i] : i \in 1 .. Len(s)}
    BY DEF ToSet
  <1>2. IsFiniteSet(1 .. Len(s))
    <2>1. Len(s) \in Int /\ 1 \in Int
      OBVIOUS
    <2> QED
      BY <2>1, FS_Interval
  <1>3. f \in Surjection(1 .. Len(s), ToSet(s))
    BY <1>1 DEF Surjection
  <1> HIDE DEF f
  <1> QED
    BY <1>1, <1>2, <1>3, FS_Surjection

\* Which names a version's list holds.
LEMMA NamedLater ==
  ASSUME NEW v \in {15, 16, 17}
  PROVE  NamesOf(v) \subseteq LaterNames /\ IsFiniteSet(NamesOf(v))
  <1>1. InstallationChecks(v) \in Seq(LaterNames) /\ PermissionsChecks(v) \in Seq(LaterNames)
    BY SMTT(40) DEF InstallationChecks, PermissionsChecks, LaterNames
  <1>2. AuthChecks(v) \in Seq(LaterNames)
    BY DEF AuthChecks, LaterNames
  <1>3. ConnectionChecks(v) \in Seq(LaterNames)
    <2>1. ConnectionChecks(v) = <<"localSocketLogin", "hostSocketLogin", "passwordComplexity">>
      BY DEF ConnectionChecks
    <2> QED
      BY <2>1 DEF LaterNames
  <1>4. SettingsChecks(v) \in Seq(LaterNames)
    BY DEF SettingsChecks, LaterNames
  <1>5. ReplicationChecks(v) \in Seq(LaterNames) /\ SpecialChecks(v) \in Seq(LaterNames)
    BY DEF ReplicationChecks, SpecialChecks, LaterNames
  <1>6. PreLMAChecks(v) \o PostLMAChecks(v) \in Seq(LaterNames)
    BY <1>1, <1>2, <1>3, <1>4, <1>5 DEF PreLMAChecks, PostLMAChecks
  <1> QED
    BY <1>6, OfSequence DEF NamesOf

LEMMA NamedEver ==
  ASSUME NEW v \in {13, 14}
  PROVE  NamesOf(v) \subseteq AllNames /\ IsFiniteSet(NamesOf(v))
  <1>1. InstallationChecks(v) \in Seq(AllNames) /\ PermissionsChecks(v) \in Seq(AllNames)
    BY DEF InstallationChecks, PermissionsChecks, AllNames, LaterNames
  <1>2. AuthChecks(v) \in Seq(AllNames)
    BY DEF AuthChecks, AllNames, LaterNames
  <1>3. ConnectionChecks(v) \in Seq(AllNames)
    BY DEF ConnectionChecks, AllNames, LaterNames
  <1>4. SettingsChecks(v) \in Seq(AllNames)
    BY DEF SettingsChecks, AllNames, LaterNames
  <1>5. ReplicationChecks(v) \in Seq(AllNames) /\ SpecialChecks(v) \in Seq(AllNames)
    BY DEF ReplicationChecks, SpecialChecks, AllNames, LaterNames
  <1>6. PreLMAChecks(v) \o PostLMAChecks(v) \in Seq(AllNames)
    BY <1>1, <1>2, <1>3, <1>4, <1>5 DEF PreLMAChecks, PostLMAChecks
  <1> QED
    BY <1>6, OfSequence DEF NamesOf

\* The number a check starts with, and the one its version's first run gives it.
FirstNumber(v, n) == CheckOf(v)[n].number
FinalNumber(v, n) == Renumbered(n, v, FirstNumber(v, n))

\* What the catalogue says of each check, section by section.
LEMMA Numbers1 ==
  ASSUME NEW v \in Versions
  PROVE  /\ CheckOf(v)["pgPasswordProfiles"].number = <<1, 6>> /\ CheckOf(v)["pgPasswordProfiles"].later = <<1, 6>>
         /\ CheckOf(v)["pgPasswordEnvVar"].number = <<1, 7>> /\ CheckOf(v)["pgPasswordEnvVar"].later = <<1, 7>>
         /\ CheckOf(v)["umask"].number = <<2, 1>> /\ CheckOf(v)["umask"].later = <<2, 1>>
         /\ CheckOf(v)["commandHistory"].number = <<2, 3>> /\ CheckOf(v)["commandHistory"].later = <<2, 3>>
         /\ CheckOf(v)["dataCluster"].number = <<1, 3>> /\ CheckOf(v)["dataCluster"].later = <<1, 3>>
         /\ CheckOf(v)["extensionDir"].number = <<2, 2>> /\ CheckOf(v)["extensionDir"].later = <<2, 2>>
         /\ CheckOf(v)["systemd"].number = IF v \in {13, 14} THEN <<1, 3>> ELSE <<1, 2>>
         /\ CheckOf(v)["systemd"].later = CheckOf(v)["systemd"].number
  <1>1. /\ CheckOf(v)["pgPasswordProfiles"].number = <<1, 6>> /\ CheckOf(v)["pgPasswordProfiles"].later = <<1, 6>>
        /\ CheckOf(v)["pgPasswordEnvVar"].number = <<1, 7>> /\ CheckOf(v)["pgPasswordEnvVar"].later = <<1, 7>>
        /\ CheckOf(v)["umask"].number = <<2, 1>> /\ CheckOf(v)["umask"].later = <<2, 1>>
        /\ CheckOf(v)["commandHistory"].number = <<2, 3>> /\ CheckOf(v)["commandHistory"].later = <<2, 3>>
    BY DEF CheckOf, Judged, PGPasswordProfiles, PGPasswordEnvVar, Umask,
       CommandHistory
  <1>2. /\ CheckOf(v)["dataCluster"] = IF v = 17 THEN DataClusterUnknown ELSE DataCluster
        /\ CheckOf(v)["extensionDir"] = IF v = 13 THEN ExtensionDir13 ELSE ExtensionDir14
        /\ CheckOf(v)["systemd"] = IF v \in {13, 14} THEN SystemdServiceFilesOld
                                                     ELSE SystemdServiceFiles
    BY DEF CheckOf
  <1>3. /\ CheckOf(v)["dataCluster"].number = <<1, 3>> /\ CheckOf(v)["dataCluster"].later = <<1, 3>>
    BY <1>2 DEF DataCluster, DataClusterUnknown, Judged
  <1>4. /\ CheckOf(v)["extensionDir"].number = <<2, 2>> /\ CheckOf(v)["extensionDir"].later = <<2, 2>>
    BY <1>2 DEF ExtensionDir13, ExtensionDir14, Judged
  <1>5. /\ CheckOf(v)["systemd"].number = IF v \in {13, 14} THEN <<1, 3>> ELSE <<1, 2>>
        /\ CheckOf(v)["systemd"].later = CheckOf(v)["systemd"].number
    BY <1>2 DEF SystemdServiceFilesOld, SystemdServiceFiles, Judged
  <1> QED
    BY <1>1, <1>3, <1>4, <1>5

LEMMA Numbers2 ==
  ASSUME NEW v \in Versions
  PROVE  /\ CheckOf(v)["privilegedAccess"].number = <<4, 3>> /\ CheckOf(v)["privilegedAccess"].later = <<4, 2>>
         /\ CheckOf(v)["lockoutInactive"].number = <<4, 4>> /\ CheckOf(v)["lockoutInactive"].later = <<4, 4>>
         /\ CheckOf(v)["functionPrivileges"].number = <<4, 3>> /\ CheckOf(v)["functionPrivileges"].later = <<4, 3>>
         /\ CheckOf(v)["dmlPrivileges"].number = <<4, 6>> /\ CheckOf(v)["dmlPrivileges"].later = <<4, 4>>
         /\ CheckOf(v)["rowLevelSecurity"].number = <<4, 7>> /\ CheckOf(v)["rowLevelSecurity"].later = <<4, 5>>
         /\ CheckOf(v)["setUser"].number = <<4, 6>> /\ CheckOf(v)["setUser"].later = <<4, 6>>
         /\ CheckOf(v)["predefinedRoles"].number = <<4, 9>> /\ CheckOf(v)["predefinedRoles"].later = <<4, 7>>
    BY DEF CheckOf, Judged, Manual, ManualAs, PrivilegedAccess, LockoutInactive,
       FunctionPrivileges, DMLPrivileges, RowLevelSecurity, SetUser, PredefinedRoles

LEMMA Numbers3 ==
  ASSUME NEW v \in Versions
  PROVE  /\ CheckOf(v)["passwordInCommand"].number = <<5, 1>> /\ CheckOf(v)["passwordInCommand"].later = <<5, 1>>
         /\ CheckOf(v)["ipBound"].number = <<5, 2>> /\ CheckOf(v)["ipBound"].later = <<5, 2>>
         /\ CheckOf(v)["localSocketLogin"].number = <<5, 3>> /\ CheckOf(v)["localSocketLogin"].later = <<5, 1>>
         /\ CheckOf(v)["hostSocketLogin"].number = <<5, 4>> /\ CheckOf(v)["hostSocketLogin"].later = <<5, 2>>
         /\ CheckOf(v)["connectionLimits"].number = <<5, 5>> /\ CheckOf(v)["connectionLimits"].later = <<5, 5>>
         /\ CheckOf(v)["passwordComplexity"].number = <<5, 6>> /\ CheckOf(v)["passwordComplexity"].later = <<5, 3>>
    BY SMTT(40) DEF CheckOf, Judged, Manual, ManualAs, PasswordInCommand, IPBound,
       LocalSocketLogin, HostSocketLogin, ConnectionLimits, PasswordComplexity

LEMMA Numbers4 ==
  ASSUME NEW v \in Versions
  PROVE  /\ CheckOf(v)["backendParams"].number = <<6, 2>> /\ CheckOf(v)["backendParams"].later = <<6, 2>>
         /\ CheckOf(v)["postmasterParams"].number = <<6, 3>> /\ CheckOf(v)["postmasterParams"].later = <<6, 3>>
         /\ CheckOf(v)["sighupParams"].number = <<6, 4>> /\ CheckOf(v)["sighupParams"].later = <<6, 4>>
         /\ CheckOf(v)["superuserParams"].number = <<6, 5>> /\ CheckOf(v)["superuserParams"].later = <<6, 5>>
         /\ CheckOf(v)["userParams"].number = <<6, 6>> /\ CheckOf(v)["userParams"].later = <<6, 6>>
         /\ CheckOf(v)["fips"].number = <<6, 7>> /\ CheckOf(v)["fips"].later = <<6, 7>>
         /\ CheckOf(v)["ssl"].number = <<6, 8>> /\ CheckOf(v)["ssl"].later = <<6, 8>>
         /\ CheckOf(v)["tlsVersions"].number = <<6, 9>> /\ CheckOf(v)["tlsVersions"].later = <<6, 9>>
         /\ CheckOf(v)["sslCiphers"].number = <<6, 10>> /\ CheckOf(v)["sslCiphers"].later = <<6, 10>>
         /\ CheckOf(v)["pgCrypto"].number = <<6, 9>> /\ CheckOf(v)["pgCrypto"].later = <<6, 9>>
    BY DEF CheckOf, Judged, Manual, ManualAs, BackendParams, PostmasterParams,
       SighupParams, SuperuserParams, UserParams, FIPS, SSL, TLSVersions,
       SSLCiphers, PGCrypto

LEMMA Numbers5 ==
  ASSUME NEW v \in Versions
  PROVE  /\ CheckOf(v)["replicationUser"].number = <<7, 1>> /\ CheckOf(v)["replicationUser"].later = <<7, 1>>
         /\ CheckOf(v)["replicationLogging"].number = <<7, 2>> /\ CheckOf(v)["replicationLogging"].later = <<7, 2>>
         /\ CheckOf(v)["baseBackup"].number = <<7, 3>> /\ CheckOf(v)["baseBackup"].later = <<7, 3>>
         /\ CheckOf(v)["archiveMode"].number = <<7, 4>> /\ CheckOf(v)["archiveMode"].later = <<7, 4>>
         /\ CheckOf(v)["streamingParams"].number = <<7, 5>> /\ CheckOf(v)["streamingParams"].later = <<7, 5>>
         /\ CheckOf(v)["subdirectories"].number = <<8, 1>> /\ CheckOf(v)["subdirectories"].later = <<8, 1>>
         /\ CheckOf(v)["pgBackRest"].number = <<8, 2>> /\ CheckOf(v)["pgBackRest"].later = <<8, 2>>
         /\ CheckOf(v)["miscellaneousParams"].number = <<8, 3>> /\ CheckOf(v)["miscellaneousParams"].later = <<8, 3>>
    BY DEF CheckOf, Judged, Manual, ManualAs, ReplicationUser, ReplicationLogging,
       BaseBackup, ArchiveMode, StreamingParams, Subdirectories, PgBackRest,
       MiscellaneousParams

\* The numbers of a report: of 13 and 14, of 15 and 16, and of 17.
NumbersOld ==
    [systemd |-> <<1, 3>>, dataCluster |-> <<1, 4>>, pgPasswordProfiles |-> <<1, 6>>,
     pgPasswordEnvVar |-> <<1, 7>>, umask |-> <<2, 1>>, extensionDir |-> <<2, 2>>,
     commandHistory |-> <<2, 3>>, privilegedAccess |-> <<4, 5>>,
     lockoutInactive |-> <<4, 4>>, functionPrivileges |-> <<4, 5>>,
     dmlPrivileges |-> <<4, 8>>, rowLevelSecurity |-> <<4, 7>>, setUser |-> <<4, 8>>,
     predefinedRoles |-> <<4, 9>>, passwordInCommand |-> <<5, 1>>,
     ipBound |-> <<5, 2>>, localSocketLogin |-> <<5, 3>>,
     hostSocketLogin |-> <<5, 4>>, connectionLimits |-> <<5, 5>>,
     passwordComplexity |-> <<5, 6>>, backendParams |-> <<6, 2>>,
     postmasterParams |-> <<6, 3>>, sighupParams |-> <<6, 4>>,
     superuserParams |-> <<6, 5>>, userParams |-> <<6, 6>>, fips |-> <<6, 7>>,
     ssl |-> <<6, 8>>, tlsVersions |-> <<6, 9>>, sslCiphers |-> <<6, 10>>,
     pgCrypto |-> <<6, 11>>, replicationUser |-> <<7, 1>>,
     replicationLogging |-> <<7, 2>>, baseBackup |-> <<7, 3>>,
     archiveMode |-> <<7, 4>>, streamingParams |-> <<7, 5>>,
     subdirectories |-> <<8, 1>>, pgBackRest |-> <<8, 2>>,
     miscellaneousParams |-> <<8, 3>>]

NumbersMid ==
    [systemd |-> <<1, 2>>, dataCluster |-> <<1, 3>>, umask |-> <<2, 1>>,
     privilegedAccess |-> <<4, 2>>, functionPrivileges |-> <<4, 3>>,
     dmlPrivileges |-> <<4, 4>>, rowLevelSecurity |-> <<4, 5>>, setUser |-> <<4, 6>>,
     predefinedRoles |-> <<4, 7>>, localSocketLogin |-> <<5, 1>>,
     hostSocketLogin |-> <<5, 2>>, passwordComplexity |-> <<5, 3>>,
     backendParams |-> <<6, 2>>, postmasterParams |-> <<6, 3>>,
     sighupParams |-> <<6, 4>>, superuserParams |-> <<6, 5>>,
     userParams |-> <<6, 6>>, fips |-> <<6, 7>>, ssl |-> <<6, 8>>,
     pgCrypto |-> <<6, 9>>, replicationUser |-> <<7, 1>>,
     replicationLogging |-> <<7, 2>>, baseBackup |-> <<7, 3>>,
     archiveMode |-> <<7, 4>>, streamingParams |-> <<7, 5>>,
     subdirectories |-> <<8, 1>>, pgBackRest |-> <<8, 2>>,
     miscellaneousParams |-> <<8, 3>>]

NumbersNew ==
    [systemd |-> <<1, 2>>, dataCluster |-> <<1, 3>>, umask |-> <<2, 1>>,
     privilegedAccess |-> <<4, 3>>, functionPrivileges |-> <<4, 3>>,
     dmlPrivileges |-> <<4, 6>>, rowLevelSecurity |-> <<4, 7>>, setUser |-> <<4, 6>>,
     predefinedRoles |-> <<4, 9>>, localSocketLogin |-> <<5, 3>>,
     hostSocketLogin |-> <<5, 4>>, passwordComplexity |-> <<5, 6>>,
     backendParams |-> <<6, 2>>, postmasterParams |-> <<6, 3>>,
     sighupParams |-> <<6, 4>>, superuserParams |-> <<6, 5>>,
     userParams |-> <<6, 6>>, fips |-> <<6, 7>>, ssl |-> <<6, 8>>,
     pgCrypto |-> <<6, 9>>, replicationUser |-> <<7, 1>>,
     replicationLogging |-> <<7, 2>>, baseBackup |-> <<7, 3>>,
     archiveMode |-> <<7, 4>>, streamingParams |-> <<7, 5>>,
     subdirectories |-> <<8, 1>>, pgBackRest |-> <<8, 2>>,
     miscellaneousParams |-> <<8, 3>>]

\* The two renumberings of a run lead to these tables, in which no two checks
\* but the named ones share a number.
LEMMA FinalOld ==
  ASSUME NEW v \in {13, 14}, NEW n \in AllNames
  PROVE  FinalNumber(v, n) = NumbersOld[n]
  <1>. v \in Versions
    BY DEF Versions
  <1>0. \A m : FinalNumber(v, m) = SuiteNumber(m, v, CheckOf(v)[m].number)
    BY DEF FinalNumber, FirstNumber, Renumbered, OwnNumber
  <1>1. CASE n \in {"systemd", "dataCluster", "pgPasswordProfiles", "pgPasswordEnvVar",
           "umask", "extensionDir", "commandHistory"}
    <2>1. /\ FinalNumber(v, "systemd") = <<1, 3>>
          /\ FinalNumber(v, "dataCluster") = <<1, 4>>
          /\ FinalNumber(v, "pgPasswordProfiles") = <<1, 6>>
          /\ FinalNumber(v, "pgPasswordEnvVar") = <<1, 7>>
          /\ FinalNumber(v, "umask") = <<2, 1>>
          /\ FinalNumber(v, "extensionDir") = <<2, 2>>
          /\ FinalNumber(v, "commandHistory") = <<2, 3>>
      BY <1>0, Numbers1 DEF SuiteNumber
    <2>2. /\ NumbersOld["systemd"] = <<1, 3>>
          /\ NumbersOld["dataCluster"] = <<1, 4>>
          /\ NumbersOld["pgPasswordProfiles"] = <<1, 6>>
          /\ NumbersOld["pgPasswordEnvVar"] = <<1, 7>>
          /\ NumbersOld["umask"] = <<2, 1>>
          /\ NumbersOld["extensionDir"] = <<2, 2>>
          /\ NumbersOld["commandHistory"] = <<2, 3>>
      BY DEF NumbersOld
    <2> QED
      BY <1>1, <2>1, <2>2
  <1>2. CASE n \in {"privilegedAccess", "lockoutInactive", "functionPrivileges",
           "dmlPrivileges", "rowLevelSecurity", "setUser", "predefinedRoles"}
    <2>1. /\ FinalNumber(v, "privilegedAccess") = <<4, 5>>
          /\ FinalNumber(v, "lockoutInactive") = <<4, 4>>
          /\ FinalNumber(v, "functionPrivileges") = <<4, 5>>
          /\ FinalNumber(v, "dmlPrivileges") = <<4, 8>>
          /\ FinalNumber(v, "rowLevelSecurity") = <<4, 7>>
          /\ FinalNumber(v, "setUser") = <<4, 8>>
          /\ FinalNumber(v, "predefinedRoles") = <<4, 9>>
      BY <1>0, Numbers2 DEF SuiteNumber
    <2>2. /\ NumbersOld["privilegedAccess"] = <<4, 5>>
          /\ NumbersOld["lockoutInactive"] = <<4, 4>>
          /\ NumbersOld["functionPrivileges"] = <<4, 5>>
          /\ NumbersOld["dmlPrivileges"] = <<4, 8>>
          /\ NumbersOld["rowLevelSecurity"] = <<4, 7>>
          /\ NumbersOld["setUser"] = <<4, 8>>
          /\ NumbersOld["predefinedRoles"] = <<4, 9>>
      BY DEF NumbersOld
    <2> QED
      BY <1>2, <2>1, <2>2
  <1>3. CASE n \in {"passwordInCommand", "ipBound", "localSocketLogin", "hostSocketLogin",
           "connectionLimits", "passwordComplexity"}
    <2>1. /\ FinalNumber(v, "passwordInCommand") = <<5, 1>>
          /\ FinalNumber(v, "ipBound") = <<5, 2>>
          /\ FinalNumber(v, "localSocketLogin") = <<5, 3>>
          /\ FinalNumber(v, "hostSocketLogin") = <<5, 4>>
          /\ FinalNumber(v, "connectionLimits") = <<5, 5>>
          /\ FinalNumber(v, "passwordComplexity") = <<5, 6>>
      <3>1. /\ SuiteNumber("passwordInCommand", v, <<5, 1>>) = <<5, 1>>
            /\ SuiteNumber("ipBound", v, <<5, 2>>) = <<5, 2>>
            /\ SuiteNumber("localSocketLogin", v, <<5, 3>>) = <<5, 3>>
            /\ SuiteNumber("hostSocketLogin", v, <<5, 4>>) = <<5, 4>>
            /\ SuiteNumber("connectionLimits", v, <<5, 5>>) = <<5, 5>>
            /\ SuiteNumber("passwordComplexity", v, <<5, 6>>) = <<5, 6>>
        BY DEF SuiteNumber
      <3>2. /\ CheckOf(v)["passwordInCommand"].number = <<5, 1>>
            /\ CheckOf(v)["ipBound"].number = <<5, 2>>
            /\ CheckOf(v)["localSocketLogin"].number = <<5, 3>>
            /\ CheckOf(v)["hostSocketLogin"].number = <<5, 4>>
            /\ CheckOf(v)["connectionLimits"].number = <<5, 5>>
            /\ CheckOf(v)["passwordComplexity"].number = <<5, 6>>
        BY Numbers3
      <3> QED
        BY <1>0, <3>1, <3>2, SMTT(40)
    <2>2. /\ NumbersOld["passwordInCommand"] = <<5, 1>>
          /\ NumbersOld["ipBound"] = <<5, 2>>
          /\ NumbersOld["localSocketLogin"] = <<5, 3>>
          /\ NumbersOld["hostSocketLogin"] = <<5, 4>>
          /\ NumbersOld["connectionLimits"] = <<5, 5>>
          /\ NumbersOld["passwordComplexity"] = <<5, 6>>
      BY DEF NumbersOld
    <2> QED
      BY <1>3, <2>1, <2>2
  <1>4. CASE n \in {"backendParams", "postmasterParams", "sighupParams",
           "superuserParams", "userParams", "fips", "ssl", "tlsVersions",
           "sslCiphers", "pgCrypto"}
    <2>1. /\ FinalNumber(v, "backendParams") = <<6, 2>>
          /\ FinalNumber(v, "postmasterParams") = <<6, 3>>
          /\ FinalNumber(v, "sighupParams") = <<6, 4>>
          /\ FinalNumber(v, "superuserParams") = <<6, 5>>
          /\ FinalNumber(v, "userParams") = <<6, 6>>
          /\ FinalNumber(v, "fips") = <<6, 7>>
          /\ FinalNumber(v, "ssl") = <<6, 8>>
          /\ FinalNumber(v, "tlsVersions") = <<6, 9>>
          /\ FinalNumber(v, "sslCiphers") = <<6, 10>>
          /\ FinalNumber(v, "pgCrypto") = <<6, 11>>
      BY <1>0, Numbers4, SMTT(40) DEF SuiteNumber
    <2>2. /\ NumbersOld["backendParams"] = <<6, 2>>
          /\ NumbersOld["postmasterParams"] = <<6, 3>>
          /\ NumbersOld["sighupParams"] = <<6, 4>>
          /\ NumbersOld["superuserParams"] = <<6, 5>>
          /\ NumbersOld["userParams"] = <<6, 6>>
          /\ NumbersOld["fips"] = <<6, 7>>
          /\ NumbersOld["ssl"] = <<6, 8>>
          /\ NumbersOld["tlsVersions"] = <<6, 9>>
          /\ NumbersOld["sslCiphers"] = <<6, 10>>
          /\ NumbersOld["pgCrypto"] = <<6, 11>>
      BY DEF NumbersOld
    <2> QED
      BY <1>4, <2>1, <2>2
  <1>5. CASE n \in {"replicationUser", "replicationLogging", "baseBackup", "archiveMode",
           "streamingParams", "subdirectories", "pgBackRest",
           "miscellaneousParams"}
    <2>1. /\ FinalNumber(v, "replicationUser") = <<7, 1>>
          /\ FinalNumber(v, "replicationLogging") = <<7, 2>>
          /\ FinalNumber(v, "baseBackup") = <<7, 3>>
          /\ FinalNumber(v, "archiveMode") = <<7, 4>>
          /\ FinalNumber(v, "streamingParams") = <<7, 5>>
          /\ FinalNumber(v, "subdirectories") = <<8, 1>>
          /\ FinalNumber(v, "pgBackRest") = <<8, 2>>
          /\ FinalNumber(v, "miscellaneousParams") = <<8, 3>>
      <3>1. /\ SuiteNumber("replicationUser", v, <<7, 1>>) = <<7, 1>>
            /\ SuiteNumber("replicationLogging", v, <<7, 2>>) = <<7, 2>>
            /\ SuiteNumber("baseBackup", v, <<7, 3>>) = <<7, 3>>
            /\ SuiteNumber("archiveMode", v, <<7, 4>>) = <<7, 4>>
            /\ SuiteNumber("streamingParams", v, <<7, 5>>) = <<7, 5>>
            /\ SuiteNumber("subdirectories", v, <<8, 1>>) = <<8, 1>>
            /\ SuiteNumber("pgBackRest", v, <<8, 2>>) = <<8, 2>>
            /\ SuiteNumber("miscellaneousParams", v, <<8, 3>>) = <<8, 3>>
        BY DEF SuiteNumber
      <3>2. /\ CheckOf(v)["replicationUser"].number = <<7, 1>>
            /\ CheckOf(v)["replicationLogging"].number = <<7, 2>>
            /\ CheckOf(v)["baseBackup"].number = <<7, 3>>
            /\ CheckOf(v)["archiveMode"].number = <<7, 4>>
            /\ CheckOf(v)["streamingParams"].number = <<7, 5>>
            /\ CheckOf(v)["subdirectories"].number = <<8, 1>>
            /\ CheckOf(v)["pgBackRest"].number = <<8, 2>>
            /\ CheckOf(v)["miscellaneousParams"].number = <<8, 3>>
        BY Numbers5
      <3> QED
        BY <1>0, <3>1, <3>2, SMTT(40)
    <2>2. /\ NumbersOld["replicationUser"] = <<7, 1>>
          /\ NumbersOld["replicationLogging"] = <<7, 2>>
          /\ NumbersOld["baseBackup"] = <<7, 3>>
          /\ NumbersOld["archiveMode"] = <<7, 4>>
          /\ NumbersOld["streamingParams"] = <<7, 5>>
          /\ NumbersOld["subdirectories"] = <<8, 1>>
          /\ NumbersOld["pgBackRest"] = <<8, 2>>
          /\ NumbersOld["miscellaneousParams"] = <<8, 3>>
      BY DEF NumbersOld
    <2> QED
      BY <1>5, <2>1, <2>2
  <1> QED
    BY <1>1, <1>2, <1>3, <1>4, <1>5 DEF AllNames, LaterNames

LEMMA ApartOld ==
  \A n, m \in AllNames \ {"functionPrivileges", "setUser"} : NumbersOld[n] = NumbersOld[m] => n = m
  BY SMTT(40) DEF AllNames, LaterNames, NumbersOld

LEMMA FinalMid ==
  ASSUME NEW v \in {15, 16}, NEW n \in LaterNames
  PROVE  FinalNumber(v, n) = NumbersMid[n]
  <1>. v \in Versions
    BY DEF Versions
  <1>0. \A m : FinalNumber(v, m) = CheckOf(v)[m].later
    <2>1. \A m, x : SuiteNumber(m, v, x) = x
      BY DEF SuiteNumber
    <2> QED
      BY <2>1 DEF FinalNumber, FirstNumber, Renumbered, OwnNumber
  <1>1. CASE n \in {"systemd", "dataCluster", "umask"}
    <2>1. /\ FinalNumber(v, "systemd") = <<1, 2>>
          /\ FinalNumber(v, "dataCluster") = <<1, 3>>
          /\ FinalNumber(v, "umask") = <<2, 1>>
      BY <1>0, Numbers1
    <2>2. /\ NumbersMid["systemd"] = <<1, 2>>
          /\ NumbersMid["dataCluster"] = <<1, 3>>
          /\ NumbersMid["umask"] = <<2, 1>>
      BY DEF NumbersMid
    <2> QED
      BY <1>1, <2>1, <2>2
  <1>2. CASE n \in {"privilegedAccess", "functionPrivileges", "dmlPrivileges",
           "rowLevelSecurity", "setUser", "predefinedRoles"}
    <2>1. /\ FinalNumber(v, "privilegedAccess") = <<4, 2>>
          /\ FinalNumber(v, "functionPrivileges") = <<4, 3>>
          /\ FinalNumber(v, "dmlPrivileges") = <<4, 4>>
          /\ FinalNumber(v, "rowLevelSecurity") = <<4, 5>>
          /\ FinalNumber(v, "setUser") = <<4, 6>>
          /\ FinalNumber(v, "predefinedRoles") = <<4, 7>>
      BY <1>0, Numbers2
    <2>2. /\ NumbersMid["privilegedAccess"] = <<4, 2>>
          /\ NumbersMid["functionPrivileges"] = <<4, 3>>
          /\ NumbersMid["dmlPrivileges"] = <<4, 4>>
          /\ NumbersMid["rowLevelSecurity"] = <<4, 5>>
          /\ NumbersMid["setUser"] = <<4, 6>>
          /\ NumbersMid["predefinedRoles"] = <<4, 7>>
      BY DEF NumbersMid
    <2> QED
      BY <1>2, <2>1, <2>2
  <1>3. CASE n \in {"localSocketLogin", "hostSocketLogin", "passwordComplexity"}
    <2>1. /\ FinalNumber(v, "localSocketLogin") = <<5, 1>>
          /\ FinalNumber(v, "hostSocketLogin") = <<5, 2>>
          /\ FinalNumber(v, "passwordComplexity") = <<5, 3>>
      BY <1>0, Numbers3
    <2>2. /\ NumbersMid["localSocketLogin"] = <<5, 1>>
          /\ NumbersMid["hostSocketLogin"] = <<5, 2>>
          /\ NumbersMid["passwordComplexity"] = <<5, 3>>
      BY DEF NumbersMid
    <2> QED
      BY <1>3, <2>1, <2>2
  <1>4. CASE n \in {"backendParams", "postmasterParams", "sighupParams",
           "superuserParams", "userParams", "fips", "ssl", "pgCrypto"}
    <2>1. /\ FinalNumber(v, "backendParams") = <<6, 2>>
          /\ FinalNumber(v, "postmasterParams") = <<6, 3>>
          /\ FinalNumber(v, "sighupParams") = <<6, 4>>
          /\ FinalNumber(v, "superuserParams") = <<6, 5>>
          /\ FinalNumber(v, "userParams") = <<6, 6>>
          /\ FinalNumber(v, "fips") = <<6, 7>>
          /\ FinalNumber(v, "ssl") = <<6, 8>>
          /\ FinalNumber(v, "pgCrypto") = <<6, 9>>
      BY <1>0, Numbers4, ZenonT(40)
    <2>2. /\ NumbersMid["backendParams"] = <<6, 2>>
          /\ NumbersMid["postmasterParams"] = <<6, 3>>
          /\ NumbersMid["sighupParams"] = <<6, 4>>
          /\ NumbersMid["superuserParams"] = <<6, 5>>
          /\ NumbersMid["userParams"] = <<6, 6>>
          /\ NumbersMid["fips"] = <<6, 7>>
          /\ NumbersMid["ssl"] = <<6, 8>>
          /\ NumbersMid["pgCrypto"] = <<6, 9>>
      BY DEF NumbersMid
    <2> QED
      BY <1>4, <2>1, <2>2
  <1>5. CASE n \in {"replicationUser", "replicationLogging", "baseBackup", "archiveMode",
           "streamingParams", "subdirectories", "pgBackRest",
           "miscellaneousParams"}
    <2>1. /\ FinalNumber(v, "replicationUser") = <<7, 1>>
          /\ FinalNumber(v, "replicationLogging") = <<7, 2>>
          /\ FinalNumber(v, "baseBackup") = <<7, 3>>
          /\ FinalNumber(v, "archiveMode") = <<7, 4>>
          /\ FinalNumber(v, "streamingParams") = <<7, 5>>
          /\ FinalNumber(v, "subdirectories") = <<8, 1>>
          /\ FinalNumber(v, "pgBackRest") = <<8, 2>>
          /\ FinalNumber(v, "miscellaneousParams") = <<8, 3>>
      BY <1>0, Numbers5
    <2>2. /\ NumbersMid["replicationUser"] = <<7, 1>>
          /\ NumbersMid["replicationLogging"] = <<7, 2>>
          /\ NumbersMid["baseBackup"] = <<7, 3>>
          /\ NumbersMid["archiveMode"] = <<7, 4>>
          /\ NumbersMid["streamingParams"] = <<7, 5>>
          /\ NumbersMid["subdirectories"] = <<8, 1>>
          /\ NumbersMid["pgBackRest"] = <<8, 2>>
          /\ NumbersMid["miscellaneousParams"] = <<8, 3>>
      BY DEF NumbersMid
    <2> QED
      BY <1>5, <2>1, <2>2
  <1> QED
    BY <1>1, <1>2, <1>3, <1>4, <1>5 DEF AllNames, LaterNames

LEMMA ApartMid ==
  \A n, m \in LaterNames : NumbersMid[n] = NumbersMid[m] => n = m
  BY DEF AllNames, LaterNames, NumbersMid

LEMMA FinalNew ==
  ASSUME NEW v \in {17}, NEW n \in LaterNames
  PROVE  FinalNumber(v, n) = NumbersNew[n]
  <1>. v \in Versions
    BY DEF Versions
  <1>0. \A m : FinalNumber(v, m) = CheckOf(v)[m].number
    <2>1. \A m, x : SuiteNumber(m, v, x) = x
      BY DEF SuiteNumber
    <2> QED
      BY <2>1 DEF FinalNumber, FirstNumber, Renumbered, OwnNumber
  <1>1. CASE n \in {"systemd", "dataCluster", "umask"}
    <2>1. /\ FinalNumber(v, "systemd") = <<1, 2>>
          /\ FinalNumber(v, "dataCluster") = <<1, 3>>
          /\ FinalNumber(v, "umask") = <<2, 1>>
      BY <1>0, Numbers1
    <2>2. /\ NumbersNew["systemd"] = <<1, 2>>
          /\ NumbersNew["dataCluster"] = <<1, 3>>
          /\ NumbersNew["umask"] = <<2, 1>>
      BY DEF NumbersNew
    <2> QED
      BY <1>1, <2>1, <2>2
  <1>2. CASE n \in {"privilegedAccess", "functionPrivileges", "dmlPrivileges",
           "rowLevelSecurity", "setUser", "predefinedRoles"}
    <2>1. /\ FinalNumber(v, "privilegedAccess") = <<4, 3>>
          /\ FinalNumber(v, "functionPrivileges") = <<4, 3>>
          /\ FinalNumber(v, "dmlPrivileges") = <<4, 6>>
          /\ FinalNumber(v, "rowLevelSecurity") = <<4, 7>>
          /\ FinalNumber(v, "setUser") = <<4, 6>>
          /\ FinalNumber(v, "predefinedRoles") = <<4, 9>>
      BY <1>0, Numbers2, ZenonT(40)
    <2>2. /\ NumbersNew["privilegedAccess"] = <<4, 3>>
          /\ NumbersNew["functionPrivileges"] = <<4, 3>>
          /\ NumbersNew["dmlPrivileges"] = <<4, 6>>
          /\ NumbersNew["rowLevelSecurity"] = <<4, 7>>
          /\ NumbersNew["setUser"] = <<4, 6>>
          /\ NumbersNew["predefinedRoles"] = <<4, 9>>
      BY DEF NumbersNew
    <2> QED
      BY <1>2, <2>1, <2>2
  <1>3. CASE n \in {"localSocketLogin", "hostSocketLogin", "passwordComplexity"}
    <2>1. /\ FinalNumber(v, "localSocketLogin") = <<5, 3>>
          /\ FinalNumber(v, "hostSocketLogin") = <<5, 4>>
          /\ FinalNumber(v, "passwordComplexity") = <<5, 6>>
      BY <1>0, Numbers3
    <2>2. /\ NumbersNew["localSocketLogin"] = <<5, 3>>
          /\ NumbersNew["hostSocketLogin"] = <<5, 4>>
          /\ NumbersNew["passwordComplexity"] = <<5, 6>>
      BY DEF NumbersNew
    <2> QED
      BY <1>3, <2>1, <2>2
  <1>4. CASE n \in {"backendParams", "postmasterParams", "sighupParams",
           "superuserParams", "userParams", "fips", "ssl", "pgCrypto"}
    <2>1. /\ FinalNumber(v, "backendParams") = <<6, 2>>
          /\ FinalNumber(v, "postmasterParams") = <<6, 3>>
          /\ FinalNumber(v, "sighupParams") = <<6, 4>>
          /\ FinalNumber(v, "superuserParams") = <<6, 5>>
          /\ FinalNumber(v, "userParams") = <<6, 6>>
          /\ FinalNumber(v, "fips") = <<6, 7>>
          /\ FinalNumber(v, "ssl") = <<6, 8>>
          /\ FinalNumber(v, "pgCrypto") = <<6, 9>>
      BY <1>0, Numbers4, ZenonT(40)
    <2>2. /\ NumbersNew["backendParams"] = <<6, 2>>
          /\ NumbersNew["postmasterParams"] = <<6, 3>>
          /\ NumbersNew["sighupParams"] = <<6, 4>>
          /\ NumbersNew["superuserParams"] = <<6, 5>>
          /\ NumbersNew["userParams"] = <<6, 6>>
          /\ NumbersNew["fips"] = <<6, 7>>
          /\ NumbersNew["ssl"] = <<6, 8>>
          /\ NumbersNew["pgCrypto"] = <<6, 9>>
      BY DEF NumbersNew
    <2> QED
      BY <1>4, <2>1, <2>2
  <1>5. CASE n \in {"replicationUser", "replicationLogging", "baseBackup", "archiveMode",
           "streamingParams", "subdirectories", "pgBackRest",
           "miscellaneousParams"}
    <2>1. /\ FinalNumber(v, "replicationUser") = <<7, 1>>
          /\ FinalNumber(v, "replicationLogging") = <<7, 2>>
          /\ FinalNumber(v, "baseBackup") = <<7, 3>>
          /\ FinalNumber(v, "archiveMode") = <<7, 4>>
          /\ FinalNumber(v, "streamingParams") = <<7, 5>>
          /\ FinalNumber(v, "subdirectories") = <<8, 1>>
          /\ FinalNumber(v, "pgBackRest") = <<8, 2>>
          /\ FinalNumber(v, "miscellaneousParams") = <<8, 3>>
      BY <1>0, Numbers5
    <2>2. /\ NumbersNew["replicationUser"] = <<7, 1>>
          /\ NumbersNew["replicationLogging"] = <<7, 2>>
          /\ NumbersNew["baseBackup"] = <<7, 3>>
          /\ NumbersNew["archiveMode"] = <<7, 4>>
          /\ NumbersNew["streamingParams"] = <<7, 5>>
          /\ NumbersNew["subdirectories"] = <<8, 1>>
          /\ NumbersNew["pgBackRest"] = <<8, 2>>
          /\ NumbersNew["miscellaneousParams"] = <<8, 3>>
      BY DEF NumbersNew
    <2> QED
      BY <1>5, <2>1, <2>2
  <1> QED
    BY <1>1, <1>2, <1>3, <1>4, <1>5 DEF AllNames, LaterNames

LEMMA ApartNew ==
  \A n, m \in LaterNames \ {"functionPrivileges", "setUser"} : NumbersNew[n] = NumbersNew[m] => n = m
  BY DEF AllNames, LaterNames, NumbersNew

\* Another run leaves the numbers as they are.
LEMMA Unchanging ==
  /\ \A v \in {13, 14} : \A n \in AllNames : Renumbered(n, v, NumbersOld[n]) = NumbersOld[n]
  /\ \A v \in {15, 16} : \A n \in LaterNames : Renumbered(n, v, NumbersMid[n]) = NumbersMid[n]
  /\ \A n \in LaterNames : Renumbered(n, 17, NumbersNew[n]) = NumbersNew[n]
  <1>1. ASSUME NEW v \in {13, 14}, NEW n \in AllNames
        PROVE  Renumbered(n, v, NumbersOld[n]) = NumbersOld[n]
    <2>1. NumbersOld[n] \notin {<<4, 3>>, <<4, 6>>}
      BY DEF NumbersOld, AllNames, LaterNames
    <2>2. n \in {"dataCluster", "pgCrypto"} => NumbersOld[n] \notin {<<1, 3>>, <<6, 9>>}
      BY DEF NumbersOld
    <2> QED
      BY <2>1, <2>2 DEF Renumbered, SuiteNumber, OwnNumber
  <1>2. ASSUME NEW v \in {15, 16}, NEW n \in LaterNames
        PROVE  Renumbered(n, v, NumbersMid[n]) = NumbersMid[n]
    <2>1. NumbersMid[n] = Renumbered(n, v, CheckOf(v)[n].number)
      BY FinalMid DEF FinalNumber, FirstNumber
    <2>2. \A x : Renumbered(n, v, x) = OwnNumber(n, v, x)
      BY DEF Renumbered, SuiteNumber
    <2> QED
      BY <2>1, <2>2 DEF OwnNumber
  <1>3. ASSUME NEW n \in LaterNames
        PROVE  Renumbered(n, 17, NumbersNew[n]) = NumbersNew[n]
    BY DEF Renumbered, OwnNumber, SuiteNumber
  <1> QED
    BY <1>1, <1>2, <1>3

\* A check renumbered twice has the number it got the first time.
LEMMA RenumberedOnce ==
  ASSUME NEW v \in Versions, NEW n \in NamesOf(v)
  PROVE  Renumbered(n, v, FinalNumber(v, n)) = FinalNumber(v, n)
  <1>1. CASE v \in {13, 14}
    BY <1>1, NamedEver, FinalOld, Unchanging
  <1>2. CASE v \in {15, 16}
    BY <1>2, NamedLater, FinalMid, Unchanging
  <1>3. CASE v = 17
    BY <1>3, NamedLater, FinalNew, Unchanging
  <1> QED
    BY <1>1, <1>2, <1>3 DEF Versions

\* No two checks of a version end with one number, but for the twins.
LEMMA FinalApart ==
  ASSUME NEW v \in Versions, NEW n \in NamesOf(v) \ Twins(v), NEW m \in NamesOf(v) \ Twins(v),
         FinalNumber(v, n) = FinalNumber(v, m)
  PROVE  n = m
  <1>1. CASE v \in {13, 14}
    BY <1>1, NamedEver, FinalOld, ApartOld DEF Twins
  <1>2. CASE v \in {15, 16}
    BY <1>2, NamedLater, FinalMid, ApartMid DEF Twins
  <1>3. CASE v = 17
    BY <1>3, NamedLater, FinalNew, ApartNew DEF Twins
  <1> QED
    BY <1>1, <1>2, <1>3 DEF Versions

\* So there are as many numbers as checks.
LEMMA CountedApart ==
  ASSUME NEW v \in Versions, NEW names \in SUBSET (NamesOf(v) \ Twins(v)), NEW number,
         \A n \in names : number[n] = FinalNumber(v, n)
  PROVE  Cardinality({number[n] : n \in names}) = Cardinality(names)
  <1> DEFINE f == [n \in names |-> number[n]]
             T == {number[n] : n \in names}
  <1>1. IsFiniteSet(names)
    <2>1. IsFiniteSet(NamesOf(v))
      BY NamedLater, NamedEver DEF Versions
    <2> QED
      BY <2>1, FS_Subset
  <1>2. f \in Surjection(names, T)
    BY DEF Surjection
  <1>3. f \in Injection(names, T)
    <2>1. ASSUME NEW n \in names, NEW m \in names, f[n] = f[m]
          PROVE  n = m
      <3>1. FinalNumber(v, n) = FinalNumber(v, m)
        BY <2>1
      <3> QED
        BY <3>1, FinalApart
    <2>2. f \in [names -> T]
      OBVIOUS
    <2> HIDE DEF f, T
    <2> QED
      BY <2>1, <2>2 DEF Injection, IsInjective
  <1> HIDE DEF f, T
  <1>4. Cardinality(T) = Cardinality(names)
    BY <1>1, <1>2, <1>3, FS_Surjection
  <1> QED
    BY <1>4 DEF T

-----------------------------------------------------------------------------
(* A job of PostgreSQL checks.                                               *)

PgResults == [status : {"", "Manual", "Pass", "Fail"}, reason : Nat, listed : Nat]
PgRuns == {<<[answer |-> a, result |-> r]>> : a \in Answers, r \in PgResults}
FirstNumbers(v) == [n \in NamesOf(v) |-> FirstNumber(v, n)]
FinalNumbers(v) == [n \in NamesOf(v) |-> FinalNumber(v, n)]

PgTypes ==
  /\ pgJob.plan \in Seq(Versions) /\ pgJob.cron \in BOOLEAN
  /\ pgAt \in Nat
  /\ pgResult \in [Versions -> PgResults]
  /\ pgTold \in [Targets -> {<<>>} \cup PgRuns]
  /\ pgSent \in [Targets -> {<<>>} \cup {<<r>> : r \in PgResults}]

\* Numbers change with a version's first run, and never again.
NumbersSettle ==
  pgJob.asks = <<>> =>
    /\ pgNumbers = [v \in Versions |-> pgNumbers[v]]
    /\ \A v \in Versions : pgNumbers[v] \in {FirstNumbers(v), FinalNumbers(v)}
    /\ \A t \in Targets : pgTold[t] # <<>> =>
         pgNumbers[VersionOf(t)] = FinalNumbers(VersionOf(t))

\* A result is what its version's last run of the tick made of it.
LastTold ==
  \A t \in Targets : pgTold[t] # <<>> =>
    /\ t < pgAt
    /\ \/ pgTold[t][1].result = pgResult[VersionOf(t)]
       \/ \E u \in Targets : u > t /\ VersionOf(u) = VersionOf(t) /\ pgTold[u] # <<>>

\* A cron job sends nothing before its last target's turn.
SentLast == pgJob.cron /\ pgAt <= Len(pgJob.plan) + 1 => pgSent = Nothing

SentTold == \A t \in Targets : pgSent[t] # <<>> => pgTold[t] # <<>>

\* The invariant: what is told is what the version's result is or was, and all
\* a cron job sends it sends of the results as they are at the end.
PgInv ==
  PgTypes /\ NumbersSettle /\ LastTold /\ SentLast /\ SentTold /\ SentAsTold /\ JudgedAnew

LEMMA FreshResult == ASSUME NEW check PROVE Fresh(check) \in PgResults
  BY DEF Fresh, PgResults, NoTarget

LEMMA PgInvInit ==
  ASSUME NEW job \in Jobs, NEW watch, PgStart(job, watch)
  PROVE  PgInv
  <1>1. job.plan \in Seq(Versions) /\ job.cron \in BOOLEAN
    <2>1. CASE \E p \in PgPlans, c \in BOOLEAN : job = [plan |-> p, cron |-> c, asks |-> <<>>]
      BY <2>1, PgPlanAssumption
    <2>2. CASE \E p \in PgPlans, n \in {<<4, 3>>, <<4, 5>>, <<4, 6>>, <<4, 8>>, <<6, 9>>} :
                 job = [plan |-> p, cron |-> FALSE, asks |-> <<n>>]
      BY <2>2, PgPlanAssumption
    <2> QED
      BY <2>1, <2>2 DEF Jobs
  <1>2. PgTypes
    BY <1>1, FreshResult DEF PgStart, PgTypes, Nothing
  <1>3. \A t \in Targets : pgTold[t] = <<>> /\ pgSent[t] = <<>>
    BY DEF PgStart, Nothing
  <1>4. NumbersSettle
    BY <1>3 DEF NumbersSettle, PgStart, FirstNumbers, FirstNumber
  <1> QED
    BY <1>2, <1>3, <1>4 DEF PgInv, LastTold, SentLast, SentTold, SentAsTold, JudgedAnew, PgStart

\* What a run makes of a check that judges.
LEMMA JudgedByAnswer ==
  ASSUME NEW check, NEW r \in PgResults, NEW answer \in Answers, NEW t \in Nat
  PROVE  /\ After(check, r, answer, t) \in PgResults
         /\ ~check.manual =>
              /\ After(check, r, answer, t).status = "Pass" <=> answer \in check.passes
              /\ After(check, r, answer, t).status = "Fail" =>
                   After(check, r, answer, t).reason = t
  <1>1. Judge(check, r, answer, t) \in PgResults /\ ListFound(check, r, answer, t) \in PgResults
    BY DEF Judge, ListFound, PgResults
  <1>2. /\ Judge(check, r, answer, t).status = "Pass" <=> answer \in check.passes
        /\ Judge(check, r, answer, t).status = "Fail" => Judge(check, r, answer, t).reason = t
    BY DEF Judge, PgResults
  <1> QED
    BY <1>1, <1>2, Zenon DEF After

\* A run of the whole suite settles its version's numbers.
LEMMA RunSettlesNumbers ==
  ASSUME PgInv, NEW t \in Targets, NEW answer \in Answers, PerformAllChecks(t, answer),
         UNCHANGED pgJob
  PROVE  NumbersSettle'
  <1> DEFINE v == VersionOf(t)
  <1> SUFFICES ASSUME pgJob.asks = <<>> PROVE NumbersSettle'
    BY DEF NumbersSettle
  <1>1. v \in Versions
    BY DEF PgInv, PgTypes, Targets, VersionOf
  <1>2. pgNumbers = [w \in Versions |-> pgNumbers[w]] /\ pgNumbers[v] \in {FirstNumbers(v), FinalNumbers(v)}
    BY <1>1 DEF PgInv, NumbersSettle
  <1>3. Chosen(v) = NamesOf(v)
    BY DEF Chosen, Asks
  <1>4. pgNumbers' = [pgNumbers EXCEPT ![v] = FinalNumbers(v)]
    <2>1. pgNumbers' = [pgNumbers EXCEPT ![v] =
                          [n \in NamesOf(v) |-> Renumbered(n, v, pgNumbers[v][n])]]
      BY <1>2, <1>3 DEF PerformAllChecks, Renumber
    <2>2. ASSUME NEW n \in NamesOf(v) PROVE Renumbered(n, v, pgNumbers[v][n]) = FinalNumber(v, n)
      <3>1. CASE pgNumbers[v] = FirstNumbers(v)
        BY <3>1 DEF FirstNumbers, FinalNumber
      <3>2. CASE pgNumbers[v] = FinalNumbers(v)
        BY <1>1, <3>2, RenumberedOnce DEF FinalNumbers
      <3> QED
        BY <1>2, <3>1, <3>2
    <2> QED
      BY <2>1, <2>2 DEF FinalNumbers
  <1>5. /\ pgNumbers' = [w \in Versions |-> pgNumbers'[w]]
        /\ pgNumbers'[v] = FinalNumbers(v)
        /\ \A w \in Versions \ {v} : pgNumbers'[w] = pgNumbers[w]
    BY <1>1, <1>2, <1>4
  <1>6. ASSUME NEW u \in Targets, pgTold'[u] # <<>>
        PROVE  pgNumbers'[VersionOf(u)] = FinalNumbers(VersionOf(u))
    <2>1. VersionOf(u) \in Versions
      BY DEF PgInv, PgTypes, Targets, VersionOf
    <2>2. CASE u = t
      BY <1>5, <2>2
    <2>3. CASE u # t
      <3>1. pgTold'[u] = pgTold[u]
        BY <2>3 DEF PerformAllChecks, PgInv, PgTypes
      <3>2. pgNumbers[VersionOf(u)] = FinalNumbers(VersionOf(u))
        BY <1>6, <3>1 DEF PgInv, NumbersSettle
      <3> QED
        BY <1>5, <2>1, <3>2
    <2> QED
      BY <2>2, <2>3
  <1>7. \A w \in Versions : pgNumbers'[w] \in {FirstNumbers(w), FinalNumbers(w)}
    BY <1>5 DEF PgInv, NumbersSettle
  <1>8. Targets' = Targets /\ \A u \in Targets : VersionOf(u)' = VersionOf(u)
    BY DEF Targets, VersionOf
  <1> QED
    BY <1>5, <1>6, <1>7, <1>8 DEF NumbersSettle

\* The run on one target.
LEMMA RunTargetKeeps ==
  ASSUME PgInv, NEW t \in Targets, NEW answer \in Answers,
         Turn(t), PerformAllChecks(t, answer), Send(t), UNCHANGED <<pgJob, pgWatch, pgRound>>
  PROVE  PgInv'
  <1> DEFINE v == VersionOf(t)
             r == After(CheckOf(v)[pgWatch], pgResult[v], answer, t)
             run == [answer |-> answer, result |-> r]
  <1>1. /\ v \in Versions /\ t \in Nat /\ t = pgAt /\ pgAt' = pgAt + 1 /\ pgAt \in Nat
        /\ \A u \in Targets : u \in Nat /\ VersionOf(u) \in Versions
    BY DEF PgInv, PgTypes, Targets, VersionOf, Turn
  <1>2. Targets' = Targets /\ (\A u \in Targets : VersionOf(u)' = VersionOf(u)) /\ Nothing' = Nothing
    BY DEF Targets, VersionOf, Nothing
  <1>3. r \in PgResults
    BY <1>1, JudgedByAnswer DEF PgInv, PgTypes
  <1>4. pgTold[t] = <<>> /\ pgSent[t] = <<>> /\ (pgJob.cron => pgSent = Nothing)
    <2>1. pgTold[t] = <<>>
      BY <1>1 DEF PgInv, LastTold
    <2>2. pgAt <= Len(pgJob.plan) + 1
      BY <1>1 DEF PgInv, PgTypes, Targets
    <2> QED
      BY <2>1, <2>2 DEF PgInv, SentTold, SentLast
  <1>5. NumbersSettle'
    BY RunSettlesNumbers
  <1>6. CASE pgWatch \notin Chosen(v)
    <2>1. UNCHANGED <<pgResult, pgTold>>
      BY <1>6 DEF PerformAllChecks
    <2>2. UNCHANGED pgSent
      BY <1>4, <2>1 DEF Send
    <2>3. PgTypes' /\ SentLast' /\ SentTold'
      BY <1>1, <1>2, <1>4, <2>1, <2>2 DEF PgInv, PgTypes, SentLast, SentTold
    <2>4. LastTold'
      <3>1. ASSUME NEW u \in Targets, pgTold[u] # <<>>
            PROVE  /\ u < pgAt'
                   /\ \/ pgTold[u][1].result = pgResult[VersionOf(u)]
                      \/ \E w \in Targets : w > u /\ VersionOf(w) = VersionOf(u) /\ pgTold[w] # <<>>
        <4>1. u < pgAt /\ u \in Nat
          BY <1>1, <3>1 DEF PgInv, LastTold
        <4>2. u < pgAt'
          BY <1>1, <4>1
        <4> QED
          BY <3>1, <4>2 DEF PgInv, LastTold
      <3> QED
        BY <1>2, <2>1, <3>1 DEF LastTold
    <2>5. SentAsTold'
      BY <1>2, <2>1, <2>2 DEF PgInv, SentAsTold
    <2>6. JudgedAnew'
      BY <1>2, <2>1 DEF PgInv, JudgedAnew
    <2> QED
      BY <1>5, <2>3, <2>4, <2>5, <2>6 DEF PgInv
  <1>7. CASE pgWatch \in Chosen(v)
    <2>1. /\ pgResult' = [pgResult EXCEPT ![v] = r]
          /\ pgTold' = [pgTold EXCEPT ![t] = <<[answer |-> answer, result |-> pgResult'[v]]>>]
      BY <1>7 DEF PerformAllChecks, Home
    <2>2. pgResult'[v] = r /\ \A w \in Versions \ {v} : pgResult'[w] = pgResult[w]
      BY <1>1, <2>1 DEF PgInv, PgTypes
    <2>3. pgTold'[t] = <<run>> /\ \A u \in Targets \ {t} : pgTold'[u] = pgTold[u]
      BY <2>1, <2>2 DEF PgInv, PgTypes
    <2> HIDE DEF r
    <2>4. /\ pgTold'[t] # <<>> /\ pgTold'[t][1].result = r /\ pgTold'[t][1].answer = answer
          /\ <<run>> \in PgRuns
      BY <1>3, <2>3 DEF PgRuns
    <2>5. pgSent' = IF pgJob.cron THEN pgSent ELSE [pgSent EXCEPT ![t] = <<r>>]
      <3>1. Home(VersionOf(t)) = v
        BY DEF Home
      <3> QED
        BY <2>2, <2>4, <3>1 DEF Send
    <2> HIDE DEF v
    <2>6. PgTypes'
      <3>1. pgResult' \in [Versions -> PgResults]
        BY <1>1, <1>3, <2>1 DEF PgInv, PgTypes
      <3>2. pgTold' \in [Targets -> {<<>>} \cup PgRuns]
        BY <2>1, <2>2, <2>4 DEF PgInv, PgTypes
      <3>3. pgSent' \in [Targets -> {<<>>} \cup {<<x>> : x \in PgResults}]
        BY <1>3, <2>5 DEF PgInv, PgTypes
      <3> QED
        BY <1>1, <1>2, <3>1, <3>2, <3>3 DEF PgInv, PgTypes
    <2>7. LastTold'
      <3>1. ASSUME NEW u \in Targets, pgTold'[u] # <<>>
            PROVE  /\ u < pgAt'
                   /\ \/ pgTold'[u][1].result = pgResult'[VersionOf(u)]
                      \/ \E w \in Targets : w > u /\ VersionOf(w) = VersionOf(u) /\ pgTold'[w] # <<>>
        <4>1. CASE u = t
          BY <1>1, <2>2, <2>4, <4>1 DEF v
        <4>2. CASE u # t
          <5>1. pgTold'[u] = pgTold[u] /\ u < pgAt
            BY <2>3, <3>1, <4>2 DEF PgInv, LastTold
          <5>2. CASE VersionOf(u) = VersionOf(t)
            <6>1. t > u /\ u < pgAt'
              BY <1>1, <5>1
            <6> QED
              BY <2>4, <5>2, <6>1
          <5>3. CASE VersionOf(u) # VersionOf(t)
            <6>1. \/ pgTold[u][1].result = pgResult[VersionOf(u)]
                  \/ \E w \in Targets : w > u /\ VersionOf(w) = VersionOf(u) /\ pgTold[w] # <<>>
              BY <3>1, <5>1 DEF PgInv, LastTold
            <6>2. pgResult'[VersionOf(u)] = pgResult[VersionOf(u)]
              BY <1>1, <2>2, <5>3 DEF v
            <6>3. \A w \in Targets : VersionOf(w) = VersionOf(u) => pgTold'[w] = pgTold[w]
              BY <2>3, <5>3
            <6> QED
              <7>1. u < pgAt'
                BY <1>1, <5>1
              <7>2. CASE pgTold[u][1].result = pgResult[VersionOf(u)]
                BY <5>1, <6>2, <7>1, <7>2
              <7>3. CASE \E w \in Targets : w > u /\ VersionOf(w) = VersionOf(u) /\ pgTold[w] # <<>>
                BY <6>3, <7>1, <7>3
              <7> QED
                BY <6>1, <7>2, <7>3
          <5> QED
            BY <5>2, <5>3
        <4> QED
          BY <4>1, <4>2
      <3> QED
        BY <1>2, <3>1 DEF LastTold
    <2>8. SentLast' /\ SentTold'
      <3>1. SentLast'
        BY <1>2, <1>4, <2>5 DEF SentLast
      <3>2. ASSUME NEW u \in Targets, pgSent'[u] # <<>> PROVE pgTold'[u] # <<>>
        <4>1. CASE u = t
          BY <2>4, <4>1
        <4>2. CASE u # t
          BY <2>3, <2>5, <3>2, <4>2 DEF PgInv, PgTypes, SentTold
        <4> QED
          BY <4>1, <4>2
      <3> QED
        BY <1>2, <3>1, <3>2 DEF SentTold
    <2>9. SentAsTold'
      <3>1. CASE pgJob.cron
        BY <1>2, <1>4, <2>5, <3>1 DEF SentAsTold, Nothing
      <3>2. CASE ~pgJob.cron
        <4>1. pgSent' = [pgSent EXCEPT ![t] = <<r>>]
          BY <2>5, <3>2
        <4>2. ASSUME NEW u \in Targets, pgSent'[u] # <<>>
              PROVE  pgSent'[u][1] = pgTold'[u][1].result
          <5>1. CASE u = t
            <6>1. pgSent'[t] = <<r>>
              BY <4>1 DEF PgInv, PgTypes
            <6> QED
              BY <2>4, <5>1, <6>1
          <5>2. CASE u # t
            <6>1. pgSent'[u] = pgSent[u] /\ pgTold'[u] = pgTold[u]
              BY <2>3, <4>1, <5>2 DEF PgInv, PgTypes
            <6> QED
              BY <3>2, <4>2, <6>1 DEF PgInv, SentAsTold
          <5> QED
            BY <5>1, <5>2
        <4> QED
          BY <1>2, <4>2 DEF SentAsTold
      <3> QED
        BY <3>1, <3>2
    <2>10. JudgedAnew'
      <3>1. ASSUME NEW u \in Targets, pgTold'[u] # <<>>, ~CheckOf(VersionOf(u))[pgWatch].manual
            PROVE  /\ pgTold'[u][1].result.status = "Pass"
                        <=> pgTold'[u][1].answer \in CheckOf(VersionOf(u))[pgWatch].passes
                   /\ pgTold'[u][1].result.status = "Fail" => pgTold'[u][1].result.reason = u
        <4>1. CASE u = t
          <5>1. /\ r.status = "Pass" <=> answer \in CheckOf(v)[pgWatch].passes
                /\ r.status = "Fail" => r.reason = t
            <6>1. pgResult[v] \in PgResults /\ ~CheckOf(v)[pgWatch].manual
              BY <1>1, <3>1, <4>1 DEF v, PgInv, PgTypes
            <6> QED
              BY <1>1, <6>1, JudgedByAnswer DEF r
          <5> QED
            BY <2>4, <4>1, <5>1 DEF v
        <4>2. CASE u # t
          <5>1. pgTold'[u] = pgTold[u]
            BY <2>3, <4>2
          <5> QED
            BY <3>1, <5>1 DEF PgInv, JudgedAnew
        <4> QED
          BY <4>1, <4>2
      <3> QED
        BY <1>2, <3>1 DEF JudgedAnew
    <2> QED
      BY <1>5, <2>6, <2>7, <2>8, <2>9, <2>10 DEF PgInv
  <1> QED
    BY <1>6, <1>7

LEMMA PgInvStep == PgInv /\ [PgNext]_pgVars => PgInv'
  <1> SUFFICES ASSUME PgInv, [PgNext]_pgVars PROVE PgInv'
    OBVIOUS
  <1>1. ASSUME NEW t \in Targets, RunTarget(t) PROVE PgInv'
    <2>1. PICK answer \in Answers : PerformAllChecks(t, answer)
      BY <1>1 DEF RunTarget
    <2> QED
      BY <1>1, <2>1, RunTargetKeeps DEF RunTarget
  <1> USE DEF PgInv
  <1>2. ASSUME NEW t \in Targets, RunFails(t) PROVE PgInv'
    <2>1. /\ Targets' = Targets /\ Nothing' = Nothing
          /\ \A u \in Targets : u \in Nat /\ VersionOf(u)' = VersionOf(u)
      BY <1>2 DEF RunFails, Targets, VersionOf, Nothing
    <2>2. /\ UNCHANGED <<pgJob, pgWatch, pgNumbers, pgResult, pgTold, pgSent>>
          /\ pgAt \in Nat /\ pgAt' = pgAt + 1
          /\ pgAt <= Len(pgJob.plan)
      BY <1>2 DEF RunFails, Turn, PgTypes, Targets
    <2>3. PgTypes' /\ NumbersSettle' /\ SentTold'
      BY <2>1, <2>2 DEF PgTypes, NumbersSettle, SentTold
    <2>4. SentLast' /\ SentAsTold' /\ JudgedAnew'
      <3>1. pgJob.cron => pgSent = Nothing
        BY <2>2 DEF SentLast, PgTypes
      <3> QED
        BY <2>1, <2>2, <3>1 DEF SentLast, SentAsTold, JudgedAnew
    <2>5. LastTold'
      <3>1. ASSUME NEW u \in Targets, u < pgAt PROVE u < pgAt'
        BY <2>1, <2>2, <3>1
      <3> QED
        BY <2>1, <2>2, <3>1 DEF LastTold
    <2> QED
      BY <2>3, <2>4, <2>5
  <1>3. ASSUME SendAll PROVE PgInv'
    <2>1. /\ Targets' = Targets /\ Nothing' = Nothing
          /\ \A u \in Targets : u \in Nat /\ VersionOf(u)' = VersionOf(u) /\ VersionOf(u) \in Versions
      BY <1>3 DEF SendAll, Targets, VersionOf, Nothing, PgTypes
    <2>2. /\ UNCHANGED <<pgJob, pgWatch, pgNumbers, pgResult, pgTold>>
          /\ pgJob.cron /\ Len(pgJob.plan) \in Nat
          /\ pgAt \in Nat /\ pgAt' = pgAt + 1 /\ pgAt = Len(pgJob.plan) + 1
          /\ pgSent' = [u \in Targets |-> IF pgTold[u] = <<>> THEN <<>>
                                           ELSE <<pgResult[VersionOf(u)]>>]
      BY <1>3 DEF SendAll, PgTypes, Home
    <2>3. \A u \in Targets : IF pgTold[u] = <<>> THEN pgSent'[u] = <<>>
                             ELSE pgSent'[u][1] = pgResult[VersionOf(u)]
      BY <2>2
    <2>4. PgTypes' /\ NumbersSettle' /\ SentLast'
      <3>1. pgSent' \in [Targets -> {<<>>} \cup {<<x>> : x \in PgResults}]
        BY <2>1, <2>2 DEF PgTypes
      <3>2. ~(pgAt' <= Len(pgJob.plan) + 1)
        BY <2>2
      <3>3. PgTypes'
        <4>1. pgAt' \in Nat
          BY <2>2
        <4>2. pgResult' \in [Versions -> PgResults] /\ pgTold' \in [Targets -> {<<>>} \cup PgRuns]
          BY <2>2 DEF PgTypes
        <4>3. pgJob'.plan \in Seq(Versions) /\ pgJob'.cron \in BOOLEAN
          BY <2>2 DEF PgTypes
        <4> QED
          BY <2>1, <3>1, <4>1, <4>2, <4>3 DEF PgTypes
      <3>4. NumbersSettle'
        BY <2>1, <2>2 DEF NumbersSettle
      <3>5. SentLast'
        BY <2>2, <3>2 DEF SentLast
      <3> QED
        BY <3>3, <3>4, <3>5
    <2>5. SentTold' /\ JudgedAnew'
      BY <2>1, <2>2, <2>3 DEF SentTold, JudgedAnew
    <2>6. LastTold'
      <3>1. ASSUME NEW u \in Targets, u < pgAt PROVE u < pgAt'
        BY <2>1, <2>2, <3>1
      <3> QED
        BY <2>1, <2>2, <3>1 DEF LastTold
    <2>7. SentAsTold'
      <3>1. ASSUME NEW u \in Targets, pgSent'[u] # <<>>
            PROVE  \/ pgSent'[u][1] = pgTold[u][1].result
                   \/ \E w \in Targets : w > u /\ VersionOf(w) = VersionOf(u) /\ pgTold[w] # <<>>
        BY <2>3, <3>1 DEF LastTold
      <3> QED
        BY <2>1, <2>2, <3>1 DEF SentAsTold
    <2> QED
      BY <2>4, <2>5, <2>6, <2>7
  <1>4. ASSUME Tick PROVE PgInv'
    <2>1. /\ Targets' = Targets /\ Nothing' = Nothing
          /\ \A u \in Targets : VersionOf(u)' = VersionOf(u)
      BY <1>4 DEF Tick, Targets, VersionOf, Nothing
    <2>2. \A u \in Targets : pgTold'[u] = <<>> /\ pgSent'[u] = <<>>
      BY <1>4 DEF Tick, Nothing
    <2>3. PgTypes' /\ SentLast'
      <3>1. Nothing \in [Targets -> {<<>>} \cup PgRuns]
            /\ Nothing \in [Targets -> {<<>>} \cup {<<x>> : x \in PgResults}]
        BY DEF Nothing
      <3> QED
        BY <1>4, <2>1, <3>1 DEF Tick, PgTypes, SentLast
    <2>4. NumbersSettle' /\ LastTold' /\ SentTold'
      BY <1>4, <2>1, <2>2 DEF Tick, NumbersSettle, LastTold, SentTold
    <2>5. SentAsTold' /\ JudgedAnew'
      BY <2>1, <2>2 DEF SentAsTold, JudgedAnew
    <2> QED
      BY <2>3, <2>4, <2>5
  <1>5. ASSUME UNCHANGED pgVars PROVE PgInv'
    <2>1. Targets' = Targets /\ Nothing' = Nothing /\ \A u \in Targets : VersionOf(u)' = VersionOf(u)
      BY <1>5 DEF pgVars, Targets, VersionOf, Nothing
    <2>2. PgTypes' /\ NumbersSettle' /\ LastTold'
      BY <1>5, <2>1 DEF pgVars, PgTypes, NumbersSettle, LastTold
    <2>3. SentLast' /\ SentTold' /\ SentAsTold' /\ JudgedAnew'
      BY <1>5, <2>1 DEF pgVars, SentLast, SentTold, SentAsTold, JudgedAnew
    <2> QED
      BY <2>2, <2>3
  <1> QED
    BY <1>1, <1>2, <1>3, <1>4, <1>5 DEF PgNext

LEMMA ReportsTold == PgInv => ReportsOwn
  <1> SUFFICES ASSUME PgInv PROVE NumbersApart
    BY DEF PgInv, ReportsOwn
  <1> SUFFICES ASSUME NEW t \in Targets, pgTold[t] # <<>>, pgJob.asks = <<>>
               PROVE  LET v == VersionOf(t)
                          names == NamesOf(v) \ Twins(v)
                      IN  Cardinality({pgNumbers[v][n] : n \in names}) = Cardinality(names)
    BY DEF NumbersApart
  <1> DEFINE v == VersionOf(t)
             names == NamesOf(v) \ Twins(v)
             number == pgNumbers[v]
  <1>1. v \in Versions
    BY DEF PgInv, PgTypes, Targets, VersionOf
  <1>2. number = FinalNumbers(v)
    BY DEF PgInv, NumbersSettle
  <1>3. \A n \in names : number[n] = FinalNumber(v, n)
    BY <1>2 DEF FinalNumbers
  <1> HIDE DEF v, number
  <1>4. Cardinality({number[n] : n \in names}) = Cardinality(names)
    BY <1>1, <1>3, CountedApart
  <1> QED
    BY <1>4 DEF v, number

-----------------------------------------------------------------------------
(* A server's logging settings.                                              *)

\* The functions of the settings judged alike, taken together.
LEMMA LoneJudges ==
  ASSUME NEW v, NEW s \in Settings
  PROVE  /\ s \in NonEmpty => (Lone(v)[s] <=> v # "")
         /\ s \in SwitchedOn => (Lone(v)[s] <=> v = "on")
         /\ s \in SwitchedOff => (Lone(v)[s] <=> v = "off")
  <1>1. ASSUME s \in NonEmpty PROVE Lone(v)[s] <=> v # ""
    <2>1. /\ Lone(v)["log_destination"] = (v # "")
          /\ Lone(v)["log_directory"] = (v # "")
          /\ Lone(v)["log_filename"] = (v # "")
          /\ Lone(v)["log_rotation_age"] = (v # "")
          /\ Lone(v)["syslog_ident"] = (v # "")
          /\ Lone(v)["log_timezone"] = (v # "")
      BY DEF Lone, LogDest, LogDir, LogFile, LogLT, SyslogMsg, LogTimezone
    <2> QED
      BY <1>1, <2>1 DEF NonEmpty
  <1>2. ASSUME s \in SwitchedOn PROVE Lone(v)[s] <=> v = "on"
    <2>1. /\ Lone(v)["logging_collector"] = (v = "on")
          /\ Lone(v)["log_truncate_on_rotation"] = (v = "on")
          /\ Lone(v)["syslog_sequence_numbers"] = (v = "on")
          /\ Lone(v)["syslog_split_messages"] = (v = "on")
          /\ Lone(v)["debug_pretty_print"] = (v = "on")
          /\ Lone(v)["log_disconnections"] = (v = "on")
      BY DEF Lone, LogCol, LogTrunc, SyslogSuppr, ServLogMsgSize, DebugPrettyPrint, LogDisconnections
    <2> QED
      BY <1>2, <2>1 DEF SwitchedOn
  <1>3. ASSUME s \in SwitchedOff PROVE Lone(v)[s] <=> v = "off"
    <2>1. /\ Lone(v)["debug_print_parse"] = (v = "off")
          /\ Lone(v)["debug_print_rewritten"] = (v = "off")
          /\ Lone(v)["debug_print_plan"] = (v = "off")
          /\ Lone(v)["log_hostname"] = (v = "off")
      BY DEF Lone, DebugPrintParse, DebugPrintRewritten, DebugPrintPlan, LogHostname
    <2> QED
      BY <1>3, <2>1 DEF SwitchedOff
  <1> QED
    BY <1>1, <1>2, <1>3

\* The suite's rule for a setting and the setting's own function.
LEMMA SuiteAgrees ==
  ASSUME NEW v, NEW s \in Settings
  PROVE  (Accepts(s, v) <=> Lone(v)[s]) \/ KnownToDiffer(s, v)
  <1>1. s \in NonEmpty \cup SwitchedOn \cup SwitchedOff \cup
          {"log_file_mode", "log_rotation_size", "syslog_facility", "log_min_messages",
           "log_min_error_statement", "log_connections", "log_error_verbosity",
           "log_line_prefix", "log_statement", "shared_preload_libraries"}
    BY DEF Settings, Lone, NonEmpty, SwitchedOn, SwitchedOff
  <1>2. CASE s \in NonEmpty \cup SwitchedOn \cup SwitchedOff
    <2>1. /\ s \in NonEmpty => (Accepts(s, v) <=> v # "")
          /\ s \in SwitchedOn => (Accepts(s, v) <=> v = "on")
          /\ s \in SwitchedOff => (Accepts(s, v) <=> v = "off")
      BY DEF Accepts, NonEmpty, SwitchedOn, SwitchedOff
    <2> QED
      BY <1>2, <2>1, LoneJudges
  <1>3. CASE s = "log_file_mode"
    <2>1. Lone(v)["log_file_mode"] = (v = "0600")
      BY DEF Lone, LogFilePerm
    <2>2. Accepts("log_file_mode", v) <=> v = "0600"
      BY DEF Accepts, NonEmpty, SwitchedOn, SwitchedOff
    <2> QED
      BY <1>3, <2>1, <2>2
  <1>4. CASE s = "log_rotation_size"
    <2>1. Lone(v)["log_rotation_size"] = (v # "0")
      BY DEF Lone, LogFileSize
    <2>2. Accepts("log_rotation_size", v) <=> v # "0"
      BY DEF Accepts, NonEmpty, SwitchedOn, SwitchedOff
    <2> QED
      BY <1>4, <2>1, <2>2
  <1>5. CASE s = "syslog_facility"
    <2>1. Lone(v)["syslog_facility"] = (v = "local")
      BY DEF Lone, Syslog
    <2>2. Accepts("syslog_facility", v) <=> v = "local"
      BY DEF Accepts, NonEmpty, SwitchedOn, SwitchedOff
    <2> QED
      BY <1>5, <2>1, <2>2
  <1>6. CASE s = "log_min_messages"
    <2>1. Lone(v)["log_min_messages"] = (v \notin {"error", "log", "fatal", "panic"})
      BY DEF Lone, ServLogMsg
    <2>2. Accepts("log_min_messages", v) <=> v \notin {"error", "log", "fatal", "panic"}
      BY DEF Accepts, NonEmpty, SwitchedOn, SwitchedOff
    <2> QED
      BY <1>6, <2>1, <2>2
  <1>7. CASE s = "log_min_error_statement"
    <2>1. Lone(v)["log_min_error_statement"] = (v \notin {"log", "fatal", "panic"})
      BY DEF Lone, SQLStat
    <2>2. Accepts("log_min_error_statement", v) <=> v \notin {"error", "fatal", "panic"}
      BY DEF Accepts, NonEmpty, SwitchedOn, SwitchedOff
    <2> QED
      BY <1>7, <2>1, <2>2 DEF KnownToDiffer
  <1>8. CASE s = "log_connections"
    <2>1. Lone(v)["log_connections"] = (v = "on")
      BY DEF Lone, LogConnections
    <2>2. Accepts("log_connections", v) <=> v \in {"on", "all"}
      BY DEF Accepts, NonEmpty, SwitchedOn, SwitchedOff
    <2> QED
      BY <1>8, <2>1, <2>2 DEF KnownToDiffer
  <1>9. CASE s = "log_error_verbosity"
    <2>1. Lone(v)["log_error_verbosity"] = (v = "verbose")
      BY DEF Lone, ErrorVerbosity
    <2>2. Accepts("log_error_verbosity", v) <=> v = "verbose"
      BY DEF Accepts, NonEmpty, SwitchedOn, SwitchedOff
    <2> QED
      BY <1>9, <2>1, <2>2
  <1>10. CASE s = "log_line_prefix"
    <2>1. Lone(v)["log_line_prefix"] = (v = "escapes")
      BY DEF Lone, LogLinePrefix
    <2>2. Accepts("log_line_prefix", v) <=> v = "escapes"
      BY DEF Accepts, NonEmpty, SwitchedOn, SwitchedOff
    <2> QED
      BY <1>10, <2>1, <2>2
  <1>11. CASE s = "log_statement"
    <2>1. Lone(v)["log_statement"] = (v # "none")
      BY DEF Lone, LogStatement
    <2>2. Accepts("log_statement", v) <=> v # "none"
      BY DEF Accepts, NonEmpty, SwitchedOn, SwitchedOff
    <2> QED
      BY <1>11, <2>1, <2>2
  <1>12. CASE s = "shared_preload_libraries"
    <2>1. Lone(v)["shared_preload_libraries"] = (v = "pgaudit")
      BY DEF Lone, SharedPreload
    <2>2. Accepts("shared_preload_libraries", v) <=> v = "pgaudit"
      BY DEF Accepts, NonEmpty, SwitchedOn, SwitchedOff
    <2> QED
      BY <1>12, <2>1, <2>2
  <1> QED
    BY <1>1, <1>2, <1>3, <1>4, <1>5, <1>6, <1>7, <1>8, <1>9, <1>10, <1>11, <1>12

\* What the suite passes of a server it could not read.
LEMMA UnreadPasses ==
  ASSUME NEW s \in Settings, Accepts(s, "")
  PROVE  s \in {"log_rotation_size", "log_min_messages", "log_min_error_statement",
                "log_statement"}
  BY DEF Settings, Lone, Accepts, NonEmpty, SwitchedOn, SwitchedOff

\* Both statuses are those of the value that was read.
LmaInv ==
  /\ lmaName \in Settings
  /\ lmaSuite # "" => lmaLoaded # <<>> /\ lmaSuite = CheckLmaResults(lmaName, lmaLoaded[1])
  /\ lmaAsked # <<>> =>
       lmaLone = IF Lone(lmaAsked[1])[lmaName] THEN "Pass" ELSE "Fail"
  /\ lmaLone = "" => lmaAsked = <<>>

LEMMA LmaInvInit == ASSUME NEW s \in Settings, NEW v, LmaStart(s, v) PROVE LmaInv
  BY DEF LmaStart, LmaInv

LEMMA LmaInvStep == LmaInv /\ [LmaNext]_lmaVars => LmaInv'
  <1> SUFFICES ASSUME LmaInv, [LmaNext]_lmaVars PROVE LmaInv'
    OBVIOUS
  <1>1. CASE Load
    BY <1>1 DEF LmaInv, Load
  <1>2. CASE RunSuite
    BY <1>2 DEF LmaInv, RunSuite
  <1>3. CASE RunLone
    <2>1. lmaAsked'[1] = lmaServer /\ lmaAsked' # <<>>
      BY <1>3 DEF RunLone
    <2>2. lmaLone' # ""
      BY <1>3 DEF RunLone
    <2> QED
      BY <1>3, <2>1, <2>2 DEF LmaInv, RunLone
  <1>4. CASE RunLoneFails
    BY <1>4 DEF LmaInv, RunLoneFails
  <1>5. CASE SetAnew
    BY <1>5 DEF LmaInv, SetAnew
  <1>6. CASE UNCHANGED lmaVars
    BY <1>6 DEF LmaInv, lmaVars
  <1> QED
    BY <1>1, <1>2, <1>3, <1>4, <1>5, <1>6 DEF LmaNext

LEMMA SettingsTold == LmaInv => SettingsJudged
  <1> SUFFICES ASSUME LmaInv PROVE SettingsJudged
    OBVIOUS
  <1>1. CopiesAgree
    <2> SUFFICES ASSUME lmaSuite # "", lmaAsked # <<>>, lmaLoaded = lmaAsked,
                        ~KnownToDiffer(lmaName, lmaAsked[1])
                 PROVE  lmaSuite = "Pass" <=> lmaLone = "Pass"
      BY DEF CopiesAgree
    <2>1. lmaName # "log_line_prefix" \/ ~Accepts(lmaName, lmaAsked[1])
      BY DEF KnownToDiffer, Accepts, NonEmpty, SwitchedOn, SwitchedOff
    <2>2. lmaSuite = "Pass" <=> Accepts(lmaName, lmaAsked[1])
      BY <2>1 DEF LmaInv, CheckLmaResults
    <2>3. lmaLone = "Pass" <=> Lone(lmaAsked[1])[lmaName]
      BY DEF LmaInv
    <2>4. Accepts(lmaName, lmaAsked[1]) <=> Lone(lmaAsked[1])[lmaName]
      BY SuiteAgrees DEF LmaInv
    <2> QED
      BY <2>2, <2>3, <2>4
  <1>2. PassNeedsValue
    <2> SUFFICES ASSUME lmaSuite = "Pass", lmaLoaded = <<"">>
                 PROVE  lmaName \in {"log_rotation_size", "log_min_messages",
                                     "log_min_error_statement", "log_statement"}
      BY DEF PassNeedsValue
    <2>1. Accepts(lmaName, "")
      BY DEF LmaInv, CheckLmaResults
    <2> QED
      BY <2>1, UnreadPasses DEF LmaInv
  <1> QED
    BY <1>1, <1>2 DEF SettingsJudged

\* A PostgreSQL job is followed, or rests.
PgFollowed == IF runner = "postgres" THEN PgInv ELSE PgRests

LEMMA PgFollowedHolds == Spec => []PgFollowed
  <1>1. Init => PgFollowed
    <2>1. CASE runner = "postgres"
      <3>1. Init => \E job \in Jobs, watch \in NamesOf(13) : PgStart(job, watch)
        BY <2>1, Starts0 DEF PgInit
      <3> QED
        BY <2>1, <3>1, PgInvInit DEF PgFollowed
    <2>2. CASE runner # "postgres"
      BY <2>2, Starts0 DEF PgFollowed
    <2> QED
      BY <2>1, <2>2
  <1>2. PgFollowed /\ [Next]_vars => PgFollowed'
    <2> SUFFICES ASSUME PgFollowed, [Next]_vars PROVE PgFollowed'
      OBVIOUS
    <2>1. CASE runner = "postgres"
      BY <2>1, Moves, PgInvStep DEF PgFollowed
    <2>2. CASE runner # "postgres"
      <3>1. UNCHANGED <<runner, pgVars>>
        BY <2>2, Moves
      <3> QED
        BY <2>2, <3>1 DEF PgFollowed, PgRests, PgStart, pgVars, Nothing, Targets
    <2> QED
      BY <2>1, <2>2
  <1> QED
    BY <1>1, <1>2, PTL DEF Spec

LEMMA LmaInvHolds == Spec => []LmaInv
  <1>1. Init => LmaInv
    <2>1. RestSettings \in Settings
      <3>1. "log_timezone" \in Settings
        BY DEF Settings, Lone
      <3> QED
        BY <3>1 DEF RestSettings, OneOf
    <2>2. Init => \E name \in Settings : \E value : LmaStart(name, value)
      BY <2>1, Starts0 DEF LmaInit, LmaRests
    <2> QED
      BY <2>2, LmaInvInit
  <1>2. LmaInv /\ [Next]_vars => LmaInv'
    BY Moves, LmaInvStep DEF lmaVars
  <1> QED
    BY <1>1, <1>2, PTL DEF Spec

\* A PostgreSQL job's report says of each server what that server's own run
\* found, judged anew, under numbers that tell the checks apart; and the suite
\* judges a logging setting as the setting's own function does, but for the
\* cases named (check.go:42-320, 460-491, crons.go:318-333, lma.go:1585-1764).
THEOREM PgReportSoundHolds == Spec => []PgReportSound
  <1>1. PgFollowed => ReportsOwn
    <2>1. CASE runner = "postgres"
      BY <2>1, ReportsTold DEF PgFollowed
    <2>2. CASE runner # "postgres"
      <3>1. PgFollowed => \A t \in Targets : pgTold[t] = <<>> /\ pgSent[t] = <<>>
        BY <2>2 DEF PgFollowed, PgRests, PgStart, Nothing
      <3> QED
        BY <3>1 DEF ReportsOwn, SentAsTold, JudgedAnew, NumbersApart
    <2> QED
      BY <2>1, <2>2
  <1> QED
    BY <1>1, SettingsTold, PgFollowedHolds, LmaInvHolds, PTL DEF PgReportSound
-----------------------------------------------------------------------------
(* A run by hand.                                                            *)

\* A set of numbers up to n has a greatest one, which is what Max returns.
LEMMA GreatestNumber ==
  ASSUME NEW n \in Nat, NEW S \in SUBSET (1 .. n), S # {}
  PROVE  Max(S) \in S
  <1> DEFINE T == {n - x : x \in S}
  <1>1. T \in SUBSET Nat /\ T # {}
    <2>1. \A x \in S : n - x \in Nat
      OBVIOUS
    <2> QED
      BY <2>1
  <1>2. Min(T) \in T /\ \A y \in T : Min(T) <= y
    BY <1>1, LeastNumber
  <1>3. PICK x \in S : Min(T) = n - x
    BY <1>2
  <1>4. \A y \in S : x >= y
    <2>1. ASSUME NEW y \in S PROVE x >= y
      <3>1. Min(T) <= n - y
        BY <1>2
      <3> QED
        BY <1>3, <3>1
    <2> QED
      BY <2>1
  <1> QED
    BY <1>4 DEF Max

\* The last database of some is one of them.
LEMMA LastOfSome ==
  ASSUME Dbs \in Seq(STRING), NEW S \in SUBSET ToSet(Dbs), S # {}
  PROVE  LastDb(S) \in S
  <1> DEFINE I == {i \in DOMAIN Dbs : Dbs[i] \in S}
  <1>1. I \in SUBSET (1 .. Len(Dbs)) /\ I # {} /\ Len(Dbs) \in Nat
    BY DEF ToSet
  <1>2. Max(I) \in I
    BY <1>1, GreatestNumber
  <1> QED
    BY <1>2 DEF LastDb

MrPhases == {"flags", "running", "refused", "exited", "crashed", "ended"}
MrTypes == mrReq \in MrRequests /\ mrPhase \in MrPhases /\ mrAt \in 1 .. 20

OfOne == "postgresControl" \in Runs
LogStops == "log" \in Runs /\ ~LogUsable /\ ~Summary

\* What has started was accepted.
Accepted == mrPhase \notin {"flags", "refused"} => ~ConfigRefused

Scored ==
  mrAt > 2 /\ "postgres" \in Runs =>
    (mrScore <=> \E db \in ToSet(Dbs) : Works("postgres", db))

KeptFor(x, db) ==
  /\ x \in DOMAIN mrErrors
  /\ mrErrors[x].db = db /\ mrErrors[x].failed

\* A step that is over has shown what worked and told, or kept, what did not.
Dealt(x, db) ==
  \/ Worked(x, db) /\ <<x, db>> \in mrSeen
  \/ ~Worked(x, db) /\ (<<x, db>> \in mrTold \/ Unheard(x, db) \/ KeptFor(x, db))
StepDealt(x) ==
  IF x \in {"postgres", "hba"} THEN \A db \in ToSet(Dbs) : Dealt(x, db) ELSE Dealt(x, Db)
StepsDealt ==
  mrReq.mode # "verbose" =>
    \A i \in 1 .. 19 : i < mrAt /\ MrSteps[i] \in Runs => StepDealt(MrSteps[i]) \/ LogStops

\* The end comes after the last step, and tells what was kept.
EndTells ==
  mrPhase = "ended" /\ ~OfOne =>
    /\ mrAt > 19
    /\ \A x \in DOMAIN mrErrors : mrErrors[x].failed => <<x, mrErrors[x].db>> \in mrTold

\* What is filed of a scan of every database is sent at once; the rest at the
\* end, unless something was pushed before.
FileSent ==
  /\ mrSent # {} => mrReq.enabled
  /\ mrReq.enabled => \A x \in {"postgres", "hba"} \cap DOMAIN mrFile : <<x, mrFile[x]>> \in mrSent
  /\ mrPushed => Runs \cap {"postgres", "hba"} # {}
  /\ OfOne => mrFile = <<>>
  /\ mrPhase = "ended" /\ mrReq.enabled /\ HasPg /\ ~mrPushed /\ Db \notin mrReq.down =>
       \A x \in DOMAIN mrFile : <<x, mrFile[x]>> \in mrSent

Caused ==
  /\ mrPhase = "crashed" => \/ Summary /\ ToSet(Dbs) \subseteq mrReq.down
                            \/ mrReq.broken \cap {"mysql", "postgres", "hba", "wraparound"} # {}
                            \/ ~HasPg /\ MrAsks \cap {"attack", "users", "audit"} # {}
  /\ mrPhase = "exited" => mrReq.broken \cap {"hba", "rds", "log", "wraparound"} # {}

MrInv ==
  MrTypes /\ Accepted /\ Scored /\ StepsDealt /\ EndTells /\ FileSent /\ Caused

StepNames ==
  {"mysql", "postgres", "hba", "overview", "rds", "hbaControl", "log", "attack", "generate",
   "encrypt", "users", "pwned", "compare", "wraparound", "pii", "backup", "create", "audit",
   "ssl"}

LEMMA StepsListed ==
  /\ Len(MrSteps) = 19
  /\ ToSet(MrSteps) = {MrSteps[i] : i \in 1 .. 19}
  /\ ToSet(MrSteps) = StepNames
  /\ \A i, j \in 1 .. 19 : MrSteps[i] = MrSteps[j] => i = j
  /\ MrSteps[2] = "postgres" /\ MrSteps[4] = "overview"
  <1>1. MrSteps \in Seq(StepNames)
    BY DEF MrSteps, StepNames
  <1>2. Len(MrSteps) = 19
    BY DEF MrSteps
  <1>3. \A i, j \in 1 .. 19 : MrSteps[i] = MrSteps[j] => i = j
    BY DEF MrSteps
  <1>4. MrSteps[2] = "postgres" /\ MrSteps[4] = "overview"
    BY DEF MrSteps
  <1>5. ToSet(MrSteps) = {MrSteps[i] : i \in 1 .. 19}
    BY <1>1, <1>2, SMTT(40) DEF ToSet
  <1>6. \A x \in StepNames : \E i \in 1 .. 19 : MrSteps[i] = x
    BY DEF MrSteps, StepNames
  <1>7. \A i \in 1 .. 19 : MrSteps[i] \in StepNames
    BY DEF MrSteps, StepNames
  <1> QED
    BY <1>2, <1>3, <1>4, <1>5, <1>6, <1>7

LEMMA MrInvInit == ASSUME NEW req \in MrRequests, MrStart(req) PROVE MrInv
  <1>1. mrFile = <<>> /\ mrErrors = <<>> /\ DOMAIN mrFile = {} /\ DOMAIN mrErrors = {}
    BY DEF MrStart
  <1>2. mrPhase = "flags" /\ mrAt = 1 /\ mrSent = {} /\ mrPushed = FALSE /\ mrReq = req
    BY DEF MrStart
  <1> QED
    BY <1>1, <1>2 DEF MrInv, MrTypes, MrPhases, Accepted, Scored, StepsDealt, EndTells, FileSent, Caused

\* What the configuration asks for.
LEMMA AskedSteps ==
  ASSUME MrTypes
  PROVE  /\ MrAsks \subseteq ToSet(MrSteps) \ {"overview", "hbaControl"}
         /\ Dbs \in Seq(STRING)
         /\ mrReq.mode # "verbose" => Runs = MrAsks /\ ~OfOne
         /\ mrReq.mode = "verbose" => Runs \cap {"postgres", "hba"} = {}
         /\ ~OfOne => \A x \in {"attack", "users", "audit"} : x \in Runs => x \in MrAsks
         /\ Summary /\ ~OfOne => "postgres" \in Runs
  <1>1. mrReq.asked \subseteq StepNames \ {"overview", "hbaControl"} /\ mrReq.dbs \in Seq(STRING)
    BY ManualAssumption, StepsListed DEF MrTypes
  <1>2. MrAsks \subseteq StepNames \ {"overview", "hbaControl"}
    BY <1>1 DEF MrAsks, AllChecks, StepNames
  <1>3. Dbs \in Seq(STRING)
    <2>1. <<>> \in Seq(STRING)
      OBVIOUS
    <2> QED
      BY <1>1, <2>1 DEF Dbs
  <1>4. mrReq.mode # "verbose" => Runs = MrAsks /\ ~OfOne
    BY <1>2 DEF Runs, OfOne, StepNames
  <1>5. ASSUME mrReq.mode = "verbose", ~MenuAll, NEW y \in VerboseRuns
        PROVE  /\ y \notin {"postgres", "hba"}
               /\ y # "postgresControl" => y \in mrReq.asked \cup {"hbaControl"}
    <2>1. PICK x \in mrReq.asked :
                 y \in (CASE x = "postgres" -> {"postgresControl"}
                          [] x = "hba" -> {"hbaControl"}
                          [] x \in {"pii", "create"} -> {}
                          [] OTHER -> {x})
      BY <1>5 DEF VerboseRuns
    <2> QED
      BY <2>1
  <1>6. mrReq.mode = "verbose" => Runs = VerboseRuns
    BY DEF Runs
  <1>7. MenuAll => VerboseRuns = {"postgresControl", "hbaControl", "log", "users", "wraparound"}
    BY DEF VerboseRuns
  <1>8. mrReq.mode = "verbose" => Runs \cap {"postgres", "hba"} = {}
    BY <1>5, <1>6, <1>7
  <1>9. ~OfOne => \A x \in {"attack", "users", "audit"} : x \in Runs => x \in MrAsks
    <2>1. CASE mrReq.mode # "verbose"
      BY <1>4, <2>1
    <2>2. CASE mrReq.mode = "verbose"
      BY <1>5, <1>6, <1>7, <2>2 DEF OfOne, MrAsks
    <2> QED
      BY <2>1, <2>2
  <1>10. Summary /\ ~OfOne => "postgres" \in Runs
    <2>1. CASE mrReq.mode = "verbose"
      BY <1>6, <1>7, <2>1 DEF Summary, OfOne
    <2>2. CASE mrReq.mode # "verbose"
      BY <1>4, <2>2 DEF Summary, MrAsks, MenuAll, AllChecks
    <2> QED
      BY <2>1, <2>2
  <1> QED
    BY <1>2, <1>3, <1>4, <1>8, <1>9, <1>10, StepsListed

\* The request and what follows from it stay as they are.
LEMMA RequestStays ==
  ASSUME UNCHANGED mrReq
  PROVE  /\ Runs' = Runs /\ Dbs' = Dbs /\ Db' = Db /\ MrAsks' = MrAsks
         /\ (Summary' <=> Summary) /\ (HasPg' <=> HasPg)
         /\ (OfOne' <=> OfOne) /\ (LogStops' <=> LogStops) /\ (ConfigRefused' <=> ConfigRefused)
         /\ \A x, db : /\ Works(x, db)' <=> Works(x, db)
                       /\ Worked(x, db)' <=> Worked(x, db)
                       /\ Unheard(x, db)' <=> Unheard(x, db)
  <1>1. /\ Runs' = Runs /\ Dbs' = Dbs /\ Db' = Db /\ MrAsks' = MrAsks
        /\ (Summary' <=> Summary) /\ (HasPg' <=> HasPg) /\ (HasMy' <=> HasMy)
    BY DEF Runs, MrAsks, VerboseRuns, MenuAll, Dbs, HasPg, HasMy, Loads, Db, Summary
  <1>2. (OfOne' <=> OfOne) /\ (LogStops' <=> LogStops)
    BY <1>1 DEF OfOne, LogStops, LogUsable
  <1>3. ConfigRefused' <=> ConfigRefused
    BY <1>1 DEF ConfigRefused, LoadFails, Loads, PostgresMissing
  <1>4. ASSUME NEW x, NEW db
        PROVE  /\ Works(x, db)' <=> Works(x, db)
               /\ Worked(x, db)' <=> Worked(x, db)
               /\ Unheard(x, db)' <=> Unheard(x, db)
    BY <1>1 DEF Works, Worked, Unheard, Succeeds, NoUsersListed, LogUsable
  <1> QED
    BY <1>1, <1>2, <1>3, <1>4

\* What was dealt with stays dealt with: nothing shown, told or kept is taken back.
LEMMA DealtStays ==
  ASSUME UNCHANGED mrReq, mrSeen \subseteq mrSeen', mrTold \subseteq mrTold',
         NEW x, NEW db, Dealt(x, db),
         KeptFor(x, db) => KeptFor(x, db)'
  PROVE  Dealt(x, db)'
  BY RequestStays DEF Dealt

\* A step of main leaves the errors of the steps before it alone.
EarlierErrorsKept ==
  \A x \in DOMAIN mrErrors : x # MrStep => x \in DOMAIN mrErrors' /\ mrErrors'[x] = mrErrors[x]

LEMMA StepOver ==
  ASSUME MrInv, UNCHANGED mrReq, mrAt <= 19,
         mrSeen \subseteq mrSeen', mrTold \subseteq mrTold', EarlierErrorsKept,
         mrAt' = mrAt + 1 \/ LogStops,
         NEW scan, scan = MrStep,
         mrReq.mode # "verbose" /\ scan \in Runs => StepDealt(scan)' \/ LogStops
  PROVE  StepsDealt'
  <1> SUFFICES ASSUME mrReq.mode # "verbose", ~LogStops, NEW i \in 1 .. 19, i < mrAt',
                      MrSteps[i] \in Runs
               PROVE  StepDealt(MrSteps[i])'
    BY RequestStays DEF StepsDealt
  <1>1. mrAt \in 1 .. 20 /\ mrAt' = mrAt + 1
    BY DEF MrInv, MrTypes
  <1>2. CASE i = mrAt
    BY <1>2 DEF MrStep
  <1>3. CASE i # mrAt
    <2>1. i < mrAt
      BY <1>1, <1>3
    <2>2. StepDealt(MrSteps[i])
      BY <2>1 DEF MrInv, StepsDealt
    <2>3. MrSteps[i] # MrStep
      BY <1>1, <1>3, StepsListed DEF MrStep
    <2>4. \A db : Dealt(MrSteps[i], db) => Dealt(MrSteps[i], db)'
      <3>1. ASSUME NEW db, KeptFor(MrSteps[i], db) PROVE KeptFor(MrSteps[i], db)'
        BY <2>3, <3>1 DEF KeptFor, EarlierErrorsKept
      <3> QED
        BY <3>1, DealtStays
    <2> QED
      BY <2>2, <2>4, RequestStays DEF StepDealt
  <1> QED
    BY <1>2, <1>3

\* The scan of every database of a server, the CIS suite's or the HBA one.
LEMMA ScanFiles ==
  ASSUME MrInv, UNCHANGED mrReq, NEW scan \in {"postgres", "hba"}, scan \in Runs,
         mrPhase = "running", mrPhase' = "running", ~OfOne, TargetScan(scan)
  PROVE  /\ FileSent'
         /\ mrSeen \subseteq mrSeen'
         /\ \A db \in ToSet(Dbs) : Works(scan, db) => <<scan, db>> \in mrSeen'
  <1> DEFINE good == {db \in ToSet(Dbs) : Works(scan, db)}
  <1>1. /\ mrSeen' = mrSeen \cup {<<scan, db>> : db \in good}
        /\ mrFile' = IF good = {} THEN mrFile ELSE Put(mrFile, scan, LastDb(good))
        /\ mrSent' = mrSent \cup (IF mrReq.enabled THEN {<<scan, db>> : db \in good} ELSE {})
        /\ mrPushed' = (mrPushed \/ (mrReq.enabled /\ good # {}))
    BY DEF TargetScan
  <1>2. good # {} => LastDb(good) \in good
    BY AskedSteps, LastOfSome DEF MrInv
  <1> HIDE DEF good
  <1>3. mrSent' # {} => mrReq.enabled
    BY <1>1 DEF MrInv, FileSent
  <1>4. ASSUME mrReq.enabled, NEW x \in {"postgres", "hba"} \cap DOMAIN mrFile'
        PROVE  <<x, mrFile'[x]>> \in mrSent'
    <2>1. CASE good = {}
      BY <1>1, <1>4, <2>1 DEF MrInv, FileSent
    <2>2. CASE good # {} /\ x = scan
      <3>1. mrFile' = Put(mrFile, scan, LastDb(good))
        BY <1>1, <2>2
      <3>2. mrFile'[x] = LastDb(good)
        BY <2>2, <3>1 DEF Put
      <3> QED
        BY <1>1, <1>2, <1>4, <2>2, <3>2
    <2>3. CASE good # {} /\ x # scan
      <3>1. x \in DOMAIN mrFile /\ mrFile'[x] = mrFile[x]
        <4>1. mrFile' = Put(mrFile, scan, LastDb(good))
          BY <1>1, <2>3
        <4> QED
          BY <2>3, <4>1 DEF Put
      <3> QED
        BY <1>1, <1>4, <3>1 DEF MrInv, FileSent
    <2> QED
      BY <2>1, <2>2, <2>3
  <1>5. mrReq.enabled' = mrReq.enabled
    OBVIOUS
  <1>6. FileSent'
    BY <1>3, <1>4, <1>5, RequestStays DEF FileSent
  <1> QED
    BY <1>1, <1>6 DEF good

LEMMA PostgresScanKeeps ==
  ASSUME MrInv, ~OfOne, RunPostgres
  PROVE  MrInv'
  <1>1. /\ mrPhase = "running" /\ mrAt = 2 /\ MrStep = "postgres" /\ "postgres" \in Runs
        /\ mrAt' = 3 /\ UNCHANGED <<mrReq, mrPhase, mrTold, mrErrors>>
        /\ TargetScan("postgres")
        /\ mrScore' = \E db \in ToSet(Dbs) : Works("postgres", db)
    <2>1. mrAt \in 1 .. 19 /\ MrStep = "postgres"
      BY StepsListed DEF RunPostgres, At, MrInv, MrTypes
    <2>2. mrAt = 2
      BY <2>1, StepsListed DEF MrStep
    <2> QED
      BY <2>1, <2>2 DEF RunPostgres, At, MrMoveOn
  <1>2. /\ FileSent' /\ mrSeen \subseteq mrSeen'
        /\ \A db \in ToSet(Dbs) : Works("postgres", db) => <<"postgres", db>> \in mrSeen'
    BY <1>1, ScanFiles
  <1>3. StepDealt("postgres")'
    BY <1>1, <1>2, RequestStays DEF StepDealt, Dealt, Worked, Unheard
  <1>4. StepsDealt'
    BY <1>1, <1>2, <1>3, StepOver DEF EarlierErrorsKept
  <1>5. MrTypes' /\ Accepted' /\ EndTells' /\ Caused'
    BY <1>1, RequestStays DEF MrInv, MrTypes, Accepted, EndTells, Caused
  <1>6. Scored'
    BY <1>1, RequestStays DEF Scored
  <1> QED
    BY <1>2, <1>4, <1>5, <1>6 DEF MrInv

LEMMA HbaScanKeeps ==
  ASSUME MrInv, ~OfOne, RunHba
  PROVE  MrInv'
  <1> DEFINE last == Dbs[Len(Dbs)]
  <1>1. /\ mrPhase = "running" /\ mrAt \in 1 .. 19 /\ mrAt # 2 /\ MrStep = "hba" /\ "hba" \in Runs
        /\ mrAt' = mrAt + 1 /\ UNCHANGED <<mrReq, mrPhase, mrTold, mrScore>>
        /\ TargetScan("hba")
        /\ mrErrors' = Put(mrErrors, "hba", [db |-> last, failed |-> ~Works("hba", last)])
    <2>1. mrAt \in 1 .. 19 /\ MrStep = "hba"
      BY StepsListed DEF RunHba, At, MrInv, MrTypes
    <2>2. mrAt # 2
      BY <2>1, StepsListed DEF MrStep
    <2> QED
      BY <2>1, <2>2 DEF RunHba, At, MrMoveOn
  <1>2. /\ FileSent' /\ mrSeen \subseteq mrSeen'
        /\ \A db \in ToSet(Dbs) : Works("hba", db) => <<"hba", db>> \in mrSeen'
    BY <1>1, ScanFiles
  <1>3. ASSUME NEW db \in ToSet(Dbs) PROVE Dealt("hba", db)'
    <2>1. CASE Works("hba", db)
      BY <1>2, <2>1, <1>1, RequestStays DEF Dealt, Worked
    <2>2. CASE ~Works("hba", db) /\ db # last
      BY <1>1, <2>2, RequestStays DEF Dealt, Worked, Unheard
    <2>3. CASE ~Works("hba", db) /\ db = last
      <3>1. /\ "hba" \in DOMAIN mrErrors'
            /\ mrErrors'["hba"] = [db |-> last, failed |-> ~Works("hba", last)]
        BY <1>1 DEF Put
      <3>2. KeptFor("hba", db)'
        <4>1. mrErrors'["hba"].db = db
          BY <2>3, <3>1
        <4>2. mrErrors'["hba"].failed = (~Works("hba", last))
          BY <3>1
        <4>3. mrErrors'["hba"].failed
          BY <2>3, <4>2, Zenon
        <4> QED
          BY <3>1, <4>1, <4>3 DEF KeptFor
      <3> QED
        BY <1>1, <2>3, <3>2, RequestStays DEF Dealt, Worked
    <2> QED
      BY <2>1, <2>2, <2>3
  <1>4. StepDealt("hba")'
    BY <1>1, <1>3, RequestStays DEF StepDealt
  <1>5. EarlierErrorsKept
    BY <1>1 DEF Put, EarlierErrorsKept
  <1>6. StepsDealt'
    BY <1>1, <1>2, <1>4, <1>5, StepOver
  <1>7. MrTypes' /\ Accepted' /\ EndTells' /\ Caused'
    BY <1>1, RequestStays DEF MrInv, MrTypes, Accepted, EndTells, Caused
  <1>8. Scored'
    <2>1. mrAt' > 2 => mrAt > 2
      BY <1>1
    <2> QED
      BY <1>1, <2>1, RequestStays DEF MrInv, Scored
  <1> QED
    BY <1>2, <1>6, <1>7, <1>8 DEF MrInv

\* A step that shows, tells, keeps and files nothing.
LEMMA IdleStepKeeps ==
  ASSUME MrInv, ~OfOne, mrPhase = "running", mrAt \in 1 .. 19, MrMoveOn,
         UNCHANGED <<mrScore, mrSeen, mrTold, mrErrors, mrFile, mrPushed, mrSent>>,
         mrAt # 2 \/ "postgres" \notin Runs,
         NEW scan, scan = MrStep, mrReq.mode # "verbose" => scan \notin Runs
  PROVE  MrInv'
  <1>1. UNCHANGED <<mrReq, mrPhase>> /\ mrAt' = mrAt + 1
    BY DEF MrMoveOn
  <1>2. StepsDealt'
    BY <1>1, StepOver DEF EarlierErrorsKept
  <1>3. MrTypes' /\ Accepted' /\ EndTells' /\ Caused'
    BY <1>1, RequestStays DEF MrInv, MrTypes, Accepted, EndTells, Caused
  <1>4. FileSent'
    BY <1>1, RequestStays DEF MrInv, FileSent
  <1>5. Scored'
    <2>1. "postgres" \in Runs /\ mrAt' > 2 => mrAt > 2
      BY <1>1
    <2> QED
      BY <1>1, <2>1, RequestStays DEF MrInv, Scored
  <1> QED
    BY <1>2, <1>3, <1>4, <1>5 DEF MrInv

LEMMA NotAskedKeeps == ASSUME MrInv, ~OfOne, NotAsked PROVE MrInv'
  <1>1. /\ mrPhase = "running" /\ mrAt \in 1 .. 19 /\ MrMoveOn /\ MrStep \notin Runs
        /\ UNCHANGED <<mrScore, mrSeen, mrTold, mrErrors, mrFile, mrPushed, mrSent>>
    BY StepsListed DEF NotAsked, At, MrInv, MrTypes
  <1>2. mrAt = 2 => MrStep = "postgres"
    BY StepsListed DEF MrStep
  <1> QED
    BY <1>1, <1>2, IdleStepKeeps

LEMMA OverviewKeeps == ASSUME MrInv, ~OfOne, Overview PROVE MrInv'
  <1>1. /\ mrPhase = "running" /\ mrAt \in 1 .. 19 /\ MrMoveOn /\ MrStep = "overview"
        /\ UNCHANGED <<mrScore, mrSeen, mrTold, mrErrors, mrFile, mrPushed, mrSent>>
    BY StepsListed DEF Overview, At, MrInv, MrTypes
  <1>2. mrAt # 2
    BY <1>1, StepsListed DEF MrStep
  <1>3. mrReq.mode # "verbose" => "overview" \notin Runs
    BY AskedSteps DEF MrInv
  <1> QED
    BY <1>1, <1>2, <1>3, IdleStepKeeps

\* What becomes of a scan's failure.
LEMMA FailureKnown ==
  ASSUME MrTypes, NEW x \in MrAsks, x \notin {"postgres", "hba"}, ~Succeeds(x),
         x = "rds" => "rds" \notin mrReq.broken
  PROVE  x \in ToldAtOnce \/ x \in ToldAtEnd \/ Unheard(x, Db)
  <1>1. x \in StepNames \ {"overview", "hbaControl", "postgres", "hba"}
    BY AskedSteps, StepsListed
  <1>2. x # "rds"
    BY DEF Succeeds, OnDb
  <1>3. x \in {"log", "users", "compare", "wraparound", "pii", "backup", "create", "audit", "ssl"}
        \/ x = "pwned" \/ x \in {"mysql", "attack", "generate", "encrypt"}
    BY <1>1, <1>2 DEF StepNames
  <1>4. x \in {"log", "users", "compare", "wraparound", "pii", "backup", "create", "audit", "ssl",
               "pwned"}
        => x \in ToldAtOnce \/ x \in ToldAtEnd
    BY DEF ToldAtOnce, ToldAtEnd
  <1> QED
    BY <1>3, <1>4 DEF Unheard

LEMMA ScanKeeps == ASSUME MrInv, ~OfOne, RunScan PROVE MrInv'
  <1>0. PICK x : x = MrSteps[mrAt]
    OBVIOUS
  <1>1. /\ mrPhase = "running" /\ mrAt \in 1 .. 19 /\ MrStep = x /\ x \in Runs
        /\ x \notin {"postgres", "hba", "overview"} /\ ~ScanExits
        /\ UNCHANGED <<mrReq, mrPhase, mrScore, mrPushed>>
    BY <1>0, StepsListed DEF RunScan, At, MrInv, MrTypes, MrStep
  <1>2. /\ IF Returns(x)
           THEN /\ mrSeen' = mrSeen \cup {<<x, Db>>}
                /\ mrFile' = IF x \in Filed THEN Put(mrFile, x, Db) ELSE mrFile
                /\ mrSent' = mrSent \cup (IF x = "pii" /\ mrReq.enabled
                                          THEN {<<"pii", Db>>} ELSE {})
                /\ UNCHANGED mrTold
           ELSE /\ mrTold' = mrTold \cup (IF x \in ToldAtOnce THEN {<<x, Db>>} ELSE {})
                /\ UNCHANGED <<mrSeen, mrFile, mrSent>>
        /\ mrErrors' = IF x \in ToldAtEnd
                       THEN Put(mrErrors, x, [db |-> Db, failed |-> ~Returns(x)])
                       ELSE mrErrors
        /\ IF x = "log" /\ ~LogUsable /\ ~Summary THEN mrAt' = 20 ELSE mrAt' = mrAt + 1
    BY <1>1, StepsListed DEF RunScan
  <1>3. mrSeen \subseteq mrSeen' /\ mrTold \subseteq mrTold' /\ mrSent \subseteq mrSent'
    BY <1>2
  <1>4. EarlierErrorsKept
    BY <1>1, <1>2 DEF EarlierErrorsKept, Put
  <1>5. mrAt' = mrAt + 1 \/ LogStops
    BY <1>1, <1>2 DEF LogStops
  <1>6. mrReq.mode # "verbose" => StepDealt(x)'
    <2> SUFFICES ASSUME mrReq.mode # "verbose" PROVE Dealt(x, Db)'
      BY <1>1, RequestStays DEF StepDealt
    <2>1. CASE Succeeds(x)
      <3>1. <<x, Db>> \in mrSeen'
        BY <1>2, <2>1 DEF Returns
      <3>2. Worked(x, Db)'
        BY <1>1, <2>1, RequestStays DEF Worked
      <3> QED
        BY <1>1, <3>1, <3>2, RequestStays DEF Dealt
    <2>2. CASE NoUsersListed(x)
      <3>1. ~Worked(x, Db) /\ Unheard(x, Db)
        BY <1>1, <2>2 DEF Worked, Succeeds, Unheard, NoUsersListed
      <3> QED
        BY <1>1, <3>1, RequestStays DEF Dealt
    <2>3. CASE ~Succeeds(x) /\ ~NoUsersListed(x)
      <3>0. ~Returns(x)
        BY <2>3 DEF Returns
      <3>1. ~Worked(x, Db)'
        BY <1>1, <2>3, RequestStays DEF Worked
      <3>2. x = "rds" => "rds" \notin mrReq.broken
        BY <1>1 DEF ScanExits, At, MrStep, RunScan
      <3>3. x \in MrAsks
        BY <1>1, AskedSteps DEF MrInv
      <3>4. CASE x \in ToldAtOnce
        BY <1>1, <1>2, <3>0, <3>1, <3>4, RequestStays DEF Dealt
      <3>5. CASE Unheard(x, Db)
        BY <1>1, <3>1, <3>5, RequestStays DEF Dealt
      <3>6. CASE x \in ToldAtEnd
        <4>1. x \in DOMAIN mrErrors' /\ mrErrors'[x] = [db |-> Db, failed |-> ~Returns(x)]
          BY <1>2, <3>6 DEF Put
        <4>2. mrErrors'[x].db = Db /\ mrErrors'[x].failed = (~Returns(x))
          BY <4>1
        <4>3. mrErrors'[x].failed
          BY <3>0, <4>2, Zenon
        <4>4. KeptFor(x, Db)'
          BY <1>1, <4>1, <4>2, <4>3, RequestStays DEF KeptFor
        <4> QED
          BY <1>1, <3>1, <4>4, RequestStays DEF Dealt
      <3> QED
        BY <1>1, <2>3, <3>2, <3>3, <3>4, <3>5, <3>6, FailureKnown DEF MrInv
    <2> QED
      BY <2>1, <2>2, <2>3
  <1>7. StepsDealt'
    BY <1>1, <1>3, <1>4, <1>5, <1>6, StepOver
  <1>8. MrTypes' /\ Accepted' /\ EndTells' /\ Caused'
    BY <1>1, <1>2, RequestStays DEF MrInv, MrTypes, Accepted, EndTells, Caused
  <1>9. Scored'
    <2>1. mrAt # 2
      BY <1>0, <1>1, StepsListed
    <2>2. CASE mrAt > 2
      BY <1>1, <2>2, RequestStays DEF MrInv, Scored
    <2>3. CASE mrAt = 1
      <3>1. x # "log"
        BY <1>0, <2>3 DEF MrSteps
      <3>2. mrAt' = 2
        BY <1>2, <2>3, <3>1
      <3> QED
        BY <3>2 DEF Scored
    <2> QED
      BY <1>1, <2>1, <2>2, <2>3
  <1>10. FileSent'
    <2>1. mrSent' # {} => mrReq.enabled
      BY <1>2 DEF MrInv, FileSent
    <2>2. ASSUME mrReq.enabled, NEW y \in {"postgres", "hba"} \cap DOMAIN mrFile'
          PROVE  <<y, mrFile'[y]>> \in mrSent'
      <3>1. y # x
        BY <1>1
      <3>2. y \in DOMAIN mrFile /\ mrFile'[y] = mrFile[y]
        BY <1>2, <3>1 DEF Put
      <3> QED
        BY <1>3, <2>2, <3>2 DEF MrInv, FileSent
    <2> QED
      BY <1>1, <2>1, <2>2, RequestStays DEF MrInv, FileSent
  <1> QED
    BY <1>7, <1>8, <1>9, <1>10 DEF MrInv

\* The end of main, a panic and an exit change neither what was dealt with nor
\* what was filed.
LEMMA BreakKeeps ==
  ASSUME MrInv, UNCHANGED <<mrReq, mrAt, mrScore, mrSeen, mrErrors, mrFile, mrPushed>>,
         mrPhase = "running", mrPhase' \in {"ended", "crashed", "exited"},
         mrTold \subseteq mrTold'
  PROVE  MrTypes' /\ Accepted' /\ Scored' /\ StepsDealt'
  <1>1. MrTypes' /\ Accepted'
    BY RequestStays DEF MrInv, MrTypes, MrPhases, Accepted
  <1>2. Scored'
    BY RequestStays DEF MrInv, Scored
  <1>3. ASSUME NEW x, NEW db, Dealt(x, db) PROVE Dealt(x, db)'
    <2>1. KeptFor(x, db) => KeptFor(x, db)'
      BY DEF KeptFor
    <2> QED
      BY <1>3, <2>1, DealtStays
  <1>4. ASSUME NEW x, StepDealt(x) PROVE StepDealt(x)'
    BY <1>3, <1>4, RequestStays DEF StepDealt
  <1>5. StepsDealt'
    BY <1>4, RequestStays DEF MrInv, StepsDealt
  <1> QED
    BY <1>1, <1>2, <1>5

\* What is deferred sends what was filed, with a main server.
LEMMA DeferredSends ==
  ASSUME MrInv, ~OfOne, mrPhase = "running", MrDeferred,
         UNCHANGED <<mrReq, mrFile, mrPushed>>
  PROVE  FileSent'
  <1>1. mrSent' = mrSent \cup FinalPush
    BY DEF MrDeferred
  <1>2. mrSent' # {} => mrReq.enabled
    BY <1>1 DEF FinalPush, MrInv, FileSent
  <1>3. ASSUME mrReq.enabled, HasPg, ~mrPushed, Db \notin mrReq.down, NEW x \in DOMAIN mrFile
        PROVE  <<x, mrFile[x]>> \in mrSent'
    <2>1. mrFile # <<>>
      OBVIOUS
    <2>2. FinalPush = {<<y, mrFile[y]>> : y \in DOMAIN mrFile}
      BY <1>3, <2>1 DEF FinalPush
    <2> QED
      BY <1>1, <2>2
  <1>4. mrReq.enabled =>
          \A x \in {"postgres", "hba"} \cap DOMAIN mrFile : <<x, mrFile[x]>> \in mrSent'
    BY <1>1 DEF MrInv, FileSent
  <1> QED
    BY <1>2, <1>3, <1>4, RequestStays DEF MrInv, FileSent

LEMMA MrEndsKeeps == ASSUME MrInv, ~OfOne, MrEnds PROVE MrInv'
  <1>1. /\ mrPhase = "running" /\ mrPhase' = "ended" /\ mrAt > 19 /\ MrDeferred
        /\ UNCHANGED <<mrReq, mrAt, mrScore, mrSeen, mrErrors, mrFile, mrPushed>>
        /\ mrTold' = mrTold \cup {<<x, mrErrors[x].db>> :
                                    x \in {y \in DOMAIN mrErrors : mrErrors[y].failed}}
    BY StepsListed DEF MrEnds
  <1>2. MrTypes' /\ Accepted' /\ Scored' /\ StepsDealt'
    BY <1>1, BreakKeeps
  <1>3. FileSent'
    BY <1>1, DeferredSends
  <1>4. EndTells' /\ Caused'
    BY <1>1 DEF EndTells, Caused
  <1> QED
    BY <1>2, <1>3, <1>4 DEF MrInv

LEMMA CrashesKeeps == ASSUME MrInv, ~OfOne, Crashes PROVE MrInv'
  <1>1. /\ mrPhase = "running" /\ mrPhase' = "crashed" /\ MrDeferred
        /\ UNCHANGED <<mrReq, mrAt, mrScore, mrSeen, mrTold, mrErrors, mrFile, mrPushed>>
        /\ NilPostgres \/ (At({"overview"}) /\ NoScore) \/ ScanCrashes
    BY DEF Crashes, NilPostgres, ScanCrashes, At
  <1>2. MrTypes' /\ Accepted' /\ Scored' /\ StepsDealt'
    BY <1>1, BreakKeeps
  <1>3. FileSent'
    BY <1>1, DeferredSends
  <1>4. EndTells'
    BY <1>1 DEF EndTells
  <1>5. ~ConfigRefused
    BY <1>1 DEF MrInv, Accepted
  <1>6. CASE NilPostgres
    <2>1. /\ ~HasPg /\ MrStep \in Runs /\ MrStep \in {"attack", "users", "audit", "ssl"}
      BY <1>6 DEF NilPostgres, At
    <2>2. MrStep # "ssl"
      BY <1>5, <2>1 DEF ConfigRefused, PostgresMissing
    <2>3. MrAsks \cap {"attack", "users", "audit"} # {}
      BY <2>1, <2>2, AskedSteps DEF MrInv
    <2> QED
      BY <1>1, <1>2, <1>3, <1>4, <2>1, <2>3, RequestStays DEF MrInv, Caused
  <1>7. CASE At({"overview"}) /\ NoScore
    <2>1. mrAt > 2
      <3>1. mrAt \in 1 .. 20 /\ mrAt <= 19 /\ MrSteps[mrAt] = "overview"
        BY <1>7, StepsListed DEF At, MrStep, MrInv, MrTypes
      <3>2. mrAt = 4
        BY <3>1, StepsListed
      <3> QED
        BY <3>2
    <2>2. Summary /\ "postgres" \in Runs /\ ~mrScore
      BY <1>7, AskedSteps DEF NoScore, MrInv
    <2>3. \A db \in ToSet(Dbs) : ~Works("postgres", db)
      BY <2>1, <2>2 DEF MrInv, Scored
    <2>4. ToSet(Dbs) \subseteq mrReq.down \/ "postgres" \in mrReq.broken
      BY <2>3 DEF Works
    <2> QED
      BY <1>1, <1>2, <1>3, <1>4, <2>2, <2>4, RequestStays DEF MrInv, Caused
  <1>8. CASE ScanCrashes
    <2>1. mrReq.broken \cap {"mysql", "postgres", "hba", "wraparound"} # {}
      BY <1>8 DEF ScanCrashes, WraparoundBreaks, At
    <2> QED
      BY <1>1, <1>2, <1>3, <1>4, <2>1, RequestStays DEF MrInv, Caused
  <1> QED
    BY <1>1, <1>6, <1>7, <1>8

LEMMA ExitsKeeps == ASSUME MrInv, ~OfOne, Exits PROVE MrInv'
  <1>1. /\ mrPhase = "running" /\ mrPhase' = "exited" /\ mrTold \subseteq mrTold'
        /\ ScanExits \/ ScanMayExit
        /\ UNCHANGED <<mrReq, mrAt, mrScore, mrSeen, mrErrors, mrFile, mrPushed, mrSent>>
    BY DEF Exits, ScanExits, ScanMayExit, At
  <1>2. MrTypes' /\ Accepted' /\ Scored' /\ StepsDealt'
    BY <1>1, BreakKeeps
  <1>3. FileSent' /\ EndTells'
    BY <1>1, RequestStays DEF MrInv, FileSent, EndTells
  <1>4. mrReq.broken \cap {"hba", "rds", "log", "wraparound"} # {}
    BY <1>1 DEF ScanExits, HbaExits, ScanMayExit, LogExits, WraparoundBreaks
  <1>5. Caused'
    BY <1>1, <1>4 DEF Caused
  <1> QED
    BY <1>2, <1>3, <1>5 DEF MrInv

LEMMA ByControlKeeps == ASSUME MrInv, RunByControl PROVE MrInv'
  <1>1. /\ OfOne /\ mrPhase = "running" /\ mrPhase' = "ended" /\ mrSeen \subseteq mrSeen'
        /\ UNCHANGED <<mrReq, mrAt, mrScore, mrTold, mrErrors, mrFile, mrPushed, mrSent>>
    BY DEF RunByControl, ByControl, OfOne
  <1>2. mrReq.mode = "verbose"
    BY <1>1, AskedSteps DEF MrInv
  <1>3. MrTypes' /\ Accepted' /\ Scored' /\ StepsDealt'
    BY <1>1, <1>2, RequestStays DEF MrInv, MrTypes, MrPhases, Accepted, Scored, StepsDealt
  <1>4. EndTells' /\ Caused'
    BY <1>1, RequestStays DEF EndTells, Caused
  <1>5. FileSent'
    <2>1. DOMAIN mrFile = {}
      BY <1>1 DEF MrInv, FileSent
    <2> QED
      BY <1>1, <2>1, RequestStays DEF MrInv, FileSent
  <1> QED
    BY <1>3, <1>4, <1>5 DEF MrInv

LEMMA NewConfigKeeps == ASSUME MrInv, NewConfig PROVE MrInv'
  <1>1. /\ mrPhase = "flags" /\ mrPhase' \in {"refused", "running"}
        /\ ConfigRefused => mrPhase' = "refused"
        /\ UNCHANGED <<mrReq, mrAt, mrScore, mrSeen, mrTold, mrErrors, mrFile, mrPushed, mrSent>>
    BY DEF NewConfig, MrUnstarted
  <1>2. MrTypes' /\ Accepted' /\ Scored'
    BY <1>1, RequestStays DEF MrInv, MrTypes, MrPhases, Accepted, Scored
  <1>3. EndTells' /\ Caused'
    BY <1>1 DEF EndTells, Caused
  <1>4. FileSent'
    BY <1>1, RequestStays DEF MrInv, FileSent
  <1>5. \A x, db : Dealt(x, db) => Dealt(x, db)'
    BY <1>1, RequestStays DEF Dealt, KeptFor
  <1>6. \A x : StepDealt(x) => StepDealt(x)'
    BY <1>1, <1>5, RequestStays DEF StepDealt
  <1>7. StepsDealt'
    BY <1>1, <1>6, RequestStays DEF MrInv, StepsDealt
  <1> QED
    BY <1>2, <1>3, <1>4, <1>7 DEF MrInv

LEMMA MrInvStep == MrInv /\ [MrNext]_mrVars => MrInv'
  <1> SUFFICES ASSUME MrInv, [MrNext]_mrVars PROVE MrInv'
    OBVIOUS
  <1>1. CASE NewConfig
    BY <1>1, NewConfigKeeps
  <1>2. CASE RunByControl
    BY <1>2, ByControlKeeps
  <1>3. ASSUME ~ByControl, MrWork \/ Crashes \/ Exits PROVE MrInv'
    <2>1. mrPhase = "running"
      BY <1>3 DEF MrWork, NotAsked, RunPostgres, RunHba, Overview, RunScan, MrEnds, Crashes,
         Exits, At, NilPostgres, ScanExits, ScanMayExit, ScanCrashes
    <2>2. ~OfOne
      BY <1>3, <2>1 DEF ByControl, OfOne
    <2> QED
      BY <1>3, <2>2, NotAskedKeeps, PostgresScanKeeps, HbaScanKeeps, OverviewKeeps, ScanKeeps,
         MrEndsKeeps, CrashesKeeps, ExitsKeeps DEF MrWork
  <1>4. CASE UNCHANGED mrVars
    <2>1. UNCHANGED <<mrReq, mrPhase, mrAt, mrScore, mrSeen, mrTold, mrErrors, mrFile, mrPushed,
                      mrSent>>
      BY <1>4 DEF mrVars
    <2>2. MrTypes' /\ Accepted' /\ Scored' /\ EndTells' /\ FileSent' /\ Caused'
      BY <2>1, RequestStays DEF MrInv, MrTypes, Accepted, Scored, EndTells, FileSent, Caused
    <2>3. \A x, db : Dealt(x, db) => Dealt(x, db)'
      BY <2>1, RequestStays DEF Dealt, KeptFor
    <2>4. \A x : StepDealt(x) => StepDealt(x)'
      BY <2>1, <2>3, RequestStays DEF StepDealt
    <2>5. StepsDealt'
      BY <2>1, <2>4, RequestStays DEF MrInv, StepsDealt
    <2> QED
      BY <2>2, <2>5 DEF MrInv
  <1> QED
    BY <1>1, <1>2, <1>3, <1>4 DEF MrNext

LEMMA RunTold == MrInv => RunTells
  <1> SUFFICES ASSUME MrInv PROVE RunTells
    OBVIOUS
  <1>1. ASSUME mrPhase = "ended", mrReq.mode # "verbose", NEW x, NEW db, <<x, db>> \in MrWanted
        PROVE  \/ Worked(x, db) /\ <<x, db>> \in mrSeen
               \/ ~Worked(x, db) /\ (<<x, db>> \in mrTold \/ Unheard(x, db))
               \/ "log" \in MrAsks /\ ~LogUsable /\ ~Summary
    <2>1. /\ x \in MrAsks
          /\ IF x \in {"postgres", "hba"} THEN db \in ToSet(Dbs) ELSE db = Db
      BY <1>1 DEF MrWanted
    <2>2. Runs = MrAsks /\ ~OfOne /\ MrAsks \subseteq ToSet(MrSteps)
      BY <1>1, AskedSteps DEF MrInv
    <2>3. PICK i \in 1 .. 19 : MrSteps[i] = x
      BY <2>1, <2>2, StepsListed
    <2>4. i < mrAt
      BY <1>1, <2>2 DEF MrInv, EndTells, MrTypes
    <2>5. StepDealt(x) \/ LogStops
      BY <1>1, <2>1, <2>2, <2>3, <2>4 DEF MrInv, StepsDealt
    <2>6. Dealt(x, db) \/ LogStops
      BY <2>1, <2>5 DEF StepDealt
    <2>7. KeptFor(x, db) => <<x, db>> \in mrTold
      BY <1>1, <2>2 DEF KeptFor, MrInv, EndTells
    <2> QED
      BY <2>2, <2>6, <2>7 DEF Dealt, LogStops
  <1>2. \A w \in MrWanted : w = <<w[1], w[2]>>
    BY DEF MrWanted
  <1>3. ASSUME mrPhase = "ended", mrReq.enabled, HasPg, NEW x \in DOMAIN mrFile
        PROVE  \/ <<x, mrFile[x]>> \in mrSent
               \/ x \notin {"postgres", "hba"} /\ MrAsks \cap {"postgres", "hba"} # {}
               \/ Db \in mrReq.down
    <2>1. CASE x \in {"postgres", "hba"} \/ ~mrPushed
      BY <1>3, <2>1 DEF MrInv, FileSent
    <2>2. CASE mrPushed
      BY <2>2, <2>1, AskedSteps DEF MrInv, FileSent
    <2> QED
      BY <2>1, <2>2
  <1>4. mrPhase = "ended" /\ mrReq.mode # "verbose" =>
          \A w \in MrWanted :
            \/ Worked(w[1], w[2]) /\ w \in mrSeen
            \/ ~Worked(w[1], w[2]) /\ (w \in mrTold \/ Unheard(w[1], w[2]))
            \/ "log" \in MrAsks /\ ~LogUsable /\ ~Summary
    BY <1>1, <1>2
  <1> QED
    BY <1>3, <1>4 DEF RunTells, MrInv, FileSent, Caused

MrFollowed == IF runner = "manual" THEN MrInv ELSE MrRests

LEMMA MrFollowedHolds == Spec => []MrFollowed
  <1>1. Init => MrFollowed
    BY Starts0, MrInvInit DEF MrFollowed, MrInit
  <1>2. MrFollowed /\ [Next]_vars => MrFollowed'
    <2> SUFFICES ASSUME MrFollowed, [Next]_vars PROVE MrFollowed'
      OBVIOUS
    <2>1. CASE runner = "manual"
      BY <2>1, Moves, MrInvStep DEF MrFollowed
    <2>2. CASE runner # "manual"
      <3>1. UNCHANGED <<runner, mrVars>>
        BY <2>2, Moves
      <3> QED
        BY <2>2, <3>1 DEF MrFollowed, MrRests, MrStart, mrVars
    <2> QED
      BY <2>1, <2>2
  <1> QED
    BY <1>1, <1>2, PTL DEF Spec

\* A run by hand that ends has shown every result and told of every failure, but
\* for those named, has sent what it filed, and breaks off for the causes named
\* alone (cmd/ciscollector/main.go: overviewErrorMap, fileData, manualPushed).
THEOREM RunTellsHolds == Spec => []RunTells
  <1>1. MrFollowed => RunTells
    <2>1. CASE runner = "manual"
      BY <2>1, RunTold DEF MrFollowed
    <2>2. CASE runner # "manual"
      BY <2>2 DEF MrFollowed, MrRests, MrStart, RunTells
    <2> QED
      BY <2>1, <2>2
  <1> QED
    BY <1>1, MrFollowedHolds, PTL
-----------------------------------------------------------------------------
(* Dashboard.                                                                *)

LEMMA LargestNumber ==
  ASSUME NEW b \in Nat, NEW S \in SUBSET (0 .. b), S # {}
  PROVE  \E x \in S : \A y \in S : y <= x
  <1> DEFINE T == {b - x : x \in S}
  <1>1. T \in SUBSET Nat /\ T # {}
    <2>1. \A x \in S : b - x \in Nat
      OBVIOUS
    <2> QED
      BY <2>1
  <1>2. Min(T) \in T /\ \A y \in T : Min(T) <= y
    BY <1>1, LeastNumber
  <1>3. PICK x \in S : Min(T) = b - x
    BY <1>2
  <1>4. \A y \in S : y <= x
    <2>1. ASSUME NEW y \in S PROVE y <= x
      <3>1. Min(T) <= b - y
        BY <1>2
      <3> QED
        BY <1>3, <3>1
    <2> QED
      BY <2>1
  <1> QED
    BY <1>4

DbRun == [report : Reports, faults : SUBSET UNION ({Checks, {Another}} \cup DbWatched),
          pii : {"none", "found", "clean"}]

DbInv == /\ dbWatch \in DbWatched /\ dbBad \in BOOLEAN
         /\ dbRuns \in Seq(DbRun)

LEMMA DbInvInit == DbInit => DbInv
  <1> SUFFICES ASSUME NEW watch \in DbWatched, DbStart(watch) PROVE DbInv
    BY DEF DbInit
  <1>1. <<>> \in Seq(DbRun)
    OBVIOUS
  <1> QED
    BY <1>1 DEF DbStart, DbInv

LEMMA DbInvStep == DbInv /\ [DbNext]_dbVars => DbInv'
  <1> SUFFICES ASSUME DbInv, [DbNext]_dbVars PROVE DbInv'
    OBVIOUS
  <1>1. CASE UNCHANGED dbVars
    BY <1>1 DEF DbInv, dbVars
  <1>2. CASE Change
    BY <1>2 DEF DbInv, Change
  <1>3. ASSUME NEW report \in DbReports, Scan(report) PROVE DbInv'
    <2>1. [report |-> report, faults |-> Faults, pii |-> "none"] \in DbRun
      BY DEF DbInv, DbRun, Faults, Reports
    <2> QED
      BY <1>3, <2>1 DEF DbInv, Scan
  <1>4. CASE ScanPII
    <2>1. PICK pii \in {"found", "clean"} :
            dbRuns' = IF dbRuns = <<>> THEN <<[report |-> NoReport, faults |-> {}, pii |-> pii]>>
                      ELSE [dbRuns EXCEPT ![Len(dbRuns)].pii = pii]
      BY <1>4 DEF ScanPII
    <2>2. [report |-> NoReport, faults |-> {}, pii |-> pii] \in DbRun
      BY DEF DbRun, Reports
    <2>3. ASSUME dbRuns # <<>> PROVE dbRuns' \in Seq(DbRun)
      <3>1. dbRuns \in Seq(DbRun) /\ Len(dbRuns) \in DOMAIN dbRuns
        BY <2>3 DEF DbInv
      <3>2. dbRuns[Len(dbRuns)] \in DbRun
        BY <3>1
      <3>3. [dbRuns[Len(dbRuns)] EXCEPT !.pii = pii] \in DbRun
        BY <3>2 DEF DbRun
      <3>4. dbRuns' = [dbRuns EXCEPT ![Len(dbRuns)] = [dbRuns[Len(dbRuns)] EXCEPT !.pii = pii]]
        BY <2>1, <2>3
      <3> QED
        BY <3>1, <3>3, <3>4, ExceptSeq
    <2>4. dbRuns' \in Seq(DbRun)
      BY <2>1, <2>2, <2>3
    <2> QED
      BY <1>4, <2>4 DEF DbInv, ScanPII
  <1> QED
    BY <1>1, <1>2, <1>3, <1>4 DEF DbNext

\* The words that are looked for, of the checks whose verdict may rest on a control.
ScramWords      == {"password_encryption", "password complexity"}
DefinerWords    == {"prosecdef", "security definer", "function privileges"}
AddressWords    == {"listen_addresses"}
ConnectWords    == {"log_connections"}
DisconnectWords == {"log_disconnections"}
StatementWords  == {"log_statement"}
PrefixWords     == {"log_line_prefix"}
AuditWords      == {"pgaudit", "shared_preload"}
PasswordWords   == {"pgpassword", "profile"}
HistoryWords    == {"psql_history", "command history"}
SslWords        == {"ssl", "tls"}
Sought == {ScramWords, DefinerWords, AddressWords, ConnectWords,
           DisconnectWords, StatementWords, PrefixWords, AuditWords,
           PasswordWords, HistoryWords, SslWords}

\* The controls in their order.
LEMMA ControlsListed ==
    /\ DOMAIN CisResults = 1 .. 34
    /\ CisResults[1].control = "1.6" /\ CisResults[1].about = 20 /\ CisResults[1].manual = FALSE
    /\ CisResults[2].control = "1.7" /\ CisResults[2].about = 21 /\ CisResults[2].manual = FALSE
    /\ CisResults[3].control = "2.3" /\ CisResults[3].about = 22 /\ CisResults[3].manual = FALSE
    /\ CisResults[4].control = "3.1.2" /\ CisResults[4].about = Never /\ CisResults[4].manual = FALSE
    /\ CisResults[5].control = "3.1.3" /\ CisResults[5].about = 15 /\ CisResults[5].manual = FALSE
    /\ CisResults[6].control = "3.1.6" /\ CisResults[6].about = Another /\ CisResults[6].manual = FALSE
    /\ CisResults[7].control = "3.1.7" /\ CisResults[7].about = Another /\ CisResults[7].manual = FALSE
    /\ CisResults[8].control = "3.1.8" /\ CisResults[8].about = Another /\ CisResults[8].manual = FALSE
    /\ CisResults[9].control = "3.1.20" /\ CisResults[9].about = 11 /\ CisResults[9].manual = FALSE
    /\ CisResults[10].control = "3.1.21" /\ CisResults[10].about = 12 /\ CisResults[10].manual = FALSE
    /\ CisResults[11].control = "3.1.23" /\ CisResults[11].about = Another /\ CisResults[11].manual = FALSE
    /\ CisResults[12].control = "3.1.24" /\ CisResults[12].about = 14 /\ CisResults[12].manual = FALSE
    /\ CisResults[13].control = "3.1.25" /\ CisResults[13].about = 13 /\ CisResults[13].manual = FALSE
    /\ CisResults[14].control = "3.2" /\ CisResults[14].about = 16 /\ CisResults[14].manual = FALSE
    /\ CisResults[15].control = "4.5" /\ CisResults[15].about = 6 /\ CisResults[15].manual = FALSE
    /\ CisResults[16].control = "4.9" /\ CisResults[16].about = Another /\ CisResults[16].manual = TRUE
    /\ CisResults[17].control = "5.1" /\ CisResults[17].about = Another /\ CisResults[17].manual = TRUE
    /\ CisResults[18].control = "5.2" /\ CisResults[18].about = 9 /\ CisResults[18].manual = TRUE
    /\ CisResults[19].control = "5.3" /\ CisResults[19].about = Another /\ CisResults[19].manual = TRUE
    /\ CisResults[20].control = "5.4" /\ CisResults[20].about = Another /\ CisResults[20].manual = TRUE
    /\ CisResults[21].control = "5.5" /\ CisResults[21].about = 23 /\ CisResults[21].manual = FALSE
    /\ CisResults[22].control = "5.6" /\ CisResults[22].about = 1 /\ CisResults[22].manual = TRUE
    /\ CisResults[23].control = "6.2" /\ CisResults[23].about = Another /\ CisResults[23].manual = FALSE
    /\ CisResults[24].control = "6.3" /\ CisResults[24].about = 16 /\ CisResults[24].manual = TRUE
    /\ CisResults[25].control = "6.4" /\ CisResults[25].about = 14 /\ CisResults[25].manual = TRUE
    /\ CisResults[26].control = "6.5" /\ CisResults[26].about = 13 /\ CisResults[26].manual = TRUE
    /\ CisResults[27].control = "6.6" /\ CisResults[27].about = 1 /\ CisResults[27].manual = TRUE
    /\ CisResults[28].control = "6.7" /\ CisResults[28].about = Another /\ CisResults[28].manual = FALSE
    /\ CisResults[29].control = "6.8" /\ CisResults[29].about = 5 /\ CisResults[29].manual = FALSE
    /\ CisResults[30].control = "6.9" /\ CisResults[30].about = 5 /\ CisResults[30].manual = FALSE
    /\ CisResults[31].control = "6.10" /\ CisResults[31].about = 5 /\ CisResults[31].manual = FALSE
    /\ CisResults[32].control = "7.3" /\ CisResults[32].about = Another /\ CisResults[32].manual = TRUE
    /\ CisResults[33].control = "7.5" /\ CisResults[33].about = Another /\ CisResults[33].manual = TRUE
    /\ CisResults[34].control = "8.3" /\ CisResults[34].about = 16 /\ CisResults[34].manual = TRUE
  <1>1. DOMAIN CisResults = 1 .. 34
    BY SMT DEF CisResults
  <1> QED
    BY <1>1, ZenonT(120) DEF CisResults, Decided, ForReview

\* All a control may be found by: the words of its text and of its table.
AllWords(n) == CisResults[n].words \cup CisResults[n].table

\* The controls with a word of one set.
LEMMA WordsFound ==
    /\ \A n \in 1 .. 34 : AllWords(n) \cap ScramWords # {} => n \in {22, 27}
    /\ \A n \in 1 .. 34 : AllWords(n) \cap DefinerWords # {} => n \in {15}
    /\ \A n \in 1 .. 34 : AllWords(n) \cap AddressWords # {} => n \in {18, 24}
    /\ \A n \in 1 .. 34 : AllWords(n) \cap ConnectWords # {} => n \in {9, 23}
    /\ \A n \in 1 .. 34 : AllWords(n) \cap DisconnectWords # {} => n \in {10, 23}
    /\ \A n \in 1 .. 34 : AllWords(n) \cap StatementWords # {} => n \in {13, 26}
    /\ \A n \in 1 .. 34 : AllWords(n) \cap PrefixWords # {} => n \in {12, 25}
    /\ \A n \in 1 .. 34 : AllWords(n) \cap AuditWords # {} => n \in {14, 22, 24, 34}
    /\ \A n \in 1 .. 34 : AllWords(n) \cap PasswordWords # {} => n \in {1, 2}
    /\ \A n \in 1 .. 34 : AllWords(n) \cap HistoryWords # {} => n \in {3, 17}
    /\ \A n \in 1 .. 34 : AllWords(n) \cap SslWords # {} => n \in {28, 29, 30, 31, 32, 33}
  <1> DEFINE Meets(n, words) == AllWords(n) \cap words # {}
  <1> USE DEF Sought, ScramWords, DefinerWords, AddressWords, ConnectWords, DisconnectWords,
          StatementWords, PrefixWords, AuditWords, PasswordWords, HistoryWords, SslWords
  <1>1. \A words \in Sought \ {PasswordWords} : ~Meets(1, words)
    <2>1. CisResults[1].words = {"pgpassword", "profile", "environment", "password"} /\ CisResults[1].table = {}
      BY Zenon DEF CisResults, Decided, ForReview
    <2>2. AllWords(1) = {"environment", "password", "pgpassword", "profile"}
      BY <2>1 DEF AllWords
    <2> QED
      BY <2>2
  <1>2. \A words \in Sought \ {PasswordWords} : ~Meets(2, words)
    <2>1. CisResults[2].words = {"pgpassword", "environment", "password"} /\ CisResults[2].table = {}
      BY Zenon DEF CisResults, Decided, ForReview
    <2>2. AllWords(2) = {"environment", "password", "pgpassword"}
      BY <2>1 DEF AllWords
    <2> QED
      BY <2>2
  <1>3. \A words \in Sought \ {HistoryWords} : ~Meets(3, words)
    <2>1. CisResults[3].words = {"psql_history", "command history"} /\ CisResults[3].table = {}
      BY Zenon DEF CisResults, Decided, ForReview
    <2>2. AllWords(3) = {"command history", "psql_history"}
      BY <2>1 DEF AllWords
    <2> QED
      BY <2>2
  <1>4. \A words \in Sought : ~Meets(4, words)
    <2>1. CisResults[4].words = {"log_destination"} /\ CisResults[4].table = {}
      BY Zenon DEF CisResults, Decided, ForReview
    <2>2. AllWords(4) = {"log_destination"}
      BY <2>1 DEF AllWords
    <2> QED
      BY <2>2
  <1>5. \A words \in Sought : ~Meets(5, words)
    <2>1. CisResults[5].words = {"logging_collector"} /\ CisResults[5].table = {}
      BY Zenon DEF CisResults, Decided, ForReview
    <2>2. AllWords(5) = {"logging_collector"}
      BY <2>1 DEF AllWords
    <2> QED
      BY <2>2
  <1>6. \A words \in Sought : ~Meets(6, words)
    <2>1. CisResults[6].words = {"logging_collector"} /\ CisResults[6].table = {}
      BY Zenon DEF CisResults, Decided, ForReview
    <2>2. AllWords(6) = {"logging_collector"}
      BY <2>1 DEF AllWords
    <2> QED
      BY <2>2
  <1>7. \A words \in Sought : ~Meets(7, words)
    <2>1. CisResults[7].words = {"logging_collector"} /\ CisResults[7].table = {}
      BY Zenon DEF CisResults, Decided, ForReview
    <2>2. AllWords(7) = {"logging_collector"}
      BY <2>1 DEF AllWords
    <2> QED
      BY <2>2
  <1>8. \A words \in Sought : ~Meets(8, words)
    <2>1. CisResults[8].words = {"logging_collector"} /\ CisResults[8].table = {}
      BY Zenon DEF CisResults, Decided, ForReview
    <2>2. AllWords(8) = {"logging_collector"}
      BY <2>1 DEF AllWords
    <2> QED
      BY <2>2
  <1>9. \A words \in Sought \ {ConnectWords} : ~Meets(9, words)
    <2>1. CisResults[9].words = {"log_connections", "connect"} /\ CisResults[9].table = {}
      BY Zenon DEF CisResults, Decided, ForReview
    <2>2. AllWords(9) = {"connect", "log_connections"}
      BY <2>1 DEF AllWords
    <2> QED
      BY <2>2
  <1>10. \A words \in Sought \ {DisconnectWords} : ~Meets(10, words)
    <2>1. CisResults[10].words = {"log_disconnections", "connect"} /\ CisResults[10].table = {}
      BY Zenon DEF CisResults, Decided, ForReview
    <2>2. AllWords(10) = {"connect", "log_disconnections"}
      BY <2>1 DEF AllWords
    <2> QED
      BY <2>2
  <1>11. \A words \in Sought : ~Meets(11, words)
    <2>1. CisResults[11].words = {"connect"} /\ CisResults[11].table = {}
      BY Zenon DEF CisResults, Decided, ForReview
    <2>2. AllWords(11) = {"connect"}
      BY <2>1 DEF AllWords
    <2> QED
      BY <2>2
  <1>12. \A words \in Sought \ {PrefixWords} : ~Meets(12, words)
    <2>1. CisResults[12].words = {"log_line_prefix"} /\ CisResults[12].table = {}
      BY Zenon DEF CisResults, Decided, ForReview
    <2>2. AllWords(12) = {"log_line_prefix"}
      BY <2>1 DEF AllWords
    <2> QED
      BY <2>2
  <1>13. \A words \in Sought \ {StatementWords} : ~Meets(13, words)
    <2>1. CisResults[13].words = {"log_statement"} /\ CisResults[13].table = {}
      BY Zenon DEF CisResults, Decided, ForReview
    <2>2. AllWords(13) = {"log_statement"}
      BY <2>1 DEF AllWords
    <2> QED
      BY <2>2
  <1>14. \A words \in Sought \ {AuditWords} : ~Meets(14, words)
    <2>1. CisResults[14].words = {"pgaudit.log", "pgaudit", "shared_preload"} /\ CisResults[14].table = {}
      BY Zenon DEF CisResults, Decided, ForReview
    <2>2. AllWords(14) = {"pgaudit", "pgaudit.log", "shared_preload"}
      BY <2>1 DEF AllWords
    <2> QED
      BY <2>2
  <1>15. \A words \in Sought \ {DefinerWords} : ~Meets(15, words)
    <2>1. CisResults[15].words = {"pg_authid", "prosecdef", "function privileges"} /\ CisResults[15].table = {}
      BY Zenon DEF CisResults, Decided, ForReview
    <2>2. AllWords(15) = {"function privileges", "pg_authid", "prosecdef"}
      BY <2>1 DEF AllWords
    <2> QED
      BY <2>2
  <1>16. \A words \in Sought : ~Meets(16, words)
    <2>1. CisResults[16].words = {"environment"}
          /\ CisResults[16].table = {}
      BY Zenon DEF CisResults, Decided, ForReview
    <2>2. AllWords(16) = {"environment"}
      BY <2>1 DEF AllWords
    <2> QED
      BY <2>2
  <1>17. \A words \in Sought \ {HistoryWords} : ~Meets(17, words)
    <2>1. CisResults[17].words = {"command history", "password"}
          /\ CisResults[17].table = {}
      BY Zenon DEF CisResults, Decided, ForReview
    <2>2. AllWords(17) = {"command history", "password"}
      BY <2>1 DEF AllWords
    <2> QED
      BY <2>2
  <1>18. \A words \in Sought \ {AddressWords} : ~Meets(18, words)
    <2>1. CisResults[18].words = {"listen_addresses", "connect"}
          /\ CisResults[18].table = {}
      BY Zenon DEF CisResults, Decided, ForReview
    <2>2. AllWords(18) = {"connect", "listen_addresses"}
      BY <2>1 DEF AllWords
    <2> QED
      BY <2>2
  <1>19. \A words \in Sought : ~Meets(19, words)
    <2>1. CisResults[19].words = {"connect"}
          /\ CisResults[19].table = {}
      BY Zenon DEF CisResults, Decided, ForReview
    <2>2. AllWords(19) = {"connect"}
      BY <2>1 DEF AllWords
    <2> QED
      BY <2>2
  <1>20. \A words \in Sought : ~Meets(20, words)
    <2>1. CisResults[20].words = {"connect"}
          /\ CisResults[20].table = {}
      BY Zenon DEF CisResults, Decided, ForReview
    <2>2. AllWords(20) = {"connect"}
      BY <2>1 DEF AllWords
    <2> QED
      BY <2>2
  <1>21. \A words \in Sought : ~Meets(21, words)
    <2>1. CisResults[21].words = {"connect"} /\ CisResults[21].table = {}
      BY Zenon DEF CisResults, Decided, ForReview
    <2>2. AllWords(21) = {"connect"}
      BY <2>1 DEF AllWords
    <2> QED
      BY <2>2
  <1>22. \A words \in Sought \ {ScramWords, AuditWords} : ~Meets(22, words)
    <2>1. CisResults[22].words = {"password_encryption", "password complexity", "pg_shadow", "password"}
          /\ CisResults[22].table = {"shared_preload"}
      BY Zenon DEF CisResults, Decided, ForReview
    <2>2. AllWords(22) = {"password", "password complexity", "password_encryption", "pg_shadow", "shared_preload"}
      BY <2>1 DEF AllWords
    <2> QED
      BY <2>2
  <1>23. \A words \in Sought \ {ConnectWords, DisconnectWords} : ~Meets(23, words)
    <2>1. CisResults[23].words = {"log_connections", "log_disconnections", "connect"} /\ CisResults[23].table = {}
      BY Zenon DEF CisResults, Decided, ForReview
    <2>2. AllWords(23) = {"connect", "log_connections", "log_disconnections"}
      BY <2>1 DEF AllWords
    <2> QED
      BY <2>2
  <1>24. \A words \in Sought \ {AddressWords, AuditWords} : ~Meets(24, words)
    <2>1. CisResults[24].words = {}
          /\ CisResults[24].table = {"listen_addresses", "logging_collector", "shared_preload", "connect"}
      BY Zenon DEF CisResults, Decided, ForReview
    <2>2. AllWords(24) = {"connect", "listen_addresses", "logging_collector", "shared_preload"}
      BY <2>1 DEF AllWords
    <2> QED
      BY <2>2
  <1>25. \A words \in Sought \ {PrefixWords} : ~Meets(25, words)
    <2>1. CisResults[25].words = {}
          /\ CisResults[25].table = {"log_destination", "log_line_prefix"}
      BY Zenon DEF CisResults, Decided, ForReview
    <2>2. AllWords(25) = {"log_destination", "log_line_prefix"}
      BY <2>1 DEF AllWords
    <2> QED
      BY <2>2
  <1>26. \A words \in Sought \ {StatementWords} : ~Meets(26, words)
    <2>1. CisResults[26].words = {}
          /\ CisResults[26].table = {"log_statement"}
      BY Zenon DEF CisResults, Decided, ForReview
    <2>2. AllWords(26) = {"log_statement"}
      BY <2>1 DEF AllWords
    <2> QED
      BY <2>2
  <1>27. \A words \in Sought \ {ScramWords} : ~Meets(27, words)
    <2>1. CisResults[27].words = {}
          /\ CisResults[27].table = {"password_encryption", "password", "public"}
      BY Zenon DEF CisResults, Decided, ForReview
    <2>2. AllWords(27) = {"password", "password_encryption", "public"}
      BY <2>1 DEF AllWords
    <2> QED
      BY <2>2
  <1>28. \A words \in Sought \ {SslWords} : ~Meets(28, words)
    <2>1. CisResults[28].words = {"ssl"} /\ CisResults[28].table = {}
      BY Zenon DEF CisResults, Decided, ForReview
    <2>2. AllWords(28) = {"ssl"}
      BY <2>1 DEF AllWords
    <2> QED
      BY <2>2
  <1>29. \A words \in Sought \ {SslWords} : ~Meets(29, words)
    <2>1. CisResults[29].words = {"ssl"} /\ CisResults[29].table = {}
      BY Zenon DEF CisResults, Decided, ForReview
    <2>2. AllWords(29) = {"ssl"}
      BY <2>1 DEF AllWords
    <2> QED
      BY <2>2
  <1>30. \A words \in Sought \ {SslWords} : ~Meets(30, words)
    <2>1. CisResults[30].words = {"ssl", "tls"} /\ CisResults[30].table = {}
      BY Zenon DEF CisResults, Decided, ForReview
    <2>2. AllWords(30) = {"ssl", "tls"}
      BY <2>1 DEF AllWords
    <2> QED
      BY <2>2
  <1>31. \A words \in Sought \ {SslWords} : ~Meets(31, words)
    <2>1. CisResults[31].words = {"ssl", "tls"} /\ CisResults[31].table = {}
      BY Zenon DEF CisResults, Decided, ForReview
    <2>2. AllWords(31) = {"ssl", "tls"}
      BY <2>1 DEF AllWords
    <2> QED
      BY <2>2
  <1>32. \A words \in Sought \ {SslWords} : ~Meets(32, words)
    <2>1. CisResults[32].words = {"tls"}
          /\ CisResults[32].table = {}
      BY Zenon DEF CisResults, Decided, ForReview
    <2>2. AllWords(32) = {"tls"}
      BY <2>1 DEF AllWords
    <2> QED
      BY <2>2
  <1>33. \A words \in Sought \ {SslWords} : ~Meets(33, words)
    <2>1. CisResults[33].words = {"ssl", "connect", "password"}
          /\ CisResults[33].table = {}
      BY Zenon DEF CisResults, Decided, ForReview
    <2>2. AllWords(33) = {"connect", "password", "ssl"}
      BY <2>1 DEF AllWords
    <2> QED
      BY <2>2
  <1>34. \A words \in Sought \ {AuditWords} : ~Meets(34, words)
    <2>1. CisResults[34].words = {"shared_preload"}
          /\ CisResults[34].table = {}
      BY Zenon DEF CisResults, Decided, ForReview
    <2>2. AllWords(34) = {"shared_preload"}
      BY <2>1 DEF AllWords
    <2> QED
      BY <2>2
  <1>35. /\ ScramWords \notin {DefinerWords, AddressWords, ConnectWords, DisconnectWords, StatementWords, PrefixWords, AuditWords, PasswordWords, HistoryWords, SslWords}
         /\ DefinerWords \notin {AddressWords, ConnectWords, DisconnectWords, StatementWords, PrefixWords, AuditWords, PasswordWords, HistoryWords, SslWords}
         /\ AddressWords \notin {ConnectWords, DisconnectWords, StatementWords, PrefixWords, AuditWords, PasswordWords, HistoryWords, SslWords}
         /\ ConnectWords \notin {DisconnectWords, StatementWords, PrefixWords, AuditWords, PasswordWords, HistoryWords, SslWords}
         /\ DisconnectWords \notin {StatementWords, PrefixWords, AuditWords, PasswordWords, HistoryWords, SslWords}
         /\ StatementWords \notin {PrefixWords, AuditWords, PasswordWords, HistoryWords, SslWords}
         /\ PrefixWords \notin {AuditWords, PasswordWords, HistoryWords, SslWords}
         /\ AuditWords \notin {PasswordWords, HistoryWords, SslWords}
         /\ PasswordWords \notin {HistoryWords, SslWords}
         /\ HistoryWords \notin {SslWords}
    OBVIOUS
  <1> HIDE DEF Meets, Sought, ScramWords, DefinerWords, AddressWords, ConnectWords, DisconnectWords,
          StatementWords, PrefixWords, AuditWords, PasswordWords, HistoryWords, SslWords
  <1>36. \A n \in 1 .. 34 : Meets(n, ScramWords) => n \in {22, 27}
    BY <1>1, <1>2, <1>3, <1>4, <1>5, <1>6, <1>7, <1>8, <1>9, <1>10, <1>11, <1>12, <1>13, <1>14,
       <1>15, <1>16, <1>17, <1>18, <1>19, <1>20, <1>21, <1>22, <1>23, <1>24, <1>25, <1>26,
       <1>27, <1>28, <1>29, <1>30, <1>31, <1>32, <1>33, <1>34, <1>35 DEF Sought
  <1>37. \A n \in 1 .. 34 : Meets(n, DefinerWords) => n \in {15}
    BY <1>1, <1>2, <1>3, <1>4, <1>5, <1>6, <1>7, <1>8, <1>9, <1>10, <1>11, <1>12, <1>13, <1>14,
       <1>15, <1>16, <1>17, <1>18, <1>19, <1>20, <1>21, <1>22, <1>23, <1>24, <1>25, <1>26,
       <1>27, <1>28, <1>29, <1>30, <1>31, <1>32, <1>33, <1>34, <1>35 DEF Sought
  <1>38. \A n \in 1 .. 34 : Meets(n, AddressWords) => n \in {18, 24}
    BY <1>1, <1>2, <1>3, <1>4, <1>5, <1>6, <1>7, <1>8, <1>9, <1>10, <1>11, <1>12, <1>13, <1>14,
       <1>15, <1>16, <1>17, <1>18, <1>19, <1>20, <1>21, <1>22, <1>23, <1>24, <1>25, <1>26,
       <1>27, <1>28, <1>29, <1>30, <1>31, <1>32, <1>33, <1>34, <1>35 DEF Sought
  <1>39. \A n \in 1 .. 34 : Meets(n, ConnectWords) => n \in {9, 23}
    BY <1>1, <1>2, <1>3, <1>4, <1>5, <1>6, <1>7, <1>8, <1>9, <1>10, <1>11, <1>12, <1>13, <1>14,
       <1>15, <1>16, <1>17, <1>18, <1>19, <1>20, <1>21, <1>22, <1>23, <1>24, <1>25, <1>26,
       <1>27, <1>28, <1>29, <1>30, <1>31, <1>32, <1>33, <1>34, <1>35 DEF Sought
  <1>40. \A n \in 1 .. 34 : Meets(n, DisconnectWords) => n \in {10, 23}
    BY <1>1, <1>2, <1>3, <1>4, <1>5, <1>6, <1>7, <1>8, <1>9, <1>10, <1>11, <1>12, <1>13, <1>14,
       <1>15, <1>16, <1>17, <1>18, <1>19, <1>20, <1>21, <1>22, <1>23, <1>24, <1>25, <1>26,
       <1>27, <1>28, <1>29, <1>30, <1>31, <1>32, <1>33, <1>34, <1>35 DEF Sought
  <1>41. \A n \in 1 .. 34 : Meets(n, StatementWords) => n \in {13, 26}
    BY <1>1, <1>2, <1>3, <1>4, <1>5, <1>6, <1>7, <1>8, <1>9, <1>10, <1>11, <1>12, <1>13, <1>14,
       <1>15, <1>16, <1>17, <1>18, <1>19, <1>20, <1>21, <1>22, <1>23, <1>24, <1>25, <1>26,
       <1>27, <1>28, <1>29, <1>30, <1>31, <1>32, <1>33, <1>34, <1>35 DEF Sought
  <1>42. \A n \in 1 .. 34 : Meets(n, PrefixWords) => n \in {12, 25}
    BY <1>1, <1>2, <1>3, <1>4, <1>5, <1>6, <1>7, <1>8, <1>9, <1>10, <1>11, <1>12, <1>13, <1>14,
       <1>15, <1>16, <1>17, <1>18, <1>19, <1>20, <1>21, <1>22, <1>23, <1>24, <1>25, <1>26,
       <1>27, <1>28, <1>29, <1>30, <1>31, <1>32, <1>33, <1>34, <1>35 DEF Sought
  <1>43. \A n \in 1 .. 34 : Meets(n, AuditWords) => n \in {14, 22, 24, 34}
    BY <1>1, <1>2, <1>3, <1>4, <1>5, <1>6, <1>7, <1>8, <1>9, <1>10, <1>11, <1>12, <1>13, <1>14,
       <1>15, <1>16, <1>17, <1>18, <1>19, <1>20, <1>21, <1>22, <1>23, <1>24, <1>25, <1>26,
       <1>27, <1>28, <1>29, <1>30, <1>31, <1>32, <1>33, <1>34, <1>35 DEF Sought
  <1>44. \A n \in 1 .. 34 : Meets(n, PasswordWords) => n \in {1, 2}
    BY <1>1, <1>2, <1>3, <1>4, <1>5, <1>6, <1>7, <1>8, <1>9, <1>10, <1>11, <1>12, <1>13, <1>14,
       <1>15, <1>16, <1>17, <1>18, <1>19, <1>20, <1>21, <1>22, <1>23, <1>24, <1>25, <1>26,
       <1>27, <1>28, <1>29, <1>30, <1>31, <1>32, <1>33, <1>34, <1>35 DEF Sought
  <1>45. \A n \in 1 .. 34 : Meets(n, HistoryWords) => n \in {3, 17}
    BY <1>1, <1>2, <1>3, <1>4, <1>5, <1>6, <1>7, <1>8, <1>9, <1>10, <1>11, <1>12, <1>13, <1>14,
       <1>15, <1>16, <1>17, <1>18, <1>19, <1>20, <1>21, <1>22, <1>23, <1>24, <1>25, <1>26,
       <1>27, <1>28, <1>29, <1>30, <1>31, <1>32, <1>33, <1>34, <1>35 DEF Sought
  <1>46. \A n \in 1 .. 34 : Meets(n, SslWords) => n \in {28, 29, 30, 31, 32, 33}
    BY <1>1, <1>2, <1>3, <1>4, <1>5, <1>6, <1>7, <1>8, <1>9, <1>10, <1>11, <1>12, <1>13, <1>14,
       <1>15, <1>16, <1>17, <1>18, <1>19, <1>20, <1>21, <1>22, <1>23, <1>24, <1>25, <1>26,
       <1>27, <1>28, <1>29, <1>30, <1>31, <1>32, <1>33, <1>34, <1>35 DEF Sought
  <1> QED
    BY <1>36, <1>37, <1>38, <1>39, <1>40, <1>41, <1>42, <1>43, <1>44, <1>45, <1>46 DEF Meets

LEMMA EarliestFirst ==
  ASSUME NEW S \in SUBSET Nat, S # {}
  PROVE  Earliest(S) \in S /\ \A k \in S : Earliest(S) <= k
  <1>1. \E n \in S : \A k \in S : n <= k
    BY LeastNumber
  <1> QED
    BY <1>1 DEF Earliest

\* A word that is in a control's text is one it may be found by.
LEMMA FoundByWord ==
  ASSUME NEW report, NEW words, NEW n \in Results(report, words)
  PROVE  n \in 1 .. 34 /\ CisResults[n].control \in report.controls /\ AllWords(n) \cap words # {}
  <1>1. n \in 1 .. 34 /\ CisResults[n].control \in report.controls
        /\ Text(CisResults[n], report) \cap words # {}
    BY ControlsListed DEF Results
  <1>2. Text(CisResults[n], report) \subseteq AllWords(n)
    BY DEF Text, AllWords
  <1> QED
    BY <1>1, <1>2

\* The first control of a report with one of the words.
FirstWith(n, words, report) ==
    n \in Results(report, words) /\ \A k \in 1 .. n - 1 : k \notin Results(report, words)

\* A check that is answered by a control is answered by the first with the words.
LEMMA AnsweredByFirst ==
  ASSUME NEW run, run.report \in Reports, NEW i \in Checks, NEW words,
         WordsFor(i) = <<words>>, EvalCIS(i, run) # "Manual"
  PROVE  \E n \in 1 .. 34 :
           /\ FirstWith(n, words, run.report) /\ n \in FindCISForCritical[run.report][i]
           /\ EvalCIS(i, run) = CheckFromCIS(i, CisResults[n], run)
  <1> DEFINE S == Results(run.report, words)
             tried == {t \in DOMAIN WordsFor(i) : Results(run.report, WordsFor(i)[t]) # {}}
             found == FindCISForCritical[run.report][i]
  <1>1. S \subseteq 1 .. 34
    BY ControlsListed DEF Results
  <1>2. tried = IF S = {} THEN {} ELSE {1}
    OBVIOUS
  <1>3. found = IF tried = {} THEN {}
                ELSE {Earliest(Results(run.report, WordsFor(i)[Earliest(tried)]))}
    BY DEF FindCISForCritical
  <1>4. found # {}
    BY DEF EvalCIS
  <1>5. S # {} /\ tried = {1}
    BY <1>2, <1>3, <1>4
  <1>6. Earliest(tried) = 1
    BY <1>5, EarliestFirst
  <1>7. found = {Earliest(S)}
    BY <1>3, <1>5, <1>6
  <1>8. Earliest(S) \in S /\ \A k \in S : Earliest(S) <= k
    <2>1. S \in SUBSET Nat
      BY <1>1
    <2> HIDE DEF S
    <2> QED
      BY <2>1, <1>5, EarliestFirst
  <1> DEFINE first == Earliest(S)
  <1>9. EvalCIS(i, run) = CheckFromCIS(i, CisResults[first], run)
    <2>1. EvalCIS(i, run) = CheckFromCIS(i, CisResults[CHOOSE n \in found : TRUE], run)
      BY <1>4 DEF EvalCIS
    <2>2. (CHOOSE n \in found : TRUE) = first
      BY <1>7
    <2> QED
      BY <2>1, <2>2
  <1>10. first \in 1 .. 34 /\ \A k \in 1 .. first - 1 : k \notin S
    <2>1. first \in 1 .. 34
      BY <1>1, <1>8
    <2>2. \A k \in S : first <= k
      BY <1>8
    <2> HIDE DEF first, S
    <2> QED
      BY <2>1, <2>2, SMTT(40)
  <1>11. first \in S /\ first \in found
    BY <1>7, <1>8
  <1>12. FirstWith(first, words, run.report)
    BY <1>10, <1>11 DEF FirstWith
  <1> HIDE DEF first, S, tried
  <1> QED
    BY <1>9, <1>10, <1>11, <1>12

\* What is looked for.
LEMMA WordsTried ==
    /\ WordsFor(1) = <<ScramWords>>
    /\ WordsFor(6) = <<DefinerWords>>
    /\ WordsFor(9) = <<AddressWords>>
    /\ WordsFor(11) = <<ConnectWords>>
    /\ WordsFor(12) = <<DisconnectWords>>
    /\ WordsFor(13) = <<StatementWords>>
    /\ WordsFor(14) = <<PrefixWords>>
    /\ WordsFor(16) = <<AuditWords>>
    /\ WordsFor(20) = <<PasswordWords>>
    /\ WordsFor(22) = <<HistoryWords>>
  <1>1. ASSUME NEW i, i = 1 PROVE WordsFor(i) = <<ScramWords>>
    <2>1. /\ i # 2 /\ i # 6 /\ i # 9 /\ i # 11 /\ i # 12 /\ i # 13 /\ i # 14
          /\ i # 15 /\ i # 16 /\ i # 17 /\ i # 20 /\ i # 21 /\ i # 22 /\ i # 24
      BY <1>1
    <2> QED
      BY <1>1, <2>1, Zenon DEF WordsFor, ScramWords
  <1>2. ASSUME NEW i, i = 6 PROVE WordsFor(i) = <<DefinerWords>>
    <2>1. /\ i # 1 /\ i # 2 /\ i # 9 /\ i # 11 /\ i # 12 /\ i # 13 /\ i # 14
          /\ i # 15 /\ i # 16 /\ i # 17 /\ i # 20 /\ i # 21 /\ i # 22 /\ i # 24
      BY <1>2
    <2> QED
      BY <1>2, <2>1, Zenon DEF WordsFor, DefinerWords
  <1>3. WordsFor(9) = <<AddressWords>>
    BY DEF WordsFor, AddressWords
  <1>4. WordsFor(11) = <<ConnectWords>>
    BY DEF WordsFor, ConnectWords
  <1>5. WordsFor(12) = <<DisconnectWords>>
    BY DEF WordsFor, DisconnectWords
  <1>6. WordsFor(13) = <<StatementWords>>
    BY DEF WordsFor, StatementWords
  <1>7. WordsFor(14) = <<PrefixWords>>
    BY DEF WordsFor, PrefixWords
  <1>8. WordsFor(16) = <<AuditWords>>
    BY DEF WordsFor, AuditWords
  <1>9. WordsFor(20) = <<PasswordWords>>
    BY DEF WordsFor, PasswordWords
  <1>10. ASSUME NEW i, i = 22 PROVE WordsFor(i) = <<HistoryWords>>
    <2>1. /\ i # 1 /\ i # 2 /\ i # 6 /\ i # 9 /\ i # 11 /\ i # 12 /\ i # 13
          /\ i # 14 /\ i # 15 /\ i # 16 /\ i # 17 /\ i # 20 /\ i # 21 /\ i # 24
      BY <1>10
    <2> QED
      BY <1>10, <2>1, Zenon DEF WordsFor, HistoryWords
  <1> QED
    BY <1>1, <1>2, <1>3, <1>4, <1>5, <1>6, <1>7, <1>8, <1>9, <1>10

\* What a control says that is about the check.
SaidByControl(i, run) ==
    \E n \in 1 .. 34 : CisResults[n].about = i /\ CisResults[n].control \in run.report.controls

LEMMA ControlsEarn ==
  ASSUME NEW run, run.report \in Reports, NEW i \in {1, 6, 9, 11, 12, 13, 14, 16, 20, 22},
         EvalCIS(i, run) # "Manual", i \in {11, 12, 20} => SaidByControl(i, run),
         \A k \in FindCISForCritical[run.report][i] : CisResults[k].control \notin run.report.failed
  PROVE  SaidByControl(i, run) /\ EvalCIS(i, run) = PassUnless(i \in run.faults)
  <1> DEFINE Shows(n) == CisResults[n].control \in run.report.controls
             Row(n) == CheckFromCIS(i, CisResults[n], run)
             First(n, words) == /\ FirstWith(n, words, run.report) /\ EvalCIS(i, run) = Row(n)
                                /\ CisResults[n].control \notin run.report.failed
  <1>1. ASSUME NEW n \in 1 .. 34, NEW words, First(n, words), CisResults[n].about = i
        PROVE  SaidByControl(i, run) /\ EvalCIS(i, run) = PassUnless(i \in run.faults)
    <2>1. SaidByControl(i, run)
      BY <1>1, FoundByWord DEF FirstWith, SaidByControl
    <2>2. ResolveCritical(i, CisResults[n], run.faults) = PassUnless(i \in run.faults)
      BY <1>1 DEF ResolveCritical
    <2>3. Row(n) = PassUnless(i \in run.faults)
      BY <1>1, <2>2 DEF CheckFromCIS
    <2> QED
      BY <1>1, <2>1, <2>3
  <1>2. ASSUME NEW n \in 1 .. 34, NEW words, First(n, words), CisResults[n].about # i,
               CisResults[n].manual = TRUE
        PROVE  FALSE
    <2>1. ResolveCritical(i, CisResults[n], run.faults) = "Manual"
      BY <1>2 DEF ResolveCritical
    <2>2. Row(n) = "Manual"
      BY <1>2, <2>1 DEF CheckFromCIS
    <2> QED
      BY <1>2, <2>2
  <1>3. ASSUME NEW words, WordsFor(i) = <<words>> PROVE \E n \in 1 .. 34 : First(n, words)
    <2>1. i \in Checks
      BY DEF Checks
    <2>2. PICK n \in 1 .. 34 : /\ FirstWith(n, words, run.report) /\ n \in FindCISForCritical[run.report][i]
                               /\ EvalCIS(i, run) = CheckFromCIS(i, CisResults[n], run)
      BY <1>3, <2>1, AnsweredByFirst
    <2> QED
      BY <2>2
  <1>4. ASSUME NEW n \in 1 .. 34, NEW words, First(n, words) PROVE AllWords(n) \cap words # {}
    BY <1>4, FoundByWord DEF FirstWith
  <1>5. ASSUME NEW n \in 1 .. 34, NEW k \in 1 .. n - 1, NEW words, First(n, words), Shows(k),
               CisResults[k].words \cap words # {}
        PROVE  FALSE
    <2>1. k \in 1 .. 34
      OBVIOUS
    <2>2. Text(CisResults[k], run.report) \cap words # {}
      BY <1>5 DEF Text
    <2>3. k \in Results(run.report, words)
      BY <1>5, <2>1, <2>2, ControlsListed DEF Results
    <2> QED
      BY <1>5, <2>3 DEF FirstWith
  <1> HIDE DEF First
  <1>6. CASE i = 1
    <2>1. PICK n \in 1 .. 34 : First(n, ScramWords)
      BY <1>6, <1>3, WordsTried
    <2>2. n \in {22, 27}
      BY <1>4, <2>1, WordsFound
    <2>4. CisResults[n].about = i
      BY <1>6, <2>2, ControlsListed
    <2> QED
      BY <1>1, <2>1, <2>4
  <1>7. CASE i = 6
    <2>1. PICK n \in 1 .. 34 : First(n, DefinerWords)
      BY <1>7, <1>3, WordsTried
    <2>2. n \in {15}
      BY <1>4, <2>1, WordsFound
    <2>4. CisResults[n].about = i
      BY <1>7, <2>2, ControlsListed
    <2> QED
      BY <1>1, <2>1, <2>4
  <1>8. CASE i = 9
    <2>1. PICK n \in 1 .. 34 : First(n, AddressWords)
      BY <1>8, <1>3, WordsTried
    <2>2. n \in {18, 24}
      BY <1>4, <2>1, WordsFound
    <2>3. n # 24
      <3>1. CisResults[24].about # i /\ CisResults[24].manual = TRUE
        BY <1>8, ControlsListed DEF Another
      <3>2. ASSUME n = 24 PROVE FALSE
        BY <1>2, <2>1, <3>1, <3>2
      <3> QED
        BY <3>2
    <2>4. CisResults[n].about = i
      BY <1>8, <2>2, <2>3, ControlsListed
    <2> QED
      BY <1>1, <2>1, <2>4
  <1>9. CASE i = 13
    <2>1. PICK n \in 1 .. 34 : First(n, StatementWords)
      BY <1>9, <1>3, WordsTried
    <2>2. n \in {13, 26}
      BY <1>4, <2>1, WordsFound
    <2>4. CisResults[n].about = i
      BY <1>9, <2>2, ControlsListed
    <2> QED
      BY <1>1, <2>1, <2>4
  <1>10. CASE i = 14
    <2>1. PICK n \in 1 .. 34 : First(n, PrefixWords)
      BY <1>10, <1>3, WordsTried
    <2>2. n \in {12, 25}
      BY <1>4, <2>1, WordsFound
    <2>4. CisResults[n].about = i
      BY <1>10, <2>2, ControlsListed
    <2> QED
      BY <1>1, <2>1, <2>4
  <1>11. CASE i = 16
    <2>1. PICK n \in 1 .. 34 : First(n, AuditWords)
      BY <1>11, <1>3, WordsTried
    <2>2. n \in {14, 22, 24, 34}
      BY <1>4, <2>1, WordsFound
    <2>3. n # 22
      <3>1. CisResults[22].about # i /\ CisResults[22].manual = TRUE
        BY <1>11, ControlsListed DEF Another
      <3>2. ASSUME n = 22 PROVE FALSE
        BY <1>2, <2>1, <3>1, <3>2
      <3> QED
        BY <3>2
    <2>4. CisResults[n].about = i
      BY <1>11, <2>2, <2>3, ControlsListed
    <2> QED
      BY <1>1, <2>1, <2>4
  <1>12. CASE i = 22
    <2>1. PICK n \in 1 .. 34 : First(n, HistoryWords)
      BY <1>12, <1>3, WordsTried
    <2>2. n \in {3, 17}
      BY <1>4, <2>1, WordsFound
    <2>3. n # 17
      <3>1. CisResults[17].about # i /\ CisResults[17].manual = TRUE
        BY <1>12, ControlsListed DEF Another
      <3>2. ASSUME n = 17 PROVE FALSE
        BY <1>2, <2>1, <3>1, <3>2
      <3> QED
        BY <3>2
    <2>4. CisResults[n].about = i
      BY <1>12, <2>2, <2>3, ControlsListed
    <2> QED
      BY <1>1, <2>1, <2>4
  <1>13. CASE i = 11
    <2>1. PICK n \in 1 .. 34 : First(n, ConnectWords)
      BY <1>13, <1>3, WordsTried
    <2>2. n \in {9, 23}
      BY <1>4, <2>1, WordsFound
    <2>3. Shows(9)
      BY <1>13, ControlsListed DEF SaidByControl, Another, Never
    <2>4. CisResults[9].words \cap ConnectWords # {}
      <3>1. CisResults[9].words = {"log_connections", "connect"}
        BY ZenonT(60) DEF CisResults, Decided, ForReview
      <3> QED
        BY <3>1 DEF ConnectWords
    <2>5. n = 9
      BY <1>5, <2>1, <2>2, <2>3, <2>4
    <2> QED
      BY <1>1, <1>13, <2>1, <2>5, ControlsListed
  <1>14. CASE i = 12
    <2>1. PICK n \in 1 .. 34 : First(n, DisconnectWords)
      BY <1>14, <1>3, WordsTried
    <2>2. n \in {10, 23}
      BY <1>4, <2>1, WordsFound
    <2>3. Shows(10)
      BY <1>14, ControlsListed DEF SaidByControl, Another, Never
    <2>4. CisResults[10].words \cap DisconnectWords # {}
      <3>1. CisResults[10].words = {"log_disconnections", "connect"}
        BY ZenonT(60) DEF CisResults, Decided, ForReview
      <3> QED
        BY <3>1 DEF DisconnectWords
    <2>5. n = 10
      BY <1>5, <2>1, <2>2, <2>3, <2>4
    <2> QED
      BY <1>1, <1>14, <2>1, <2>5, ControlsListed
  <1>15. CASE i = 20
    <2>1. PICK n \in 1 .. 34 : First(n, PasswordWords)
      BY <1>15, <1>3, WordsTried
    <2>2. n \in {1, 2}
      BY <1>4, <2>1, WordsFound
    <2>3. Shows(1)
      BY <1>15, ControlsListed DEF SaidByControl, Another, Never
    <2>4. CisResults[1].words \cap PasswordWords # {}
      <3>1. CisResults[1].words = {"pgpassword", "profile", "environment", "password"}
        BY ZenonT(60) DEF CisResults, Decided, ForReview
      <3> QED
        BY <3>1 DEF PasswordWords
    <2>5. n = 1
      BY <1>5, <2>1, <2>2, <2>3, <2>4
    <2> QED
      BY <1>1, <1>15, <2>1, <2>5, ControlsListed
  <1> QED
    BY <1>6, <1>7, <1>8, <1>9, <1>10, <1>11, <1>12, <1>13, <1>14, <1>15

LEMMA SslEarned ==
  ASSUME NEW run, run.report \in Reports, "6.7" \notin run.report.controls, EvalSSL(run) # "Manual",
         \A k \in Results(run.report, {"ssl", "tls"}) : CisResults[k].control \notin run.report.failed
  PROVE  Spoken(5, run) /\ EvalSSL(run) = PassUnless(Wrong(5, run))
  <1> DEFINE found  == Results(run.report, {"ssl", "tls"})
             titled == {n \in found : ~CisResults[n].manual}
             failed == \E n \in found : CheckFromCIS(5, CisResults[n], run) = "Fail"
             plain  == "hba" \in run.report.parts /\ 19 \in run.faults
  <1>1. EvalSSL(run) = IF plain \/ failed THEN "Fail"
                       ELSE IF titled # {} THEN "Pass" ELSE "Manual"
    BY Zenon DEF EvalSSL
  <1>2. \A n \in found : n \in 29 .. 33 /\ CisResults[n].control \in run.report.controls
    <2> SUFFICES ASSUME NEW n \in found
                 PROVE  n \in 29 .. 33 /\ CisResults[n].control \in run.report.controls
      OBVIOUS
    <2>1. n \in 1 .. 34 /\ CisResults[n].control \in run.report.controls
          /\ AllWords(n) \cap SslWords # {}
      BY FoundByWord DEF SslWords
    <2>2. n \in {28, 29, 30, 31, 32, 33}
      BY <2>1, WordsFound
    <2>3. n # 28
      BY <2>1, ControlsListed
    <2> QED
      BY <2>1, <2>2, <2>3
  <1>3. \A n \in titled : CisResults[n].about = 5 /\ CheckFromCIS(5, CisResults[n], run) = PassUnless(5 \in run.faults)
    <2> SUFFICES ASSUME NEW n \in titled
                 PROVE  /\ CisResults[n].about = 5
                        /\ CheckFromCIS(5, CisResults[n], run) = PassUnless(5 \in run.faults)
      OBVIOUS
    <2>1. n \in {29, 30, 31}
      BY <1>2, ControlsListed
    <2>2. CisResults[n].about = 5 /\ CisResults[n].manual = FALSE
      BY <2>1, ControlsListed
    <2> QED
      BY <2>2 DEF CheckFromCIS
  <1>4. \A n \in found \ titled : CheckFromCIS(5, CisResults[n], run) = "Manual"
    <2> SUFFICES ASSUME NEW n \in found \ titled
                 PROVE  CheckFromCIS(5, CisResults[n], run) = "Manual"
      OBVIOUS
    <2>1. n \in {32, 33}
      BY <1>2, ControlsListed
    <2>2. CisResults[n].about # 5 /\ CisResults[n].manual
      BY <2>1, ControlsListed DEF Another
    <2>3. ResolveCritical(5, CisResults[n], run.faults) = "Manual"
      BY <2>2 DEF ResolveCritical
    <2> QED
      BY <2>2, <2>3 DEF CheckFromCIS
  <1>5. titled # {} => Spoken(5, run)
    BY <1>2, <1>3, ControlsListed DEF Spoken
  <1>6. plain => Spoken(5, run)
    BY DEF Spoken
  <1>7. failed <=> titled # {} /\ 5 \in run.faults
    <2>1. titled \subseteq found
      OBVIOUS
    <2> HIDE DEF found, titled
    <2> QED
      BY <1>3, <1>4, <2>1 DEF PassUnless
  <1>8. Wrong(5, run) <=> 5 \in run.faults \/ plain
    BY DEF Wrong
  <1> HIDE DEF found, titled, failed, plain
  <1> QED
    BY <1>1, <1>5, <1>6, <1>7, <1>8 DEF PassUnless

\* What is said of check i by a run, but for those named.
LEMMA VerdictEarned ==
  ASSUME DbInv, NEW n \in DOMAIN dbRuns, NEW i \in Checks \ {3}, ~Unearned(i, n),
         Verdict(i, n) # "Manual"
  PROVE  Spoken(i, dbRuns[n]) /\ Verdict(i, n) = PassUnless(Wrong(i, dbRuns[n]))
  <1>1. PICK run : run = dbRuns[n]
    OBVIOUS
  <1>2. PICK pii : pii = ResolvePIIReport(n)
    OBVIOUS
  <1>3. Verdict(i, n) = EvalCriticalCheck(i, run, pii)
    BY <1>1, <1>2 DEF Verdict
  <1>4. run.report \in Reports /\ run.report.users \subseteq PassSections
    <2>1. run \in DbRun
      BY <1>1 DEF DbInv
    <2> QED
      BY <2>1, ReportsAssumption DEF DbRun, Reports, NoReport
  <1>5. /\ i \in {18, 25} => "users" \in run.report.lists
        /\ i = 23 => "limits" \in run.report.lists
        /\ i # 4 /\ i # 21
        /\ i \in {2, 15, 17, 24} => i \in run.report.users
        /\ i \in {11, 12, 20} => Spoken(i, run)
        /\ i = 5 => "6.7" \notin run.report.controls
        /\ \A k \in AnsweredBy(i, run) : CisResults[k].control \notin run.report.failed
    BY <1>1 DEF Unearned
  <1>6. i # 5 => PassUnless(Wrong(i, run)) = PassUnless(i \in run.faults)
    BY DEF Wrong, PassUnless
  <1>7. SUFFICES Spoken(i, run) /\ EvalCriticalCheck(i, run, pii) = PassUnless(Wrong(i, run))
    BY <1>1, <1>3
  <1>8. EvalCriticalCheck(i, run, pii) # "Manual"
    BY <1>3
  <1>9. CASE i = 5
    <2>1. EvalCriticalCheck(5, run, pii) = EvalSSL(run)
      BY DEF EvalCriticalCheck
    <2>2. AnsweredBy(5, run) = Results(run.report, {"ssl", "tls"})
      BY <1>4 DEF AnsweredBy, PassSections
    <2> QED
      BY <1>4, <1>5, <1>8, <1>9, <2>1, <2>2, SslEarned
  <1>10. CASE i = 7
    <2>1. EvalCriticalCheck(7, run, pii) = EvalSuperuserCount(run)
      BY DEF EvalCriticalCheck
    <2> QED
      BY <1>6, <1>8, <1>10, <2>1 DEF EvalSuperuserCount, Spoken
  <1>11. CASE i \in {8, 10, 19}
    <2>1. EvalCriticalCheck(i, run, pii) = EvalHBA(i, run)
      BY <1>11 DEF EvalCriticalCheck
    <2>2. HbaFault(HbaControl(i)) = i
      BY <1>11 DEF HbaFault, HbaControl
    <2> QED
      BY <1>6, <1>8, <1>11, <2>1, <2>2 DEF EvalHBA, Spoken
  <1>12. CASE i \in {18, 23, 25}
    <2>1. EvalCriticalCheck(i, run, pii) =
             IF i = 23 THEN EvalList(23, "limits", run) ELSE EvalList(i, "users", run)
      BY <1>12 DEF EvalCriticalCheck
    <2> QED
      BY <1>5, <1>6, <1>12, <2>1 DEF EvalList, Spoken
  <1>13. ASSUME EvalCriticalCheck(i, run, pii) = EvalCIS(i, run),
                i \in {1, 6, 9, 11, 12, 13, 14, 16, 20, 22},
                i \notin run.report.users
         PROVE  Spoken(i, run) /\ EvalCriticalCheck(i, run, pii) = PassUnless(Wrong(i, run))
    <2>1. i \in {11, 12, 20} => SaidByControl(i, run)
      BY <1>5, <1>13, ControlsListed DEF Spoken, SaidByControl
    <2>4. AnsweredBy(i, run) = FindCISForCritical[run.report][i]
      BY <1>13 DEF AnsweredBy
    <2>2. SaidByControl(i, run) /\ EvalCIS(i, run) = PassUnless(i \in run.faults)
      BY <1>4, <1>5, <1>8, <1>13, <2>1, <2>4, ControlsEarn
    <2>3. Spoken(i, run)
      BY <2>2, ControlsListed DEF Spoken, SaidByControl
    <2> QED
      BY <1>6, <1>13, <2>2, <2>3
  <1>14. CASE i \in {20, 22}
    <2>1. EvalCriticalCheck(i, run, pii) = EvalCIS(i, run)
      BY <1>14 DEF EvalCriticalCheck
    <2>2. i \notin run.report.users
      BY <1>4, <1>14 DEF PassSections
    <2> QED
      BY <1>13, <1>14, <2>1, <2>2
  <1>15. CASE i \in {1, 2, 6, 9, 11, 12, 13, 14, 15, 16, 17, 24}
    <2>1. EvalCriticalCheck(i, run, pii) = PreferUsersThenCIS(i, run)
      BY <1>15 DEF EvalCriticalCheck
    <2>2. CASE i \in run.report.users
      BY <1>6, <1>15, <2>1, <2>2 DEF PreferUsersThenCIS, EvalUsers, Spoken
    <2>3. CASE i \notin run.report.users
      BY <1>5, <1>13, <1>15, <2>1, <2>3 DEF PreferUsersThenCIS
    <2> QED
      BY <2>2, <2>3
  <1> QED
    BY <1>5, <1>9, <1>10, <1>11, <1>12, <1>14, <1>15 DEF Checks

-----------------------------------------------------------------------------
(* The run that is shown.                                                    *)

CountedOf(n) == Counted[dbRuns[n].report]
Parts(n)     == Cardinality(dbRuns[n].report.parts)
Full(n)      == IF HasReport(dbRuns[n].report) THEN 1 ELSE 0

LEMMA PartsFinite == IsFiniteSet(DbParts)
  <1>1. IsFiniteSet({"cis"} \cup {"hba"})
    BY FS_Singleton, FS_Union
  <1>2. IsFiniteSet(({"cis"} \cup {"hba"}) \cup {"users"})
    BY <1>1, FS_Singleton, FS_Union
  <1>3. IsFiniteSet((({"cis"} \cup {"hba"}) \cup {"users"}) \cup {"leaks"})
    BY <1>2, FS_Singleton, FS_Union
  <1>4. IsFiniteSet(((({"cis"} \cup {"hba"}) \cup {"users"}) \cup {"leaks"}) \cup {"passwords"})
    BY <1>3, FS_Singleton, FS_Union
  <1>5. ((({"cis"} \cup {"hba"}) \cup {"users"}) \cup {"leaks"}) \cup {"passwords"}
          = {"cis", "hba", "users", "leaks", "passwords"}
    OBVIOUS
  <1> QED
    BY <1>4, <1>5 DEF DbParts

LEMMA Comparable ==
  ASSUME DbInv, NEW n \in DOMAIN dbRuns
  PROVE  /\ CountedOf(n) \in Nat /\ Parts(n) \in Nat /\ Full(n) \in Nat
         /\ CountedOf(n) \in 0 .. 34 /\ Parts(n) \in 0 .. Cardinality(DbParts) /\ Full(n) \in 0 .. 1
         /\ Cardinality(DbParts) \in Nat
         /\ n \in Nat /\ n \in 0 .. Len(dbRuns)
  <1>1. PICK run \in DbRun : run = dbRuns[n]
    BY DEF DbInv
  <1>2. run.report \in Reports /\ run.report.parts \subseteq DbParts
    BY ReportsAssumption DEF DbRun, Reports, NoReport
  <1>3. IsFiniteSet(DbParts) /\ Cardinality(DbParts) \in Nat
    BY PartsFinite, FS_CardinalityType
  <1>4. Parts(n) \in 0 .. Cardinality(DbParts)
    <2>1. /\ IsFiniteSet(run.report.parts)
          /\ Cardinality(run.report.parts) <= Cardinality(DbParts)
      BY <1>2, <1>3, FS_Subset
    <2>2. Cardinality(run.report.parts) \in Nat
      BY <2>1, FS_CardinalityType
    <2> QED
      BY <1>1, <1>3, <2>1, <2>2 DEF Parts
  <1>5. CountedOf(n) \in 0 .. 34
    <2> DEFINE C == {k \in 1 .. 34 :
                       /\ CisResults[k].control \in run.report.controls
                       /\ CisResults[k].manual => CisResults[k].control \in run.report.failed}
    <2>1. CountedOf(n) = Cardinality(C)
      BY <1>1, <1>2, ControlsListed, ZenonT(40) DEF CountedOf, Counted
    <2>2. IsFiniteSet(1 .. 34) /\ Cardinality(1 .. 34) = 34
      <3>1. /\ IsFiniteSet(1 .. 34)
            /\ Cardinality(1 .. 34) = IF 1 > 34 THEN 0 ELSE 34 - 1 + 1
        BY FS_Interval, 1 \in Int, 34 \in Int
      <3> QED
        BY <3>1
    <2>3. IsFiniteSet(C) /\ Cardinality(C) <= 34
      BY <2>2, FS_Subset
    <2>4. Cardinality(C) \in Nat
      BY <2>3, FS_CardinalityType
    <2> HIDE DEF C
    <2> QED
      BY <2>1, <2>3, <2>4
  <1>6. CountedOf(n) \in Nat /\ Parts(n) \in Nat
    <2>1. PICK c \in Nat : c = Cardinality(DbParts)
      BY <1>3
    <2>2. Parts(n) \in 0 .. c
      BY <2>1, <1>4, Zenon
    <2> QED
      BY <1>5, <2>2
  <1>7. Full(n) \in 0 .. 1 /\ Full(n) \in Nat
    BY DEF Full
  <1>8. n \in Nat /\ n \in 0 .. Len(dbRuns)
    BY DEF DbInv
  <1> QED
    BY <1>3, <1>4, <1>5, <1>6, <1>7, <1>8

LEMMA Preferred ==
  ASSUME NEW n, NEW k
  PROVE  PreferRunRow(n, k) <=>
           \/ CountedOf(n) > CountedOf(k)
           \/ CountedOf(n) = CountedOf(k) /\ Parts(n) > Parts(k)
           \/ CountedOf(n) = CountedOf(k) /\ Parts(n) = Parts(k) /\ Full(n) > Full(k)
           \/ CountedOf(n) = CountedOf(k) /\ Parts(n) = Parts(k) /\ Full(n) = Full(k) /\ n > k
  <1> DEFINE p == Rank(n)
             q == Rank(k)
  <1>1. /\ p[1] = CountedOf(n) /\ p[2] = Parts(n) /\ p[3] = Full(n) /\ p[4] = n
        /\ q[1] = CountedOf(k) /\ q[2] = Parts(k) /\ q[3] = Full(k) /\ q[4] = k
    BY DEF Rank, CountedOf, Parts, Full
  <1>2. PreferRunRow(n, k) <=> \E d \in 1 .. 4 : p[d] > q[d] /\ \A c \in 1 .. d - 1 : p[c] = q[c]
    BY DEF PreferRunRow
  <1> HIDE DEF p, q
  <1>3. ASSUME NEW d \in 1 .. 4, p[d] > q[d], \A c \in 1 .. d - 1 : p[c] = q[c]
        PROVE  \/ p[1] > q[1]
               \/ p[1] = q[1] /\ p[2] > q[2]
               \/ p[1] = q[1] /\ p[2] = q[2] /\ p[3] > q[3]
               \/ p[1] = q[1] /\ p[2] = q[2] /\ p[3] = q[3] /\ p[4] > q[4]
    BY <1>3
  <1>4. p[1] > q[1] => \A c \in 1 .. 1 - 1 : p[c] = q[c]
    OBVIOUS
  <1>5. p[1] = q[1] => \A c \in 1 .. 2 - 1 : p[c] = q[c]
    OBVIOUS
  <1>6. p[1] = q[1] /\ p[2] = q[2] => \A c \in 1 .. 3 - 1 : p[c] = q[c]
    OBVIOUS
  <1>7. p[1] = q[1] /\ p[2] = q[2] /\ p[3] = q[3] => \A c \in 1 .. 4 - 1 : p[c] = q[c]
    OBVIOUS
  <1> QED
    BY <1>1, <1>2, <1>3, <1>4, <1>5, <1>6, <1>7

LEMMA NotPreferred ==
  ASSUME NEW n, NEW k,
         CountedOf(n) \in Nat /\ Parts(n) \in Nat /\ Full(n) \in Nat /\ n \in Nat,
         CountedOf(k) \in Nat /\ Parts(k) \in Nat /\ Full(k) \in Nat /\ k \in Nat,
         CountedOf(n) <= CountedOf(k) /\ Parts(n) <= Parts(k) /\ Full(n) <= Full(k) /\ n <= k
  PROVE  ~PreferRunRow(n, k)
  BY Preferred

LEMMA ShownIsBest ==
  ASSUME DbInv, dbRuns # <<>>
  PROVE  /\ Shown \in Recent
         /\ \A k \in Recent \ {Shown} : PreferRunRow(Shown, k)
  <1>1. Recent \subseteq DOMAIN dbRuns /\ Len(dbRuns) \in Recent /\ Len(dbRuns) \in Nat
    BY PickLimitAssumption DEF Recent, DbInv
  <1>2. \A n \in Recent : /\ CountedOf(n) \in 0 .. 34 /\ Parts(n) \in 0 .. Cardinality(DbParts)
                          /\ Full(n) \in 0 .. 1 /\ n \in 0 .. Len(dbRuns)
                          /\ Cardinality(DbParts) \in Nat
    BY <1>1, Comparable
  <1>3. PICK n1 \in Recent : \A k \in Recent : CountedOf(k) <= CountedOf(n1)
    <2> DEFINE S == {CountedOf(n) : n \in Recent}
    <2>1. S \in SUBSET (0 .. 34) /\ S # {}
      BY <1>1, <1>2
    <2>2. \E x \in S : \A y \in S : y <= x
      BY <2>1, LargestNumber
    <2> QED
      BY <2>2
  <1> DEFINE R1 == {n \in Recent : CountedOf(n) = CountedOf(n1)}
  <1>4. PICK n2 \in R1 : \A k \in R1 : Parts(k) <= Parts(n2)
    <2> DEFINE S == {Parts(n) : n \in R1}
    <2>1. S \in SUBSET (0 .. Cardinality(DbParts)) /\ S # {} /\ Cardinality(DbParts) \in Nat
      BY <1>1, <1>2, <1>3
    <2>2. \E x \in S : \A y \in S : y <= x
      <3> HIDE DEF S
      <3> QED
        BY <2>1, LargestNumber
    <2> QED
      BY <2>2
  <1> DEFINE R2 == {n \in R1 : Parts(n) = Parts(n2)}
  <1>5. PICK n3 \in R2 : \A k \in R2 : Full(k) <= Full(n3)
    <2> DEFINE S == {Full(n) : n \in R2}
    <2>1. S \in SUBSET (0 .. 1) /\ S # {}
      BY <1>2, <1>4
    <2>2. \E x \in S : \A y \in S : y <= x
      BY <2>1, LargestNumber
    <2> QED
      BY <2>2
  <1> DEFINE R3 == {n \in R2 : Full(n) = Full(n3)}
  <1>6. PICK n4 \in R3 : \A k \in R3 : k <= n4
    <2>1. R3 \in SUBSET (0 .. Len(dbRuns)) /\ R3 # {}
      BY <1>2, <1>5
    <2> HIDE DEF R3
    <2> QED
      BY <1>1, <2>1, LargestNumber
  <1>7. n4 \in Recent
    BY <1>6
  <1>8. \A k \in Recent \ {n4} : PreferRunRow(n4, k)
    <2> SUFFICES ASSUME NEW k \in Recent \ {n4} PROVE PreferRunRow(n4, k)
      OBVIOUS
    <2>1. /\ CountedOf(n4) = CountedOf(n1) /\ Parts(n4) = Parts(n2) /\ Full(n4) = Full(n3)
      BY <1>6
    <2>2. /\ CountedOf(k) <= CountedOf(n4)
          /\ CountedOf(k) = CountedOf(n4) => Parts(k) <= Parts(n4)
          /\ CountedOf(k) = CountedOf(n4) /\ Parts(k) = Parts(n4) => Full(k) <= Full(n4)
          /\ CountedOf(k) = CountedOf(n4) /\ Parts(k) = Parts(n4) /\ Full(k) = Full(n4) => k <= n4
      BY <1>3, <1>4, <1>5, <1>6, <2>1
    <2>4. k \in DOMAIN dbRuns /\ n4 \in DOMAIN dbRuns
      BY <1>1, <1>7
    <2>3. /\ CountedOf(k) \in Nat /\ Parts(k) \in Nat /\ Full(k) \in Nat /\ k \in Nat
          /\ CountedOf(n4) \in Nat /\ Parts(n4) \in Nat /\ Full(n4) \in Nat /\ n4 \in Nat
      BY <2>4, Comparable
    <2> QED
      BY <2>2, <2>3, Preferred, SMTT(40)
  <1> QED
    BY <1>7, <1>8 DEF Shown

LEMMA NewestShown ==
  ASSUME DbInv, dbRuns # <<>>, HasMost(dbRuns[Len(dbRuns)].report)
  PROVE  Shown = Len(dbRuns)
  <1> DEFINE n == Len(dbRuns)
             most == dbRuns[n].report
  <1>1. Recent \subseteq DOMAIN dbRuns /\ n \in Recent /\ n \in Nat
    BY PickLimitAssumption DEF Recent, DbInv
  <1>2. /\ Shown \in Recent
        /\ Shown # n => PreferRunRow(Shown, n)
    BY <1>1, ShownIsBest
  <1>3. PICK report \in Reports : report = dbRuns[Shown].report
    <2>1. dbRuns[Shown] \in DbRun
      BY <1>1, <1>2 DEF DbInv
    <2> QED
      BY <2>1 DEF DbRun
  <1>4. most \in Reports
    <2>1. dbRuns[n] \in DbRun
      BY <1>1 DEF DbInv
    <2> QED
      BY <2>1 DEF DbRun
  <1>5. /\ report.controls \subseteq most.controls /\ report.failed \subseteq most.failed
        /\ Cardinality(report.parts) <= Cardinality(most.parts)
        /\ HasReport(report) => HasReport(most)
    BY <1>2, <1>3 DEF HasMost
  <1>6. CountedOf(Shown) <= CountedOf(n)
    <2> DEFINE C(r) == {k \in DOMAIN CisResults :
                          /\ CisResults[k].control \in r.controls
                          /\ CisResults[k].manual => CisResults[k].control \in r.failed}
    <2>1. CountedOf(Shown) = Cardinality(C(report)) /\ CountedOf(n) = Cardinality(C(most))
      BY <1>3, <1>4 DEF CountedOf, Counted
    <2>2. C(report) \subseteq C(most)
      BY <1>5
    <2>3. IsFiniteSet(C(most))
      <3>1. C(most) \subseteq 1 .. 34
        BY ControlsListed
      <3>2. IsFiniteSet(1 .. 34)
        BY FS_Interval, 1 \in Int, 34 \in Int
      <3> HIDE DEF C
      <3> QED
        BY <3>1, <3>2, FS_Subset
    <2> HIDE DEF C
    <2> QED
      BY <2>1, <2>2, <2>3, FS_Subset
  <1>7. Parts(Shown) <= Parts(n)
    BY <1>3, <1>5 DEF Parts
  <1>8. Full(Shown) <= Full(n)
    BY <1>3, <1>5 DEF Full
  <1>9. /\ CountedOf(Shown) \in Nat /\ Parts(Shown) \in Nat /\ Full(Shown) \in Nat
        /\ CountedOf(n) \in Nat /\ Parts(n) \in Nat /\ Full(n) \in Nat
        /\ Shown \in Nat /\ Shown <= n
    <2>1. Shown \in DOMAIN dbRuns /\ n \in DOMAIN dbRuns
      BY <1>1, <1>2
    <2>2. Shown \in Nat /\ Shown <= n
      BY <2>1 DEF DbInv
    <2> HIDE DEF n
    <2> QED
      BY <2>1, <2>2, Comparable
  <1> HIDE DEF n, most
  <1>10. ~PreferRunRow(Shown, n)
    BY <1>1, <1>6, <1>7, <1>8, <1>9, NotPreferred
  <1> QED
    BY <1>2, <1>10 DEF n

LEMMA VerdictsAreEarned == DbInv => VerdictsEarned
  <1> SUFFICES ASSUME DbInv, dbRuns # <<>> PROVE
        /\ HasMost(dbRuns[Len(dbRuns)].report) => Shown = Len(dbRuns)
        /\ \A i \in Checks \ {3} :
             \/ Verdict(i, Shown) = "Manual" \/ Unearned(i, Shown)
             \/ Spoken(i, dbRuns[Shown])
                /\ Verdict(i, Shown) = PassUnless(Wrong(i, dbRuns[Shown]))
        /\ \/ Unearned(3, Shown)
           \/ \E k \in WithPII : /\ \A m \in WithPII : m <= k
                                 /\ Verdict(3, Shown) = PassUnless(dbRuns[k].pii = "found")
    BY Zenon DEF VerdictsEarned
  <1>1. Shown \in DOMAIN dbRuns
    BY ShownIsBest DEF Recent
  <1>2. \A i \in Checks \ {3} :
             \/ Verdict(i, Shown) = "Manual" \/ Unearned(i, Shown)
             \/ Spoken(i, dbRuns[Shown])
                /\ Verdict(i, Shown) = PassUnless(Wrong(i, dbRuns[Shown]))
    BY <1>1, VerdictEarned, Zenon
  <1>3. ASSUME ~Unearned(3, Shown)
        PROVE  \E k \in WithPII : /\ \A m \in WithPII : m <= k
                                  /\ Verdict(3, Shown) = PassUnless(dbRuns[k].pii = "found")
    <2>1. WithPII # {} /\ dbRuns[Shown].pii = "none"
      BY <1>3 DEF Unearned
    <2> DEFINE newest == CHOOSE k \in WithPII : \A m \in WithPII : m <= k
    <2>2. newest \in WithPII /\ \A m \in WithPII : m <= newest
      <3>1. WithPII \in SUBSET (0 .. Len(dbRuns)) /\ Len(dbRuns) \in Nat
        BY DEF WithPII, DbInv
      <3>2. \E k \in WithPII : \A m \in WithPII : m <= k
        BY <2>1, <3>1, LargestNumber
      <3> QED
        BY <3>2
    <2>3. ResolvePIIReport(Shown) = dbRuns[newest].pii
      BY <2>1 DEF ResolvePIIReport
    <2> HIDE DEF newest
    <2>4. Verdict(3, Shown) = PassUnless(dbRuns[newest].pii = "found")
      <3>1. PICK pii : pii = ResolvePIIReport(Shown)
        OBVIOUS
      <3>2. Verdict(3, Shown) = EvalCriticalCheck(3, dbRuns[Shown], pii)
        BY <3>1 DEF Verdict
      <3>3. EvalCriticalCheck(3, dbRuns[Shown], pii) = EvalPII(pii)
        BY DEF EvalCriticalCheck
      <3> QED
        BY <2>3, <3>1, <3>2, <3>3 DEF EvalPII
    <2> QED
      BY <2>2, <2>4
  <1> QED
    BY <1>2, <1>3, NewestShown

DbFollowed == IF runner = "dashboard" THEN DbInv ELSE DbRests

LEMMA DbFollowedHolds == Spec => []DbFollowed
  <1>1. Init => DbFollowed
    BY Starts0, DbInvInit DEF DbFollowed
  <1>2. DbFollowed /\ [Next]_vars => DbFollowed'
    <2> SUFFICES ASSUME DbFollowed, [Next]_vars PROVE DbFollowed'
      OBVIOUS
    <2>1. CASE runner = "dashboard"
      BY <2>1, Moves, DbInvStep DEF DbFollowed
    <2>2. CASE runner # "dashboard"
      <3>1. UNCHANGED <<runner, dbVars>>
        BY <2>2, Moves
      <3> QED
        BY <2>2, <3>1 DEF DbFollowed, DbRests, DbStart, dbVars
    <2> QED
      BY <2>1, <2>2
  <1> QED
    BY <1>1, <1>2, PTL DEF Spec

\* Whatever runs of whatever reports a target has pushed, the most complete one is
\* shown, and a verdict of the page is what that run reports of that subject, but
\* for those named (critical_checks.go:258, service.go:78).
THEOREM VerdictsEarnedHolds == Spec => []VerdictsEarned
  <1>1. DbFollowed => VerdictsEarned
    <2> SUFFICES ASSUME DbFollowed PROVE VerdictsEarned
      OBVIOUS
    <2>1. CASE runner = "dashboard"
      BY <2>1, VerdictsAreEarned DEF DbFollowed
    <2>2. CASE runner # "dashboard"
      <3>1. DbStart({})
        BY <2>2 DEF DbFollowed, DbRests
      <3>2. dbRuns = <<>>
        BY <3>1 DEF DbStart
      <3> QED
        BY <3>2 DEF VerdictsEarned
    <2> QED
      BY <2>1, <2>2
  <1> QED
    BY <1>1, DbFollowedHolds, PTL

-----------------------------------------------------------------------------
(* ConfigWizard.                                                             *)

LEMMA Merged ==
  ASSUME NEW f, NEW g
  PROVE  /\ DOMAIN Over(f, g) = DOMAIN f \cup DOMAIN g
         /\ \A x \in DOMAIN f : Over(f, g)[x] = f[x]
         /\ \A x \in DOMAIN g \ DOMAIN f : Over(f, g)[x] = g[x]
  BY DEF Over

LEMMA OneField ==
  ASSUME NEW f, NEW v
  PROVE  DOMAIN Sets(f, v) = {f} /\ Sets(f, v)[f] = v
  BY DEF Sets

LEMMA FieldSet ==
  ASSUME NEW f, NEW v
  PROVE  f \in DOMAIN Sets(f, v)
  BY DEF Sets

\* What a value given for a field may be, as far as the file depends on it.
RamOk(v) == v[2] \in {"GB", "TB"} => v[1] \in Nat \ {0}

FieldOk(f, v) ==
    /\ f # Always
    /\ f = "version" => v \in Nat
    /\ f = "ram" => RamOk(v)
    /\ f = "port" => v \in Nat

FieldsOk(d) == \A f \in DOMAIN d : FieldOk(f, d[f])

\* The fields without a condition of their own.
Ordinary(f) ==
    f \notin {Always, "version", "ram", "port"}

\* A question can be given its usual answer, and gives what is right for a field.
Sensible(q) ==
    /\ q.usual \in DOMAIN q.gives
    /\ \A a \in DOMAIN q.gives : q.gives[a] = Broken \/ FieldsOk(q.gives[a])

\* After the question the field is set: by an answer to it, or before it, the
\* question being skipped.
Settles(q, f) ==
    /\ q.skip \in {Always, f}
    /\ \A a \in DOMAIN q.gives : q.gives[a] = Broken \/ f \in DOMAIN q.gives[a]

LEMMA PlainOk ==
  ASSUME NEW f, Ordinary(f), NEW v
  PROVE  FieldOk(f, v)
  <1>1. f # Always /\ f # "version" /\ f # "ram" /\ f # "port"
    BY DEF Ordinary, Always
  <1> QED
    BY <1>1, Zenon DEF FieldOk, Always

LEMMA OneFieldOk ==
  ASSUME NEW f, NEW v, FieldOk(f, v)
  PROVE  FieldsOk(Sets(f, v))
  <1> SUFFICES ASSUME NEW x \in DOMAIN Sets(f, v) PROVE FieldOk(x, Sets(f, v)[x])
    BY Zenon DEF FieldsOk
  <1>1. x = f /\ Sets(f, v)[f] = v
    BY OneField, Zenon
  <1> QED
    BY <1>1, Zenon

LEMMA GivesWell ==
  ASSUME NEW f, NEW answers, \A a \in answers : FieldOk(f, a)
  PROVE  \A a \in answers : FieldsOk(Sets(f, a)) /\ f \in DOMAIN Sets(f, a)
  <1> TAKE a \in answers
  <1>1. FieldsOk(Sets(f, a))
    BY OneFieldOk, Zenon
  <1>2. f \in DOMAIN Sets(f, a)
    BY OneField, Zenon
  <1> QED
    BY <1>1, <1>2, Zenon

LEMMA GivesOrdinary ==
  ASSUME NEW f, Ordinary(f)
  PROVE  \A v : FieldsOk(Sets(f, v)) /\ f \in DOMAIN Sets(f, v)
  <1> TAKE v
  <1>1. FieldOk(f, v)
    BY PlainOk, Zenon
  <1>2. FieldsOk(Sets(f, v))
    BY <1>1, OneFieldOk, Zenon
  <1>3. f \in DOMAIN Sets(f, v)
    BY OneField, Zenon
  <1> QED
    BY <1>2, <1>3, Zenon

LEMMA NoFieldOk == FieldsOk(NoField)
  BY DEF FieldsOk, NoField

LEMMA MergedOk ==
  ASSUME NEW d, NEW e, FieldsOk(d), FieldsOk(e)
  PROVE  FieldsOk(Over(d, e))
  <1> SUFFICES ASSUME NEW f \in DOMAIN Over(d, e) PROVE FieldOk(f, Over(d, e)[f])
    BY DEF FieldsOk
  <1>1. CASE f \in DOMAIN d
    <2>1. Over(d, e)[f] = d[f] /\ FieldOk(f, d[f])
      BY <1>1, Merged, Zenon DEF FieldsOk
    <2> QED
      BY <2>1, Zenon
  <1>2. CASE f \notin DOMAIN d
    <2>1. f \in DOMAIN e \ DOMAIN d
      BY <1>2, Merged, Zenon
    <2>2. Over(d, e)[f] = e[f]
      BY <2>1 DEF Over
    <2>3. FieldOk(f, e[f])
      BY <2>1, Zenon DEF FieldsOk
    <2> QED
      BY <2>2, <2>3, Zenon
  <1> QED
    BY <1>1, <1>2

LEMMA RequiredFacts ==
  ASSUME NEW f, NEW usual, NEW answers, usual \in answers,
         \A a \in answers : FieldOk(f, a[1])
  PROVE  Sensible(Required(f, usual, answers)) /\ Settles(Required(f, usual, answers), f)
  <1> DEFINE q == Required(f, usual, answers)
  <1>1. /\ q.usual = usual /\ q.skip = Always /\ DOMAIN q.gives = answers
        /\ \A a \in answers : q.gives[a] = Sets(f, a[1])
    BY DEF Required, Question
  <1> HIDE DEF q
  <1>2. \A a \in answers : FieldsOk(Sets(f, a[1])) /\ f \in DOMAIN Sets(f, a[1])
    <2> TAKE a \in answers
    <2>1. FieldsOk(Sets(f, a[1]))
      BY OneFieldOk, ZenonT(30)
    <2>2. f \in DOMAIN Sets(f, a[1])
      BY FieldSet, Zenon
    <2> QED
      BY <2>1, <2>2, Zenon
  <1> QED
    BY <1>1, <1>2 DEF Sensible, Settles, q

LEMMA DefaultFacts ==
  ASSUME NEW f, NEW default, NEW values, NEW q,
         q.gives = WithDefault(f, default, values), q.usual = Enter, q.skip \in {Always, f},
         FieldOk(f, default), \A v \in values : FieldOk(f, v)
  PROVE  Sensible(q) /\ Settles(q, f)
  <1>1. /\ DOMAIN q.gives = {Enter} \cup {<<v>> : v \in values}
        /\ \A a \in DOMAIN q.gives : q.gives[a] = Sets(f, IF a = Enter THEN default ELSE a[1])
    BY DEF WithDefault
  <1>2. ASSUME NEW a \in DOMAIN q.gives PROVE FieldsOk(q.gives[a]) /\ f \in DOMAIN q.gives[a]
    <2>1. PICK w : w = IF a = Enter THEN default ELSE a[1]
      OBVIOUS
    <2>2. FieldOk(f, w)
      <3>1. CASE a = Enter
        BY <2>1, <3>1
      <3>2. CASE a # Enter
        <4>1. PICK v \in values : a = <<v>>
          BY <1>1, <1>2, <3>2
        <4> QED
          BY <2>1, <3>2, <4>1
      <3> QED
        BY <3>1, <3>2
    <2> QED
      <3>1. q.gives[a] = Sets(f, w)
        BY <1>1, <1>2, <2>1, Zenon
      <3>2. FieldsOk(Sets(f, w))
        BY <2>2, OneFieldOk
      <3>3. f \in DOMAIN Sets(f, w)
        BY FieldSet, Zenon
      <3> QED
        BY <3>1, <3>2, <3>3, Zenon
  <1> QED
    BY <1>1, <1>2 DEF Sensible, Settles

LEMMA OptionalFacts ==
  ASSUME NEW f, NEW default, NEW values,
         FieldOk(f, default), \A v \in values : FieldOk(f, v)
  PROVE  /\ Sensible(Optional(f, default, values)) /\ Settles(Optional(f, default, values), f)
         /\ Sensible(AlwaysAsk(f, default, values)) /\ Settles(AlwaysAsk(f, default, values), f)
  <1>1. LET q == Optional(f, default, values)
        IN q.gives = WithDefault(f, default, values) /\ q.usual = Enter /\ q.skip = f
    BY DEF Optional, Question
  <1>2. LET q == AlwaysAsk(f, default, values)
        IN q.gives = WithDefault(f, default, values) /\ q.usual = Enter /\ q.skip = Always
    BY DEF AlwaysAsk, Question
  <1> QED
    BY <1>1, <1>2, DefaultFacts

LEMMA YesNoFacts ==
  ASSUME NEW name, NEW skip, NEW yes, NEW no, NEW enter,
         FieldsOk(yes), FieldsOk(no), FieldsOk(enter)
  PROVE  /\ Sensible(YesNo(name, skip, yes, no, enter))
         /\ \A f : skip \in {Always, f} /\ f \in DOMAIN yes \cap DOMAIN no \cap DOMAIN enter
                     => Settles(YesNo(name, skip, yes, no, enter), f)
  <1> DEFINE q == YesNo(name, skip, yes, no, enter)
  <1>1. /\ q.usual = Enter /\ q.skip = skip
        /\ DOMAIN q.gives = {<<"yes">>, <<"no">>, Enter}
        /\ \A a \in DOMAIN q.gives :
             q.gives[a] = IF a = <<"yes">> THEN yes ELSE IF a = <<"no">> THEN no ELSE enter
    BY DEF YesNo, Question
  <1>2. Enter \in DOMAIN q.gives /\ \A a \in DOMAIN q.gives : q.gives[a] \in {yes, no, enter}
    <2> HIDE DEF q
    <2>1. ASSUME NEW a \in DOMAIN q.gives PROVE q.gives[a] \in {yes, no, enter}
      <3>1. q.gives[a] = IF a = <<"yes">> THEN yes ELSE IF a = <<"no">> THEN no ELSE enter
        BY <1>1
      <3> QED
        BY <3>1, Zenon
    <2>2. Enter \in DOMAIN q.gives
      BY <1>1
    <2> QED
      BY <2>1, <2>2
  <1> HIDE DEF q
  <1>3. Sensible(q)
    BY <1>1, <1>2 DEF Sensible
  <1>4. \A f : skip \in {Always, f} /\ f \in DOMAIN yes \cap DOMAIN no \cap DOMAIN enter
                => Settles(q, f)
    BY <1>1, <1>2 DEF Settles
  <1> USE DEF q
  <1> QED
    BY <1>3, <1>4, Zenon

LEMMA SizedFacts ==
  ASSUME NEW f, Ordinary(f), NEW skip \in {Always, f}, NEW default, NEW units,
         NEW answers, Enter \in answers,
         NEW q, q = Sized(f, skip, default, units, answers)
  PROVE  Sensible(q) /\ Settles(q, f)
  <1>1. /\ q.usual = Enter /\ q.skip = skip /\ DOMAIN q.gives = answers
        /\ \A a \in answers :
             q.gives[a] = IF a = Enter THEN Sets(f, default)
                          ELSE IF Scale(units, a[2]) = 0 THEN Broken
                          ELSE Sets(f, a[1] * Scale(units, a[2]))
    BY Zenon DEF Sized, Question
  <1>2. \A v : FieldsOk(Sets(f, v)) /\ f \in DOMAIN Sets(f, v)
    <2>2. ASSUME NEW v PROVE FieldsOk(Sets(f, v)) /\ f \in DOMAIN Sets(f, v)
      <3>1. FieldOk(f, v)
        BY PlainOk
      <3>2. FieldsOk(Sets(f, v))
        BY <3>1, OneFieldOk
      <3>3. f \in DOMAIN Sets(f, v)
        BY FieldSet, Zenon
      <3> QED
        BY <3>2, <3>3, Zenon
    <2> QED
      BY <2>2, Zenon
  <1>3. ASSUME NEW a \in answers
        PROVE  q.gives[a] = Broken \/ \E v : q.gives[a] = Sets(f, v)
    BY <1>1, Zenon
  <1>4. ASSUME NEW a \in answers
        PROVE  q.gives[a] = Broken \/ (FieldsOk(q.gives[a]) /\ f \in DOMAIN q.gives[a])
    BY <1>2, <1>3, Zenon
  <1> QED
    BY <1>1, <1>4, Zenon DEF Sensible, Settles

\* The questions of a part of the dialogue.
AskedIn(s) == {s[i] : i \in 1 .. Len(s)}

LEMMA Joined ==
  ASSUME NEW s, NEW t, s \in Seq(AskedIn(s)), t \in Seq(AskedIn(t))
  PROVE  s \o t \in Seq(AskedIn(s \o t)) /\ AskedIn(s \o t) = AskedIn(s) \cup AskedIn(t)
  <1>1. /\ Len(s \o t) = Len(s) + Len(t) /\ Len(s) \in Nat /\ Len(t) \in Nat
        /\ \A i \in 1 .. Len(s) : (s \o t)[i] = s[i]
        /\ \A i \in 1 .. Len(t) : (s \o t)[Len(s) + i] = t[i]
        /\ \A i \in 1 .. Len(s) + Len(t) :
             (s \o t)[i] = IF i <= Len(s) THEN s[i] ELSE t[i - Len(s)]
    OBVIOUS
  <1>2. AskedIn(s) \cup AskedIn(t) \subseteq AskedIn(s \o t)
    <2>1. \A i \in 1 .. Len(s) : i \in 1 .. Len(s \o t)
      BY <1>1
    <2>2. \A i \in 1 .. Len(t) : Len(s) + i \in 1 .. Len(s \o t)
      BY <1>1
    <2>3. AskedIn(s) \subseteq AskedIn(s \o t)
      BY <1>1, <2>1 DEF AskedIn
    <2>4. AskedIn(t) \subseteq AskedIn(s \o t)
      <3>1. AskedIn(s \o t) = {(s \o t)[i] : i \in 1 .. Len(s \o t)}
        BY DEF AskedIn
      <3> SUFFICES ASSUME NEW i \in 1 .. Len(t) PROVE t[i] \in AskedIn(s \o t)
        BY DEF AskedIn
      <3>2. (s \o t)[Len(s) + i] = t[i] /\ Len(s) + i \in 1 .. Len(s \o t)
        BY <1>1, <2>2
      <3> QED
        BY <3>1, <3>2
    <2> QED
      BY <2>3, <2>4
  <1>3. AskedIn(s \o t) \subseteq AskedIn(s) \cup AskedIn(t)
    <2> SUFFICES ASSUME NEW i \in 1 .. Len(s \o t) PROVE (s \o t)[i] \in AskedIn(s) \cup AskedIn(t)
      BY DEF AskedIn
    <2>1. CASE i <= Len(s)
      BY <1>1, <2>1 DEF AskedIn
    <2>2. CASE i > Len(s)
      <3>1. i - Len(s) \in 1 .. Len(t)
        BY <1>1, <2>2
      <3>2. (s \o t)[i] = t[i - Len(s)]
        BY <1>1, <2>2
      <3> QED
        BY <3>1, <3>2 DEF AskedIn
    <2> QED
      BY <1>1, <2>1, <2>2
  <1>4. s \o t \in Seq(AskedIn(s) \cup AskedIn(t))
    <2>1. s \in Seq(AskedIn(s) \cup AskedIn(t)) /\ t \in Seq(AskedIn(s) \cup AskedIn(t))
      OBVIOUS
    <2> QED
      BY <2>1
  <1> QED
    BY <1>2, <1>3, <1>4

LEMMA PlainQuestion ==
  ASSUME NEW f, Ordinary(f), NEW q, NEW default, NEW values,
         q = Optional(f, default, values) \/ q = AlwaysAsk(f, default, values)
  PROVE  Sensible(q) /\ Settles(q, f)
  <1>1. FieldOk(f, default) /\ \A v \in values : FieldOk(f, v)
    BY PlainOk
  <1> QED
    BY <1>1, OptionalFacts

LEMMA ServerAsks ==
  LET s == ServerQuestions
  IN /\ s \in Seq(AskedIn(s)) /\ Len(s) = 6 /\ \A i \in 1 .. 6 : Sensible(s[i])
     /\ Settles(s[1], "version") /\ Settles(s[2], "ram") /\ Settles(s[3], "cpu")
     /\ Settles(s[4], "diskType") /\ Settles(s[5], "dbType") /\ Settles(s[6], "replica")
  <1> DEFINE s == ServerQuestions
  <1>1. s \in Seq(AskedIn(s)) /\ Len(s) = 6
    <2> DEFINE S == {s[1], s[2], s[3], s[4], s[5], s[6]}
    <2>1. Len(s) = 6
      BY DEF ServerQuestions
    <2>2. s \in Seq(S)
      BY DEF ServerQuestions
    <2>3. S \subseteq AskedIn(s)
      BY <2>1 DEF AskedIn
    <2> HIDE DEF S
    <2> QED
      BY <2>1, <2>2, <2>3
  <1>2. Sensible(s[1]) /\ Settles(s[1], "version")
    <2>1. s[1] = Required("version", <<16>>, {<<9>>, <<10>>, <<12>>, <<13>>, <<16>>, <<99>>})
      BY DEF ServerQuestions
    <2>2. \A a \in {<<9>>, <<10>>, <<12>>, <<13>>, <<16>>, <<99>>} : FieldOk("version", a[1])
      BY DEF FieldOk, Always
    <2> QED
      BY <2>1, <2>2, RequiredFacts
  <1>3. Sensible(s[2]) /\ Settles(s[2], "ram")
    <2> DEFINE rams == {<<256, "MB">>, <<8, "G">>, <<8, "GB">>, <<32, "GB">>, <<1, "TB">>,
                        <<64, "TB">>}
    <2>1. s[2] = Question("ram", Always, <<8, "GB">>, [a \in rams |-> Sets("ram", a)])
      BY DEF ServerQuestions
    <2>2. \A a \in rams : FieldOk("ram", a)
      BY DEF FieldOk, Always, RamOk
    <2>3. \A a \in rams : FieldsOk(Sets("ram", a)) /\ "ram" \in DOMAIN Sets("ram", a)
      BY <2>2, GivesWell, Zenon
    <2>4. <<8, "GB">> \in rams
      OBVIOUS
    <2>5. PICK usual, gives : usual = <<8, "GB">> /\ gives = [a \in rams |-> Sets("ram", a)]
      OBVIOUS
    <2>6. usual \in rams /\ DOMAIN gives = rams /\ \A a \in rams : gives[a] = Sets("ram", a)
      BY <2>4, <2>5
    <2>7. s[2] = Question("ram", Always, usual, gives)
      BY <2>1, <2>5
    <2> HIDE DEF rams, s
    <2>8. PICK q : q = Question("ram", Always, usual, gives)
      OBVIOUS
    <2>9. q.usual = usual /\ q.skip = Always /\ q.gives = gives
      BY <2>8 DEF Question
    <2>10. Sensible(q) /\ Settles(q, "ram")
      BY <2>3, <2>6, <2>9, Zenon DEF Sensible, Settles
    <2> QED
      BY <2>7, <2>8, <2>10
  <1>4. Sensible(s[3]) /\ Settles(s[3], "cpu")
    <2>1. s[3] = Required("cpu", <<4>>, {<<1>>, <<4>>})
      BY DEF ServerQuestions
    <2>2. \A a : FieldOk("cpu", a)
      BY PlainOk DEF Ordinary, Always
    <2> QED
      BY <2>1, <2>2, RequiredFacts
  <1>5. Sensible(s[4]) /\ Settles(s[4], "diskType")
    <2>1. s[4] = Required("diskType", <<"SSD">>, {<<"SSD">>, <<"HDD">>, <<"SAN">>})
      BY DEF ServerQuestions
    <2>2. \A a : FieldOk("diskType", a)
      BY PlainOk DEF Ordinary, Always
    <2> QED
      BY <2>1, <2>2, RequiredFacts
  <1>6. Sensible(s[5]) /\ Settles(s[5], "dbType")
    <2> DEFINE kinds == {<<"web">>, <<"oltp">>, <<"warehouse">>, <<"desktop">>, <<"mixed">>}
    <2>1. s[5] = Required("dbType", <<"web">>, kinds)
      BY DEF ServerQuestions
    <2>2. \A a : FieldOk("dbType", a)
      BY PlainOk DEF Ordinary, Always
    <2> QED
      BY <2>1, <2>2, RequiredFacts
  <1>7. Sensible(s[6]) /\ Settles(s[6], "replica")
    <2>1. s[6] = Required("replica", <<0>>, {<<0>>, <<2>>, <<20>>, <<300000>>})
      BY DEF ServerQuestions
    <2>2. \A a : FieldOk("replica", a)
      BY PlainOk DEF Ordinary, Always
    <2> QED
      BY <2>1, <2>2, RequiredFacts
  <1>8. \A i \in 1 .. 6 : Sensible(s[i])
    <2>1. \A i \in 1 .. 6 : i \in {1, 2, 3, 4, 5, 6}
      OBVIOUS
    <2> HIDE DEF s
    <2> QED
      BY <1>2, <1>3, <1>4, <1>5, <1>6, <1>7, <2>1
  <1> QED
    BY <1>1, <1>2, <1>3, <1>4, <1>5, <1>6, <1>7, <1>8

LEMMA ConnectionAsks ==
  LET s == ConnectionQuestions
  IN /\ s \in Seq(AskedIn(s)) /\ Len(s) = 3 /\ \A i \in 1 .. 3 : Sensible(s[i])
     /\ Settles(s[1], "listen_addr") /\ Settles(s[2], "port")
     /\ Settles(s[3], "superuser_reserved_connections")
  <1> DEFINE s == ConnectionQuestions
  <1>1. s \in Seq(AskedIn(s)) /\ Len(s) = 3
    <2> DEFINE S == {s[1], s[2], s[3]}
    <2>1. Len(s) = 3
      BY DEF ConnectionQuestions
    <2>2. s \in Seq(S)
      BY DEF ConnectionQuestions
    <2>3. S \subseteq AskedIn(s)
      BY <2>1 DEF AskedIn
    <2> HIDE DEF S
    <2> QED
      BY <2>1, <2>2, <2>3
  <1>6. Ordinary("listen_addr") /\ Ordinary("superuser_reserved_connections")
    BY DEF Ordinary, Always
  <1>2. Sensible(s[1]) /\ Settles(s[1], "listen_addr")
    <2>1. s[1] = Optional("listen_addr", "*", {"*", "own", "foreign"})
      BY DEF ConnectionQuestions
    <2> QED
      BY <2>1, <1>6, PlainQuestion
  <1>3. Sensible(s[2]) /\ Settles(s[2], "port")
    <2>1. s[2] = Optional("port", 5432, {1, 65535})
      BY DEF ConnectionQuestions
    <2>2. FieldOk("port", 5432) /\ \A v \in {1, 65535} : FieldOk("port", v)
      BY DEF FieldOk, Always
    <2> QED
      BY <2>1, <2>2, OptionalFacts
  <1>4. Sensible(s[3]) /\ Settles(s[3], "superuser_reserved_connections")
    <2>1. s[3] = Optional("superuser_reserved_connections", 3, {3, 10, 20})
      BY DEF ConnectionQuestions
    <2> QED
      BY <2>1, <1>6, PlainQuestion
  <1>5. \A i \in 1 .. 3 : Sensible(s[i])
    <2>1. \A i \in 1 .. 3 : i \in {1, 2, 3}
      OBVIOUS
    <2> HIDE DEF s
    <2> QED
      BY <1>2, <1>3, <1>4, <2>1
  <1> QED
    BY <1>1, <1>2, <1>3, <1>4, <1>5

LEMMA PlainFields ==
  ASSUME NEW d, \A f \in DOMAIN d : Ordinary(f)
  PROVE  FieldsOk(d)
  BY PlainOk, Zenon DEF FieldsOk

LEMMA VacuumAsks ==
  LET s == VacuumQuestions
  IN /\ s \in Seq(AskedIn(s)) /\ Len(s) = 5 /\ \A i \in 1 .. 5 : Sensible(s[i])
     /\ Settles(s[2], "autovacuum_naptime") /\ Settles(s[3], "autovacuum_vacuum_cost_limit")
     /\ Settles(s[4], "autovacuum_vacuum_cost_delay") /\ Settles(s[5], "autovacuum_max_workers")
  <1> DEFINE s == VacuumQuestions
             defaults ==
               [autovacuum_naptime |-> 60, autovacuum_vacuum_cost_limit |-> -1,
                autovacuum_vacuum_cost_delay |-> 2, autovacuum_max_workers |-> 3]
  <1>1. s \in Seq(AskedIn(s)) /\ Len(s) = 5
    <2> DEFINE S == {s[1], s[2], s[3], s[4], s[5]}
    <2>1. Len(s) = 5 /\ s \in Seq(S)
      BY DEF VacuumQuestions
    <2>2. S \subseteq AskedIn(s)
      BY <2>1 DEF AskedIn
    <2> HIDE DEF S
    <2> QED
      BY <2>1, <2>2
  <1>2. \A f \in {"autovacuum_naptime", "autovacuum_vacuum_cost_limit",
                "autovacuum_vacuum_cost_delay", "autovacuum_max_workers"} : Ordinary(f)
    BY DEF Ordinary, Always
  <1>3. Sensible(s[1])
    <2>1. s[1] = YesNo("autovacuum", Always, NoField, defaults, defaults)
      BY DEF VacuumQuestions
    <2>2. FieldsOk(defaults)
      <3>1. \A f \in DOMAIN defaults : Ordinary(f)
        BY <1>2
      <3> HIDE DEF defaults
      <3> QED
        BY <3>1, PlainFields
    <2> HIDE DEF defaults
    <2> QED
      BY <2>1, <2>2, NoFieldOk, YesNoFacts
  <1>4. Sensible(s[2]) /\ Settles(s[2], "autovacuum_naptime")
    <2>1. s[2] = Optional("autovacuum_naptime", 60, {1, 2147483})
      BY DEF VacuumQuestions
    <2> QED
      BY <1>2, <2>1, PlainQuestion
  <1>5. Sensible(s[3]) /\ Settles(s[3], "autovacuum_vacuum_cost_limit")
    <2>1. s[3] = Optional("autovacuum_vacuum_cost_limit", -1, {10000})
      BY DEF VacuumQuestions
    <2> QED
      BY <1>2, <2>1, PlainQuestion
  <1>6. Sensible(s[4]) /\ Settles(s[4], "autovacuum_vacuum_cost_delay")
    <2>1. s[4] = Optional("autovacuum_vacuum_cost_delay", 2, {-1, 100})
      BY DEF VacuumQuestions
    <2> QED
      BY <1>2, <2>1, PlainQuestion
  <1>7. Sensible(s[5]) /\ Settles(s[5], "autovacuum_max_workers")
    <2>1. s[5] = Optional("autovacuum_max_workers", 3, {1, 262143})
      BY DEF VacuumQuestions
    <2> QED
      BY <1>2, <2>1, PlainQuestion
  <1>8. \A i \in 1 .. 5 : Sensible(s[i])
    <2>1. \A i \in 1 .. 5 : i \in {1, 2, 3, 4, 5}
      OBVIOUS
    <2> HIDE DEF s
    <2> QED
      BY <1>3, <1>4, <1>5, <1>6, <1>7, <2>1
  <1> QED
    BY <1>1, <1>3, <1>4, <1>5, <1>6, <1>7, <1>8

LEMMA SessionAsks ==
  LET s == SessionQuestions
  IN /\ s \in Seq(AskedIn(s)) /\ Len(s) = 3 /\ \A i \in 1 .. 3 : Sensible(s[i])
     /\ Settles(s[1], "jit") /\ Settles(s[2], "statement_timeout")
     /\ Settles(s[3], "idle_in_transaction_session_timeout")
  <1> DEFINE s == SessionQuestions
  <1>1. s \in Seq(AskedIn(s)) /\ Len(s) = 3
    <2> DEFINE S == {s[1], s[2], s[3]}
    <2>1. Len(s) = 3 /\ s \in Seq(S)
      BY DEF SessionQuestions
    <2>2. S \subseteq AskedIn(s)
      BY <2>1 DEF AskedIn
    <2> HIDE DEF S
    <2> QED
      BY <2>1, <2>2
  <1>2. \A f \in {"jit", "statement_timeout", "idle_in_transaction_session_timeout"} : Ordinary(f)
    BY DEF Ordinary, Always
  <1>3. Sensible(s[1]) /\ Settles(s[1], "jit")
    <2>1. s[1] = AlwaysAsk("jit", "off", {"on"})
      BY DEF SessionQuestions
    <2> QED
      BY <1>2, <2>1, PlainQuestion
  <1>4. Sensible(s[2]) /\ Settles(s[2], "statement_timeout")
    <2>1. s[2] = AlwaysAsk("statement_timeout", 60000, {0})
      BY DEF SessionQuestions
    <2> QED
      BY <1>2, <2>1, PlainQuestion
  <1>5. Sensible(s[3]) /\ Settles(s[3], "idle_in_transaction_session_timeout")
    <2>1. s[3] = AlwaysAsk("idle_in_transaction_session_timeout", 1800000, {0})
      BY DEF SessionQuestions
    <2> QED
      BY <1>2, <2>1, PlainQuestion
  <1>6. \A i \in 1 .. 3 : Sensible(s[i])
    <2>1. \A i \in 1 .. 3 : i \in {1, 2, 3}
      OBVIOUS
    <2> HIDE DEF s
    <2> QED
      BY <1>3, <1>4, <1>5, <2>1
  <1> QED
    BY <1>1, <1>3, <1>4, <1>5, <1>6

LEMMA CommitAsks ==
  LET s == CommitQuestions
  IN /\ s \in Seq(AskedIn(s)) /\ Len(s) = 3 /\ \A i \in 1 .. 3 : Sensible(s[i])
     /\ Settles(s[1], "synchronous_commit") /\ Settles(s[2], "synchronous_standby_names")
     /\ Settles(s[3], "temp_file_limit")
  <1> DEFINE s == CommitQuestions
  <1>1. s \in Seq(AskedIn(s)) /\ Len(s) = 3
    <2> DEFINE S == {s[1], s[2], s[3]}
    <2>1. Len(s) = 3 /\ s \in Seq(S)
      BY DEF CommitQuestions
    <2>2. S \subseteq AskedIn(s)
      BY <2>1 DEF AskedIn
    <2> HIDE DEF S
    <2> QED
      BY <2>1, <2>2
  <1>2. \A f \in {"synchronous_commit", "synchronous_standby_names", "temp_file_limit"} : Ordinary(f)
    BY DEF Ordinary, Always
  <1>3. Sensible(s[1]) /\ Settles(s[1], "synchronous_commit")
    <2> DEFINE commit(c) == Sets("synchronous_commit", c)
    <2>1. s[1] = YesNo("synchronous_commit", "synchronous_commit",
                     commit("ON"), commit("OFF"), commit("OFF"))
      BY DEF CommitQuestions
    <2>2. \A c : FieldsOk(commit(c)) /\ "synchronous_commit" \in DOMAIN commit(c)
      BY <1>2, GivesOrdinary, Zenon
    <2> HIDE DEF commit
    <2> QED
      BY <2>1, <2>2, YesNoFacts
  <1>4. Sensible(s[2]) /\ Settles(s[2], "synchronous_standby_names")
    <2>1. s[2] = AlwaysAsk("synchronous_standby_names", "*", {"*", "ANY(s1, s2)"})
      BY DEF CommitQuestions
    <2> QED
      BY <1>2, <2>1, PlainQuestion
  <1>5. Sensible(s[3]) /\ Settles(s[3], "temp_file_limit")
    <2>1. s[3] = AlwaysAsk("temp_file_limit", "1GB", {"2GB", "2TB"})
      BY DEF CommitQuestions
    <2> QED
      BY <1>2, <2>1, PlainQuestion
  <1>6. \A i \in 1 .. 3 : Sensible(s[i])
    <2>1. \A i \in 1 .. 3 : i \in {1, 2, 3}
      OBVIOUS
    <2> HIDE DEF s
    <2> QED
      BY <1>3, <1>4, <1>5, <2>1
  <1> QED
    BY <1>1, <1>3, <1>4, <1>5, <1>6

LEMMA WalAsks ==
  LET s == WalQuestions
  IN /\ s \in Seq(AskedIn(s)) /\ Len(s) = 5 /\ \A i \in 1 .. 5 : Sensible(s[i])
     /\ Settles(s[1], "max_wal_size") /\ Settles(s[2], "wal_compression")
     /\ Settles(s[5], "wal_level")
  <1> DEFINE s == WalQuestions
  <1>1. s \in Seq(AskedIn(s)) /\ Len(s) = 5
    <2> DEFINE S == {s[1], s[2], s[3], s[4], s[5]}
    <2>1. Len(s) = 5 /\ s \in Seq(S)
      BY DEF WalQuestions
    <2>2. S \subseteq AskedIn(s)
      BY <2>1 DEF AskedIn
    <2> HIDE DEF S
    <2> QED
      BY <2>1, <2>2
  <1>2. \A f \in {"max_wal_size", "wal_compression", "wal_level"} : Ordinary(f)
    BY DEF Ordinary, Always
  <1>3. Sensible(s[1]) /\ Settles(s[1], "max_wal_size")
    <2>1. PICK skip, units, answers :
            /\ skip = Always /\ units = <<"MB", "GB">>
            /\ answers = {Enter, <<100, "MB">>, <<2, "GB">>}
      OBVIOUS
    <2>2. PICK q : q = Sized("max_wal_size", skip, 1024, units, answers)
      OBVIOUS
    <2>3. s[1] = Sized("max_wal_size", Always, 1024, <<"MB", "GB">>,
                      {Enter, <<100, "MB">>, <<2, "GB">>})
      BY DEF WalQuestions
    <2>4. s[1] = q
      BY <2>1, <2>2, <2>3, ZenonT(60)
    <2>5. /\ Ordinary("max_wal_size") /\ Enter \in answers
          /\ skip \in {Always, "max_wal_size"}
      BY <1>2, <2>1
    <2>6. Sensible(q) /\ Settles(q, "max_wal_size")
      BY <2>2, <2>5, SizedFacts
    <2> HIDE DEF s
    <2> QED
      BY <2>4, <2>6, Zenon
  <1>4. Sensible(s[2]) /\ Settles(s[2], "wal_compression")
    <2> DEFINE sets(c) == Sets("wal_compression", c)
    <2>1. s[2] = YesNo("wal_compression", Always, sets("on"), sets("off"), sets("off"))
      BY DEF WalQuestions
    <2>2. \A c : FieldsOk(sets(c)) /\ "wal_compression" \in DOMAIN sets(c)
      BY <1>2, GivesOrdinary, Zenon
    <2> HIDE DEF sets
    <2> QED
      BY <2>1, <2>2, NoFieldOk, YesNoFacts
  <1>5. Sensible(s[3])
    <2> DEFINE sets(c) == Sets("wal_level", c)
    <2>1. s[3] = YesNo("logical", "wal_level", sets("logical"), NoField, NoField)
      BY DEF WalQuestions
    <2>2. \A c : FieldsOk(sets(c)) /\ "wal_level" \in DOMAIN sets(c)
      BY <1>2, GivesOrdinary, Zenon
    <2> HIDE DEF sets
    <2> QED
      BY <2>1, <2>2, NoFieldOk, YesNoFacts
  <1>6. Sensible(s[4])
    <2> DEFINE sets(c) == Sets("wal_level", c)
    <2>1. s[4] = YesNo("test", "wal_level", NoField, sets("minimal"), sets("minimal"))
      BY DEF WalQuestions
    <2>2. \A c : FieldsOk(sets(c)) /\ "wal_level" \in DOMAIN sets(c)
      BY <1>2, GivesOrdinary, Zenon
    <2> HIDE DEF sets
    <2> QED
      BY <2>1, <2>2, NoFieldOk, YesNoFacts
  <1>7. Sensible(s[5]) /\ Settles(s[5], "wal_level")
    <2> DEFINE sets(c) == Sets("wal_level", c)
    <2>1. s[5] = YesNo("archival", "wal_level", sets("replica"), sets("minimal"), sets("minimal"))
      BY DEF WalQuestions
    <2>2. \A c : FieldsOk(sets(c)) /\ "wal_level" \in DOMAIN sets(c)
      BY <1>2, GivesOrdinary, Zenon
    <2> HIDE DEF sets
    <2> QED
      BY <2>1, <2>2, NoFieldOk, YesNoFacts
  <1>8. \A i \in 1 .. 5 : Sensible(s[i])
    <2>1. \A i \in 1 .. 5 : i \in {1, 2, 3, 4, 5}
      OBVIOUS
    <2> HIDE DEF s
    <2> QED
      BY <1>3, <1>4, <1>5, <1>6, <1>7, <2>1
  <1> QED
    BY <1>1, <1>3, <1>4, <1>5, <1>6, <1>7, <1>8

LEMMA SecurityAsks ==
  LET s == SecurityQuestions
  IN /\ s \in Seq(AskedIn(s)) /\ Len(s) = 8 /\ \A i \in 1 .. 8 : Sensible(s[i])
     /\ Settles(s[2], "log_connections") /\ Settles(s[3], "log_disconnections")
     /\ Settles(s[4], "log_statement") /\ Settles(s[5], "ssl")
     /\ Settles(s[6], "log_line_prefix") /\ Settles(s[7], "logging_collector")
     /\ Settles(s[8], "log_destination")
  <1> DEFINE s == SecurityQuestions
             prefix == "%m [%p]: [%l-1] db=%d,user=%u,app=%a,client=%h"
             recommended ==
               [log_connections |-> "on", log_disconnections |-> "on",
                log_statement |-> "all", ssl |-> "on", log_line_prefix |-> prefix,
                logging_collector |-> "on", log_destination |-> "stderr"]
  <1>1. s \in Seq(AskedIn(s)) /\ Len(s) = 8
    <2> DEFINE S == {s[1], s[2], s[3], s[4], s[5], s[6], s[7], s[8]}
    <2>1. Len(s) = 8 /\ s \in Seq(S)
      BY DEF SecurityQuestions
    <2>2. S \subseteq AskedIn(s)
      BY <2>1 DEF AskedIn
    <2> HIDE DEF S
    <2> QED
      BY <2>1, <2>2
  <1>2. \A f \in {"log_connections", "log_disconnections", "log_statement", "ssl",
                "log_line_prefix", "logging_collector", "log_destination"} : Ordinary(f)
    BY DEF Ordinary, Always
  <1>3. Sensible(s[1])
    <2>1. s[1] = YesNo("security", Always, recommended, NoField, recommended)
      BY DEF SecurityQuestions
    <2>2. FieldsOk(recommended)
      <3>1. \A f \in DOMAIN recommended : Ordinary(f)
        BY <1>2
      <3> HIDE DEF recommended
      <3> QED
        BY <3>1, PlainFields
    <2> HIDE DEF recommended
    <2> QED
      BY <2>1, <2>2, NoFieldOk, YesNoFacts
  <1>4. Sensible(s[2]) /\ Settles(s[2], "log_connections")
    <2>1. s[2] = Optional("log_connections", "on", {"off"})
      BY DEF SecurityQuestions
    <2> QED
      BY <1>2, <2>1, PlainQuestion
  <1>5. Sensible(s[3]) /\ Settles(s[3], "log_disconnections")
    <2>1. s[3] = Optional("log_disconnections", "on", {"off"})
      BY DEF SecurityQuestions
    <2> QED
      BY <1>2, <2>1, PlainQuestion
  <1>6. Sensible(s[4]) /\ Settles(s[4], "log_statement")
    <2>1. s[4] = Optional("log_statement", "all", {"none"})
      BY DEF SecurityQuestions
    <2> QED
      BY <1>2, <2>1, PlainQuestion
  <1>7. Sensible(s[5]) /\ Settles(s[5], "ssl")
    <2>1. s[5] = Optional("ssl", "on", {"off"})
      BY DEF SecurityQuestions
    <2> QED
      BY <1>2, <2>1, PlainQuestion
  <1>8. Sensible(s[6]) /\ Settles(s[6], "log_line_prefix")
    <2>1. s[6] = Optional("log_line_prefix", prefix, {"%m [%p]", "quoted"})
      BY DEF SecurityQuestions
    <2> QED
      BY <1>2, <2>1, PlainQuestion
  <1>9. Sensible(s[7]) /\ Settles(s[7], "logging_collector")
    <2>1. s[7] = Optional("logging_collector", "on", {"off"})
      BY DEF SecurityQuestions
    <2> QED
      BY <1>2, <2>1, PlainQuestion
  <1>10. Sensible(s[8]) /\ Settles(s[8], "log_destination")
    <2>1. s[8] = Optional("log_destination", "stderr", {"csv", "syslog"})
      BY DEF SecurityQuestions
    <2> QED
      BY <1>2, <2>1, PlainQuestion
  <1>11. \A i \in 1 .. 8 : Sensible(s[i])
    <2>1. \A i \in 1 .. 8 : i \in {1, 2, 3, 4, 5, 6, 7, 8}
      OBVIOUS
    <2> HIDE DEF s
    <2> QED
      BY <1>3, <1>4, <1>5, <1>6, <1>7, <1>8, <1>9, <1>10, <2>1
  <1> QED
    BY <1>1, <1>3, <1>4, <1>5, <1>6, <1>7, <1>8, <1>9, <1>10, <1>11

LEMMA LoggingAsks ==
  LET s == LoggingQuestions
  IN /\ s \in Seq(AskedIn(s)) /\ Len(s) = 6 /\ \A i \in 1 .. 6 : Sensible(s[i])
     /\ Settles(s[2], "log_checkpoints") /\ Settles(s[3], "log_lock_waits")
     /\ Settles(s[4], "log_temp_files") /\ Settles(s[5], "log_autovacuum_min_duration")
     /\ Settles(s[6], "log_min_duration_statement")
  <1> DEFINE s == LoggingQuestions
             recommended ==
               [log_checkpoints |-> "on", log_lock_waits |-> "on",
                log_temp_files |-> 1, log_autovacuum_min_duration |-> 600000,
                log_min_duration_statement |-> 1000]
  <1>1. s \in Seq(AskedIn(s)) /\ Len(s) = 6
    <2> DEFINE S == {s[1], s[2], s[3], s[4], s[5], s[6]}
    <2>1. Len(s) = 6 /\ s \in Seq(S)
      BY DEF LoggingQuestions
    <2>2. S \subseteq AskedIn(s)
      BY <2>1 DEF AskedIn
    <2> HIDE DEF S
    <2> QED
      BY <2>1, <2>2
  <1>2. \A f \in {"log_checkpoints", "log_lock_waits", "log_temp_files",
                "log_autovacuum_min_duration", "log_min_duration_statement"} : Ordinary(f)
    BY DEF Ordinary, Always
  <1>3. Sensible(s[1])
    <2>1. s[1] = YesNo("logging", Always, recommended, NoField, recommended)
      BY DEF LoggingQuestions
    <2>2. FieldsOk(recommended)
      <3>1. \A f \in DOMAIN recommended : Ordinary(f)
        BY <1>2
      <3> HIDE DEF recommended
      <3> QED
        BY <3>1, PlainFields
    <2> HIDE DEF recommended
    <2> QED
      BY <2>1, <2>2, NoFieldOk, YesNoFacts
  <1>4. Sensible(s[2]) /\ Settles(s[2], "log_checkpoints")
    <2>1. s[2] = Optional("log_checkpoints", "on", {"off"})
      BY DEF LoggingQuestions
    <2> QED
      BY <1>2, <2>1, PlainQuestion
  <1>5. Sensible(s[3]) /\ Settles(s[3], "log_lock_waits")
    <2>1. s[3] = Optional("log_lock_waits", "on", {"off"})
      BY DEF LoggingQuestions
    <2> QED
      BY <1>2, <2>1, PlainQuestion
  <1>6. Sensible(s[4]) /\ Settles(s[4], "log_temp_files")
    <2>1. PICK units, answers :
            /\ units = <<"KB", "MB">>
            /\ answers = {Enter, <<5, "KB">>, <<1, "MB">>, <<5, "LB">>}
      OBVIOUS
    <2>2. PICK q : q = Sized("log_temp_files", "log_temp_files", 1, units, answers)
      OBVIOUS
    <2>3. s[4] = q
      BY <2>1, <2>2 DEF LoggingQuestions
    <2>4. Ordinary("log_temp_files") /\ Enter \in answers
      BY <1>2, <2>1
    <2>5. Sensible(q) /\ Settles(q, "log_temp_files")
      BY <2>2, <2>4, SizedFacts
    <2> QED
      BY <2>3, <2>5
  <1>7. Sensible(s[5]) /\ Settles(s[5], "log_autovacuum_min_duration")
    <2>1. s[5] = Optional("log_autovacuum_min_duration", 600000, {1})
      BY DEF LoggingQuestions
    <2> QED
      BY <1>2, <2>1, PlainQuestion
  <1>8. Sensible(s[6]) /\ Settles(s[6], "log_min_duration_statement")
    <2>1. s[6] = Optional("log_min_duration_statement", 1000, {1})
      BY DEF LoggingQuestions
    <2> QED
      BY <1>2, <2>1, PlainQuestion
  <1>9. \A i \in 1 .. 6 : Sensible(s[i])
    <2>1. \A i \in 1 .. 6 : i \in {1, 2, 3, 4, 5, 6}
      OBVIOUS
    <2> HIDE DEF s
    <2> QED
      BY <1>3, <1>4, <1>5, <1>6, <1>7, <1>8, <2>1
  <1> QED
    BY <1>1, <1>3, <1>4, <1>5, <1>6, <1>7, <1>8, <1>9

\* The fields the file cannot do without.
Needed == Copied \cup {"version", "ram", "cpu", "diskType", "dbType", "replica", "max_wal_size"}

\* A part of the dialogue whose questions are all sensible, and the fields it settles.
Sound(s)   == s \in Seq(AskedIn(s)) /\ \A q \in AskedIn(s) : Sensible(q)
Settled(s) == {f \in Needed : \E q \in AskedIn(s) : Settles(q, f)}

LEMMA JoinedSound ==
  ASSUME NEW s, NEW t, Sound(s), Sound(t)
  PROVE  /\ Sound(s \o t) /\ Len(s \o t) = Len(s) + Len(t)
         /\ Settled(s \o t) = Settled(s) \cup Settled(t)
  <1>1. s \o t \in Seq(AskedIn(s \o t)) /\ AskedIn(s \o t) = AskedIn(s) \cup AskedIn(t)
    BY Joined, Zenon DEF Sound
  <1>2. Len(s \o t) = Len(s) + Len(t)
    BY DEF Sound
  <1>3. Sound(s \o t)
    BY <1>1, Zenon DEF Sound
  <1>4. Settled(s \o t) = Settled(s) \cup Settled(t)
    BY <1>1 DEF Settled
  <1> QED
    BY <1>2, <1>3, <1>4

LEMMA PartSound ==
  ASSUME NEW s, NEW n \in Nat, s \in Seq(AskedIn(s)), Len(s) = n,
         \A i \in 1 .. n : Sensible(s[i])
  PROVE  /\ Sound(s)
         /\ \A i \in 1 .. n : \A f \in Needed : Settles(s[i], f) => f \in Settled(s)
  BY DEF Sound, Settled, AskedIn

LEMMA ServerSound ==
  /\ Sound(ServerQuestions) /\ Len(ServerQuestions) = 6
  /\ {"version", "ram", "cpu", "diskType", "dbType", "replica"} \subseteq Settled(ServerQuestions)
  <1> DEFINE s == ServerQuestions
  <1>1. /\ s \in Seq(AskedIn(s)) /\ Len(s) = 6 /\ \A i \in 1 .. 6 : Sensible(s[i])
        /\ Settles(s[1], "version") /\ Settles(s[2], "ram")
        /\ Settles(s[3], "cpu") /\ Settles(s[4], "diskType")
        /\ Settles(s[5], "dbType") /\ Settles(s[6], "replica")
    BY ServerAsks, Zenon
  <1>2. {"version", "ram", "cpu", "diskType", "dbType", "replica"} \subseteq Needed
    BY DEF Needed, Copied
  <1>3. 6 \in Nat /\ {1, 2, 3, 4, 5, 6} \subseteq 1 .. 6
    OBVIOUS
  <1> HIDE DEF s
  <1>4. /\ Sound(s)
        /\ \A i \in 1 .. 6 : \A f \in Needed : Settles(s[i], f) => f \in Settled(s)
    BY <1>1, <1>3, PartSound
  <1> USE DEF s
  <1> QED
    BY <1>1, <1>2, <1>3, <1>4

LEMMA ConnectionSound ==
  /\ Sound(ConnectionQuestions) /\ Len(ConnectionQuestions) = 3
  /\ {"listen_addr", "port", "superuser_reserved_connections"} \subseteq Settled(ConnectionQuestions)
  <1> DEFINE s == ConnectionQuestions
  <1>1. /\ s \in Seq(AskedIn(s)) /\ Len(s) = 3 /\ \A i \in 1 .. 3 : Sensible(s[i])
        /\ Settles(s[1], "listen_addr") /\ Settles(s[2], "port")
        /\ Settles(s[3], "superuser_reserved_connections")
    BY ConnectionAsks, Zenon
  <1>2. {"listen_addr", "port", "superuser_reserved_connections"} \subseteq Needed
    BY DEF Needed, Copied
  <1>3. 3 \in Nat /\ {1, 2, 3} \subseteq 1 .. 3
    OBVIOUS
  <1> HIDE DEF s
  <1>4. /\ Sound(s)
        /\ \A i \in 1 .. 3 : \A f \in Needed : Settles(s[i], f) => f \in Settled(s)
    BY <1>1, <1>3, PartSound
  <1> USE DEF s
  <1> QED
    BY <1>1, <1>2, <1>3, <1>4

LEMMA WalSound ==
  /\ Sound(WalQuestions) /\ Len(WalQuestions) = 5
  /\ {"max_wal_size", "wal_compression", "wal_level"} \subseteq Settled(WalQuestions)
  <1> DEFINE s == WalQuestions
  <1>1. /\ s \in Seq(AskedIn(s)) /\ Len(s) = 5 /\ \A i \in 1 .. 5 : Sensible(s[i])
        /\ Settles(s[1], "max_wal_size") /\ Settles(s[2], "wal_compression")
        /\ Settles(s[5], "wal_level")
    BY WalAsks, Zenon
  <1>2. {"max_wal_size", "wal_compression", "wal_level"} \subseteq Needed
    BY DEF Needed, Copied
  <1>3. 5 \in Nat /\ {1, 2, 5} \subseteq 1 .. 5
    OBVIOUS
  <1> HIDE DEF s
  <1>4. /\ Sound(s)
        /\ \A i \in 1 .. 5 : \A f \in Needed : Settles(s[i], f) => f \in Settled(s)
    BY <1>1, <1>3, PartSound
  <1> USE DEF s
  <1> QED
    BY <1>1, <1>2, <1>3, <1>4

LEMMA CommitSound ==
  /\ Sound(CommitQuestions) /\ Len(CommitQuestions) = 3
  /\ {"synchronous_commit", "synchronous_standby_names", "temp_file_limit"} \subseteq Settled(CommitQuestions)
  <1> DEFINE s == CommitQuestions
  <1>1. /\ s \in Seq(AskedIn(s)) /\ Len(s) = 3 /\ \A i \in 1 .. 3 : Sensible(s[i])
        /\ Settles(s[1], "synchronous_commit") /\ Settles(s[2], "synchronous_standby_names")
        /\ Settles(s[3], "temp_file_limit")
    BY CommitAsks, Zenon
  <1>2. {"synchronous_commit", "synchronous_standby_names", "temp_file_limit"} \subseteq Needed
    BY DEF Needed, Copied
  <1>3. 3 \in Nat /\ {1, 2, 3} \subseteq 1 .. 3
    OBVIOUS
  <1> HIDE DEF s
  <1>4. /\ Sound(s)
        /\ \A i \in 1 .. 3 : \A f \in Needed : Settles(s[i], f) => f \in Settled(s)
    BY <1>1, <1>3, PartSound
  <1> USE DEF s
  <1> QED
    BY <1>1, <1>2, <1>3, <1>4

LEMMA VacuumSound ==
  /\ Sound(VacuumQuestions) /\ Len(VacuumQuestions) = 5
  /\ {"autovacuum_naptime", "autovacuum_vacuum_cost_limit",
      "autovacuum_vacuum_cost_delay", "autovacuum_max_workers"} \subseteq Settled(VacuumQuestions)
  <1> DEFINE s == VacuumQuestions
  <1>1. /\ s \in Seq(AskedIn(s)) /\ Len(s) = 5 /\ \A i \in 1 .. 5 : Sensible(s[i])
        /\ Settles(s[2], "autovacuum_naptime") /\ Settles(s[3], "autovacuum_vacuum_cost_limit")
        /\ Settles(s[4], "autovacuum_vacuum_cost_delay") /\ Settles(s[5], "autovacuum_max_workers")
    BY VacuumAsks, Zenon
  <1>2. {"autovacuum_naptime", "autovacuum_vacuum_cost_limit",
         "autovacuum_vacuum_cost_delay", "autovacuum_max_workers"} \subseteq Needed
    BY DEF Needed, Copied
  <1>3. 5 \in Nat /\ {2, 3, 4, 5} \subseteq 1 .. 5
    OBVIOUS
  <1> HIDE DEF s
  <1>4. /\ Sound(s)
        /\ \A i \in 1 .. 5 : \A f \in Needed : Settles(s[i], f) => f \in Settled(s)
    BY <1>1, <1>3, PartSound
  <1> USE DEF s
  <1> QED
    BY <1>1, <1>2, <1>3, <1>4

LEMMA SessionSound ==
  /\ Sound(SessionQuestions) /\ Len(SessionQuestions) = 3
  /\ {"statement_timeout", "idle_in_transaction_session_timeout"} \subseteq Settled(SessionQuestions)
  <1> DEFINE s == SessionQuestions
  <1>1. /\ s \in Seq(AskedIn(s)) /\ Len(s) = 3 /\ \A i \in 1 .. 3 : Sensible(s[i])
        /\ Settles(s[2], "statement_timeout") /\ Settles(s[3], "idle_in_transaction_session_timeout")
    BY SessionAsks, Zenon
  <1>2. {"statement_timeout", "idle_in_transaction_session_timeout"} \subseteq Needed
    BY DEF Needed, Copied
  <1>3. 3 \in Nat /\ {2, 3} \subseteq 1 .. 3
    OBVIOUS
  <1> HIDE DEF s
  <1>4. /\ Sound(s)
        /\ \A i \in 1 .. 3 : \A f \in Needed : Settles(s[i], f) => f \in Settled(s)
    BY <1>1, <1>3, PartSound
  <1> USE DEF s
  <1> QED
    BY <1>1, <1>2, <1>3, <1>4

LEMMA SecuritySound ==
  /\ Sound(SecurityQuestions) /\ Len(SecurityQuestions) = 8
  /\ {"log_connections", "log_disconnections", "log_statement", "ssl", "log_line_prefix",
      "logging_collector", "log_destination"} \subseteq Settled(SecurityQuestions)
  <1> DEFINE s == SecurityQuestions
  <1>1. /\ s \in Seq(AskedIn(s)) /\ Len(s) = 8 /\ \A i \in 1 .. 8 : Sensible(s[i])
        /\ Settles(s[2], "log_connections") /\ Settles(s[3], "log_disconnections")
        /\ Settles(s[4], "log_statement") /\ Settles(s[5], "ssl")
        /\ Settles(s[6], "log_line_prefix") /\ Settles(s[7], "logging_collector")
        /\ Settles(s[8], "log_destination")
    BY SecurityAsks, Zenon
  <1>2. {"log_connections", "log_disconnections", "log_statement", "ssl",
         "log_line_prefix", "logging_collector", "log_destination"} \subseteq Needed
    BY DEF Needed, Copied
  <1>3. 8 \in Nat /\ {2, 3, 4, 5, 6, 7, 8} \subseteq 1 .. 8
    OBVIOUS
  <1> HIDE DEF s
  <1>4. /\ Sound(s)
        /\ \A i \in 1 .. 8 : \A f \in Needed : Settles(s[i], f) => f \in Settled(s)
    BY <1>1, <1>3, PartSound
  <1> USE DEF s
  <1> QED
    BY <1>1, <1>2, <1>3, <1>4

LEMMA LoggingSound ==
  /\ Sound(LoggingQuestions) /\ Len(LoggingQuestions) = 6
  /\ {"log_checkpoints", "log_lock_waits", "log_autovacuum_min_duration",
      "log_min_duration_statement"} \subseteq Settled(LoggingQuestions)
  <1> DEFINE s == LoggingQuestions
  <1>1. /\ s \in Seq(AskedIn(s)) /\ Len(s) = 6 /\ \A i \in 1 .. 6 : Sensible(s[i])
        /\ Settles(s[2], "log_checkpoints") /\ Settles(s[3], "log_lock_waits")
        /\ Settles(s[5], "log_autovacuum_min_duration") /\ Settles(s[6], "log_min_duration_statement")
    BY LoggingAsks, Zenon
  <1>2. {"log_checkpoints", "log_lock_waits", "log_autovacuum_min_duration",
         "log_min_duration_statement"} \subseteq Needed
    BY DEF Needed, Copied
  <1>3. 6 \in Nat /\ {2, 3, 5, 6} \subseteq 1 .. 6
    OBVIOUS
  <1> HIDE DEF s
  <1>4. /\ Sound(s)
        /\ \A i \in 1 .. 6 : \A f \in Needed : Settles(s[i], f) => f \in Settled(s)
    BY <1>1, <1>3, PartSound
  <1> USE DEF s
  <1> QED
    BY <1>1, <1>2, <1>3, <1>4

LEMMA NodesSound ==
  /\ Len(Nodes) = 39
  /\ \A i \in 1 .. 39 : Sensible(Nodes[i])
  /\ \A f \in Needed : \E i \in 1 .. 39 : Settles(Nodes[i], f)
  <1> DEFINE n1 == ServerQuestions
             n2 == n1 \o ConnectionQuestions
             n3 == n2 \o WalQuestions
             n4 == n3 \o CommitQuestions
             n5 == n4 \o VacuumQuestions
             n6 == n5 \o SessionQuestions
             n7 == n6 \o SecurityQuestions
             n8 == n7 \o LoggingQuestions
  <1>1. Sound(n1) /\ Len(n1) = 6 /\ Settled(ServerQuestions) \subseteq Settled(n1)
    BY ServerSound, Zenon
  <1>2. /\ Sound(n2) /\ Len(n2) = 9
        /\ Settled(n1) \cup Settled(ConnectionQuestions) \subseteq Settled(n2)
    <2> HIDE DEF n1
    <2>1. Sound(ConnectionQuestions) /\ Len(ConnectionQuestions) = 3
      BY ConnectionSound, Zenon
    <2>2. /\ Sound(n2) /\ Len(n2) = Len(n1) + Len(ConnectionQuestions)
          /\ Settled(n2) = Settled(n1) \cup Settled(ConnectionQuestions)
      BY <1>1, <2>1, JoinedSound, Zenon
    <2> HIDE DEF n2
    <2> QED
      BY <1>1, <2>1, <2>2
  <1>3. /\ Sound(n3) /\ Len(n3) = 14
        /\ Settled(n2) \cup Settled(WalQuestions) \subseteq Settled(n3)
    <2> HIDE DEF n2
    <2>1. Sound(WalQuestions) /\ Len(WalQuestions) = 5
      BY WalSound, Zenon
    <2>2. /\ Sound(n3) /\ Len(n3) = Len(n2) + Len(WalQuestions)
          /\ Settled(n3) = Settled(n2) \cup Settled(WalQuestions)
      BY <1>2, <2>1, JoinedSound, Zenon
    <2> HIDE DEF n3
    <2> QED
      BY <1>2, <2>1, <2>2
  <1>4. /\ Sound(n4) /\ Len(n4) = 17
        /\ Settled(n3) \cup Settled(CommitQuestions) \subseteq Settled(n4)
    <2> HIDE DEF n3
    <2>1. Sound(CommitQuestions) /\ Len(CommitQuestions) = 3
      BY CommitSound, Zenon
    <2>2. /\ Sound(n4) /\ Len(n4) = Len(n3) + Len(CommitQuestions)
          /\ Settled(n4) = Settled(n3) \cup Settled(CommitQuestions)
      BY <1>3, <2>1, JoinedSound, Zenon
    <2> HIDE DEF n4
    <2> QED
      BY <1>3, <2>1, <2>2
  <1>5. /\ Sound(n5) /\ Len(n5) = 22
        /\ Settled(n4) \cup Settled(VacuumQuestions) \subseteq Settled(n5)
    <2> HIDE DEF n4
    <2>1. Sound(VacuumQuestions) /\ Len(VacuumQuestions) = 5
      BY VacuumSound, Zenon
    <2>2. /\ Sound(n5) /\ Len(n5) = Len(n4) + Len(VacuumQuestions)
          /\ Settled(n5) = Settled(n4) \cup Settled(VacuumQuestions)
      BY <1>4, <2>1, JoinedSound, Zenon
    <2> HIDE DEF n5
    <2> QED
      BY <1>4, <2>1, <2>2
  <1>6. /\ Sound(n6) /\ Len(n6) = 25
        /\ Settled(n5) \cup Settled(SessionQuestions) \subseteq Settled(n6)
    <2> HIDE DEF n5
    <2>1. Sound(SessionQuestions) /\ Len(SessionQuestions) = 3
      BY SessionSound, Zenon
    <2>2. /\ Sound(n6) /\ Len(n6) = Len(n5) + Len(SessionQuestions)
          /\ Settled(n6) = Settled(n5) \cup Settled(SessionQuestions)
      BY <1>5, <2>1, JoinedSound, Zenon
    <2> HIDE DEF n6
    <2> QED
      BY <1>5, <2>1, <2>2
  <1>7. /\ Sound(n7) /\ Len(n7) = 33
        /\ Settled(n6) \cup Settled(SecurityQuestions) \subseteq Settled(n7)
    <2> HIDE DEF n6
    <2>1. Sound(SecurityQuestions) /\ Len(SecurityQuestions) = 8
      BY SecuritySound, Zenon
    <2>2. /\ Sound(n7) /\ Len(n7) = Len(n6) + Len(SecurityQuestions)
          /\ Settled(n7) = Settled(n6) \cup Settled(SecurityQuestions)
      BY <1>6, <2>1, JoinedSound, Zenon
    <2> HIDE DEF n7
    <2> QED
      BY <1>6, <2>1, <2>2
  <1>8. /\ Sound(n8) /\ Len(n8) = 39
        /\ Settled(n7) \cup Settled(LoggingQuestions) \subseteq Settled(n8)
    <2> HIDE DEF n7
    <2>1. Sound(LoggingQuestions) /\ Len(LoggingQuestions) = 6
      BY LoggingSound, Zenon
    <2>2. /\ Sound(n8) /\ Len(n8) = Len(n7) + Len(LoggingQuestions)
          /\ Settled(n8) = Settled(n7) \cup Settled(LoggingQuestions)
      BY <1>7, <2>1, JoinedSound, Zenon
    <2> HIDE DEF n8
    <2> QED
      BY <1>7, <2>1, <2>2
  <1>9. Nodes = n8
    BY DEF Nodes
  <1> HIDE DEF n1, n2, n3, n4, n5, n6, n7, n8
  <1>10. UNION {Settled(ServerQuestions), Settled(ConnectionQuestions), Settled(WalQuestions),
                Settled(CommitQuestions), Settled(VacuumQuestions), Settled(SessionQuestions),
                Settled(SecurityQuestions), Settled(LoggingQuestions)} \subseteq Settled(n8)
    BY <1>1, <1>2, <1>3, <1>4, <1>5, <1>6, <1>7, <1>8
  <1>11. Needed \subseteq Settled(n8)
    BY <1>10, ServerSound, ConnectionSound, WalSound, CommitSound, VacuumSound, SessionSound,
       SecuritySound, LoggingSound DEF Needed, Copied
  <1>12. \A i \in 1 .. 39 : Nodes[i] \in AskedIn(Nodes)
    BY <1>8, <1>9 DEF AskedIn
  <1>13. \A q \in AskedIn(Nodes) : \E i \in 1 .. 39 : q = Nodes[i]
    BY <1>8, <1>9, ZenonT(40) DEF AskedIn
  <1>14. \A i \in 1 .. 39 : Sensible(Nodes[i])
    BY <1>8, <1>9, <1>12, Zenon DEF Sound
  <1>15. ASSUME NEW f \in Needed PROVE \E i \in 1 .. 39 : Settles(Nodes[i], f)
    <2>1. PICK q \in AskedIn(Nodes) : Settles(q, f)
      BY <1>9, <1>11 DEF Settled
    <2> QED
      BY <1>13, <2>1
  <1> QED
    BY <1>8, <1>9, <1>14, <1>15

\* The settings a file has beside the copied ones: computed always, and those that
\* depend on level, replicas and version.
Computed == {"max_connections", "shared_buffers", "work_mem", "maintenance_work_mem",
             "huge_pages", "effective_cache_size", "effective_io_concurrency",
             "random_page_cost", "max_wal_senders", "max_wal_size", "min_wal_size",
             "log_temp_files", "default_statistics_target"}

OfVersion(d) ==
    Over(Archiving(d), Over(Replication(d, AtLeast(512, d.max_wal_size)), Parallel(d)))

LEMMA SensibleFile ==
  ASSUME NEW d, Needed \subseteq DOMAIN d, NEW file, file = ConfigGenerator(d), NEW version,
         version = OfVersion(d)
  PROVE  /\ DOMAIN file = Computed \cup DOMAIN version \cup Copied
         /\ \A f \in Copied \ (Computed \cup DOMAIN version) : file[f] = d[f]
         /\ file.max_connections = Connections(d.dbType)
         /\ file.shared_buffers = 256 * ParseSize(d.ram)
         /\ file.effective_cache_size = Rounded(3 * ParseSize(d.ram), 4)
         /\ file.max_wal_senders = WalSenders(d)
         /\ \A f \in DOMAIN version \ Computed : file[f] = version[f]
  <1> DEFINE ram           == ParseSize(d.ram)
             connections   == Connections(d.dbType)
             sharedBuffers == 256 * ram
             maxWalSize    == AtLeast(512, d.max_wal_size)
             workMem       == WorkerMem(ram, connections, d.dbType)
             ioConcurrency == CASE d.diskType = "SSD" -> 200 [] d.diskType = "HDD" -> 2
                                [] OTHER -> 300
             computed ==
               [max_connections |-> connections,
                shared_buffers  |-> sharedBuffers,
                work_mem        |-> workMem,
                maintenance_work_mem |-> AtLeast(64, Rounded(256 * ram, 5)),
                huge_pages      |-> IF ram >= 32 THEN "try" ELSE "off",
                effective_cache_size |-> Rounded(3 * ram, 4),
                effective_io_concurrency |-> ioConcurrency,
                random_page_cost |-> IF d.diskType = "HDD" THEN 40 ELSE 11,
                max_wal_senders |-> WalSenders(d),
                max_wal_size    |-> maxWalSize,
                min_wal_size    |-> AtLeast(512, maxWalSize \div 2),
                log_temp_files  |-> 1000,
                default_statistics_target |-> IF d.dbType = "warehouse" THEN 500 ELSE 100]
             copied  == [f \in Copied \cap DOMAIN d |-> d[f]]
  <1>1. file = Over(computed, Over(version, copied))
    <2>1. {"version", "ram", "cpu", "diskType", "dbType", "replica", "max_wal_size"}
             \subseteq DOMAIN d
      BY DEF Needed
    <2> QED
      BY <2>1, ZenonT(60) DEF ConfigGenerator, OfVersion
  <1>2. DOMAIN copied = Copied /\ \A f \in Copied : copied[f] = d[f]
    BY DEF Needed
  <1>3. DOMAIN computed = Computed
    BY DEF Computed
  <1>4. /\ computed.max_connections = connections
        /\ computed.shared_buffers = sharedBuffers
        /\ computed.effective_cache_size = Rounded(3 * ram, 4)
        /\ computed.max_wal_senders = WalSenders(d)
    <2> HIDE DEF connections, sharedBuffers, ram, workMem, ioConcurrency, maxWalSize
    <2> QED
      BY Zenon
  <1>5. {"max_connections", "shared_buffers", "effective_cache_size", "max_wal_senders"}
           \subseteq Computed
    BY DEF Computed
  <1> HIDE DEF computed, copied
  <1>6. DOMAIN file = Computed \cup DOMAIN version \cup Copied
    BY <1>1, <1>2, <1>3 DEF Over
  <1>7. \A f \in Computed : file[f] = computed[f]
    BY <1>1, <1>3 DEF Over
  <1>8. \A f \in Copied \ (Computed \cup DOMAIN version) : file[f] = d[f]
    BY <1>1, <1>2, <1>3 DEF Over
  <1>10. \A f \in DOMAIN version \ Computed : file[f] = version[f]
    BY <1>1, <1>3 DEF Over
  <1>9. /\ file.max_connections = computed.max_connections
        /\ file.shared_buffers = computed.shared_buffers
        /\ file.effective_cache_size = computed.effective_cache_size
        /\ file.max_wal_senders = computed.max_wal_senders
    BY <1>5, <1>7
  <1> QED
    <2> HIDE DEF connections, sharedBuffers, ram, workMem, ioConcurrency, maxWalSize
    <2>1. /\ connections = Connections(d.dbType) /\ ram = ParseSize(d.ram)
          /\ sharedBuffers = 256 * ram
      BY DEF connections, ram, sharedBuffers
    <2>2. /\ file.max_connections = Connections(d.dbType)
          /\ file.shared_buffers = 256 * ParseSize(d.ram)
          /\ file.effective_cache_size = Rounded(3 * ParseSize(d.ram), 4)
          /\ file.max_wal_senders = WalSenders(d)
      BY <1>4, <1>9, <2>1, ZenonT(40)
    <2> QED
      BY <1>6, <1>8, <1>10, <2>2, Zenon

LEMMA VersionSettings ==
  ASSUME NEW d, d.version \in Nat, NEW maxWalSize,
         NEW version,
         version = Over(Archiving(d), Over(Replication(d, maxWalSize), Parallel(d)))
  PROVE  /\ DOMAIN version \cap (Copied \cup Computed) = {}
         /\ "archive_mode" \in DOMAIN version => d.wal_level # "minimal"
         /\ "wal_keep_size" \in DOMAIN version => d.version >= 13
         /\ "wal_keep_segments" \in DOMAIN version => d.version < 13
         /\ {"max_parallel_maintenance_workers", "parallel_leader_participation"}
               \cap DOMAIN version # {} => d.version >= 11
         /\ "max_worker_processes" \in DOMAIN version
         /\ version["max_worker_processes"] = d.cpu
  <1>1. /\ DOMAIN Archiving(d) \subseteq {"archive_mode"}
        /\ DOMAIN Archiving(d) # {} => d.wal_level # "minimal"
    <2>1. /\ DOMAIN NoField = {}
          /\ DOMAIN Sets("archive_mode", "on") = {"archive_mode"}
      <3>1. DOMAIN Sets("archive_mode", "on") = {"archive_mode"}
        BY OneField, Zenon
      <3> QED
        BY <3>1 DEF NoField
    <2>2. Archiving(d) = IF d.wal_level = "minimal" THEN NoField ELSE Sets("archive_mode", "on")
      BY Zenon DEF Archiving
    <2>3. CASE d.wal_level = "minimal"
      BY <2>1, <2>2, <2>3
    <2>4. CASE d.wal_level # "minimal"
      BY <2>1, <2>2, <2>4
    <2> QED
      BY <2>3, <2>4
  <1>2. /\ DOMAIN Replication(d, maxWalSize) \subseteq {"wal_keep_size", "wal_keep_segments"}
        /\ "wal_keep_size" \in DOMAIN Replication(d, maxWalSize) => d.version >= 13
        /\ "wal_keep_segments" \in DOMAIN Replication(d, maxWalSize) => d.version < 13
    <2> DEFINE size == 10 * ((1600 + 2 * maxWalSize + 9) \div 10)
               segments == 10 * ((100 + 2 * maxWalSize + 159) \div 160)
    <2>1. Replication(d, maxWalSize) =
            IF d.replica = 0 THEN NoField
            ELSE IF d.version >= 13 THEN Sets("wal_keep_size", size)
            ELSE Sets("wal_keep_segments", segments)
      BY Zenon DEF Replication
    <2> HIDE DEF size, segments
    <2>2. /\ DOMAIN NoField = {} /\ DOMAIN Sets("wal_keep_size", size) = {"wal_keep_size"}
          /\ DOMAIN Sets("wal_keep_segments", segments) = {"wal_keep_segments"}
      <3>1. /\ DOMAIN Sets("wal_keep_size", size) = {"wal_keep_size"}
            /\ DOMAIN Sets("wal_keep_segments", segments) = {"wal_keep_segments"}
        BY OneField, Zenon
      <3> QED
        BY <3>1 DEF NoField
    <2>3. CASE d.replica = 0
      BY <2>1, <2>2, <2>3
    <2>4. CASE d.replica # 0 /\ d.version >= 13
      BY <2>1, <2>2, <2>4
    <2>5. CASE d.replica # 0 /\ ~(d.version >= 13)
      BY <2>1, <2>2, <2>5
    <2> QED
      BY <2>3, <2>4, <2>5
  <1>3. /\ DOMAIN Parallel(d) \subseteq
             {"max_worker_processes", "max_parallel_workers_per_gather",
              "max_parallel_workers", "max_parallel_maintenance_workers",
              "parallel_leader_participation"}
        /\ {"max_parallel_maintenance_workers", "parallel_leader_participation"}
              \cap DOMAIN Parallel(d) # {} => d.version >= 11
        /\ "max_worker_processes" \in DOMAIN Parallel(d)
        /\ Parallel(d)["max_worker_processes"] = d.cpu
    <2> DEFINE half == d.cpu \div 2
               always == [max_worker_processes |-> d.cpu,
                          max_parallel_workers_per_gather |-> half,
                          max_parallel_workers |-> d.cpu]
               since11 == [max_parallel_maintenance_workers |-> half,
                           parallel_leader_participation |-> "on"]
               later == IF d.version > 10 THEN since11 ELSE NoField
    <2>1. Parallel(d) = Over(always, later)
      BY Zenon DEF Parallel
    <2> HIDE DEF half
    <2>2. /\ DOMAIN always = {"max_worker_processes", "max_parallel_workers_per_gather",
                              "max_parallel_workers"}
          /\ DOMAIN since11 = {"max_parallel_maintenance_workers",
                               "parallel_leader_participation"}
          /\ DOMAIN NoField = {} /\ always["max_worker_processes"] = d.cpu
      BY DEF NoField
    <2> HIDE DEF always, since11
    <2>3. /\ DOMAIN Parallel(d) = DOMAIN always \cup DOMAIN later
          /\ \A f \in DOMAIN always : Parallel(d)[f] = always[f]
      BY <2>1 DEF Over
    <2> QED
      BY <2>2, <2>3
  <1>4. DOMAIN version = DOMAIN Archiving(d) \cup DOMAIN Replication(d, maxWalSize)
                           \cup DOMAIN Parallel(d)
    BY DEF Over
  <1> DEFINE names == {"archive_mode", "wal_keep_size", "wal_keep_segments",
                       "max_worker_processes", "max_parallel_workers_per_gather",
                       "max_parallel_workers", "max_parallel_maintenance_workers",
                       "parallel_leader_participation"}
  <1>5. names \cap (Copied \cup Computed) = {}
    BY DEF Copied, Computed
  <1>6. DOMAIN version \subseteq names
    BY <1>1, <1>2, <1>3, <1>4
  <1>7. /\ "archive_mode" \in DOMAIN version => "archive_mode" \in DOMAIN Archiving(d)
        /\ "wal_keep_size" \in DOMAIN version
              => "wal_keep_size" \in DOMAIN Replication(d, maxWalSize)
        /\ "wal_keep_segments" \in DOMAIN version
              => "wal_keep_segments" \in DOMAIN Replication(d, maxWalSize)
        /\ \A n \in {"max_parallel_maintenance_workers", "parallel_leader_participation"} :
              n \in DOMAIN version => n \in DOMAIN Parallel(d)
    BY <1>1, <1>2, <1>3, <1>4
  <1>8. /\ "max_worker_processes" \in DOMAIN version
        /\ version["max_worker_processes"] = d.cpu
    <2>1. /\ "max_worker_processes" \notin DOMAIN Archiving(d)
          /\ "max_worker_processes" \notin DOMAIN Replication(d, maxWalSize)
      BY <1>1, <1>2
    <2> QED
      BY <1>3, <2>1 DEF Over
  <1> HIDE DEF names
  <1> QED
    BY <1>1, <1>2, <1>3, <1>5, <1>6, <1>7, <1>8

LEMMA AtLeastFacts ==
  ASSUME NEW low \in Int, NEW n \in Int
  PROVE  AtLeast(low, n) = IF n < low THEN low ELSE n
  BY DEF AtLeast

LEMMA FieldGiven ==
  ASSUME NEW d, FieldsOk(d), NEW f \in DOMAIN d
  PROVE  FieldOk(f, d[f])
  BY Zenon DEF FieldsOk

LEMMA SensibleStarts ==
  ASSUME NEW d, Needed \subseteq DOMAIN d, FieldsOk(d), ~Unfit(d)
  PROVE  Starts(ConfigGenerator(d), d.version)
  <1> DEFINE file == ConfigGenerator(d)
  <1>1. d.version \in Nat /\ RamOk(d.ram) /\ d.port \in Nat
    <2>1. "version" \in DOMAIN d /\ "ram" \in DOMAIN d /\ "port" \in DOMAIN d
      BY DEF Needed, Copied
    <2>2. FieldOk("version", d.version)
      BY <2>1, FieldGiven, Zenon
    <2>3. FieldOk("ram", d.ram)
      BY <2>1, FieldGiven, Zenon
    <2>4. FieldOk("port", d.port)
      BY <2>1, FieldGiven, Zenon
    <2> QED
      BY <2>2, <2>3, <2>4, Zenon DEF FieldOk
  <1>2. /\ d.version \in Releases /\ d.ram[2] \in {"GB", "TB"}
        /\ ~(ParseSize(d.ram) > MaxRam) /\ d.temp_file_limit # "2TB"
        /\ ~Crowded(d)
        /\ d.listen_addr # "foreign" /\ ~(d.port < 1024)
        /\ d.synchronous_standby_names = "*" /\ d.log_destination # "csv"
        /\ d.log_line_prefix # "quoted"
    BY DEF Unfit
  <1> HIDE DEF file
  <1>17. file = ConfigGenerator(d)
    BY DEF file
  <1>18. PICK version : version = OfVersion(d)
    OBVIOUS
  <1>3. /\ DOMAIN file = Computed \cup DOMAIN version \cup Copied
        /\ \A f \in Copied \ (Computed \cup DOMAIN version) : file[f] = d[f]
        /\ file.max_connections = Connections(d.dbType)
        /\ file.shared_buffers = 256 * ParseSize(d.ram)
        /\ file.effective_cache_size = Rounded(3 * ParseSize(d.ram), 4)
        /\ file.max_wal_senders = WalSenders(d)
        /\ \A f \in DOMAIN version \ Computed : file[f] = version[f]
    BY <1>17, <1>18, SensibleFile
  <1>4. /\ DOMAIN version \cap (Copied \cup Computed) = {}
        /\ "archive_mode" \in DOMAIN version => d.wal_level # "minimal"
        /\ "wal_keep_size" \in DOMAIN version => d.version >= 13
        /\ "wal_keep_segments" \in DOMAIN version => d.version < 13
        /\ {"max_parallel_maintenance_workers", "parallel_leader_participation"}
              \cap DOMAIN version # {} => d.version >= 11
        /\ "max_worker_processes" \in DOMAIN version
        /\ version["max_worker_processes"] = d.cpu
    BY <1>1, <1>18, VersionSettings DEF OfVersion
  <1>5. Copied \subseteq DOMAIN file
    BY <1>3
  <1>6. \A f \in {"superuser_reserved_connections", "wal_level", "listen_addr", "port",
                  "synchronous_standby_names", "log_destination", "log_line_prefix",
                  "temp_file_limit", "autovacuum_max_workers"} : file[f] = d[f]
    <2>1. {"superuser_reserved_connections", "wal_level", "listen_addr", "port",
           "synchronous_standby_names", "log_destination", "log_line_prefix",
           "temp_file_limit", "autovacuum_max_workers"} \subseteq Copied \ Computed
      BY DEF Copied, Computed
    <2> QED
      BY <1>3, <1>4, <2>1
  <1>7. ASSUME NEW s \in DOMAIN file PROVE KnownTo(d.version, s)
    <2> DEFINE later == {"wal_keep_size", "wal_keep_segments",
                         "max_parallel_maintenance_workers", "parallel_leader_participation"}
    <2>1. later \cap (Copied \cup Computed) = {}
      BY DEF Copied, Computed
    <2>2. s \in later => s \in DOMAIN version
      BY <1>3, <1>7, <2>1
    <2>3. CASE s = "wal_keep_size"
      BY <1>4, <2>2, <2>3 DEF KnownTo
    <2>4. CASE s = "wal_keep_segments"
      BY <1>4, <2>2, <2>4 DEF KnownTo
    <2>5. CASE s \in {"max_parallel_maintenance_workers", "parallel_leader_participation"}
      BY <1>4, <2>2, <2>5 DEF KnownTo
    <2>6. CASE s \notin later
      BY <2>6 DEF KnownTo
    <2> QED
      BY <2>3, <2>4, <2>5, <2>6
  <1>8. ParseSize(d.ram) \in Nat \ {0}
    <2>1. d.ram[1] \in Nat \ {0}
      <3>1. RamOk(d.ram) /\ d.ram[2] \in {"GB", "TB"}
        BY <1>1, <1>2
      <3> QED
        BY <3>1, Zenon DEF RamOk
    <2>2. PICK n, u : n = d.ram[1] /\ u = d.ram[2]
      OBVIOUS
    <2>3. ParseSize(d.ram) = IF u = "GB" THEN n ELSE n * 1024
      BY <1>2, <2>2 DEF ParseSize
    <2> QED
      BY <2>1, <2>2, <2>3
  <1>9. /\ 1 <= file.shared_buffers /\ file.shared_buffers <= MaxShared
        /\ 1 <= file.effective_cache_size /\ file.effective_cache_size <= MaxCache
    <2>1. PICK n \in Nat \ {0} : n = ParseSize(d.ram)
      BY <1>8
    <2>2. n \in Int /\ 1 <= n /\ n <= 21844
      BY <1>2, <2>1 DEF MaxRam
    <2>3. PICK shared \in Int : shared = 256 * n
      BY <2>2
    <2>4. 1 <= shared /\ shared <= MaxShared
      BY <2>2, <2>3 DEF MaxShared
    <2>5. PICK m \in Int : m = 2 * (3 * n) + 4
      BY <2>2
    <2>6. 8 <= m /\ m <= 131068 /\ 2 * 4 = 8
      BY <2>2, <2>5
    <2>7. 1 <= m \div 8 /\ m \div 8 <= MaxCache
      BY <2>6 DEF MaxCache
    <2>9. file.shared_buffers = shared
      BY <1>3, <2>1, <2>3
    <2>10. Rounded(3 * n, 4) = m \div 8
      BY <2>5, <2>6 DEF Rounded
    <2>11. file.effective_cache_size = m \div 8
      BY <1>3, <2>1, <2>10
    <2> QED
      BY <2>4, <2>7, <2>9, <2>11, Zenon
  <1>10. d.wal_level = "minimal" => WalSenders(d) = 0
    BY DEF WalSenders
  <1>11. file.max_worker_processes = d.cpu
    <2>1. "max_worker_processes" \notin Computed
      BY DEF Computed
    <2> QED
      BY <1>3, <1>4, <2>1
  <1>12. Room(d.version, file.max_connections, file.superuser_reserved_connections,
              file.max_wal_senders, file.autovacuum_max_workers + 1 + file.max_worker_processes)
    <2>1. /\ file.superuser_reserved_connections = d.superuser_reserved_connections
          /\ file.autovacuum_max_workers = d.autovacuum_max_workers
      BY <1>6
    <2>2. /\ file.max_connections = Connections(d.dbType)
          /\ file.max_wal_senders = WalSenders(d)
      BY <1>3
    <2>3. Room(d.version, Connections(d.dbType), d.superuser_reserved_connections,
               WalSenders(d), d.autovacuum_max_workers + 1 + d.cpu)
      BY <1>2, ZenonT(60) DEF Crowded
    <2> QED
      BY <1>11, <2>1, <2>2, <2>3, Zenon
  <1>13. file.wal_level = "minimal" =>
           file.max_wal_senders = 0 /\ "archive_mode" \notin DOMAIN file
    <2>1. "archive_mode" \notin Copied \cup Computed
      BY DEF Copied, Computed
    <2>2. file.wal_level = d.wal_level
      BY <1>6
    <2> QED
      BY <1>3, <1>4, <1>10, <2>1, <2>2
  <1>14. /\ file.synchronous_standby_names = d.synchronous_standby_names
         /\ file.log_destination = d.log_destination
         /\ file.log_line_prefix = d.log_line_prefix /\ file.listen_addr = d.listen_addr
         /\ file.port = d.port /\ file.temp_file_limit = d.temp_file_limit
    BY <1>6
  <1>15. d.port >= 1024
    BY <1>1, <1>2
  <1>16. Starts(file, d.version)
    BY <1>2, <1>5, <1>7, <1>9, <1>12, <1>13, <1>14, <1>15, ZenonT(60) DEF Starts
  <1> QED
    BY <1>16 DEF file

\* Behind the user: every question before cfAt has been answered or skipped, and the
\* fields it settles have a value; a written file is that of the answers.
CfInv ==
    /\ cfAt \in 1 .. 40
    /\ FieldsOk(cfData)
    /\ \A i \in 1 .. cfAt - 1 : \A f \in Needed : Settles(Nodes[i], f) => f \in DOMAIN cfData
    /\ cfState = "written" => cfAt = 40 /\ cfFile = ConfigGenerator(cfData)

LEMMA CfInvStart ==
  ASSUME NEW followed, CfStart(followed)
  PROVE  CfInv
  <1>1. cfAt = 1 /\ cfData = NoField /\ cfState = "asking"
    BY Zenon DEF CfStart
  <1> QED
    BY <1>1, NoFieldOk DEF CfInv

LEMMA CfInvSkip == CfInv /\ Skip => CfInv'
  <1> SUFFICES ASSUME CfInv, Skip PROVE CfInv'
    OBVIOUS
  <1>1. /\ cfState = "asking" /\ cfAt \in 1 .. 39 /\ Nodes[cfAt].skip \in DOMAIN cfData
        /\ cfAt' = cfAt + 1 /\ cfData' = cfData /\ cfState' = cfState
    BY NodesSound DEF Skip, Asking, Skipped, CfInv
  <1>2. ASSUME NEW f \in Needed, Settles(Nodes[cfAt], f) PROVE f \in DOMAIN cfData
    <2>1. Nodes[cfAt].skip \in {Always, f}
      BY <1>2, Zenon DEF Settles
    <2>2. Always \notin DOMAIN cfData
      BY Zenon DEF CfInv, FieldsOk, FieldOk
    <2> QED
      BY <1>1, <2>1, <2>2
  <1>3. \A i \in 1 .. cfAt' - 1 : i \in 1 .. cfAt - 1 \/ i = cfAt
    BY <1>1
  <1>4. \A i \in 1 .. cfAt' - 1 : \A f \in Needed :
           Settles(Nodes[i], f) => f \in DOMAIN cfData'
    BY <1>1, <1>2, <1>3 DEF CfInv
  <1> QED
    BY <1>1, <1>4 DEF CfInv

LEMMA CfInvAnswer == CfInv /\ Answer => CfInv'
  <1> SUFFICES ASSUME CfInv, Answer PROVE CfInv'
    OBVIOUS
  <1>1. cfState = "asking" /\ cfAt \in 1 .. 39
    BY NodesSound, SMTT(40) DEF Answer, Asking, CfInv
  <1>2. PICK q : q = Nodes[cfAt] /\ Sensible(q)
    BY <1>1, NodesSound
  <1>3. PICK a \in Replies(q) :
           IF q.gives[a] = Broken
           THEN cfState' = "refused" /\ UNCHANGED <<cfAt, cfTries, cfData>>
           ELSE /\ cfData' = Over(q.gives[a], cfData)
                /\ cfAt' = cfAt + 1 /\ cfTries' = 0
                /\ UNCHANGED cfState
    BY <1>2, Zenon DEF Answer
  <1>4. PICK given : given = q.gives[a]
    OBVIOUS
  <1>5. CASE given = Broken
    <2>1. cfState' = "refused" /\ cfAt' = cfAt /\ cfData' = cfData
      BY <1>3, <1>4, <1>5
    <2> QED
      BY <2>1 DEF CfInv
  <1>6. CASE given # Broken
    <2>1. cfData' = Over(given, cfData) /\ cfAt' = cfAt + 1 /\ cfState' = cfState
      BY <1>3, <1>4, <1>6
    <2>2. a \in DOMAIN q.gives
      BY <1>2, <1>3, Zenon DEF Replies, Sensible
    <2>3. FieldsOk(given)
      BY <1>2, <1>4, <1>6, <2>2, Zenon DEF Sensible
    <2>4. FieldsOk(cfData')
      <3>1. FieldsOk(cfData)
        BY Zenon DEF CfInv
      <3>2. FieldsOk(Over(given, cfData))
        BY <2>3, <3>1, MergedOk
      <3> QED
        BY <2>1, <3>2, Zenon DEF FieldsOk
    <2>5. ASSUME NEW f \in Needed, Settles(Nodes[cfAt], f) PROVE f \in DOMAIN given
      BY <1>2, <1>4, <1>6, <2>2, <2>5, Zenon DEF Settles
    <2>6. DOMAIN cfData' = DOMAIN given \cup DOMAIN cfData
      BY <2>1 DEF Over
    <2>7. \A i \in 1 .. cfAt' - 1 : i \in 1 .. cfAt - 1 \/ i = cfAt
      BY <1>1, <2>1
    <2>8. \A i \in 1 .. cfAt' - 1 : \A f \in Needed :
             Settles(Nodes[i], f) => f \in DOMAIN cfData'
      BY <2>5, <2>6, <2>7 DEF CfInv
    <2>9. cfAt' \in 1 .. 40 /\ cfState' # "written"
      BY <1>1, <2>1
    <2> QED
      BY <2>4, <2>8, <2>9 DEF CfInv
  <1> QED
    BY <1>5, <1>6

LEMMA CfInvStep == CfInv /\ [CfNext]_cfVars => CfInv'
  <1> SUFFICES ASSUME CfInv, [CfNext]_cfVars PROVE CfInv'
    OBVIOUS
  <1>1. CASE Skip
    BY <1>1, CfInvSkip
  <1>2. CASE Answer
    BY <1>2, CfInvAnswer
  <1>3. CASE Mistype
    <2>1. /\ cfAt' = cfAt /\ cfData' = cfData /\ cfFile' = cfFile /\ cfState' # "written"
      BY <1>3 DEF Mistype
    <2> QED
      BY <2>1 DEF CfInv
  <1>4. CASE GenerateConfigFile
    <2>1. cfAt' = cfAt /\ cfData' = cfData /\ cfAt = 40
      BY <1>4, NodesSound DEF GenerateConfigFile, CfInv
    <2>2. cfState' = "written" => cfFile' = ConfigGenerator(cfData)
      BY <1>4 DEF GenerateConfigFile
    <2> QED
      BY <2>1, <2>2 DEF CfInv
  <1>5. CASE UNCHANGED cfVars
    BY <1>5 DEF CfInv, cfVars
  <1> QED
    BY <1>1, <1>2, <1>3, <1>4, <1>5 DEF CfNext

LEMMA WrittenFits == CfInv => GeneratedFits
  <1> SUFFICES ASSUME CfInv, cfState = "written", ~Unfit(cfData)
               PROVE  Starts(cfFile, cfData.version)
    BY DEF GeneratedFits
  <1>1. cfAt = 40 /\ cfFile = ConfigGenerator(cfData) /\ FieldsOk(cfData)
    BY Zenon DEF CfInv
  <1>2. Needed \subseteq DOMAIN cfData
    <2> SUFFICES ASSUME NEW f \in Needed PROVE f \in DOMAIN cfData
      OBVIOUS
    <2>1. PICK i \in 1 .. 39 : Settles(Nodes[i], f)
      BY NodesSound
    <2>2. i \in 1 .. cfAt - 1
      BY <1>1
    <2> QED
      BY <2>1, <2>2 DEF CfInv
  <1>3. Starts(ConfigGenerator(cfData), cfData.version)
    BY <1>1, <1>2, SensibleStarts
  <1> QED
    BY <1>1, <1>3

CfFollowed == IF runner = "generator" THEN CfInv ELSE CfRests

LEMMA CfFollowedHolds == Spec => []CfFollowed
  <1>1. Init => CfFollowed
    <2> SUFFICES ASSUME Init PROVE CfFollowed
      OBVIOUS
    <2>1. CASE runner = "generator"
      <3>1. PICK followed \in CfFollows : CfStart(followed)
        BY <2>1, Starts0 DEF CfInit
      <3> QED
        BY <2>1, <3>1, CfInvStart DEF CfFollowed
    <2>2. CASE runner # "generator"
      BY <2>2, Starts0 DEF CfFollowed
    <2> QED
      BY <2>1, <2>2
  <1>2. CfFollowed /\ [Next]_vars => CfFollowed'
    <2> SUFFICES ASSUME CfFollowed, [Next]_vars PROVE CfFollowed'
      OBVIOUS
    <2>1. CASE runner = "generator"
      BY <2>1, Moves, CfInvStep DEF CfFollowed
    <2>2. CASE runner # "generator"
      <3>1. UNCHANGED <<runner, cfVars>>
        BY <2>2, Moves, SMTT(40)
      <3> QED
        BY <2>2, <3>1 DEF CfFollowed, CfRests, CfStart, cfVars
    <2> QED
      BY <2>1, <2>2
  <1> QED
    BY <1>1, <1>2, PTL DEF Spec

\* Whichever answers the user thinks about, and however often each has to be given
\* again, a postgresql.conf that is reported as generated is one PostgreSQL starts
\* with: a question is left out only when the field it asks for has a value already
\* (user_input.go:599, generator.go:121).
THEOREM GeneratedFitsHolds == Spec => []GeneratedFits
  <1>1. CfFollowed => GeneratedFits
    <2> SUFFICES ASSUME CfFollowed PROVE GeneratedFits
      OBVIOUS
    <2>1. CASE runner = "generator"
      BY <2>1, WrittenFits DEF CfFollowed
    <2>2. CASE runner # "generator"
      <3>1. CfStart({})
        BY <2>2 DEF CfFollowed, CfRests
      <3>2. cfState = "asking"
        BY <3>1 DEF CfStart
      <3> QED
        BY <3>2 DEF GeneratedFits
    <2> QED
      BY <2>1, <2>2
  <1> QED
    BY <1>1, CfFollowedHolds, PTL
-----------------------------------------------------------------------------
(* Schedules: by the invariant of SchedulesProofs.                           *)

ScFollowed == IF runner = "schedules" THEN ScInv ELSE ScRests

LEMMA ScFollowedHolds == Spec => []ScFollowed
  <1>1. Init => ScFollowed
    BY Starts0, ScInvInit DEF ScFollowed
  <1>2. ScFollowed /\ [Next]_vars => ScFollowed'
    <2> SUFFICES ASSUME ScFollowed, [Next]_vars PROVE ScFollowed'
      OBVIOUS
    <2>1. CASE runner = "schedules"
      BY <2>1, Moves, ScInvStep DEF ScFollowed
    <2>2. CASE runner # "schedules"
      <3>1. UNCHANGED <<runner, scVars>>
        BY <2>2, Moves
      <3> QED
        BY <2>2, <3>1 DEF ScFollowed, ScRests, ScStart, scVars
    <2> QED
      BY <2>1, <2>2
  <1> QED
    BY <1>1, <1>2, PTL DEF Spec

\* Whatever the configuration asks for, on whichever schedules, whenever servers and
\* the log file come and go, however late a run comes to its log commands and whichever
\* pushes are taken: a run that counts as a success sent, for every target, each scan
\* that was asked of its schedule, but for what is named; nothing is sent that was not
\* asked for, no schedule that was asked for is left out of the daemon, and what is read
\* of a log joins what was read before unless the schedule has three or more firings to
\* a cycle or the run is later than the one before (BuildCollectorScheduleMap,
\* scheduleRunner, PrintSummary, BuildNodePayload, GetPreviousExecutionTime).
THEOREM ScansDeliveredHolds == Spec => []ScansDelivered
  <1>1. ScFollowed => ScansDelivered
    <2> SUFFICES ASSUME ScFollowed PROVE ScansDelivered
      OBVIOUS
    <2>1. CASE runner = "schedules"
      BY <2>1, ScInvDelivers DEF ScFollowed
    <2>2. CASE runner # "schedules"
      <3>1. scState = "starts" /\ scStored = {} /\ DOMAIN scRuns = {}
        BY <2>2 DEF ScFollowed, ScRests, ScStart
      <3> QED
        BY <3>1 DEF ScansDelivered
    <2> QED
      BY <2>1, <2>2
  <1> QED
    BY <1>1, ScFollowedHolds, PTL
=============================================================================
