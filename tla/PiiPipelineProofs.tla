------------------------- MODULE PiiPipelineProofs -------------------------
(***************************************************************************)
(* Theorems on PiiPipeline for every number of workers, detectors and        *)
(* inputs and every capacity of the input channel.                           *)
(***************************************************************************)
EXTENDS PiiPipeline, TLAPS

AllEnded == \A w \in Workers : worker[w] = "ended"

\* errorChan speaks only after the last worker has ended, and says what the
\* workers returned.
ErrorChanInv ==
    errorChan # "empty" =>
        /\ scanner # "start" /\ ~meta
        /\ AllEnded
        /\ errorChan = "nil" => ~groupErr
        /\ errorChan = "drained" => scanner = "done"

\* A metascan has no workers and no error channel.
MetaInv ==
    /\ meta => ~groupErr /\ \A w \in Workers : worker[w] = "none"
    /\ scanner = "close" => meta
    /\ scanner = "await" => ~meta

\* How far the scanning goroutine is, and what the caller can know by then.
ResultInv ==
    /\ scanner = "done" <=> result # "none"
    /\ outClosed => result = "ok"
    /\ result = "ok" => ~groupErr /\ (meta \/ AllEnded)
    /\ inClosed => scanner \in {"await", "done"}

Inv == TypeOK /\ ErrorChanInv /\ MetaInv /\ ResultInv

LEMMA InitInv == Init => Inv
  <1> SUFFICES ASSUME Init PROVE Inv
    OBVIOUS
  <1>1. meta \in BOOLEAN /\ scanner = "start" /\ result = "none"
        /\ inClosed = FALSE /\ groupErr = FALSE /\ errorChan = "empty"
        /\ outClosed = FALSE
    BY DEF Init
  <1>2. TypeOK
    <2>1. next \in 1 .. Last + 1 /\ inputChan \in Seq(Inputs)
          /\ Len(inputChan) <= InputCap
      BY InputAssumption, CapAssumption DEF Init
    <2>2. worker \in [Workers -> {"none", "recv", "detect", "ended"}]
      BY DEF Init
    <2>3. data \in [Workers -> 0 .. Last] /\ det \in [Workers -> 1 .. Detectors]
      BY InputAssumption, CapAssumption DEF Init
    <2>4. holding \in Outputs \cup {None} /\ merged \in [Outputs -> Nat]
          /\ pushed \in SUBSET Inputs
      BY DEF Init
    <2> QED
      BY <1>1, <2>1, <2>2, <2>3, <2>4 DEF TypeOK, Init
  <1>3. MetaInv
    BY <1>1 DEF Init, MetaInv
  <1> QED
    BY <1>1, <1>2, <1>3 DEF Inv, ErrorChanInv, ResultInv

LEMMA TypeStep == TypeOK /\ [Next]_vars => TypeOK'
  <1> SUFFICES ASSUME TypeOK, [Next]_vars PROVE TypeOK'
    OBVIOUS
  <1> USE InputAssumption, CapAssumption
  <1>1. CASE AllExcluded
    BY <1>1 DEF TypeOK, AllExcluded, Return, workerVars, outVars
  <1>2. CASE Start
    BY <1>2 DEF TypeOK, Start, outVars
  <1>3. CASE StartFails
    BY <1>3 DEF TypeOK, StartFails, Return, outVars
  <1>4. CASE PushColumn
    <2>1. holding' \in Outputs
      BY <1>4 DEF PushColumn, Pushing, Send, Outputs
    <2>2. next' \in 1 .. Last + 1 /\ pushed' \in SUBSET Inputs
      BY <1>4 DEF TypeOK, PushColumn, Pushing, Pushed, Inputs
    <2> QED
      BY <1>4, <2>1, <2>2 DEF TypeOK, PushColumn, workerVars
  <1>5. CASE PassOver \/ RowsEndEarly
    <2>1. TableEnds /\ next \in Inputs
      BY <1>5 DEF PassOver, RowsEndEarly, PushingValue, Pushing
    <2>2. next' \in 1 .. Last + 1
      BY <2>1 DEF TableEnds, Inputs
    <2> QED
      BY <2>1, <2>2 DEF TypeOK, TableEnds, workerVars, outVars
  <1>6. CASE PushValue
    BY <1>6 DEF TypeOK, PushValue, PushingValue, Pushing, Pushed, HasRoom,
                workerVars, outVars, Inputs
  <1>7. CASE PushFails
    BY <1>7 DEF TypeOK, PushFails, Return, workerVars, outVars
  <1>8. CASE ScanFails
    BY <1>8 DEF TypeOK, ScanFails, Return, workerVars, outVars
  <1>9. CASE CloseInput
    BY <1>9 DEF TypeOK, CloseInput, workerVars, outVars
  <1>10. CASE WorkersFailed
    BY <1>10 DEF TypeOK, WorkersFailed, Return, workerVars, outVars
  <1>11. CASE Output
    BY <1>11 DEF TypeOK, Output, Heard, Return, workerVars
  <1>12. ASSUME NEW w \in Workers, Receive(w) PROVE TypeOK'
    <2>1. Head(inputChan) \in Inputs /\ Tail(inputChan) \in Seq(Inputs)
          /\ Len(Tail(inputChan)) <= InputCap
      BY <1>12 DEF TypeOK, Receive
    <2>2. data' \in [Workers -> 0 .. Last] /\ det' \in [Workers -> 1 .. Detectors]
          /\ worker' \in [Workers -> {"none", "recv", "detect", "ended"}]
      <3>1. Head(inputChan) \in 0 .. Last /\ 1 \in 1 .. Detectors
        BY <2>1 DEF Inputs
      <3>2. CASE Kind[Head(inputChan)] = "blank"
        BY <1>12, <3>2 DEF TypeOK, Receive
      <3>3. CASE Kind[Head(inputChan)] # "blank"
        BY <1>12, <3>1, <3>3 DEF TypeOK, Receive
      <3> QED
        BY <3>2, <3>3
    <2>3. \A v \in Workers : worker'[v] = "detect" => data'[v] \in Inputs
      BY <1>12, <2>1 DEF TypeOK, Receive
    <2> QED
      BY <1>12, <2>1, <2>2, <2>3, SMTT(40) DEF TypeOK, Receive, outVars
  <1>13. ASSUME NEW w \in Workers, Detect(w) PROVE TypeOK'
    <2>1. holding' \in Outputs \cup {None}
      BY <1>13 DEF TypeOK, Detect, Send, Outputs
    <2>2. det' \in [Workers -> 1 .. Detectors]
          /\ worker' \in [Workers -> {"none", "recv", "detect", "ended"}]
      <3>1. CASE LastDetector(w)
        BY <1>13, <3>1 DEF TypeOK, Detect
      <3>2. CASE ~LastDetector(w)
        <4>1. det[w] \in 1 .. Detectors /\ det[w] # Detectors
          BY <3>2 DEF TypeOK, LastDetector
        <4>2. det[w] + 1 \in 1 .. Detectors
          BY <4>1
        <4> QED
          BY <1>13, <3>2, <4>2 DEF TypeOK, Detect
      <3> QED
        BY <3>1, <3>2
    <2>3. \A v \in Workers : worker'[v] = "detect" => data'[v] \in Inputs
      BY <1>13 DEF TypeOK, Detect
    <2> QED
      BY <1>13, <2>1, <2>2, <2>3 DEF TypeOK, Detect
  <1>14. ASSUME NEW w \in Workers, DetectFails(w) \/ WorkerEnds(w) PROVE TypeOK'
    BY <1>14, ZenonT(40) DEF TypeOK, DetectFails, WorkerEnds, outVars
  <1>15. CASE GroupDone
    BY <1>15 DEF TypeOK, GroupDone, workerVars, outVars
  <1>16. CASE Merge
    BY <1>16 DEF TypeOK, Merge, workerVars
  <1>17. CASE UNCHANGED vars
    BY <1>17 DEF TypeOK, vars
  <1> QED
    BY <1>1, <1>2, <1>3, <1>4, <1>5, <1>6, <1>7, <1>8, <1>9, <1>10, <1>11,
       <1>12, <1>13, <1>14, <1>15, <1>16, <1>17
    DEF Next, Scanner, Worker, Trouble

\* TypeOK: the channels stay within their capacities and every goroutine is
\* at a place it can be at, for any instance.
THEOREM TypeCorrect == Spec => []TypeOK
  <1>1. Init => TypeOK
    BY InitInv DEF Inv
  <1> QED
    BY <1>1, TypeStep, PTL DEF Spec

\* A worker that does not idle in a finished pool: nothing has been reported.
LEMMA BusyWorker ==
  ASSUME ErrorChanInv, MetaInv, ResultInv, NEW w \in Workers,
         worker[w] \in {"recv", "detect"}
  PROVE  errorChan = "empty" /\ ~meta /\ result # "ok" /\ ~outClosed
  BY DEF ErrorChanInv, MetaInv, ResultInv, AllEnded

LEMMA InvStep == Inv /\ [Next]_vars => Inv'
  <1> SUFFICES ASSUME Inv, [Next]_vars PROVE Inv'
    OBVIOUS
  <1> USE DEF Inv
  <1>0. TypeOK'
    BY TypeStep
  <1> SUFFICES (ErrorChanInv /\ MetaInv /\ ResultInv)'
    BY <1>0
  <1>1. CASE AllExcluded
    BY <1>1 DEF TypeOK, AllExcluded, Return, workerVars, outVars,
                ErrorChanInv, MetaInv, ResultInv, AllEnded
  <1>2. CASE Start
    BY <1>2 DEF TypeOK, Start, outVars, ErrorChanInv, MetaInv, ResultInv, AllEnded
  <1>3. CASE StartFails
    BY <1>3 DEF TypeOK, StartFails, Return, outVars, ErrorChanInv, MetaInv,
                ResultInv, AllEnded
  <1>4. CASE PushColumn
    BY <1>4 DEF TypeOK, PushColumn, Pushing, Send, workerVars, ErrorChanInv,
                MetaInv, ResultInv, AllEnded
  <1>5. CASE PassOver \/ RowsEndEarly
    BY <1>5 DEF TypeOK, PassOver, RowsEndEarly, PushingValue, TableEnds, workerVars,
                outVars, ErrorChanInv, MetaInv, ResultInv, AllEnded
  <1>6. CASE PushValue
    BY <1>6 DEF TypeOK, PushValue, workerVars, outVars, ErrorChanInv, MetaInv,
                ResultInv, AllEnded
  <1>7. CASE PushFails
    BY <1>7 DEF TypeOK, PushFails, PushingValue, Pushing, Return, workerVars,
                outVars, ErrorChanInv, MetaInv, ResultInv, AllEnded
  <1>8. CASE ScanFails
    BY <1>8 DEF TypeOK, ScanFails, Pushing, Return, workerVars, outVars,
                ErrorChanInv, MetaInv, ResultInv, AllEnded
  <1>9. CASE CloseInput
    BY <1>9 DEF TypeOK, CloseInput, workerVars, outVars, ErrorChanInv, MetaInv,
                ResultInv, AllEnded
  <1>10. CASE WorkersFailed
    BY <1>10 DEF TypeOK, WorkersFailed, Heard, Return, workerVars, outVars,
                 ErrorChanInv, MetaInv, ResultInv, AllEnded
  <1>11. CASE Output
    BY <1>11 DEF TypeOK, Output, Heard, Return, workerVars,
                 ErrorChanInv, MetaInv, ResultInv, AllEnded
  <1>12. ASSUME NEW w \in Workers, Worker(w) \/ DetectFails(w)
         PROVE  (ErrorChanInv /\ MetaInv /\ ResultInv)'
    <2>1. worker[w] \in {"recv", "detect"}
      BY <1>12 DEF Worker, Receive, Detect, DetectFails, WorkerEnds
    <2>2. errorChan = "empty" /\ ~meta /\ result # "ok" /\ ~outClosed
      BY <2>1, BusyWorker
    <2>3. UNCHANGED <<errorChan, meta, result, outClosed, scanner, inClosed>>
      BY <1>12 DEF Worker, Receive, Detect, DetectFails, WorkerEnds, outVars
    <2> QED
      BY <2>2, <2>3 DEF ErrorChanInv, MetaInv, ResultInv
  <1>13. CASE GroupDone
    BY <1>13 DEF TypeOK, GroupDone, workerVars, outVars, ErrorChanInv, MetaInv,
                 ResultInv, AllEnded
  <1>14. CASE Merge
    BY <1>14 DEF TypeOK, Merge, workerVars, ErrorChanInv, MetaInv, ResultInv, AllEnded
  <1>15. CASE UNCHANGED vars
    BY <1>15 DEF TypeOK, vars, ErrorChanInv, MetaInv, ResultInv, AllEnded
  <1> QED
    BY <1>1, <1>2, <1>3, <1>4, <1>5, <1>6, <1>7, <1>8, <1>9, <1>10, <1>11,
       <1>12, <1>13, <1>14, <1>15
    DEF Next, Scanner, Trouble

LEMMA Invariance == Spec => []Inv
  BY InitInv, InvStep, PTL DEF Spec

\* ErrorsSurface: whoever reads the error channel, and whenever the workers
\* fail, a scan with a failed worker is never reported to have ended well.
THEOREM ErrorsSurfaceHolds == Spec => []ErrorsSurface
  <1>1. Inv => ErrorsSurface
    BY DEF Inv, ResultInv, ErrorsSurface
  <1> QED
    BY Invariance, <1>1, PTL

\* NoSendOnClosed: the output channel is closed only when no worker can send.
THEOREM NoSendOnClosedHolds == Spec => []NoSendOnClosed
  <1>1. Inv => NoSendOnClosed
    BY DEF Inv, TypeOK, ResultInv, MetaInv, AllEnded, NoSendOnClosed
  <1> QED
    BY Invariance, <1>1, PTL
-----------------------------------------------------------------------------
(* Every output arrives once.                                                *)

\* Where a value is while its outputs are on the way.
Queued(s)  == {s[k] : k \in 1 .. Len(s)}
Single(s)  == \A k, l \in 1 .. Len(s) : s[k] = s[l] => k = l
InHand(w, i) == worker[w] = "detect" /\ data[w] = i

\* An output its input is worth, one that is due, one that is still to come,
\* and how often one came.
Worthy(o) ==
    \/ Kind[o[1]] = "column" /\ o[2] = 0
    \/ Kind[o[1]] = "value" /\ o[2] # 0
Due(o)   == o[1] \in pushed /\ Worthy(o)
Todo(o)  ==
    \/ o[1] \in Queued(inputChan) /\ Kind[o[1]] = "value" /\ o[2] # 0
    \/ \E w \in Workers : InHand(w, o[1]) /\ det[w] <= o[2]
Came(o)  == merged[o] + (IF o = holding THEN 1 ELSE 0)

\* A value that was pushed is in at most one place.
OnePlace ==
    /\ \A i \in pushed : i < next
    /\ Queued(inputChan) \subseteq {i \in pushed : Kind[i] # "column"}
    /\ Single(inputChan)
    /\ \A w \in Workers : worker[w] = "detect" =>
         data[w] \in pushed \ Queued(inputChan) /\ Kind[data[w]] = "value"
    /\ \A v, w \in Workers :
         worker[v] = "detect" /\ worker[w] = "detect" /\ data[v] = data[w] => v = w

\* A worker stops without an error only when there is nothing left to take.
StopsLate ==
    /\ scanner = "start" => \A w \in Workers : worker[w] = "none"
    /\ meta => inputChan = <<>>
    /\ ~groupErr /\ (\E w \in Workers : worker[w] = "ended") => inClosed /\ inputChan = <<>>

\* As long as no worker has failed, no output is lost and none doubled.
Balanced ==
    ~groupErr => \A o \in Outputs :
        /\ Todo(o) => Due(o) /\ Came(o) = 0
        /\ ~Todo(o) => Came(o) = IF Due(o) THEN 1 ELSE 0

DeliveryInv == Inv /\ OnePlace /\ StopsLate /\ Balanced

LEMMA OutputFacts ==
  ASSUME NEW o \in Outputs
  PROVE  /\ o[1] \in Inputs /\ o[2] \in 0 .. Detectors /\ o = <<o[1], o[2]>>
         /\ o # None
  BY InputAssumption DEF Outputs, None, Inputs

LEMMA WorthFacts ==
  ASSUME NEW o \in Outputs, NEW i \in Inputs
  PROVE  o \in Worth(i) <=> o[1] = i /\ Worthy(o)
  <1>1. o[2] \in 0 .. Detectors /\ o = <<o[1], o[2]>>
    BY OutputFacts
  <1>2. Detectors \in Nat \ {0}
    BY CapAssumption
  <1>3. CASE Kind[i] = "column"
    BY <1>1, <1>3 DEF Worth, Worthy
  <1>4. CASE Kind[i] = "value"
    <2>1. Worth(i) = {<<i, d>> : d \in 1 .. Detectors}
      BY <1>4 DEF Worth
    <2>2. o[2] # 0 <=> o[2] \in 1 .. Detectors
      BY <1>1, <1>2
    <2> QED
      BY <1>1, <1>4, <2>1, <2>2 DEF Worthy
  <1>5. CASE Kind[i] = "blank"
    BY <1>1, <1>5 DEF Worth, Worthy
  <1> QED
    BY <1>3, <1>4, <1>5, InputAssumption

LEMMA QueuedAppend ==
  ASSUME NEW s \in Seq(Inputs), NEW i \in Inputs, i \notin Queued(s), Single(s)
  PROVE  Queued(Append(s, i)) = Queued(s) \cup {i} /\ Single(Append(s, i))
  <1>1. /\ Len(s) \in Nat /\ Len(Append(s, i)) = Len(s) + 1
        /\ \A k \in 1 .. Len(s) : Append(s, i)[k] = s[k]
        /\ Append(s, i)[Len(s) + 1] = i
        /\ \A k \in 1 .. Len(s) + 1 : k \in 1 .. Len(s) \/ k = Len(s) + 1
        /\ \A k \in 1 .. Len(s) : k \in 1 .. Len(s) + 1
        /\ Len(s) + 1 \in 1 .. Len(s) + 1
    OBVIOUS
  <1>2. Queued(Append(s, i)) = Queued(s) \cup {i}
    BY <1>1 DEF Queued
  <1>3. Single(Append(s, i))
    BY <1>1 DEF Single, Queued
  <1> QED
    BY <1>2, <1>3

LEMMA QueuedTail ==
  ASSUME NEW s \in Seq(Inputs), s # <<>>, Single(s)
  PROVE  /\ Queued(s) = Queued(Tail(s)) \cup {Head(s)}
         /\ Head(s) \notin Queued(Tail(s)) /\ Single(Tail(s))
  <1>1. /\ Len(s) \in Nat /\ Head(s) = s[1] /\ 1 \in 1 .. Len(s)
        /\ Tail(s) \in Seq(Inputs) /\ Len(Tail(s)) = Len(s) - 1
        /\ \A k \in 1 .. Len(s) - 1 :
              Tail(s)[k] = s[k + 1] /\ k + 1 \in 1 .. Len(s) /\ k + 1 # 1
        /\ \A k \in 1 .. Len(s) : k = 1 \/ (k - 1 \in 1 .. Len(s) - 1 /\ (k - 1) + 1 = k)
    OBVIOUS
  <1>2. Queued(s) \subseteq Queued(Tail(s)) \cup {Head(s)}
    <2> SUFFICES ASSUME NEW k \in 1 .. Len(s), k # 1
                 PROVE  s[k] \in Queued(Tail(s))
      BY <1>1 DEF Queued
    <2>1. k - 1 \in 1 .. Len(Tail(s)) /\ Tail(s)[k - 1] = s[k]
      BY <1>1
    <2> QED
      BY <2>1 DEF Queued
  <1>3. Queued(Tail(s)) \cup {Head(s)} \subseteq Queued(s)
    BY <1>1 DEF Queued
  <1>4. Head(s) \notin Queued(Tail(s))
    BY <1>1 DEF Queued, Single
  <1>5. Single(Tail(s))
    <2> SUFFICES ASSUME NEW k \in 1 .. Len(Tail(s)), NEW l \in 1 .. Len(Tail(s)),
                        Tail(s)[k] = Tail(s)[l]
                 PROVE  k = l
      BY DEF Single
    <2>1. k + 1 = l + 1
      BY <1>1 DEF Single
    <2> QED
      BY <1>1, <2>1
  <1> QED
    BY <1>2, <1>3, <1>4, <1>5

LEMMA DeliveryInit == Init => DeliveryInv
  <1> SUFFICES ASSUME Init PROVE DeliveryInv
    OBVIOUS
  <1>1. Queued(<<>>) = {} /\ Single(<<>>)
    BY DEF Queued, Single
  <1>2. OnePlace /\ StopsLate
    BY <1>1 DEF Init, OnePlace, StopsLate
  <1>3. Balanced
    BY <1>1, OutputFacts DEF Init, Balanced, Todo, Due, Came, InHand
  <1> QED
    BY <1>2, <1>3, InitInv DEF DeliveryInv

\* What the values on their way and what came of them depend on.
onTheWay == <<inputChan, worker, data, det, groupErr, holding, merged, pushed, meta>>

LEMMA Elsewhere ==
  ASSUME DeliveryInv, Inv', UNCHANGED onTheWay, next' >= next,
         inClosed => inClosed', scanner' = "start" => scanner = "start"
  PROVE  DeliveryInv'
  <1>1. next \in Nat /\ next' \in Nat /\ pushed \subseteq Nat
    BY InputAssumption DEF DeliveryInv, Inv, TypeOK, Inputs
  <1>2. OnePlace'
    BY <1>1 DEF onTheWay, DeliveryInv, OnePlace
  <1>3. StopsLate'
    BY DEF onTheWay, DeliveryInv, StopsLate
  <1>4. Balanced'
    BY DEF onTheWay, DeliveryInv, Balanced, Todo, Due, Came, InHand
  <1> QED
    BY <1>2, <1>3, <1>4 DEF DeliveryInv

LEMMA DeliveryStep == DeliveryInv /\ [Next]_vars => DeliveryInv'
  <1> SUFFICES ASSUME DeliveryInv, [Next]_vars PROVE DeliveryInv'
    OBVIOUS
  <1>1. Inv /\ Inv' /\ OnePlace /\ StopsLate /\ Balanced
    BY InvStep DEF DeliveryInv
  <1>2. /\ next \in Nat /\ pushed \subseteq Inputs /\ Inputs \subseteq Nat
        /\ inputChan \in Seq(Inputs)
        /\ worker \in [Workers -> {"none", "recv", "detect", "ended"}]
        /\ data \in [Workers -> 0 .. Last] /\ det \in [Workers -> 1 .. Detectors]
        /\ merged \in [Outputs -> Nat] /\ holding \in Outputs \cup {None}
        /\ Detectors \in Nat \ {0} /\ Last \in Nat /\ groupErr \in BOOLEAN
    BY <1>1, InputAssumption, CapAssumption, SMTT(40) DEF Inv, TypeOK, Inputs
  <1>3. /\ None \notin Outputs
        /\ \A o \in Outputs : o[1] \in Inputs /\ o[2] \in 0 .. Detectors /\ o = <<o[1], o[2]>>
    BY OutputFacts
  <1>4. CASE \/ AllExcluded \/ PushFails \/ ScanFails \/ CloseInput \/ WorkersFailed
             \/ Output \/ GroupDone \/ UNCHANGED vars
    <2>1. /\ UNCHANGED onTheWay /\ UNCHANGED next
          /\ scanner' = "start" => scanner = "start"
      BY <1>4 DEF AllExcluded, PushFails, ScanFails, CloseInput, WorkersFailed, Output,
                  GroupDone, vars, Return, onTheWay, workerVars, outVars
    <2>2. inClosed => inClosed'
      BY <1>1, <1>4 DEF AllExcluded, PushFails, ScanFails, CloseInput, WorkersFailed,
                  Output, GroupDone, vars, Inv, ResultInv
    <2> QED
      BY <1>1, <1>2, <2>1, <2>2, Elsewhere
  <1>5. CASE PassOver \/ RowsEndEarly
    <2>1. UNCHANGED onTheWay /\ UNCHANGED <<inClosed, scanner>> /\ next' \in next + 1 .. Last + 1
      BY <1>5 DEF PassOver, RowsEndEarly, TableEnds, onTheWay, workerVars, outVars
    <2> QED
      BY <1>1, <1>2, <2>1, Elsewhere
  <1>6. CASE Start \/ StartFails
    <2>1. /\ \A w \in Workers : worker[w] = "none" /\ worker'[w] \in {"none", "recv"}
          /\ scanner' # "start"
          /\ UNCHANGED <<inputChan, data, det, groupErr, holding, merged, pushed, meta,
                         next, inClosed>>
      BY <1>1, <1>6 DEF Start, StartFails, StopsLate, Return, outVars
    <2>2. OnePlace' /\ StopsLate'
      BY <1>1, <2>1 DEF OnePlace, StopsLate
    <2>3. Balanced'
      BY <1>1, <2>1 DEF Balanced, Todo, Due, Came, InHand
    <2> QED
      BY <1>1, <2>2, <2>3 DEF DeliveryInv
  <1>7. CASE PushColumn
    \* The name goes straight to OutputRunner.
    <2>1. /\ next \in Inputs /\ Kind[next] = "column" /\ next' = next + 1
          /\ pushed' = pushed \cup {next}
          /\ holding = None /\ holding' = <<next, 0>>
          /\ UNCHANGED <<meta, scanner, inputChan, inClosed, worker, data, det, groupErr, merged>>
      BY <1>7 DEF PushColumn, Pushing, Pushed, Send, workerVars
    <2>2. next \notin pushed
      BY <1>1, <1>2 DEF OnePlace
    <2>3. OnePlace' /\ StopsLate'
      BY <1>1, <1>2, <2>1 DEF OnePlace, StopsLate
    <2>4. ASSUME ~groupErr', NEW o \in Outputs
          PROVE  /\ (Todo(o) => Due(o) /\ Came(o) = 0)'
                 /\ (~Todo(o) => Came(o) = IF Due(o) THEN 1 ELSE 0)'
      <3>1. /\ Todo(o) => Due(o) /\ Came(o) = 0
            /\ ~Todo(o) => Came(o) = IF Due(o) THEN 1 ELSE 0
            /\ Todo(o)' <=> Todo(o)
        BY <1>1, <2>1, <2>4 DEF Balanced, Todo, InHand
      <3>2. CASE o[1] = next
        <4>1. ~Due(o) /\ ~Todo(o) /\ merged[o] = 0
          BY <1>2, <1>3, <2>1, <2>2, <3>1, <3>2 DEF Due, Came
        <4>2. Due(o)' <=> o[2] = 0
          BY <2>1, <3>2 DEF Due, Worthy
        <4>3. o = holding' <=> o[2] = 0
          BY <1>3, <2>1, <3>2
        <4> QED
          BY <2>1, <3>1, <4>1, <4>2, <4>3 DEF Came
      <3>3. CASE o[1] # next
        <4>1. (Due(o)' <=> Due(o)) /\ o # holding' /\ o # holding
          BY <1>3, <2>1, <3>3 DEF Due
        <4> QED
          BY <2>1, <3>1, <4>1 DEF Came
      <3> QED
        BY <3>2, <3>3
    <2> QED
      BY <1>1, <2>3, <2>4 DEF DeliveryInv, Balanced
  <1>8. CASE PushValue
    <2>1. /\ next \in Inputs /\ Kind[next] # "column" /\ ~meta /\ scanner = "push"
          /\ next' = next + 1 /\ pushed' = pushed \cup {next}
          /\ inputChan' = Append(inputChan, next)
          /\ UNCHANGED <<meta, scanner, inClosed, worker, data, det, groupErr, holding, merged>>
      BY <1>8 DEF PushValue, PushingValue, Pushing, Pushed, workerVars, outVars
    <2>2. next \notin pushed /\ next \notin Queued(inputChan)
      BY <1>1, <1>2 DEF OnePlace
    <2>3. Queued(inputChan') = Queued(inputChan) \cup {next} /\ Single(inputChan')
      BY <1>1, <1>2, <2>1, <2>2, QueuedAppend DEF OnePlace
    <2>4. OnePlace'
      BY <1>1, <1>2, <2>1, <2>2, <2>3 DEF OnePlace
    <2>5. StopsLate'
      \* While the scan pushes, inputChan is open, so no worker has stopped.
      BY <1>1, <2>1 DEF StopsLate, Inv, ResultInv
    <2>6. ASSUME ~groupErr', NEW o \in Outputs
          PROVE  /\ (Todo(o) => Due(o) /\ Came(o) = 0)'
                 /\ (~Todo(o) => Came(o) = IF Due(o) THEN 1 ELSE 0)'
      <3>1. /\ Todo(o) => Due(o) /\ Came(o) = 0
            /\ ~Todo(o) => Came(o) = IF Due(o) THEN 1 ELSE 0
            /\ Came(o)' = Came(o)
        BY <1>1, <2>1, <2>6 DEF Balanced, Came
      <3>2. CASE o[1] = next
        <4>1. ~Due(o)
          BY <2>2, <3>2 DEF Due
        <4>2. \A w \in Workers : ~InHand(w, o[1])
          BY <1>1, <2>2, <3>2 DEF OnePlace, InHand
        <4>3. Todo(o)' <=> Worthy(o)
          BY <2>1, <2>3, <3>2, <4>2 DEF Todo, Worthy, InHand
        <4>4. Due(o)' <=> Worthy(o)
          BY <2>1, <3>2 DEF Due, Worthy
        <4> QED
          BY <3>1, <4>1, <4>3, <4>4
      <3>3. CASE o[1] # next
        <4>1. (Due(o)' <=> Due(o)) /\ (Todo(o)' <=> Todo(o))
          BY <2>1, <2>3, <3>3 DEF Due, Todo, InHand
        <4> QED
          BY <3>1, <4>1
      <3> QED
        BY <3>2, <3>3
    <2> QED
      BY <1>1, <2>4, <2>5, <2>6 DEF DeliveryInv, Balanced
  <1>9. ASSUME NEW w \in Workers, Receive(w) PROVE DeliveryInv'
    <2>0. PICK i \in Inputs : i = Head(inputChan)
      <3>1. inputChan # <<>>
        BY <1>9 DEF Receive
      <3>2. Head(inputChan) \in Inputs
        BY <1>2, <3>1
      <3> QED
        BY <3>2
    <2>1. /\ worker[w] = "recv" /\ inputChan # <<>> /\ inputChan' = Tail(inputChan)
          /\ UNCHANGED <<meta, scanner, next, inClosed, groupErr, holding, merged, pushed>>
      BY <1>9 DEF Receive, outVars
    <2>2. /\ Queued(inputChan) = Queued(inputChan') \cup {i}
          /\ i \notin Queued(inputChan') /\ Single(inputChan')
      BY <1>1, <1>2, <2>0, <2>1, QueuedTail DEF OnePlace
    <2>3. StopsLate'
      BY <1>1, <1>2, <1>9, <2>1 DEF StopsLate, Receive
    <2>4. CASE Kind[i] = "blank"
      <3>1. UNCHANGED <<worker, data, det>>
        BY <1>9, <2>0, <2>4 DEF Receive
      <3>2. OnePlace'
        BY <1>1, <2>1, <2>2, <3>1 DEF OnePlace
      <3>3. \A o \in Outputs : (Todo(o)' <=> Todo(o)) /\ (Due(o)' <=> Due(o)) /\ Came(o)' = Came(o)
        BY <2>1, <2>2, <2>4, <3>1 DEF Todo, Due, Came, InHand
      <3> QED
        BY <1>1, <2>1, <2>3, <3>2, <3>3 DEF DeliveryInv, Balanced
    <2>5. CASE Kind[i] # "blank"
      <3>1. /\ worker' = [worker EXCEPT ![w] = "detect"]
            /\ data' = [data EXCEPT ![w] = i] /\ det' = [det EXCEPT ![w] = 1]
        BY <1>9, <2>0, <2>5 DEF Receive
      <3>2. i \in pushed /\ i \in Inputs /\ Kind[i] = "value"
        BY <1>1, <1>2, <2>2, <2>5, InputAssumption DEF OnePlace
      <3>3. OnePlace'
        BY <1>1, <1>2, <2>1, <2>2, <3>1, <3>2, SMTT(40) DEF OnePlace
      <3>4. ASSUME NEW o \in Outputs
            PROVE  (Todo(o)' <=> Todo(o)) /\ (Due(o)' <=> Due(o)) /\ Came(o)' = Came(o)
        <4>1. InHand(w, i)' /\ det'[w] = 1 /\ (\A v \in Workers : ~InHand(v, i))
          BY <1>1, <1>2, <2>2, <3>1 DEF InHand, OnePlace
        <4>2. \A v \in Workers \ {w} :
                (InHand(v, o[1])' <=> InHand(v, o[1])) /\ det'[v] = det[v]
          BY <1>2, <3>1 DEF InHand
        <4>3. InHand(w, o[1])' <=> o[1] = i
          BY <1>2, <3>1 DEF InHand
        <4>4. o[2] # 0 <=> 1 <= o[2]
          BY <1>2, <1>3, SMTT(40)
        <4>5. ~InHand(w, o[1])
          BY <2>1 DEF InHand
        <4>6. CASE o[1] = i
          <5>1. Todo(o) <=> o[2] # 0
            BY <2>2, <3>2, <4>1, <4>6 DEF Todo
          <5>2. Todo(o)' <=> 1 <= o[2]
            BY <2>2, <4>1, <4>2, <4>6 DEF Todo
          <5> QED
            BY <2>1, <4>4, <5>1, <5>2 DEF Due, Came
        <4>7. CASE o[1] # i
          <5>1. Todo(o)' <=> Todo(o)
            BY <2>2, <4>2, <4>3, <4>5, <4>7 DEF Todo
          <5> QED
            BY <2>1, <5>1 DEF Due, Came
        <4> QED
          BY <4>6, <4>7
      <3> QED
        BY <1>1, <2>1, <2>3, <3>3, <3>4 DEF DeliveryInv, Balanced
    <2> QED
      BY <2>4, <2>5
  <1>10. ASSUME NEW w \in Workers, Detect(w) PROVE DeliveryInv'
    <2> DEFINE out == <<data[w], det[w]>>
    <2>1. /\ worker[w] = "detect" /\ holding = None /\ holding' = out
          /\ UNCHANGED <<meta, scanner, next, inputChan, inClosed, data, groupErr, merged, pushed>>
          /\ \/ det[w] = Detectors /\ worker' = [worker EXCEPT ![w] = "recv"] /\ UNCHANGED det
             \/ /\ det[w] # Detectors /\ det' = [det EXCEPT ![w] = det[w] + 1]
                /\ UNCHANGED worker
      BY <1>10 DEF Detect, Send, LastDetector
    <2>2. /\ data[w] \in pushed /\ Kind[data[w]] = "value" /\ data[w] \notin Queued(inputChan)
          /\ det[w] \in Nat \ {0} /\ \A v \in Workers \ {w} : ~InHand(v, data[w])
      BY <1>1, <1>2, <2>1 DEF OnePlace, InHand
    <2>3. OnePlace' /\ StopsLate'
      <3>1. \A v \in Workers :
              /\ worker'[v] = "detect" => worker[v] = "detect"
              /\ worker'[v] = "ended" => worker[v] = "ended"
        BY <1>2, <2>1
      <3> QED
        BY <1>1, <2>1, <3>1 DEF OnePlace, StopsLate
    <2>4. ASSUME ~groupErr', NEW o \in Outputs
          PROVE  /\ (Todo(o) => Due(o) /\ Came(o) = 0)'
                 /\ (~Todo(o) => Came(o) = IF Due(o) THEN 1 ELSE 0)'
      <3>1. /\ Todo(o) => Due(o) /\ Came(o) = 0
            /\ ~Todo(o) => Came(o) = IF Due(o) THEN 1 ELSE 0
            /\ Due(o)' <=> Due(o)
        BY <1>1, <2>1, <2>4 DEF Balanced, Due
      <3>2. \A v \in Workers \ {w} :
              (InHand(v, o[1])' <=> InHand(v, o[1])) /\ det'[v] = det[v]
        BY <1>2, <2>1 DEF InHand
      <3>3. CASE o[1] # data[w]
        <4>1. ~InHand(w, o[1]) /\ ~InHand(w, o[1])'
          BY <2>1, <3>3 DEF InHand
        <4>2. Todo(o)' <=> Todo(o)
          BY <2>1, <3>2, <4>1 DEF Todo
        <4>3. o # out /\ o # None
          BY <1>3, <3>3
        <4> QED
          BY <2>1, <3>1, <4>2, <4>3 DEF Came
      <3>4. CASE o[1] = data[w]
        <4>1. Todo(o) <=> det[w] <= o[2]
          BY <2>1, <2>2, <3>4 DEF Todo, InHand
        <4>2. o[2] \in Nat /\ o[2] <= Detectors /\ o # holding /\ (o = out <=> o[2] = det[w])
          BY <1>2, <1>3, <2>1, <3>4
        <4>3. Todo(o)' <=> Todo(o) /\ o[2] # det[w]
          <5>1. CASE det[w] = Detectors /\ worker' = [worker EXCEPT ![w] = "recv"]
            <6>1. ~InHand(w, o[1])'
              BY <1>2, <5>1 DEF InHand
            <6>2. ~Todo(o)'
              BY <2>1, <2>2, <3>2, <3>4, <6>1 DEF Todo
            <6> QED
              BY <2>2, <4>1, <4>2, <5>1, <6>2
          <5>2. CASE det' = [det EXCEPT ![w] = det[w] + 1] /\ UNCHANGED worker
            <6>1. InHand(w, o[1])' /\ det'[w] = det[w] + 1
              BY <1>2, <2>1, <3>4, <5>2 DEF InHand
            <6>2. Todo(o)' <=> det[w] + 1 <= o[2]
              BY <2>1, <2>2, <3>2, <3>4, <6>1 DEF Todo
            <6> QED
              BY <2>2, <4>1, <4>2, <6>2
          <5> QED
            BY <2>1, <5>1, <5>2
        <4>4. merged[o] \in Nat
          BY <1>2
        <4>5. CASE o[2] = det[w]
          \* The output that goes out now was still to come and comes.
          <5>1. Due(o) /\ merged[o] = 0
            BY <2>2, <3>1, <4>1, <4>2, <4>4, <4>5 DEF Came
          <5> QED
            BY <2>1, <3>1, <4>2, <4>3, <4>5, <5>1 DEF Came
        <4>6. CASE o[2] # det[w]
          BY <2>1, <3>1, <4>2, <4>3, <4>6 DEF Came
        <4> QED
          BY <4>5, <4>6
      <3> QED
        BY <3>3, <3>4
    <2> QED
      BY <1>1, <2>3, <2>4 DEF DeliveryInv, Balanced
  <1>11. ASSUME NEW w \in Workers, DetectFails(w) PROVE DeliveryInv'
    <2>1. /\ worker' = [worker EXCEPT ![w] = "ended"] /\ groupErr' = TRUE /\ scanner' = scanner
          /\ worker[w] = "detect"
          /\ UNCHANGED <<meta, next, inputChan, inClosed, data, det, pushed>>
      BY <1>11 DEF DetectFails
    <2> QED
      BY <1>1, <1>2, <2>1 DEF DeliveryInv, OnePlace, StopsLate, Balanced
  <1>12. ASSUME NEW w \in Workers, WorkerEnds(w) PROVE DeliveryInv'
    <2>1. /\ worker' = [worker EXCEPT ![w] = "ended"] /\ worker[w] = "recv"
          /\ inClosed /\ inputChan = <<>>
          /\ UNCHANGED <<meta, scanner, next, inputChan, inClosed, data, det, groupErr,
                         holding, merged, pushed>>
      BY <1>12 DEF WorkerEnds, outVars
    <2>2. OnePlace' /\ StopsLate'
      BY <1>1, <1>2, <2>1 DEF OnePlace, StopsLate
    <2>3. \A v \in Workers : \A i : InHand(v, i)' <=> InHand(v, i)
      BY <1>2, <2>1 DEF InHand
    <2>4. Balanced'
      BY <1>1, <2>1, <2>3 DEF Balanced, Todo, Due, Came
    <2> QED
      BY <1>1, <2>2, <2>4 DEF DeliveryInv
  <1>13. CASE Merge
    <2>1. /\ holding \in Outputs /\ holding' = None
          /\ merged' = [merged EXCEPT ![holding] = merged[holding] + 1]
          /\ UNCHANGED <<meta, scanner, next, inputChan, inClosed, worker, data, det,
                         groupErr, pushed>>
      BY <1>2, <1>13 DEF Merge, workerVars
    <2>2. OnePlace' /\ StopsLate'
      BY <1>1, <2>1 DEF OnePlace, StopsLate
    <2>3. \A o \in Outputs : Came(o)' = Came(o)
      BY <1>2, <1>3, <2>1 DEF Came
    <2>4. Balanced'
      BY <1>1, <2>1, <2>3 DEF Balanced, Todo, Due, InHand
    <2> QED
      BY <1>1, <2>2, <2>4 DEF DeliveryInv
  <1> QED
    BY <1>4, <1>5, <1>6, <1>7, <1>8, <1>9, <1>10, <1>11, <1>12, <1>13
    DEF Next, Scanner, Worker, Trouble

\* AllDelivered: a scan that ends well has brought each output of each value
\* and column name it pushed to OutputRunner once, whichever worker took it and
\* however the channels filled up (table_scan_worker.go:43-71,
\* table_scan_manager.go:182-191).
THEOREM AllDeliveredHolds == Spec => []AllDelivered
  <1>1. DeliveryInv => AllDelivered
    <2> SUFFICES ASSUME DeliveryInv, result = "ok", NEW o \in Outputs
                 PROVE  Came(o) = IF \E i \in pushed : o \in Worth(i) THEN 1 ELSE 0
      BY DEF AllDelivered, Came
    <2>1. ~groupErr /\ (meta \/ AllEnded) /\ pushed \subseteq Inputs
      BY DEF DeliveryInv, Inv, ResultInv, TypeOK
    <2>2. inputChan = <<>> /\ \A w \in Workers : worker[w] # "detect"
      BY <2>1, WorkerAssumption DEF AllEnded, DeliveryInv, StopsLate, Inv, MetaInv
    <2>3. Queued(inputChan) = {}
      BY <2>2 DEF Queued
    <2>4. ~Todo(o)
      BY <2>2, <2>3 DEF Todo, InHand
    <2>5. Due(o) <=> \E i \in pushed : o \in Worth(i)
      BY <2>1, WorthFacts DEF Due
    <2> QED
      BY <2>1, <2>4, <2>5 DEF DeliveryInv, Balanced
  <1> QED
    BY DeliveryInit, DeliveryStep, <1>1, PTL DEF Spec
=============================================================================
