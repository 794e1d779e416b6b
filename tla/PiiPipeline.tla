---------------------------- MODULE PiiPipeline ----------------------------
(***************************************************************************)
(* One PII scan of a database (pkg/piiscanner): the scanning goroutine       *)
(* pushes column names and values, workers run the values through their      *)
(* detectors, and OutputRunner merges what is found into a map.  They are    *)
(* joined by a bounded input channel, an unbuffered output channel and an    *)
(* error channel that speaks once, when the last worker has ended.           *)
(*                                                                           *)
(* Inputs are numbered in the order they are pushed; a value is one line or  *)
(* 512-byte piece as PushValue splits it.  An output is a pair of an input   *)
(* and a detector, 0 being the detector of column names.  Detecting touches  *)
(* nothing shared and is taken together with sending its output.             *)
(***************************************************************************)
EXTENDS Naturals, Sequences, FiniteSets

CONSTANTS
    Last,       \* the inputs of the tables that are scanned are 1 .. Last
    Kind,       \* "column", "value", or "blank" for a piece with nothing in it
    Workers,    \* runners, one per CPU in the code
    Detectors,  \* value detectors, run one after the other
    InputCap    \* capacity of inputChan, 100 in the code

Inputs == 1 .. Last

ASSUME InputAssumption ==
    Last \in Nat /\ Kind \in [Inputs -> {"column", "value", "blank"}]
\* There is a worker: one per CPU (database_scanner.go:148).
ASSUME WorkerAssumption == Workers # {}
ASSUME CapAssumption == Detectors \in Nat \ {0} /\ InputCap \in Nat \ {0}

Outputs == Inputs \X (0 .. Detectors)
None == <<0, 0>>    \* stands for no output

VARIABLES
    meta,        \* the run option is metascan: no detector factory
    scanner,     \* where the scanning goroutine is
    next,        \* the input it pushes next
    result,      \* what the caller of the scan was told
    inputChan,   \* what inputChan holds
    inClosed,    \* inputChan is closed
    worker,      \* where each worker is
    data,        \* the input a worker looks at, 0 for none
    det,         \* the detector it runs next
    groupErr,    \* a worker returned an error to workerGroup
    errorChan,   \* "empty", holding "nil" or "err", or "drained": closed and read
    outClosed,   \* outputChan is closed
    holding,     \* the output OutputRunner has received and not merged yet
    merged,      \* how often each output was merged into t.output
    pushed       \* history: inputs whose push succeeded

workerVars == <<worker, data, det, groupErr>>
outVars    == <<outClosed, holding, merged>>
vars == <<meta, scanner, next, result, inputChan, inClosed, worker, data, det,
          groupErr, errorChan, outClosed, holding, merged, pushed>>

Init ==
    /\ meta \in BOOLEAN
    /\ scanner = "start" /\ next = 1 /\ result = "none"
    /\ inputChan = <<>> /\ inClosed = FALSE
    /\ worker = [w \in Workers |-> "none"]
    /\ data = [w \in Workers |-> 0]
    /\ det = [w \in Workers |-> 1]
    /\ groupErr = FALSE /\ errorChan = "empty"
    /\ outClosed = FALSE /\ holding = None
    /\ merged = [o \in Outputs |-> 0]
    /\ pushed = {}

Return(r) == scanner' = "done" /\ result' = r

\* A value on the unbuffered outputChan passes when OutputRunner receives.
Send(o) == holding = None /\ ~outClosed /\ holding' = o
-----------------------------------------------------------------------------
(* The scanning goroutine: Scan, processTable, the pushes, GetResults. *)

\* Every table is in excludeTable: Start is never called, and Output closes
\* a nil channel, which panics; the recovered panic is the error.
AllExcluded ==
    /\ scanner = "start"
    /\ Return("error")
    /\ UNCHANGED <<meta, next, inputChan, inClosed, workerVars, errorChan,
                   outVars, pushed>>

Start ==
    /\ scanner = "start"
    /\ scanner' = "push"
    /\ worker' = [w \in Workers |-> IF meta THEN "none" ELSE "recv"]
    /\ UNCHANGED <<meta, next, result, inputChan, inClosed, data, det, groupErr,
                   errorChan, outVars, pushed>>

\* A detector's Init fails: the workers whose detectors came up stay behind.
StartFails ==
    /\ scanner = "start" /\ ~meta
    /\ \E up \in SUBSET Workers \ {Workers} :
         worker' = [w \in Workers |-> IF w \in up THEN "recv" ELSE "none"]
    /\ Return("error")
    /\ UNCHANGED <<meta, next, inputChan, inClosed, data, det, groupErr,
                   errorChan, outVars, pushed>>

Pushing == scanner = "push" /\ next \in Inputs
Pushed  == next' = next + 1 /\ pushed' = pushed \cup {next}

\* PushColumn
PushColumn ==
    /\ Pushing /\ Kind[next] = "column"
    /\ Send(<<next, 0>>)
    /\ Pushed
    /\ UNCHANGED <<meta, scanner, result, inputChan, inClosed, workerVars,
                   errorChan, outClosed, merged>>

\* What is left of the table is passed over: next is the first column of the
\* next table.
TableEnds ==
    /\ next' \in next + 1 .. Last + 1
    /\ \A i \in next .. next' - 1 : Kind[i] # "column"
    /\ next' \in Inputs => Kind[next'] = "column"
    /\ UNCHANGED <<meta, scanner, result, inputChan, inClosed, workerVars,
                   errorChan, outVars, pushed>>

\* A metascan ends each table after its columns.
PassOver == Pushing /\ meta /\ Kind[next] # "column" /\ TableEnds

PushingValue == Pushing /\ ~meta /\ Kind[next] # "column"

HasRoom == Len(inputChan) < InputCap

\* case t.inputChan <- input
PushValue ==
    /\ PushingValue /\ HasRoom
    /\ inputChan' = Append(inputChan, next)
    /\ Pushed
    /\ UNCHANGED <<meta, scanner, result, inClosed, workerVars, errorChan,
                   outVars>>

\* The other cases: ten seconds without room, or an end of the workers.  The
\* error makes Scan return.
PushNeverFails == FALSE    \* mutant: a plain send
PushSkips ==        \* mutant: the value is given up, the scan goes on
    /\ PushingValue
    /\ ~HasRoom \/ errorChan # "empty"
    /\ errorChan' = IF errorChan = "empty" THEN "empty" ELSE "drained"
    /\ next' = next + 1
    /\ UNCHANGED <<meta, scanner, result, inputChan, inClosed, workerVars,
                   outVars, pushed>>
PushFails ==
    /\ PushingValue
    /\ ~HasRoom \/ errorChan # "empty"
    /\ errorChan' = IF errorChan = "empty" THEN "empty" ELSE "drained"
    /\ Return("error")
    /\ UNCHANGED <<meta, next, inputChan, inClosed, workerVars, outVars,
                   pushed>>

\* A query or a row fails, and Scan returns the error.
ScanFails ==
    /\ Pushing
    /\ Return("error")
    /\ UNCHANGED <<meta, next, inputChan, inClosed, workerVars, errorChan,
                   outVars, pushed>>

\* rows.Next() is false after an error too, and rows.Err() is not asked; a
\* table can also be empty or the user decline to scan it.
RowsEndEarly == PushingValue /\ TableEnds

\* All tables are done: GetResults calls Output, which closes inputChan and
\* waits for the workers' error; a metascan has none.
CloseInput ==
    /\ scanner = "push" /\ next = Last + 1
    /\ scanner' = IF meta THEN "close" ELSE "await"
    /\ inClosed' = ~meta
    /\ UNCHANGED <<meta, next, result, inputChan, workerVars, errorChan,
                   outVars, pushed>>

NoWait == scanner = "await"    \* mutant: Output looks at errorChan without waiting
Heard  == scanner = "await" /\ errorChan # "empty"

WorkersFailed ==
    /\ Heard /\ errorChan = "err"
    /\ errorChan' = "drained"
    /\ Return("error")
    /\ UNCHANGED <<meta, next, inputChan, inClosed, workerVars, outVars, pushed>>

\* close(t.outputChan); the map is returned as it is.
Output ==
    /\ \/ scanner = "close" /\ UNCHANGED errorChan
       \/ Heard /\ errorChan # "err" /\ errorChan' = "drained"
    /\ outClosed' = TRUE
    /\ Return("ok")
    /\ UNCHANGED <<meta, next, inputChan, inClosed, workerVars, holding, merged,
                   pushed>>
-----------------------------------------------------------------------------
(* TableScanWorker.Start, the goroutine that waits, and OutputRunner. *)

Receive(w) ==
    /\ worker[w] = "recv" /\ inputChan # <<>>
    /\ inputChan' = Tail(inputChan)
    /\ IF Kind[Head(inputChan)] = "blank"
       THEN UNCHANGED <<worker, data, det>>
       ELSE /\ worker' = [worker EXCEPT ![w] = "detect"]
            /\ data' = [data EXCEPT ![w] = Head(inputChan)]
            /\ det' = [det EXCEPT ![w] = 1]
    /\ UNCHANGED <<meta, scanner, next, result, inClosed, groupErr, errorChan,
                   outVars, pushed>>

\* One detector's labels are sent; after the last detector comes the next input.
FirstOnly(w) == TRUE    \* mutant: the first detector that answers is enough
LastDetector(w) == det[w] = Detectors

Detect(w) ==
    /\ worker[w] = "detect" /\ Send(<<data[w], det[w]>>)
    /\ IF LastDetector(w)
       THEN worker' = [worker EXCEPT ![w] = "recv"] /\ UNCHANGED det
       ELSE det' = [det EXCEPT ![w] = @ + 1] /\ UNCHANGED worker
    /\ UNCHANGED <<meta, scanner, next, result, inputChan, inClosed, data,
                   groupErr, errorChan, outClosed, merged, pushed>>

\* A detector fails or panics: the worker ends with the error.
DetectFails(w) ==
    /\ worker[w] = "detect"
    /\ worker' = [worker EXCEPT ![w] = "ended"]
    /\ groupErr' = TRUE
    /\ UNCHANGED <<meta, scanner, next, result, inputChan, inClosed, data, det,
                   errorChan, outVars, pushed>>

\* inputChan is closed and empty.
WorkerEnds(w) ==
    /\ worker[w] = "recv" /\ inClosed /\ inputChan = <<>>
    /\ worker' = [worker EXCEPT ![w] = "ended"]
    /\ UNCHANGED <<meta, scanner, next, result, inputChan, inClosed, data, det,
                   groupErr, errorChan, outVars, pushed>>

\* workerGroup.Wait() returns; the result is sent and errorChan closed.  The
\* goroutine is there once Start has succeeded.
GroupDone ==
    /\ ~meta /\ scanner # "start" /\ errorChan = "empty"
    /\ \A w \in Workers : worker[w] = "ended"
    /\ errorChan' = IF groupErr THEN "err" ELSE "nil"
    /\ UNCHANGED <<meta, scanner, next, result, inputChan, inClosed, workerVars,
                   outVars, pushed>>

\* OutputRunner adds what it received to t.output.
Merge ==
    /\ holding # None
    /\ merged' = [merged EXCEPT ![holding] = @ + 1]
    /\ holding' = None
    /\ UNCHANGED <<meta, scanner, next, result, inputChan, inClosed, workerVars,
                   errorChan, outClosed, pushed>>

Scanner ==
    \/ Start \/ PushColumn \/ PassOver \/ PushValue \/ PushFails \/ CloseInput
    \/ WorkersFailed \/ Output
Worker(w) == Receive(w) \/ Detect(w) \/ WorkerEnds(w)
Trouble ==
    \/ AllExcluded \/ StartFails \/ ScanFails \/ RowsEndEarly
    \/ \E w \in Workers : DetectFails(w)

Next == Scanner \/ (\E w \in Workers : Worker(w)) \/ GroupDone \/ Merge \/ Trouble

Spec == Init /\ [][Next]_vars

\* Every goroutine that can go on does, a detector answers, and a channel lets
\* its waiting senders through in their order.  No trouble is asked for.
LiveSpec ==
    /\ Spec
    /\ SF_vars(Scanner) /\ WF_vars(GroupDone) /\ WF_vars(Merge)
    /\ \A w \in Workers : SF_vars(Worker(w))
-----------------------------------------------------------------------------
TypeOK ==
    /\ meta \in BOOLEAN /\ inClosed \in BOOLEAN /\ outClosed \in BOOLEAN
    /\ groupErr \in BOOLEAN
    /\ scanner \in {"start", "push", "await", "close", "done"}
    /\ next \in 1 .. Last + 1
    /\ result \in {"none", "ok", "error"}
    /\ inputChan \in Seq(Inputs) /\ Len(inputChan) <= InputCap
    /\ worker \in [Workers -> {"none", "recv", "detect", "ended"}]
    /\ data \in [Workers -> 0 .. Last]
    /\ \A w \in Workers : worker[w] = "detect" => data[w] \in Inputs
    /\ det \in [Workers -> 1 .. Detectors]
    /\ errorChan \in {"empty", "nil", "err", "drained"}
    /\ holding \in Outputs \cup {None}
    /\ merged \in [Outputs -> Nat]
    /\ pushed \in SUBSET Inputs

\* The outputs that an input is worth.
Worth(i) ==
    CASE Kind[i] = "column" -> {<<i, 0>>}
      [] Kind[i] = "value"  -> {<<i, d>> : d \in 1 .. Detectors}
      [] OTHER -> {}

\* A scan that ends well has brought every detector's view of everything that
\* was pushed to OutputRunner exactly once, whichever workers took it
\* (table_scan_worker.go:43-71).  The last one may still be in its hands when
\* Output returns the map (table_scan_manager.go:189-191).
AllDelivered ==
    result = "ok" =>
        \A o \in Outputs :
            merged[o] + (IF o = holding THEN 1 ELSE 0)
                = IF \E i \in pushed : o \in Worth(i) THEN 1 ELSE 0

\* No detector's error is lost, whether the push, Output or nobody hears of
\* it: a scan in which a worker failed never ends well
\* (table_scan_manager.go:166-169, 182-187, 270).
ErrorsSurface == result = "ok" => ~groupErr

\* Nothing is sent on a channel that was closed: outputChan is closed only
\* after the last worker has ended (table_scan_manager.go:182-189).
NoSendOnClosed ==
    /\ inClosed => scanner # "push"
    /\ outClosed => \A w \in Workers : worker[w] # "detect"

\* The scan always comes to an end, also when every worker has failed and the
\* input channel is full (table_scan_manager.go:264-271), and one that ended
\* well leaves no goroutine behind (182-191).
ScanEnds ==
    /\ <>(result # "none")
    /\ result = "ok" ~> (meta \/ \A w \in Workers : worker[w] = "ended") /\ holding = None
=============================================================================
