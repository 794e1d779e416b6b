---------------------------- MODULE SpacyHelper ----------------------------
(***************************************************************************)
(* A worker of the PII scan asks a Python process about one word after the   *)
(* other (spacyDetector.Detect, CmdProcessor.Process).  Between them are a    *)
(* terminal and four goroutines: the worker, one that writes what comes out  *)
(* of inputChan, one that reads what goes into outputChan, one that waits    *)
(* for the process; any of the last three may offer an error on errChan.     *)
(* The three channels are unbuffered: a transfer is one step of both sides.  *)
(***************************************************************************)
EXTENDS Naturals, Sequences

CONSTANT SpTexts    \* sequences over {"word", "EXIT"}: the values of a worker

ASSUME SpTextAssumption == SpTexts \subseteq Seq({"word", "EXIT"})

VARIABLES
    spText,      \* the values
    spAt,        \* the value the worker is at
    spCaller,    \* "starts", "idle", "passes", "waits", "done", "failed", "panicked"
    spCause,     \* why it failed: "", "timeout", "error", "ended", "message"
    spAnswers,   \* the answer used for each value: the number of the value it is to
    spIn, spOut, \* in the terminal: numbers of values, messages
    spHelper,    \* the process: "loads", "serves", "dead"
    spStatus,    \* its exit status, 0 or 1
    spClosed,    \* inputChan and the terminal are closed
    spWriter,    \* inputFunction: at "receives", "writes", "pushes" an error, "ended"
    spReader,    \* outputFunction: at "reads", "sends", "pushes", "ended"
    spWaiter,    \* the goroutine of cmd.Wait: "waits", "pushes", "closes", "ended"
    spLine,      \* what the reader sends
    spMsg        \* what the writer writes

spVars == <<spText, spAt, spCaller, spCause, spAnswers, spIn, spOut, spHelper, spStatus,
            spClosed, spWriter, spReader, spWaiter, spLine, spMsg>>
spHelperVars == <<spIn, spOut, spHelper, spStatus>>
spCallerVars == <<spText, spAt, spCaller, spCause, spAnswers>>

\* A line of the process that starts with a brace: its type and the value it is
\* about.  Lines that do not, among them the terminal's echo of a value, are
\* ignored by the reader: PushValue has taken the opening braces away.
SpLine(type, about) == [type |-> type, about |-> about]
NoLine == SpLine("none", 0)

SpStart(text) ==
    /\ spText = text /\ spAt = 1 /\ spCaller = "starts" /\ spCause = "" /\ spAnswers = <<>>
    /\ spIn = <<>> /\ spOut = <<>> /\ spHelper = "loads" /\ spStatus = 0 /\ spClosed = FALSE
    /\ spWriter = "receives" /\ spReader = "reads" /\ spWaiter = "waits"
    /\ spLine = NoLine /\ spMsg = 0
SpInit == \E text \in SpTexts : SpStart(text)
-----------------------------------------------------------------------------
\* spacy_runner.py.

Says(lines) == spOut' = spOut \o lines
HelperEnds(status) == spHelper' = "dead" /\ spStatus' = status
HelperKept == UNCHANGED <<spCallerVars, spClosed, spWriter, spReader, spWaiter, spLine, spMsg>>

\* Libraries that cannot be imported are told of, in the last line but one.
HelperLoads ==
    /\ spHelper = "loads" /\ UNCHANGED spIn
    /\ \/ /\ Says(<<SpLine("log", 0), SpLine("loaded", 0)>>) /\ spHelper' = "serves"
          /\ UNCHANGED spStatus
       \/ /\ Says(<<SpLine("log", 0), SpLine("error", 0), SpLine("exit", 0)>>)
          /\ HelperEnds(0)
    /\ HelperKept

\* A value EXIT ends it; another is answered after a log, or fails.
HelperAnswers ==
    /\ spHelper = "serves" /\ spIn # <<>>
    /\ spIn' = Tail(spIn)
    /\ LET k == Head(spIn)
       IN IF spText[k] = "EXIT"
          THEN Says(<<SpLine("log", k), SpLine("exit", k)>>) /\ HelperEnds(0)
          ELSE /\ \E type \in {"output", "error"} : Says(<<SpLine("log", k), SpLine(type, k)>>)
               /\ UNCHANGED <<spHelper, spStatus>>
    /\ HelperKept

HelperDies ==
    /\ spHelper # "dead" /\ HelperEnds(1) /\ UNCHANGED <<spIn, spOut>>
    /\ HelperKept
-----------------------------------------------------------------------------
\* The goroutines of CmdProcessor.

\* pushError: somebody takes the error in the worker's selects, or time is up.
ErrorTakenFrom(role) ==
    \/ spWriter = "pushes" /\ role = "writer"
    \/ spReader = "pushes" /\ role = "reader"
    \/ spWaiter = "pushes" /\ role = "waiter"
ErrorLeaves(role) ==
    /\ spWriter' = IF role = "writer" THEN "ended" ELSE spWriter
    /\ spReader' = IF role = "reader" THEN "reads" ELSE spReader
    /\ spWaiter' = IF role = "waiter" THEN "closes" ELSE spWaiter
    /\ UNCHANGED <<spHelperVars, spClosed, spLine, spMsg>>
PushError ==      \* t.C
    \E role \in {"writer", "reader", "waiter"} :
        ErrorTakenFrom(role) /\ ErrorLeaves(role) /\ UNCHANGED spCallerVars

\* inputFunction.  A process that is gone may or may not make the write fail.
WriterWrites ==
    /\ spWriter = "writes"
    /\ IF spReader = "ended" THEN spWriter' = "ended" /\ UNCHANGED spIn
       ELSE \/ /\ ~spClosed
               /\ spWriter' = "receives" /\ spIn' = Append(spIn, spMsg)
            \/ /\ spHelper = "dead"
               /\ spWriter' = "pushes" /\ UNCHANGED spIn
    /\ UNCHANGED <<spCallerVars, spOut, spHelper, spStatus, spClosed, spReader, spWaiter,
                   spLine, spMsg>>
WriterEnds ==
    /\ spWriter = "receives" /\ spClosed
    /\ spWriter' = "ended"
    /\ UNCHANGED <<spCallerVars, spHelperVars, spClosed, spReader, spWaiter, spLine, spMsg>>

\* outputFunction.  What the process said can be read until the terminal closes,
\* and after that as far as it is in the reader's buffer.
ReaderReads ==
    /\ spReader = "reads"
    /\ IF spWriter = "ended" THEN spReader' = "ended" /\ UNCHANGED <<spOut, spLine>>
       ELSE \/ /\ spOut # <<>>
               /\ spReader' = "sends" /\ spLine' = Head(spOut) /\ spOut' = Tail(spOut)
            \/ /\ spClosed \/ (spHelper = "dead" /\ spOut = <<>>)
               /\ spReader' = "pushes" /\ UNCHANGED <<spOut, spLine>>
    /\ UNCHANGED <<spCallerVars, spIn, spHelper, spStatus, spClosed, spWriter, spWaiter, spMsg>>

\* cmd.Wait returns, with an error unless the status is 0; then the deferred calls.
WaiterReturns ==
    /\ spWaiter = "waits" /\ spHelper = "dead"
    /\ spWaiter' = IF spStatus = 0 THEN "closes" ELSE "pushes"
    /\ UNCHANGED <<spCallerVars, spHelperVars, spClosed, spWriter, spReader, spLine, spMsg>>
WaiterCloses ==
    /\ spWaiter = "closes"
    /\ spWaiter' = "ended" /\ spClosed' = TRUE
    /\ UNCHANGED <<spCallerVars, spHelperVars, spWriter, spReader, spLine, spMsg>>
-----------------------------------------------------------------------------
\* The worker.

Kept == UNCHANGED <<spHelperVars, spClosed, spWriter, spReader, spWaiter, spLine, spMsg>>

\* Mutant: the worker goes on to its next value after a failed one.
FailOne(why) ==
    /\ spCause' = why /\ spAt' = spAt + 1
    /\ spCaller' = IF spCaller = "starts" THEN "failed" ELSE "idle"
    /\ spAnswers' = Append(spAnswers, spAt) /\ UNCHANGED spText
\* Start, Process and with it the worker return an error.
Fail(why) ==
    /\ spCause' = why /\ spCaller' = "failed"
    /\ UNCHANGED <<spText, spAt, spAnswers>>

\* Time is up: two minutes for the start, five seconds for a value.
TimeIsUp == spCaller \in {"starts", "passes", "waits"} /\ Fail("timeout") /\ Kept
TakeError ==
    /\ spCaller \in {"starts", "passes", "waits"} /\ Fail("error")
    /\ \E role \in {"writer", "reader", "waiter"} : ErrorTakenFrom(role) /\ ErrorLeaves(role)

LineTaken == spReader = "sends" /\ spReader' = "reads" /\ spLine' = NoLine
             /\ UNCHANGED <<spHelperVars, spClosed, spWriter, spWaiter, spMsg>>

\* waitMethod.
TakeLineAtStart ==
    /\ spCaller = "starts" /\ LineTaken
    /\ CASE spLine.type = "loaded" ->
              spCaller' = "idle" /\ UNCHANGED <<spText, spAt, spCause, spAnswers>>
         [] spLine.type \in {"log", "exit"} -> UNCHANGED spCallerVars
         [] OTHER -> Fail("message")

\* Process: the flags first.  The worker skips no value: empty ones never come here.
NextValue ==
    /\ spCaller = "idle"
    /\ IF spAt > Len(spText)
       THEN spCaller' = "done" /\ UNCHANGED <<spText, spAt, spCause, spAnswers>>
       ELSE IF "ended" \in {spWriter, spReader} THEN Fail("ended")
       ELSE spCaller' = "passes" /\ UNCHANGED <<spText, spAt, spCause, spAnswers>>
    /\ Kept

PassValue ==
    /\ spCaller = "passes" /\ spWriter = "receives" /\ ~spClosed
    /\ spCaller' = "waits" /\ spWriter' = "writes" /\ spMsg' = spAt
    /\ UNCHANGED <<spText, spAt, spCause, spAnswers, spHelperVars, spClosed, spReader, spWaiter,
                   spLine>>
\* inputChan is closed before or while the worker offers its value; Start of
\* TableScanWorker recovers.
SendOnClosed ==
    /\ spCaller = "passes" /\ spClosed
    /\ spCaller' = "panicked"
    /\ UNCHANGED <<spText, spAt, spCause, spAnswers>> /\ Kept

\* skipMethod, and Detect with the answer.
TakeLine ==
    /\ spCaller = "waits" /\ LineTaken
    /\ CASE spLine.type = "output" ->
              /\ spAnswers' = Append(spAnswers, spLine.about)
              /\ spAt' = spAt + 1 /\ spCaller' = "idle" /\ UNCHANGED <<spText, spCause>>
         [] spLine.type = "error" -> Fail("message")
         [] OTHER -> UNCHANGED spCallerVars

SpWorker == TimeIsUp \/ TakeError \/ TakeLineAtStart \/ NextValue \/ PassValue
            \/ SendOnClosed \/ TakeLine
SpNext == SpWorker \/ HelperLoads \/ HelperAnswers \/ HelperDies \/ PushError
          \/ WriterWrites \/ WriterEnds \/ ReaderReads \/ WaiterReturns \/ WaiterCloses
-----------------------------------------------------------------------------
\* A value is judged by the answer to it and by no other, late ones included; a
\* worker that ends well has asked about every value; it meets an error of a
\* goroutine, finds one of them ended or offers its value on the closed inputChan
\* only when the process has ended (CmdProcessor.Process, spacyDetector.Detect).
AnswersBelong ==
    /\ \A i \in DOMAIN spAnswers : spAnswers[i] = i
    /\ spCaller = "done" => Len(spAnswers) = Len(spText)
    /\ spCause \in {"error", "ended"} \/ spCaller = "panicked" => spHelper = "dead"
=============================================================================
