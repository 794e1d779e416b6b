---------------------------- MODULE TimeFormats ----------------------------
(***************************************************************************)
(* The time stamps of log lines (baseParser.Parse).  One parser serves all  *)
(* goroutines that parse: one per file when the files of a job are looked   *)
(* at first, one per thirty lines of a chunk later.  It holds two layouts,  *)
(* the one that fitted last and the other; a line that the first does not   *)
(* fit makes it swap them, and is rejected if the swapped one does not fit  *)
(* either.  Nothing guards the two fields.                                  *)
(*                                                                          *)
(* Every line has a time stamp in one of the two layouts.                   *)
(***************************************************************************)
EXTENDS Integers, Sequences, FiniteSets

CONSTANTS
    LogLayouts,   \* the layout of the lines that each reader parses
    TfLines       \* bound: lines of a reader

ASSUME TfAssumption == TfLines \in Nat \ {0}
ASSUME LayoutAssumption ==
    \A files \in LogLayouts : \A f \in DOMAIN files : files[f] \in {"-0700", "MST"}

VARIABLES
    tfFiles,     \* the readers: the layout of their lines
    tfFormat,    \* timeFormat
    tfAlt,       \* timeFormatAlt
    tfAt,        \* what each reader is at
    tfHolds,     \* what it has read of the two fields for the swap
    tfLine,      \* lines it has parsed
    tfRejected,  \* lines it has rejected
    tfCrossed    \* history: the readers whose swap another's overlapped

tfVars == <<tfFiles, tfFormat, tfAlt, tfAt, tfHolds, tfLine, tfRejected, tfCrossed>>

Offset == "-0700"
Zone   == "MST"
Torn   == "torn"
Readers == DOMAIN tfFiles

\* What f may read of a field: half of it, while another goroutine writes it.
Seen(f, field, writing) ==
    {field} \cup (IF \E g \in Readers \ {f} : tfAt[g] = writing THEN {Torn} ELSE {})
Fits(f, layout) == layout = tfFiles[f]

TfStart(files) ==
    /\ tfFiles = files
    /\ tfFormat = Offset /\ tfAlt = Zone
    /\ tfAt = [f \in Readers |-> "line"]
    /\ tfHolds = [f \in Readers |-> <<>>]
    /\ tfLine = [f \in Readers |-> 0]
    /\ tfRejected = [f \in Readers |-> 0]
    /\ tfCrossed = {}

TfInit == \E files \in LogLayouts : TfStart(files)

Swapping(f) == tfAt[f] \in {"swap", "first", "second", "again"}
TfGoes(f, at) == tfAt' = [tfAt EXCEPT ![f] = at]
LineDone(f) == TfGoes(f, "line") /\ tfLine' = [tfLine EXCEPT ![f] = @ + 1]

TryFormat(f) ==
    /\ tfAt[f] = "line" /\ tfLine[f] < TfLines
    /\ \E layout \in Seen(f, tfFormat, "first") :
       IF Fits(f, layout) THEN LineDone(f) /\ UNCHANGED tfCrossed
       ELSE /\ TfGoes(f, "swap")
            /\ tfCrossed' = tfCrossed \cup {g \in Readers \ {f} : Swapping(g)}
                 \cup (IF \E g \in Readers \ {f} : Swapping(g) THEN {f} ELSE {})
            /\ UNCHANGED tfLine
    /\ UNCHANGED <<tfFiles, tfFormat, tfAlt, tfHolds, tfRejected>>

\* b.timeFormat, b.timeFormatAlt = b.timeFormatAlt, b.timeFormat
ReadBoth(f) ==
    /\ tfAt[f] = "swap"
    /\ TfGoes(f, "first")
    /\ \E alt \in Seen(f, tfAlt, "second"), format \in Seen(f, tfFormat, "first") :
         tfHolds' = [tfHolds EXCEPT ![f] = <<alt, format>>]
    /\ UNCHANGED <<tfFiles, tfFormat, tfAlt, tfLine, tfRejected, tfCrossed>>

WriteFormat(f) ==
    /\ tfAt[f] = "first"
    /\ TfGoes(f, "second")
    /\ tfFormat' = tfHolds[f][1]
    /\ UNCHANGED <<tfFiles, tfAlt, tfHolds, tfLine, tfRejected, tfCrossed>>

SwapsBackNot(f) == tfAlt     \* mutant: the old layout is not kept
SwapsBack(f) == tfHolds[f][2]

WriteAlt(f) ==
    /\ tfAt[f] = "second"
    /\ TfGoes(f, "again")
    /\ tfAlt' = SwapsBack(f)
    /\ tfHolds' = [tfHolds EXCEPT ![f] = <<>>]
    /\ UNCHANGED <<tfFiles, tfFormat, tfLine, tfRejected, tfCrossed>>

TryAgain(f) ==
    /\ tfAt[f] = "again"
    /\ LineDone(f)
    /\ \E layout \in Seen(f, tfFormat, "first") :
         tfRejected' = [tfRejected EXCEPT ![f] = IF Fits(f, layout) THEN @ ELSE @ + 1]
    /\ UNCHANGED <<tfFiles, tfFormat, tfAlt, tfHolds, tfCrossed>>

TfNext == \E f \in Readers :
    TryFormat(f) \/ ReadBoth(f) \/ WriteFormat(f) \/ WriteAlt(f) \/ TryAgain(f)

-----------------------------------------------------------------------------
(* Properties. *)

\* A line is rejected only after two swaps have overlapped
\* (logline_prefix_parser.go:264): swaps that keep out of each other's way
\* lose neither a line nor a layout, however the layouts are mixed.  Overlapping
\* ones may lose a layout for good, and with it every line written in it.
LostByCrossing ==
    tfCrossed = {} =>
        /\ \A f \in Readers : tfRejected[f] = 0
        /\ (\A f \in Readers : ~Swapping(f)) => {tfFormat, tfAlt} = {Offset, Zone}
=============================================================================
