----------------------------- MODULE LogChunks -----------------------------
(***************************************************************************)
(* How the fast log runner (pkg/runner/fastrunner.go) cuts a log file into   *)
(* chunks and which records it parses.  A record is a line with the lines    *)
(* after it that start with a tab.                                           *)
(*                                                                           *)
(* A byte is "n" (newline), "t" (tab) or "x"; a chunk is an interval of      *)
(* positions, for what Process puts together is always contiguous.  Chunks   *)
(* are parsed by goroutines that only count and feed: their order does not   *)
(* matter, and parsing is taken together with cutting the chunk off.         *)
(***************************************************************************)
EXTENDS Integers, Sequences, FiniteSets, FiniteSetsExt

CONSTANTS
    Files,      \* the files looked at, sequences of bytes
    ReadCap     \* the size of a pooled buffer, 250 KiB in the code

ASSUME FileAssumption == \A f \in Files : f \in Seq({"n", "t", "x"})
ASSUME ReadAssumption == ReadCap \in Nat \ {0}

VARIABLES
    file,       \* the content of the log file
    stage,      \* where Process is
    pos,        \* the next byte of the bufio.Reader
    from,       \* the first byte of buf
    to,         \* the last byte of buf
    chunks      \* history: the chunks cut off

vars == <<file, stage, pos, from, to, chunks>>

Bytes == 1 .. Len(file)
-----------------------------------------------------------------------------
(* ChunkProcessor.Parse and mergeContinueLines *)

LineStarts(a, b) == {p \in a .. b : p = a \/ file[p - 1] = "n"}

\* The last byte of the record that starts at p in the chunk a .. b.
RecordEnd(a, b, p) ==
    LET after == {q \in LineStarts(a, b) : q > p /\ file[q] # "t"}
    IN  IF after = {} THEN b ELSE Min(after) - 1

\* What Parse makes of a chunk: empty lines and lines that continue nothing
\* are skipped.
Parsed(a, b) ==
    {<<p, RecordEnd(a, b, p)>> : p \in {q \in LineStarts(a, b) : file[q] = "x"}}
-----------------------------------------------------------------------------
(* ProcessHelper.Process *)

Init ==
    /\ file \in Files
    /\ stage = "open" /\ pos = 1 /\ from = 1 /\ to = 0
    /\ chunks = {}

\* The newline that ends the line at q, or 0 at the end of the file.
Newline(q) ==
    LET ends == {p \in Bytes : p >= q /\ file[p] = "n"}
    IN  IF ends = {} THEN 0 ELSE Min(ends)

\* An empty file, or one written before the time asked for, is ignored;
\* validateFile rejects one without a complete line, or in which too few of
\* the first hundred lines parse.
Ignored ==
    /\ stage = "open"
    /\ stage' = "done"
    /\ UNCHANGED <<file, pos, from, to, chunks>>

Validated ==
    /\ stage = "open" /\ \E p \in LineStarts(1, Len(file)) : file[p] # "t" /\ Newline(p) # 0
    /\ stage' = "read"
    /\ UNCHANGED <<file, pos, from, to, chunks>>

\* r.Read: nothing is buffered at first, so the first read fills the buffer if
\* the file has that much.  What a later one gets depends on what bufio holds
\* and on the length of the buffer: the pool hands out the chunks of before.
Read ==
    /\ stage = "read" /\ pos \in Bytes
    /\ \E n \in 1 .. Len(file) - pos + 1 :
         /\ pos = 1 => n = Min({ReadCap, Len(file)})
         /\ from' = pos /\ to' = pos + n - 1
         /\ pos' = pos + n
    /\ stage' = "line"
    /\ UNCHANGED <<file, chunks>>

\* r.ReadBytes('\n') completes the line; at the end of the file what it
\* returns is not appended.
NoRest == UNCHANGED <<to, pos>>    \* mutant: the chunk ends where the read ended
RestOfLine ==
    IF Newline(pos) = 0
    THEN pos' = Len(file) + 1 /\ UNCHANGED to
    ELSE to' = Newline(pos) /\ pos' = Newline(pos) + 1

CompleteLine ==
    /\ stage = "line"
    /\ RestOfLine
    /\ stage' = "ahead"
    /\ UNCHANGED <<file, from, chunks>>

NeverContinues == FALSE     \* mutant: only the rest of the line is read
Continues == pos \in Bytes /\ file[pos] = "t" /\ Newline(pos) # 0

\* The next line continues the last one.
AppendLine ==
    /\ stage = "ahead" /\ Continues
    /\ to' = Newline(pos) /\ pos' = Newline(pos) + 1
    /\ UNCHANGED <<file, stage, from, chunks>>

\* It does not: the line that was read to find out is kept nowhere
\* (previousLine holds another line, and Read overwrites that), and the chunk
\* goes to Parse.
CutOff ==
    /\ stage = "ahead" /\ ~Continues
    /\ pos' = IF Newline(pos) = 0 THEN Len(file) + 1 ELSE Newline(pos) + 1
    /\ chunks' = chunks \cup {<<from, to>>}
    /\ stage' = "read"
    /\ UNCHANGED <<file, from, to>>

\* Read finds the end of the file.
AtEnd ==
    /\ stage = "read" /\ pos \notin Bytes
    /\ stage' = "done"
    /\ UNCHANGED <<file, pos, from, to, chunks>>

\* The context is cancelled: Process returns, and the caller reports it.
Cancelled ==
    /\ stage = "read"
    /\ stage' = "cancelled"
    /\ UNCHANGED <<file, pos, from, to, chunks>>

Next ==
    \/ Ignored \/ Validated \/ Read \/ CompleteLine \/ AppendLine \/ CutOff
    \/ AtEnd \/ Cancelled

Spec == Init /\ [][Next]_vars
-----------------------------------------------------------------------------
AllRecords == Parsed(1, Len(file))
ParsedRecords == UNION {Parsed(c[1], c[2]) : c \in chunks}
Terminated == file # <<>> /\ file[Len(file)] = "n"

\* Wherever the reads end, no byte is handed to two chunks and no record is
\* torn: what is parsed is a record of the file with every line that continues
\* it (fastrunner.go:194-208), in a file whose last line is complete.
RecordsWhole ==
    /\ \A c, d \in chunks : c # d => c[2] < d[1] \/ d[2] < c[1]
    /\ Terminated => ParsedRecords \subseteq AllRecords

\* A chunk costs at most one record, the one that begins right after it; a file
\* that fits into one read loses nothing, whatever its last line looks like
\* (the files of runner_test.go).
OneLostPerChunk ==
    stage = "done" /\ chunks # {} =>
        /\ Len(file) <= ReadCap => ParsedRecords = AllRecords
        /\ Terminated =>
             \A r \in AllRecords \ ParsedRecords : \E c \in chunks : r[1] = c[2] + 1

\* Both: what is parsed is whole and parsed once, and what is missing follows a
\* chunk (ProcessHelper.Process, fastrunner.go:170-226).
RecordsKept == RecordsWhole /\ OneLostPerChunk

\* Every record of the file is parsed ("Successful parsing", runner_test.go:32).
EveryRecord ==
    stage = "done" /\ chunks # {} /\ Terminated => ParsedRecords = AllRecords
=============================================================================
