------------------------------ MODULE HbaScan ------------------------------
(***************************************************************************)
(* The scan of pg_hba.conf (hbascanner.HBAScanner): nine controls, each     *)
(* answered by a query on pg_hba_file_rules.  When one of the queries fails *)
(* the answers so far are thrown away and the file itself is read and       *)
(* judged line by line, by a second copy of the nine rules.                 *)
(*                                                                          *)
(* A line is a rule or a line without one: blanks only, or a comment that   *)
(* does not start in the first column.  Lines that the reader of the file   *)
(* skips (empty ones, comments in the first column) are left out.           *)
(***************************************************************************)
EXTENDS Integers, Sequences, FiniteSets, SequencesExt

CONSTANTS
    HbaFiles,   \* contents of pg_hba.conf
    HbaEdits    \* bound: edits of the file during a scan

\* The lines there are: a rule has a method, and an address unless it is local.
LineForms ==
    {l \in [type : {"local", "host", "hostssl", "", "#"}, db : STRING, user : STRING,
            addr : {"everyone", "some", ""}, method : STRING, tail : Seq(STRING)] :
       l.type \notin {"", "#"} =>
           /\ l.db # "" /\ l.user # "" /\ l.method # ""
           /\ l.addr = "" <=> l.type = "local"}

ASSUME HbaAssumption == HbaEdits \in Nat /\ HbaFiles \subseteq Seq(LineForms)

VARIABLES
    hbaFile,     \* the file now
    hbaAt,       \* "query", "read", "file", "done"; "exit", "panic": no report
    hbaNext,     \* the control whose turn is next
    hbaRows,     \* the rows read from the file
    hbaResults,  \* listOfResult: a control, and the lines it fails
    hbaEdited    \* edits so far

hbaVars == <<hbaFile, hbaAt, hbaNext, hbaRows, hbaResults, hbaEdited>>

HbaControls == 1 .. 9
Methods == <<"trust", "", "", "md5", "peer", "ident", "password">>

-----------------------------------------------------------------------------
(* Lines.  A database or user column is "all", "one" name, or a list with    *)
(* all among "several"; an address is "everyone", "some", or "" (local).     *)

Rule(type, db, user, addr, method, tail) ==
    [type |-> type, db |-> db, user |-> user, addr |-> addr,
     method |-> method, tail |-> tail]

Blank   == Rule("", "", "", "", "", <<>>)
Comment == Rule("#", "word", "", "", "", <<>>)

\* strings.Fields.
Word(w) == IF w = "" THEN <<>> ELSE <<w>>
Fields(l) == Word(l.type) \o Word(l.db) \o Word(l.user) \o Word(l.addr)
             \o Word(l.method) \o l.tail
IsRule(l) == l.type \notin {"", "#"}

\* The queries.  The view shows an address and its mask in two columns: the
\* ninth never finds anything.
QueryTrustInMethod(l) == l.method = "trust"
QueryNames(column)    == column \in {"all", "several"}
QueryMethod(c, l)     == l.method = Methods[c]
QueryType(l)          == l.type = "host"
QueryIPPrivilege(l)   == FALSE

QueryFinds(c, l) ==
    IsRule(l) /\ CASE c = 1 -> QueryTrustInMethod(l)
                   [] c = 2 -> QueryNames(l.db)
                   [] c = 3 -> QueryNames(l.user)
                   [] c \in 4 .. 7 -> QueryMethod(c, l)
                   [] c = 8 -> QueryType(l)
                   [] c = 9 -> QueryIPPrivilege(l)

\* How many words a control takes for granted.
Needs(c, words) ==
    CASE c = 2 -> 2
      [] c = 3 -> 3
      [] c = 9 -> IF words # <<>> /\ words[1] \in {"host", "hostssl"} THEN 4 ELSE 1
      [] OTHER -> 1

\* The rules on the words of a line: the method is taken to be the last one,
\* and the eighth asks the opposite of its query.
CheckTrustInMethod(words) == Last(words) = "trust"
CheckNames(word)          == word = "all"
CheckMethod(c, words)     == Last(words) = Methods[c]
CheckType(words)          == words[1] # "host"
CheckIPPrivilege(words) ==
    words[1] \in {"host", "hostssl"} /\ words[4] = "everyone"

FileFinds(c, l) ==
    LET words == Fields(l) IN
    CASE c = 1 -> CheckTrustInMethod(words)
      [] c = 2 -> CheckNames(words[2])
      [] c = 3 -> CheckNames(words[3])
      [] c \in 4 .. 7 -> CheckMethod(c, words)
      [] c = 8 -> CheckType(words)
      [] c = 9 -> CheckIPPrivilege(words)

-----------------------------------------------------------------------------
HbaStart(file) ==
    /\ hbaFile = file
    /\ hbaAt = "query" /\ hbaNext = 1
    /\ hbaRows = <<>> /\ hbaResults = <<>>
    /\ hbaEdited = 0

HbaInit == \E file \in HbaFiles : HbaStart(file)

\* One control judges by the lines it finds.
RunControl(found) ==
    /\ hbaResults' = Append(hbaResults, [control |-> hbaNext, found |-> found,
                                        status |-> IF found = {} THEN "Pass" ELSE "Fail"])
    /\ hbaNext' = hbaNext + 1
    /\ hbaAt' = IF hbaNext = 9 THEN "done" ELSE hbaAt

\* PostgreSQL reads the file anew for every query.
Query ==
    /\ hbaAt = "query"
    /\ RunControl({n \in DOMAIN hbaFile : QueryFinds(hbaNext, hbaFile[n])})
    /\ UNCHANGED <<hbaFile, hbaRows, hbaEdited>>

FromScratchKeep == hbaResults     \* mutant: the answers so far stay in the list
FromScratch == <<>>

QueryFails ==
    /\ hbaAt = "query"
    /\ hbaAt' = "read" /\ hbaNext' = 1
    /\ hbaResults' = FromScratch
    /\ UNCHANGED <<hbaFile, hbaRows, hbaEdited>>

\* GetHBAFileData: the file may be out of reach, and the process ends.
ReadFile ==
    /\ hbaAt = "read"
    /\ \/ hbaAt' = "file" /\ hbaRows' = hbaFile
       \/ hbaAt' = "exit" /\ UNCHANGED hbaRows
    /\ UNCHANGED <<hbaFile, hbaNext, hbaResults, hbaEdited>>

TooShort(l) == Len(Fields(l)) < Needs(hbaNext, Fields(l))

CheckRows ==
    /\ hbaAt = "file"
    /\ IF \E n \in DOMAIN hbaRows : TooShort(hbaRows[n])
       THEN hbaAt' = "panic" /\ UNCHANGED <<hbaNext, hbaResults>>
       ELSE RunControl({n \in DOMAIN hbaRows : FileFinds(hbaNext, hbaRows[n])})
    /\ UNCHANGED <<hbaFile, hbaRows, hbaEdited>>

\* Somebody edits the file while it is scanned.
EditFile ==
    /\ hbaEdited < HbaEdits /\ hbaAt \in {"query", "read"}
    /\ hbaFile' \in HbaFiles \ {hbaFile}
    /\ hbaEdited' = hbaEdited + 1
    /\ UNCHANGED <<hbaAt, hbaNext, hbaRows, hbaResults>>

HbaNext == Query \/ QueryFails \/ ReadFile \/ CheckRows \/ EditFile

-----------------------------------------------------------------------------
(* Properties. *)

\* A report has every control once and in order, wherever the first query
\* failed (hbascanner.go:77-102): no answer of a query stays beside an answer
\* of the file.
HbaWhole ==
    hbaAt = "done" =>
        [k \in DOMAIN hbaResults |-> hbaResults[k].control] = [k \in HbaControls |-> k]

\* A plain rule has one database, one user and nothing after the method.
Plain(l) == IsRule(l) /\ "several" \notin {l.db, l.user} /\ l.tail = <<>>

\* On a file of plain rules the two copies fail the same lines by the first
\* seven controls; the eighth of the file fails exactly the lines its query
\* passes (hbascanner.go:465), and the ninth more than its query ever does.
RulesAgree ==
    hbaAt = "done" /\ hbaRows # <<>> /\ (\A n \in DOMAIN hbaRows : Plain(hbaRows[n])) =>
        \A k \in DOMAIN hbaResults :
            LET c == hbaResults[k].control
                asked == {n \in DOMAIN hbaRows : QueryFinds(c, hbaRows[n])}
            IN  CASE c <= 7 -> hbaResults[k].found = asked
                  [] c = 8  -> hbaResults[k].found = DOMAIN hbaRows \ asked
                  [] c = 9  -> asked \subseteq hbaResults[k].found

\* The scan is brought down in the file's copy alone, and by a line without a
\* rule: never by a rule, however it is written (hbascanner.go:204, 242, 279).
HbaBroughtDown ==
    hbaAt = "panic" => \E n \in DOMAIN hbaRows : ~IsRule(hbaRows[n])

\* One report comes from one copy alone, and it matters little from which
\* (hbascanner.go:77-102).
HbaCopiesAgree == HbaWhole /\ RulesAgree
=============================================================================
