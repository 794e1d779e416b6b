------------------------------ MODULE HbaUsage ------------------------------
(***************************************************************************)
(* Which rules of pg_hba.conf nobody uses, told from the server's log       *)
(* (pkg/hbarules, HbaUnusedLineParser): the rules are read from the file or *)
(* from pg_hba_file_rules, every log line that tells user, host and         *)
(* database marks one rule as used, and what is not marked is reported.     *)
(*                                                                          *)
(* Beside the program runs the server: it matches every connection against  *)
(* its rules, all of them, and logs it.                                     *)
(***************************************************************************)
EXTENDS Integers, Sequences, FiniteSets, FiniteSetsExt

CONSTANTS
    HuFiles,         \* rules of a server, as sequences
    HuConnections,   \* connections, by TCP
    HuMembers,       \* pairs of a user and a role it belongs to, beside its own
    HuLength         \* bound: connections

\* How the names of a rule are written: as they are, with a file of names
\* (@file), in quotes, or as a pattern.  dbs and users are the names meant, with
\* the keywords; roles are those written with a plus.  spaced: the method is
\* two blanks or more away from an address without a mask.
RuleTypes == {"host", "hostssl", "hostnossl", "hostgssenc", "hostnogssenc"}
HuRule == [type : RuleTypes, dbs : SUBSET STRING, users : SUBSET STRING,
           roles : SUBSET STRING, form : {"plain", "listed", "quoted", "pattern"},
           addr : STRING, spaced : BOOLEAN]

Untold == ""      \* what a line does not say

\* A connection is encrypted or not, and it ends up let in, with or without an
\* application name, or turned away by what the rule asks for.
Hosts == {"v4a", "loop", "v6"}       \* an IPv4 client, 127.0.0.1 and ::1
HuConnection == [user : STRING \ {Untold}, db : STRING \ {Untold}, host : Hosts,
                 crypt : {"none", "ssl", "gss"}, entry : {"named", "unnamed", "never"}]

ASSUME HuAssumption ==
    /\ HuLength \in Nat
    /\ HuFiles \subseteq Seq(HuRule) /\ HuConnections \subseteq HuConnection

VARIABLES
    huRules,    \* pg_hba.conf, without its local rules
    huSource,   \* what is read: the file, with a database or alone, or the view
    huLogs,     \* what the server logs: h and ud in the prefix, connections,
                \* and whether hosts by their names (log_hostname)
    huLog,      \* the log
    huFed,      \* how many of its lines have been fed
    huUsed,     \* the rules with matching entries
    huServed    \* history: the rules the server used for what is in the log,
                \* and whether for a connection no line tells all of

huVars == <<huRules, huSource, huLogs, huLog, huFed, huUsed, huServed>>

-----------------------------------------------------------------------------
(* The server. *)

Within(addr) == IF addr = "v4" THEN {"v4a", "loop"} ELSE {addr} \cap Hosts
Name(host)   == IF host = "v4a" THEN "a.example" ELSE "localhost"

TakesType(r, c) ==
    \/ r.type = "host"
    \/ r.type = "hostssl" /\ c.crypt = "ssl"
    \/ r.type = "hostnossl" /\ c.crypt # "ssl"
    \/ r.type = "hostgssenc" /\ c.crypt = "gss"
    \/ r.type = "hostnogssenc" /\ c.crypt # "gss"

Belongs(user, role) == user = role \/ <<user, role>> \in HuMembers

\* A replication connection is to no database.
ToNoDb == "replication"
TakesDb(r, c) ==
    IF c.db = ToNoDb THEN ToNoDb \in r.dbs
    ELSE \/ r.dbs \cap {"all", c.db} # {}
         \/ "sameuser" \in r.dbs /\ c.user = c.db
         \/ r.dbs \cap {"samerole", "samegroup"} # {} /\ Belongs(c.user, c.db)

TakesUser(r, c) ==
    r.users \cap {"all", c.user} # {} \/ \E role \in r.roles : Belongs(c.user, role)

TakesAddress(r, c) ==
    \/ r.addr = "all" \/ c.host \in Within(r.addr)
    \/ r.addr \in {"localhost", "samehost", "samenet"} /\ c.host \in {"loop", "v6"}
    \/ r.addr \in {"a.example", ".example"} /\ Name(c.host) = "a.example"

ServerTakes(r, c) ==
    TakesType(r, c) /\ TakesDb(r, c) /\ TakesUser(r, c) /\ TakesAddress(r, c)

FirstOf(numbers) == IF numbers = {} THEN {} ELSE {Min(numbers)}
ServerRule(c) == FirstOf({n \in DOMAIN huRules : ServerTakes(huRules[n], c)})

-----------------------------------------------------------------------------
(* hbaFileRule.  From the file, only the lines that the pattern matches: it   *)
(* wants two blanks between an address without a mask and the method; nor a   *)
(* line with a role, when there is no database to ask.                       *)

Readable(r) == r.spaced /\ (huSource = "file" \/ r.roles = {} \/ r.form # "plain")
Known == {n \in DOMAIN huRules : huSource = "view" \/ Readable(huRules[n])}

\* Quotes are part of a name in the file, and patterns are names everywhere.
NamesRead(r) == r.form \in {"plain", "listed"} \/ (r.form = "quoted" /\ huSource = "view")

\* updateStringWithFilenameOrRolename: +role is a name of its own in the view
\* and in a file of names.  Elsewhere it is the role and what pg_has_role gives,
\* which is what the role belongs to, not who belongs to it.
RolesRead(r) ==
    IF huSource = "view" \/ r.form = "listed" THEN {}
    ELSE r.roles \cup {m[2] : m \in {m \in HuMembers : m[1] \in r.roles}}

DbsRead(r)   == IF NamesRead(r) THEN r.dbs ELSE {}
UsersRead(r) == IF NamesRead(r) THEN r.users \cup RolesRead(r) ELSE {}

\* addressMapping makes all of IPv4 of "all"; whatever is neither that nor a
\* range is looked for in the host's text.
IsValid(addr, host) ==
    \/ addr = "all" /\ host \in Within("v4")
    \/ addr = "localhost" /\ host = "loop"
    \/ host \in Within(addr)
    \/ addr \in {"a.example", ".example", "example"} /\ host = "a.example"

\* The lines listed under a database and a user: of a list, under each.
Lines(db, user) ==
    {n \in Known : db \in DbsRead(huRules[n]) /\ user \in UsersRead(huRules[n])}

\* The connection's type is not asked for.
Candidates(told) ==
    UNION {Lines(db, user) : user \in {told.user, "all"},
           db \in {told.db, "all"} \cup
                  (IF told.user = told.db THEN {"sameuser", "samerole"} ELSE {})}

\* Mutant: the lists are gone through as they come, the database's own first.
MarkedUnsorted(told) ==
    LET valid == {n \in Candidates(told) : IsValid(huRules[n].addr, told.host)}
        own   == {n \in valid : told.db \in DbsRead(huRules[n])}
    IN  IF own # {} THEN FirstOf(own) ELSE FirstOf(valid)

\* ValidateEntry: the first of the candidates whose address fits.
Marked(told) == FirstOf({n \in Candidates(told) : IsValid(huRules[n].addr, told.host)})

Unused == Known \ huUsed

-----------------------------------------------------------------------------
(* The log.  A line has what the prefix says of the connection and what the  *)
(* text says.                                                                *)

Empty == [user |-> Untold, db |-> Untold, host |-> Untold]

\* All there is to tell of a connection.
Telling(c) == [user |-> c.user, db |-> IF c.db = ToNoDb THEN Untold ELSE c.db,
               host |-> IF huLogs.names THEN Name(c.host) ELSE c.host]

Prefix(c) == [user |-> IF huLogs.ud THEN c.user ELSE Untold,
              db   |-> IF huLogs.ud THEN Telling(c).db ELSE Untold,
              host |-> IF huLogs.h THEN Telling(c).host ELSE Untold]

\* When a connection is received its user and database are not known yet.
Received(c) == [prefix |-> [Prefix(c) EXCEPT !.user = Untold, !.db = Untold],
                text   |-> [Empty EXCEPT !.host = Telling(c).host]]

\* The pattern for the text of an authorized connection wants a database and an
\* application name.
Authorized(c) ==
    [prefix |-> Prefix(c),
     text   |-> IF c.entry = "named" /\ c.db # ToNoDb
                THEN [Telling(c) EXCEPT !.host = Untold] ELSE Empty]

\* A statement, or the message with which a client is turned away.
Statement(c) == [prefix |-> Prefix(c), text |-> Empty]

LetIn(c) == ServerRule(c) # {} /\ c.entry # "never"
LinesOf(c) ==
    IF ~huLogs.connections THEN <<Statement(c)>>
    ELSE IF LetIn(c) THEN <<Received(c), Authorized(c), Statement(c)>>
    ELSE <<Received(c), Statement(c)>>

\* UnusedHBALineHelper.Init.
Admitted(logs) == IF logs.connections THEN logs.h \/ logs.ud ELSE logs.h /\ logs.ud

\* Feed: what the prefix does not say is looked for in the text, if
\* connections are logged.
Tells(line, field) ==
    IF line.prefix[field] # Untold THEN line.prefix[field]
    ELSE IF huLogs.connections THEN line.text[field] ELSE Untold
Told(line) == [f \in {"user", "db", "host"} |-> Tells(line, f)]

-----------------------------------------------------------------------------
LogKinds == {logs \in [h : BOOLEAN, ud : BOOLEAN, connections : BOOLEAN, names : BOOLEAN] :
               Admitted(logs)}
Sources  == {"view", "file", "file alone"}

HuStart(rules, source, logs) ==
    /\ huRules = rules /\ huSource = source /\ huLogs = logs
    /\ huLog = <<>> /\ huFed = 0
    /\ huUsed = {} /\ huServed = {}

HuInit == \E rules \in HuFiles, source \in Sources, logs \in LogKinds :
    HuStart(rules, source, logs)

\* Connections that no line tells all of, whatever else Init has made sure of:
\* those to no database, and without user and database in the prefix those
\* that are not let in or give no application name.
Silent(c) == c.db = ToNoDb \/ (~huLogs.ud /\ c.entry # "named")

\* The server takes somebody's connection or turns it away, and logs it (bound:
\* HuLength times, at two lines or more where connections are logged).
Connect(c) ==
    /\ Len(huLog) < HuLength * (IF huLogs.connections THEN 2 ELSE 1)
    /\ huFed = Len(huLog)
    /\ huLog' = huLog \o LinesOf(c)
    /\ huServed' = huServed \cup (ServerRule(c) \X {Silent(c)})
    /\ UNCHANGED <<huRules, huSource, huLogs, huFed, huUsed>>

Feed ==
    /\ huFed < Len(huLog)
    /\ huFed' = huFed + 1
    /\ LET told == Told(huLog[huFed + 1]) IN
       huUsed' = IF \E f \in DOMAIN told : told[f] = Untold THEN huUsed
                 ELSE huUsed \cup Marked(told)
    /\ UNCHANGED <<huRules, huSource, huLogs, huLog, huServed>>

HuNext == Feed \/ \E c \in HuConnections : Connect(c)

-----------------------------------------------------------------------------
(* Properties. *)

Served == {use[1] : use \in huServed}

\* The rules the program reads otherwise than the server: lines it skips;
\* connection types, which it does not ask for (hba_helpers.go:34); a role's
\* members, in either column (hba_helpers.go:111, hba.go:53); names in quotes
\* and patterns; and addresses other than a range (hba_helpers.go:16,
\* address_validator.go:22).
Differ(n) ==
    \/ n \notin Known
    \/ huRules[n].type # "host"
    \/ huRules[n].dbs \cap {"samerole", "samegroup"} # {}
    \/ huRules[n].roles # {}
    \/ huRules[n].form \in {"quoted", "pattern"}
    \/ Within(huRules[n].addr) = {}

\* Settings that Init admits although no line ever tells user and host
\* (hba_unused_lines.go:33), or tells a name where the rules have addresses:
\* all rules are then reported, used or not.
Blind == (huLogs.connections /\ ~huLogs.h) \/ huLogs.names

\* When the log has been fed, a rule is reported as unused only if the server
\* used it for nothing that the log tells of; exceptions are rules the program
\* reads differently.
UnusedIsUnused ==
    huFed = Len(huLog) /\ ~Blind =>
        \A n \in Unused : <<n, FALSE>> \in huServed => \E k \in 1 .. n : Differ(k)

\* And a rule that is not reported was used by the server, unless a rule
\* before it is one the program reads differently.
UsedIsUsed ==
    huFed = Len(huLog) =>
        \A n \in huUsed \ Served : \E k \in 1 .. n : Differ(k)

\* What is reported as unused is what the server did not use, the rules read
\* differently and the connections no line tells of apart
\* (hba_unused_lines.go:72, hba_file_rule.go:50-115).
UnusedExact == UnusedIsUnused /\ UsedIsUsed
=============================================================================
