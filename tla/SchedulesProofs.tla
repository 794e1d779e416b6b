-------------------------- MODULE SchedulesProofs --------------------------
(***************************************************************************)
(* That scans are delivered, for every configuration: the map of schedules   *)
(* means what the configuration requests, a job that nothing failed has seen *)
(* every scan it is past, and what it pushes at its end is what it saw.      *)
(***************************************************************************)
EXTENDS Schedules, FiniteSetTheorems, SequenceTheorems, WellFoundedInduction, TLAPS

\* A set of numbers has a least one, which is what Min returns.
LEMMA LeastNumber ==
  ASSUME NEW S \in SUBSET Nat, S # {}
  PROVE  Min(S) \in S /\ \A x \in S : Min(S) <= x
  <1> DEFINE less == OpToRel(<, Nat)
  <1>1. PICK x \in S : \A y \in S : ~(<<y, x>> \in less)
    <2>1. IsWellFoundedOn(less, Nat)
      BY NatLessThanWellFounded
    <2> HIDE DEF less
    <2> QED
      BY <2>1, WFMin
  <1>2. \A y \in S : x <= y
    <2>1. \A y \in S : ~(y < x)
      BY <1>1 DEF OpToRel
    <2> QED
      BY <2>1
  <1> QED
    BY <1>2 DEF Min
-----------------------------------------------------------------------------
(* The map of schedules.                                                     *)

\* What Keeping makes of the first m members of a sequence.
KeepsUpTo(f, m, seq, S) ==
    f = [n \in 0 .. m |->
           IF n = 0 THEN <<>>
           ELSE IF seq[n] \in S THEN Append(f[n - 1], seq[n]) ELSE f[n - 1]]

LEMMA KeepsUpToExists ==
  ASSUME NEW seq, NEW S, NEW m \in Nat
  PROVE  \E f : KeepsUpTo(f, m, seq, S)
  <1> DEFINE Wrongly == {k \in Nat : ~ \E f : KeepsUpTo(f, k, seq, S)}
  <1>1. SUFFICES Wrongly = {}
    OBVIOUS
  <1> SUFFICES ASSUME Wrongly # {} PROVE FALSE
    OBVIOUS
  <1>2. PICK k \in Nat : k \in Wrongly /\ \A j \in Wrongly : k <= j
    BY LeastNumber
  <1>3. CASE k = 0
    <2> DEFINE f == [n \in 0 .. 0 |-> <<>>]
    <2>1. KeepsUpTo(f, 0, seq, S)
      BY DEF KeepsUpTo
    <2> QED
      BY <1>2, <1>3, <2>1
  <1>4. CASE k # 0
    <2>1. k - 1 \in Nat /\ k - 1 \notin Wrongly
      BY <1>2, <1>4
    <2>2. PICK f : KeepsUpTo(f, k - 1, seq, S)
      BY <2>1
    <2> DEFINE last == IF seq[k] \in S THEN Append(f[k - 1], seq[k]) ELSE f[k - 1]
    <2> DEFINE g == [n \in 0 .. k |-> IF n = k THEN last ELSE f[n]]
    <2>3. \A n \in 0 .. k : n # k => n \in 0 .. k - 1
      OBVIOUS
    <2>4. \A n \in 0 .. k - 1 :
             f[n] = IF n = 0 THEN <<>>
                    ELSE IF seq[n] \in S THEN Append(f[n - 1], seq[n]) ELSE f[n - 1]
      BY <2>2 DEF KeepsUpTo
    <2>5. \A n \in 0 .. k :
             g[n] = IF n = 0 THEN <<>>
                    ELSE IF seq[n] \in S THEN Append(g[n - 1], seq[n]) ELSE g[n - 1]
      <3> TAKE n \in 0 .. k
      <3>1. CASE n = k
        <4>1. g[n - 1] = f[k - 1] /\ n # 0
          BY <1>4, <3>1
        <4>2. g[n] = last
          BY <3>1
        <4> HIDE DEF g
        <4> QED
          BY <3>1, <4>1, <4>2
      <3>2. CASE n # k
        <4>1. n \in 0 .. k - 1 /\ g[n] = f[n]
          BY <3>2
        <4>2. CASE n = 0
          BY <2>4, <4>1, <4>2
        <4>3. CASE n # 0
          <5>1. n - 1 \in 0 .. k /\ n - 1 # k
            BY <3>2, <4>3
          <5>2. g[n - 1] = f[n - 1]
            BY <5>1
          <5> HIDE DEF g
          <5> QED
            BY <2>4, <4>1, <4>3, <5>2
        <4> QED
          BY <4>2, <4>3
      <3> QED
        BY <3>1, <3>2
    <2>6. g = [n \in 0 .. k |-> g[n]]
      OBVIOUS
    <2> HIDE DEF g
    <2>7. KeepsUpTo(g, k, seq, S)
      BY <2>5, <2>6 DEF KeepsUpTo
    <2> QED
      BY <1>2, <2>7
  <1> QED
    BY <1>3, <1>4

LEMMA KeepsUpToFacts ==
  ASSUME NEW A, NEW seq \in Seq(A), NEW S, NEW f, KeepsUpTo(f, Len(seq), seq, S)
  PROVE  /\ f[Len(seq)] \in Seq(A)
         /\ \A x : (\E i \in 1 .. Len(f[Len(seq)]) : f[Len(seq)][i] = x)
                   <=> (x \in S /\ \E i \in 1 .. Len(seq) : seq[i] = x)
  <1> DEFINE Right(n) ==
        /\ f[n] \in Seq(A)
        /\ \A x : (\E i \in 1 .. Len(f[n]) : f[n][i] = x)
                  <=> (x \in S /\ \E i \in 1 .. n : seq[i] = x)
  <1> DEFINE Wrongly == {n \in 0 .. Len(seq) : ~Right(n)}
  <1>1. \A n \in 0 .. Len(seq) :
             f[n] = IF n = 0 THEN <<>>
                    ELSE IF seq[n] \in S THEN Append(f[n - 1], seq[n]) ELSE f[n - 1]
    BY DEF KeepsUpTo
  <1>2. SUFFICES Wrongly = {}
    <2>1. Len(seq) \in 0 .. Len(seq)
      OBVIOUS
    <2> QED
      BY <1>2, <2>1
  <1> SUFFICES ASSUME Wrongly # {} PROVE FALSE
    OBVIOUS
  <1>3. PICK n \in 0 .. Len(seq) : ~Right(n) /\ \A j \in Wrongly : n <= j
    <2>1. Wrongly \in SUBSET Nat
      OBVIOUS
    <2> HIDE DEF Right
    <2> QED
      BY <2>1, LeastNumber
  <1>4. n # 0
    <2> SUFFICES ASSUME n = 0 PROVE FALSE
      OBVIOUS
    <2>1. f[n] = <<>>
      BY <1>1
    <2>2. Right(n)
      BY <2>1
    <2> QED
      BY <1>3, <2>2
  <1>5. n - 1 \in 0 .. Len(seq) /\ Right(n - 1)
    <2>1. n - 1 \in 0 .. Len(seq) /\ ~(n <= n - 1)
      BY <1>4
    <2> HIDE DEF Right
    <2> QED
      BY <1>3, <2>1
  <1>6. PICK p, e : p = f[n - 1] /\ e = seq[n]
    OBVIOUS
  <1>7. /\ p \in Seq(A) /\ e \in A
        /\ \A x : (\E i \in 1 .. Len(p) : p[i] = x) <=> (x \in S /\ \E i \in 1 .. n - 1 : seq[i] = x)
    BY <1>4, <1>5, <1>6
  <1>8. \A x : (\E i \in 1 .. n : seq[i] = x) <=> (x = e \/ \E i \in 1 .. n - 1 : seq[i] = x)
    <2>1. \A i \in 1 .. n : i = n \/ i \in 1 .. n - 1
      OBVIOUS
    <2>2. n \in 1 .. n /\ \A i \in 1 .. n - 1 : i \in 1 .. n
      BY <1>4
    <2> QED
      BY <1>6, <2>1, <2>2
  <1>9. CASE e \notin S
    <2>1. f[n] = p
      BY <1>1, <1>4, <1>6, <1>9
    <2>2. Right(n)
      BY <1>7, <1>8, <1>9, <2>1
    <2> QED
      BY <1>3, <2>2
  <1>10. CASE e \in S
    <2>1. f[n] = Append(p, e)
      BY <1>1, <1>4, <1>6, <1>10
    <2>2. PICK q : q = Append(p, e)
      OBVIOUS
    <2>3. /\ q \in Seq(A) /\ Len(q) = Len(p) + 1 /\ q[Len(p) + 1] = e
          /\ Len(p) \in Nat /\ \A i \in 1 .. Len(p) : q[i] = p[i]
      BY <1>7, <2>2
    <2>4. \A i \in 1 .. Len(q) : i = Len(p) + 1 \/ i \in 1 .. Len(p)
      BY <2>3
    <2>5. Len(p) + 1 \in 1 .. Len(q) /\ \A i \in 1 .. Len(p) : i \in 1 .. Len(q)
      BY <2>3
    <2>6. \A x : (\E i \in 1 .. Len(q) : q[i] = x) <=> (x = e \/ \E i \in 1 .. Len(p) : p[i] = x)
      BY <2>3, <2>4, <2>5
    <2>7. \A x : (\E i \in 1 .. Len(q) : q[i] = x) <=> (x \in S /\ \E i \in 1 .. n : seq[i] = x)
      BY <1>7, <1>8, <1>10, <2>6, Zenon
    <2>8. f[n] = q
      BY <2>1, <2>2
    <2>9. Right(n)
      BY <2>3, <2>7, <2>8
    <2> QED
      BY <1>3, <2>9
  <1> QED
    BY <1>9, <1>10

LEMMA KeepingFacts ==
  ASSUME NEW A, NEW seq \in Seq(A), NEW S
  PROVE  Keeping(seq, S) \in Seq(A) /\ ToSet(Keeping(seq, S)) = ToSet(seq) \cap S
  <1>1. PICK f : KeepsUpTo(f, Len(seq), seq, S) /\ Keeping(seq, S) = f[Len(seq)]
    <2>1. Len(seq) \in Nat
      OBVIOUS
    <2>2. \E f : KeepsUpTo(f, Len(seq), seq, S)
      BY <2>1, KeepsUpToExists
    <2>3. PICK f : KeepsUpTo(f, Len(seq), seq, S) /\ f = CHOOSE h : KeepsUpTo(h, Len(seq), seq, S)
      BY <2>2
    <2>4. Keeping(seq, S) = (CHOOSE h : KeepsUpTo(h, Len(seq), seq, S))[Len(seq)]
      BY DEF Keeping, KeepsUpTo
    <2> QED
      BY <2>3, <2>4
  <1>2. PICK k : k = f[Len(seq)]
    OBVIOUS
  <1>3. /\ k \in Seq(A)
        /\ \A x : (\E i \in 1 .. Len(k) : k[i] = x) <=> (x \in S /\ \E i \in 1 .. Len(seq) : seq[i] = x)
    <2>1. /\ f[Len(seq)] \in Seq(A)
          /\ \A x : (\E i \in 1 .. Len(f[Len(seq)]) : f[Len(seq)][i] = x)
                    <=> (x \in S /\ \E i \in 1 .. Len(seq) : seq[i] = x)
      BY <1>1, KeepsUpToFacts
    <2> QED
      BY <1>2, <2>1, Zenon
  <1>4. \A x : x \in ToSet(k) <=> \E i \in 1 .. Len(k) : k[i] = x
    BY <1>3 DEF ToSet
  <1>5. \A x : x \in ToSet(seq) <=> \E i \in 1 .. Len(seq) : seq[i] = x
    BY DEF ToSet
  <1> QED
    BY <1>1, <1>2, <1>3, <1>4, <1>5

\* What commands may be, in the map of a configuration.
ScNames   == Tokens \cup {"all", "all_core"} \cup {l.name : l \in ToSet(scConfig.legacy)}
ScParsers == {scConfig.logFile} \cup {l.logParser : l \in ToSet(scConfig.legacy)}
ScCommands ==
    [name : ScNames, targets : {t \in Seq(STRING) : ToSet(t) \subseteq ScTargets},
     mysql : Nat, logParser : ScParsers]

\* The commands of a schedule in a map, and that it is one.
CommandsOf(out, s) == IF s \in DOMAIN out THEN ToSet(out[s]) ELSE {}
IsMap(out) == \A s \in DOMAIN out : out[s] \in Seq(ScCommands)

LEMMA SetOfJoined ==
  ASSUME NEW A, NEW s \in Seq(A), NEW t \in Seq(A)
  PROVE  s \o t \in Seq(A) /\ ToSet(s \o t) = ToSet(s) \cup ToSet(t)
  <1>1. /\ s \o t \in Seq(A) /\ Len(s \o t) = Len(s) + Len(t) /\ Len(s) \in Nat /\ Len(t) \in Nat
        /\ \A i \in 1 .. Len(s) : (s \o t)[i] = s[i]
        /\ \A i \in 1 .. Len(t) : (s \o t)[Len(s) + i] = t[i]
        /\ \A i \in 1 .. Len(s) + Len(t) :
             (s \o t)[i] = IF i <= Len(s) THEN s[i] ELSE t[i - Len(s)]
    OBVIOUS
  <1>2. PICK u : u = s \o t
    OBVIOUS
  <1>3. /\ ToSet(s) = {s[i] : i \in 1 .. Len(s)} /\ ToSet(t) = {t[i] : i \in 1 .. Len(t)}
        /\ ToSet(u) = {u[i] : i \in 1 .. Len(u)}
    BY <1>1, <1>2, SMTT(40) DEF ToSet
  <1>4. ASSUME NEW x \in ToSet(u) PROVE x \in ToSet(s) \cup ToSet(t)
    <2>1. PICK i \in 1 .. Len(u) : x = u[i]
      BY <1>3, <1>4
    <2>2. CASE i <= Len(s)
      <3>1. i \in 1 .. Len(s) /\ x = s[i]
        BY <1>1, <1>2, <2>1, <2>2
      <3> QED
        BY <1>3, <3>1
    <2>3. CASE ~(i <= Len(s))
      <3>1. i - Len(s) \in 1 .. Len(t) /\ x = t[i - Len(s)]
        BY <1>1, <1>2, <2>1, <2>3
      <3> QED
        BY <1>3, <3>1
    <2> QED
      BY <2>2, <2>3
  <1>5. ASSUME NEW x \in ToSet(s) PROVE x \in ToSet(u)
    <2>1. PICK i \in 1 .. Len(s) : x = s[i]
      BY <1>3, <1>5
    <2>2. i \in 1 .. Len(u) /\ u[i] = x
      BY <1>1, <1>2, <2>1
    <2> QED
      BY <1>3, <2>2
  <1>6. ASSUME NEW x \in ToSet(t) PROVE x \in ToSet(u)
    <2>1. PICK i \in 1 .. Len(t) : x = t[i]
      BY <1>3, <1>6
    <2>2. Len(s) + i \in 1 .. Len(u) /\ u[Len(s) + i] = x
      BY <1>1, <1>2, <2>1
    <2> QED
      BY <1>3, <2>2
  <1> QED
    BY <1>1, <1>2, <1>4, <1>5, <1>6

LEMMA CoreSet ==
  /\ ToSet(CoreScans) = {"postgres_cis", "hba_scanner", "ssl_check", "common_users"}
  /\ CoreScans \in Seq(ToSet(CoreScans)) /\ Len(CoreScans) = 4
  BY DEF CoreScans, ToSet

LEMMA NothingThere ==
  ToSet(<<>>) = {} /\ \A s : CommandsOf(<<>>, s) = {} /\ IsMap(<<>>)
  BY DEF ToSet, CommandsOf, IsMap

LEMMA Assigned ==
  ASSUME NEW out, IsMap(out), NEW schedule, schedule # Unset, NEW cmds \in Seq(ScCommands)
  PROVE  /\ IsMap(Assign(out, schedule, cmds))
         /\ \A s : CommandsOf(Assign(out, schedule, cmds), s) =
                     CommandsOf(out, s) \cup (IF s = schedule THEN ToSet(cmds) ELSE {})
  <1>1. CASE cmds = <<>>
    <2>1. Assign(out, schedule, cmds) = out
      BY <1>1 DEF Assign
    <2>2. ToSet(cmds) = {}
      BY <1>1, NothingThere
    <2> QED
      BY <2>1, <2>2
  <1>2. CASE cmds # <<>>
    <2> DEFINE old(s) == IF s \in DOMAIN out THEN out[s] ELSE <<>>
    <2>1. PICK new : new = Assign(out, schedule, cmds)
      OBVIOUS
    <2>2. /\ DOMAIN new = DOMAIN out \cup {schedule}
          /\ \A s \in DOMAIN out : s # schedule => new[s] = out[s]
          /\ new[schedule] = old(schedule) \o cmds
      BY <1>2, <2>1 DEF Assign
    <2>3. old(schedule) \in Seq(ScCommands) /\ ToSet(old(schedule)) = CommandsOf(out, schedule)
      <3>1. CASE schedule \in DOMAIN out
        BY <3>1 DEF CommandsOf, IsMap
      <3>2. CASE schedule \notin DOMAIN out
        BY <3>2, NothingThere DEF CommandsOf
      <3> QED
        BY <3>1, <3>2
    <2>4. PICK o : o = old(schedule)
      OBVIOUS
    <2> HIDE DEF old
    <2>5. new[schedule] \in Seq(ScCommands) /\ ToSet(new[schedule]) = CommandsOf(out, schedule) \cup ToSet(cmds)
      BY <2>2, <2>3, <2>4, SetOfJoined
    <2>6. IsMap(new)
      BY <2>2, <2>5 DEF IsMap
    <2>7. ASSUME NEW s
          PROVE  CommandsOf(new, s) = CommandsOf(out, s) \cup (IF s = schedule THEN ToSet(cmds) ELSE {})
      <3>1. CASE s = schedule
        BY <2>2, <2>5, <3>1 DEF CommandsOf
      <3>2. CASE s # schedule
        BY <2>2, <3>2 DEF CommandsOf
      <3> QED
        BY <3>1, <3>2
    <2> QED
      BY <2>1, <2>6, <2>7
  <1> QED
    BY <1>1, <1>2

LEMMA ConfigShape ==
  ASSUME scConfig \in ScConfigs
  PROVE  /\ scConfig.targets \in Seq(STRING) /\ scConfig.legacy \in Seq(Legacy)
         /\ scConfig.tokens \in Seq(STRING)
         /\ \A l \in ToSet(scConfig.legacy) : l \in Legacy
  <1>1. scConfig.targets \in Seq(STRING) /\ scConfig.legacy \in Seq(Legacy) /\ scConfig.tokens \in Seq(STRING)
    BY ScConfigsAssumption, Zenon
  <1>2. PICK legacy : legacy = scConfig.legacy
    OBVIOUS
  <1>3. \A l \in ToSet(legacy) : l \in Legacy
    BY <1>1, <1>2 DEF ToSet
  <1> QED
    BY <1>1, <1>2, <1>3

LEMMA LegacyFacts ==
  ASSUME scConfig \in ScConfigs, NEW s
  PROVE  /\ LegacyCommands(s) \in Seq(ScCommands)
         /\ \A c : c \in ToSet(LegacyCommands(s)) <=>
                     \E l \in ToSet(scConfig.legacy) :
                        l.schedule = s /\ c = ScCommand(l.name, l.targets, l.mysql, l.logParser)
  <1> DEFINE these == {l \in ToSet(scConfig.legacy) : l.schedule = s}
  <1>1. PICK of : of = Keeping(scConfig.legacy, these)
    OBVIOUS
  <1>2. of \in Seq(Legacy) /\ ToSet(of) = these
    <2>1. of \in Seq(Legacy) /\ ToSet(of) = ToSet(scConfig.legacy) \cap these
      BY <1>1, ConfigShape, KeepingFacts
    <2> QED
      BY <2>1
  <1>3. PICK cmds : cmds = [i \in DOMAIN of |->
                             ScCommand(of[i].name, of[i].targets, of[i].mysql, of[i].logParser)]
    OBVIOUS
  <1>4. LegacyCommands(s) = cmds
    BY <1>1, <1>3 DEF LegacyCommands
  <1>5. \A l \in these : ScCommand(l.name, l.targets, l.mysql, l.logParser) \in ScCommands
    <2> SUFFICES ASSUME NEW l \in these
                 PROVE  ScCommand(l.name, l.targets, l.mysql, l.logParser) \in ScCommands
      OBVIOUS
    <2>1. l \in Legacy /\ l \in ToSet(scConfig.legacy)
      BY ConfigShape
    <2>2. l.targets \in Seq(STRING) /\ ToSet(l.targets) \subseteq ScTargets /\ l.mysql \in Nat
      BY <2>1 DEF Legacy, ScTargets
    <2>3. l.name \in ScNames /\ l.logParser \in ScParsers
      BY <2>1 DEF ScNames, ScParsers
    <2> QED
      BY <2>2, <2>3 DEF ScCommand, ScCommands
  <1>6. /\ DOMAIN of = 1 .. Len(of) /\ Len(of) \in Nat /\ \A i \in 1 .. Len(of) : of[i] \in these
        /\ \A l \in these : \E i \in 1 .. Len(of) : of[i] = l
    BY <1>2 DEF ToSet
  <1> HIDE DEF these
  <1>7. cmds \in Seq(ScCommands) /\ Len(cmds) = Len(of)
    BY <1>3, <1>5, <1>6
  <1>8. ToSet(cmds) = {ScCommand(of[i].name, of[i].targets, of[i].mysql, of[i].logParser) : i \in 1 .. Len(of)}
    BY <1>3, <1>6 DEF ToSet
  <1>9. ToSet(cmds) = {ScCommand(l.name, l.targets, l.mysql, l.logParser) : l \in these}
    BY <1>6, <1>8
  <1> QED
    BY <1>4, <1>7, <1>9 DEF these

LEMMA WantedFacts ==
  ASSUME scConfig \in ScConfigs
  PROVE  /\ Wanted \in Seq(ToSet(Wanted)) /\ DOMAIN Wanted = 1 .. Len(Wanted)
         /\ Contains(Wanted, "all") <=> "all" \in ToSet(Wanted)
         /\ IncludesPii <=> ToSet(Wanted) \cap {"pii_scanner", "all"} # {}
         /\ IncludesLog <=> ToSet(Wanted) \cap (LogScans \cup {"all"}) # {}
  <1>1. PICK tokens : tokens = scConfig.tokens /\ tokens \in Seq(STRING)
    BY ConfigShape
  <1>2. CASE tokens = <<>>
    <2>1. Wanted = <<"postgres_cis", "hba_scanner">>
      BY <1>1, <1>2 DEF Wanted
    <2>2. ToSet(Wanted) = {"postgres_cis", "hba_scanner"}
      BY <2>1 DEF ToSet
    <2>3. ToSet(scConfig.tokens) = {}
      BY <1>1, <1>2, NothingThere
    <2>4. Wanted \in Seq(ToSet(Wanted)) /\ DOMAIN Wanted = 1 .. Len(Wanted)
      BY <2>1, <2>2
    <2>5. Contains(Wanted, "all") <=> "all" \in ToSet(Wanted)
      BY <2>1 DEF ToSet, Contains
    <2> QED
      BY <2>2, <2>3, <2>4, <2>5 DEF IncludesPii, IncludesLog, LogScans
  <1>3. CASE tokens # <<>>
    <2>1. Wanted = tokens
      BY <1>1, <1>3 DEF Wanted
    <2>2. DOMAIN tokens = 1 .. Len(tokens) /\ Len(tokens) \in Nat
      BY <1>1
    <2>3. tokens \in Seq(ToSet(tokens))
      BY <1>1 DEF ToSet
    <2>4. Contains(tokens, "all") <=> "all" \in ToSet(tokens)
      BY <2>2 DEF ToSet, Contains
    <2> QED
      BY <1>1, <2>1, <2>2, <2>3, <2>4 DEF IncludesPii, IncludesLog
  <1> QED
    BY <1>2, <1>3

\* What commands mean together, and that they are for the targets of [postgres].
MeaningOf(cmds) == UNION {Meant(c) : c \in cmds}
OnConfigured(cmds) == \A c \in cmds : c.targets = scConfig.targets

\* What a command of [collector] means, by its name alone.
MeantBy(name) == IF name = "all" THEN AllScans
                 ELSE IF name = "all_core" THEN ToSet(CoreScans) ELSE {name}

LEMMA NamedFacts ==
  ASSUME scConfig \in ScConfigs, NEW name \in Tokens \cup {"all", "all_core"}
  PROVE  /\ Named(name) \in ScCommands /\ Named(name).name = name
         /\ Named(name).targets = scConfig.targets
         /\ Meant(Named(name)) = MeantBy(name)
  <1>1. scConfig.targets \in Seq(STRING) /\ ToSet(scConfig.targets) \subseteq ScTargets
    BY ConfigShape DEF ScTargets
  <1>2. name \in ScNames /\ scConfig.logFile \in ScParsers
    BY DEF ScNames, ScParsers
  <1>3. Named(name) \in ScCommands /\ Named(name).name = name
        /\ Named(name).targets = scConfig.targets
    BY <1>1, <1>2 DEF Named, ScCommand, ScCommands
  <1>4. name # "mysql"
    BY DEF Tokens, LogScans
  <1> QED
    BY <1>3, <1>4 DEF Meant, MeantBy

\* The names of the commands of [collector] without "all".
RenamedTokens == {IF x = "ssl_audit" THEN "ssl_check" ELSE x : x \in ToSet(Wanted)}

LEMMA TokensSound ==
  ASSUME scConfig \in ScConfigs, ~CommandsRefused, "all" \notin ToSet(Wanted)
  PROVE  /\ RenamedTokens \subseteq Tokens
         /\ \A n \in RenamedTokens : MeantBy(n) = {n}
  <1>1. \A i \in DOMAIN Wanted : Wanted[i] \in Tokens
    BY WantedFacts DEF CommandsRefused
  <1>2. \A x \in ToSet(Wanted) : x \in Tokens
    BY <1>1 DEF ToSet
  <1>3. "ssl_check" \in Tokens
    BY DEF Tokens
  <1>4. \A n \in Tokens : n # "all" /\ n # "all_core"
    BY DEF Tokens, LogScans
  <1>5. RenamedTokens \subseteq Tokens
    BY <1>2, <1>3 DEF RenamedTokens
  <1> QED
    BY <1>4, <1>5 DEF MeantBy

LEMMA CommandsFacts ==
  ASSUME scConfig \in ScConfigs, ~CommandsRefused
  PROVE  /\ CommandsFromPostgres \in Seq(ScCommands)
         /\ ToSet(CommandsFromPostgres) =
              {Named(n) : n \in IF "all" \in ToSet(Wanted) THEN {"all"} ELSE RenamedTokens}
  <1>1. CASE "all" \in ToSet(Wanted)
    <2>1. CommandsFromPostgres = <<Named("all")>>
      BY <1>1, WantedFacts DEF CommandsFromPostgres
    <2>2. Named("all") \in ScCommands
      BY NamedFacts
    <2> QED
      BY <1>1, <2>1, <2>2 DEF ToSet
  <1>2. CASE "all" \notin ToSet(Wanted)
    <2> DEFINE renamed(x) == IF x = "ssl_audit" THEN "ssl_check" ELSE x
    <2>1. CommandsFromPostgres = [i \in DOMAIN Wanted |-> Named(renamed(Wanted[i]))]
      BY <1>2, WantedFacts DEF CommandsFromPostgres
    <2>2. DOMAIN Wanted = 1 .. Len(Wanted) /\ Len(Wanted) \in Nat
      BY WantedFacts
    <2>3. RenamedTokens = {renamed(Wanted[i]) : i \in 1 .. Len(Wanted)}
      <3>1. ToSet(Wanted) = {Wanted[i] : i \in 1 .. Len(Wanted)}
        BY <2>2 DEF ToSet
      <3> QED
        BY <3>1 DEF RenamedTokens
    <2>4. \A n \in RenamedTokens : Named(n) \in ScCommands
      BY <1>2, TokensSound, NamedFacts
    <2> HIDE DEF renamed
    <2>5. PICK cmds : cmds = [i \in DOMAIN Wanted |-> Named(renamed(Wanted[i]))]
      OBVIOUS
    <2>6. cmds \in Seq(ScCommands) /\ Len(cmds) = Len(Wanted)
      BY <2>2, <2>3, <2>4, <2>5
    <2>7. ToSet(cmds) = {Named(renamed(Wanted[i])) : i \in 1 .. Len(Wanted)}
      BY <2>2, <2>5 DEF ToSet
    <2>8. ToSet(cmds) = {Named(n) : n \in RenamedTokens}
      BY <2>3, <2>7
    <2> QED
      BY <1>2, <2>1, <2>5, <2>6, <2>8
  <1> QED
    BY <1>1, <1>2

\* What the three buckets hold: everything is in the first when nothing has a
\* schedule of its own, and otherwise every command in that of its kind.
BucketsSound ==
    /\ Buckets.main \in Seq(ScCommands) /\ OnConfigured(ToSet(Buckets.main))
    /\ Buckets.pii \in Seq(ScCommands) /\ OnConfigured(ToSet(Buckets.pii))
    /\ Buckets.log \in Seq(ScCommands) /\ OnConfigured(ToSet(Buckets.log))
    /\ SeparatePii \/ SeparateLog =>
         /\ MeaningOf(ToSet(Buckets.main)) = AskedTokens \ (LogScans \cup {"pii_scanner"})
         /\ MeaningOf(ToSet(Buckets.pii)) = AskedTokens \cap {"pii_scanner"}
         /\ MeaningOf(ToSet(Buckets.log)) = AskedTokens \cap LogScans
    /\ ~SeparatePii /\ ~SeparateLog =>
         /\ MeaningOf(ToSet(Buckets.main)) = AskedTokens
         /\ MeaningOf(ToSet(Buckets.pii)) = {} /\ MeaningOf(ToSet(Buckets.log)) = {}

LEMMA MeaningOfNamed ==
  ASSUME scConfig \in ScConfigs, NEW names \in SUBSET (Tokens \cup {"all", "all_core"})
  PROVE  /\ MeaningOf({Named(n) : n \in names}) = UNION {MeantBy(n) : n \in names}
         /\ OnConfigured({Named(n) : n \in names})
  <1>1. \A n \in names : Named(n).targets = scConfig.targets /\ Meant(Named(n)) = MeantBy(n)
    BY NamedFacts
  <1>2. OnConfigured({Named(n) : n \in names})
    BY <1>1 DEF OnConfigured
  <1>3. \A x : x \in MeaningOf({Named(n) : n \in names}) <=>
                \E n \in names : x \in Meant(Named(n))
    BY DEF MeaningOf
  <1> QED
    BY <1>1, <1>2, <1>3

LEMMA ExpandedSound ==
  ASSUME scConfig \in ScConfigs, "all" \in ToSet(Wanted), SeparatePii \/ SeparateLog
  PROVE  BucketsSound
  <1>1. Buckets = ExpandAll
    BY WantedFacts DEF Buckets
  <1>2. AskedTokens = AllScans
    BY WantedFacts DEF AskedTokens
  <1>3. PICK m, p : m = <<Named("all_core")>> /\ p = <<Named("pii_scanner")>>
    OBVIOUS
  <1>4. PICK l : l = [i \in DOMAIN LogTokens |-> Named(LogTokens[i])]
    OBVIOUS
  <1>5. ExpandAll.main = m /\ ExpandAll.pii = p /\ ExpandAll.log = l
    BY <1>3, <1>4 DEF ExpandAll
  <1>6. "all_core" \in Tokens \cup {"all", "all_core"} /\ "pii_scanner" \in Tokens
    BY DEF Tokens
  <1>7. m \in Seq(ScCommands) /\ ToSet(m) = {Named(n) : n \in {"all_core"}}
    <2>1. Named("all_core") \in ScCommands
      BY NamedFacts, <1>6
    <2> QED
      BY <1>3, <2>1 DEF ToSet
  <1>8. p \in Seq(ScCommands) /\ ToSet(p) = {Named(n) : n \in {"pii_scanner"}}
    <2>1. Named("pii_scanner") \in ScCommands
      BY NamedFacts, <1>6
    <2> QED
      BY <1>3, <2>1 DEF ToSet
  <1>9. DOMAIN LogTokens = 1 .. 4 /\ {LogTokens[i] : i \in 1 .. 4} = LogScans
    BY DEF LogTokens, LogScans
  <1>10. LogScans \subseteq Tokens
    BY DEF Tokens
  <1>11. l \in Seq(ScCommands) /\ ToSet(l) = {Named(n) : n \in LogScans}
    <2>1. \A n \in LogScans : Named(n) \in ScCommands
      BY <1>10, NamedFacts
    <2>2. \A i \in 1 .. 4 : LogTokens[i] \in LogScans
      BY <1>9
    <2>3. l = [i \in 1 .. 4 |-> Named(LogTokens[i])]
      BY <1>4, <1>9
    <2>4. l \in Seq(ScCommands) /\ DOMAIN l = 1 .. 4
      BY <2>1, <2>2, <2>3
    <2>5. ToSet(l) = {Named(LogTokens[i]) : i \in 1 .. 4}
      BY <1>4, <1>9, <2>4 DEF ToSet
    <2> QED
      BY <1>9, <2>4, <2>5
  <1>12. MeaningOf(ToSet(m)) = ToSet(CoreScans) /\ OnConfigured(ToSet(m))
    <2>1. MeantBy("all_core") = ToSet(CoreScans)
      BY DEF MeantBy
    <2>2. {"all_core"} \in SUBSET (Tokens \cup {"all", "all_core"})
      OBVIOUS
    <2>3. MeaningOf(ToSet(m)) = UNION {MeantBy(n) : n \in {"all_core"}} /\ OnConfigured(ToSet(m))
      BY <1>7, <2>2, MeaningOfNamed
    <2> QED
      BY <2>1, <2>3
  <1>13. MeaningOf(ToSet(p)) = {"pii_scanner"} /\ OnConfigured(ToSet(p))
    <2>1. MeantBy("pii_scanner") = {"pii_scanner"}
      BY DEF MeantBy
    <2>2. {"pii_scanner"} \in SUBSET (Tokens \cup {"all", "all_core"})
      BY <1>6
    <2>3. MeaningOf(ToSet(p)) = UNION {MeantBy(n) : n \in {"pii_scanner"}} /\ OnConfigured(ToSet(p))
      BY <1>8, <2>2, MeaningOfNamed
    <2> QED
      BY <2>1, <2>3
  <1>14. MeaningOf(ToSet(l)) = LogScans /\ OnConfigured(ToSet(l))
    <2>1. \A n \in LogScans : MeantBy(n) = {n}
      BY DEF MeantBy, LogScans
    <2>2. MeaningOf(ToSet(l)) = UNION {MeantBy(n) : n \in LogScans} /\ OnConfigured(ToSet(l))
      BY <1>10, <1>11, MeaningOfNamed
    <2> QED
      BY <2>1, <2>2
  <1>15. /\ ToSet(CoreScans) = AllScans \ (LogScans \cup {"pii_scanner"})
         /\ {"pii_scanner"} = AllScans \cap {"pii_scanner"} /\ LogScans = AllScans \cap LogScans
    BY CoreSet DEF AllScans, LogScans
  <1> QED
    BY <1>1, <1>2, <1>5, <1>7, <1>8, <1>11, <1>12, <1>13, <1>14, <1>15 DEF BucketsSound

LEMMA PartitionSound ==
  ASSUME scConfig \in ScConfigs, ~CommandsRefused, "all" \notin ToSet(Wanted),
         SeparatePii \/ SeparateLog
  PROVE  BucketsSound
  <1> DEFINE cmds == CommandsFromPostgres
  <1> DEFINE isPii == {c \in ToSet(cmds) : c.name = "pii_scanner"}
  <1> DEFINE isLog == {c \in ToSet(cmds) : c.name \in LogScans}
  <1>1. /\ Buckets.main = Keeping(cmds, ToSet(cmds) \ (isPii \cup isLog))
        /\ Buckets.pii = Keeping(cmds, isPii) /\ Buckets.log = Keeping(cmds, isLog)
    BY WantedFacts DEF Buckets, Partitioned
  <1>2. cmds \in Seq(ScCommands) /\ ToSet(cmds) = {Named(n) : n \in RenamedTokens}
    BY CommandsFacts
  <1>3. /\ RenamedTokens \subseteq Tokens /\ \A n \in RenamedTokens : MeantBy(n) = {n}
        /\ \A n \in RenamedTokens : Named(n).name = n
    BY TokensSound, NamedFacts
  <1>4. AskedTokens = RenamedTokens
    BY WantedFacts DEF AskedTokens, RenamedTokens
  <1> DEFINE named(S) == {Named(n) : n \in S}
  <1>5. /\ isPii = named(RenamedTokens \cap {"pii_scanner"})
        /\ isLog = named(RenamedTokens \cap LogScans)
        /\ ToSet(cmds) \ (isPii \cup isLog) = named(RenamedTokens \ (LogScans \cup {"pii_scanner"}))
    BY <1>2, <1>3
  <1> HIDE DEF cmds, isPii, isLog
  <1>6. ASSUME NEW S \in SUBSET RenamedTokens
        PROVE  MeaningOf(named(S)) = S /\ OnConfigured(named(S))
    <2>1. S \in SUBSET (Tokens \cup {"all", "all_core"})
      BY <1>3
    <2>2. MeaningOf(named(S)) = UNION {MeantBy(n) : n \in S} /\ OnConfigured(named(S))
      BY <2>1, MeaningOfNamed
    <2>3. UNION {MeantBy(n) : n \in S} = S
      BY <1>3
    <2> QED
      BY <2>2, <2>3
  <1>7. ASSUME NEW K, K \subseteq ToSet(cmds)
        PROVE  Keeping(cmds, K) \in Seq(ScCommands) /\ ToSet(Keeping(cmds, K)) = K
    <2>1. Keeping(cmds, K) \in Seq(ScCommands) /\ ToSet(Keeping(cmds, K)) = ToSet(cmds) \cap K
      BY <1>2, KeepingFacts
    <2> QED
      BY <1>7, <2>1
  <1>8. isPii \subseteq ToSet(cmds) /\ isLog \subseteq ToSet(cmds)
    BY DEF isPii, isLog
  <1>9. PICK m, p, l :
          /\ m = RenamedTokens \ (LogScans \cup {"pii_scanner"})
          /\ p = RenamedTokens \cap {"pii_scanner"} /\ l = RenamedTokens \cap LogScans
    OBVIOUS
  <1>10. Buckets.main \in Seq(ScCommands) /\ ToSet(Buckets.main) = named(m)
    BY <1>1, <1>5, <1>7, <1>9
  <1>11. Buckets.pii \in Seq(ScCommands) /\ ToSet(Buckets.pii) = named(p)
    BY <1>1, <1>5, <1>7, <1>8, <1>9
  <1>12. Buckets.log \in Seq(ScCommands) /\ ToSet(Buckets.log) = named(l)
    BY <1>1, <1>5, <1>7, <1>8, <1>9
  <1> HIDE DEF named
  <1>13. /\ MeaningOf(named(m)) = m /\ OnConfigured(named(m))
         /\ MeaningOf(named(p)) = p /\ OnConfigured(named(p))
         /\ MeaningOf(named(l)) = l /\ OnConfigured(named(l))
    BY <1>6, <1>9
  <1> QED
    BY <1>4, <1>9, <1>10, <1>11, <1>12, <1>13 DEF BucketsSound

LEMMA TogetherSound ==
  ASSUME scConfig \in ScConfigs, ~CommandsRefused, ~SeparatePii, ~SeparateLog
  PROVE  BucketsSound
  <1>1. Buckets.main = CommandsFromPostgres /\ Buckets.pii = <<>> /\ Buckets.log = <<>>
    BY DEF Buckets
  <1>2. ToSet(<<>>) = {} /\ <<>> \in Seq(ScCommands)
    BY NothingThere
  <1>3. MeaningOf({}) = {} /\ OnConfigured({})
    BY DEF MeaningOf, OnConfigured
  <1> DEFINE names == IF "all" \in ToSet(Wanted) THEN {"all"} ELSE RenamedTokens
  <1>4. /\ CommandsFromPostgres \in Seq(ScCommands)
        /\ ToSet(CommandsFromPostgres) = {Named(n) : n \in names}
    BY CommandsFacts
  <1>5. names \in SUBSET (Tokens \cup {"all", "all_core"})
    BY TokensSound
  <1>6. UNION {MeantBy(n) : n \in names} = AskedTokens
    <2>1. CASE "all" \in ToSet(Wanted)
      <3>1. MeantBy("all") = AllScans
        BY DEF MeantBy
      <3>2. AskedTokens = AllScans
        BY <2>1, WantedFacts DEF AskedTokens
      <3> QED
        BY <2>1, <3>1, <3>2
    <2>2. CASE "all" \notin ToSet(Wanted)
      <3>1. AskedTokens = RenamedTokens
        BY <2>2, WantedFacts DEF AskedTokens, RenamedTokens
      <3>2. names = RenamedTokens /\ \A n \in names : MeantBy(n) = {n}
        BY <2>2, TokensSound
      <3> HIDE DEF names
      <3>3. UNION {MeantBy(n) : n \in names} = names
        BY <3>2
      <3> QED
        BY <3>1, <3>2, <3>3
    <2> QED
      BY <2>1, <2>2
  <1> HIDE DEF names
  <1>7. /\ MeaningOf(ToSet(CommandsFromPostgres)) = AskedTokens
        /\ OnConfigured(ToSet(CommandsFromPostgres))
    BY <1>4, <1>5, <1>6, MeaningOfNamed
  <1> QED
    BY <1>1, <1>2, <1>3, <1>4, <1>7 DEF BucketsSound

LEMMA BucketsFacts ==
  ASSUME scConfig \in ScConfigs, ~CommandsRefused
  PROVE  BucketsSound
  BY ExpandedSound, PartitionSound, TogetherSound

\* The map of [collector] holds at every schedule what the tokens ask for there.
LEMMA CollectorMapFacts ==
  ASSUME scConfig \in ScConfigs, ~CommandsRefused, Ready
  PROVE  /\ IsMap(CollectorMap)
         /\ \A s : /\ OnConfigured(CommandsOf(CollectorMap, s))
                   /\ MeaningOf(CommandsOf(CollectorMap, s)) = {x \in AskedTokens : When(x) = s}
  <1>1. BucketsSound
    BY BucketsFacts
  <1>2. PICK b, main : /\ b = Buckets
                       /\ main = b.main \o (IF SeparatePii THEN <<>> ELSE b.pii)
                                        \o (IF SeparateLog THEN <<>> ELSE b.log)
    OBVIOUS
  <1>3. /\ b.main \in Seq(ScCommands) /\ b.pii \in Seq(ScCommands) /\ b.log \in Seq(ScCommands)
        /\ OnConfigured(ToSet(b.main)) /\ OnConfigured(ToSet(b.pii)) /\ OnConfigured(ToSet(b.log))
    BY <1>1, <1>2 DEF BucketsSound
  <1>4. ToSet(<<>>) = {} /\ <<>> \in Seq(ScCommands) /\ IsMap(<<>>) /\ \A s : CommandsOf(<<>>, s) = {}
    BY NothingThere
  <1> DEFINE pii == IF SeparatePii THEN {} ELSE ToSet(b.pii)
  <1> DEFINE log == IF SeparateLog THEN {} ELSE ToSet(b.log)
  <1>5. main \in Seq(ScCommands) /\ ToSet(main) = ToSet(b.main) \cup pii \cup log
    <2>1. PICK p, l : /\ p = IF SeparatePii THEN <<>> ELSE b.pii
                      /\ l = IF SeparateLog THEN <<>> ELSE b.log
      OBVIOUS
    <2>2. /\ p \in Seq(ScCommands) /\ ToSet(p) = pii
          /\ l \in Seq(ScCommands) /\ ToSet(l) = log
      BY <1>3, <1>4, <2>1
    <2>3. PICK mp : mp = b.main \o p
      OBVIOUS
    <2>4. mp \in Seq(ScCommands) /\ ToSet(mp) = ToSet(b.main) \cup pii
      BY <1>3, <2>2, <2>3, SetOfJoined
    <2>5. main = mp \o l
      BY <1>2, <2>1, <2>3
    <2> HIDE DEF pii, log
    <2> QED
      BY <2>2, <2>4, <2>5, SetOfJoined
  <1>6. PICK first : first = Assign(<<>>, scConfig.main, main)
    OBVIOUS
  <1>7. IsMap(first) /\ \A s : CommandsOf(first, s) = IF s = scConfig.main THEN ToSet(main) ELSE {}
    <2>1. PICK none, schedule : none = <<>> /\ schedule = scConfig.main
      OBVIOUS
    <2>2. schedule # Unset /\ IsMap(none) /\ first = Assign(none, schedule, main)
      BY <1>4, <1>6, <2>1 DEF Ready
    <2>3. /\ IsMap(first)
          /\ \A s : CommandsOf(first, s) = CommandsOf(none, s) \cup (IF s = schedule THEN ToSet(main) ELSE {})
      BY <1>5, <2>2, Assigned
    <2> QED
      BY <1>4, <2>1, <2>3
  <1>8. PICK second : second = IF SeparatePii THEN Assign(first, scConfig.pii, b.pii) ELSE first
    OBVIOUS
  <1>9. /\ IsMap(second)
        /\ \A s : CommandsOf(second, s) =
                    CommandsOf(first, s) \cup (IF SeparatePii /\ s = scConfig.pii THEN ToSet(b.pii) ELSE {})
    <2>1. CASE SeparatePii
      <3>1. PICK schedule, cmds : schedule = scConfig.pii /\ cmds = b.pii
        OBVIOUS
      <3>2. schedule # Unset /\ cmds \in Seq(ScCommands) /\ second = Assign(first, schedule, cmds)
        BY <1>3, <1>8, <2>1, <3>1 DEF SeparatePii
      <3>3. /\ IsMap(second)
            /\ \A s : CommandsOf(second, s) = CommandsOf(first, s) \cup (IF s = schedule THEN ToSet(cmds) ELSE {})
        BY <1>7, <3>2, Assigned
      <3> QED
        BY <2>1, <3>1, <3>3
    <2>2. CASE ~SeparatePii
      BY <1>7, <1>8, <2>2
    <2> QED
      BY <2>1, <2>2
  <1>10. PICK third : third = IF SeparateLog THEN Assign(second, scConfig.log, b.log) ELSE second
    OBVIOUS
  <1>11. /\ IsMap(third)
         /\ \A s : CommandsOf(third, s) =
                     CommandsOf(second, s) \cup (IF SeparateLog /\ s = scConfig.log THEN ToSet(b.log) ELSE {})
    <2>1. CASE SeparateLog
      <3>1. PICK schedule, cmds : schedule = scConfig.log /\ cmds = b.log
        OBVIOUS
      <3>2. schedule # Unset /\ cmds \in Seq(ScCommands) /\ third = Assign(second, schedule, cmds)
        BY <1>3, <1>10, <2>1, <3>1 DEF SeparateLog
      <3>3. /\ IsMap(third)
            /\ \A s : CommandsOf(third, s) = CommandsOf(second, s) \cup (IF s = schedule THEN ToSet(cmds) ELSE {})
        BY <1>9, <3>2, Assigned
      <3> QED
        BY <2>1, <3>1, <3>3
    <2>2. CASE ~SeparateLog
      BY <1>9, <1>10, <2>2
    <2> QED
      BY <2>1, <2>2
  <1>12. CollectorMap = third
    BY <1>2, <1>6, <1>8, <1>10 DEF CollectorMap
  <1>13. ASSUME NEW s
         PROVE  CommandsOf(third, s) =
                  (IF s = scConfig.main THEN ToSet(b.main) \cup pii \cup log ELSE {})
                  \cup (IF SeparatePii /\ s = scConfig.pii THEN ToSet(b.pii) ELSE {})
                  \cup (IF SeparateLog /\ s = scConfig.log THEN ToSet(b.log) ELSE {})
    BY <1>5, <1>7, <1>9, <1>11
  <1>14. ASSUME NEW s PROVE OnConfigured(CommandsOf(third, s))
    BY <1>3, <1>13 DEF OnConfigured
  <1>15. ASSUME NEW s PROVE MeaningOf(CommandsOf(third, s)) = {x \in AskedTokens : When(x) = s}
    <2> DEFINE M == MeaningOf(ToSet(b.main))
    <2> DEFINE P == MeaningOf(ToSet(b.pii))
    <2> DEFINE L == MeaningOf(ToSet(b.log))
    <2>1. MeaningOf(CommandsOf(third, s)) =
            (IF s = scConfig.main THEN M \cup (IF SeparatePii THEN {} ELSE P)
                                         \cup (IF SeparateLog THEN {} ELSE L) ELSE {})
            \cup (IF SeparatePii /\ s = scConfig.pii THEN P ELSE {})
            \cup (IF SeparateLog /\ s = scConfig.log THEN L ELSE {})
      BY <1>13 DEF MeaningOf
    <2>2. /\ SeparatePii \/ SeparateLog =>
               /\ M = AskedTokens \ (LogScans \cup {"pii_scanner"})
               /\ P = AskedTokens \cap {"pii_scanner"} /\ L = AskedTokens \cap LogScans
          /\ ~SeparatePii /\ ~SeparateLog => M = AskedTokens /\ P = {} /\ L = {}
      BY <1>1, <1>2 DEF BucketsSound
    <2>3. "pii_scanner" \in AskedTokens => (SeparatePii <=> scConfig.pii # Unset)
      <3>1. "pii_scanner" \in AskedTokens => IncludesPii
        <4>1. "pii_scanner" \in AskedTokens =>
                "all" \in ToSet(Wanted) \/ "pii_scanner" \in ToSet(Wanted)
          BY WantedFacts DEF AskedTokens
        <4> QED
          BY <4>1, WantedFacts
      <3> QED
        BY <3>1 DEF SeparatePii
    <2>4. ASSUME NEW x \in AskedTokens \cap LogScans PROVE SeparateLog <=> scConfig.log # Unset
      <3>1. "all" \in ToSet(Wanted) \/ x \in ToSet(Wanted)
        <4>1. x # "ssl_check"
          BY DEF LogScans
        <4> QED
          BY <4>1, WantedFacts DEF AskedTokens
      <3>2. IncludesLog
        BY <3>1, WantedFacts
      <3> QED
        BY <3>2 DEF SeparateLog
    <2>5. "pii_scanner" \notin LogScans
      BY DEF LogScans
    <2> HIDE DEF M, P, L
    <2>6. ASSUME NEW x PROVE x \in MeaningOf(CommandsOf(third, s)) <=> x \in AskedTokens /\ When(x) = s
      <3>1. CASE x = "pii_scanner"
        BY <2>1, <2>2, <2>3, <2>5, <3>1 DEF When
      <3>2. CASE x \in LogScans
        BY <2>1, <2>2, <2>4, <2>5, <3>2 DEF When
      <3>3. CASE x # "pii_scanner" /\ x \notin LogScans
        BY <2>1, <2>2, <3>3 DEF When
      <3> QED
        BY <3>1, <3>2, <3>3
    <2> QED
      BY <2>6
  <1> QED
    BY <1>11, <1>12, <1>14, <1>15

\* The map that is served holds, at every schedule, commands that mean together
\* what the configuration requests of that schedule.
MapServes(map) ==
    /\ IsMap(map) /\ DOMAIN map \subseteq DOMAIN ScGaps
    /\ \A s, t, x : <<t, x>> \in Requested(s)
                      <=> \E c \in CommandsOf(map, s) : t \in ToSet(c.targets) /\ x \in Meant(c)

\* Whatever buckets the scan commands go to, and whichever schedules they share with
\* each other and with legacy crons: a schedule's commands mean what is requested of
\* it, no scan more and none less (BuildCollectorScheduleMap).
THEOREM MapMeansRequests ==
  ASSUME scConfig \in ScConfigs, SetupServes
  PROVE  MapServes(BuildCollectorScheduleMap)
  <1>1. PICK out : out = IF Ready THEN CollectorMap ELSE <<>>
    OBVIOUS
  <1>2. PICK map : map = MergeLegacyCrons(out)
    OBVIOUS
  <1>3. map = BuildCollectorScheduleMap /\ DOMAIN map \subseteq DOMAIN ScGaps
    BY <1>1, <1>2 DEF BuildCollectorScheduleMap, SetupServes, AllParsed
  <1> DEFINE legacies == {l.schedule : l \in ToSet(scConfig.legacy)}
  <1>4. /\ IsMap(out)
        /\ \A s : OnConfigured(CommandsOf(out, s))
        /\ \A s : MeaningOf(CommandsOf(out, s)) = IF Ready THEN {x \in AskedTokens : When(x) = s} ELSE {}
    <2>1. CASE Ready
      BY <1>1, <2>1, CollectorMapFacts DEF SetupServes
    <2>2. CASE ~Ready
      BY <1>1, <2>2, NothingThere DEF OnConfigured, MeaningOf
    <2> QED
      BY <2>1, <2>2
  <1> DEFINE old(s) == IF s \in DOMAIN out THEN out[s] ELSE <<>>
  <1>5. ASSUME NEW s PROVE old(s) \in Seq(ScCommands) /\ ToSet(old(s)) = CommandsOf(out, s)
    <2>1. CASE s \in DOMAIN out
      BY <1>4, <2>1 DEF CommandsOf, IsMap
    <2>2. CASE s \notin DOMAIN out
      BY <2>2, NothingThere DEF CommandsOf
    <2> QED
      BY <2>1, <2>2
  <1>6. /\ DOMAIN map = DOMAIN out \cup legacies
        /\ \A s \in DOMAIN map : map[s] = old(s) \o LegacyCommands(s)
    BY <1>2 DEF MergeLegacyCrons
  <1> HIDE DEF old
  <1>7. ASSUME NEW s \in DOMAIN map
        PROVE  /\ map[s] \in Seq(ScCommands)
               /\ ToSet(map[s]) = CommandsOf(out, s) \cup ToSet(LegacyCommands(s))
    <2>1. PICK o, l : o = old(s) /\ l = LegacyCommands(s)
      OBVIOUS
    <2>2. o \in Seq(ScCommands) /\ l \in Seq(ScCommands) /\ ToSet(o) = CommandsOf(out, s)
      BY <1>5, <2>1, LegacyFacts
    <2>3. map[s] = o \o l
      BY <1>6, <2>1
    <2> QED
      BY <2>1, <2>2, <2>3, SetOfJoined
  <1>8. ASSUME NEW s, s \notin DOMAIN map
        PROVE  CommandsOf(out, s) = {} /\ ToSet(LegacyCommands(s)) = {}
    <2>1. s \notin DOMAIN out /\ s \notin legacies
      BY <1>6, <1>8
    <2> QED
      BY <2>1, LegacyFacts DEF CommandsOf
  <1>9. ASSUME NEW s PROVE CommandsOf(map, s) = CommandsOf(out, s) \cup ToSet(LegacyCommands(s))
    BY <1>7, <1>8 DEF CommandsOf
  <1>10. IsMap(map)
    BY <1>7 DEF IsMap
  <1>11. ASSUME NEW s, NEW t, NEW x
         PROVE  <<t, x>> \in Requested(s)
                  <=> \E c \in CommandsOf(map, s) : t \in ToSet(c.targets) /\ x \in Meant(c)
    <2> DEFINE Of(c) == t \in ToSet(c.targets) /\ x \in Meant(c)
    <2>1. (\E c \in CommandsOf(map, s) : Of(c)) <=>
            (\E c \in CommandsOf(out, s) : Of(c)) \/ (\E c \in ToSet(LegacyCommands(s)) : Of(c))
      BY <1>9
    <2>2. (\E c \in CommandsOf(out, s) : Of(c)) <=>
            Ready /\ t \in ToSet(scConfig.targets) /\ x \in AskedTokens /\ When(x) = s
      <3>1. (\E c \in CommandsOf(out, s) : Of(c)) <=>
              t \in ToSet(scConfig.targets) /\ x \in MeaningOf(CommandsOf(out, s))
        BY <1>4 DEF OnConfigured, MeaningOf
      <3> QED
        BY <1>4, <3>1
    <2>3. (\E c \in ToSet(LegacyCommands(s)) : Of(c)) <=>
            \E l \in ToSet(scConfig.legacy) :
               l.schedule = s /\ t \in ToSet(l.targets) /\ x \in Meant(l)
      <3>1. \A l : LET c == ScCommand(l.name, l.targets, l.mysql, l.logParser)
                   IN c.targets = l.targets /\ Meant(c) = Meant(l)
        BY DEF ScCommand, Meant
      <3> QED
        BY <3>1, LegacyFacts
    <2>4. <<t, x>> \in Requested(s) <=>
            \/ Ready /\ t \in ToSet(scConfig.targets) /\ x \in AskedTokens /\ When(x) = s
            \/ \E l \in ToSet(scConfig.legacy) :
                  l.schedule = s /\ t \in ToSet(l.targets) /\ x \in Meant(l)
      BY DEF Requested
    <2> QED
      BY <2>1, <2>2, <2>3, <2>4
  <1> QED
    BY <1>3, <1>10, <1>11 DEF MapServes

-----------------------------------------------------------------------------
(* A job.                                                                    *)

\* What a job collects for a target, apart from what is pushed at once.
OwnReports == ToSet(CoreScans) \cup {"mysql"} \cup RdsCommands
ScReports == OwnReports \cup LogScans \cup {"log_readiness"}
ScDbs == {PiiDb(t) : t \in ScTargets}
ScLogs == [firing : Nat \ {0}, late : Nat, before : Nat, missed : SUBSET (Nat \X Nat)]
Jobs0 ==
    [schedule : DOMAIN scMap \ DOMAIN scRuns, command : Nat \ {0}, target : Nat \ {0}, scan : Nat,
     reports : [ScTargets -> SUBSET ScReports], failed : BOOLEAN, unsent : SUBSET ScDbs, log : ScLogs]

LEMMA OwnSet ==
  /\ OwnReports = {"postgres_cis", "hba_scanner", "ssl_check", "common_users", "mysql",
                   "aws_rds", "aws_aurora"}
  /\ OwnReports \cap LogScans = {} /\ "pii_scanner" \notin OwnReports /\ "logs" \notin OwnReports
  /\ "log_readiness" \notin OwnReports /\ "guc_drift" \notin OwnReports
  /\ "pii_scanner" \notin LogScans /\ "logs" \notin LogScans /\ "guc_drift" \notin LogScans
  /\ ToSet(CoreScans) \subseteq OwnReports
  BY CoreSet DEF OwnReports, RdsCommands, LogScans

\* A job is where its loops can be.
Placed(job) ==
    LET cmds == scMap[job.schedule]
        c    == cmds[job.command]
    IN job.command <= Len(cmds) =>
         /\ c.targets # <<>> => job.target <= Len(c.targets)
         /\ job.scan <= Len(ScanNames(c))
         /\ job.scan # 0 => c.targets # <<>> /\ ValidCommand(c.name)
\* The k-th scan of the c-th command on its i-th target comes before that place.
Past(job, c, i, k) ==
    c < job.command \/ (c = job.command /\ (i < job.target \/ (i = job.target /\ k < job.scan)))

\* A scan that was done is to be seen: in the reports, or in what was pushed.
WasSeen(job, stored, t, x) ==
    /\ x = "pii_scanner" => \/ <<job.schedule, PiiDb(t), "pii_scanner">> \in stored
                            \/ PiiDb(t) \in job.unsent
    /\ x \in LogScans \cup {"logs"} => job.reports[t] \cap LogScans # {}
    /\ x \in OwnReports => x \in job.reports[t]
Finished(job, stored) ==
    LET cmds == scMap[job.schedule]
    IN ~job.failed =>
         \A c \in 1 .. Len(cmds) : \A i \in 1 .. Len(cmds[c].targets) :
           \A k \in 1 .. Len(ScanNames(cmds[c])) :
             Past(job, c, i, k) => /\ ValidCommand(cmds[c].name)
                                   /\ WasSeen(job, stored, cmds[c].targets[i], ScanNames(cmds[c])[k])
\* The log it reads joins what was read before, with the exceptions named.
LogJoined(schedule, missed) ==
    \A w \in missed : Len(ScGaps[schedule]) >= 3 \/ w[1] > w[2]
\* It reports what was asked for, and knows how far back its logs are read.
Reporting(job) ==
    /\ \A t \in ScTargets : \A x \in job.reports[t] :
         x = "log_readiness" \/ <<t, x>> \in Requested(job.schedule)
    /\ LogJoined(job.schedule, job.log.missed)
JobOk(job, stored) == job \in Jobs0 /\ Placed(job) /\ Finished(job, stored) /\ Reporting(job)

LEMMA ScanNamesFacts ==
  ASSUME NEW c, c.mysql \in Nat
  PROVE  /\ Len(ScanNames(c)) \in Nat
         /\ c.name # "mysql" \/ c.mysql # 0 => Len(ScanNames(c)) # 0
         /\ ScanNames(c) = <<>> <=> Len(ScanNames(c)) = 0
  <1>1. CASE c.name = "all"
    <2>1. ScanNames(c) = CoreScans \o <<"logs", "pii_scanner">>
      BY <1>1 DEF ScanNames
    <2>2. Len(ScanNames(c)) = 6
      BY <2>1 DEF CoreScans
    <2>3. ScanNames(c) # <<>>
      BY <2>1 DEF CoreScans
    <2> QED
      BY <2>2, <2>3
  <1>2. CASE c.name = "all_core"
    <2>1. ScanNames(c) = CoreScans
      BY <1>2 DEF ScanNames
    <2>2. Len(CoreScans) = 4 /\ CoreScans # <<>>
      BY DEF CoreScans
    <2> QED
      BY <2>1, <2>2
  <1>3. CASE c.name = "mysql"
    <2>5. PICK n : n = c.mysql
      OBVIOUS
    <2>6. n \in Nat
      BY <2>5
    <2>1. PICK names : names = [i \in 1 .. n |-> "mysql"]
      OBVIOUS
    <2>2. ScanNames(c) = names
      BY <1>3, <2>1, <2>5 DEF ScanNames
    <2>3. names \in Seq({"mysql"}) /\ Len(names) = n
      BY <2>1, <2>6
    <2>4. names = <<>> <=> Len(names) = 0
      BY <2>3
    <2> QED
      BY <1>3, <2>2, <2>3, <2>4, <2>5, <2>6
  <1>4. CASE c.name \notin {"all", "all_core", "mysql"}
    <2>1. ScanNames(c) = <<c.name>>
      BY <1>4 DEF ScanNames
    <2> QED
      BY <2>1
  <1> QED
    BY <1>1, <1>2, <1>3, <1>4

\* The scans of a command are what it means, the log scans of "all" being one.
LEMMA ScansMeant ==
  ASSUME NEW c, c.mysql \in Nat, ValidCommand(c.name), NEW names, names = ScanNames(c)
  PROVE  /\ \A x \in Meant(c) : \E k \in 1 .. Len(names) :
              names[k] = x \/ (x \in LogScans /\ names[k] = "logs")
         /\ \A k \in 1 .. Len(names) :
              IF names[k] = "logs" THEN LogScans \subseteq Meant(c) ELSE names[k] \in Meant(c)
  <1>1. CASE c.name = "all"
    <2>1. PICK first, last : first = CoreScans /\ last = <<"logs", "pii_scanner">>
      OBVIOUS
    <2>6. names = first \o last
      BY <1>1, <2>1 DEF ScanNames
    <2>7. /\ Len(first) = 4 /\ first[1] = "postgres_cis" /\ first[2] = "hba_scanner"
          /\ first[3] = "ssl_check" /\ first[4] = "common_users"
          /\ Len(last) = 2 /\ last[1] = "logs" /\ last[2] = "pii_scanner"
      BY <2>1 DEF CoreScans
    <2> DEFINE Y == ToSet(CoreScans) \cup {"logs", "pii_scanner"}
    <2>8. first \in Seq(Y) /\ last \in Seq(Y)
      BY <2>1, CoreSet DEF CoreScans
    <2> HIDE DEF Y
    <2>2. Meant(c) = {"postgres_cis", "hba_scanner", "ssl_check", "common_users", "pii_scanner"}
                          \cup LogScans
      BY <1>1, CoreSet DEF Meant, AllScans
    <2>9. /\ Len(names) = Len(first) + Len(last) /\ Len(first) \in Nat /\ Len(last) \in Nat
          /\ \A i \in 1 .. Len(first) : names[i] = first[i]
          /\ \A i \in 1 .. Len(last) : names[Len(first) + i] = last[i]
      BY <2>6, <2>8
    <2>3. Len(names) = 6 /\ names[1] = "postgres_cis" /\ names[2] = "hba_scanner" /\ names[3] = "ssl_check"
          /\ names[4] = "common_users" /\ names[5] = "logs" /\ names[6] = "pii_scanner"
      <3>1. /\ Len(names) = 6 /\ names[1] = first[1] /\ names[2] = first[2] /\ names[3] = first[3]
            /\ names[4] = first[4] /\ names[4 + 1] = last[1] /\ names[4 + 2] = last[2]
        <4>1. Len(first) = 4 /\ Len(last) = 2
          BY <2>7
        <4> QED
          BY <2>9, <4>1
      <3> QED
        BY <2>7, <3>1
    <2>4. \A k \in 1 .. 6 : k \in {1, 2, 3, 4, 5, 6}
      OBVIOUS
    <2>5. "logs" \notin LogScans
      BY DEF LogScans
    <2> QED
      BY <2>2, <2>3, <2>4, <2>5
  <1>2. CASE c.name = "all_core"
    <2>1. names = CoreScans /\ Meant(c) = ToSet(CoreScans)
      BY <1>2 DEF ScanNames, Meant
    <2>2. ToSet(CoreScans) = {CoreScans[k] : k \in 1 .. Len(CoreScans)}
      BY CoreSet DEF ToSet
    <2>3. "logs" \notin ToSet(CoreScans)
      BY CoreSet
    <2> QED
      BY <2>1, <2>2, <2>3
  <1>3. CASE c.name = "mysql"
    <2>1. PICK all : all = [i \in 1 .. c.mysql |-> "mysql"]
      OBVIOUS
    <2>2. names = all
      BY <1>3, <2>1 DEF ScanNames
    <2>3. Len(names) = c.mysql /\ \A k \in 1 .. c.mysql : names[k] = "mysql"
      BY <2>1, <2>2
    <2>4. Meant(c) = IF c.mysql = 0 THEN {} ELSE {"mysql"}
      BY <1>3 DEF Meant
    <2>5. CASE c.mysql = 0
      BY <2>3, <2>4, <2>5
    <2>6. CASE c.mysql # 0
      <3>1. 1 \in 1 .. c.mysql
        BY <2>6
      <3>2. \A k \in 1 .. c.mysql : names[k] # "logs" /\ names[k] \in Meant(c)
        BY <2>3, <2>4, <2>6
      <3>3. \A x \in Meant(c) : names[1] = x
        BY <2>3, <2>4, <2>6, <3>1
      <3> QED
        BY <2>3, <3>1, <3>2, <3>3
    <2> QED
      BY <2>5, <2>6
  <1>4. CASE c.name \notin {"all", "all_core", "mysql"}
    <2>1. names = <<c.name>> /\ Meant(c) = {c.name}
      BY <1>4 DEF ScanNames, Meant
    <2>2. c.name # "logs"
      BY CoreSet DEF ValidCommand, LogScans, RdsCommands
    <2>3. Len(names) = 1 /\ names[1] = c.name
      BY <2>1
    <2> QED
      BY <2>1, <2>2, <2>3
  <1> QED
    BY <1>1, <1>2, <1>3, <1>4

\* Of a map that serves, the commands and their targets.
LEMMA CommandFacts ==
  ASSUME MapServes(scMap), NEW s \in DOMAIN scMap
  PROVE  /\ scMap[s] \in Seq(ScCommands)
         /\ \A c \in 1 .. Len(scMap[s]) :
              /\ scMap[s][c] \in CommandsOf(scMap, s) /\ scMap[s][c].mysql \in Nat
              /\ Len(ScanNames(scMap[s][c])) \in Nat
              /\ scMap[s][c].targets \in Seq(STRING)
              /\ \A i \in 1 .. Len(scMap[s][c].targets) :
                   /\ scMap[s][c].targets[i] \in ToSet(scMap[s][c].targets)
                   /\ scMap[s][c].targets[i] \in ScTargets
         /\ \A d \in CommandsOf(scMap, s) : \E c \in 1 .. Len(scMap[s]) : scMap[s][c] = d
         /\ \A c \in 1 .. Len(scMap[s]) : \A t \in ToSet(scMap[s][c].targets) :
              \E i \in 1 .. Len(scMap[s][c].targets) : scMap[s][c].targets[i] = t
  <1>1. PICK cmds : cmds = scMap[s]
    OBVIOUS
  <1>2. cmds \in Seq(ScCommands)
    BY <1>1 DEF MapServes, IsMap
  <1>3. CommandsOf(scMap, s) = {cmds[c] : c \in 1 .. Len(cmds)}
    BY <1>1, <1>2 DEF CommandsOf, ToSet
  <1>4. ASSUME NEW c \in 1 .. Len(cmds)
        PROVE  /\ cmds[c].targets \in Seq(STRING) /\ ToSet(cmds[c].targets) \subseteq ScTargets
               /\ cmds[c].mysql \in Nat /\ Len(ScanNames(cmds[c])) \in Nat
               /\ ToSet(cmds[c].targets) = {cmds[c].targets[i] : i \in 1 .. Len(cmds[c].targets)}
    <2>1. cmds[c] \in ScCommands
      BY <1>2, <1>4
    <2>2. PICK ts : ts = cmds[c].targets
      OBVIOUS
    <2>3. ts \in Seq(STRING) /\ ToSet(ts) \subseteq ScTargets
      BY <2>1, <2>2 DEF ScCommands
    <2>4. ToSet(ts) = {ts[i] : i \in 1 .. Len(ts)}
      BY <2>3 DEF ToSet
    <2>5. cmds[c].mysql \in Nat
      BY <2>1 DEF ScCommands
    <2>6. Len(ScanNames(cmds[c])) \in Nat
      BY <2>5, ScanNamesFacts
    <2> QED
      BY <2>2, <2>3, <2>4, <2>5, <2>6
  <1>5. ASSUME NEW c \in 1 .. Len(cmds), NEW i \in 1 .. Len(cmds[c].targets)
        PROVE  cmds[c].targets[i] \in ToSet(cmds[c].targets) /\ cmds[c].targets[i] \in ScTargets
    BY <1>4, <1>5
  <1>6. ASSUME NEW c \in 1 .. Len(cmds), NEW t \in ToSet(cmds[c].targets)
        PROVE  \E i \in 1 .. Len(cmds[c].targets) : cmds[c].targets[i] = t
    BY <1>4, <1>6
  <1> QED
    BY <1>1, <1>2, <1>3, <1>4, <1>5, <1>6, ZenonT(60)

\* A job that is somewhere in its loops.
Somewhere == scJob \in Jobs0 /\ Placed(scJob) /\ ~AtEnd /\ MapServes(scMap)
\* A job that goes on from there, whatever it adds to the reports.
MovedOn(job) ==
    /\ job.schedule = scJob.schedule /\ job.reports = scJob.reports
    /\ job.failed = scJob.failed /\ job.log = scJob.log /\ job.unsent = scJob.unsent
    /\ job \in Jobs0 /\ Placed(job)

LEMMA Where ==
  ASSUME Somewhere
  PROVE  /\ scJob.schedule \in DOMAIN scMap /\ scJob.command \in 1 .. Len(Commands)
         /\ Commands \in Seq(ScCommands) /\ Len(Commands) \in Nat
         /\ Command.targets \in Seq(STRING) /\ Len(Command.targets) \in Nat
         /\ Command.targets # <<>> => /\ scJob.target \in 1 .. Len(Command.targets)
                                      /\ Target \in ScTargets /\ Target \in ToSet(Command.targets)
         /\ scJob.scan \in 0 .. Len(ScanNames(Command))
         /\ Len(ScanNames(Command)) \in Nat /\ Command.mysql \in Nat
         /\ scJob.scan # 0 => Command.targets # <<>> /\ ValidCommand(Command.name)
         /\ Command \in CommandsOf(scMap, scJob.schedule)
  <1>1. /\ scJob.schedule \in DOMAIN scMap /\ scJob.command \in Nat \ {0}
        /\ scJob.target \in Nat \ {0} /\ scJob.scan \in Nat
    BY DEF Somewhere, Jobs0
  <1>2. Commands \in Seq(ScCommands) /\ Len(Commands) \in Nat
    BY <1>1, CommandFacts DEF Commands, Somewhere
  <1>3. scJob.command \in 1 .. Len(Commands)
    BY <1>1, <1>2 DEF Somewhere, AtEnd
  <1>4. /\ Command.targets \in Seq(STRING) /\ Command \in CommandsOf(scMap, scJob.schedule)
        /\ \A i \in 1 .. Len(Command.targets) :
             Command.targets[i] \in ToSet(Command.targets) /\ Command.targets[i] \in ScTargets
    BY <1>1, <1>3, CommandFacts DEF Command, Commands, Somewhere
  <1>5. /\ Command.targets # <<>> => scJob.target <= Len(Command.targets)
        /\ scJob.scan <= Len(ScanNames(Command))
        /\ scJob.scan # 0 => Command.targets # <<>> /\ ValidCommand(Command.name)
    BY <1>2, <1>3 DEF Somewhere, Placed, Command, Commands
  <1>8. Len(ScanNames(Command)) \in Nat /\ Command.mysql \in Nat
    BY <1>1, <1>3, CommandFacts DEF Command, Commands, Somewhere
  <1>6. /\ Len(ScanNames(Command)) \in Nat /\ Len(Command.targets) \in Nat
        /\ Command.mysql \in Nat
    BY <1>4, <1>8
  <1>7. Command.targets # <<>> => scJob.target \in 1 .. Len(Command.targets)
    BY <1>1, <1>5, <1>6
  <1> QED
    BY <1>1, <1>2, <1>3, <1>4, <1>5, <1>6, <1>7 DEF Target

LEMMA NextCommandFacts ==
  ASSUME Somewhere
  PROVE  /\ MovedOn(NextCommand)
         /\ NextCommand.command = scJob.command + 1 /\ NextCommand.target = 1 /\ NextCommand.scan = 0
  <1>1. PICK job : job = NextCommand
    OBVIOUS
  <1>2. /\ job.schedule = scJob.schedule /\ job.reports = scJob.reports
        /\ job.failed = scJob.failed /\ job.log = scJob.log /\ job.unsent = scJob.unsent
        /\ job.command = scJob.command + 1 /\ job.target = 1 /\ job.scan = 0
    BY <1>1 DEF NextCommand, Somewhere, Jobs0
  <1>3. job \in Jobs0
    <2>1. job = [schedule |-> scJob.schedule, command |-> scJob.command + 1, target |-> 1, scan |-> 0,
                 reports |-> scJob.reports, failed |-> scJob.failed, unsent |-> scJob.unsent, log |-> scJob.log]
      BY <1>1 DEF NextCommand, Somewhere, Jobs0
    <2> QED
      BY <2>1 DEF Somewhere, Jobs0
  <1>4. Placed(job)
    <2> SUFFICES ASSUME job.command <= Len(Commands),
                        Commands[job.command].targets # <<>>
                 PROVE  1 <= Len(Commands[job.command].targets)
      <3>1. job.command <= Len(Commands) => 0 <= Len(ScanNames(Commands[job.command]))
        <4> SUFFICES ASSUME job.command <= Len(Commands)
                     PROVE  0 <= Len(ScanNames(Commands[job.command]))
          OBVIOUS
        <4>1. job.command \in 1 .. Len(Commands)
          BY <1>2, Where
        <4>2. Len(ScanNames(Commands[job.command])) \in Nat
          BY <4>1, Where, CommandFacts DEF Commands, Somewhere
        <4> QED
          BY <4>2
      <3> QED
        BY <1>2, <3>1 DEF Placed, Commands
    <2>1. job.command \in 1 .. Len(Commands)
      BY <1>2, Where
    <2>2. Commands[job.command].targets \in Seq(STRING)
      BY <2>1, Where, CommandFacts DEF Commands, Somewhere
    <2> QED
      BY <2>2
  <1> QED
    BY <1>1, <1>2, <1>3, <1>4 DEF MovedOn

LEMMA NextTargetFacts ==
  ASSUME Somewhere, Command.targets # <<>>
  PROVE  /\ MovedOn(NextTarget) /\ NextTarget.scan = 0
         /\ \/ /\ scJob.target < Len(Command.targets)
               /\ NextTarget.command = scJob.command /\ NextTarget.target = scJob.target + 1
            \/ /\ scJob.target = Len(Command.targets)
               /\ NextTarget.command = scJob.command + 1 /\ NextTarget.target = 1
  <1>1. scJob.target \in 1 .. Len(Command.targets) /\ Len(Command.targets) \in Nat
    BY Where
  <1>2. CASE scJob.target < Len(Command.targets)
    <2>1. PICK job : job = NextTarget
      OBVIOUS
    <2>2. job = [scJob EXCEPT !.target = @ + 1, !.scan = 0]
      BY <1>2, <2>1 DEF NextTarget
    <2>3. /\ job.schedule = scJob.schedule /\ job.reports = scJob.reports
          /\ job.failed = scJob.failed /\ job.log = scJob.log /\ job.unsent = scJob.unsent
          /\ job.command = scJob.command /\ job.target = scJob.target + 1 /\ job.scan = 0
      BY <2>2 DEF Somewhere, Jobs0
    <2>5. job \in Jobs0
      <3>1. job = [schedule |-> scJob.schedule, command |-> scJob.command,
                   target |-> scJob.target + 1, scan |-> 0, reports |-> scJob.reports,
                   failed |-> scJob.failed, unsent |-> scJob.unsent, log |-> scJob.log]
        BY <2>2 DEF Somewhere, Jobs0
      <3> QED
        BY <3>1 DEF Somewhere, Jobs0
    <2>4. Placed(job)
      <3>1. 0 <= Len(ScanNames(Command))
        BY Where
      <3> QED
        BY <1>1, <1>2, <2>3, <3>1, SMTT(40) DEF Placed, Command, Commands
    <2> QED
      BY <1>2, <2>1, <2>3, <2>4, <2>5 DEF MovedOn
  <1>3. CASE ~(scJob.target < Len(Command.targets))
    <2>1. NextTarget = NextCommand /\ scJob.target = Len(Command.targets)
      BY <1>1, <1>3 DEF NextTarget
    <2> QED
      BY <2>1, NextCommandFacts
  <1> QED
    BY <1>2, <1>3

\* The numbers of a command's scans.
LEMMA ScanNumbers ==
  ASSUME Somewhere, NEW c \in 1 .. Len(Commands), NEW k \in 1 .. Len(ScanNames(Commands[c]))
  PROVE  k \in Nat \ {0}
  <1>1. Len(ScanNames(Commands[c])) \in Nat
    BY Where, CommandFacts DEF Commands, Somewhere
  <1> QED
    BY <1>1

\* What is past after the last scan of a target was past before it, or is that scan.
LEMMA PastTarget ==
  ASSUME Somewhere, Command.targets # <<>>, scJob.scan = Len(ScanNames(Command)),
         NEW c \in 1 .. Len(Commands), NEW i \in 1 .. Len(Commands[c].targets),
         NEW k \in 1 .. Len(ScanNames(Commands[c])), Past(NextTarget, c, i, k)
  PROVE  Past(scJob, c, i, k) \/ (c = scJob.command /\ i = scJob.target /\ k = scJob.scan)
  <1>1. /\ scJob.scan \in 0 .. Len(ScanNames(Command)) /\ Len(ScanNames(Command)) \in Nat
        /\ scJob.target \in 1 .. Len(Command.targets) /\ Len(Command.targets) \in Nat
        /\ scJob.command \in 1 .. Len(Commands)
    BY Where
  <1>2. PICK job : job = NextTarget
    OBVIOUS
  <1>3. /\ job.scan = 0
        /\ \/ /\ scJob.target < Len(Command.targets)
              /\ job.command = scJob.command /\ job.target = scJob.target + 1
           \/ /\ scJob.target = Len(Command.targets)
              /\ job.command = scJob.command + 1 /\ job.target = 1
    BY <1>1, <1>2, NextTargetFacts
  <1>4. Past(job, c, i, k)
    BY <1>2
  <1>5. k \in Nat \ {0}
    BY ScanNumbers
  <1>6. i \in Nat \ {0}
    <2>1. Commands[c].targets \in Seq(STRING)
      BY Where, CommandFacts DEF Commands, Somewhere
    <2> QED
      BY <2>1
  <1>7. c < scJob.command + 1
    BY <1>1, <1>3, <1>4, <1>5, <1>6, SMTT(40) DEF Past
  <1>8. CASE c < scJob.command
    BY <1>8 DEF Past
  <1>9. CASE c = scJob.command
    <2>1. i \in 1 .. Len(Command.targets) /\ k \in 1 .. Len(ScanNames(Command))
      BY <1>9 DEF Command
    <2>2. i <= scJob.target
      BY <1>1, <1>3, <1>4, <1>9, <2>1, SMTT(40) DEF Past
    <2> QED
      BY <1>1, <1>9, <2>1, <2>2 DEF Past
  <1> QED
    BY <1>1, <1>7, <1>8, <1>9

\* What is past after a scan was past before it, or is that scan.
LEMMA NextScanFacts ==
  ASSUME Somewhere, scJob.scan # 0
  PROVE  /\ MovedOn(NextScan)
         /\ \A c \in 1 .. Len(Commands) : \A i \in 1 .. Len(Commands[c].targets) :
              \A k \in 1 .. Len(ScanNames(Commands[c])) :
                Past(NextScan, c, i, k) =>
                  \/ Past(scJob, c, i, k)
                  \/ c = scJob.command /\ i = scJob.target /\ k = scJob.scan
  <1>1. /\ Command.targets # <<>> /\ scJob.scan \in 1 .. Len(ScanNames(Command))
        /\ Len(ScanNames(Command)) \in Nat
        /\ scJob.target \in 1 .. Len(Command.targets) /\ Len(Command.targets) \in Nat
        /\ scJob.command \in 1 .. Len(Commands) /\ ValidCommand(Command.name)
    BY Where
  <1>2. CASE scJob.scan < Len(ScanNames(Command))
    <2>1. PICK job : job = NextScan
      OBVIOUS
    <2>2. job = [scJob EXCEPT !.scan = @ + 1]
      BY <1>2, <2>1 DEF NextScan
    <2>3. /\ job.schedule = scJob.schedule /\ job.reports = scJob.reports
          /\ job.failed = scJob.failed /\ job.log = scJob.log /\ job.unsent = scJob.unsent
          /\ job.command = scJob.command /\ job.target = scJob.target /\ job.scan = scJob.scan + 1
          /\ job \in Jobs0
      BY <2>2 DEF Somewhere, Jobs0
    <2>4. Placed(job)
      BY <1>1, <1>2, <2>3 DEF Placed, Command, Commands
    <2>5. \A c, i : \A k \in Nat :
             Past(job, c, i, k) =>
               \/ Past(scJob, c, i, k)
               \/ c = scJob.command /\ i = scJob.target /\ k = scJob.scan
      BY <1>1, <2>3 DEF Past
    <2>6. MovedOn(job)
      BY <2>3, <2>4 DEF MovedOn
    <2> QED
      BY <2>1, <2>5, <2>6, ScanNumbers
  <1>3. CASE ~(scJob.scan < Len(ScanNames(Command)))
    <2>1. NextScan = NextTarget /\ scJob.scan = Len(ScanNames(Command))
      BY <1>1, <1>3 DEF NextScan
    <2> QED
      BY <1>1, <2>1, NextTargetFacts, PastTarget
  <1> QED
    BY <1>2, <1>3

\* A job that goes on keeps what it has seen, and reports what its command asks for.
LEMMA GoesOn ==
  ASSUME Somewhere, JobOk(scJob, scStored), NEW job, NEW stored,
         job \in Jobs0, Placed(job), job.schedule = scJob.schedule,
         job.log = scJob.log \/ LogJoined(scJob.schedule, job.log.missed),
         scJob.unsent \subseteq job.unsent,
         scStored \subseteq stored,
         \A t \in ScTargets : \A x \in job.reports[t] :
            \/ x \in scJob.reports[t] \/ x = "log_readiness"
            \/ t = Target /\ Command.targets # <<>> /\ x \in Meant(Command),
         job.failed \/
           /\ ~scJob.failed
           /\ \A t \in ScTargets :
                /\ \A x \in scJob.reports[t] \ LogScans : x \in job.reports[t]
                /\ scJob.reports[t] \cap LogScans # {} => job.reports[t] \cap LogScans # {}
           /\ \A c \in 1 .. Len(Commands) : \A i \in 1 .. Len(Commands[c].targets) :
                \A k \in 1 .. Len(ScanNames(Commands[c])) :
                  Past(job, c, i, k) =>
                    \/ Past(scJob, c, i, k)
                    \/ c = scJob.command /\ i = scJob.target /\ k = scJob.scan /\ scJob.scan # 0
           /\ scJob.scan # 0 => WasSeen(job, stored, Target, ScanName)
  PROVE  JobOk(job, stored)
  <1>1. Reporting(job)
    <2>1. \A t \in ScTargets : \A x \in job.reports[t] :
             x = "log_readiness" \/ <<t, x>> \in Requested(job.schedule)
      <3> SUFFICES ASSUME NEW t \in ScTargets, NEW x \in job.reports[t], x # "log_readiness"
                   PROVE  <<t, x>> \in Requested(scJob.schedule)
        OBVIOUS
      <3>1. CASE x \in scJob.reports[t]
        BY <3>1 DEF JobOk, Reporting
      <3>2. CASE t = Target /\ Command.targets # <<>> /\ x \in Meant(Command)
        <4>1. Command \in CommandsOf(scMap, scJob.schedule) /\ Target \in ToSet(Command.targets)
          BY <3>2, Where
        <4> QED
          BY <3>2, <4>1 DEF Somewhere, MapServes
      <3> QED
        BY <3>1, <3>2
    <2>2. LogJoined(job.schedule, job.log.missed)
      BY DEF JobOk, Reporting
    <2> QED
      BY <2>1, <2>2 DEF Reporting
  <1>2. Finished(job, stored)
    <2> SUFFICES ASSUME ~job.failed,
                        NEW c \in 1 .. Len(Commands), NEW i \in 1 .. Len(Commands[c].targets),
                        NEW k \in 1 .. Len(ScanNames(Commands[c])), Past(job, c, i, k)
                 PROVE  /\ ValidCommand(Commands[c].name)
                        /\ WasSeen(job, stored, Commands[c].targets[i], ScanNames(Commands[c])[k])
      BY DEF Finished, Commands
    <2>1. CASE Past(scJob, c, i, k)
      <3>1. PICK t, x : t = Commands[c].targets[i] /\ x = ScanNames(Commands[c])[k]
        OBVIOUS
      <3>2. ValidCommand(Commands[c].name) /\ WasSeen(scJob, scStored, t, x)
        BY <2>1, <3>1 DEF JobOk, Finished, Commands
      <3>3. t \in ScTargets
        BY <3>1, Where, CommandFacts DEF Commands, Somewhere
      <3>4. WasSeen(job, stored, t, x)
        <4>1. x = "pii_scanner" => \/ <<job.schedule, PiiDb(t), "pii_scanner">> \in stored
                                   \/ PiiDb(t) \in job.unsent
          BY <3>2 DEF WasSeen
        <4>2. x \in LogScans \cup {"logs"} => job.reports[t] \cap LogScans # {}
          BY <3>2, <3>3 DEF WasSeen
        <4>3. x \in OwnReports => x \in job.reports[t]
          <5>1. x \in OwnReports => x \notin LogScans
            BY OwnSet
          <5> QED
            BY <3>2, <3>3, <5>1 DEF WasSeen
        <4> QED
          BY <4>1, <4>2, <4>3 DEF WasSeen
      <3> QED
        BY <3>1, <3>2, <3>4
    <2>2. CASE c = scJob.command /\ i = scJob.target /\ k = scJob.scan /\ scJob.scan # 0
      <3>1. Commands[c] = Command /\ Commands[c].targets[i] = Target
            /\ ScanNames(Commands[c])[k] = ScanName
        BY <2>2 DEF Command, Target, ScanName
      <3> QED
        BY <2>2, <3>1, Where
    <2> QED
      BY <2>1, <2>2
  <1> QED
    BY <1>1, <1>2 DEF JobOk

LEMMA FailingFacts ==
  ASSUME NEW job \in Jobs0, Placed(job)
  PROVE  /\ Failing(job) \in Jobs0 /\ Placed(Failing(job)) /\ Failing(job).failed
         /\ Failing(job).schedule = job.schedule /\ Failing(job).log = job.log /\ Failing(job).unsent = job.unsent
         /\ Failing(job).reports = job.reports
  <1>1. PICK f : f = Failing(job)
    OBVIOUS
  <1>2. f = [schedule |-> job.schedule, command |-> job.command, target |-> job.target,
             scan |-> job.scan, reports |-> job.reports, failed |-> TRUE, unsent |-> job.unsent, log |-> job.log]
    BY <1>1 DEF Failing, Jobs0
  <1>3. f \in Jobs0
    BY <1>2 DEF Jobs0
  <1>4. Placed(f)
    BY <1>2 DEF Placed
  <1> QED
    BY <1>1, <1>2, <1>3, <1>4

LEMMA AddingFacts ==
  ASSUME Somewhere, Command.targets # <<>>, NEW job \in Jobs0, Placed(job),
         NEW found \in SUBSET ScReports
  PROVE  /\ Adding(found, job) \in Jobs0 /\ Placed(Adding(found, job))
         /\ Adding(found, job).schedule = job.schedule /\ Adding(found, job).log = job.log
         /\ Adding(found, job).unsent = job.unsent
         /\ Adding(found, job).failed = job.failed /\ Adding(found, job).command = job.command
         /\ Adding(found, job).target = job.target /\ Adding(found, job).scan = job.scan
         /\ \A t \in ScTargets :
              Adding(found, job).reports[t] = IF t = Target THEN found ELSE job.reports[t]
  <1>1. PICK a : a = Adding(found, job)
    OBVIOUS
  <1>2. PICK reports : reports = [job.reports EXCEPT ![Target] = found]
    OBVIOUS
  <1>3. a = [schedule |-> job.schedule, command |-> job.command, target |-> job.target,
             scan |-> job.scan, reports |-> reports, failed |-> job.failed, unsent |-> job.unsent, log |-> job.log]
    BY <1>1, <1>2 DEF Adding, Jobs0
  <1>4. /\ reports \in [ScTargets -> SUBSET ScReports]
        /\ \A t \in ScTargets : reports[t] = IF t = Target THEN found ELSE job.reports[t]
    <2>1. Target \in ScTargets
      BY Where
    <2>2. job.reports \in [ScTargets -> SUBSET ScReports]
      BY DEF Jobs0
    <2> QED
      BY <1>2, <2>1, <2>2
  <1>5. a \in Jobs0
    BY <1>3, <1>4 DEF Jobs0
  <1>6. Placed(a)
    BY <1>3 DEF Placed
  <1> QED
    BY <1>1, <1>3, <1>4, <1>5, <1>6

\* A scan that fails, or a target whose scans are not run, lets the job go on.
LEMMA FailsOn ==
  ASSUME Somewhere, JobOk(scJob, scStored), NEW job, MovedOn(job)
  PROVE  JobOk(Failing(job), scStored) /\ Failing(job).schedule = scJob.schedule
  <1>1. PICK f : f = Failing(job)
    OBVIOUS
  <1>2. /\ f \in Jobs0 /\ Placed(f) /\ f.failed /\ f.schedule = scJob.schedule
        /\ f.log = scJob.log /\ f.unsent = scJob.unsent /\ f.reports = scJob.reports
    BY <1>1, FailingFacts DEF MovedOn
  <1> QED
    BY <1>1, <1>2, GoesOn

\* A scan that ends adds to the reports of its target.
LEMMA ScansOn ==
  ASSUME Somewhere, JobOk(scJob, scStored), scJob.scan # 0, NEW found \in SUBSET ScReports,
         \A x \in found : x \in TargetFound \/ x = "log_readiness" \/ x \in Meant(Command),
         \A x \in TargetFound \ LogScans : x \in found,
         TargetFound \cap LogScans # {} => found \cap LogScans # {},
         ScanName # "pii_scanner",
         ScanName \in LogScans \cup {"logs"} => found \cap LogScans # {},
         ScanName \in OwnReports => ScanName \in found
  PROVE  /\ JobOk(Adding(found, NextScan), scStored)
         /\ Adding(found, NextScan).schedule = scJob.schedule
  <1>1. PICK n : n = NextScan
    OBVIOUS
  <1>2. /\ MovedOn(n)
        /\ \A c \in 1 .. Len(Commands) : \A i \in 1 .. Len(Commands[c].targets) :
              \A k \in 1 .. Len(ScanNames(Commands[c])) :
                Past(n, c, i, k) =>
                  \/ Past(scJob, c, i, k)
                  \/ c = scJob.command /\ i = scJob.target /\ k = scJob.scan
    BY <1>1, NextScanFacts
  <1>3. PICK a : a = Adding(found, n)
    OBVIOUS
  <1>4. Command.targets # <<>> /\ Target \in ScTargets
    BY Where
  <1>5. /\ a \in Jobs0 /\ Placed(a) /\ a.schedule = scJob.schedule /\ a.log = scJob.log /\ a.unsent = scJob.unsent
        /\ a.failed = scJob.failed /\ a.command = n.command /\ a.target = n.target /\ a.scan = n.scan
        /\ \A t \in ScTargets : a.reports[t] = IF t = Target THEN found ELSE scJob.reports[t]
    BY <1>2, <1>3, <1>4, AddingFacts DEF MovedOn
  <1>6. \A c, i, k : Past(a, c, i, k) <=> Past(n, c, i, k)
    BY <1>5 DEF Past
  <1>7. WasSeen(a, scStored, Target, ScanName)
    BY <1>4, <1>5 DEF WasSeen
  <1>8. \A t \in ScTargets : \A x \in a.reports[t] :
            \/ x \in scJob.reports[t] \/ x = "log_readiness"
            \/ t = Target /\ Command.targets # <<>> /\ x \in Meant(Command)
    BY <1>4, <1>5 DEF TargetFound
  <1>9. \A t \in ScTargets :
          /\ \A x \in scJob.reports[t] \ LogScans : x \in a.reports[t]
          /\ scJob.reports[t] \cap LogScans # {} => a.reports[t] \cap LogScans # {}
    BY <1>5 DEF TargetFound
  <1>10. CASE scJob.failed
    BY <1>1, <1>3, <1>5, <1>8, <1>10, GoesOn
  <1>11. CASE ~scJob.failed
    <2>1. \A c \in 1 .. Len(Commands) : \A i \in 1 .. Len(Commands[c].targets) :
              \A k \in 1 .. Len(ScanNames(Commands[c])) :
                Past(a, c, i, k) =>
                  \/ Past(scJob, c, i, k)
                  \/ c = scJob.command /\ i = scJob.target /\ k = scJob.scan /\ scJob.scan # 0
      BY <1>2, <1>6
    <2> QED
      BY <1>1, <1>3, <1>5, <1>7, <1>8, <1>9, <1>11, <2>1, GoesOn
  <1> QED
    BY <1>10, <1>11

LEMMA ScanNameMeant ==
  ASSUME Somewhere, scJob.scan # 0
  PROVE  IF ScanName = "logs" THEN LogScans \subseteq Meant(Command)
                              ELSE ScanName \in Meant(Command)
  <1>1. PICK names : names = ScanNames(Command)
    OBVIOUS
  <1>2. ValidCommand(Command.name) /\ scJob.scan \in 1 .. Len(names) /\ Command.mysql \in Nat
    BY <1>1, Where
  <1>3. \A k \in 1 .. Len(names) :
           IF names[k] = "logs" THEN LogScans \subseteq Meant(Command)
                                ELSE names[k] \in Meant(Command)
    BY <1>1, <1>2, ScansMeant
  <1> QED
    BY <1>1, <1>2, <1>3 DEF ScanName

LEMMA FoundThere ==
  ASSUME Somewhere, scJob.scan # 0
  PROVE  TargetFound \in SUBSET ScReports
  BY Where DEF TargetFound, Somewhere, Jobs0

LEMMA RunnerOn ==
  ASSUME Somewhere, JobOk(scJob, scStored), scJob.scan # 0, NEW fails, NEW scans,
         Runner(fails, scans), ScanName \in OwnReports \cup {"guc_drift"},
         scans = {ScanName} \cap OwnReports
  PROVE  JobOk(scJob', scStored) /\ scJob'.schedule = scJob.schedule
  <1>1. CASE fails
    <2>1. PICK n : n = NextScan
      OBVIOUS
    <2>2. MovedOn(n) /\ scJob' = Failing(n)
      BY <1>1, <2>1, NextScanFacts DEF Runner
    <2> QED
      BY <2>2, FailsOn
  <1>2. CASE ~fails
    <2>1. PICK found : found = TargetFound \cup scans
      OBVIOUS
    <2>2. scJob' = Adding(found, NextScan)
      BY <1>2, <2>1 DEF Runner
    <2>3. ScanName \notin LogScans \cup {"logs", "pii_scanner"}
      BY OwnSet
    <2>4. ScanName \in Meant(Command)
      BY <2>3, ScanNameMeant
    <2>5. found \in SUBSET ScReports
      BY <2>1, FoundThere DEF ScReports
    <2>6. /\ \A x \in found : x \in TargetFound \/ x = "log_readiness" \/ x \in Meant(Command)
          /\ \A x \in TargetFound \ LogScans : x \in found
          /\ TargetFound \cap LogScans # {} => found \cap LogScans # {}
          /\ ScanName \in OwnReports => ScanName \in found
      BY <2>1, <2>4
    <2>7. /\ JobOk(Adding(found, NextScan), scStored)
          /\ Adding(found, NextScan).schedule = scJob.schedule
      BY <2>3, <2>5, <2>6, ScansOn
    <2> QED
      BY <2>2, <2>7
  <1> QED
    BY <1>1, <1>2

LEMMA LogOn ==
  ASSUME Somewhere, JobOk(scJob, scStored), ScanLog, ~SettingsUnread
  PROVE  JobOk(scJob', scStored) /\ scJob'.schedule = scJob.schedule
  <1>1. scJob.scan # 0 /\ ScanName \in LogScans \cup {"logs"}
    BY DEF ScanLog, Scans
  <1>2. CASE NoLineParsed
    <2>1. PICK n : n = NextScan
      OBVIOUS
    <2>2. MovedOn(n)
      BY <1>1, <2>1, NextScanFacts
    <2>3. PICK f : f = Failing(n)
      OBVIOUS
    <2>4. /\ f \in Jobs0 /\ Placed(f) /\ f.failed /\ f.schedule = scJob.schedule
          /\ f.log = scJob.log /\ f.unsent = scJob.unsent /\ f.reports = scJob.reports
      BY <2>2, <2>3, FailingFacts DEF MovedOn
    <2>5. PICK found : found = Readied(TargetFound)
      OBVIOUS
    <2>6. found \in SUBSET ScReports /\ \A x \in found : x \in TargetFound \/ x = "log_readiness"
      BY <1>1, <2>5, FoundThere DEF Readied, ScReports
    <2>7. PICK a : a = Adding(found, f)
      OBVIOUS
    <2>8. Command.targets # <<>>
      BY <1>1, Where
    <2>9. /\ a \in Jobs0 /\ Placed(a) /\ a.schedule = f.schedule /\ a.log = f.log /\ a.unsent = f.unsent
          /\ a.failed = f.failed
          /\ \A t \in ScTargets : a.reports[t] = IF t = Target THEN found ELSE f.reports[t]
      BY <2>4, <2>6, <2>7, <2>8, AddingFacts, ZenonT(60)
    <2>10. \A t \in ScTargets : \A x \in a.reports[t] :
             x \in scJob.reports[t] \/ x = "log_readiness"
      BY <2>4, <2>6, <2>9 DEF TargetFound
    <2>11. JobOk(a, scStored)
      BY <2>4, <2>9, <2>10, GoesOn
    <2>12. scJob' = a
      BY <1>2, <2>1, <2>3, <2>5, <2>7 DEF ScanLog
    <2> QED
      BY <2>4, <2>9, <2>11, <2>12
  <1>3. CASE ~NoLineParsed
    <2>1. PICK found : found = Readied(Summarised(TargetFound))
      OBVIOUS
    <2>2. scJob' = Adding(found, NextScan)
      BY <1>3, <2>1 DEF ScanLog
    <2>3. /\ ScanName \notin OwnReports /\ ScanName # "pii_scanner"
          /\ "logs" \notin LogScans /\ "log_readiness" \notin LogScans
      BY <1>1, OwnSet DEF LogScans
    <2>4. LogReports \subseteq LogScans /\ LogReports # {} /\ LogReports \subseteq Meant(Command)
      <3>1. CASE ScanName = "logs"
        BY <1>1, <3>1, ScanNameMeant DEF LogReports, LogScans
      <3>2. CASE ScanName # "logs"
        BY <1>1, <3>2, ScanNameMeant DEF LogReports
      <3> QED
        BY <3>1, <3>2
    <2>5. found = (TargetFound \ LogScans) \cup LogReports \cup {"log_readiness"}
      BY <2>1 DEF Readied, Summarised
    <2>6. found \in SUBSET ScReports
      BY <1>1, <2>4, <2>5, FoundThere DEF ScReports
    <2>7. /\ \A x \in found : x \in TargetFound \/ x = "log_readiness" \/ x \in Meant(Command)
          /\ \A x \in TargetFound \ LogScans : x \in found
          /\ found \cap LogScans # {}
      BY <2>4, <2>5
    <2>8. /\ JobOk(Adding(found, NextScan), scStored)
          /\ Adding(found, NextScan).schedule = scJob.schedule
      BY <1>1, <2>3, <2>6, <2>7, ScansOn
    <2> QED
      BY <2>2, <2>8
  <1> QED
    BY <1>2, <1>3

LEMMA PiiOn ==
  ASSUME Somewhere, JobOk(scJob, scStored), ScanPii
  PROVE  /\ JobOk(scJob', scStored')
         /\ scStored' = scStored
            \/ /\ scStored' = scStored \cup {<<scJob.schedule, PiiDb(Target), "pii_scanner">>}
               /\ <<PiiDb(Target), "pii_scanner">> \in Asked(scJob.schedule)
         /\ scJob'.schedule = scJob.schedule
  <1>1. scJob.scan # 0 /\ ScanName = "pii_scanner"
    BY DEF ScanPii, Scans
  <1>2. PICK n : n = NextScan
    OBVIOUS
  <1>3. /\ MovedOn(n)
        /\ \A c \in 1 .. Len(Commands) : \A i \in 1 .. Len(Commands[c].targets) :
              \A k \in 1 .. Len(ScanNames(Commands[c])) :
                Past(n, c, i, k) =>
                  \/ Past(scJob, c, i, k)
                  \/ c = scJob.command /\ i = scJob.target /\ k = scJob.scan
    BY <1>1, <1>2, NextScanFacts
  <1>4. CASE PiiDb(Target) \in scWorld.down
    <2>1. scJob' = Failing(n) /\ scStored' = scStored
      BY <1>2, <1>4 DEF ScanPii
    <2>2. n \in Jobs0 /\ Placed(n) /\ n.schedule = scJob.schedule
      BY <1>3 DEF MovedOn
    <2>3. Failing(n).schedule = n.schedule
      BY <2>2, FailingFacts
    <2> QED
      BY <1>3, <2>1, <2>2, <2>3, FailsOn
  <1>5. CASE scJob' = n /\ scStored' = scStored \cup {<<scJob.schedule, PiiDb(Target), "pii_scanner">>}
    <2>1. PICK stored : stored = scStored \cup {<<scJob.schedule, PiiDb(Target), "pii_scanner">>}
      OBVIOUS
    <2>2. scJob' = n /\ scStored' = stored
      BY <1>5, <2>1
    <2>3. "pii_scanner" \notin LogScans \cup OwnReports \cup {"logs"}
      BY OwnSet
    <2>4. /\ n \in Jobs0 /\ Placed(n) /\ n.schedule = scJob.schedule /\ n.log = scJob.log /\ n.unsent = scJob.unsent
          /\ n.failed = scJob.failed /\ n.reports = scJob.reports
      BY <1>3 DEF MovedOn
    <2>5. WasSeen(n, stored, Target, ScanName)
      BY <1>1, <2>1, <2>3, <2>4 DEF WasSeen
    <2>6. scStored \subseteq stored
      BY <2>1
    <2>7. JobOk(n, stored)
      <3>1. CASE scJob.failed
        BY <2>4, <2>6, <3>1, GoesOn
      <3>2. CASE ~scJob.failed
        <4>1. \A c \in 1 .. Len(Commands) : \A i \in 1 .. Len(Commands[c].targets) :
                \A k \in 1 .. Len(ScanNames(Commands[c])) :
                  Past(n, c, i, k) =>
                    \/ Past(scJob, c, i, k)
                    \/ c = scJob.command /\ i = scJob.target /\ k = scJob.scan /\ scJob.scan # 0
          BY <1>1, <1>3
        <4> QED
          BY <2>4, <2>5, <2>6, <3>2, <4>1, GoesOn
      <3> QED
        BY <3>1, <3>2
    <2>8. <<PiiDb(Target), "pii_scanner">> \in Asked(scJob.schedule)
      <3>1. /\ Command \in CommandsOf(scMap, scJob.schedule) /\ Target \in ToSet(Command.targets)
            /\ "pii_scanner" \in Meant(Command)
        BY <1>1, Where, ScanNameMeant
      <3>2. <<Target, "pii_scanner">> \in Requested(scJob.schedule)
        BY <3>1 DEF Somewhere, MapServes
      <3>3. PICK a : a = <<Target, "pii_scanner">>
        OBVIOUS
      <3> QED
        BY <3>2, <3>3 DEF Asked
    <2> QED
      BY <2>1, <2>2, <2>4, <2>7, <2>8
  <1>6. CASE scJob' = [n EXCEPT !.unsent = @ \cup {PiiDb(Target)}] /\ scStored' = scStored
    <2>1. PICK unsent : unsent = n.unsent \cup {PiiDb(Target)}
      OBVIOUS
    <2>2. PICK u : u = scJob'
      OBVIOUS
    <2>3. /\ n \in Jobs0 /\ Placed(n) /\ n.schedule = scJob.schedule /\ n.log = scJob.log
          /\ n.unsent = scJob.unsent /\ n.failed = scJob.failed /\ n.reports = scJob.reports
      BY <1>3 DEF MovedOn
    <2>4. u = [schedule |-> n.schedule, command |-> n.command, target |-> n.target,
               scan |-> n.scan, reports |-> n.reports, failed |-> n.failed,
               unsent |-> unsent, log |-> n.log]
      BY <1>6, <2>1, <2>2, <2>3 DEF Jobs0
    <2>5. Target \in ScTargets
      BY <1>1, Where
    <2>6. unsent \in SUBSET ScDbs /\ PiiDb(Target) \in unsent /\ scJob.unsent \subseteq unsent
      BY <2>1, <2>3, <2>5 DEF Jobs0, ScDbs
    <2>7. u \in Jobs0
      BY <2>3, <2>4, <2>6 DEF Jobs0
    <2>8. Placed(u)
      BY <2>3, <2>4 DEF Placed
    <2>9. /\ u.schedule = scJob.schedule /\ u.log = scJob.log /\ u.unsent = unsent
          /\ u.failed = scJob.failed /\ u.reports = scJob.reports
          /\ u.command = n.command /\ u.target = n.target /\ u.scan = n.scan
      BY <2>3, <2>4
    <2>10. WasSeen(u, scStored, Target, ScanName)
      BY <1>1, <2>6, <2>9, OwnSet DEF WasSeen
    <2>11. \A c, i, k : Past(u, c, i, k) <=> Past(n, c, i, k)
      BY <2>9 DEF Past
    <2>12. JobOk(u, scStored)
      <3>1. CASE scJob.failed
        BY <2>6, <2>7, <2>8, <2>9, <3>1, GoesOn
      <3>2. CASE ~scJob.failed
        <4>1. \A c \in 1 .. Len(Commands) : \A i \in 1 .. Len(Commands[c].targets) :
                \A k \in 1 .. Len(ScanNames(Commands[c])) :
                  Past(u, c, i, k) =>
                    \/ Past(scJob, c, i, k)
                    \/ c = scJob.command /\ i = scJob.target /\ k = scJob.scan /\ scJob.scan # 0
          BY <1>1, <1>3, <2>11
        <4> QED
          BY <2>6, <2>7, <2>8, <2>9, <2>10, <3>2, <4>1, GoesOn
      <3> QED
        BY <3>1, <3>2
    <2> QED
      BY <1>6, <2>2, <2>9, <2>12
  <1> QED
    BY <1>2, <1>4, <1>5, <1>6 DEF ScanPii

\* The gaps of a schedule repeat, one or two to a cycle: the next is the last.
LEMMA GapFacts ==
  ASSUME NEW s \in DOMAIN ScGaps, NEW k \in Nat \ {0}
  PROVE  /\ Gap(s, k) \in Nat
         /\ Len(ScGaps[s]) < 3 => Gap(s, k + 2) = Gap(s, k)
         /\ Len(ScGaps[s]) \in Nat
  <1>1. PICK g, n : g = ScGaps[s] /\ n = Len(g)
    OBVIOUS
  <1>2. g \in Seq(Nat \ {0}) /\ n \in Nat \ {0}
    BY <1>1, ScGapsAssumption
  <1>3. Gap(s, k + 2) = g[((k + 2 - 1) % n) + 1] /\ Gap(s, k) = g[((k - 1) % n) + 1]
    BY <1>1 DEF Gap
  <1>4. ((k - 1) % n) + 1 \in 1 .. n
    <2>1. (k - 1) % n \in 0 .. n - 1
      BY <1>2
    <2>2. \A m \in 0 .. n - 1 : m + 1 \in 1 .. n
      BY <1>2
    <2> QED
      BY <2>1, <2>2
  <1>5. Gap(s, k) \in Nat
    <2>1. PICK m : m = ((k - 1) % n) + 1
      OBVIOUS
    <2>2. m \in 1 .. n
      BY <1>4, <2>1
    <2>3. g[m] \in Nat
      BY <1>1, <1>2, <2>2
    <2> QED
      BY <1>3, <2>1, <2>3
  <1>6. CASE n = 1
    <2>1. (k + 2 - 1) % 1 = 0 /\ (k - 1) % 1 = 0
      OBVIOUS
    <2>2. Gap(s, k + 2) = g[0 + 1] /\ Gap(s, k) = g[0 + 1]
      BY <1>3, <1>6, <2>1
    <2> QED
      BY <1>1, <1>2, <1>5, <2>2
  <1>7. CASE n = 2
    <2>1. PICK m : m = (k - 1) % 2
      OBVIOUS
    <2>2. (k + 2 - 1) % 2 = m
      BY <2>1
    <2>3. Gap(s, k + 2) = g[m + 1] /\ Gap(s, k) = g[m + 1]
      BY <1>3, <1>7, <2>1, <2>2
    <2> QED
      BY <1>1, <1>2, <1>5, <2>3
  <1>8. CASE n >= 3
    BY <1>1, <1>2, <1>5, <1>8
  <1> QED
    BY <1>2, <1>6, <1>7, <1>8

LEMMA JoinsLog ==
  ASSUME NEW s \in DOMAIN ScGaps, NEW k \in Nat \ {0}, NEW late \in Nat, NEW before \in Nat,
         ~ReachesBack(s, k, late, before)
  PROVE  Len(ScGaps[s]) >= 3 \/ late > before
  <1> SUFFICES ASSUME Len(ScGaps[s]) < 3, late <= before PROVE FALSE
    BY GapFacts
  <1>1. PICK g : g = Gap(s, k)
    OBVIOUS
  <1>2. g \in Nat /\ Gap(s, k + 2) = g
    BY <1>1, GapFacts
  <1>3. ReachesBack(s, k, late, before) <=> g + late <= g + before
    BY <1>1, <1>2 DEF ReachesBack
  <1> QED
    BY <1>2, <1>3

\* The log is read, from a time on, to join what was read or with an exception.
LEMMA ReadingFacts ==
  ASSUME Somewhere, JobOk(scJob, scStored), NEW late \in Nat, NEW before \in Nat
  PROVE  /\ Reading(late, before) \in ScLogs
         /\ LogJoined(scJob.schedule, Reading(late, before).missed)
  <1>1. PICK log, s : log = scJob.log /\ s = scJob.schedule
    OBVIOUS
  <1>2. log \in ScLogs /\ s \in DOMAIN ScGaps
    BY <1>1 DEF Somewhere, Jobs0, MapServes
  <1>3. PICK k : k = log.firing
    OBVIOUS
  <1>4. k \in Nat \ {0}
    BY <1>2, <1>3 DEF ScLogs
  <1>5. PICK missed : missed = IF ReachesBack(s, k, late, before) THEN log.missed
                               ELSE log.missed \cup {<<late, before>>}
    OBVIOUS
  <1>6. missed \in SUBSET (Nat \X Nat)
    BY <1>2, <1>5 DEF ScLogs
  <1>7. LogJoined(s, log.missed)
    BY <1>1 DEF JobOk, Reporting
  <1>8. LogJoined(s, missed)
    <2>1. CASE ReachesBack(s, k, late, before)
      BY <1>5, <1>7, <2>1
    <2>2. CASE ~ReachesBack(s, k, late, before)
      <3>1. Len(ScGaps[s]) >= 3 \/ late > before
        BY <1>2, <1>4, <2>2, JoinsLog
      <3>2. PICK w0 : w0 = <<late, before>>
        OBVIOUS
      <3>3. w0[1] = late /\ w0[2] = before
        BY <3>2
      <3>4. missed = log.missed \cup {w0}
        BY <1>5, <2>2, <3>2
      <3> QED
        BY <1>7, <3>1, <3>3, <3>4 DEF LogJoined
    <2> QED
      BY <2>1, <2>2
  <1>9. PICK new : new = Reading(late, before)
    OBVIOUS
  <1>10. new = [firing |-> log.firing, late |-> late, before |-> before, missed |-> missed]
    BY <1>1, <1>2, <1>3, <1>5, <1>9 DEF Reading, ScLogs
  <1>11. new \in ScLogs
    BY <1>2, <1>6, <1>10 DEF ScLogs
  <1>12. new.missed = missed
    BY <1>10
  <1> QED
    BY <1>1, <1>8, <1>9, <1>11, <1>12

LEMMA ProcessorsOn ==
  ASSUME Somewhere, JobOk(scJob, scStored), Processors
  PROVE  JobOk(scJob', scStored) /\ scJob'.schedule = scJob.schedule
  <1>1. scJob.scan = 0 /\ Command.targets # <<>>
    BY DEF Processors, AtProcessors
  <1>2. CASE ProcessorsFail /\ scJob' = Failing(NextTarget)
    <2>1. PICK n : n = NextTarget
      OBVIOUS
    <2>2. MovedOn(n) /\ scJob' = Failing(n)
      BY <1>1, <1>2, <2>1, NextTargetFacts
    <2> QED
      BY <2>2, FailsOn
  <1>3. CASE ScanNames(Command) = <<>> /\ scJob' = NextTarget
    <2>1. PICK n : n = NextTarget
      OBVIOUS
    <2>2. /\ n \in Jobs0 /\ Placed(n) /\ n.schedule = scJob.schedule /\ n.log = scJob.log
          /\ n.unsent = scJob.unsent /\ n.failed = scJob.failed /\ n.reports = scJob.reports
      BY <1>1, <2>1, NextTargetFacts DEF MovedOn
    <2>3. Len(ScanNames(Command)) = 0
      BY <1>3, Where, ScanNamesFacts
    <2>4. ASSUME NEW c \in 1 .. Len(Commands), NEW i \in 1 .. Len(Commands[c].targets),
                 NEW k \in 1 .. Len(ScanNames(Commands[c])), Past(n, c, i, k)
          PROVE  Past(scJob, c, i, k)
      <3>1. Past(scJob, c, i, k) \/ (c = scJob.command /\ i = scJob.target /\ k = scJob.scan)
        BY <1>1, <2>1, <2>3, <2>4, PastTarget
      <3>2. k # 0
        BY ScanNumbers
      <3> QED
        BY <1>1, <3>1, <3>2
    <2>5. JobOk(n, scStored)
      <3>1. CASE scJob.failed
        BY <2>2, <3>1, GoesOn
      <3>2. CASE ~scJob.failed
        BY <1>1, <2>2, <2>4, <3>2, GoesOn
      <3> QED
        BY <3>1, <3>2
    <2> QED
      BY <1>3, <2>1, <2>2, <2>5
  <1>4. ASSUME ~ProcessorsFail, ScanNames(Command) # <<>>, NEW log \in ScLogs,
               log = scJob.log \/ LogJoined(scJob.schedule, log.missed),
               NEW n, n = [schedule |-> scJob.schedule, command |-> scJob.command,
                           target |-> scJob.target, scan |-> 1, reports |-> scJob.reports,
                           failed |-> scJob.failed, unsent |-> scJob.unsent, log |-> log]
        PROVE  JobOk(n, scStored) /\ n.schedule = scJob.schedule
    <2>1. n \in Jobs0
      BY <1>4 DEF Somewhere, Jobs0
    <2>2. Placed(n)
      <3>1. /\ scJob.target <= Len(Command.targets) /\ Len(ScanNames(Command)) \in Nat
            /\ Command.mysql \in Nat
        BY <1>1, Where
      <3>2. ValidCommand(Command.name)
        BY <1>4 DEF ProcessorsFail
      <3>3. Len(ScanNames(Command)) # 0
        BY <1>4, <3>1, ScanNamesFacts
      <3> QED
        BY <1>1, <1>4, <3>1, <3>2, <3>3 DEF Placed, Command, Commands
    <2>3. \A c, i : \A k \in Nat \ {0} : Past(n, c, i, k) => Past(scJob, c, i, k)
      BY <1>1, <1>4 DEF Past
    <2>4. /\ n.schedule = scJob.schedule /\ n.reports = scJob.reports /\ n.log = log
          /\ n.failed = scJob.failed /\ n.unsent = scJob.unsent
      BY <1>4
    <2>5. JobOk(n, scStored)
      <3>1. CASE scJob.failed
        BY <1>4, <2>1, <2>2, <2>4, <3>1, GoesOn
      <3>2. CASE ~scJob.failed
        <4>1. \A c \in 1 .. Len(Commands) : \A i \in 1 .. Len(Commands[c].targets) :
                \A k \in 1 .. Len(ScanNames(Commands[c])) :
                  Past(n, c, i, k) => Past(scJob, c, i, k)
          BY <2>3, ScanNumbers
        <4> QED
          BY <1>1, <1>4, <2>1, <2>2, <2>4, <3>2, <4>1, GoesOn
      <3> QED
        BY <3>1, <3>2
    <2> QED
      BY <2>4, <2>5
  <1>5. CASE ~ProcessorsFail /\ ScanNames(Command) # <<>> /\ scJob' = [scJob EXCEPT !.scan = 1]
    <2>1. PICK log : log = scJob.log /\ log \in ScLogs
      BY DEF Somewhere, Jobs0
    <2>2. scJob' = [schedule |-> scJob.schedule, command |-> scJob.command,
                    target |-> scJob.target, scan |-> 1, reports |-> scJob.reports,
                    failed |-> scJob.failed, unsent |-> scJob.unsent, log |-> log]
      BY <1>5, <2>1 DEF Somewhere, Jobs0
    <2> QED
      BY <1>4, <1>5, <2>1, <2>2
  <1>6. ASSUME ~ProcessorsFail, NeedsLog(Command.name), NEW late \in Nat, NEW before \in Nat,
               scJob' = [scJob EXCEPT !.scan = 1, !.log = Reading(late, before)]
        PROVE  JobOk(scJob', scStored) /\ scJob'.schedule = scJob.schedule
    <2>1. PICK log : log = Reading(late, before)
      OBVIOUS
    <2>2. log \in ScLogs /\ LogJoined(scJob.schedule, log.missed)
      BY <1>6, <2>1, ReadingFacts
    <2>3. scJob' = [schedule |-> scJob.schedule, command |-> scJob.command,
                    target |-> scJob.target, scan |-> 1, reports |-> scJob.reports,
                    failed |-> scJob.failed, unsent |-> scJob.unsent, log |-> log]
      BY <1>6, <2>1 DEF Somewhere, Jobs0
    <2>4. ScanNames(Command) # <<>>
      <3>1. Command.name # "mysql"
        BY <1>6 DEF NeedsLog, LogScans
      <3> QED
        BY <3>1, Where, ScanNamesFacts
    <2> QED
      BY <1>4, <1>6, <2>2, <2>3, <2>4
  <1>7. \A late \in scJob.log.late .. ScLate, before \in scJob.log.before .. ScLate :
           late \in Nat /\ before \in Nat
    <2>1. scJob.log.late \in Nat /\ scJob.log.before \in Nat
      BY DEF Somewhere, Jobs0, ScLogs
    <2> QED
      BY <2>1, ScLateAssumption
  <1> QED
    BY <1>2, <1>3, <1>5, <1>6, <1>7 DEF Processors

\* What a process may end for.
EndsProcess == ScansRds \/ (scWorld.down # {} /\ ~scConfig.ping)

\* A job in its loops stays one that is well: no scan of it is skipped unseen.
LEMMA WorkOn ==
  ASSUME Somewhere, JobOk(scJob, scStored), scState = "serves", ScWork, ~JobEnds
  PROVE  /\ JobOk(scJob', scStored') /\ scJob'.schedule = scJob.schedule
         /\ scStored' = scStored
            \/ /\ scStored' = scStored \cup {<<scJob.schedule, PiiDb(Target), "pii_scanner">>}
               /\ <<PiiDb(Target), "pii_scanner">> \in Asked(scJob.schedule)
         /\ scState' = scState \/ (scState' = "exited" /\ scJob' = scJob /\ EndsProcess)
         /\ UNCHANGED <<scConfig, scMap, scRuns, scWorld>>
  <1> USE DEF MovedOn
  <1>0. ASSUME ProcessEnds, QueriesFail \/ ScansRds
        PROVE  /\ scJob' = scJob /\ scStored' = scStored /\ UNCHANGED <<scConfig, scMap, scRuns, scWorld>>
               /\ scState' = "exited" /\ EndsProcess
    BY <1>0 DEF ProcessEnds, QueriesFail, TargetDown, EndsProcess
  <1>1. CASE ScanPii
    BY <1>1, PiiOn DEF ScanPii
  <1>2. CASE (ScanHba \/ ScanLog) /\ QueriesFail
    BY <1>0, <1>2 DEF ScanHba, ScanLog, SettingsUnread
  <1>4. CASE RunRds /\ ProcessEnds
    BY <1>0, <1>4 DEF RunRds
  <1>3. ASSUME ~ScanPii, ~((ScanHba \/ ScanLog) /\ QueriesFail), ~(RunRds /\ ProcessEnds)
        PROVE  /\ JobOk(scJob', scStored) /\ scJob'.schedule = scJob.schedule
                 /\ scStored' = scStored /\ scState' = scState
               /\ UNCHANGED <<scConfig, scMap, scRuns, scWorld>>
    <2>1. CASE ScanLog
      BY <1>3, <2>1, LogOn DEF ScanLog, SettingsUnread
    <2>2. CASE Processors
      BY <2>2, ProcessorsOn DEF Processors
    <2>3. CASE NoTargets
      BY <2>3, NextCommandFacts, FailsOn DEF NoTargets
    <2>4. ASSUME NEW scan, NEW fails, NEW scans, Scans(scan), Runner(fails, scans),
                 scan \in OwnReports \cup {"guc_drift"}, scans = {scan} \cap OwnReports
          PROVE  /\ JobOk(scJob', scStored) /\ scJob'.schedule = scJob.schedule
                 /\ scStored' = scStored /\ scState' = scState
                 /\ UNCHANGED <<scConfig, scMap, scRuns, scWorld>>
      BY <2>4, RunnerOn DEF Scans, Runner
    <2>5. PICK guc, cis, ssl, users, hba :
             /\ guc = "guc_drift" /\ cis = "postgres_cis" /\ ssl = "ssl_check"
             /\ users = "common_users" /\ hba = "hba_scanner"
      OBVIOUS
    <2>6. /\ {cis, ssl, users, hba} \subseteq OwnReports /\ guc \notin OwnReports
      BY <2>5, OwnSet
    <2>12. {guc} \cap OwnReports = {}
      BY <2>6
    <2>7. CASE RunPostgresCis
      <3>1. PICK fails : fails = (OpenFails \/ QueriesFail)
        OBVIOUS
      <3>2. Scans(cis) /\ Runner(fails, {cis})
        BY <2>5, <2>7, <3>1 DEF RunPostgresCis
      <3> QED
        BY <2>4, <2>6, <3>2
    <2>8. CASE AuditSsl
      <3>1. PICK fails : fails = (OpenFails \/ QueriesFail)
        OBVIOUS
      <3>2. Scans(ssl) /\ Runner(fails, {ssl})
        BY <2>5, <2>8, <3>1 DEF AuditSsl
      <3> QED
        BY <2>4, <2>6, <3>2
    <2>9. CASE CommonUsers
      <3>1. PICK fails : fails = OpenFails
        OBVIOUS
      <3>2. Scans(users) /\ Runner(fails, {users})
        BY <2>5, <2>9, <3>1 DEF CommonUsers
      <3> QED
        BY <2>4, <2>6, <3>2
    <2>10. CASE FetchGucs
      <3>1. PICK fails : fails = TargetDown
        OBVIOUS
      <3>2. Scans(guc) /\ Runner(fails, {})
        BY <2>5, <2>10, <3>1 DEF FetchGucs
      <3> QED
        BY <2>4, <2>5, <2>12, <3>2
    <2>11. CASE ScanHba
      <3>1. PICK fails : fails = OpenFails
        OBVIOUS
      <3>2. Scans(hba) /\ Runner(fails, {hba})
        BY <1>3, <2>5, <2>11, <3>1 DEF ScanHba
      <3> QED
        BY <2>4, <2>6, <3>2
    <2>13. CASE RunMySql
      <3>1. PICK mysql, answers : mysql = "mysql" /\ Scans(mysql) /\ Runner(~answers, {mysql})
        BY <2>13 DEF RunMySql
      <3>2. PICK fails : fails = ~answers
        OBVIOUS
      <3>3. mysql \in OwnReports
        BY <3>1, OwnSet
      <3> QED
        BY <2>4, <3>1, <3>2, <3>3
    <2>14. CASE RunRds
      <3>1. PICK scan \in RdsCommands : Scans(scan)
        BY <2>14 DEF RunRds, ScansRds
      <3>2. Runner(FALSE, {ScanName}) /\ ScanName = scan
        BY <1>3, <2>14, <3>1 DEF RunRds, Scans
      <3>3. Runner(FALSE, {scan}) /\ scan \in OwnReports
        BY <3>2 DEF OwnReports
      <3> QED
        BY <2>4, <3>1, <3>3
    <2> QED
      BY <1>3, <2>1, <2>2, <2>3, <2>7, <2>8, <2>9, <2>10, <2>11, <2>13, <2>14 DEF ScWork
  <1> QED
    BY <1>1, <1>2, <1>3, <1>4

-----------------------------------------------------------------------------
(* The invariant of the daemon's steps.                                      *)

\* The configuration stays what it is, and what is asked of it.
LEMMA ConfigKept ==
  ASSUME scConfig' = scConfig
  PROVE  /\ \A s : Requested(s)' = Requested(s) /\ Asked(s)' = Asked(s)
         /\ \A t : PiiDb(t)' = PiiDb(t)
         /\ ScTargets' = ScTargets /\ ScCommands' = ScCommands /\ ScDbs' = ScDbs
  <1>1. ScTargets' = ScTargets
    BY DEF ScTargets
  <1>2. ScNames' = ScNames /\ ScParsers' = ScParsers
    BY DEF ScNames, ScParsers
  <1>3. ScCommands' = ScCommands
    BY <1>1, <1>2 DEF ScCommands
  <1>4. Wanted' = Wanted /\ (Ready' <=> Ready)
    BY DEF Wanted, Ready
  <1>5. AskedTokens' = AskedTokens
    BY <1>4 DEF AskedTokens
  <1>6. \A x : When(x)' = When(x)
    BY DEF When
  <1>7. ASSUME NEW s PROVE Requested(s)' = Requested(s)
    BY <1>4, <1>5, <1>6 DEF Requested
  <1>8. \A t : PiiDb(t)' = PiiDb(t)
    BY DEF PiiDb
  <1>9. ASSUME NEW s PROVE Asked(s)' = Asked(s)
    BY <1>7, <1>8 DEF Asked
  <1>10. ScDbs' = ScDbs
    BY <1>1, <1>8 DEF ScDbs
  <1> QED
    BY <1>1, <1>3, <1>7, <1>8, <1>9, <1>10

LEMMA ServesKept ==
  ASSUME scConfig' = scConfig, MapServes(scMap')
  PROVE  MapServes(scMap)'
  BY ConfigKept DEF MapServes, IsMap, CommandsOf

LEMMA JobKept ==
  ASSUME scConfig' = scConfig, scMap' = scMap, scRuns' = scRuns, JobOk(scJob', scStored')
  PROVE  JobOk(scJob, scStored)'
  <1>1. scJob' \in Jobs0'
    BY ConfigKept DEF JobOk, Jobs0
  <1>2. Placed(scJob)'
    BY DEF JobOk, Placed
  <1>3. Finished(scJob, scStored)'
    <2>1. ASSUME NEW t, NEW x PROVE WasSeen(scJob, scStored, t, x)' <=> WasSeen(scJob', scStored', t, x)
      BY ConfigKept DEF WasSeen
    <2> QED
      BY <2>1, SMTT(40) DEF JobOk, Finished, Past
  <1>4. Reporting(scJob)'
    BY ConfigKept DEF JobOk, Reporting
  <1> QED
    BY <1>1, <1>2, <1>3, <1>4 DEF JobOk

\* What ended the process is still to be seen.
LEMMA EndKept ==
  ASSUME EndsProcess, UNCHANGED <<scConfig, scWorld, scMap, scJob>>
  PROVE  EndsProcess'
  <1>1. ScansRds' <=> ScansRds
    BY DEF ScansRds, Scans, Running, AtEnd, ScanName, Command, Commands
  <1> QED
    BY <1>1 DEF EndsProcess

\* A run that counts as a success sent what its schedule was asked for.
Delivered(s) ==
    /\ scRuns[s].success /\ ~scRuns[s].panicked =>
         \A a \in Asked(s) : \/ <<s, a[1], a[2]>> \in scStored
                             \/ Replaced(s, a[1], a[2])
                             \/ Lonely(s, a[1], a[2])
                             \/ Reread(s, a[1], a[2])
                             \/ Untaken(s, a[1], a[2])
    /\ LogJoined(s, scRuns[s].missed)
\* What was sent comes from a run that ended, but for PII reports, which the job
\* sends as it goes.
Sent(d) == d[1] \in DOMAIN scRuns \/ (Running /\ d[1] = scJob.schedule /\ d[3] = "pii_scanner")
Owed(d) == <<d[2], d[3]>> \in Asked(d[1]) \/ d[3] \in {"guc_drift", "log_readiness"}
ScInv ==
    /\ scConfig \in ScConfigs
    /\ scState \in {"starts", "refused"} => ~Running
    /\ scState \in {"serves", "exited"} => MapServes(scMap)
    /\ Running => JobOk(scJob, scStored)
    /\ \A s \in DOMAIN scRuns : Delivered(s)
    /\ \A d \in scStored : Sent(d) /\ Owed(d)
    /\ scState \in {"starts", "refused", "serves", "exited"}
    /\ scState = "exited" => EndsProcess

LEMMA ScInvDelivers ==
  ASSUME ScInv
  PROVE  ScansDelivered
  <1>1. ASSUME scState = "serves", NEW s \in DOMAIN ScGaps, Asked(s) # {}
        PROVE  s \in DOMAIN scMap
    <2>1. PICK a : a \in Asked(s)
      BY <1>1
    <2>2. PICK r : r \in Requested(s)
      BY <2>1 DEF Asked
    <2>3. r = <<r[1], r[2]>>
      BY <2>2 DEF Requested
    <2>4. PICK t, x : r = <<t, x>>
      BY <2>3
    <2>5. CommandsOf(scMap, s) # {}
      BY <1>1, <2>2, <2>4 DEF ScInv, MapServes
    <2> QED
      BY <2>5 DEF CommandsOf
  <1> QED
    BY <1>1 DEF ScInv, Delivered, LogJoined, Owed, EndsProcess, ScansDelivered

LEMMA ScInvInit == ScInit => ScInv
  <1> SUFFICES ASSUME ScInit PROVE ScInv
    OBVIOUS
  <1>1. scConfig \in ScConfigs /\ ScStart(scConfig)
    BY DEF ScInit, ScStart
  <1>2. ~Running
    BY <1>1 DEF ScStart, Running, ScIdle
  <1>3. DOMAIN scRuns = {} /\ scStored = {}
    BY <1>1 DEF ScStart
  <1> QED
    BY <1>1, <1>2, <1>3 DEF ScInv, ScStart

\* What a run sent before stays what it was when another sends.
LEMMA DeliveredKept ==
  ASSUME scConfig' = scConfig, NEW s, Delivered(s), scRuns'[s] = scRuns[s],
         \A t, x : <<s, t, x>> \in scStored' <=> <<s, t, x>> \in scStored
  PROVE  Delivered(s)'
  <1>1. ASSUME NEW t, NEW x
        PROVE  /\ Replaced(s, t, x)' <=> Replaced(s, t, x)
               /\ Lonely(s, t, x)' <=> Lonely(s, t, x)
               /\ Reread(s, t, x)' <=> Reread(s, t, x)
               /\ Untaken(s, t, x)' <=> Untaken(s, t, x)
    BY DEF Replaced, Lonely, Reread, Untaken
  <1> QED
    BY <1>1, ConfigKept DEF Delivered, LogJoined

\* What stays when neither the runs nor what was sent change.
LEMMA RunsKept ==
  ASSUME ScInv, scConfig' = scConfig, scRuns' = scRuns, scStored' = scStored,
         Running => Running' /\ scJob'.schedule = scJob.schedule
  PROVE  /\ \A s \in DOMAIN scRuns' : Delivered(s)'
         /\ \A d \in scStored' : Sent(d)' /\ Owed(d)'
  <1>1. \A s \in DOMAIN scRuns' : Delivered(s)'
    BY DeliveredKept DEF ScInv
  <1>2. ASSUME NEW d \in scStored' PROVE Sent(d)' /\ Owed(d)'
    BY ConfigKept DEF ScInv, Sent, Owed
  <1> QED
    BY <1>1, <1>2

LEMMA SetsUp ==
  ASSUME ScInv, SetupCron
  PROVE  ScInv'
  <1>1. UNCHANGED <<scConfig, scWorld, scJob, scStored, scRuns>> /\ ~Running /\ ~Running'
    BY DEF SetupCron, ScInv, Running
  <1>2. /\ \A s \in DOMAIN scRuns' : Delivered(s)'
        /\ \A d \in scStored' : Sent(d)' /\ Owed(d)'
    BY <1>1, RunsKept
  <1>3. CASE SetupRefused /\ scState' = "refused"
    BY <1>1, <1>2, <1>3 DEF ScInv
  <1>4. CASE SetupServes /\ scState' = "serves" /\ scMap' = BuildCollectorScheduleMap
    <2>1. MapServes(scMap')
      BY <1>4, MapMeansRequests DEF ScInv
    <2>2. MapServes(scMap)'
      BY <1>1, <2>1, ServesKept
    <2> QED
      BY <1>1, <1>2, <1>4, <2>2 DEF ScInv
  <1> QED
    BY <1>3, <1>4 DEF SetupCron

LEMMA FiresWell ==
  ASSUME ScInv, Fire
  PROVE  ScInv'
  <1>1. UNCHANGED <<scConfig, scWorld, scState, scMap, scStored, scRuns>> /\ ~Running
        /\ scState = "serves"
    BY DEF Fire
  <1>2. MapServes(scMap)
    BY <1>1 DEF ScInv
  <1>18. PICK s \in DOMAIN scMap \ DOMAIN scRuns : \E k \in DOMAIN ScGaps[s] :
           scJob' = [ScIdle EXCEPT !.schedule = s, !.command = 1, !.target = 1,
                                   !.reports = [t \in ScTargets |-> {}], !.log.firing = k]
    BY DEF Fire
  <1>3. PICK k \in DOMAIN ScGaps[s] :
           scJob' = [ScIdle EXCEPT !.schedule = s, !.command = 1, !.target = 1,
                                   !.reports = [t \in ScTargets |-> {}], !.log.firing = k]
    BY <1>18
  <1>4. PICK job : job = scJob'
    OBVIOUS
  <1>5. PICK reports : reports = [t \in ScTargets |-> {}]
    OBVIOUS
  <1>6. PICK log : log = [firing |-> k, late |-> 0, before |-> 0, missed |-> {}]
    OBVIOUS
  <1>7. reports \in [ScTargets -> SUBSET ScReports] /\ \A t \in ScTargets : reports[t] = {}
    BY <1>5
  <1>8. log \in ScLogs /\ log.missed = {}
    <2>1. k \in Nat \ {0}
      BY <1>2, ScGapsAssumption DEF MapServes
    <2> QED
      BY <1>6, <2>1 DEF ScLogs
  <1>9. job = [schedule |-> s, command |-> 1, target |-> 1, scan |-> 0, reports |-> reports,
               failed |-> FALSE, unsent |-> {}, log |-> log]
    BY <1>3, <1>4, <1>5, <1>6 DEF ScIdle
  <1>10. job \in Jobs0
    BY <1>7, <1>8, <1>9 DEF Jobs0
  <1>11. Placed(job)
    <2> SUFFICES ASSUME 1 <= Len(scMap[s])
                 PROVE  /\ scMap[s][1].targets # <<>> => 1 <= Len(scMap[s][1].targets)
                        /\ 0 <= Len(ScanNames(scMap[s][1]))
      BY <1>9 DEF Placed
    <2>1. scMap[s] \in Seq(ScCommands)
      BY <1>2, CommandFacts
    <2>2. 1 \in 1 .. Len(scMap[s])
      BY <2>1
    <2>3. scMap[s][1].targets \in Seq(STRING) /\ Len(ScanNames(scMap[s][1])) \in Nat
      BY <1>2, <2>2, CommandFacts
    <2> QED
      BY <2>3
  <1>12. Finished(job, scStored)
    <2>1. \A c, i, k0 : c \in Nat \ {0} /\ i \in Nat \ {0} /\ k0 \in Nat => ~Past(job, c, i, k0)
      BY <1>9 DEF Past
    <2>2. \A c \in 1 .. Len(scMap[s]) : \A k0 \in 1 .. Len(ScanNames(scMap[s][c])) : k0 \in Nat
      <3>1. \A c \in 1 .. Len(scMap[s]) : Len(ScanNames(scMap[s][c])) \in Nat
        BY <1>2, CommandFacts
      <3> QED
        BY <3>1
    <2>3. /\ \A c \in 1 .. Len(scMap[s]) : c \in Nat \ {0}
          /\ \A c \in 1 .. Len(scMap[s]) : \A i \in 1 .. Len(scMap[s][c].targets) : i \in Nat \ {0}
      BY <1>2, CommandFacts
    <2> QED
      BY <1>9, <2>1, <2>2, <2>3, ZenonT(60) DEF Finished
  <1>13. Reporting(job)
    <2>1. LogJoined(s, log.missed)
      BY <1>8 DEF LogJoined
    <2> QED
      BY <1>7, <1>9, <2>1 DEF Reporting
  <1>14. JobOk(scJob', scStored')
    BY <1>1, <1>4, <1>10, <1>11, <1>12, <1>13 DEF JobOk
  <1>15. JobOk(scJob, scStored)'
    BY <1>1, <1>14, JobKept
  <1>16. /\ \A d \in DOMAIN scRuns' : Delivered(d)'
         /\ \A d \in scStored' : Sent(d)' /\ Owed(d)'
    BY <1>1, RunsKept
  <1>17. MapServes(scMap)'
    BY <1>1, <1>2, ServesKept
  <1> QED
    BY <1>1, <1>15, <1>16, <1>17 DEF ScInv

\* What is pushed of a target: nothing, when no report may be sent alone, or all.
LEMMA PushedFacts ==
  ASSUME NEW t
  PROVE  /\ \A x \in Pushed(t) : x \in scJob.reports[t] \cup {"guc_drift", "log_readiness"}
         /\ Pushed(t) = {} =>
              scJob.reports[t] = {} \/
                /\ "postgres_cis" \notin scJob.reports[t] /\ "hba_scanner" \notin scJob.reports[t]
                /\ t \in scWorld.down
         /\ Pushed(t) # {} => /\ scJob.reports[t] \subseteq Pushed(t)
                              /\ t \notin scWorld.down => "guc_drift" \in Pushed(t)
  <1>1. PICK found : found = scJob.reports[t]
    OBVIOUS
  <1>2. PICK all : all = CollectLogReadiness(t, CollectGuc(t, found))
    OBVIOUS
  <1>3. /\ all \subseteq found \cup {"guc_drift", "log_readiness"} /\ found \subseteq all
        /\ t \notin scWorld.down => "guc_drift" \in all
    BY <1>2 DEF CollectLogReadiness, CollectGuc, Readied
  <1>4. Pushed(t) = IF found = {} THEN {} ELSE NodePayload(all)
    BY <1>1, <1>2 DEF Pushed
  <1>5. NodePayload(all) = {} \/ NodePayload(all) = all
    BY DEF NodePayload
  <1>6. ASSUME NodePayload(all) = {}
        PROVE  "postgres_cis" \notin all /\ "hba_scanner" \notin all /\ "guc_drift" \notin all
    BY <1>6 DEF NodePayload
  <1>7. CASE found = {}
    BY <1>1, <1>4, <1>7
  <1>8. CASE found # {} /\ NodePayload(all) = {}
    BY <1>1, <1>3, <1>4, <1>6, <1>8
  <1>9. CASE found # {} /\ NodePayload(all) # {}
    BY <1>1, <1>3, <1>4, <1>5, <1>9
  <1> QED
    BY <1>7, <1>8, <1>9

\* Of a job at its end that nothing failed, every scan it was asked for was seen.
LEMMA AllSeen ==
  ASSUME scJob \in Jobs0, MapServes(scMap), Finished(scJob, scStored), AtEnd, ~scJob.failed,
         NEW t, NEW x, <<t, x>> \in Requested(scJob.schedule)
  PROVE  /\ t \in ScTargets
         /\ x = "pii_scanner" => \/ <<scJob.schedule, PiiDb(t), "pii_scanner">> \in scStored
                                 \/ PiiDb(t) \in scJob.unsent
         /\ x \in LogScans => scJob.reports[t] \cap LogScans # {}
         /\ x \in OwnReports => x \in scJob.reports[t]
         /\ x \in OwnReports \cup LogScans \cup {"pii_scanner", "guc_drift"}
  <1>1. scJob.schedule \in DOMAIN scMap /\ scJob.command \in Nat \ {0}
    BY DEF Jobs0
  <1>2. PICK d \in CommandsOf(scMap, scJob.schedule) : t \in ToSet(d.targets) /\ x \in Meant(d)
    BY DEF MapServes
  <1>3. PICK c \in 1 .. Len(Commands) : Commands[c] = d
    BY <1>1, CommandFacts DEF Commands
  <1>4. PICK i \in 1 .. Len(Commands[c].targets) : Commands[c].targets[i] = t
    BY <1>1, <1>2, <1>3, CommandFacts, ZenonT(60) DEF Commands
  <1>5. PICK names : names = ScanNames(d)
    OBVIOUS
  <1>17. d.mysql \in Nat
    BY <1>1, <1>3, CommandFacts DEF Commands
  <1>6. Len(names) \in Nat \ {0}
    <2>1. d.name # "mysql" \/ d.mysql # 0
      BY <1>2 DEF Meant
    <2> QED
      BY <1>5, <1>17, <2>1, ScanNamesFacts
  <1>7. c < scJob.command
    <2>1. Len(Commands) \in Nat
      BY <1>1, CommandFacts DEF Commands
    <2> QED
      BY <1>1, <2>1 DEF AtEnd
  <1>8. \A k \in 1 .. Len(names) :
           ValidCommand(d.name) /\ WasSeen(scJob, scStored, t, names[k])
    BY <1>3, <1>4, <1>5, <1>7 DEF Finished, Past, Commands
  <1>9. ValidCommand(d.name)
    <2>1. 1 \in 1 .. Len(names)
      BY <1>6
    <2> QED
      BY <1>8, <2>1
  <1>10. PICK k \in 1 .. Len(names) : names[k] = x \/ (x \in LogScans /\ names[k] = "logs")
    BY <1>2, <1>5, <1>9, <1>17, ScansMeant
  <1>11. WasSeen(scJob, scStored, t, names[k])
    BY <1>8
  <1>12. "pii_scanner" \notin LogScans /\ OwnReports \cap LogScans = {}
    BY OwnSet
  <1>13. t \in ScTargets
    BY <1>1, <1>3, <1>4, CommandFacts DEF Commands
  <1>14. x \in OwnReports \cup LogScans \cup {"pii_scanner", "guc_drift"}
    BY <1>2, <1>9 DEF Meant, AllScans, ValidCommand, OwnReports
  <1>15. CASE names[k] = x
    BY <1>11, <1>13, <1>14, <1>15 DEF WasSeen
  <1>16. CASE x \in LogScans /\ names[k] = "logs"
    BY <1>11, <1>12, <1>13, <1>14, <1>16 DEF WasSeen
  <1> QED
    BY <1>10, <1>15, <1>16

LEMMA EndsWell ==
  ASSUME ScInv, scState = "serves", JobEnds
  PROVE  ScInv'
  <1>0. PICK at : at = scJob.schedule
    OBVIOUS
  <1>1. Running /\ MapServes(scMap) /\ JobOk(scJob, scStored)
    BY DEF JobEnds, ScanPanics, LogParserNil, AtProcessors, Scans, ScansRds, ScInv
  <1>2. scJob \in Jobs0 /\ at \in DOMAIN scMap /\ at \notin DOMAIN scRuns
    BY <1>0, <1>1 DEF JobOk, Jobs0
  <1>3. UNCHANGED <<scConfig, scWorld, scState, scMap>> /\ ~Running'
    BY DEF JobEnds, Running, ScIdle
  <1>16. PICK taken \in SUBSET Pushing, settled \in BOOLEAN :
         /\ scStored' = scStored \cup
              UNION {{<<scJob.schedule, t, x>> : x \in Pushed(t)} : t \in taken}
         /\ scRuns' = [s \in DOMAIN scRuns \cup {scJob.schedule} |->
                         IF s # scJob.schedule THEN scRuns[s]
                         ELSE [success |-> settled /\ ~scJob.failed, panicked |-> ~AtEnd,
                               missed |-> scJob.log.missed, unsent |-> scJob.unsent,
                               untaken |-> Pushing \ taken, down |-> scWorld.down]]
    BY DEF JobEnds
  <1>4. /\ DOMAIN scRuns' = DOMAIN scRuns \cup {at}
        /\ \A s \in DOMAIN scRuns : scRuns'[s] = scRuns[s]
        /\ scRuns'[at] = [success |-> settled /\ ~scJob.failed, panicked |-> ~AtEnd,
                          missed |-> scJob.log.missed, unsent |-> scJob.unsent,
                          untaken |-> Pushing \ taken, down |-> scWorld.down]
    BY <1>0, <1>2, <1>16
  <1>15. /\ scRuns'[at].success => ~scJob.failed
         /\ ~scRuns'[at].panicked => AtEnd
         /\ scRuns'[at].missed = scJob.log.missed /\ scRuns'[at].unsent = scJob.unsent
         /\ scRuns'[at].untaken = Pushing \ taken /\ scRuns'[at].down = scWorld.down
    <2>1. PICK u, v, w : u = (settled /\ ~scJob.failed) /\ v = (~AtEnd) /\ w = Pushing \ taken
      BY Zenon
    <2>2. scRuns'[at] = [success |-> u, panicked |-> v, missed |-> scJob.log.missed,
                         unsent |-> scJob.unsent, untaken |-> w, down |-> scWorld.down]
      BY <1>4, <2>1, Zenon
    <2>3. /\ scRuns'[at].success = u /\ scRuns'[at].panicked = v
          /\ scRuns'[at].missed = scJob.log.missed /\ scRuns'[at].unsent = scJob.unsent
          /\ scRuns'[at].untaken = w /\ scRuns'[at].down = scWorld.down
      BY <2>2, SMT
    <2>4. (u => ~scJob.failed) /\ (~v => AtEnd) /\ w = Pushing \ taken
      BY <2>1, Zenon
    <2> QED
      BY <2>3, <2>4
  <1>5. DOMAIN scJob.reports = ScTargets
    BY <1>2 DEF Jobs0
  <1>17. Pushing = {t \in ScTargets : Pushed(t) # {}}
    BY <1>5 DEF Pushing
  <1>6. \A d : d \in scStored' <=>
           \/ d \in scStored
           \/ \E t \in taken : \E x \in Pushed(t) : d = <<at, t, x>>
    BY <1>0, <1>16
  <1>7. \A s, t, x : <<s, t, x>> \in scStored' <=>
           <<s, t, x>> \in scStored \/ (s = at /\ t \in taken /\ x \in Pushed(t))
    BY <1>6
  <1>8. \A t, x : <<at, t, x>> \in scStored => x = "pii_scanner"
    <2> SUFFICES ASSUME NEW t, NEW x, <<at, t, x>> \in scStored PROVE x = "pii_scanner"
      OBVIOUS
    <2>1. PICK d : d = <<at, t, x>>
      OBVIOUS
    <2>2. Sent(d) /\ d[1] = at /\ d[3] = x
      BY <2>1 DEF ScInv
    <2> QED
      BY <1>0, <1>2, <2>2 DEF Sent
  <1>9. ASSUME NEW s \in DOMAIN scRuns PROVE Delivered(s)'
    <2>1. s # at
      BY <1>2, <1>9
    <2>2. \A t, x : <<s, t, x>> \in scStored' <=> <<s, t, x>> \in scStored
      BY <1>7, <2>1
    <2> QED
      BY <1>3, <1>4, <1>9, <2>2, DeliveredKept DEF ScInv
  <1>10. ASSUME ~scJob.failed, AtEnd, NEW t, NEW x, <<t, x>> \in Requested(at),
                NEW db, db = PiiDb(t)
         PROVE  \/ x = "pii_scanner" /\ (<<at, db, x>> \in scStored' \/ Untaken(at, db, x)')
                \/ x # "pii_scanner" /\ (\/ <<at, t, x>> \in scStored' \/ Replaced(at, t, x)'
                                         \/ Lonely(at, t, x)' \/ Reread(at, t, x)'
                                         \/ Untaken(at, t, x)')
    <2>1. /\ t \in ScTargets
          /\ x = "pii_scanner" => \/ <<at, PiiDb(t), "pii_scanner">> \in scStored
                                  \/ PiiDb(t) \in scJob.unsent
          /\ x \in LogScans => scJob.reports[t] \cap LogScans # {}
          /\ x \in OwnReports => x \in scJob.reports[t]
          /\ x \in OwnReports \cup LogScans \cup {"pii_scanner", "guc_drift"}
      BY <1>0, <1>1, <1>2, <1>10, AllSeen DEF JobOk
    <2>2. scRuns'[at].down = scWorld.down
      BY <1>15
    <2>3. CASE x = "pii_scanner"
      <3>1. <<at, db, x>> \in scStored \/ db \in scJob.unsent
        BY <1>10, <2>1, <2>3
      <3>2. <<at, db, x>> \in scStored => <<at, db, x>> \in scStored'
        BY <1>7
      <3>3. db \in scJob.unsent => Untaken(at, db, x)'
        BY <1>15, <2>3 DEF Untaken
      <3> QED
        BY <2>3, <3>1, <3>2, <3>3
    <2>7. CASE t \in Pushing \ taken /\ x # "pii_scanner"
      BY <1>15, <2>7 DEF Untaken
    <2>5. CASE Pushed(t) = {} /\ x # "pii_scanner"
      <3>1. \A y : y # "pii_scanner" => <<at, t, y>> \notin scStored'
        BY <1>7, <1>8, <2>5
      <3>2. ~\E y \in {"postgres_cis", "hba_scanner"} : <<at, t, y>> \in scStored'
        BY <3>1
      <3>3. x = "guc_drift" \/ t \in scWorld.down
        <4>1. x # "guc_drift" => scJob.reports[t] # {}
          BY <2>1, <2>5
        <4> QED
          BY <2>5, <4>1, PushedFacts
      <3> QED
        BY <2>2, <2>5, <3>2, <3>3 DEF Lonely
    <2>6. CASE Pushed(t) # {} /\ t \in taken /\ x # "pii_scanner"
      <3>1. \A y \in scJob.reports[t] : <<at, t, y>> \in scStored'
        BY <1>7, <2>1, <2>6, PushedFacts
      <3>2. CASE x \in OwnReports
        BY <2>1, <2>6, <3>1, <3>2
      <3>3. CASE x \in LogScans
        <4>1. PICK y \in LogScans : y \in scJob.reports[t]
          BY <2>1, <3>3
        <4>2. <<at, t, y>> \in scStored'
          BY <3>1, <4>1
        <4> QED
          BY <2>6, <3>3, <4>1, <4>2 DEF Replaced
      <3>4. CASE x = "guc_drift"
        <4>1. t \notin scWorld.down => <<at, t, x>> \in scStored'
          BY <1>7, <2>1, <2>6, <3>4, PushedFacts
        <4> QED
          BY <2>2, <2>6, <3>4, <4>1 DEF Reread
      <3> QED
        BY <2>1, <2>6, <3>2, <3>3, <3>4
    <2> QED
      BY <1>17, <2>1, <2>3, <2>5, <2>6, <2>7
  <1>11. Delivered(at)'
    <2>1. LogJoined(at, scRuns'[at].missed)
      BY <1>0, <1>1, <1>15 DEF JobOk, Reporting
    <2>2. ASSUME scRuns'[at].success, ~scRuns'[at].panicked, NEW a \in Asked(at)
          PROVE  \/ <<at, a[1], a[2]>> \in scStored'
                 \/ Replaced(at, a[1], a[2])' \/ Lonely(at, a[1], a[2])'
                 \/ Reread(at, a[1], a[2])' \/ Untaken(at, a[1], a[2])'
      <3>1. ~scJob.failed /\ AtEnd
        BY <1>15, <2>2
      <3>2. PICK r \in Requested(at) :
               a = <<IF r[2] = "pii_scanner" THEN PiiDb(r[1]) ELSE r[1], r[2]>>
        BY <2>2 DEF Asked
      <3>3. r = <<r[1], r[2]>>
        BY <3>2 DEF Requested
      <3>4. PICK t, x : t = r[1] /\ x = r[2]
        OBVIOUS
      <3>5. <<t, x>> \in Requested(at)
        BY <3>2, <3>3, <3>4
      <3>6. PICK u : u = IF x = "pii_scanner" THEN PiiDb(t) ELSE t
        OBVIOUS
      <3>7. a[1] = u /\ a[2] = x
        BY <3>2, <3>4, <3>6
      <3>8. \/ <<at, u, x>> \in scStored'
            \/ Replaced(at, u, x)' \/ Lonely(at, u, x)' \/ Reread(at, u, x)' \/ Untaken(at, u, x)'
        <4>1. CASE x = "pii_scanner"
          <5>1. u = PiiDb(t)
            BY <3>6, <4>1
          <5>2. <<at, u, x>> \in scStored' \/ Untaken(at, u, x)'
            BY <1>10, <3>1, <3>5, <4>1, <5>1
          <5> QED
            BY <5>1, <5>2
        <4>2. CASE x # "pii_scanner"
          <5>1. u = t
            BY <3>6, <4>2
          <5>2. PICK db : db = PiiDb(t)
            OBVIOUS
          <5> QED
            BY <1>10, <3>1, <3>5, <4>2, <5>1, <5>2
        <4> QED
          BY <4>1, <4>2
      <3> QED
        BY <3>7, <3>8
    <2>3. Asked(at)' = Asked(at)
      BY <1>3, ConfigKept
    <2> QED
      BY <2>1, <2>2, <2>3 DEF Delivered, LogJoined
  <1>12. ASSUME NEW d \in scStored' PROVE Sent(d)' /\ Owed(d)'
    <2>1. CASE d \in scStored
      <3>1. Sent(d) /\ Owed(d)
        BY <2>1 DEF ScInv
      <3>2. d[1] \in DOMAIN scRuns'
        BY <1>0, <1>4, <3>1 DEF Sent
      <3> QED
        BY <1>3, <3>1, <3>2, ConfigKept DEF Sent, Owed
    <2>2. ASSUME NEW t \in taken, NEW x \in Pushed(t), d = <<at, t, x>>
          PROVE  Sent(d)' /\ Owed(d)'
      <3>1. d[1] = at /\ d[2] = t /\ d[3] = x
        BY <2>2
      <3>2. <<t, x>> \in Asked(at) \/ x \in {"guc_drift", "log_readiness"}
        <4>1. CASE x \in scJob.reports[t]
          <5>1. x = "log_readiness" \/ <<t, x>> \in Requested(at)
            BY <1>0, <1>1, <1>17, <4>1 DEF JobOk, Reporting
          <5>2. x \in ScReports
            BY <1>2, <1>17, <4>1 DEF Jobs0
          <5>3. x # "pii_scanner"
            BY <5>2, OwnSet DEF ScReports
          <5>4. ASSUME <<t, x>> \in Requested(at) PROVE <<t, x>> \in Asked(at)
            <6>1. PICK r : r = <<t, x>>
              OBVIOUS
            <6>2. r \in Requested(at) /\ r[1] = t /\ r[2] = x
              BY <5>4, <6>1
            <6> QED
              BY <5>3, <6>1, <6>2 DEF Asked
          <5> QED
            BY <5>1, <5>4
        <4>2. CASE x \notin scJob.reports[t]
          BY <4>2, PushedFacts
        <4> QED
          BY <4>1, <4>2
      <3> QED
        BY <1>3, <1>4, <3>1, <3>2, ConfigKept DEF Sent, Owed
    <2> QED
      BY <1>6, <1>12, <2>1, <2>2
  <1>13. MapServes(scMap)'
    BY <1>1, <1>3, ServesKept
  <1>14. \A s \in DOMAIN scRuns' : Delivered(s)'
    BY <1>4, <1>9, <1>11
  <1> QED
    BY <1>3, <1>12, <1>13, <1>14 DEF ScInv

LEMMA WorksWell ==
  ASSUME ScInv, scState = "serves", ScWork, ~JobEnds
  PROVE  ScInv'
  <1>1. Running /\ ~AtEnd
    BY DEF ScWork, Processors, AtProcessors, NoTargets, RunPostgresCis, AuditSsl, CommonUsers,
           FetchGucs, ScanHba, ScanLog, ScanPii, RunMySql, RunRds, ScansRds, Scans
  <1>2. MapServes(scMap) /\ JobOk(scJob, scStored)
    BY <1>1 DEF ScInv
  <1>3. Somewhere
    BY <1>1, <1>2 DEF Somewhere, JobOk
  <1>4. PICK at, d0 : at = scJob.schedule /\ d0 = <<at, PiiDb(Target), "pii_scanner">>
    OBVIOUS
  <1>5. /\ JobOk(scJob', scStored') /\ scJob'.schedule = at
        /\ \/ scStored' = scStored
           \/ scStored' = scStored \cup {d0} /\ <<PiiDb(Target), "pii_scanner">> \in Asked(at)
        /\ scState' = scState \/ (scState' = "exited" /\ scJob' = scJob /\ EndsProcess)
        /\ UNCHANGED <<scConfig, scMap, scRuns, scWorld>>
    BY <1>2, <1>3, <1>4, WorkOn
  <1>11. scState' = "exited" => EndsProcess'
    BY <1>5, EndKept
  <1>6. JobOk(scJob, scStored)'
    BY <1>5, JobKept
  <1>7. Running'
    <2>1. scJob' \in Jobs0'
      BY <1>6 DEF JobOk
    <2> QED
      BY <2>1 DEF Jobs0, Running
  <1>8. MapServes(scMap)'
    BY <1>2, <1>5, ServesKept
  <1>9. ASSUME NEW s \in DOMAIN scRuns' PROVE Delivered(s)'
    <2>1. s \in DOMAIN scRuns /\ Delivered(s)
      BY <1>5, <1>9 DEF ScInv
    <2>2. s # at
      BY <1>2, <1>4, <2>1 DEF JobOk, Jobs0
    <2>3. \A t, x : <<s, t, x>> \in scStored' <=> <<s, t, x>> \in scStored
      BY <1>4, <1>5, <2>2
    <2> QED
      BY <1>5, <2>1, <2>3, DeliveredKept
  <1>10. ASSUME NEW d \in scStored' PROVE Sent(d)' /\ Owed(d)'
    <2>1. CASE d \in scStored
      <3>1. Sent(d) /\ Owed(d)
        BY <2>1 DEF ScInv
      <3> QED
        BY <1>4, <1>5, <1>7, <3>1, ConfigKept DEF Sent, Owed
    <2>2. CASE d = d0 /\ <<PiiDb(Target), "pii_scanner">> \in Asked(at)
      <3>1. d[1] = at /\ d[2] = PiiDb(Target) /\ d[3] = "pii_scanner"
        BY <1>4, <2>2
      <3>2. <<d[2], d[3]>> \in Asked(d[1])
        BY <2>2, <3>1
      <3> QED
        BY <1>5, <1>7, <3>1, <3>2, ConfigKept DEF Sent, Owed
    <2> QED
      BY <1>5, <1>10, <2>1, <2>2
  <1> QED
    BY <1>5, <1>6, <1>8, <1>9, <1>10, <1>11 DEF ScInv

LEMMA ScInvNext ==
  ASSUME ScInv, ScNext
  PROVE  ScInv'
  <1>1. CASE SetupCron
    BY <1>1, SetsUp
  <1>2. CASE Fire
    BY <1>2, FiresWell
  <1>3. CASE scState = "serves" /\ ScWork
    BY <1>3, EndsWell, WorksWell
  <1>4. CASE WorldChanges
    <2>1. UNCHANGED <<scConfig, scState, scMap, scJob, scStored, scRuns>> /\ scState = "serves"
      BY <1>4 DEF WorldChanges
    <2>2. Running' <=> Running
      BY <2>1 DEF Running
    <2>3. /\ \A s \in DOMAIN scRuns' : Delivered(s)'
          /\ \A d \in scStored' : Sent(d)' /\ Owed(d)'
      BY <2>1, <2>2, RunsKept
    <2>4. MapServes(scMap)'
      BY <2>1, ServesKept DEF ScInv
    <2>5. Running => JobOk(scJob, scStored)'
      BY <2>1, JobKept DEF ScInv
    <2> QED
      BY <2>1, <2>2, <2>3, <2>4, <2>5 DEF ScInv
  <1> QED
    BY <1>1, <1>2, <1>3, <1>4 DEF ScNext

LEMMA ScInvStep ==
  ASSUME ScInv, [ScNext]_scVars
  PROVE  ScInv'
  <1>1. CASE UNCHANGED scVars
    <2>1. UNCHANGED scVars /\ (Running' <=> Running)
      BY <1>1 DEF scVars, Running
    <2>2. /\ \A s \in DOMAIN scRuns' : Delivered(s)'
          /\ \A d \in scStored' : Sent(d)' /\ Owed(d)'
      BY <2>1, RunsKept DEF scVars
    <2>3. (scState \in {"serves", "exited"} => MapServes(scMap)')
      BY <2>1, ServesKept DEF ScInv, scVars
    <2>4. Running => JobOk(scJob, scStored)'
      BY <2>1, JobKept DEF ScInv, scVars
    <2>5. scState = "exited" => EndsProcess'
      BY <2>1, EndKept DEF ScInv, scVars
    <2> QED
      BY <2>1, <2>2, <2>3, <2>4, <2>5 DEF ScInv, scVars
  <1> QED
    BY <1>1, ScInvNext
=============================================================================
