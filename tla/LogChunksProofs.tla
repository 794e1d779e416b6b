-------------------------- MODULE LogChunksProofs --------------------------
(***************************************************************************)
(* That the fast log runner tears no record and loses at most the one right  *)
(* after a chunk, for files of any length and any size of the read buffer.   *)
(***************************************************************************)
EXTENDS LogChunks, WellFoundedInduction, TLAPS

\* A set of numbers has a least one, which is what Min returns.
LEMMA MinFacts ==
  ASSUME NEW S \in SUBSET Nat, S # {}
  PROVE  Min(S) \in S /\ \A x \in S : Min(S) <= x
  <1> DEFINE less == OpToRel(<, Nat)
  <1>1. PICK x \in S : \A y \in S : ~(<<y, x>> \in less)
    <2>1. IsWellFoundedOn(less, Nat)
      BY NatLessThanWellFounded
    <2> HIDE DEF less
    <2> QED
      BY <2>1, WFMin
  <1>2. \A y \in S : x <= y
    <2>1. \A y \in S : ~(y < x)
      BY <1>1 DEF OpToRel
    <2> QED
      BY <2>1
  <1> QED
    BY <1>2 DEF Min
-----------------------------------------------------------------------------
(* The invariant.                                                            *)

Line(p) == p = 1 \/ file[p - 1] = "n"

Reading == stage \in {"line", "ahead"}

Types ==
    /\ file \in Seq({"n", "t", "x"})
    /\ stage \in {"open", "read", "line", "ahead", "done", "cancelled"}
    /\ pos \in 1 .. Len(file) + 1
    /\ from \in Nat /\ to \in Nat
    /\ chunks \subseteq Bytes \X Bytes

\* A chunk runs from the start of a line to the end of one that nothing
\* continues.
WholeLines ==
    /\ stage = "read" /\ pos \in Bytes => Line(pos)
    /\ Reading => Line(from)
    /\ Terminated /\ stage = "line" => pos = to + 1
    /\ Terminated /\ stage = "ahead" => pos = to + 1 /\ file[to] = "n"
    /\ \A c \in chunks :
         /\ Line(c[1])
         /\ Terminated => c[2] = Len(file) \/ (file[c[2]] = "n" /\ file[c[2] + 1] # "t")

\* Process only goes forward.
Forward ==
    /\ Reading => from \in Bytes /\ to \in Bytes /\ from <= to /\ to < pos
    /\ \A c \in chunks : c[1] <= c[2] /\ c[2] < IF Reading THEN from ELSE pos
    /\ \A c, d \in chunks : c # d => c[2] < d[1] \/ d[2] < c[1]

\* A line passed by is in a chunk or begins right after one.
Accounted ==
    Terminated =>
        \A p \in Bytes :
            Line(p) /\ p < (IF Reading THEN from ELSE pos) =>
                \E c \in chunks : p \in c[1] .. c[2] \/ p = c[2] + 1

\* A file that fits into one read becomes one chunk.
OneRead ==
    Len(file) <= ReadCap =>
        /\ Reading => from = 1 /\ to = Len(file) /\ pos = Len(file) + 1 /\ chunks = {}
        /\ stage = "read" => \/ pos = 1 /\ chunks = {}
                             \/ pos = Len(file) + 1 /\ chunks = {<<1, Len(file)>>}
        /\ stage = "done" /\ chunks # {} => chunks = {<<1, Len(file)>>}

Stages ==
    /\ stage = "open" => pos = 1 /\ chunks = {}
    /\ stage = "done" /\ chunks # {} => pos = Len(file) + 1

ChunkInv ==
    Types /\ WholeLines /\ Forward /\ Accounted /\ OneRead /\ Stages

LEMMA NewlineFacts ==
  ASSUME Types, NEW q \in Nat
  PROVE  \/ Newline(q) = 0 /\ \A p \in Bytes : p >= q => file[p] # "n"
         \/ /\ Newline(q) \in Bytes /\ Newline(q) >= q /\ file[Newline(q)] = "n"
            /\ \A p \in Bytes : p >= q /\ p < Newline(q) => file[p] # "n"
  <1> DEFINE ends == {p \in Bytes : p >= q /\ file[p] = "n"}
  <1>1. ends \in SUBSET Nat /\ Bytes \subseteq Nat
    BY DEF Types, Bytes
  <1>2. CASE ends = {}
    BY <1>2 DEF Newline
  <1>3. CASE ends # {}
    <2>1. Newline(q) = Min(ends)
      BY <1>3 DEF Newline
    <2>2. Min(ends) \in ends /\ \A x \in ends : Min(ends) <= x
      BY <1>1, <1>3, MinFacts
    <2>3. \A p \in Bytes : p >= q /\ p < Min(ends) => p \notin ends
      BY <1>1, <2>2
    <2> QED
      BY <2>1, <2>2, <2>3
  <1> QED
    BY <1>2, <1>3

\* The lines and the file itself never change.
LEMMA SameFile ==
  ASSUME UNCHANGED file
  PROVE  /\ (Terminated' <=> Terminated) /\ Bytes' = Bytes
         /\ \A p : Line(p)' <=> Line(p)
  BY DEF Terminated, Bytes, Line

LEMMA ChunkInit == Init => ChunkInv
  <1> SUFFICES ASSUME Init PROVE ChunkInv
    OBVIOUS
  <1>1. Types
    BY FileAssumption DEF Init, Types
  <1> QED
    BY <1>1 DEF Init, ChunkInv, WholeLines, Forward, Accounted, OneRead, Stages, Reading, Line,
                Types, Bytes

LEMMA ChunkStep == ChunkInv /\ [Next]_vars => ChunkInv'
  <1> SUFFICES ASSUME ChunkInv, [Next]_vars PROVE ChunkInv'
    OBVIOUS
  <1>1. file' = file
    BY DEF Next, vars, Ignored, Validated, Read, CompleteLine, AppendLine, CutOff, AtEnd,
           Cancelled
  <1>2. /\ (Terminated' <=> Terminated) /\ Bytes' = Bytes
        /\ \A p : Line(p)' <=> Line(p)
    BY <1>1, SameFile
  <1>3. /\ Types /\ WholeLines /\ Forward /\ Accounted /\ OneRead /\ Stages
        /\ Len(file) \in Nat /\ Bytes = 1 .. Len(file) /\ ReadCap \in Nat \ {0}
        /\ pos \in Nat /\ pos >= 1 /\ pos <= Len(file) + 1
        /\ from \in Nat /\ to \in Nat
        /\ \A c \in chunks : c \in Bytes \X Bytes /\ c[1] \in Nat /\ c[2] \in Nat
    BY ReadAssumption DEF ChunkInv, Types, Bytes
  <1>4. CASE Ignored \/ Validated \/ AtEnd \/ Cancelled \/ UNCHANGED vars
    <2>1. /\ UNCHANGED <<file, pos, from, to, chunks>> /\ (Reading' <=> Reading)
          /\ stage' \in {stage, "done", "read", "cancelled"}
      BY <1>3, <1>4 DEF Ignored, Validated, AtEnd, Cancelled, vars, Reading, Types
    <2>2. Types'
      BY <1>3, <2>1 DEF Types, Bytes
    <2>3. WholeLines'
      BY <1>2, <1>3, <1>4, <2>1
         DEF WholeLines, Ignored, Validated, AtEnd, Cancelled, vars, Reading, Line, Stages, Terminated
    <2>4. Forward' /\ Accounted'
      BY <1>2, <1>3, <2>1 DEF Forward, Accounted
    <2>5. OneRead'
      <3>1. stage' = "read" => stage = "read" \/ (pos = 1 /\ chunks = {})
        BY <1>3, <1>4, <2>1 DEF Ignored, Validated, AtEnd, Cancelled, vars, Stages
      <3>2. stage' = "done" => stage = "done" \/ chunks = {} \/ (stage = "read" /\ pos \notin Bytes)
        BY <1>3, <1>4, <2>1 DEF Ignored, Validated, AtEnd, Cancelled, vars, Stages
      <3>3. pos = 1 /\ pos \notin Bytes => chunks = {} \/ stage # "read" \/ Len(file) = 0
        BY <1>3
      <3>4. (Reading' => Reading) /\ UNCHANGED <<file, pos, from, to, chunks>>
        BY <2>1
      <3> QED
        BY <1>3, <3>1, <3>2, <3>3, <3>4 DEF OneRead
    <2>6. Stages'
      BY <1>3, <1>4, <2>1 DEF Stages, Ignored, Validated, AtEnd, Cancelled, vars
    <2> QED
      BY <2>2, <2>3, <2>4, <2>5, <2>6 DEF ChunkInv
  <1>5. CASE Read
    <2>1. PICK n \in 1 .. Len(file) - pos + 1 :
            /\ pos = 1 => n = Min({ReadCap, Len(file)})
            /\ from' = pos /\ to' = pos + n - 1 /\ pos' = pos + n
      BY <1>5 DEF Read
    <2>2. stage = "read" /\ pos \in Bytes /\ stage' = "line" /\ UNCHANGED chunks
      BY <1>5 DEF Read
    <2>3. /\ from' \in Bytes /\ to' \in Bytes /\ from' <= to' /\ pos' = to' + 1
          /\ pos' \in 1 .. Len(file) + 1 /\ Reading' /\ ~Reading
      BY <1>3, <2>1, <2>2 DEF Reading
    <2>4. Types'
      <3>1. pos' \in Nat /\ pos' >= 1 /\ from' \in Nat /\ to' \in Nat
        BY <1>3, <2>1, <2>3
      <3> QED
        BY <1>1, <1>3, <2>2, <2>3, <3>1 DEF Types, Bytes
    <2>5. WholeLines'
      BY <1>1, <1>2, <1>3, <2>1, <2>2, <2>3 DEF WholeLines
    <2>6. Forward'
      BY <1>2, <1>3, <2>1, <2>2, <2>3 DEF Forward
    <2>7. Accounted'
      BY <1>2, <1>3, <2>1, <2>2, <2>3 DEF Accounted
    <2>8. OneRead'
      <3> SUFFICES ASSUME Len(file) <= ReadCap
                   PROVE  from' = 1 /\ to' = Len(file) /\ pos' = Len(file) + 1 /\ chunks' = {}
        BY <1>1, <2>2 DEF OneRead
      <3>1. pos = 1 /\ chunks = {}
        BY <1>3, <2>2 DEF OneRead
      <3>2. n = Len(file)
        <4>1. Min({ReadCap, Len(file)}) \in {ReadCap, Len(file)}
              /\ \A x \in {ReadCap, Len(file)} : Min({ReadCap, Len(file)}) <= x
          BY <1>3, MinFacts, SMTT(40)
        <4>2. Min({ReadCap, Len(file)}) = Len(file)
          BY <1>3, <4>1
        <4> QED
          BY <2>1, <3>1, <4>2
      <3> QED
        BY <1>3, <2>1, <2>2, <3>1, <3>2
    <2> QED
      BY <2>2, <2>4, <2>5, <2>6, <2>7, <2>8 DEF ChunkInv, Stages
  <1>6. CASE CompleteLine
    <2>1. /\ stage = "line" /\ stage' = "ahead" /\ UNCHANGED <<from, chunks>>
          /\ Reading /\ Reading'
          /\ \/ Newline(pos) = 0 /\ pos' = Len(file) + 1 /\ to' = to
             \/ Newline(pos) # 0 /\ to' = Newline(pos) /\ pos' = Newline(pos) + 1
      BY <1>6 DEF CompleteLine, RestOfLine, Reading
    <2>2. /\ to' \in Bytes /\ from \in Bytes /\ from <= to' /\ to' < pos'
          /\ pos' \in 1 .. Len(file) + 1
      BY <1>3, <2>1, NewlineFacts DEF Forward
    <2>3. Types'
      BY <1>1, <1>2, <1>3, <2>1, <2>2 DEF Types, Bytes
    <2>4. Terminated => pos' = to' + 1 /\ file[to'] = "n"
      <3> SUFFICES ASSUME Terminated PROVE pos' = to' + 1 /\ file[to'] = "n"
        OBVIOUS
      <3>1. CASE Newline(pos) = 0
        <4>1. pos = to + 1 /\ file[Len(file)] = "n" /\ Len(file) \in Bytes
          BY <1>3, <2>1, <2>2 DEF WholeLines, Terminated
        <4>2. pos = Len(file) + 1
          BY <1>3, <3>1, <4>1, NewlineFacts
        <4> QED
          BY <1>3, <2>1, <3>1, <4>1, <4>2
      <3>2. CASE Newline(pos) # 0
        BY <1>3, <2>1, <3>2, NewlineFacts
      <3> QED
        BY <3>1, <3>2
    <2>5. WholeLines'
      BY <1>1, <1>2, <1>3, <2>1, <2>2, <2>4 DEF WholeLines
    <2>6. Forward' /\ Accounted'
      BY <1>2, <1>3, <2>1, <2>2 DEF Forward, Accounted
    <2>7. OneRead'
      <3> SUFFICES ASSUME Len(file) <= ReadCap
                   PROVE  from' = 1 /\ to' = Len(file) /\ pos' = Len(file) + 1 /\ chunks' = {}
        BY <1>1, <2>1 DEF OneRead
      <3>1. from = 1 /\ to = Len(file) /\ pos = Len(file) + 1 /\ chunks = {}
        BY <1>3, <2>1 DEF OneRead
      <3>2. Newline(pos) = 0
        BY <1>3, <3>1, NewlineFacts
      <3> QED
        BY <2>1, <3>1, <3>2
    <2> QED
      BY <2>1, <2>3, <2>5, <2>6, <2>7 DEF ChunkInv, Stages
  <1>7. CASE AppendLine
    <2>1. /\ stage = "ahead" /\ stage' = "ahead" /\ UNCHANGED <<from, chunks>>
          /\ Reading /\ Reading' /\ pos \in Bytes
          /\ Newline(pos) # 0 /\ to' = Newline(pos) /\ pos' = Newline(pos) + 1
      BY <1>7 DEF AppendLine, Continues, Reading
    <2>2. /\ to' \in Bytes /\ from \in Bytes /\ from <= to' /\ pos' = to' + 1
          /\ file[to'] = "n" /\ pos' \in 1 .. Len(file) + 1
      BY <1>3, <2>1, NewlineFacts DEF Forward
    <2>3. Types'
      BY <1>1, <1>2, <1>3, <2>1, <2>2 DEF Types, Bytes
    <2>4. WholeLines'
      BY <1>1, <1>2, <1>3, <2>1, <2>2 DEF WholeLines
    <2>5. Forward' /\ Accounted'
      BY <1>2, <1>3, <2>1, <2>2 DEF Forward, Accounted
    <2>6. OneRead'
      BY <1>1, <1>3, <2>1, <2>2 DEF OneRead
    <2> QED
      BY <2>1, <2>3, <2>4, <2>5, <2>6 DEF ChunkInv, Stages
  <1>8. CASE CutOff
    <2> DEFINE new == <<from, to>>
    <2>1. /\ stage = "ahead" /\ stage' = "read" /\ UNCHANGED <<from, to>>
          /\ Reading /\ ~Reading' /\ ~Continues
          /\ pos' = IF Newline(pos) = 0 THEN Len(file) + 1 ELSE Newline(pos) + 1
          /\ chunks' = chunks \cup {new}
      BY <1>8 DEF CutOff, Reading
    <2>2. /\ from \in Bytes /\ to \in Bytes /\ from <= to /\ to < pos
          /\ pos' \in 1 .. Len(file) + 1 /\ pos <= pos'
          /\ new \in Bytes \X Bytes /\ new[1] = from /\ new[2] = to
      BY <1>3, <2>1, NewlineFacts DEF Forward
    <2>3. Types'
      BY <1>1, <1>2, <1>3, <2>1, <2>2 DEF Types, Bytes
    <2>4. Terminated => pos = to + 1 /\ file[to] = "n"
      BY <1>3, <2>1 DEF WholeLines
    <2>5. Terminated => to = Len(file) \/ (file[to] = "n" /\ file[to + 1] # "t")
      \* Nothing continues the last line, and it is not the end of the file that
      \* hides what does.
      <3> SUFFICES ASSUME Terminated, to # Len(file) PROVE file[to] = "n" /\ file[to + 1] # "t"
        OBVIOUS
      <3>1. pos \in Bytes /\ pos = to + 1 /\ file[to] = "n"
        BY <1>3, <2>2, <2>4
      <3>2. file[Len(file)] = "n" /\ Len(file) \in Bytes
        BY <1>3, <2>2 DEF Terminated
      <3>3. Newline(pos) # 0
        BY <1>3, <3>1, <3>2, NewlineFacts
      <3> QED
        BY <2>1, <3>1, <3>3 DEF Continues
    <2>6. pos' \in Bytes => Line(pos')
      <3>1. pos' \in Bytes => Newline(pos) # 0 /\ pos' = Newline(pos) + 1
        BY <1>3, <2>1
      <3> QED
        BY <1>3, <3>1, NewlineFacts DEF Line
    <2>7. WholeLines'
      <3>1. stage' = "read" /\ pos' \in Bytes' => (Line(pos))'
        BY <1>1, <1>2, <2>6 DEF Line
      <3>2. \A c \in chunks' :
              /\ Line(c[1])
              /\ Terminated => c[2] = Len(file) \/ (file[c[2]] = "n" /\ file[c[2] + 1] # "t")
        BY <1>3, <2>1, <2>2, <2>5 DEF WholeLines
      <3> QED
        BY <1>1, <1>2, <2>1, <3>1, <3>2 DEF WholeLines
    <2>8. Forward'
      <3>1. \A c \in chunks : c[1] <= c[2] /\ c[2] < from
        BY <1>3, <2>1 DEF Forward
      <3>2. \A c \in chunks' : c[1] <= c[2] /\ c[2] < pos'
        BY <1>3, <2>1, <2>2, <2>3, <3>1
      <3>3. \A c, d \in chunks' : c # d => c[2] < d[1] \/ d[2] < c[1]
        BY <1>3, <2>1, <2>2, <3>1 DEF Forward
      <3> QED
        BY <2>1, <3>2, <3>3 DEF Forward
    <2>9. Accounted'
      <3> SUFFICES ASSUME Terminated, NEW p \in Bytes, Line(p), p < pos'
                   PROVE  \E c \in chunks' : p \in c[1] .. c[2] \/ p = c[2] + 1
        BY <1>2, <2>1 DEF Accounted
      <3>1. CASE p < from
        BY <1>3, <2>1, <3>1 DEF Accounted
      <3>2. CASE from <= p /\ p <= to
        BY <1>3, <2>1, <2>2, <3>2
      <3>3. CASE to < p
        \* Only the line read to look ahead is passed by, and it has no other
        \* start than its first byte.
        <4>1. pos = to + 1 /\ pos <= p
          BY <1>3, <2>2, <2>4, <3>3
        <4>2. pos # p => file[p - 1] = "n" /\ p - 1 \in Bytes /\ p - 1 >= pos
          BY <1>3, <2>2, <3>3, <4>1 DEF Line
        <4>3. p = pos
          <5>1. CASE Newline(pos) = 0
            BY <1>3, <4>2, <5>1, NewlineFacts
          <5>2. CASE Newline(pos) # 0
            <6>1. p - 1 < Newline(pos) /\ Newline(pos) \in Bytes
              BY <1>3, <2>1, <5>2, NewlineFacts
            <6> QED
              BY <1>3, <4>2, <5>2, <6>1, NewlineFacts
          <5> QED
            BY <5>1, <5>2
        <4> QED
          BY <2>1, <2>2, <4>1, <4>3
      <3> QED
        BY <1>3, <2>2, <3>1, <3>2, <3>3
    <2>10. OneRead'
      <3> SUFFICES ASSUME Len(file) <= ReadCap
                   PROVE  pos' = Len(file) + 1 /\ chunks' = {<<1, Len(file)>>}
        BY <1>1, <2>1 DEF OneRead
      <3>1. from = 1 /\ to = Len(file) /\ pos = Len(file) + 1 /\ chunks = {}
        BY <1>3, <2>1 DEF OneRead
      <3>2. Newline(pos) = 0
        BY <1>3, <3>1, NewlineFacts
      <3> QED
        BY <2>1, <3>1, <3>2
    <2> QED
      BY <2>1, <2>3, <2>7, <2>8, <2>9, <2>10 DEF ChunkInv, Stages
  <1> QED
    BY <1>4, <1>5, <1>6, <1>7, <1>8 DEF Next
-----------------------------------------------------------------------------
(* Records.                                                                  *)

\* The lines that end a record which begins at p in the bytes a .. b.
Enders(a, b, p) == {q \in LineStarts(a, b) : q > p /\ file[q] # "t"}

LEMMA RecordEndFacts ==
  ASSUME NEW a \in Nat, NEW b \in Nat, NEW p \in Nat
  PROVE  /\ Enders(a, b, p) = {} => RecordEnd(a, b, p) = b
         /\ Enders(a, b, p) # {} =>
              /\ RecordEnd(a, b, p) + 1 \in Enders(a, b, p)
              /\ \A q \in Enders(a, b, p) : RecordEnd(a, b, p) + 1 <= q
  <1>1. CASE Enders(a, b, p) = {}
    BY <1>1 DEF Enders, RecordEnd
  <1>2. CASE Enders(a, b, p) # {}
    <2>1. Enders(a, b, p) \in SUBSET Nat
      BY DEF Enders, LineStarts
    <2>2. /\ Min(Enders(a, b, p)) \in Enders(a, b, p)
          /\ \A q \in Enders(a, b, p) : Min(Enders(a, b, p)) <= q
      BY <1>2, <2>1, MinFacts
    <2>3. RecordEnd(a, b, p) = Min(Enders(a, b, p)) - 1
      BY <1>2 DEF Enders, RecordEnd
    <2>4. RecordEnd(a, b, p) + 1 = Min(Enders(a, b, p))
      BY <2>1, <2>2, <2>3
    <2> QED
      BY <1>2, <2>2, <2>4
  <1> QED
    BY <1>1, <1>2

\* A chunk that begins with a line and that nothing continues.
Clean(a, b) ==
    /\ a \in Bytes /\ b \in Bytes /\ a <= b /\ Line(a)
    /\ b = Len(file) \/ (file[b] = "n" /\ file[b + 1] # "t")

\* The lines of a chunk are lines of the file, and it continues none of them
\* beyond its end.
LEMMA ChunkLines ==
  ASSUME Types, NEW a, NEW b, Clean(a, b), NEW p \in a .. b
  PROVE  p \in LineStarts(a, b) <=> p \in LineStarts(1, Len(file))
  BY DEF Clean, Bytes, Types, Line, LineStarts

LEMMA ChunkRecordEnd ==
  ASSUME Types, NEW a, NEW b, Clean(a, b), NEW p \in a .. b
  PROVE  RecordEnd(a, b, p) = RecordEnd(1, Len(file), p)
  <1> DEFINE A == Enders(a, b, p)
             F == Enders(1, Len(file), p)
             ea == RecordEnd(a, b, p)
             ef == RecordEnd(1, Len(file), p)
  <1>1. /\ Len(file) \in Nat /\ a \in Nat /\ b \in Nat /\ p \in Nat /\ a >= 1
        /\ a <= p /\ p <= b /\ b <= Len(file)
    BY DEF Clean, Bytes, Types
  <1>2. \A q : q \in A <=> q \in F /\ q <= b
    <2>1. \A q \in a .. b : q \in LineStarts(a, b) <=> q \in LineStarts(1, Len(file))
      BY ChunkLines
    <2>2. \A q \in LineStarts(a, b) : q \in a .. b
      BY DEF LineStarts
    <2>3. \A q \in LineStarts(1, Len(file)) : q > p /\ q <= b => q \in a .. b
      BY <1>1 DEF LineStarts
    <2> QED
      BY <1>1, <2>1, <2>2, <2>3 DEF Enders
  <1>3. F \subseteq 1 .. Len(file)
    BY DEF Enders, LineStarts
  <1>4. b # Len(file) => b + 1 \in F
    <2> SUFFICES ASSUME b # Len(file) PROVE b + 1 \in F
      OBVIOUS
    <2>1. file[b] = "n" /\ file[b + 1] # "t" /\ b + 1 \in 1 .. Len(file) /\ b + 1 - 1 = b
      BY <1>1 DEF Clean
    <2> QED
      BY <1>1, <2>1 DEF Enders, LineStarts
  <1>5. A = {} => ea = b
    BY <1>1, RecordEndFacts
  <1>6. A # {} => ea + 1 \in A /\ \A q \in A : ea + 1 <= q
    BY <1>1, RecordEndFacts
  <1>7. F = {} => ef = Len(file)
    BY <1>1, RecordEndFacts
  <1>8. F # {} => ef + 1 \in F /\ \A q \in F : ef + 1 <= q
    BY <1>1, RecordEndFacts
  <1>9. ea \in Int /\ ef \in Int
    <2>1. \A S : S \subseteq Nat /\ S # {} => Min(S) \in S
      BY MinFacts
    <2>2. A \subseteq Nat /\ F \subseteq Nat
      BY <1>1 DEF Enders, LineStarts
    <2>3. A # {} => ea = Min(A) - 1
      BY DEF Enders, RecordEnd
    <2>4. F # {} => ef = Min(F) - 1
      BY DEF Enders, RecordEnd
    <2> QED
      BY <1>1, <1>5, <1>7, <2>1, <2>2, <2>3, <2>4, SMTT(40)
  <1> HIDE DEF A, F, ea, ef
  <1>10. CASE A # {}
    <2>1. ea + 1 \in F /\ ea + 1 <= b
      BY <1>2, <1>6, <1>10
    <2>2. ef + 1 \in F /\ ef + 1 <= ea + 1
      BY <1>8, <2>1
    <2>3. ef + 1 \in A
      BY <1>1, <1>2, <1>9, <2>1, <2>2
    <2>4. ea + 1 <= ef + 1
      BY <1>6, <2>3
    <2> QED
      BY <1>9, <2>2, <2>4 DEF ea, ef
  <1>11. CASE A = {} /\ F = {}
    BY <1>4, <1>5, <1>7, <1>11 DEF ea, ef
  <1>12. CASE A = {} /\ F # {}
    <2>1. ef + 1 \in F /\ ~(ef + 1 <= b)
      BY <1>2, <1>8, <1>12
    <2>2. b # Len(file) /\ b + 1 \in F
      BY <1>1, <1>3, <1>4, <1>9, <2>1
    <2>3. ef + 1 <= b + 1
      BY <1>8, <2>2
    <2> QED
      BY <1>1, <1>5, <1>9, <1>12, <2>1, <2>3 DEF ea, ef
  <1> QED
    BY <1>10, <1>11, <1>12

\* What Parse makes of a clean chunk are the records of the file that begin
\* in it.
LEMMA ChunkRecords ==
  ASSUME Types, NEW a, NEW b, Clean(a, b)
  PROVE  Parsed(a, b) = {r \in AllRecords : r[1] \in a .. b}
  <1>1. ASSUME NEW r \in Parsed(a, b) PROVE r \in AllRecords /\ r[1] \in a .. b
    <2>1. PICK p \in LineStarts(a, b) : file[p] = "x" /\ r = <<p, RecordEnd(a, b, p)>>
      BY DEF Parsed
    <2>2. p \in a .. b
      BY DEF LineStarts
    <2>3. p \in LineStarts(1, Len(file)) /\ r = <<p, RecordEnd(1, Len(file), p)>>
      BY <2>1, <2>2, ChunkLines, ChunkRecordEnd
    <2> QED
      BY <2>1, <2>2, <2>3 DEF AllRecords, Parsed
  <1>2. ASSUME NEW r \in AllRecords, r[1] \in a .. b PROVE r \in Parsed(a, b)
    <2>1. PICK p \in LineStarts(1, Len(file)) :
            file[p] = "x" /\ r = <<p, RecordEnd(1, Len(file), p)>>
      BY DEF Parsed, AllRecords
    <2>2. p \in a .. b
      BY <1>2, <2>1
    <2>3. p \in LineStarts(a, b) /\ r = <<p, RecordEnd(a, b, p)>>
      BY <2>1, <2>2, ChunkLines, ChunkRecordEnd
    <2> QED
      BY <2>1, <2>3 DEF Parsed
  <1> QED
    BY <1>1, <1>2
-----------------------------------------------------------------------------
LEMMA ChunkAlways == Spec => []ChunkInv
  BY ChunkInit, ChunkStep, PTL DEF Spec

LEMMA ChunksClean ==
  ASSUME ChunkInv, Terminated, NEW c \in chunks
  PROVE  Clean(c[1], c[2]) /\ Parsed(c[1], c[2]) = {r \in AllRecords : r[1] \in c[1] .. c[2]}
  <1>1. Clean(c[1], c[2])
    BY DEF ChunkInv, Types, WholeLines, Forward, Clean
  <1> QED
    BY <1>1, ChunkRecords DEF ChunkInv

LEMMA WholeFromInv == ChunkInv => RecordsWhole
  <1> SUFFICES ASSUME ChunkInv PROVE RecordsWhole
    OBVIOUS
  <1>1. \A c, d \in chunks : c # d => c[2] < d[1] \/ d[2] < c[1]
    BY DEF ChunkInv, Forward
  <1>2. Terminated => ParsedRecords \subseteq AllRecords
    BY ChunksClean DEF ParsedRecords
  <1> QED
    BY <1>1, <1>2 DEF RecordsWhole

LEMMA OneLostFromInv == ChunkInv => OneLostPerChunk
  <1> SUFFICES ASSUME ChunkInv, stage = "done", chunks # {}
               PROVE  /\ Len(file) <= ReadCap => ParsedRecords = AllRecords
                      /\ Terminated =>
                           \A r \in AllRecords \ ParsedRecords :
                             \E c \in chunks : r[1] = c[2] + 1
    BY DEF OneLostPerChunk
  <1>1. ASSUME Len(file) <= ReadCap PROVE ParsedRecords = AllRecords
    <2>1. chunks = {<<1, Len(file)>>}
      BY <1>1 DEF ChunkInv, OneRead
    <2> QED
      BY <2>1 DEF ParsedRecords, AllRecords
  <1>2. ASSUME Terminated, NEW r \in AllRecords, r \notin ParsedRecords
        PROVE  \E c \in chunks : r[1] = c[2] + 1
    <2>1. r[1] \in LineStarts(1, Len(file))
      BY DEF AllRecords, Parsed
    <2>2. r[1] \in Bytes /\ Line(r[1]) /\ r[1] < Len(file) + 1
      BY <2>1 DEF ChunkInv, Types, LineStarts, Bytes, Line
    <2>3. pos = Len(file) + 1 /\ ~Reading
      BY DEF ChunkInv, Stages, Reading
    <2>4. PICK c \in chunks : r[1] \in c[1] .. c[2] \/ r[1] = c[2] + 1
      BY <1>2, <2>2, <2>3 DEF ChunkInv, Accounted
    <2>5. r[1] \notin c[1] .. c[2]
      BY <1>2, ChunksClean DEF ParsedRecords
    <2> QED
      BY <2>4, <2>5
  <1> QED
    BY <1>1, <1>2

\* No record is torn or parsed twice, and at most the record right after a
\* chunk is missing: ProcessHelper.Process (fastrunner.go:170-226), which reads
\* on to the end of a line and over the lines that continue it (194-208) and
\* drops the line it looked ahead to.
THEOREM RecordsKeptHolds == Spec => []RecordsKept
  <1>1. ChunkInv => RecordsKept
    BY WholeFromInv, OneLostFromInv DEF RecordsKept
  <1> QED
    BY <1>1, ChunkAlways, PTL
=============================================================================
