------------------------------ MODULE RowsProofs ------------------------------
(***************************************************************************)
(* The rows on their way in and out, for files, names and tables of any    *)
(* size: the parser finds the records of the file, however they nest; a    *)
(* name once matched stays matched while it is typed; and retrieval misses *)
(* an open business only behind more closed ones than its over-fetch.      *)
(***************************************************************************)
EXTENDS Parser, NameMatch, Retrieval, TLAPS, FiniteSetTheorems, FunctionTheorems, SequenceTheorems

\* The positions of the braces among open brackets.
Braces(s) == {k \in 1..Len(s) : s[k] = "lbrace"}

\* A record starts with a brace, not past the last one, and strings are inside of records.
FileShape ==
  /\ Inside => open[1] = "lbrace" /\ written < MaxRecords
  /\ ~Inside => text = "none"

\* The parser's depth counts the open braces, its flags are the state of the string.
InStep ==
  at = "object" =>
    /\ inString <=> text # "none"
    /\ escape <=> text = "escape"
    /\ depth = Cardinality(Braces(open))

FileInv == TypeOK /\ FileShape /\ InStep /\ RecordsAsWritten /\ TruncationNoticed

\* One more bracket adds itself to the braces, or nothing.
LEMMA BracesGrow ==
  ASSUME NEW s, NEW t, NEW n \in Nat, Len(s) = n, Len(t) = n + 1,
         \A k \in 1..n : t[k] = s[k]
  PROVE  /\ Cardinality(Braces(s)) \in Nat /\ Cardinality(Braces(t)) \in Nat
         /\ t[n + 1] = "lbrace" => Cardinality(Braces(t)) = Cardinality(Braces(s)) + 1
         /\ t[n + 1] # "lbrace" => Cardinality(Braces(t)) = Cardinality(Braces(s))
  <1> DEFINE S == Braces(s)
             T == Braces(t)
  <1>1. S = {k \in 1..n : s[k] = "lbrace"} /\ T = {k \in 1..n+1 : t[k] = "lbrace"}
    BY DEF Braces
  <1>2. IsFiniteSet(S)
    <2>1. IsFiniteSet(1..n)
      BY FS_Interval
    <2>2. S \subseteq 1..n
      BY <1>1
    <2> QED
      BY <2>1, <2>2, FS_Subset
  <1>3. n + 1 \notin S
    BY <1>1
  <1>4. Cardinality(S) \in Nat
    BY <1>2, FS_CardinalityType
  <1>5. CASE t[n + 1] = "lbrace"
    <2> HIDE DEF S, T
    <2>1. ASSUME NEW k PROVE k \in T <=> k \in S \/ k = n + 1
      BY <1>1, <1>5
    <2>2. T = S \cup {n + 1}
      BY <2>1
    <2>3. Cardinality(T) = Cardinality(S) + 1
      BY <1>2, <1>3, <2>2, FS_AddElement
    <2> QED
      BY <1>4, <1>5, <2>3 DEF S, T
  <1>6. CASE t[n + 1] # "lbrace"
    <2> HIDE DEF S, T
    <2>1. ASSUME NEW k PROVE k \in T <=> k \in S
      BY <1>1, <1>6
    <2>2. T = S
      BY <2>1
    <2> QED
      BY <1>4, <1>6, <2>2 DEF S, T
  <1> QED
    BY <1>5, <1>6

\* An opened bracket is the last one.
LEMMA PushedLast ==
  ASSUME NEW S, NEW s \in Seq(S), NEW b \in S
  PROVE  LET t == Append(s, b)
         IN /\ t \in Seq(S) /\ Len(t) = Len(s) + 1 /\ Len(s) \in Nat
            /\ \A k \in 1..Len(s) : t[k] = s[k]
            /\ t[Len(s) + 1] = b
            /\ t # <<>>
            /\ s # <<>> => t[1] = s[1]
            /\ s = <<>> => t[1] = b
  <1> DEFINE t == Append(s, b)
  <1>1. t \in Seq(S) /\ Len(t) = Len(s) + 1 /\ Len(s) \in Nat /\ t # <<>>
    BY AppendProperties, LenProperties
  <1>2. (\A k \in 1..Len(s) : t[k] = s[k]) /\ t[Len(s) + 1] = b
    BY AppendProperties
  <1>3. s # <<>> => 1 \in 1..Len(s)
    BY EmptySeq
  <1>4. s = <<>> => Len(s) + 1 = 1
    BY EmptySeq
  <1> HIDE DEF t
  <1>5. (s # <<>> => t[1] = s[1]) /\ (s = <<>> => t[1] = b)
    BY <1>2, <1>3, <1>4
  <1> QED
    BY <1>1, <1>2, <1>5 DEF t

\* A closed bracket was the last one.
LEMMA PoppedRest ==
  ASSUME NEW S, NEW s \in Seq(S), s # <<>>
  PROVE  LET t == SubSeq(s, 1, Len(s) - 1)
         IN /\ Len(s) - 1 \in Nat /\ t \in Seq(S) /\ Len(t) = Len(s) - 1
            /\ \A k \in 1..Len(s) - 1 : t[k] = s[k]
            /\ t = <<>> <=> Len(s) = 1
            /\ t # <<>> => t[1] = s[1]
  <1> DEFINE t == SubSeq(s, 1, Len(s) - 1)
  <1>1. Len(s) - 1 \in Nat /\ Len(s) \in Nat
    BY EmptySeq
  <1>2. \A k \in 1..Len(s) - 1 : s[k] \in S
    BY <1>1, ElementOfSeq
  <1>3. t \in Seq(S) /\ Len(t) = Len(s) - 1 /\ \A k \in 1..Len(s) - 1 : t[k] = s[k]
    <2> DEFINE m == Len(s) - 1
    <2>1. m \in Int /\ m \in Nat /\ \A k \in 1..m : s[k] \in S
      BY <1>1, <1>2
    <2> HIDE DEF m
    <2>2. /\ SubSeq(s, 1, m) \in Seq(S)
          /\ Len(SubSeq(s, 1, m)) = IF 1 <= m THEN m - 1 + 1 ELSE 0
          /\ \A k \in 1..m - 1 + 1 : SubSeq(s, 1, m)[k] = s[1 + k - 1]
      BY <2>1, SubSeqProperties
    <2>3. Len(SubSeq(s, 1, m)) = m /\ \A k \in 1..m : SubSeq(s, 1, m)[k] = s[k]
      BY <2>1, <2>2
    <2> QED
      BY <2>2, <2>3 DEF m
  <1> HIDE DEF t
  <1>4. t = <<>> <=> Len(s) = 1
    BY <1>1, <1>3, EmptySeq
  <1>5. t # <<>> => t[1] = s[1]
    BY <1>1, <1>3, <1>4
  <1> QED
    BY <1>1, <1>3, <1>4, <1>5 DEF t

\* Nothing is left of a record's braces only when its first one closes.
LEMMA NoBraces ==
  ASSUME NEW S, NEW s \in Seq(S), s # <<>> => s[1] = "lbrace"
  PROVE  Cardinality(Braces(s)) \in Nat /\ (Cardinality(Braces(s)) = 0 <=> s = <<>>)
  <1>1. Len(s) \in Nat /\ (s # <<>> => 1 \in 1..Len(s)) /\ (s = <<>> => 1..Len(s) = {})
    BY EmptySeq
  <1>2. IsFiniteSet(Braces(s))
    <2>1. IsFiniteSet(1..Len(s))
      BY <1>1, FS_Interval
    <2>2. Braces(s) \subseteq 1..Len(s)
      BY DEF Braces
    <2> QED
      BY <2>1, <2>2, FS_Subset
  <1>3. Braces(s) = {} <=> s = <<>>
    BY <1>1 DEF Braces
  <1> QED
    BY <1>2, <1>3, FS_EmptySet, FS_CardinalityType

\* Before the first byte nothing is open.
LEMMA InitFileInv == Init => FileInv
  <1> SUFFICES ASSUME Init PROVE FileInv
    OBVIOUS
  <1>1. open \in Seq(Brackets) /\ Len(open) <= MaxOpen
    BY ParserAssumption, EmptySeq DEF Init
  <1>2. written \in 0..MaxRecords /\ depth \in Nat /\ yielded \in Nat
    BY ParserAssumption DEF Init
  <1>3. text \in {"none", "string", "escape"} /\ at \in {"between", "object", "eof", "error"}
    BY DEF Init
  <1>4. inString \in BOOLEAN /\ escape \in BOOLEAN
    BY DEF Init
  <1>5. TypeOK
    BY <1>1, <1>2, <1>3, <1>4 DEF TypeOK
  <1>6. FileShape /\ InStep /\ RecordsAsWritten /\ TruncationNoticed
    BY DEF Init, FileShape, InStep, RecordsAsWritten, TruncationNoticed, Inside
  <1> QED
    BY <1>5, <1>6 DEF FileInv

\* A byte of a string moves nothing but the flags.
LEMMA StringStep ==
  ASSUME FileInv, NEW b \in Bytes, StringByte(b), Read(b)
  PROVE  FileInv'
  <1>1. at = "object" /\ inString
    BY DEF FileInv, InStep, StringByte, Read
  <1>2. depth' = depth /\ ~Closes(b) /\ at' = at /\ yielded' = yielded
    BY <1>1 DEF FileInv, TypeOK, Read, consume, Closes
  <1>3. UNCHANGED <<open, written>>
    BY DEF StringByte
  <1>4. inString' \in BOOLEAN /\ escape' \in BOOLEAN
    BY DEF Read, consume
  <1>5. text' \in {"none", "string", "escape"}
    BY DEF StringByte
  <1>6. TypeOK'
    BY <1>2, <1>3, <1>4, <1>5 DEF FileInv, TypeOK
  <1>7. FileShape' /\ RecordsAsWritten' /\ TruncationNoticed'
    BY <1>1, <1>2, <1>3
    DEF FileInv, FileShape, RecordsAsWritten, TruncationNoticed, Inside
  <1>8. inString' <=> text' # "none"
    BY <1>1 DEF FileInv, InStep, TypeOK, StringByte, Read, consume
  <1>9. escape' <=> text' = "escape"
    BY <1>1 DEF FileInv, InStep, TypeOK, StringByte, Read, consume
  <1>10. InStep'
    BY <1>1, <1>2, <1>3, <1>8, <1>9 DEF FileInv, InStep
  <1> QED
    BY <1>6, <1>7, <1>10 DEF FileInv

\* What the parser makes of a byte of an object outside of strings.
LEMMA OutsideStrings ==
  ASSUME FileInv, NEW b \in Bytes, ValueByte(b), Read(b)
  PROVE  /\ at = "object" /\ text = "none" /\ Inside /\ open[1] = "lbrace"
         /\ open \in Seq(Brackets) /\ depth = Cardinality(Braces(open)) /\ depth \in Nat
         /\ escape' = FALSE /\ (inString' <=> b = "quote")
         /\ b = "lbrace" => depth' = depth + 1
         /\ b = "rbrace" => depth' = depth - 1
         /\ b \notin {"lbrace", "rbrace"} => depth' = depth
         /\ Closes(b) <=> b = "rbrace" /\ depth' = 0
         /\ Closes(b) => at' = "between" /\ yielded' = yielded + 1
         /\ ~Closes(b) => at' = "object" /\ yielded' = yielded
         /\ escape' \in BOOLEAN /\ inString' \in BOOLEAN
  <1>1. at = "object" /\ text = "none" /\ Inside /\ open[1] = "lbrace"
    BY DEF FileInv, FileShape, ValueByte, Read
  <1>2. inString = FALSE /\ escape = FALSE
    <2>1. inString \in BOOLEAN /\ escape \in BOOLEAN
      BY DEF FileInv, TypeOK
    <2>2. ~inString /\ ~escape
      BY <1>1 DEF FileInv, InStep
    <2> QED
      BY <2>1, <2>2
  <1>3. open \in Seq(Brackets) /\ depth = Cardinality(Braces(open)) /\ depth \in Nat
    BY <1>1 DEF FileInv, TypeOK, InStep
  <1>4. escape' = FALSE
    BY <1>2 DEF Read, consume
  <1>5. inString' <=> b = "quote"
    <2>1. inString' = (FALSE # (b = "quote"))
      BY <1>2 DEF Read, consume
    <2> QED
      BY <2>1
  <1>6. /\ b = "lbrace" => depth' = depth + 1
        /\ b = "rbrace" => depth' = depth - 1
        /\ b \notin {"lbrace", "rbrace"} => depth' = depth
    BY <1>2, <1>3 DEF Read, consume
  <1>7. Closes(b) <=> b = "rbrace" /\ depth' = 0
    BY <1>2 DEF Closes
  <1>8. /\ Closes(b) => at' = "between" /\ yielded' = yielded + 1
        /\ ~Closes(b) => at' = "object" /\ yielded' = yielded
    BY <1>1 DEF Read
  <1>9. escape' \in BOOLEAN /\ inString' \in BOOLEAN
    BY DEF Read, consume
  <1> QED
    BY <1>1, <1>3, <1>4, <1>5, <1>6, <1>7, <1>8, <1>9

\* An opened bracket in an object.
LEMMA OpensStep ==
  ASSUME FileInv, NEW b \in Bytes, ValueByte(b), Read(b), Opens(b)
  PROVE  FileInv'
  <1>1. b \in Brackets /\ open' = Append(open, b) /\ Len(open) < MaxOpen /\ UNCHANGED <<text, written>>
    BY DEF Opens, Pushed
  <1>2. b # "quote" /\ b # "rbrace"
    BY <1>1 DEF Brackets
  <1>3. /\ open' \in Seq(Brackets) /\ Len(open') = Len(open) + 1 /\ Len(open) \in Nat
        /\ \A k \in 1..Len(open) : open'[k] = open[k]
        /\ open'[Len(open) + 1] = b
        /\ open' # <<>> /\ open'[1] = "lbrace"
    <2>1. open \in Seq(Brackets) /\ open # <<>> /\ open[1] = "lbrace"
      BY OutsideStrings DEF Inside
    <2>2. open' = Append(open, b) /\ b \in Brackets
      BY <1>1
    <2> QED
      BY <2>1, <2>2, PushedLast
  <1>4. /\ b = "lbrace" => Cardinality(Braces(open')) = Cardinality(Braces(open)) + 1
        /\ b # "lbrace" => Cardinality(Braces(open')) = Cardinality(Braces(open))
    BY <1>3, BracesGrow
  <1>5. depth' = Cardinality(Braces(open')) /\ depth' \in Nat
    <2>1. depth = Cardinality(Braces(open)) /\ depth \in Nat
      BY OutsideStrings
    <2>2. CASE b = "lbrace"
      <3>1. depth' = depth + 1
        BY <2>2, OutsideStrings
      <3> QED
        BY <1>4, <2>1, <2>2, <3>1
    <2>3. CASE b # "lbrace"
      <3>1. depth' = depth
        BY <1>2, <2>3, OutsideStrings
      <3> QED
        BY <1>4, <2>1, <2>3, <3>1
    <2> QED
      BY <2>2, <2>3
  <1>6. at' = "object" /\ yielded' = yielded /\ ~inString' /\ ~escape' /\ text' = "none"
    BY <1>1, <1>2, OutsideStrings
  <1>7. Len(open') <= MaxOpen
    BY <1>1, <1>3, ParserAssumption
  <1>8. TypeOK'
    <2>1. written' \in 0..MaxRecords /\ yielded' \in Nat
      BY <1>1, <1>6 DEF FileInv, TypeOK
    <2>2. inString' \in BOOLEAN /\ escape' \in BOOLEAN
      BY OutsideStrings
    <2>3. text' \in {"none", "string", "escape"} /\ at' \in {"between", "object", "eof", "error"}
      BY <1>6
    <2> QED
      BY <1>3, <1>5, <1>7, <2>1, <2>2, <2>3 DEF TypeOK
  <1>9. InStep'
    BY <1>5, <1>6 DEF InStep
  <1>10. yielded' = written' /\ written' < MaxRecords
    BY <1>1, <1>6, OutsideStrings DEF FileInv, FileShape, RecordsAsWritten
  <1>11. FileShape' /\ RecordsAsWritten' /\ TruncationNoticed'
    BY <1>3, <1>6, <1>10 DEF FileShape, RecordsAsWritten, TruncationNoticed, Inside
  <1> QED
    BY <1>8, <1>9, <1>11 DEF FileInv

\* A closed bracket ends the record in the parser when it ends it in the file.
LEMMA EndsStep ==
  ASSUME FileInv, NEW b \in Bytes, ValueByte(b), Read(b), Ends(b)
  PROVE  FileInv'
  <1>1. /\ open' = SubSeq(open, 1, Len(open) - 1) /\ text' = text
        /\ written' = IF Len(open) = 1 THEN written + 1 ELSE written
    BY DEF Ends, Popped
  <1>2. /\ b # "quote" /\ b # "lbrace"
        /\ open[Len(open)] = "lbrace" <=> b = "rbrace"
    BY DEF Ends
  <1>3. /\ Len(open) - 1 \in Nat /\ Len(open) \in Nat
        /\ open' \in Seq(Brackets) /\ Len(open') = Len(open) - 1
        /\ \A k \in 1..Len(open) - 1 : open'[k] = open[k]
        /\ open' = <<>> <=> Len(open) = 1
        /\ open' # <<>> => open'[1] = "lbrace"
    <2>1. open \in Seq(Brackets) /\ open # <<>> /\ open[1] = "lbrace"
      BY OutsideStrings DEF Inside
    <2>2. Len(open) \in Nat
      BY <2>1, LenProperties
    <2> QED
      BY <1>1, <2>1, <2>2, PoppedRest
  <1>4. /\ Cardinality(Braces(open')) \in Nat
        /\ b = "rbrace" => Cardinality(Braces(open)) = Cardinality(Braces(open')) + 1
        /\ b # "rbrace" => Cardinality(Braces(open)) = Cardinality(Braces(open'))
    <2> DEFINE n == Len(open) - 1
    <2>1. n \in Nat /\ Len(open') = n /\ Len(open) = n + 1 /\ \A k \in 1..n : open'[k] = open[k]
      BY <1>3
    <2>2. Len(open) = n + 1
      BY <1>3
    <2> HIDE DEF n
    <2>3. /\ Cardinality(Braces(open')) \in Nat
          /\ open[n + 1] = "lbrace" => Cardinality(Braces(open)) = Cardinality(Braces(open')) + 1
          /\ open[n + 1] # "lbrace" => Cardinality(Braces(open)) = Cardinality(Braces(open'))
      BY <2>1, BracesGrow
    <2> QED
      BY <1>2, <2>2, <2>3
  <1>5. depth' = Cardinality(Braces(open')) /\ depth' \in Nat
    <2>1. depth = Cardinality(Braces(open)) /\ depth \in Nat
      BY OutsideStrings
    <2>2. CASE b = "rbrace"
      <3>1. depth' = depth - 1
        BY <2>2, OutsideStrings
      <3> QED
        BY <1>4, <2>1, <2>2, <3>1
    <2>3. CASE b # "rbrace"
      <3>1. depth' = depth
        BY <1>2, <2>3, OutsideStrings
      <3> QED
        BY <1>4, <2>1, <2>3, <3>1
    <2> QED
      BY <2>2, <2>3
  <1>6. depth' = 0 <=> Len(open) = 1
    BY <1>3, <1>5, NoBraces
  <1>7. Len(open) = 1 => b = "rbrace"
    BY <1>2, OutsideStrings
  <1>8. Closes(b) <=> Len(open) = 1
    BY <1>6, <1>7, OutsideStrings
  <1>9. ~inString' /\ ~escape' /\ text' = "none"
    BY <1>1, <1>2, OutsideStrings
  <1>10. written \in Nat /\ written <= MaxRecords /\ yielded \in Nat /\ yielded = written
    BY ParserAssumption DEF FileInv, TypeOK, RecordsAsWritten
  <1>11. Len(open') <= MaxOpen
    BY <1>3, ParserAssumption DEF FileInv, TypeOK
  <1>12. CASE Len(open) = 1
    <2>1. at' = "between" /\ yielded' = yielded + 1 /\ written' = written + 1 /\ open' = <<>>
      BY <1>1, <1>3, <1>8, <1>12, OutsideStrings
    <2>2. written < MaxRecords
      BY OutsideStrings DEF FileInv, FileShape
    <2>3. written' \in 0..MaxRecords /\ yielded' \in Nat
      BY <1>10, <2>1, <2>2, ParserAssumption
    <2>4. inString' \in BOOLEAN /\ escape' \in BOOLEAN
      BY OutsideStrings
    <2>5. text' \in {"none", "string", "escape"} /\ at' \in {"between", "object", "eof", "error"}
      BY <1>9, <2>1
    <2>6. TypeOK'
      BY <1>3, <1>5, <1>11, <2>3, <2>4, <2>5 DEF TypeOK
    <2> QED
      BY <1>9, <1>10, <2>1, <2>6
      DEF FileInv, FileShape, InStep, RecordsAsWritten, TruncationNoticed, Inside
  <1>13. CASE Len(open) # 1
    <2>1. at' = "object" /\ yielded' = yielded /\ written' = written /\ open' # <<>>
      BY <1>1, <1>3, <1>8, <1>13, OutsideStrings
    <2>2. written' \in 0..MaxRecords /\ yielded' \in Nat
      BY <2>1 DEF FileInv, TypeOK
    <2>3. inString' \in BOOLEAN /\ escape' \in BOOLEAN
      BY OutsideStrings
    <2>4. text' \in {"none", "string", "escape"} /\ at' \in {"between", "object", "eof", "error"}
      BY <1>9, <2>1
    <2>5. TypeOK'
      BY <1>3, <1>5, <1>11, <2>2, <2>3, <2>4 DEF TypeOK
    <2>6. InStep'
      BY <1>5, <1>9 DEF InStep
    <2> QED
      BY <1>3, <1>9, <1>10, <2>1, <2>5, <2>6
      DEF FileInv, FileShape, RecordsAsWritten, TruncationNoticed, Inside
  <1> QED
    BY <1>12, <1>13

\* A quote outside of strings, and a byte that only separates.
LEMMA QuietStep ==
  ASSUME FileInv, NEW b \in Bytes, ValueByte(b), Read(b),
         UNCHANGED <<open, written>>, b \notin {"lbrace", "rbrace"},
         text' = IF b = "quote" THEN "string" ELSE "none"
  PROVE  FileInv'
  <1>1. open' = open /\ written' = written /\ depth' = depth
    BY OutsideStrings
  <1>2. at' = "object" /\ yielded' = yielded
    BY OutsideStrings
  <1>3. inString' \in BOOLEAN /\ escape' \in BOOLEAN
    BY OutsideStrings
  <1>4. text' \in {"none", "string", "escape"} /\ at' \in {"between", "object", "eof", "error"}
    BY <1>2
  <1>5. TypeOK'
    BY <1>1, <1>2, <1>3, <1>4 DEF FileInv, TypeOK
  <1>6. (inString' <=> text' # "none") /\ (escape' <=> text' = "escape")
    BY OutsideStrings
  <1>7. depth' = Cardinality(Braces(open'))
    BY <1>1, OutsideStrings
  <1>8. InStep'
    BY <1>6, <1>7 DEF InStep
  <1>9. Inside' /\ FileShape'
    BY <1>1, OutsideStrings DEF FileInv, FileShape, Inside
  <1>10. RecordsAsWritten' /\ TruncationNoticed'
    BY <1>1, <1>2, <1>9 DEF FileInv, RecordsAsWritten, TruncationNoticed
  <1> QED
    BY <1>5, <1>8, <1>9, <1>10 DEF FileInv

\* The first brace of a record resets the parser inside of it.
LEMMA FirstStep ==
  ASSUME FileInv, NEW b \in Bytes, FirstByte(b), ReadFirst(b)
  PROVE  FileInv'
  <1>1. /\ open = <<>> /\ open' = Append(open, b) /\ b = "lbrace" /\ written < MaxRecords
        /\ UNCHANGED <<text, written>>
    BY DEF FirstByte, Inside, Pushed
  <1>2. at' = "object" /\ depth' = 1 /\ inString' = FALSE /\ escape' = FALSE /\ yielded' = yielded
    BY DEF ReadFirst
  <1>3. text = "none" /\ open \in Seq(Brackets)
    BY <1>1 DEF FileInv, TypeOK, FileShape, Inside
  <1>4. b \in Brackets /\ Len(open) = 0
    BY <1>1, EmptySeq DEF Brackets
  <1>5. /\ open' \in Seq(Brackets) /\ Len(open') = Len(open) + 1 /\ Len(open) \in Nat
        /\ \A k \in 1..Len(open) : open'[k] = open[k]
        /\ open'[Len(open) + 1] = b
        /\ open' # <<>> /\ open'[1] = "lbrace"
    BY <1>1, <1>3, <1>4, PushedLast
  <1>6. Cardinality(Braces(open')) = Cardinality(Braces(open)) + 1
    BY <1>1, <1>5, BracesGrow
  <1>7. Cardinality(Braces(open)) = 0
    BY <1>1, <1>3, NoBraces
  <1>8. depth' = Cardinality(Braces(open')) /\ depth' \in Nat
    BY <1>2, <1>6, <1>7
  <1>9. written' \in 0..MaxRecords /\ yielded' \in Nat /\ Len(open') <= MaxOpen
    BY <1>1, <1>2, <1>4, <1>5, ParserAssumption DEF FileInv, TypeOK
  <1>10. inString' \in BOOLEAN /\ escape' \in BOOLEAN
    BY <1>2
  <1>11. text' \in {"none", "string", "escape"} /\ at' \in {"between", "object", "eof", "error"}
    BY <1>1, <1>2, <1>3
  <1>12. TypeOK'
    BY <1>5, <1>8, <1>9, <1>10, <1>11 DEF TypeOK
  <1>13. InStep'
    BY <1>1, <1>2, <1>3, <1>8 DEF InStep
  <1>14. FileShape' /\ RecordsAsWritten' /\ TruncationNoticed'
    BY <1>1, <1>2, <1>3, <1>5
    DEF FileInv, FileShape, RecordsAsWritten, TruncationNoticed, Inside
  <1> QED
    BY <1>12, <1>13, <1>14 DEF FileInv

\* The parser reads an object exactly when the file is inside one.
LEMMA ObjectStep == FileInv /\ ObjectByte => FileInv'
  <1> SUFFICES ASSUME FileInv,
                      NEW b \in Bytes,
                      StringByte(b) \/ ValueByte(b) \/ FirstByte(b),
                      Read(b) \/ ReadFirst(b)
               PROVE  FileInv'
    BY DEF ObjectByte
  <1>1. CASE StringByte(b)
    <2>1. ~ReadFirst(b)
      BY <1>1 DEF FileInv, FileShape, RecordsAsWritten, StringByte, ReadFirst
    <2> QED
      BY <1>1, <2>1, StringStep
  <1>2. CASE ValueByte(b)
    <2>1. Read(b)
      BY <1>2 DEF FileInv, RecordsAsWritten, ValueByte, ReadFirst
    <2>2. CASE Opens(b)
      BY <1>2, <2>1, <2>2, OpensStep
    <2>3. CASE Ends(b)
      BY <1>2, <2>1, <2>3, EndsStep
    <2>4. CASE b = "quote" /\ text' = "string" /\ UNCHANGED <<open, written>>
      BY <1>2, <2>1, <2>4, QuietStep
    <2>5. CASE b \in {"comma", "letter"} /\ UNCHANGED file
      <3>1. UNCHANGED <<open, written>> /\ text' = "none" /\ b \notin {"lbrace", "rbrace", "quote"}
        BY <1>2, <2>5 DEF ValueByte, file
      <3> QED
        BY <1>2, <2>1, <3>1, QuietStep
    <2> QED
      BY <1>2, <2>2, <2>3, <2>4, <2>5 DEF ValueByte
  <1>3. CASE FirstByte(b)
    <2>1. ReadFirst(b)
      BY <1>3 DEF FileInv, RecordsAsWritten, FirstByte, Read
    <2> QED
      BY <1>3, <2>1, FirstStep
  <1> QED
    BY <1>1, <1>2, <1>3

\* A parser that stops for good leaves the rest as it was.
LEMMA StopStep ==
  ASSUME FileInv, UNCHANGED <<file, depth, inString, escape, yielded>>,
         at' \in {"eof", "error"}, at' = "eof" => ~Inside
  PROVE  FileInv'
  <1>1. /\ open' = open /\ text' = text /\ written' = written
        /\ depth' = depth /\ inString' = inString /\ escape' = escape /\ yielded' = yielded
    BY DEF file
  <1>2. TypeOK'
    BY <1>1 DEF FileInv, TypeOK
  <1>3. FileShape' /\ InStep'
    BY <1>1 DEF FileInv, FileShape, InStep, Inside
  <1>4. RecordsAsWritten' /\ TruncationNoticed'
    BY <1>1 DEF FileInv, FileShape, RecordsAsWritten, TruncationNoticed, Inside
  <1> QED
    BY <1>2, <1>3, <1>4 DEF FileInv

\* The invariant holds in every state.
LEMMA FileInvariance == Spec => []FileInv
  <1>1. FileInv /\ [Next]_<<file, parser>> => FileInv'
    <2> SUFFICES ASSUME FileInv, [Next]_<<file, parser>> PROVE FileInv'
      OBVIOUS
    <2>1. CASE ObjectByte
      BY <2>1, ObjectStep
    <2>2. CASE skipToObject
      <3>1. UNCHANGED <<file, depth, inString, escape, yielded>> /\ at' = "error"
        BY <2>2 DEF skipToObject
      <3> QED
        BY <3>1, StopStep
    <2>3. CASE Eof
      <3>1. UNCHANGED <<file, depth, inString, escape, yielded>> /\ at' \in {"eof", "error"}
        BY <2>3 DEF Eof
      <3>2. at' = "eof" => ~Inside
        BY <2>3 DEF Eof, FileInv, RecordsAsWritten
      <3> QED
        BY <3>1, <3>2, StopStep
    <2>4. CASE UNCHANGED <<file, parser>>
      BY <2>4 DEF FileInv, TypeOK, FileShape, InStep, RecordsAsWritten, TruncationNoticed, Inside,
                  file, parser
    <2> QED
      BY <2>1, <2>2, <2>3, <2>4 DEF Next
  <1> QED
    BY InitFileInv, <1>1, PTL DEF Spec

\* Every variable of the parser keeps its type (ingest/parser.go Parser).
THEOREM FileTypeCorrect == Spec => []TypeOK
  BY FileInvariance, PTL DEF FileInv

\* However records nest and whatever their strings hold, Next returns the file's records
\* one by one (ingest/parser.go consume).
THEOREM RecordsFound == Spec => []RecordsAsWritten
  BY FileInvariance, PTL DEF FileInv

\* A file cut off inside a record never passes for one that ended (ingest/parser.go readErr).
THEOREM TruncationFound == Spec => []TruncationNoticed
  BY FileInvariance, PTL DEF FileInv
-----------------------------------------------------------------------------
\* A query that goes on in order is a longer prefix, and as a set of words it covers no
\* less of the name than before.
WordByWord(qt, nt) == Len(qt) <= Len(nt) /\ \A k \in DOMAIN qt : Near(qt[k], nt[k])

NameTypeOK == name \in Seq(Words) /\ typed \in Seq(Words)
-----------------------------------------------------------------------------
\* A cover is a number of words of the name (migration 0003).
LEMMA CoverBounded ==
  ASSUME NEW qt \in Seq(Words), NEW nt \in Seq(Words)
  PROVE  /\ IsFiniteSet(Matched(nt, qt))
         /\ Cardinality(Matched(nt, qt)) \in Nat
         /\ lemon_name_match(qt, nt) \in Nat
<1>1. IsFiniteSet(1..Len(nt))
  BY FS_Interval
<1>2. Matched(nt, qt) \subseteq 1..Len(nt)
  BY DEF Matched
<1>3. IsFiniteSet(Matched(nt, qt))
  BY <1>1, <1>2, FS_Subset
<1>4. Cardinality(Matched(nt, qt)) \in Nat
  BY <1>3, FS_CardinalityType
<1> QED
  BY <1>3, <1>4 DEF lemon_name_match

\* A prefix that matches covers the words it has (migration 0010).
LEMMA PrefixBounded ==
  ASSUME NEW qt \in Seq(Words), NEW nt \in Seq(Words)
  PROVE  lemon_prefix_match(qt, nt) \in Nat
BY DEF lemon_prefix_match

\* One more word in order matches some word of the name, and takes no match from another.
LEMMA CoverGrows ==
  ASSUME NEW qt \in Seq(Words), NEW nt \in Seq(Words), NEW w \in Words,
         WordByWord(Append(qt, w), nt), lemon_name_match(qt, nt) > 0
  PROVE  lemon_name_match(Append(qt, w), nt) >= lemon_name_match(qt, nt)
<1> DEFINE more == Append(qt, w)
<1>1. /\ more \in Seq(Words) /\ Len(more) = Len(qt) + 1
      /\ \A m \in DOMAIN qt : m \in DOMAIN more /\ more[m] = qt[m]
  OBVIOUS
<1>2. Matched(more, nt) = DOMAIN more
  BY <1>1 DEF WordByWord, Matched
<1>3. Len(qt) >= CeilDiv(8 * Len(nt), 10)
  BY DEF lemon_name_match
<1>4. CeilDiv(8 * Len(nt), 10) \in Int
  BY DEF CeilDiv
<1>5. Len(more) >= CeilDiv(8 * Len(nt), 10)
  BY <1>1, <1>3, <1>4
<1>6. Matched(nt, qt) \subseteq Matched(nt, more)
  BY <1>1 DEF Matched
<1>7. IsFiniteSet(Matched(nt, more))
  BY <1>1, CoverBounded
<1>8. Cardinality(Matched(nt, qt)) <= Cardinality(Matched(nt, more))
  BY <1>6, <1>7, FS_Subset
<1>9. lemon_name_match(qt, nt) = Cardinality(Matched(nt, qt))
  BY DEF lemon_name_match
<1>10. lemon_name_match(more, nt) = Cardinality(Matched(nt, more))
  BY <1>2, <1>5 DEF lemon_name_match
<1> QED
  BY <1>8, <1>9, <1>10

\* One more word in order makes the prefix longer.
LEMMA PrefixGrows ==
  ASSUME NEW qt \in Seq(Words), NEW nt \in Seq(Words), NEW w \in Words,
         WordByWord(Append(qt, w), nt), lemon_prefix_match(qt, nt) > 0
  PROVE  lemon_prefix_match(Append(qt, w), nt) > lemon_prefix_match(qt, nt)
<1>1. Len(Append(qt, w)) = Len(qt) + 1
  OBVIOUS
<1>2. Len(qt) \in 2..Len(nt) /\ lemon_prefix_match(qt, nt) = Len(qt)
  BY DEF lemon_prefix_match
<1>3. Len(Append(qt, w)) \in 2..Len(nt)
  BY <1>1, <1>2 DEF WordByWord
<1>4. lemon_prefix_match(Append(qt, w), nt) = Len(Append(qt, w))
  BY <1>3 DEF WordByWord, lemon_prefix_match
<1> QED
  BY <1>1, <1>2, <1>4

\* A pinned name stays pinned, by no less of it.
LEMMA PinGrows ==
  ASSUME NEW qt \in Seq(Words), NEW nt \in Seq(Words), NEW w \in Words,
         WordByWord(Append(qt, w), nt)
  PROVE  PinScore(Append(qt, w), nt) >= PinScore(qt, nt)
<1> DEFINE more == Append(qt, w)
           full(s) == lemon_name_match(s, nt)
           front(s) == lemon_prefix_match(s, nt)
<1>1. more \in Seq(Words) /\ Len(nt) >= 1
  BY DEF WordByWord
<1>2. full(qt) \in Nat /\ full(more) \in Nat
  BY <1>1, CoverBounded
<1>3. front(qt) \in Nat /\ front(more) \in Nat
  BY <1>1, PrefixBounded
<1>4. full(qt) > 0 => full(more) >= full(qt)
  BY CoverGrows
<1>5. front(qt) > 0 => front(more) > front(qt)
  BY PrefixGrows
<1> HIDE DEF full, front, more
<1>6. full(more) >= full(qt) /\ front(more) >= front(qt)
  BY <1>2, <1>3, <1>4, <1>5
<1>7. Greater(full(more), front(more)) >= Greater(full(qt), front(qt))
  BY <1>2, <1>3, <1>6 DEF Greater
<1>8. Greater(full(more), front(more)) >= 0
  BY <1>2, <1>3 DEF Greater
<1>9. ASSUME NEW s \in {qt, more}
      PROVE  PinScore(s, nt) = IF 10 * full(s) >= 8 * Len(nt) \/ 2 * front(s) >= Len(nt)
                               THEN Greater(full(s), front(s)) ELSE 0
  BY DEF PinScore, Pinned, full, front
<1>10. 10 * full(qt) >= 8 * Len(nt) \/ 2 * front(qt) >= Len(nt)
         => 10 * full(more) >= 8 * Len(nt) \/ 2 * front(more) >= Len(nt)
  BY <1>1, <1>2, <1>3, <1>6
<1>11. PinScore(more, nt) >= PinScore(qt, nt)
  BY <1>7, <1>8, <1>9, <1>10
<1> QED
  BY <1>11 DEF more
-----------------------------------------------------------------------------
\* Queries and names are sequences of words.
THEOREM NameTypeCorrect == NameSpec => []NameTypeOK
<1>1. NameInit => NameTypeOK
  BY NameAssumption DEF NameInit, NameTypeOK
<1>2. NameTypeOK /\ [TypeWord]_<<name, typed>> => NameTypeOK'
  BY DEF NameTypeOK, TypeWord
<1> QED
  BY <1>1, <1>2, PTL DEF NameSpec

\* A user who types a name word by word, each within its tolerance, never loses the business.
THEOREM NameKept == NameSpec => TypingKeepsName
<1> DEFINE Kept == Len(typed') <= Len(name) /\ (\A k \in DOMAIN typed' : Near(typed'[k], name[k]))
                     => PinScore(typed', name) >= PinScore(typed, name)
<1>1. NameTypeOK /\ [TypeWord]_<<name, typed>> => [Kept]_<<name, typed>>
  <2> SUFFICES ASSUME NameTypeOK, TypeWord, WordByWord(typed', name)
               PROVE  PinScore(typed', name) >= PinScore(typed, name)
    BY DEF WordByWord
  <2>1. PICK w \in Words : typed' = Append(typed, w)
    BY DEF TypeWord
  <2> QED
    BY <2>1, PinGrows DEF NameTypeOK
<1> QED
  BY <1>1, NameTypeCorrect, PTL DEF NameSpec, TypingKeepsName
-----------------------------------------------------------------------------
\* The order key decides between any two rows, and runs in no circle (the ORDER BY of
\* search_candidates, down to b.id).
LEMMA PrecedesTotal ==
  ASSUME NEW x \in Pool, NEW y \in Pool, NEW z \in Pool
  PROVE  /\ ~Precedes(x, x)
         /\ Precedes(x, y) /\ Precedes(y, z) => Precedes(x, z)
         /\ x = y \/ Precedes(x, y) \/ Precedes(y, x)
<1>1. \A r \in Pool : {r.id, r.reviews, r.dist} \subseteq Int /\ txt_score(r) \in Int
  BY RetrievalAssumption DEF txt_score
<1>2. x.id = y.id => x = y
  BY RetrievalAssumption
<1> HIDE DEF txt_score
<1> QED BY <1>1, <1>2 DEF Precedes

\* The place of a row is a number, below the number of rows if it is one of them.
LEMMA AheadType ==
  ASSUME NEW S, S \subseteq Pool, IsFiniteSet(S), NEW r \in Pool
  PROVE  /\ Ahead(r, S) \in Nat /\ Cardinality(S) \in Nat
         /\ IsFiniteSet({x \in S : Precedes(x, r)})
         /\ r \in S => Ahead(r, S) < Cardinality(S)
<1> DEFINE A == {x \in S : Precedes(x, r)}
<1>1. IsFiniteSet(A) /\ Cardinality(A) \in Nat /\ Cardinality(S) \in Nat
      /\ Cardinality(A) <= Cardinality(S) /\ (Cardinality(A) = Cardinality(S) => S = A)
  BY A \in SUBSET S, FS_Subset, FS_CardinalityType
<1>2. r \in S => S # A
  BY PrecedesTotal
<1> QED BY <1>1, <1>2 DEF Ahead

\* A row that goes before another has fewer rows ahead of it.
LEMMA AheadMonotone ==
  ASSUME NEW S, S \subseteq Pool, IsFiniteSet(S), NEW x \in S, NEW y \in Pool, Precedes(x, y)
  PROVE  Ahead(x, S) < Ahead(y, S)
<1> DEFINE A == {z \in S : Precedes(z, x)}
           B == {z \in S : Precedes(z, y)}
<1>1. IsFiniteSet(A) /\ IsFiniteSet(B) /\ Cardinality(A) \in Nat /\ Cardinality(B) \in Nat
  BY A \in SUBSET S, B \in SUBSET S, FS_Subset, FS_CardinalityType
<1>2. A \in SUBSET B
  BY PrecedesTotal
<1>3. x \in B /\ x \notin A
  BY PrecedesTotal
<1>4. Cardinality(A) <= Cardinality(B) /\ (Cardinality(A) = Cardinality(B) => B = A)
  <2> HIDE DEF A, B
  <2> QED BY <1>1, <1>2, FS_Subset
<1>5. Cardinality(A) < Cardinality(B)
  <2> HIDE DEF A, B
  <2> QED BY <1>1, <1>3, <1>4
<1> QED BY <1>5 DEF Ahead

\* Two rows never share a place.
LEMMA AheadInjective ==
  ASSUME NEW S, S \subseteq Pool, IsFiniteSet(S), NEW x \in S, NEW y \in S,
         Ahead(x, S) = Ahead(y, S)
  PROVE  x = y
<1>1. x \in Pool /\ y \in Pool
  OBVIOUS
<1>2. Ahead(x, S) \in Nat
  BY <1>1, AheadType
<1>3. ~Precedes(x, y) /\ ~Precedes(y, x)
  BY <1>1, <1>2, AheadMonotone
<1> QED BY <1>1, <1>3, PrecedesTotal

\* Every place is taken (by the pigeonhole principle).
LEMMA EveryPlaceTaken ==
  ASSUME NEW S, S \subseteq Pool, IsFiniteSet(S), NEW k \in 1..Cardinality(S)
  PROVE  \E r \in S : Ahead(r, S) = k - 1
<1> DEFINE n == Cardinality(S)
           f == [r \in S |-> Ahead(r, S)]
<1>1. n \in Nat /\ n > 0
  BY FS_CardinalityType
<1>2. ASSUME NEW r \in S PROVE Ahead(r, S) \in 0..n-1
  <2>1. Ahead(r, S) \in Nat /\ Ahead(r, S) < Cardinality(S)
    BY r \in Pool, AheadType
  <2> QED BY <1>1, <2>1
<1>3. f \in [S -> 0..n-1]
  BY <1>2
<1>4. f \in Injection(S, 0..n-1)
  <2>1. ASSUME NEW a \in S, NEW b \in S, f[a] = f[b] PROVE a = b
    BY <2>1, AheadInjective
  <2> HIDE DEF f
  <2> QED BY <1>3, <2>1, Fun_IsInj
<1>5. IsFiniteSet(0..n-1) /\ Cardinality(0..n-1) = n
  <2>1. 0 \in Int /\ n - 1 \in Int
    BY <1>1
  <2>2. IsFiniteSet(0..n-1) /\ Cardinality(0..n-1) = (IF 0 > n - 1 THEN 0 ELSE n - 1 - 0 + 1)
    <3> HIDE DEF n
    <3> QED BY <2>1, FS_Interval
  <2> QED BY <1>1, <2>2
<1>6. f \in Surjection(S, 0..n-1)
  <2> HIDE DEF f
  <2> QED BY <1>4, <1>5, FS_Injection
<1>7. k - 1 \in 0..n-1
  BY <1>1
<1>8. \E r \in S : f[r] = k - 1
  <2> HIDE DEF f
  <2> QED BY <1>6, <1>7 DEF Surjection
<1> QED BY <1>8

\* InOrder lists a table's rows, each at its place.
LEMMA InOrderListsPlaces ==
  ASSUME NEW S, S \subseteq Pool, IsFiniteSet(S)
  PROVE  /\ Cardinality(S) \in Nat
         /\ Len(InOrder(S)) = Cardinality(S)
         /\ \A k \in 1..Cardinality(S) :
              InOrder(S)[k] \in S /\ Ahead(InOrder(S)[k], S) = k - 1
         /\ \A r \in S, k \in 1..Cardinality(S) : Ahead(r, S) = k - 1 => InOrder(S)[k] = r
<1>1. Cardinality(S) \in Nat
  BY FS_CardinalityType
<1>2. ASSUME NEW k \in 1..Cardinality(S)
      PROVE  InOrder(S)[k] \in S /\ Ahead(InOrder(S)[k], S) = k - 1
  <2>1. \E r \in S : Ahead(r, S) = k - 1
    BY EveryPlaceTaken
  <2>2. InOrder(S)[k] = CHOOSE r \in S : Ahead(r, S) = k - 1
    BY DEF InOrder
  <2> QED BY <2>1, <2>2
<1>3. ASSUME NEW r \in S, NEW k \in 1..Cardinality(S), Ahead(r, S) = k - 1
      PROVE  InOrder(S)[k] = r
  BY <1>2, <1>3, AheadInjective
<1>4. DOMAIN InOrder(S) = 1..Cardinality(S) /\ InOrder(S) = [k \in 1..Cardinality(S) |-> InOrder(S)[k]]
  BY DEF InOrder
<1>5. Len(InOrder(S)) = Cardinality(S)
  <2>1. InOrder(S) \in Seq(S)
    BY <1>1, <1>2, <1>4
  <2> QED BY <1>1, <1>4, <2>1
<1> QED BY <1>1, <1>2, <1>3, <1>5

\* The rows up to some place, listed alone, are the head of the list of all.
LEMMA HeadOfList ==
  ASSUME NEW S, S \subseteq Pool, IsFiniteSet(S), NEW T, T \subseteq S,
         \A x \in T, y \in S : Precedes(y, x) => y \in T
  PROVE  /\ IsFiniteSet(T) /\ \A x \in T : Ahead(x, T) = Ahead(x, S)
         /\ Cardinality(T) \in Nat /\ Cardinality(T) <= Cardinality(S)
         /\ \A k \in 1..Cardinality(T) : InOrder(T)[k] = InOrder(S)[k]
<1>1. IsFiniteSet(T) /\ Cardinality(T) \in Nat /\ Cardinality(T) <= Cardinality(S)
      /\ Cardinality(S) \in Nat
  BY T \in SUBSET S, FS_Subset, FS_CardinalityType
<1>2. ASSUME NEW x \in T PROVE Ahead(x, T) = Ahead(x, S)
  <2>1. {y \in T : Precedes(y, x)} = {y \in S : Precedes(y, x)}
    OBVIOUS
  <2> QED BY <2>1 DEF Ahead
<1>3. ASSUME NEW k \in 1..Cardinality(T) PROVE InOrder(T)[k] = InOrder(S)[k]
  <2>1. InOrder(T)[k] \in T /\ Ahead(InOrder(T)[k], T) = k - 1
    BY <1>1, InOrderListsPlaces
  <2>2. InOrder(T)[k] \in S /\ Ahead(InOrder(T)[k], S) = k - 1 /\ k \in 1..Cardinality(S)
    BY <1>1, <1>2, <2>1
  <2> QED BY <2>2, InOrderListsPlaces
<1> QED BY <1>1, <1>2, <1>3

\* The rows of a limit are the head of the table.
LEMMA TopIsHead ==
  ASSUME NEW S, S \subseteq Pool, IsFiniteSet(S), NEW n \in Nat
  PROVE  /\ Top(n, S) \subseteq S
         /\ \A x \in Top(n, S), y \in S : Precedes(y, x) => y \in Top(n, S)
<1>1. ASSUME NEW x \in Top(n, S), NEW y \in S, Precedes(y, x) PROVE y \in Top(n, S)
  <2>1. x \in S /\ x \in Pool /\ y \in Pool /\ Ahead(x, S) < n
    BY DEF Top
  <2>2. Ahead(y, S) < Ahead(x, S)
    BY <1>1, <2>1, AheadMonotone
  <2>3. Ahead(x, S) \in Nat /\ Ahead(y, S) \in Nat
    BY <2>1, AheadType
  <2> QED BY <2>1, <2>2, <2>3 DEF Top
<1> QED BY <1>1 DEF Top

\* Of the rows ahead of one, some are in a part of the table and the others are not.
LEMMA AheadSplits ==
  ASSUME NEW S, S \subseteq Pool, IsFiniteSet(S), NEW T, T \subseteq S, NEW r \in Pool
  PROVE  Ahead(r, S) = Ahead(r, T) + Ahead(r, S \ T)
<1> DEFINE A == {x \in T : Precedes(x, r)}
           B == {x \in S \ T : Precedes(x, r)}
           C == {x \in S : Precedes(x, r)}
<1>1. IsFiniteSet(A) /\ IsFiniteSet(B)
  BY A \in SUBSET S, B \in SUBSET S, FS_Subset
<1>2. C = A \cup B /\ A \cap B = {}
  OBVIOUS
<1>3. Cardinality(A \cup B) = Cardinality(A) + Cardinality(B) - Cardinality(A \cap B)
  <2> HIDE DEF A, B
  <2> QED BY <1>1, FS_Union
<1>4. Cardinality(A \cap B) = 0 /\ Cardinality(A) \in Nat /\ Cardinality(B) \in Nat
  <2> HIDE DEF A, B
  <2> QED BY <1>1, <1>2, FS_EmptySet, FS_CardinalityType
<1>5. Cardinality(C) = Cardinality(A) + Cardinality(B)
  <2> HIDE DEF A, B, C
  <2> QED BY <1>2, <1>3, <1>4
<1> QED BY <1>5 DEF Ahead

\* What the theorem says of one search, whatever the table holds and the arms find.
LEMMA AnswerIsHeadOfIdeal ==
  ASSUME businesses \subseteq Pool, IsFiniteSet(businesses)
  PROVE  MissingOnlyBehindClosed
<1> DEFINE M == Matching(semantic_ids)
           L == IF req.requireOpen THEN Lim * OverFetch ELSE Lim
           A == NotClosed(M)
           B == NotClosed(Top(L, M))
           P == Top(Lim, B)
           I == Top(Lim, A)
<1>1. Lim \in Nat /\ OverFetch \in Nat /\ Lim > 0 /\ OverFetch > 0 /\ L \in Nat
  BY RetrievalAssumption
<1>2. M \subseteq businesses /\ M \subseteq Pool /\ IsFiniteSet(M)
  BY M \in SUBSET businesses, FS_Subset DEF Matching
<1>3. A \subseteq M /\ A \subseteq Pool /\ IsFiniteSet(A)
  BY <1>2, A \in SUBSET M, FS_Subset DEF NotClosed
<1>4. B \subseteq A /\ \A x \in B, y \in A : Precedes(y, x) => y \in B
  <2> HIDE DEF M, L
  <2>1. Top(L, M) \subseteq M /\ \A x \in Top(L, M), y \in M : Precedes(y, x) => y \in Top(L, M)
    BY <1>1, <1>2, TopIsHead
  <2> QED BY <2>1 DEF NotClosed
<1>5. IsFiniteSet(B) /\ \A x \in B : Ahead(x, B) = Ahead(x, A)
  <2> HIDE DEF A, B
  <2> QED BY <1>3, <1>4, HeadOfList
<1>6. I \subseteq A /\ P \subseteq B /\ \A x \in I : Ahead(x, A) < Lim
  BY DEF Top
<1>7. P \subseteq I
  BY <1>4, <1>5 DEF Top
<1>8. \A x \in P, y \in I : Precedes(y, x) => y \in P
  <2> SUFFICES ASSUME NEW x \in P, NEW y \in I, Precedes(y, x) PROVE y \in P
    OBVIOUS
  <2>1. x \in B /\ y \in A
    BY <1>6
  <2>2. y \in B
    BY <1>4, <2>1
  <2>3. Ahead(y, B) < Lim
    BY <1>5, <1>6, <2>2
  <2> QED BY <2>2, <2>3 DEF Top
<1>9. I \subseteq Pool /\ IsFiniteSet(I) /\ P \subseteq Pool /\ IsFiniteSet(P)
  <2>1. I \in SUBSET A /\ P \in SUBSET A
    BY <1>4, <1>6
  <2> HIDE DEF A, I, P
  <2> QED BY <1>3, <2>1, FS_Subset
<1>10. /\ \A x \in P : Ahead(x, P) = Ahead(x, I)
       /\ Cardinality(P) \in Nat /\ Cardinality(P) <= Cardinality(I)
       /\ \A k \in 1..Cardinality(P) : InOrder(P)[k] = InOrder(I)[k]
  <2> HIDE DEF I, P
  <2> QED BY <1>7, <1>8, <1>9, HeadOfList
<1>11. Answer = InOrder(P) /\ Ideal = InOrder(I)
  BY DEF Answer, Ideal, answer, recalled
<1>12. Len(Answer) = Cardinality(P) /\ Len(Ideal) = Cardinality(I) /\ Cardinality(I) \in Nat
  <2> HIDE DEF I, P
  <2> QED BY <1>9, <1>11, InOrderListsPlaces
<1>13. Len(Answer) <= Len(Ideal) /\ \A k \in 1..Len(Answer) : Answer[k] = Ideal[k]
  BY <1>10, <1>11, <1>12
<1>14. ASSUME NEW k \in Len(Answer)+1..Len(Ideal)
       PROVE  Ahead(Ideal[k], {r \in M : r.open = "closed"}) > Lim * (OverFetch - 1)
  <2> DEFINE e == Ideal[k]
  <2>1. k \in 1..Cardinality(I) /\ k > Cardinality(P)
    BY <1>10, <1>12
  <2>2. e \in I /\ Ahead(e, I) = k - 1
    <3> HIDE DEF I
    <3> QED BY <1>9, <1>11, <2>1, InOrderListsPlaces
  <2>3. e \notin P
    <3>1. ASSUME e \in P PROVE FALSE
      <4>1. Ahead(e, P) = k - 1
        BY <1>10, <2>2, <3>1
      <4>2. Ahead(e, P) < Cardinality(P) /\ Ahead(e, P) \in Nat
        <5> HIDE DEF P
        <5> QED BY <1>9, <3>1, AheadType
      <4> QED BY <1>10, <2>1, <4>1, <4>2
    <3> QED BY <3>1
  <2>4. e \in A /\ e \in M /\ e \in Pool /\ Ahead(e, A) < Lim
    BY <1>3, <1>6, <2>2
  <2>5. e \notin B
    <3>1. ASSUME e \in B PROVE FALSE
      <4>1. Ahead(e, B) < Lim
        BY <1>5, <2>4, <3>1
      <4> QED BY <2>3, <3>1, <4>1 DEF Top
    <3> QED BY <3>1
  <2>6. ~(Ahead(e, M) < L)
    BY <2>4, <2>5 DEF NotClosed, Top
  <2>7. Ahead(e, M) \in Nat /\ Ahead(e, A) \in Nat
    <3> HIDE DEF M, A
    <3> QED BY <1>2, <1>3, <2>4, AheadType
  <2>8. Ahead(e, M) = Ahead(e, A) + Ahead(e, M \ A)
    <3> HIDE DEF M, A
    <3> QED BY <1>2, <1>3, <2>4, AheadSplits
  <2>9. Ahead(e, M \ A) \in Nat
    <3>1. M \ A \subseteq Pool /\ IsFiniteSet(M \ A)
      <4> HIDE DEF M, A
      <4> QED BY <1>2, M \ A \in SUBSET M, FS_Subset
    <3> HIDE DEF M, A
    <3> QED BY <3>1, <2>4, AheadType
  <2>10. req.requireOpen
    <3>1. ASSUME ~req.requireOpen PROVE FALSE
      <4>1. A = M /\ L = Lim
        BY <3>1 DEF NotClosed
      <4> QED BY <2>4, <2>6, <4>1
    <3> QED BY <3>1
  <2>11. M \ A = {r \in M : r.open = "closed"} /\ L = Lim * OverFetch
    BY <2>10 DEF NotClosed
  <2>12. Lim * (OverFetch - 1) = Lim * OverFetch - Lim /\ Lim * OverFetch \in Nat
    BY <1>1
  <2>13. Ahead(e, M \ A) > Lim * (OverFetch - 1)
    <3> HIDE DEF M, A, e
    <3> QED BY <1>1, <2>4, <2>6, <2>7, <2>8, <2>9, <2>11, <2>12
  <2> QED BY <2>11, <2>13
<1> QED BY <1>13, <1>14 DEF MissingOnlyBehindClosed

\* Whatever rows the table holds and the arms recall, the open-now filter behind the limit
\* costs a row only when more closed rows are ahead of it than the over-fetch makes up for.
THEOREM MissingOnlyBehindTheClosed == RetrievalSpec => []MissingOnlyBehindClosed
<1> DEFINE RInv == businesses \subseteq Pool /\ IsFiniteSet(businesses)
<1>1. TableInit => RInv
  BY FS_EmptySet DEF TableInit
<1>2. RInv /\ [Load \/ Search]_<<businesses, req, semantic_ids>> => RInv'
  <2> SUFFICES ASSUME RInv, [Load \/ Search]_<<businesses, req, semantic_ids>> PROVE RInv'
    OBVIOUS
  <2>1. CASE Load
    <3>1. PICK r \in Pool \ businesses : businesses' = businesses \cup {r}
      BY <2>1 DEF Load
    <3> QED BY <3>1, FS_AddElement
  <2>2. CASE Search
    BY <2>2 DEF Search
  <2>3. CASE UNCHANGED <<businesses, req, semantic_ids>>
    BY <2>3
  <2> QED BY <2>1, <2>2, <2>3
<1>3. RInv => MissingOnlyBehindClosed
  BY AnswerIsHeadOfIdeal
<1> QED BY <1>1, <1>2, <1>3, PTL DEF RetrievalSpec
=============================================================================
