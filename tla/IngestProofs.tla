----------------------------- MODULE IngestProofs -----------------------------
(***************************************************************************)
(* The loader's inductive invariant and, from it, that every run of the    *)
(* CLI implements the one-step load of module Catalog.                     *)
(***************************************************************************)
EXTENDS Ingest, TLAPS, FiniteSetTheorems

\* Where the producer stands in the file.
ProducerInv ==
  /\ \A m \in 1..pos-1 : input[m].kind # "broken"
  /\ ppc = "send" => pos <= Len(input) /\ Survives(input, pos)
  /\ ppc \in {"publish", "close", "exited"} /\ prodErr = "none" => pos = Len(input) + 1
  /\ prodErr = "broken" => pos <= Len(input) /\ input[pos].kind = "broken"
  /\ prodErr # "none" => ppc \in {"publish", "close", "exited"}
  /\ prodErr = "cancelled" => ctxDone

\* What the loader knows at each step of the transaction.
LoaderInv ==
  /\ lpc = "copyLast" => closed /\ rows = <<>>
  /\ lpc \in {"upsert", "commit"} => closed /\ rows = <<>> /\ batch = <<>>
  /\ lpc = "commit" => prodErr # "cancelled"
  /\ UniqueIds(input, stage)

\* What has happened when Load has returned and when main has reported.
ResultInv ==
  /\ applied => lpc = "returned"
  /\ lpc = "returned" /\ ~loadErr =>
       /\ applied /\ closed
       /\ total = Cardinality(Sent)
       /\ prodErr # "cancelled"
  /\ mainPc = "wait" => lpc = "returned"
  /\ mainPc = "start" => lpc = "acquire" /\ ~closed
  /\ outcome = "ok" => mainPc = "exited" /\ lpc = "returned" /\ ~loadErr /\ prodErr = "none"
  /\ applied => \A k \in Survivors(input) : businesses[input[k].id] # Absent
                  /\ businesses[input[k].id].version = input[k].version

\* The read counter is the drops, the rows sent and the row being sent.
TallyInv ==
  prodErr # "cancelled" =>
    tally["read"] = tally["geo"] + tally["noAddress"] + tally["category"]
                      + Cardinality(Sent) + (IF ppc = "send" THEN 1 ELSE 0)

IInv ==
  /\ TypeOK
  /\ ProducerInv
  /\ LoaderInv
  /\ ResultInv
  /\ RowsConserved
  /\ TallyInv
-----------------------------------------------------------------------------
(* Sequences of positions, and the set of rows sent.                         *)

\* Appending, taking and emptying change the range of a sequence as expected.
LEMMA RangeFacts ==
  /\ \A S : \A s \in Seq(S), x \in S : Range(Append(s, x)) = Range(s) \cup {x}
  /\ \A S : \A s \in Seq(S) : s # <<>> =>
       /\ Range(s) = {Head(s)} \cup Range(Tail(s))
       /\ Head(s) \in S /\ Tail(s) \in Seq(S)
       /\ Len(Tail(s)) = Len(s) - 1
  /\ Range(<<>>) = {}
<1>1. ASSUME NEW S, NEW s \in Seq(S), NEW x \in S
      PROVE  Range(Append(s, x)) = Range(s) \cup {x}
  <2>1. DOMAIN Append(s, x) = 1..Len(s)+1
    OBVIOUS
  <2>2. \A k \in 1..Len(s) : Append(s, x)[k] = s[k]
    OBVIOUS
  <2>3. Append(s, x)[Len(s)+1] = x
    OBVIOUS
  <2>4. DOMAIN s = 1..Len(s) /\ Len(s) \in Nat
    OBVIOUS
  <2>5. QED BY <2>1, <2>2, <2>3, <2>4 DEF Range
<1>2. ASSUME NEW S, NEW s \in Seq(S), s # <<>>
      PROVE  /\ Range(s) = {Head(s)} \cup Range(Tail(s))
             /\ Head(s) \in S /\ Tail(s) \in Seq(S)
             /\ Len(Tail(s)) = Len(s) - 1
  <2>1. /\ DOMAIN s = 1..Len(s) /\ Len(s) \in Nat \ {0}
        /\ DOMAIN Tail(s) = 1..Len(s)-1
        /\ Head(s) = s[1]
        /\ Head(s) \in S /\ Tail(s) \in Seq(S)
        /\ Len(Tail(s)) = Len(s) - 1
    BY <1>2
  <2>2. \A k \in 1..Len(s)-1 : Tail(s)[k] = s[k+1]
    BY <1>2
  <2>3. \A k \in 2..Len(s) : s[k] = Tail(s)[k-1] /\ k-1 \in 1..Len(s)-1
    BY <2>1, <2>2
  <2>4. \A k \in 1..Len(s) : s[k] \in {Head(s)} \cup Range(Tail(s))
    <3>1. TAKE k \in 1..Len(s)
    <3>2. CASE k = 1
      BY <2>1, <3>2
    <3>3. CASE k # 1
      <4>1. k \in 2..Len(s)
        BY <2>1, <3>3
      <4>2. QED BY <2>1, <2>3, <4>1 DEF Range
    <3>4. QED BY <3>2, <3>3
  <2>5. {Head(s)} \cup Range(Tail(s)) \subseteq Range(s)
    BY <2>1, <2>2 DEF Range
  <2>6. Range(s) \subseteq {Head(s)} \cup Range(Tail(s))
    BY <2>1, <2>4 DEF Range
  <2>7. QED BY <2>1, <2>5, <2>6
<1>3. Range(<<>>) = {}
  BY DEF Range
<1>4. QED BY <1>1, <1>2, <1>3

\* The rows sent are finitely many positions of the file.
LEMMA SentFinite ==
  TypeOK => /\ IsFiniteSet(Sent) /\ Cardinality(Sent) \in Nat
            /\ Sent \subseteq 1..Len(input)
            /\ Len(input) \in Nat /\ pos \in Nat
<1>1. SUFFICES ASSUME TypeOK PROVE /\ IsFiniteSet(Sent) /\ Cardinality(Sent) \in Nat
                                   /\ Sent \subseteq 1..Len(input)
                                   /\ Len(input) \in Nat /\ pos \in Nat
  OBVIOUS
<1>2. input \in Seq(Record) /\ Len(input) \in Nat /\ pos \in 1..Len(input)+1
  BY <1>1, TableAssumption DEF TypeOK, TableTypes, ProducerTypes
<1>3. Sent \subseteq 1..Len(input) /\ pos \in Nat
  BY <1>2 DEF Sent
<1>4. IsFiniteSet(1..Len(input))
  BY <1>2, FS_Interval
<1>5. IsFiniteSet(Sent)
  BY <1>3, <1>4, FS_Subset
<1>6. QED BY <1>2, <1>3, <1>5, FS_CardinalityType

\* When the producer moves on, the row it leaves joins the sent ones if it survives.
LEMMA SentMoves ==
  TypeOK /\ pos <= Len(input) /\ pos' = pos + 1 /\ input' = input =>
    IF Survives(input, pos)
    THEN Sent' = Sent \cup {pos} /\ Cardinality(Sent') = Cardinality(Sent) + 1
    ELSE Sent' = Sent
<1>1. SUFFICES ASSUME TypeOK, pos <= Len(input), pos' = pos + 1, input' = input
               PROVE  IF Survives(input, pos)
                      THEN Sent' = Sent \cup {pos} /\ Cardinality(Sent') = Cardinality(Sent) + 1
                      ELSE Sent' = Sent
  OBVIOUS
<1>2. IsFiniteSet(Sent) /\ pos \in Nat \ {0}
  BY <1>1, SentFinite DEF TypeOK, ProducerTypes
<1>3. Sent' = {k \in 1..pos : Survives(input, k)}
  BY <1>1, <1>2 DEF Sent, Survives
<1>4. pos \notin Sent
  BY <1>2 DEF Sent
<1>5. CASE Survives(input, pos)
  <2>1. Sent' = Sent \cup {pos}
    BY <1>2, <1>3, <1>5 DEF Sent
  <2>2. QED BY <1>2, <1>4, <1>5, <2>1, FS_AddElement
<1>6. CASE ~Survives(input, pos)
  BY <1>2, <1>3, <1>6 DEF Sent
<1>7. QED BY <1>5, <1>6
-----------------------------------------------------------------------------
(* Each step keeps the invariant.                                            *)

\* The invariant holds before the first run.
LEMMA InitIInv == Init => IInv
<1>1. SUFFICES ASSUME Init PROVE IInv
  OBVIOUS
<1>2. input \in Seq(Record) /\ Len(input) \in Nat
  BY <1>1, TableAssumption DEF Init
<1>3. TypeOK
  <2>0. FlagTypes
    BY <1>1 DEF Init, FlagTypes
  <2>1. TableTypes
    BY <1>1, TableAssumption, BatchAssumption DEF Init, TableTypes
  <2>2. MainTypes
    BY <1>1 DEF Init, MainTypes
  <2>3. ProducerTypes
    BY <1>1, <1>2 DEF Init, ProducerTypes
  <2>4. LoaderTypes
    BY <1>1, <1>2 DEF Init, LoaderTypes
  <2>5. QED BY <2>0, <2>1, <2>2, <2>3, <2>4 DEF TypeOK
<1>4. ProducerInv /\ LoaderInv /\ ResultInv
  BY <1>1, <1>2 DEF closed, Init, ProducerInv, LoaderInv, ResultInv, UniqueIds
<1>5. Sent = {}
  BY <1>1 DEF Init, Sent
<1>6. Cardinality(Sent) = 0
  BY <1>5, FS_EmptySet
<1>7. RowsConserved
  BY <1>1, <1>5, <1>6, RangeFacts DEF Init, RowsConserved
<1>8. TallyInv
  BY <1>1, <1>6 DEF Init, TallyInv, Counters, Drops
<1>9. QED BY <1>3, <1>4, <1>7, <1>8 DEF IInv

\* The steps of main, signals and kills move nothing but main.
LEMMA MainStep ==
  IInv /\ (Main \/ Signal \/ Kill) => IInv'
<1>1. SUFFICES ASSUME IInv, Main \/ Signal \/ Kill PROVE IInv'
  OBVIOUS
<1>2. UNCHANGED <<tableVars, producerVars, rows, loaderVars, stage>>
  BY <1>1 DEF Main, Start, StartFails, AfterLoad, Report, Signal, Kill
<1>3. Sent' = Sent
  BY <1>2 DEF Sent, Survives, producerVars, tableVars
<1>4. RowsConserved'
  BY <1>1, <1>2, <1>3 DEF IInv, RowsConserved, loaderVars
<1>5. TallyInv'
  BY <1>1, <1>2, <1>3 DEF IInv, TallyInv, producerVars
<1>6. TypeOK'
  <2>0. FlagTypes'
    BY <1>1, <1>2 DEF IInv, TypeOK, FlagTypes, tableVars, loaderVars,
       Main, Start, StartFails, AfterLoad, Report, Signal, Kill
  <2>1. TableTypes'
    BY <1>1, <1>2 DEF IInv, TypeOK, TableTypes, tableVars
  <2>2. MainTypes'
    BY <1>1 DEF IInv, TypeOK, MainTypes,
       Main, Start, StartFails, AfterLoad, Report, Signal, Kill, Verdict
  <2>3. ProducerTypes'
    BY <1>1, <1>2 DEF IInv, TypeOK, ProducerTypes, producerVars, tableVars
  <2>4. LoaderTypes'
    BY <1>1, <1>2 DEF IInv, TypeOK, LoaderTypes, loaderVars, tableVars
  <2>5. QED BY <2>0, <2>1, <2>2, <2>3, <2>4 DEF TypeOK
<1>7. ctxDone => ctxDone'
  BY <1>1 DEF Main, Start, StartFails, AfterLoad, Report, Signal, Kill
<1>8. ProducerInv'
  BY <1>1, <1>2, <1>7 DEF IInv, ProducerInv, Survives, tableVars, mainVars, producerVars, loaderVars
<1>9. LoaderInv'
  BY <1>1, <1>2 DEF closed, IInv, LoaderInv, UniqueIds, tableVars, mainVars, producerVars, loaderVars
<1>10. ResultInv'
  <2>1. Survivors(input)' = Survivors(input)
    BY <1>2 DEF Survivors, Survives, tableVars
  <2>2. QED
    BY <1>1, <1>2, <1>3, <2>1 DEF closed, published, IInv, ResultInv, ProducerInv, tableVars, mainVars, producerVars, loaderVars,
       Main, Start, StartFails, AfterLoad, Report, Signal, Kill, Verdict
<1>11. QED BY <1>4, <1>5, <1>6, <1>8, <1>9, <1>10 DEF IInv

\* A new run starts afresh, on the table the last one left.
LEMMA RunAgainStep == IInv /\ RunAgain => IInv'
<1>1. SUFFICES ASSUME IInv, RunAgain PROVE IInv'
  OBVIOUS
<1>2. input' \in Seq(Record) /\ Len(input') \in Nat
  BY <1>1, TableAssumption DEF RunAgain
<1>3. TypeOK'
  <2>0. FlagTypes'
    BY <1>1 DEF RunAgain, FlagTypes
  <2>1. TableTypes'
    BY <1>1, BatchAssumption DEF RunAgain, IInv, TypeOK, TableTypes
  <2>2. MainTypes'
    BY <1>1 DEF RunAgain, MainTypes
  <2>3. ProducerTypes'
    BY <1>1, <1>2 DEF RunAgain, ProducerTypes
  <2>4. LoaderTypes'
    BY <1>1, <1>2 DEF RunAgain, LoaderTypes
  <2>5. QED BY <2>0, <2>1, <2>2, <2>3, <2>4 DEF TypeOK
<1>4. ProducerInv' /\ LoaderInv' /\ ResultInv'
  BY <1>1, <1>2 DEF closed, RunAgain, ProducerInv, LoaderInv, ResultInv, UniqueIds
<1>5. Sent' = {}
  BY <1>1 DEF RunAgain, Sent
<1>6. Cardinality(Sent') = 0
  BY <1>5, FS_EmptySet
<1>7. RowsConserved'
  BY <1>1, <1>5, <1>6, RangeFacts DEF RunAgain, RowsConserved
<1>8. TallyInv'
  BY <1>1, <1>6 DEF RunAgain, TallyInv, Counters, Drops
<1>9. QED BY <1>3, <1>4, <1>7, <1>8 DEF IInv

\* The producer's steps that end the stream or shut it down leave pos where it is.
LEMMA ProducerEndStep ==
  IInv /\ (SeesCancel \/ Eof \/ ParserError \/ SendCancelled \/ Publish \/ Close) => IInv'
<1>1. SUFFICES ASSUME IInv, SeesCancel \/ Eof \/ ParserError \/ SendCancelled \/ Publish \/ Close
               PROVE  IInv'
  OBVIOUS
<1> USE DEF SeesCancel, Eof, ParserError, SendCancelled, Publish, Close, ProducerUnchanged, Producing
<1>2. UNCHANGED <<tableVars, mainVars, loaderVars, stage, pos, tally, rows>>
  BY <1>1 DEF tableVars, mainVars, producerVars, loaderVars
<1>3. Sent' = Sent
  BY <1>2 DEF Sent, Survives, tableVars
<1>4. RowsConserved'
  BY <1>1, <1>2, <1>3 DEF IInv, RowsConserved, loaderVars
<1>5. TallyInv'
  BY <1>1, <1>2, <1>3 DEF IInv, TallyInv, ProducerInv, producerVars
<1>6. TypeOK'
  <2>0. FlagTypes'
    BY <1>1, <1>2 DEF IInv, TypeOK, FlagTypes, tableVars, mainVars, loaderVars
  <2>1. TableTypes'
    BY <1>1, <1>2 DEF IInv, TypeOK, TableTypes, tableVars
  <2>2. MainTypes'
    BY <1>1, <1>2 DEF IInv, TypeOK, MainTypes, mainVars
  <2>3. ProducerTypes'
    BY <1>1, <1>2 DEF IInv, TypeOK, ProducerTypes, tableVars
  <2>4. LoaderTypes'
    BY <1>1, <1>2 DEF IInv, TypeOK, LoaderTypes, loaderVars, tableVars
  <2>5. QED BY <2>0, <2>1, <2>2, <2>3, <2>4 DEF TypeOK
<1>7. ProducerInv'
  BY <1>1, <1>2 DEF IInv, ProducerInv, Survives, tableVars, mainVars, producerVars, loaderVars
<1>8. LoaderInv'
  BY <1>1, <1>2 DEF closed, IInv, LoaderInv, ProducerInv, UniqueIds, tableVars, mainVars, producerVars, loaderVars
<1>9. ResultInv'
  <2>1. Survivors(input)' = Survivors(input)
    BY <1>2 DEF Survivors, Survives, tableVars
  <2>2. QED
    BY <1>1, <1>2, <1>3, <2>1 DEF closed, published, IInv, ResultInv, ProducerInv, tableVars, mainVars, producerVars, loaderVars
<1>10. QED BY <1>4, <1>5, <1>6, <1>7, <1>8, <1>9 DEF IInv

\* A record that is dropped is counted and passed over.
LEMMA DropStep == IInv /\ Drop => IInv'
<1>1. SUFFICES ASSUME IInv, Drop PROVE IInv'
  OBVIOUS
<1>2. /\ pos <= Len(input) /\ pos' = pos + 1 /\ input' = input
      /\ input[pos].kind # "broken" /\ ~Survives(input, pos)
      /\ tally' = Tallied(pos)
      /\ UNCHANGED <<tableVars, mainVars, loaderVars, stage, rows, ppc, prodErr>>
      /\ ppc = "loop"
  BY <1>1 DEF Drop, ProducerUnchanged, tableVars
<1>3. Sent' = Sent
  BY <1>1, <1>2, SentMoves DEF IInv
<1>4. pos \in Nat \ {0} /\ Len(input) \in Nat /\ input[pos] \in Record
  BY <1>1, <1>2, SentFinite, TableAssumption DEF IInv, TypeOK, TableTypes, ProducerTypes
<1>5. TypeOK'
  <2>1. FlagTypes' /\ TableTypes' /\ MainTypes' /\ LoaderTypes'
    BY <1>1, <1>2 DEF IInv, TypeOK, FlagTypes, TableTypes, MainTypes, LoaderTypes,
                      tableVars, mainVars, loaderVars
  <2>2. tally' \in [Counters -> Nat]
    BY <1>1, <1>2 DEF IInv, TypeOK, ProducerTypes, Tallied
  <2>3. ProducerTypes'
    BY <1>1, <1>2, <1>4, <2>2 DEF IInv, TypeOK, ProducerTypes
  <2>4. QED BY <2>1, <2>3 DEF TypeOK
<1>6. ProducerInv'
  <2>1. \A m \in 1..pos'-1 : input'[m].kind # "broken"
    BY <1>1, <1>2, <1>4 DEF IInv, ProducerInv
  <2>2. QED BY <1>1, <1>2, <1>4, <2>1 DEF IInv, ProducerInv
<1>7. LoaderInv'
  BY <1>1, <1>2 DEF IInv, LoaderInv, UniqueIds, closed, loaderVars
<1>8. ResultInv'
  BY <1>1, <1>2, <1>3 DEF IInv, ResultInv, closed, tableVars, mainVars, loaderVars,
                          Survivors, Survives
<1>9. RowsConserved'
  BY <1>1, <1>2, <1>3 DEF IInv, RowsConserved, loaderVars
<1>10. TallyInv'
  <2>1. prodErr = "none" /\ prodErr' = "none" /\ ppc' = "loop"
    BY <1>1, <1>2 DEF IInv, ProducerInv, TypeOK, ProducerTypes
  <2>2. tally \in [Counters -> Nat] /\ Cardinality(Sent) \in Nat
    BY <1>1, SentFinite DEF IInv, TypeOK, ProducerTypes
  <2>3. input[pos].kind \in Drops \cup {"unparseable"}
    BY <1>2, <1>4 DEF Survives, Record, Kind
  <2>4. /\ tally'["read"] = IF input[pos].kind \in Drops THEN tally["read"] + 1 ELSE tally["read"]
        /\ \A c \in Drops : tally'[c] = IF input[pos].kind = c THEN tally[c] + 1 ELSE tally[c]
    BY <1>2, <2>3 DEF Tallied, Counted, Counters, Drops
  <2>5. tally["read"] = tally["geo"] + tally["noAddress"] + tally["category"] + Cardinality(Sent)
    BY <1>1, <1>2, <2>1, <2>2 DEF IInv, TallyInv, Counters, Drops
  <2>6. tally'["read"] = tally'["geo"] + tally'["noAddress"] + tally'["category"]
                           + Cardinality(Sent) + 0
    BY <2>2, <2>3, <2>4, <2>5 DEF Counters, Drops
  <2>7. QED BY <1>3, <2>1, <2>6 DEF TallyInv
<1>11. QED BY <1>5, <1>6, <1>7, <1>8, <1>9, <1>10 DEF IInv

\* A survivor is counted and kept at pos for the channel.
LEMMA KeepStep == IInv /\ Keep => IInv'
<1>1. SUFFICES ASSUME IInv, Keep PROVE IInv'
  OBVIOUS
<1>2. /\ pos <= Len(input) /\ Survives(input, pos)
      /\ tally' = Tallied(pos) /\ ppc = "loop" /\ ppc' = "send"
      /\ UNCHANGED <<tableVars, mainVars, loaderVars, stage, rows, pos, prodErr>>
  BY <1>1 DEF Keep, ProducerUnchanged
<1>3. Sent' = Sent
  BY <1>2 DEF Sent, Survives, tableVars
<1>4. pos \in Nat \ {0} /\ Len(input) \in Nat
  BY <1>1, <1>2, SentFinite DEF IInv, TypeOK, ProducerTypes
<1>5. TypeOK'
  <2>1. FlagTypes' /\ TableTypes' /\ MainTypes' /\ LoaderTypes'
    BY <1>1, <1>2 DEF IInv, TypeOK, FlagTypes, TableTypes, MainTypes, LoaderTypes,
                      tableVars, mainVars, loaderVars
  <2>2. tally' \in [Counters -> Nat]
    BY <1>1, <1>2 DEF IInv, TypeOK, ProducerTypes, Tallied
  <2>3. ProducerTypes'
    BY <1>1, <1>2, <1>4, <2>2 DEF IInv, TypeOK, ProducerTypes, tableVars
  <2>4. QED BY <2>1, <2>3 DEF TypeOK
<1>6. ProducerInv'
  BY <1>1, <1>2, <1>4 DEF IInv, ProducerInv, Survives, tableVars, mainVars
<1>7. LoaderInv'
  BY <1>1, <1>2 DEF IInv, LoaderInv, UniqueIds, closed, loaderVars, tableVars
<1>8. ResultInv'
  BY <1>1, <1>2, <1>3 DEF IInv, ResultInv, closed, tableVars, mainVars, loaderVars,
                          Survivors, Survives
<1>9. RowsConserved'
  BY <1>1, <1>2, <1>3 DEF IInv, RowsConserved, loaderVars
<1>10. TallyInv'
  <2>1. prodErr = "none" /\ prodErr' = "none"
    BY <1>1, <1>2 DEF IInv, ProducerInv, TypeOK, ProducerTypes
  <2>2. tally \in [Counters -> Nat] /\ Cardinality(Sent) \in Nat
    BY <1>1, SentFinite DEF IInv, TypeOK, ProducerTypes
  <2>3. tally'["read"] = tally["read"] + 1 /\ \A c \in Drops : tally'[c] = tally[c]
    BY <1>2 DEF Tallied, Counted, Counters, Drops, Survives, Kept
  <2>4. tally["read"] = tally["geo"] + tally["noAddress"] + tally["category"] + Cardinality(Sent)
    BY <1>1, <1>2, <2>1, <2>2 DEF IInv, TallyInv, Counters, Drops
  <2>5. tally'["read"] = tally'["geo"] + tally'["noAddress"] + tally'["category"]
                           + Cardinality(Sent) + 1
    BY <2>2, <2>3, <2>4 DEF Counters, Drops
  <2>6. QED BY <1>2, <1>3, <2>1, <2>5 DEF TallyInv
<1>11. QED BY <1>5, <1>6, <1>7, <1>8, <1>9, <1>10 DEF IInv

\* A row that is sent leaves the producer and enters the channel.
LEMMA SendStep == IInv /\ Send => IInv'
<1>1. SUFFICES ASSUME IInv, Send PROVE IInv'
  OBVIOUS
<1>2. /\ pos' = pos + 1 /\ input' = input
      /\ rows' = Append(rows, pos) /\ ppc = "send" /\ ppc' = "loop"
      /\ UNCHANGED <<tableVars, mainVars, loaderVars, stage, tally, prodErr>>
  BY <1>1 DEF Send, ProducerUnchanged, tableVars
<1>3. pos <= Len(input) /\ Survives(input, pos)
  BY <1>1, <1>2 DEF IInv, ProducerInv
<1>4. Sent' = Sent \cup {pos} /\ Cardinality(Sent') = Cardinality(Sent) + 1
  BY <1>1, <1>2, <1>3, SentMoves DEF IInv
<1>5. /\ pos \in 1..Len(input) /\ Len(input) \in Nat /\ Cardinality(Sent) \in Nat
      /\ rows \in Seq(1..Len(input)) /\ batch \in Seq(1..Len(input)) /\ total \in Nat
  BY <1>1, <1>3, SentFinite DEF IInv, TypeOK, ProducerTypes, LoaderTypes
<1>6. rows' \in Seq(1..Len(input)) /\ Len(rows') = Len(rows) + 1
      /\ Range(rows') = Range(rows) \cup {pos}
  <2>1. Range(Append(rows, pos)) = Range(rows) \cup {pos}
    BY <1>5, RangeFacts
  <2>2. Append(rows, pos) \in Seq(1..Len(input)) /\ Len(Append(rows, pos)) = Len(rows) + 1
    BY <1>5
  <2>3. QED BY <1>2, <2>1, <2>2
<1>7. TypeOK'
  <2>1. FlagTypes' /\ TableTypes' /\ MainTypes'
    BY <1>1, <1>2 DEF IInv, TypeOK, FlagTypes, TableTypes, MainTypes,
                      tableVars, mainVars, loaderVars
  <2>2. LoaderTypes'
    BY <1>1, <1>2, <1>6 DEF IInv, TypeOK, LoaderTypes, loaderVars
  <2>3. ProducerTypes'
    BY <1>1, <1>2, <1>5 DEF IInv, TypeOK, ProducerTypes
  <2>4. QED BY <2>1, <2>2, <2>3 DEF TypeOK
<1>8. ProducerInv'
  <2>1. input[pos].kind # "broken"
    BY <1>3 DEF Survives, Kept
  <2>2. \A m \in 1..pos'-1 : input'[m].kind # "broken"
    BY <1>1, <1>2, <1>5, <2>1 DEF IInv, ProducerInv
  <2>3. QED BY <1>1, <1>2, <1>5, <2>2 DEF IInv, ProducerInv
<1>9. LoaderInv'
  BY <1>1, <1>2 DEF IInv, LoaderInv, UniqueIds, closed, loaderVars
<1>10. ResultInv'
  BY <1>1, <1>2 DEF IInv, ResultInv, closed, tableVars, mainVars, loaderVars,
                    Survivors, Survives
<1>11. RowsConserved'
  BY <1>1, <1>2, <1>4, <1>5, <1>6 DEF IInv, RowsConserved, loaderVars
<1>12. TallyInv'
  <2>1. tally \in [Counters -> Nat]
    BY <1>1 DEF IInv, TypeOK, ProducerTypes
  <2>2. QED BY <1>1, <1>2, <1>4, <1>5, <2>1 DEF IInv, TallyInv, Counters, Drops
<1>13. QED BY <1>7, <1>8, <1>9, <1>10, <1>11, <1>12 DEF IInv

\* Load's error paths change nothing the invariant speaks of but lpc and loadErr.
LEMMA FailStep ==
  IInv /\ (StatementFails \/ ReceiveCancelled \/ CommitFails) => IInv'
<1>1. SUFFICES ASSUME IInv, StatementFails \/ ReceiveCancelled \/ CommitFails PROVE IInv'
  OBVIOUS
<1>2. /\ UNCHANGED <<tableVars, mainVars, producerVars, rows, batch, total, stage>>
      /\ mainPc = "load" /\ lpc # "returned" /\ lpc' = "returned" /\ loadErr' = TRUE
  BY <1>1 DEF StatementFails, ReceiveCancelled, CommitFails, Fails, Loading, LoaderUnchanged
<1>3. Sent' = Sent
  BY <1>2 DEF Sent, Survives, tableVars, producerVars
<1>4. TypeOK'
  <2>1. FlagTypes' /\ TableTypes' /\ MainTypes'
    BY <1>1, <1>2 DEF IInv, TypeOK, FlagTypes, TableTypes, MainTypes, tableVars, mainVars
  <2>2. ProducerTypes' /\ LoaderTypes'
    BY <1>1, <1>2 DEF IInv, TypeOK, ProducerTypes, LoaderTypes, producerVars, tableVars
  <2>3. QED BY <2>1, <2>2 DEF TypeOK
<1>5. ProducerInv'
  BY <1>1, <1>2 DEF IInv, ProducerInv, Survives, tableVars, mainVars, producerVars
<1>6. LoaderInv'
  BY <1>1, <1>2 DEF IInv, LoaderInv, UniqueIds, tableVars
<1>7. ResultInv'
  BY <1>1, <1>2 DEF IInv, ResultInv, tableVars, mainVars, Survivors, Survives
<1>8. RowsConserved' /\ TallyInv'
  BY <1>1, <1>2, <1>3 DEF IInv, RowsConserved, TallyInv, producerVars
<1>9. QED BY <1>4, <1>5, <1>6, <1>7, <1>8 DEF IInv

\* The calls that set the transaction up, and the closed channel, only move lpc.
LEMMA AdvanceStep ==
  IInv /\ (Setup \/ ReceiveClosed \/ Upsert) => IInv'
<1>1. SUFFICES ASSUME IInv, Setup \/ ReceiveClosed \/ Upsert PROVE IInv'
  OBVIOUS
<1>2. /\ UNCHANGED <<tableVars, mainVars, producerVars, rows, batch, total, loadErr, stage>>
      /\ mainPc = "load" /\ lpc # "returned"
      /\ lpc' \in {"begin", "createStage", "receive", "upsert", "copyLast", "commit"}
  BY <1>1 DEF Setup, ReceiveClosed, Upsert, Loading, LoaderUnchanged
<1>3. Sent' = Sent
  BY <1>2 DEF Sent, Survives, tableVars, producerVars
<1>4. TypeOK'
  <2>1. FlagTypes' /\ TableTypes' /\ MainTypes'
    BY <1>1, <1>2 DEF IInv, TypeOK, FlagTypes, TableTypes, MainTypes, tableVars, mainVars
  <2>2. ProducerTypes' /\ LoaderTypes'
    BY <1>1, <1>2 DEF IInv, TypeOK, ProducerTypes, LoaderTypes, producerVars, tableVars
  <2>3. QED BY <2>1, <2>2 DEF TypeOK
<1>5. ProducerInv'
  BY <1>1, <1>2 DEF IInv, ProducerInv, Survives, tableVars, mainVars, producerVars
<1>6. LoaderInv'
  <2>1. lpc' = "copyLast" => closed /\ rows = <<>>
    BY <1>1 DEF Setup, ReceiveClosed, Upsert
  <2>2. lpc' \in {"upsert", "commit"} => closed /\ rows = <<>> /\ batch = <<>>
    BY <1>1 DEF IInv, LoaderInv, Setup, ReceiveClosed, Upsert
  <2>3. lpc' = "commit" => prodErr # "cancelled"
    BY <1>1 DEF IInv, ProducerInv, Setup, ReceiveClosed, Upsert
  <2>4. QED
    BY <1>1, <1>2, <2>1, <2>2, <2>3
       DEF IInv, LoaderInv, UniqueIds, closed, tableVars, producerVars
<1>7. ResultInv'
  BY <1>1, <1>2 DEF IInv, ResultInv, tableVars, mainVars, Survivors, Survives
<1>8. RowsConserved' /\ TallyInv'
  BY <1>1, <1>2, <1>3 DEF IInv, RowsConserved, TallyInv, producerVars
<1>9. QED BY <1>4, <1>5, <1>6, <1>7, <1>8 DEF IInv

\* A row moves from the channel to the batch.
LEMMA ReceiveStep == IInv /\ Receive => IInv'
<1>1. SUFFICES ASSUME IInv, Receive PROVE IInv'
  OBVIOUS
<1>2. /\ UNCHANGED <<tableVars, mainVars, producerVars, total, loadErr, stage>>
      /\ mainPc = "load" /\ lpc = "receive" /\ lpc' \in {"receive", "copy"}
      /\ rows # <<>> /\ batch' = Append(batch, Head(rows)) /\ rows' = Tail(rows)
  BY <1>1 DEF Receive, Loading, LoaderUnchanged
<1>3. Sent' = Sent /\ Len(input) \in Nat /\ Cardinality(Sent) \in Nat
  BY <1>1, <1>2, SentFinite DEF IInv, Sent, Survives, tableVars, producerVars
<1>4. rows \in Seq(1..Len(input)) /\ batch \in Seq(1..Len(input)) /\ total \in Nat
  BY <1>1 DEF IInv, TypeOK, LoaderTypes
<1>5. /\ Range(rows) = {Head(rows)} \cup Range(rows')
      /\ Head(rows) \in 1..Len(input) /\ rows' \in Seq(1..Len(input))
      /\ Len(rows') = Len(rows) - 1
  BY <1>2, <1>4, RangeFacts
<1>6. /\ batch' \in Seq(1..Len(input)) /\ Len(batch') = Len(batch) + 1
      /\ Range(batch') = Range(batch) \cup {Head(rows)}
  BY <1>2, <1>4, <1>5, RangeFacts
<1>7. TypeOK'
  <2>1. FlagTypes' /\ TableTypes' /\ MainTypes'
    BY <1>1, <1>2 DEF IInv, TypeOK, FlagTypes, TableTypes, MainTypes, tableVars, mainVars
  <2>2. ProducerTypes'
    BY <1>1, <1>2 DEF IInv, TypeOK, ProducerTypes, producerVars, tableVars
  <2>3. LoaderTypes'
    BY <1>1, <1>2, <1>5, <1>6 DEF IInv, TypeOK, LoaderTypes, tableVars
  <2>4. QED BY <2>1, <2>2, <2>3 DEF TypeOK
<1>8. ProducerInv'
  BY <1>1, <1>2 DEF IInv, ProducerInv, Survives, tableVars, mainVars, producerVars
<1>9. LoaderInv'
  BY <1>1, <1>2 DEF IInv, LoaderInv, UniqueIds, tableVars
<1>10. ResultInv'
  BY <1>1, <1>2 DEF IInv, ResultInv, tableVars, mainVars, Survivors, Survives
<1>11. RowsConserved'
  BY <1>1, <1>2, <1>3, <1>4, <1>5, <1>6 DEF IInv, RowsConserved
<1>12. TallyInv'
  BY <1>1, <1>2, <1>3 DEF IInv, TallyInv, producerVars
<1>13. QED BY <1>7, <1>8, <1>9, <1>10, <1>11, <1>12 DEF IInv

\* The rows of the batch move to the stage table.
LEMMA CopyStep == IInv /\ Copy => IInv'
<1>1. SUFFICES ASSUME IInv, Copy PROVE IInv'
  OBVIOUS
<1>2. /\ UNCHANGED <<tableVars, mainVars, producerVars, rows, loadErr>>
      /\ mainPc = "load" /\ lpc \in {"copy", "copyLast"}
      /\ lpc' = IF lpc = "copy" THEN "receive" ELSE "upsert"
      /\ UniqueIds(input, stage \cup Range(batch))
      /\ stage' = stage \cup Range(batch) /\ total' = total + Len(batch) /\ batch' = <<>>
  BY <1>1 DEF Copy, Loading, LoaderUnchanged
<1>3. Sent' = Sent /\ Len(input) \in Nat /\ Cardinality(Sent) \in Nat
  BY <1>1, <1>2, SentFinite DEF IInv, Sent, Survives, tableVars, producerVars
<1>4. /\ rows \in Seq(1..Len(input)) /\ batch \in Seq(1..Len(input)) /\ total \in Nat
      /\ stage \subseteq 1..Len(input)
  BY <1>1 DEF IInv, TypeOK, LoaderTypes
<1>5. Range(batch') = {} /\ Len(batch') = 0 /\ Len(batch) \in Nat
      /\ Range(batch) \subseteq 1..Len(input)
  BY <1>2, <1>4, RangeFacts DEF Range
<1>6. TypeOK'
  <2>1. FlagTypes' /\ TableTypes' /\ MainTypes'
    BY <1>1, <1>2 DEF IInv, TypeOK, FlagTypes, TableTypes, MainTypes, tableVars, mainVars
  <2>2. ProducerTypes'
    BY <1>1, <1>2 DEF IInv, TypeOK, ProducerTypes, producerVars, tableVars
  <2>3. batch' \in Seq(1..Len(input)) /\ stage' \subseteq 1..Len(input) /\ total' \in Nat
    <3>1. <<>> \in Seq(1..Len(input))
      OBVIOUS
    <3>2. stage \cup Range(batch) \subseteq 1..Len(input)
      BY <1>4, <1>5
    <3>3. total + Len(batch) \in Nat
      BY <1>4, <1>5
    <3>4. QED BY <1>2, <3>1, <3>2, <3>3
  <2>4. LoaderTypes'
    BY <1>1, <1>2, <2>3 DEF IInv, TypeOK, LoaderTypes, tableVars
  <2>5. QED BY <2>1, <2>2, <2>4 DEF TypeOK
<1>7. ProducerInv'
  BY <1>1, <1>2 DEF IInv, ProducerInv, Survives, tableVars, mainVars, producerVars
<1>8. LoaderInv'
  BY <1>1, <1>2 DEF IInv, LoaderInv, UniqueIds, closed, tableVars, producerVars
<1>9. ResultInv'
  BY <1>1, <1>2 DEF IInv, ResultInv, tableVars, mainVars, Survivors, Survives
<1>10. RowsConserved'
  BY <1>1, <1>2, <1>3, <1>4, <1>5 DEF IInv, RowsConserved
<1>11. TallyInv'
  BY <1>1, <1>2, <1>3 DEF IInv, TallyInv, producerVars
<1>12. QED BY <1>6, <1>7, <1>8, <1>9, <1>10, <1>11 DEF IInv

\* When COMMIT is sent the stage table holds the survivors of the whole file, no id twice.
LEMMA StageIsComplete ==
  IInv /\ lpc = "commit" => /\ stage = Survivors(input) /\ UniqueIds(input, stage)
                            /\ Sent = stage /\ total = Cardinality(Sent)
                            /\ closed /\ prodErr # "cancelled" /\ ~applied
<1>1. SUFFICES ASSUME IInv, lpc = "commit"
               PROVE  /\ stage = Survivors(input) /\ UniqueIds(input, stage)
                      /\ Sent = stage /\ total = Cardinality(Sent)
                      /\ closed /\ prodErr # "cancelled" /\ ~applied
  OBVIOUS
<1>2. closed /\ rows = <<>> /\ batch = <<>> /\ prodErr # "cancelled" /\ ~applied
      /\ UniqueIds(input, stage)
  BY <1>1 DEF IInv, LoaderInv, ResultInv
<1>3. Range(rows) = {} /\ Range(batch) = {} /\ Len(rows) = 0 /\ Len(batch) = 0
  BY <1>2, RangeFacts
<1>4. total \in Nat /\ Len(input) \in Nat /\ pos \in 1..Len(input)+1
  BY <1>1, SentFinite DEF IInv, TypeOK, LoaderTypes, ProducerTypes
<1>5. Sent = stage /\ total = Cardinality(Sent)
  BY <1>1, <1>3, <1>4 DEF IInv, RowsConserved
<1>6. prodErr = "none" \/ prodErr = "broken"
  BY <1>1, <1>2 DEF IInv, TypeOK, ProducerTypes
<1>7. Survivors(input) = Sent
  <2>1. CASE prodErr = "none"
    <3>1. pos = Len(input) + 1
      BY <1>1, <1>2, <2>1 DEF IInv, ProducerInv, closed
    <3>2. \A m \in 1..Len(input) : input[m].kind # "broken"
      BY <1>1, <1>4, <3>1 DEF IInv, ProducerInv
    <3>3. QED BY <1>4, <3>1, <3>2 DEF Survivors, Sent
  <2>2. CASE prodErr = "broken"
    <3>1. pos \in 1..Len(input) /\ input[pos].kind = "broken"
      BY <1>1, <1>4, <2>2 DEF IInv, ProducerInv
    <3>2. \A m \in 1..pos-1 : input[m].kind # "broken"
      BY <1>1 DEF IInv, ProducerInv
    <3>3. \A k \in 1..Len(input) : (\A m \in 1..k : input[m].kind # "broken") <=> k < pos
      BY <1>4, <3>1, <3>2
    <3>4. QED BY <1>4, <3>1, <3>3 DEF Survivors, Sent
  <2>3. QED BY <1>6, <2>1, <2>2
<1>8. QED BY <1>2, <1>5, <1>7

\* A row written by the upsert is a row, and has the version of its record.
LEMMA UpsertedFacts ==
  ASSUME NEW t \in [Id -> Row \cup {Absent}], NEW s \in Seq(Record),
         NEW K \in SUBSET (1..Len(s)), NEW now \in Nat, UniqueIds(s, K)
  PROVE  /\ Upserted(t, s, K, now) \in [Id -> Row \cup {Absent}]
         /\ \A k \in K : /\ Upserted(t, s, K, now)[s[k].id] # Absent
                         /\ Upserted(t, s, K, now)[s[k].id].version = s[k].version
<1>1. \A k \in K : s[k] \in Record /\ s[k].id \in Id /\ s[k].version \in Version
  <2>1. \A k \in 1..Len(s) : s[k] \in Record
    OBVIOUS
  <2>2. QED BY <2>1 DEF Record
<1>2. \A old \in Row \cup {Absent}, k \in K :
        RowFrom(old, s[k], now) \in Row /\ RowFrom(old, s[k], now).version = s[k].version
  BY <1>1 DEF RowFrom, Row
<1>3. \A k \in K : (CHOOSE m \in K : s[m].id = s[k].id) = k
  BY DEF UniqueIds
<1>4. ASSUME NEW x \in Id
      PROVE  Upserted(t, s, K, now)[x] \in Row \cup {Absent}
  <2>1. CASE \E k \in K : s[k].id = x
    <3>1. (CHOOSE k \in K : s[k].id = x) \in K
      BY <2>1
    <3>2. QED BY <1>2, <2>1, <3>1 DEF Upserted
  <2>2. CASE ~\E k \in K : s[k].id = x
    BY <2>2 DEF Upserted
  <2>3. QED BY <2>1, <2>2
<1>5. ASSUME NEW k \in K
      PROVE  Upserted(t, s, K, now)[s[k].id] = RowFrom(t[s[k].id], s[k], now)
  BY <1>1, <1>3 DEF Upserted
<1>6. Upserted(t, s, K, now) \in [Id -> Row \cup {Absent}]
  BY <1>4 DEF Upserted
<1>7. QED BY <1>1, <1>2, <1>5, <1>6, TableAssumption

\* The commit applies the whole stage table.
LEMMA CommitStep == IInv /\ (Commit \/ CommitAnswerLost) => IInv'
<1>1. SUFFICES ASSUME IInv, Commit \/ CommitAnswerLost PROVE IInv'
  OBVIOUS
<1>2. /\ UNCHANGED <<input, run, mainVars, producerVars, rows, batch, total, stage>>
      /\ mainPc = "load" /\ lpc = "commit" /\ lpc' = "returned" /\ applied' = TRUE
      /\ businesses' = Upserted(businesses, input, stage, run)
      /\ loadErr' \in {loadErr, TRUE}
  BY <1>1 DEF Commit, CommitAnswerLost, CommitApplied, Loading, LoaderUnchanged
<1>3. /\ stage = Survivors(input) /\ UniqueIds(input, stage)
      /\ total = Cardinality(Sent) /\ closed /\ prodErr # "cancelled"
  BY <1>1, <1>2, StageIsComplete
<1>4. Sent' = Sent
  BY <1>2 DEF Sent, Survives, producerVars
<1>5. /\ businesses' \in [Id -> Row \cup {Absent}]
      /\ \A k \in Survivors(input) : /\ businesses'[input[k].id] # Absent
                                     /\ businesses'[input[k].id].version = input[k].version
  <2>1. /\ businesses \in [Id -> Row \cup {Absent}] /\ input \in Seq(Record)
        /\ run \in Nat /\ stage \subseteq 1..Len(input)
    BY <1>1, TableAssumption DEF IInv, TypeOK, TableTypes, LoaderTypes
  <2>2. QED BY <1>2, <1>3, <2>1, UpsertedFacts
<1>6. TypeOK'
  <2>1. FlagTypes'
    BY <1>1, <1>2 DEF IInv, TypeOK, FlagTypes, mainVars
  <2>2. TableTypes' /\ MainTypes'
    BY <1>1, <1>2, <1>5 DEF IInv, TypeOK, TableTypes, MainTypes, mainVars
  <2>3. ProducerTypes' /\ LoaderTypes'
    BY <1>1, <1>2 DEF IInv, TypeOK, ProducerTypes, LoaderTypes, producerVars
  <2>4. QED BY <2>1, <2>2, <2>3 DEF TypeOK
<1>7. ProducerInv'
  BY <1>1, <1>2 DEF IInv, ProducerInv, Survives, mainVars, producerVars
<1>8. LoaderInv'
  BY <1>1, <1>2 DEF IInv, LoaderInv, UniqueIds
<1>9. ResultInv'
  <2>1. Survivors(input)' = Survivors(input)
    BY <1>2 DEF Survivors, Survives
  <2>2. QED BY <1>1, <1>2, <1>3, <1>4, <1>5, <2>1
               DEF IInv, ResultInv, closed, mainVars, producerVars
<1>10. RowsConserved' /\ TallyInv'
  BY <1>1, <1>2, <1>4 DEF IInv, RowsConserved, TallyInv, producerVars
<1>11. QED BY <1>6, <1>7, <1>8, <1>9, <1>10 DEF IInv

\* A stuttering step keeps the invariant.
LEMMA StutterStep == IInv /\ UNCHANGED vars => IInv'
<1>1. SUFFICES ASSUME IInv, UNCHANGED vars PROVE IInv'
  OBVIOUS
<1>2. UNCHANGED <<tableVars, mainVars, producerVars, rows, loaderVars, stage>>
  BY <1>1 DEF vars
<1>3. Sent' = Sent
  BY <1>2 DEF Sent, Survives, tableVars, producerVars
<1>4. TypeOK'
  <2>1. FlagTypes' /\ TableTypes' /\ MainTypes'
    BY <1>1, <1>2 DEF IInv, TypeOK, FlagTypes, TableTypes, MainTypes,
                      tableVars, mainVars, loaderVars
  <2>2. ProducerTypes' /\ LoaderTypes'
    BY <1>1, <1>2 DEF IInv, TypeOK, ProducerTypes, LoaderTypes, producerVars, tableVars, loaderVars
  <2>3. QED BY <2>1, <2>2 DEF TypeOK
<1>5. ProducerInv'
  BY <1>1, <1>2 DEF IInv, ProducerInv, Survives, tableVars, mainVars, producerVars
<1>6. LoaderInv'
  BY <1>1, <1>2 DEF IInv, LoaderInv, UniqueIds, closed, tableVars, producerVars, loaderVars
<1>7. ResultInv'
  BY <1>1, <1>2, <1>3 DEF IInv, ResultInv, closed, tableVars, mainVars, producerVars, loaderVars,
                          Survivors, Survives
<1>8. RowsConserved' /\ TallyInv'
  BY <1>1, <1>2, <1>3 DEF IInv, RowsConserved, TallyInv, producerVars, loaderVars
<1>9. QED BY <1>4, <1>5, <1>6, <1>7, <1>8 DEF IInv

\* The invariant holds in every reachable state (cmd/ingest run, pipeline.go, loader.go).
THEOREM Inductive == Spec => []IInv
<1>1. IInv /\ [Next]_vars => IInv'
  <2>1. IInv /\ Producer => IInv'
    BY ProducerEndStep, DropStep, KeepStep, SendStep DEF Producer
  <2>2. IInv /\ Loader => IInv'
    BY FailStep, AdvanceStep, ReceiveStep, CopyStep, CommitStep DEF Loader
  <2>3. QED BY <2>1, <2>2, MainStep, RunAgainStep, StutterStep DEF Next
<1>2. QED BY InitIInv, <1>1, PTL DEF Spec
-----------------------------------------------------------------------------
\* Every variable of the loader keeps to its domain (cmd/ingest run, loader.go).
THEOREM TypeCorrect == Spec => []TypeOK
<1>1. IInv => TypeOK
  BY DEF IInv
<1>2. QED BY <1>1, Inductive, PTL

\* For every file, batch size and channel capacity, and whatever fails when, each survivor
\* the producer let go is in the channel, the batch or the stage table, counted once
\* (pipeline.go run, loader.go copyAll).
THEOREM NoRowLost == Spec => []RowsConserved
<1>1. IInv => RowsConserved
  BY DEF IInv
<1>2. QED BY <1>1, Inductive, PTL

\* A run that reports success has read the whole file, counted each of its records and
\* left all its survivors in the table (main.go run).
THEOREM SuccessIsComplete == Spec => []ReportedLoadComplete
<1>1. IInv => ReportedLoadComplete
  <2>1. SUFFICES ASSUME IInv, outcome = "ok" PROVE ReportedLoadComplete
    BY DEF ReportedLoadComplete
  <2>2. /\ lpc = "returned" /\ ~loadErr /\ prodErr = "none" /\ applied /\ closed
        /\ total = Cardinality(Sent)
    BY <2>1 DEF IInv, ResultInv
  <2>3. pos = Len(input) + 1 /\ ppc = "exited"
    BY <2>1, <2>2 DEF IInv, ProducerInv, closed
  <2>4. Len(input) \in Nat /\ Cardinality(Sent) \in Nat /\ tally \in [Counters -> Nat]
    BY <2>1, SentFinite DEF IInv, TypeOK, ProducerTypes
  <2>5. \A k \in 1..Len(input) : input[k].kind # "broken"
    BY <2>1, <2>3, <2>4 DEF IInv, ProducerInv
  <2>6. Survivors(input) = Sent
    BY <2>3, <2>4, <2>5 DEF Survivors, Sent
  <2>7. \A k \in Survivors(input) : businesses[input[k].id].version = input[k].version
    BY <2>1, <2>2 DEF IInv, ResultInv
  <2>8. \A k \in 1..Len(input) : Survives(input, k) => k \in Survivors(input)
    BY <2>4, <2>5 DEF Survivors
  <2>9. tally["read"] = total + tally["geo"] + tally["noAddress"] + tally["category"]
    BY <2>1, <2>2, <2>3, <2>4 DEF IInv, TallyInv, Counters, Drops
  <2>10. QED BY <2>1, <2>2, <2>5, <2>6, <2>7, <2>8, <2>9 DEF ReportedLoadComplete
<1>2. QED BY <1>1, Inductive, PTL

\* Interrupted, failed, killed or repeated, the runs of the loader implement the one-step
\* load of Catalog: the table never shows part of a file cut short by a signal, a failed
\* statement or a crash (loader.go Load, main.go run).
THEOREM LoadIsAtomic == Spec => ImplementsCatalog
<1>1. Init => C!Init
  BY DEF Init, C!Init
<1>2. IInv /\ [Next]_vars => [C!Next]_(C!catalogVars)
  <2>1. SUFFICES ASSUME IInv, [Next]_vars PROVE [C!Next]_(C!catalogVars)
    OBVIOUS
  <2>2. CASE Commit \/ CommitAnswerLost
    <3>1. /\ lpc = "commit" /\ applied' = TRUE /\ UNCHANGED <<input, run>>
          /\ businesses' = Upserted(businesses, input, stage, run)
      BY <2>2 DEF Commit, CommitAnswerLost, CommitApplied
    <3>2. stage = Survivors(input) /\ UniqueIds(input, stage) /\ ~applied
      BY <2>1, <3>1, StageIsComplete
    <3>3. /\ C!Survivors(input) = Survivors(input)
          /\ C!UniqueIds(input, stage) = UniqueIds(input, stage)
          /\ C!Upserted(businesses, input, stage, run) = Upserted(businesses, input, stage, run)
      BY DEF C!Survivors, C!Survives, C!Kept, C!UniqueIds, C!Upserted, C!RowFrom,
             Survivors, Survives, Kept, UniqueIds, Upserted, RowFrom
    <3>4. C!UniqueIds(input, C!Survivors(input))
      BY <3>2, <3>3
    <3>5. businesses' = C!Upserted(businesses, input, C!Survivors(input), run)
      BY <3>1, <3>2, <3>3
    <3>6. C!Load
      BY <3>1, <3>2, <3>4, <3>5 DEF C!Load
    <3>7. QED BY <3>6 DEF C!Next
  <2>3. CASE RunAgain
    <3>1. C!NextRun
      BY <2>3 DEF RunAgain, C!NextRun
    <3>2. QED BY <3>1 DEF C!Next
  <2>4. CASE UNCHANGED tableVars
    BY <2>4 DEF C!catalogVars, tableVars
  <2>5. CASE Main \/ Signal \/ Kill
    BY <2>4, <2>5 DEF Main, Start, StartFails, AfterLoad, Report, Signal, Kill
  <2>6. CASE Producer
    BY <2>4, <2>6 DEF Producer, SeesCancel, Eof, ParserError, Drop, Keep, Send, SendCancelled,
                      Publish, Close, ProducerUnchanged
  <2>7. CASE StatementFails \/ Setup \/ ReceiveCancelled \/ Receive \/ ReceiveClosed
               \/ Copy \/ Upsert \/ CommitFails
    BY <2>4, <2>7 DEF StatementFails, Setup, ReceiveCancelled, Receive, ReceiveClosed,
                      Copy, Upsert, CommitFails, Fails
  <2>8. CASE UNCHANGED vars
    BY <2>4, <2>8 DEF vars
  <2>9. QED BY <2>1, <2>2, <2>3, <2>5, <2>6, <2>7, <2>8 DEF Next, Loader
<1>3. QED BY <1>1, <1>2, Inductive, PTL DEF Spec, ImplementsCatalog, C!Spec
===============================================================================
