-------------------------- MODULE EmbedBackfillProofs --------------------------
(***************************************************************************)
(* What embedding passes guarantee, for any table, any loads beside them,  *)
(* any page size and any texts the embedder rejects.                       *)
(***************************************************************************)
EXTENDS EmbedBackfill, TLAPS, SequenceTheorems

PageRow == [id : Id, text : Version]

TypeOK ==
  /\ businesses \in [Id -> Row \cup {Absent}] /\ before \in [Id -> Row \cup {Absent}]
  /\ loads \in Nat /\ loadsBefore \in Nat /\ pass \in Nat
  /\ onlyMissing \in BOOLEAN /\ limit \in Int
  /\ result \in {"running", "ok", "error"}
  /\ pc \in {"page", "embed", "write", "next"}
  /\ afterID \in Nat /\ asked \in Int
  /\ page \in Seq(PageRow) /\ ids \in Seq(Id) /\ vecs \in Seq(Version)
  /\ stats \in [Scanned : Int, Embedded : Int, Skipped : Int]

Quiet == loads = loadsBefore

\* The table since the pass began.
TableInv ==
  /\ OwnTexts(businesses) /\ OwnTexts(before)
  /\ \A x \in Id : before[x] # Absent => businesses[x] # Absent
  /\ loadsBefore <= loads

\* The page that was read last.
PageInv ==
  pc # "page" =>
    /\ page # <<>> /\ afterID = page[Len(page)].id
    /\ \A a, b \in DOMAIN page : a < b => page[a].id < page[b].id
    /\ \A k \in DOMAIN page :
         /\ businesses[page[k].id] # Absent
         /\ page[k].text \in Texts[page[k].id]
         /\ Quiet => businesses[page[k].id].version = page[k].text

\* What goes to the writer: the vector of every row of the page with text.
WriteInv ==
  pc = "write" =>
    /\ DOMAIN ids = DOMAIN vecs
    /\ \A a, b \in DOMAIN ids : ids[a] = ids[b] => a = b
    /\ \A k \in DOMAIN ids : \E m \in WithText : ids[k] = page[m].id /\ vecs[k] = page[m].text
    /\ \A m \in WithText : \E k \in DOMAIN ids : ids[k] = page[m].id

InFlight(x) == pc \in {"embed", "write"} /\ \E k \in DOMAIN page : page[k].id = x

\* Nothing is left to do for row x.
Done(x) ==
  /\ HadText(x) => businesses[x].embedding # Null
  /\ Quiet /\ ~onlyMissing /\ businesses[x] # Absent /\ businesses[x].version \notin Blank
       => businesses[x].embedding = businesses[x].version

\* Every row up to the cursor is done or on the page in hand, and rows behind the cursor
\* were not written; behind a short page nothing is left.
CursorInv ==
  /\ \A x \in Id : x <= afterID /\ ~InFlight(x) => Done(x)
  /\ pc # "page" /\ Len(page) < asked => \A x \in Id : x > afterID => Done(x)
  /\ \A x \in Id : before[x] # Absent /\ businesses[x].embedding # before[x].embedding =>
       x <= afterID /\ \A k \in DOMAIN page : pc \in {"embed", "write"} => x < page[k].id

OkInv == result = "ok" /\ limit <= 0 => \A x \in Id : Done(x)

IInv == TypeOK /\ TableInv /\ PageInv /\ WriteInv /\ CursorInv /\ OkInv
-----------------------------------------------------------------------------
\* A function on 1..n is a sequence of length n.
LEMMA SequenceOf ==
  ASSUME NEW S, NEW n \in Nat, NEW f \in [1..n -> S]
  PROVE  f \in Seq(S) /\ Len(f) = n /\ DOMAIN f = 1..n
  BY SeqDef

\* A version and a key are ordinary values.
LEMMA Values ==
  /\ Id \subseteq Nat /\ \A x \in Id : x > 0
  /\ Absent \notin Row /\ Null \notin Version
  /\ \A r \in Row : r.version \in Version /\ r.embedding \in Version \cup {Null}
  /\ \A x \in Id : Texts[x] \subseteq Version
  BY BackfillAssumption, TableAssumption DEF Row

\* The rows of the page in hand, each with a key of its own.
LEMMA PageRows ==
  ASSUME IInv
  PROVE  /\ Len(page) \in Nat /\ DOMAIN page = 1..Len(page)
         /\ \A k \in DOMAIN page : page[k].id \in Id /\ page[k].text \in Version
         /\ pc # "page" => \A a, b \in DOMAIN page : page[a].id = page[b].id => a = b
  <1>1. /\ Len(page) \in Nat /\ DOMAIN page = 1..Len(page)
        /\ \A k \in DOMAIN page : page[k] \in PageRow
    BY LenProperties DEF IInv, TypeOK
  <1>2. \A k \in DOMAIN page : page[k].id \in Id /\ page[k].text \in Version
    BY <1>1 DEF PageRow
  <1>3. ASSUME pc # "page", NEW a \in DOMAIN page, NEW b \in DOMAIN page, a < b
        PROVE  page[a].id # page[b].id
    <2>1. page[a].id < page[b].id
      BY <1>3 DEF IInv, PageInv
    <2>2. page[a].id \in Nat
      BY <1>2, Values
    <2> QED
      BY <2>1, <2>2
  <1>4. pc # "page" => \A a, b \in DOMAIN page : page[a].id = page[b].id => a = b
    BY <1>1, <1>3
  <1> QED
    BY <1>1, <1>2, <1>4

\* Init and Rerun: at the start of a pass nothing has been done.
LEMMA InitIInv == Init => IInv
  <1> SUFFICES ASSUME Init PROVE IInv
    OBVIOUS
  <1>1. businesses \in [Id -> Row \cup {Absent}] /\ OwnTexts(businesses)
    BY TableAssumption, BackfillAssumption DEF Init
  <1>2. limit \in Int
    BY BackfillAssumption DEF Init
  <1>3. TypeOK
    BY <1>1, <1>2, EmptySeq DEF Init, TypeOK
  <1>4. TableInv
    BY <1>1 DEF Init, TableInv
  <1>5. CursorInv
    BY Values DEF Init, CursorInv
  <1> QED
    BY <1>3, <1>4, <1>5 DEF IInv, Init, PageInv, WriteInv, OkInv

\* A later run, started over what the earlier ones stored.
LEMMA RerunStep == ASSUME IInv, Rerun PROVE IInv'
  <1>1. limit' \in Int
    BY BackfillAssumption DEF Rerun, Starts
  <1>2. TypeOK'
    BY <1>1, EmptySeq DEF IInv, TypeOK, Rerun, Starts
  <1>3. TableInv'
    BY DEF IInv, TypeOK, TableInv, Rerun, OwnTexts
  <1>4. CursorInv'
    BY Values DEF CursorInv, Rerun, Starts
  <1> QED
    BY <1>2, <1>3, <1>4 DEF IInv, Rerun, Starts, PageInv, WriteInv, OkInv
-----------------------------------------------------------------------------
(* The steps of a pass.                                                      *)

\* Run returns: only its result changes, and success leaves nothing to do.
LEMMA EndsStep ==
  ASSUME IInv, NEW outcome \in {"ok", "error"}, Ends(outcome),
         outcome = "ok" /\ limit <= 0 => \A x \in Id : Done(x)
  PROVE  IInv'
  <1>1. TypeOK'
    BY DEF Ends, args, IInv, TypeOK
  <1>2. TableInv' /\ PageInv' /\ WriteInv'
    BY DEF Ends, args, IInv, TableInv, PageInv, WriteInv, Quiet, OwnTexts, WithText
  <1>3. \A x \in Id : (Done(x)' <=> Done(x)) /\ (InFlight(x)' <=> InFlight(x))
    BY DEF Ends, args, Done, HadText, Quiet, InFlight
  <1>4. CursorInv'
    BY <1>3 DEF Ends, args, IInv, CursorInv
  <1>5. OkInv'
    BY <1>3 DEF Ends, args, OkInv
  <1> QED
    BY <1>1, <1>2, <1>4, <1>5 DEF IInv

\* A row the page query leaves out is done.
LEMMA NotEligible ==
  ASSUME IInv, NEW x \in Id, x > afterID, x \notin Eligible
  PROVE  Done(x)
  BY Values DEF Eligible, Done, HadText, IInv, TypeOK, TableInv

\* The query finds no more rows.
LEMMA NoMoreRowsStep == ASSUME IInv, NoMoreRows PROVE IInv'
  <1>1. \A x \in Id : ~InFlight(x)
    BY DEF NoMoreRows, At, InFlight
  <1>2. \A x \in Id : x <= afterID => Done(x)
    BY <1>1 DEF IInv, CursorInv
  <1>3. \A x \in Id : x > afterID => Done(x)
    BY NotEligible DEF NoMoreRows
  <1>4. \A x \in Id : Done(x)
    BY <1>2, <1>3, Values DEF IInv, TypeOK
  <1> QED
    BY <1>4, EndsStep DEF NoMoreRows

\* The limit is reached.
LEMMA LimitReachedStep == ASSUME IInv, LimitReached PROVE IInv'
  <1>1. limit > 0
    BY BackfillAssumption DEF LimitReached, pageSize, IInv, TypeOK
  <1>2. Ends("ok") /\ ~(limit <= 0)
    BY <1>1 DEF LimitReached, IInv, TypeOK
  <1> QED
    BY <1>2, EndsStep

\* A short page was the last one.
LEMMA LastPageStep == ASSUME IInv, LastPage PROVE IInv'
  <1>1. \A x \in Id : ~InFlight(x)
    BY DEF LastPage, At, InFlight
  <1>2. \A x \in Id : Done(x)
    BY <1>1, Values DEF LastPage, At, IInv, CursorInv, TypeOK
  <1> QED
    BY <1>2, EndsStep DEF LastPage

\* A full page was not.
LEMMA NextPageStep == ASSUME IInv, NextPage PROVE IInv'
  <1>1. TypeOK'
    BY DEF NextPage, args, IInv, TypeOK
  <1>2. TableInv' /\ PageInv' /\ WriteInv'
    BY DEF NextPage, args, IInv, TableInv, PageInv, WriteInv, OwnTexts
  <1>3. \A x \in Id : (Done(x)' <=> Done(x)) /\ ~InFlight(x) /\ ~InFlight(x)'
    BY DEF NextPage, At, args, Done, HadText, Quiet, InFlight
  <1>4. CursorInv'
    BY <1>3 DEF NextPage, args, IInv, CursorInv
  <1>5. OkInv'
    BY DEF NextPage, At, args, OkInv
  <1> QED
    BY <1>1, <1>2, <1>4, <1>5 DEF IInv

\* A page of the first eligible rows is read.
LEMMA ReadPageStep == ASSUME IInv, ReadPage PROVE IInv'
  <1> DEFINE Read(n, keys) ==
        /\ IsPage(keys, pageSize)
        /\ page' = [k \in 1..n |-> [id |-> keys[k], text |-> businesses[keys[k]].version]]
        /\ stats' = [stats EXCEPT !.Scanned = @ + n]
        /\ afterID' = keys[n]
  <1>n. PICK n \in 1..pageSize : \E keys \in [1..n -> Eligible] : Read(n, keys)
    BY DEF ReadPage
  <1>1. PICK keys \in [1..n -> Eligible] : Read(n, keys)
    BY <1>n
  <1>2. n \in Nat /\ n > 0 /\ pageSize \in Int
    BY BackfillAssumption DEF pageSize, IInv, TypeOK
  <1>3. Len(keys) = n /\ DOMAIN keys = 1..n
    BY <1>2, SequenceOf
  <1>4. \A x \in Eligible : x \in Id /\ x > afterID /\ businesses[x] \in Row
    BY DEF Eligible, IInv, TypeOK
  <1>5. page' \in [1..n -> PageRow]
    BY <1>1, <1>4, Values DEF PageRow
  <1>6. page' \in Seq(PageRow) /\ Len(page') = n /\ DOMAIN page' = 1..n
    BY <1>2, <1>5, SequenceOf
  <1>7. \A k \in 1..n : page'[k].id = keys[k] /\ page'[k].text = businesses[keys[k]].version
    BY <1>1
  <1>c. /\ afterID \in Nat /\ keys[n] \in Nat /\ keys[n] > afterID
        /\ \A k \in 1..n : keys[k] \in Nat /\ keys[k] > afterID
    BY <1>1, <1>2, <1>4, Values DEF IInv, TypeOK
  <1>8. TypeOK'
    <2>1. afterID' \in Nat
      BY <1>1, <1>2, <1>4, Values
    <2>2. stats' \in [Scanned : Int, Embedded : Int, Skipped : Int]
      <3>1. stats.Scanned + n \in Int /\ stats' = [stats EXCEPT !.Scanned = stats.Scanned + n]
        BY <1>1, <1>2 DEF IInv, TypeOK
      <3> QED
        BY <3>1 DEF IInv, TypeOK
    <2> QED
      BY <1>2, <1>6, <2>1, <2>2 DEF ReadPage, args, IInv, TypeOK
  <1>9. TableInv'
    BY DEF ReadPage, args, IInv, TableInv, OwnTexts
  <1>10. PageInv'
    <2>1. page' # <<>> /\ afterID' = page'[Len(page')].id
      BY <1>1, <1>2, <1>6, <1>7
    <2>2. \A a, b \in DOMAIN page' : a < b => page'[a].id < page'[b].id
      BY <1>1, <1>3, <1>6, <1>7 DEF IsPage, Increasing
    <2>3. \A k \in 1..n : /\ businesses[keys[k]] # Absent
                           /\ businesses[keys[k]].version \in Texts[keys[k]]
      BY <1>1, <1>4, Values DEF IInv, TableInv, OwnTexts
    <2> QED
      BY <1>1, <1>6, <1>7, <2>1, <2>2, <2>3 DEF PageInv, ReadPage, args
  <1>11. \A x \in Id : Done(x)' <=> Done(x)
    BY DEF ReadPage, args, Done, HadText, Quiet
  <1>12. \A x \in Eligible : x <= keys[n] => \E k \in 1..n : keys[k] = x
    <2> SUFFICES ASSUME NEW x \in Eligible, x <= keys[n], x \notin Range(keys) PROVE FALSE
      BY <1>3 DEF Range
    <2>1. x > keys[n]
      BY <1>1, <1>3 DEF IsPage
    <2>2. x \in Nat /\ keys[n] \in Nat
      BY <1>1, <1>2, <1>4, Values
    <2> QED
      BY <2>1, <2>2
  <1>13. CursorInv'
    <2>1. \A x \in Id : x <= afterID' /\ ~InFlight(x)' => Done(x)'
      <3> SUFFICES ASSUME NEW x \in Id, x <= keys[n], ~InFlight(x)' PROVE Done(x)
        BY <1>1, <1>11
      <3>1. \A k \in 1..n : keys[k] # x
        <4>1. pc' = "embed"
          BY DEF ReadPage
        <4>2. \A k \in DOMAIN page' : page'[k].id # x
          BY <4>1 DEF InFlight
        <4> QED
          BY <4>2, <1>6, <1>7
      <3>2. x <= afterID => Done(x)
        <4>1. ~InFlight(x)
          BY DEF InFlight, ReadPage, At
        <4> QED
          BY <4>1 DEF IInv, CursorInv
      <3>3. x \notin Eligible
        BY <3>1, <1>12
      <3>4. x > afterID => Done(x)
        BY <3>3, NotEligible
      <3> QED
        BY <3>2, <3>4, <1>c, Values
    <2>2. n < pageSize => \A x \in Id : x > afterID' => Done(x)'
      <3> SUFFICES ASSUME n < pageSize, NEW x \in Id, x > keys[n] PROVE Done(x)
        BY <1>1, <1>11
      <3>1. Range(keys) = Eligible
        BY <1>1, <1>3 DEF IsPage
      <3>2. \A k \in 1..n : keys[k] <= keys[n]
        BY <1>1, <1>2, <1>3, <1>4, Values DEF IsPage, Increasing
      <3>3. x \notin Eligible
        BY <3>1, <3>2, <1>3, <1>4, Values DEF Range
      <3>4. x > afterID
        BY <1>c, Values
      <3> QED
        BY <3>3, <3>4, NotEligible
    <2>3. \A x \in Id : before[x] # Absent /\ businesses[x].embedding # before[x].embedding =>
            x <= afterID' /\ \A k \in 1..n : x < page'[k].id
      <3> SUFFICES ASSUME NEW x \in Id,
                          before[x] # Absent, businesses[x].embedding # before[x].embedding
                   PROVE  x <= keys[n] /\ \A k \in 1..n : x < keys[k]
        BY <1>1, <1>7
      <3>1. x <= afterID
        BY DEF IInv, CursorInv
      <3> QED
        BY <3>1, <1>c, Values
    <2> QED
      BY <1>6, <2>1, <2>2, <2>3 DEF CursorInv, ReadPage, args
  <1>14. WriteInv' /\ OkInv'
    BY DEF ReadPage, At, args, WriteInv, OkInv
  <1> QED
    BY <1>8, <1>9, <1>10, <1>13, <1>14 DEF IInv

\* The texts of the page are embedded.
LEMMA EmbedStep == ASSUME IInv, Embed PROVE IInv'
  <1> DEFINE Embedded(n, kept) ==
        /\ Increasing(kept) /\ Range(kept) = WithText
        /\ ids' = KeysOf(kept)
        /\ vecs' = [k \in 1..n |-> page[kept[k]].text]
        /\ stats' = [stats EXCEPT !.Skipped = @ + Len(page) - n]
        /\ pc' = IF n = 0 THEN "next" ELSE "write"
  <1>n. PICK n \in 0..Len(page) : \E kept \in [1..n -> WithText] : Embedded(n, kept)
    BY DEF Embed
  <1>1. PICK kept \in [1..n -> WithText] : Embedded(n, kept)
    BY <1>n
  <1>2. n \in Nat /\ DOMAIN kept = 1..n /\ Len(page) \in Nat
    BY <1>1, LenProperties DEF IInv, TypeOK
  <1>3. \A m \in WithText : m \in DOMAIN page /\ page[m].id \in Id /\ page[m].text \in Version
    BY PageRows DEF WithText
  <1>4. ids' \in [1..n -> Id] /\ vecs' \in [1..n -> Version]
    BY <1>1, <1>2, <1>3 DEF KeysOf
  <1>5. TypeOK'
    <2>1. stats' \in [Scanned : Int, Embedded : Int, Skipped : Int]
      <3>1. /\ stats.Skipped + Len(page) - n \in Int
            /\ stats' = [stats EXCEPT !.Skipped = stats.Skipped + Len(page) - n]
        BY <1>1, <1>2 DEF IInv, TypeOK
      <3> QED
        BY <3>1 DEF IInv, TypeOK
    <2>2. ids' \in Seq(Id) /\ vecs' \in Seq(Version)
      BY <1>2, <1>4, SequenceOf
    <2>3. pc' \in {"page", "embed", "write", "next"}
      BY <1>1
    <2> QED
      BY <2>1, <2>2, <2>3 DEF Embed, args, IInv, TypeOK
  <1>6. TableInv' /\ PageInv' /\ OkInv'
    BY DEF Embed, At, args, IInv, TableInv, PageInv, OkInv, OwnTexts, Quiet
  <1>7. WriteInv'
    <2>1. DOMAIN ids' = 1..n /\ DOMAIN vecs' = 1..n
      BY <1>4
    <2>2. \A k \in 1..n : /\ kept[k] \in WithText
                           /\ ids'[k] = page[kept[k]].id /\ vecs'[k] = page[kept[k]].text
      BY <1>1, <1>2 DEF KeysOf
    <2>3. \A a, b \in 1..n : a < b => ids'[a] # ids'[b]
      <3> SUFFICES ASSUME NEW a \in 1..n, NEW b \in 1..n, a < b PROVE ids'[a] # ids'[b]
        OBVIOUS
      <3>1. kept[a] < kept[b]
        BY <1>1, <1>2 DEF Increasing
      <3>2. page[kept[a]].id < page[kept[b]].id
        BY <3>1, <2>2, <1>3 DEF IInv, PageInv, Embed, At
      <3>3. page[kept[a]].id \in Nat /\ page[kept[b]].id \in Nat
        BY <2>2, <1>3, Values
      <3> QED
        BY <3>2, <3>3, <2>2
    <2>4. \A a, b \in 1..n : ids'[a] = ids'[b] => a = b
      BY <2>3, <1>2
    <2>5. \A m \in WithText : \E k \in 1..n : ids'[k] = page[m].id
      BY <1>1, <1>2, <2>2 DEF Range
    <2>6. page' = page /\ WithText' = WithText
      BY DEF Embed, WithText
    <2> QED
      BY <2>1, <2>2, <2>4, <2>5, <2>6 DEF WriteInv
  <1>8. CursorInv'
    <2>1. \A x \in Id : Done(x)' <=> Done(x)
      BY DEF Embed, args, Done, HadText, Quiet
    <2>2. n = 0 => \A k \in DOMAIN page : page[k].text \in Blank
      BY <1>1, <1>2 DEF WithText, Range
    <2>3. \A x \in Id : InFlight(x) /\ ~InFlight(x)' => Done(x)
      <3> SUFFICES ASSUME NEW x \in Id, InFlight(x), ~InFlight(x)' PROVE Done(x)
        OBVIOUS
      <3>1. PICK k \in DOMAIN page : page[k].id = x
        BY DEF InFlight
      <3>2. n = 0
        BY <1>1, <3>1 DEF InFlight, Embed
      <3>3. page[k].text \in Blank /\ page[k].text \in Texts[x]
        BY <2>2, <3>1, <3>2 DEF IInv, PageInv, Embed, At
      <3>4. Quiet => businesses[x].version \in Blank
        BY <3>1, <3>3 DEF IInv, PageInv, Embed, At
      <3> QED
        BY <3>3, <3>4 DEF Done, HadText
    <2>4. \A x \in Id : x <= afterID /\ ~InFlight(x)' => Done(x)
      BY <2>3 DEF IInv, CursorInv
    <2> QED
      BY <2>1, <2>4 DEF Embed, At, args, IInv, CursorInv
  <1> QED
    BY <1>5, <1>6, <1>7, <1>8 DEF IInv

\* What the page's transaction does to the table.
LEMMA UpdatedRows ==
  ASSUME IInv, At("write"), businesses' = Updated
  PROVE  \A x \in Id :
    \/ /\ businesses'[x] = businesses[x]
       /\ \A m \in WithText : page[m].id # x
    \/ \E m \in WithText : /\ page[m].id = x
                          /\ businesses'[x] = [businesses[x] EXCEPT !.embedding = page[m].text]
  <1> SUFFICES ASSUME NEW x \in Id
               PROVE  \/ /\ businesses'[x] = businesses[x]
                         /\ \A m \in WithText : page[m].id # x
                      \/ \E m \in WithText :
                           /\ page[m].id = x
                           /\ businesses'[x] = [businesses[x] EXCEPT !.embedding = page[m].text]
    OBVIOUS
  <1>1. CASE \E k \in DOMAIN vecs : ids[k] = x
    <2>1. PICK k \in DOMAIN vecs : /\ ids[k] = x
                                  /\ k = (CHOOSE j \in DOMAIN vecs : ids[j] = x)
      BY <1>1
    <2>2. PICK m \in WithText : ids[k] = page[m].id /\ vecs[k] = page[m].text
      BY <2>1 DEF IInv, WriteInv, At
    <2>3. businesses'[x] = [businesses[x] EXCEPT !.embedding = vecs[k]]
      BY <1>1, <2>1 DEF Updated
    <2> QED
      BY <2>1, <2>2, <2>3
  <1>2. CASE ~\E k \in DOMAIN vecs : ids[k] = x
    <2>1. businesses'[x] = businesses[x]
      BY <1>2 DEF Updated
    <2> QED
      BY <1>2, <2>1 DEF IInv, WriteInv, At
  <1> QED
    BY <1>1, <1>2

\* A row of the table after the page's transaction.
LEMMA UpdatedTable ==
  ASSUME IInv, At("write"), businesses' = Updated
  PROVE  /\ businesses' \in [Id -> Row \cup {Absent}]
         /\ \A x \in Id : businesses'[x] = Absent <=> businesses[x] = Absent
         /\ \A x \in Id : businesses[x] # Absent => businesses'[x].version = businesses[x].version
         /\ OwnTexts(businesses')
         /\ \A x \in Id : ~InFlight(x) => businesses'[x] = businesses[x]
         /\ \A x \in Id : \A m \in WithText :
               page[m].id = x => businesses'[x].embedding \in Version
  <1>1. \A m \in WithText : /\ m \in DOMAIN page /\ page[m].id \in Id
                            /\ page[m].text \in Version /\ page[m].text \in Texts[page[m].id]
                            /\ businesses[page[m].id] # Absent
    BY PageRows DEF WithText, IInv, PageInv, At
  <1> DEFINE Set(x, m) == /\ page[m].id = x
                          /\ businesses'[x] = [businesses[x] EXCEPT !.embedding = page[m].text]
  <1>2. \A x \in Id : \/ businesses'[x] = businesses[x] /\ \A m \in WithText : page[m].id # x
                      \/ \E m \in WithText : Set(x, m)
    BY UpdatedRows
  <1>3. ASSUME NEW x \in Id, NEW m \in WithText, Set(x, m)
        PROVE  /\ businesses[x] \in Row /\ businesses'[x] \in Row
               /\ businesses'[x].version = businesses[x].version
               /\ businesses'[x].embedding = page[m].text
    <2>1. businesses[x] \in Row
      BY <1>1, <1>3 DEF IInv, TypeOK
    <2> QED
      BY <2>1, <1>1, <1>3 DEF Row
  <1>4. \A x \in Id : businesses'[x] \in Row \cup {Absent}
    BY <1>2, <1>3 DEF IInv, TypeOK
  <1>5. businesses' \in [Id -> Row \cup {Absent}]
    BY <1>4 DEF Updated
  <1>6. \A x \in Id : /\ businesses'[x] = Absent <=> businesses[x] = Absent
                      /\ businesses[x] # Absent => businesses'[x].version = businesses[x].version
    BY <1>2, <1>3, Values
  <1>7. OwnTexts(businesses')
    <2> SUFFICES ASSUME NEW x \in Id, businesses'[x] # Absent
                 PROVE  /\ businesses'[x].version \in Texts[x]
                        /\ businesses'[x].embedding \in Texts[x] \cup {Null}
      BY DEF OwnTexts
    <2>1. CASE businesses'[x] = businesses[x]
      BY <2>1 DEF IInv, TableInv, OwnTexts
    <2>2. CASE \E m \in WithText : Set(x, m)
      BY <2>2, <1>1, <1>3, Values DEF IInv, TableInv, OwnTexts
    <2> QED
      BY <2>1, <2>2, <1>2
  <1>8. \A x \in Id : ~InFlight(x) => businesses'[x] = businesses[x]
    BY <1>1, <1>2 DEF InFlight, At
  <1>9. \A x \in Id : \A m \in WithText :
          page[m].id = x => businesses'[x].embedding \in Version
    BY <1>1, <1>2, <1>3
  <1> QED
    BY <1>5, <1>6, <1>7, <1>8, <1>9

\* A page is written, answered or not.
LEMMA WriteStep == ASSUME IInv, Write \/ WriteAnswerLost PROVE IInv'
  <1>1. /\ At("write") /\ businesses' = Updated /\ pc' = "next"
        /\ result' \in {"running", "error"}
        /\ UNCHANGED <<loads, pass, onlyMissing, limit, before, loadsBefore, afterID, asked, page, ids, vecs>>
    BY DEF Write, WriteAnswerLost, At, args
  <1>2. TypeOK'
    <2>1. stats' \in [Scanned : Int, Embedded : Int, Skipped : Int]
      <3>1. CASE Write
        <4>1. /\ stats.Embedded + Len(ids) \in Int
              /\ stats' = [stats EXCEPT !.Embedded = stats.Embedded + Len(ids)]
          BY <3>1, LenProperties DEF Write, IInv, TypeOK
        <4> QED
          BY <4>1 DEF IInv, TypeOK
      <3>2. CASE WriteAnswerLost
        BY <3>2 DEF WriteAnswerLost, IInv, TypeOK
      <3> QED
        BY <3>1, <3>2
    <2> QED
      BY <1>1, <2>1, UpdatedTable DEF IInv, TypeOK
  <1>3. TableInv'
    BY <1>1, UpdatedTable DEF IInv, TableInv, OwnTexts
  <1>4. \A k \in DOMAIN page : page[k].id \in Id
    BY PageRows
  <1>5. PageInv'
    BY <1>1, <1>4, UpdatedTable DEF IInv, PageInv, Quiet, At
  <1>6. \A x \in Id : ~InFlight(x) /\ Done(x) => Done(x)'
    BY <1>1, UpdatedTable DEF Done, HadText, Quiet
  <1>7. \A x \in Id : InFlight(x) => Done(x)'
    <2> SUFFICES ASSUME NEW x \in Id, InFlight(x) PROVE Done(x)'
      OBVIOUS
    <2>1. PICK k \in DOMAIN page : page[k].id = x
      BY DEF InFlight
    <2>2. /\ businesses[x] # Absent /\ page[k].text \in Texts[x]
          /\ Quiet => businesses[x].version = page[k].text
      BY <1>1, <2>1 DEF IInv, PageInv, At
    <2>3. CASE page[k].text \in Blank
      BY <1>1, <2>2, <2>3, UpdatedTable DEF Done, HadText, Quiet
    <2>4. CASE page[k].text \notin Blank
      <3>1. k \in WithText
        BY <2>1, <2>4 DEF WithText
      <3>2. businesses'[x].embedding \in Version
        BY <1>1, <2>1, <3>1, UpdatedTable
      <3>3. \A m \in DOMAIN page : page[m].id = x => m = k
        BY <1>1, <2>1, PageRows DEF At
      <3>4. businesses'[x] = [businesses[x] EXCEPT !.embedding = page[k].text]
        <4>1. PICK m \in WithText :
                /\ page[m].id = x
                /\ businesses'[x] = [businesses[x] EXCEPT !.embedding = page[m].text]
          BY <1>1, <2>1, <3>1, UpdatedRows
        <4>2. m = k
          BY <3>3, <4>1 DEF WithText
        <4> QED
          BY <4>1, <4>2
      <3>5. businesses[x] \in Row
        BY <2>2 DEF IInv, TypeOK
      <3>6. businesses'[x].embedding = page[k].text /\ businesses'[x].version = businesses[x].version
        BY <3>4, <3>5 DEF Row
      <3> QED
        BY <1>1, <2>2, <3>2, <3>6, Values DEF Done, HadText, Quiet
    <2> QED
      BY <2>3, <2>4
  <1>8. CursorInv'
    <2>1. \A x \in Id : x <= afterID => Done(x)'
      BY <1>6, <1>7 DEF IInv, CursorInv
    <2>2. \A x \in Id : InFlight(x) => x <= afterID
      <3> SUFFICES ASSUME NEW k \in DOMAIN page PROVE page[k].id <= page[Len(page)].id
        BY <1>1 DEF InFlight, IInv, PageInv, At
      <3>1. Len(page) \in DOMAIN page /\ k \in 1..Len(page)
        BY <1>1, LenProperties, EmptySeq DEF IInv, TypeOK, PageInv, At
      <3>2. page[k].id \in Nat /\ page[Len(page)].id \in Nat
        BY <1>4, <3>1, Values
      <3> QED
        BY <1>1, <3>1, <3>2 DEF IInv, PageInv, At
    <2>3. Len(page) < asked => \A x \in Id : x > afterID => Done(x)'
      BY <1>1, <1>6, <1>7 DEF IInv, CursorInv, At
    <2>4. \A x \in Id : before[x] # Absent /\ businesses'[x].embedding # before[x].embedding =>
            x <= afterID
      BY <1>1, <2>2, UpdatedTable DEF IInv, CursorInv
    <2> QED
      BY <1>1, <2>1, <2>3, <2>4 DEF CursorInv
  <1>9. WriteInv' /\ OkInv'
    BY <1>1 DEF WriteInv, OkInv
  <1> QED
    BY <1>2, <1>3, <1>5, <1>8, <1>9 DEF IInv

\* The embedder rejects the page, or something fails: nothing but the result changes.
LEMMA FailStep == ASSUME IInv, EmbedRejected \/ Fails PROVE IInv'
  BY EndsStep DEF EmbedRejected, Fails

\* A load beside the pass.
LEMMA LoadStep == ASSUME IInv, Load PROVE IInv'
  <1>1. PICK s \in Feeds : /\ UniqueIds(s, Survivors(s))
                           /\ businesses' = Upserted(businesses, s, Survivors(s), loads + 1)
    BY DEF Load
  <1>2. \A k \in DOMAIN s : s[k].version \in Texts[s[k].id] /\ s[k].version \in Version
    <2>1. \A k \in DOMAIN s : s[k] \in Record
      BY TableAssumption, LenProperties
    <2> QED
      BY <2>1, BackfillAssumption DEF Record
  <1>3. Survivors(s) \subseteq DOMAIN s
    BY TableAssumption, LenProperties DEF Survivors
  <1>4. ASSUME NEW x \in Id
        PROVE  /\ businesses'[x] \in Row \cup {Absent}
               /\ businesses[x] # Absent => /\ businesses'[x] # Absent
                                            /\ businesses'[x].embedding = businesses[x].embedding
               /\ businesses'[x] # Absent =>
                    /\ businesses'[x].version \in Texts[x]
                    /\ businesses'[x].embedding \in Texts[x] \cup {Null}
    <2>1. businesses[x] \in Row \cup {Absent} /\ loads + 1 \in Nat
      BY DEF IInv, TypeOK
    <2>2. CASE \E k \in Survivors(s) : s[k].id = x
      <3>1. PICK k \in Survivors(s) : s[k].id = x
                                     /\ k = (CHOOSE j \in Survivors(s) : s[j].id = x)
        BY <2>2
      <3>2. businesses'[x] = RowFrom(businesses[x], s[k], loads + 1)
        BY <1>1, <2>2, <3>1 DEF Upserted
      <3>3. s[k].version \in Texts[x] /\ s[k].version \in Version
        BY <1>2, <1>3, <3>1
      <3>4. businesses'[x] \in Row
        BY <2>1, <3>2, <3>3 DEF RowFrom, Row
      <3>5. /\ businesses'[x].version = s[k].version
            /\ businesses'[x].embedding =
                 IF businesses[x] = Absent THEN Null ELSE businesses[x].embedding
        BY <3>2 DEF RowFrom
      <3> QED
        BY <3>3, <3>4, <3>5, Values DEF IInv, TableInv, OwnTexts
    <2>3. CASE ~\E k \in Survivors(s) : s[k].id = x
      <3>1. businesses'[x] = businesses[x]
        BY <1>1, <2>3 DEF Upserted
      <3> QED
        BY <2>1, <3>1 DEF IInv, TableInv, OwnTexts
    <2> QED
      BY <2>2, <2>3
  <1>5. loads' = loads + 1 /\ UNCHANGED passVars /\ ~Quiet'
    BY DEF Load, IInv, TypeOK, TableInv, Quiet, passVars, args
  <1>6. TypeOK'
    <2>1. businesses' \in [Id -> Row \cup {Absent}]
      BY <1>1, <1>4 DEF Upserted
    <2> QED
      BY <1>5, <2>1 DEF passVars, args, IInv, TypeOK
  <1>7. TableInv'
    BY <1>4, <1>5 DEF passVars, args, IInv, TypeOK, TableInv, OwnTexts
  <1>8. PageInv' /\ WriteInv'
    BY <1>4, <1>5, PageRows DEF passVars, args, IInv, PageInv, WriteInv, WithText
  <1>9. \A x \in Id : Done(x) => Done(x)'
    BY <1>4, <1>5 DEF passVars, args, Done, HadText, IInv, TableInv
  <1>10. \A x \in Id : before[x] # Absent => businesses'[x].embedding = businesses[x].embedding
    BY <1>4 DEF IInv, TableInv
  <1>11. CursorInv'
    BY <1>5, <1>9, <1>10 DEF passVars, args, IInv, CursorInv, InFlight
  <1>12. OkInv'
    BY <1>5, <1>9 DEF passVars, args, IInv, OkInv
  <1> QED
    BY <1>6, <1>7, <1>8, <1>11, <1>12 DEF IInv

\* Stuttering.
LEMMA StutterStep == ASSUME IInv, UNCHANGED vars PROVE IInv'
  <1>1. TypeOK' /\ TableInv' /\ PageInv' /\ WriteInv'
    BY DEF vars, passVars, args, IInv, TypeOK, TableInv, OwnTexts, PageInv, WriteInv, WithText,
           Quiet
  <1>2. \A x \in Id : (Done(x)' <=> Done(x)) /\ (InFlight(x)' <=> InFlight(x))
    BY DEF vars, passVars, args, Done, HadText, Quiet, InFlight
  <1>3. CursorInv' /\ OkInv'
    BY <1>2 DEF vars, passVars, args, IInv, CursorInv, OkInv
  <1> QED
    BY <1>1, <1>3 DEF IInv
-----------------------------------------------------------------------------
\* The invariant holds throughout.
THEOREM Invariance == Spec => []IInv
  <1>1. ASSUME IInv, [Next]_vars PROVE IInv'
    BY <1>1, RerunStep, NoMoreRowsStep, LimitReachedStep, LastPageStep, NextPageStep,
       ReadPageStep, EmbedStep, WriteStep, FailStep, LoadStep, StutterStep
       DEF Next, Pass
  <1> QED
    BY InitIInv, <1>1, PTL DEF Spec

\* Type correctness of the state and of the table (embed.go, embedstore.go).
THEOREM TypeCorrect == Spec => []TypeOK
  BY Invariance, PTL DEF IInv

\* Every vector belongs to a text of its own row (embed.go embedPage).
THEOREM VectorsAreOwn == Spec => []OwnVectors
  <1>1. IInv => OwnVectors
    BY DEF IInv, TableInv, OwnTexts, OwnVectors
  <1> QED
    BY Invariance, <1>1, PTL

\* A successful pass without limit reached every embeddable row that was there, whatever
\* was loaded beside it (embed.go Run).
THEOREM SuccessReachesAll == Spec => []RowsThereAreEmbedded
  <1>1. IInv => RowsThereAreEmbedded
    BY DEF IInv, OkInv, Done, RowsThereAreEmbedded
  <1> QED
    BY Invariance, <1>1, PTL

\* No pass leaves a gap in key order, however it ends (embed.go Run).
THEOREM NoGap == Spec => []NoGapInKeyOrder
  <1>1. IInv => NoGapInKeyOrder
    <2> SUFFICES ASSUME IInv, NEW x \in Id, NEW y \in Id,
                        before[x] # Absent, businesses[x].embedding # before[x].embedding,
                        y < x, HadText(y)
                 PROVE  businesses[y].embedding # Null
      BY DEF NoGapInKeyOrder
    <2>1. /\ x <= afterID
          /\ \A k \in DOMAIN page : pc \in {"embed", "write"} => x < page[k].id
      BY DEF IInv, CursorInv
    <2>2. x \in Nat /\ y \in Nat /\ afterID \in Nat
      BY Values DEF IInv, TypeOK
    <2>3. y <= afterID
      BY <2>1, <2>2
    <2>4. ~InFlight(y)
      BY <2>1, <2>2 DEF InFlight
    <2> QED
      BY <2>3, <2>4 DEF IInv, CursorInv, Done
  <1> QED
    BY Invariance, <1>1, PTL

\* A quiet successful -embed-all leaves no stale vector (embed.go Run).
THEOREM Refreshes == Spec => []QuietPassRefreshes
  <1>1. IInv => QuietPassRefreshes
    BY DEF IInv, OkInv, Done, Quiet, QuietPassRefreshes
  <1> QED
    BY Invariance, <1>1, PTL
=============================================================================
