-------------------------------- MODULE Parser --------------------------------
(***************************************************************************)
(* Parser.Next of the loader, byte by byte, on the dump file.  The file is *)
(* a sequence of JSON objects, however separated; what its bytes mean is   *)
(* kept beside the parser as the stack of open brackets and the state of   *)
(* the open string.  The parser knows less: a depth and two flags.         *)
(***************************************************************************)
EXTENDS Integers, Sequences, FiniteSets

CONSTANTS
  MaxOpen,      \* bound on the brackets open at a time
  MaxRecords    \* bound on the records of the file

ASSUME ParserAssumption == MaxOpen \in Nat \ {0} /\ MaxRecords \in Nat

VARIABLES
  open, text,                \* open brackets; "none", "string" or "escape"
  written,                   \* records that are complete in the file
  at,                        \* Next hunts for an object, reads one, or returned for good
  depth, inString, escape,   \* the fields of Parser
  yielded                    \* records Next returned

file   == <<open, text, written>>
parser == <<at, depth, inString, escape, yielded>>

Brackets == {"lbrace", "lbracket"}   \* those that open
Bytes    == Brackets \cup {"rbrace", "rbracket", "quote", "backslash", "comma", "letter"}

TypeOK ==
  /\ open \in Seq(Brackets) /\ Len(open) <= MaxOpen
  /\ text \in {"none", "string", "escape"} /\ written \in 0..MaxRecords
  /\ at \in {"between", "object", "eof", "error"}
  /\ depth \in Nat /\ inString \in BOOLEAN /\ escape \in BOOLEAN /\ yielded \in Nat

Init ==
  /\ open = <<>> /\ text = "none" /\ written = 0
  /\ at = "between" /\ depth = 0 /\ inString = FALSE /\ escape = FALSE /\ yielded = 0
-----------------------------------------------------------------------------
Inside == open # <<>>

Pushed(b) == Append(open, b)
Popped    == SubSeq(open, 1, Len(open) - 1)

\* A byte of the text of a string.
StringByte(b) ==
  /\ text # "none"
  /\ text' = (IF text = "escape" THEN "string"
              ELSE CASE b = "quote" -> "none" [] b = "backslash" -> "escape" [] OTHER -> "string")
  /\ UNCHANGED <<open, written>>

\* A bracket opens a value in an object.
Opens(b) ==
  b \in Brackets /\ Len(open) < MaxOpen /\ open' = Pushed(b) /\ UNCHANGED <<text, written>>

\* A bracket closes the one opened last, and with the last one the record is complete.
Ends(b) ==
  /\ b = (IF open[Len(open)] = "lbrace" THEN "rbrace" ELSE "rbracket")
  /\ open' = Popped
  /\ written' = (IF Len(open) = 1 THEN written + 1 ELSE written)
  /\ UNCHANGED text

\* A byte of an object outside of strings.
ValueByte(b) ==
  /\ text = "none" /\ Inside
  /\ \/ Opens(b) \/ Ends(b)
     \/ b = "quote" /\ text' = "string" /\ UNCHANGED <<open, written>>
     \/ b \in {"comma", "letter"} /\ UNCHANGED file

\* An object begins.
FirstByte(b) ==
  /\ ~Inside /\ written < MaxRecords
  /\ b = "lbrace" /\ open' = Pushed(b) /\ UNCHANGED <<text, written>>
-----------------------------------------------------------------------------
\* Mutant of consume: a quote ends the string even behind a backslash.
consumeUnescaped(b) ==
  /\ escape' = FALSE
  /\ inString' = (inString # (b = "quote"))
  /\ depth' = depth + (IF inString THEN 0
                       ELSE IF b = "lbrace" THEN 1 ELSE IF b = "rbrace" THEN -1 ELSE 0)

consume(b) ==
  /\ escape' = (~escape /\ inString /\ b = "backslash")
  /\ inString' = (inString # (~escape /\ b = "quote"))
  /\ depth' = depth + (IF escape \/ inString THEN 0
                       ELSE IF b = "lbrace" THEN 1 ELSE IF b = "rbrace" THEN -1 ELSE 0)

\* The object closed when its last brace took the depth to 0.
Closes(b) == ~escape /\ ~inString /\ b = "rbrace" /\ depth' = 0

\* Next reads a byte of an object; the first one resets the parser.
Read(b) ==
  /\ at = "object" /\ consume(b)
  /\ IF Closes(b) THEN at' = "between" /\ yielded' = yielded + 1 ELSE UNCHANGED <<at, yielded>>

ReadFirst(b) ==
  /\ at = "between" /\ b = "lbrace"
  /\ at' = "object" /\ depth' = 1 /\ inString' = FALSE /\ escape' = FALSE
  /\ UNCHANGED yielded

ObjectByte ==
  \E b \in Bytes :
    /\ StringByte(b) \/ ValueByte(b) \/ FirstByte(b)
    /\ Read(b) \/ ReadFirst(b)

\* A byte between objects is passed over; another one is an error, and the run ends.
isStructural(b) == b \in {"lbracket", "rbracket", "comma"}

skipToObject ==
  /\ at = "between" /\ ~Inside
  /\ \E b \in Bytes \ {"lbrace"} : ~isStructural(b) /\ at' = "error"
  /\ UNCHANGED <<file, depth, inString, escape, yielded>>

\* Mutant of Eof: the end of the file is the end of the records.
EofClean ==
  /\ at \in {"between", "object"} /\ at' = "eof"
  /\ UNCHANGED <<file, depth, inString, escape, yielded>>

Eof ==
  /\ \/ at = "between" /\ at' = "eof"
     \/ at = "object" /\ at' = "error"
  /\ UNCHANGED <<file, depth, inString, escape, yielded>>

Next == ObjectByte \/ skipToObject \/ Eof

Spec == Init /\ [][Next]_<<file, parser>>
-----------------------------------------------------------------------------
\* Records are neither split nor merged, whatever their strings and nested values hold:
\* Next has returned exactly those the file has completed (ingest/parser.go consume).
RecordsAsWritten == yielded = written /\ (at = "between" => ~Inside) /\ (at = "object" => Inside)

\* The parser stops without an error only in front of or behind a record, never inside one
\* (ingest/parser.go readErr, skipErr).
TruncationNoticed == at = "eof" => ~Inside /\ text = "none"
=============================================================================
