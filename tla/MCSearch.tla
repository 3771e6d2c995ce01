------------------------------- MODULE MCSearch -------------------------------
(***************************************************************************)
(* Two locations of one chain, a new business, an established one near it, *)
(* and a load that renames a business, raises its score or adds one.  The  *)
(* de-pin pass swaps twice where one location is new and the other far     *)
(* behind it.  Each query but one names a business.                        *)
(***************************************************************************)
EXTENDS SearchService

MCInfinity == 100

Row(id, name, score, isNew, dropped) ==
  [id |-> id, name |-> name, score |-> score, claimed |-> id = 3, dist |-> id,
   reviews |-> 10, isNew |-> isNew, dropped |-> dropped]

Deli      == Row(1, "Deli", 9, FALSE, FALSE)
DeliTwo   == Row(2, "deli ", 8, FALSE, FALSE)
DeliOld   == Row(1, "Deli", 4, FALSE, FALSE)
Nova      == Row(3, "Nova", 6, TRUE, FALSE)
Corner    == Row(4, "Corner", 7, FALSE, FALSE)
Renamed   == Row(1, "Corner Deli", 9, FALSE, FALSE)
DeliNew   == Row(2, "deli ", 9, TRUE, FALSE)
DeliLow   == Row(2, "deli ", 5, FALSE, FALSE)
Closed    == Row(4, "Corner", 6, FALSE, TRUE)

MCCandidate == {Deli, DeliTwo, Nova, Corner, Renamed, DeliOld, DeliNew, DeliLow, Closed}

MCCatalogs == {
  {Deli, DeliTwo, Nova}, {Deli, DeliTwo, Nova, Corner}, {Renamed, DeliTwo, Nova, Corner},
  {DeliOld, DeliNew, Nova, Corner}, {Deli, DeliNew, Nova, Closed}, {Deli, DeliLow, Nova},
  {Renamed, DeliLow, Nova}, {DeliLow, Nova}}

MCQueries == {"deli", "nova", "corner", "brunch"}
MCCategorical == {"deli"}
MCLexical == [s \in MCQueries |-> CASE s \in {"deli", "brunch"} -> MCCandidate
                                    [] s = "nova" -> {Nova, Deli, DeliTwo, DeliOld, DeliNew, DeliLow}
                                    [] s = "corner" -> {Corner, Closed, Renamed}]
MCSemantic == [s \in MCQueries |-> CASE s \in {"deli", "brunch"} -> {}
                                     [] s = "nova" -> {Corner, Closed}
                                     [] s = "corner" -> {Nova, Deli, DeliTwo, DeliOld, DeliNew, DeliLow}]
MCPassing == [s \in MCQueries |-> IF s = "deli" THEN MCCandidate \ {Nova} ELSE MCCandidate]
MCNamed == [s \in MCQueries |-> CASE s = "deli" -> {Deli, DeliTwo, DeliOld, DeliNew, DeliLow, Renamed}
                                  [] s = "nova" -> {Nova}
                                  [] s = "corner" -> {Corner, Closed, Renamed}
                                  [] s = "brunch" -> {}]
MCNameKey == [n \in {c.name : c \in MCCandidate} |-> IF n = "deli " THEN "Deli" ELSE n]
=============================================================================
