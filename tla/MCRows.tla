-------------------------------- MODULE MCRows --------------------------------
(***************************************************************************)
(* The dump on its way to the rows a search finds: its bytes, its records  *)
(* and the rows made of them, the words of a query; the name a user types, *)
(* the open status of a business in the course of time, the candidates of  *)
(* a request.  A behaviour is about one of them - the bytes, a query of up *)
(* to three words, a record and a query of up to two, a name, a clock, a   *)
(* table - so that their states add up and do not multiply.                *)
(***************************************************************************)
EXTENDS Parser, LoadedRows, NameMatch, OpenStatus, Retrieval

VARIABLE subject

MCArchetypes == {"low_stakes_fast_nearby", "medium_stakes_occasion", "high_stakes_one_time",
                 "experiential", "recurring_service", "utility_distance_dominant"}
-----------------------------------------------------------------------------
(* Entries of the lexicon of every shape: a word, a pair, a word that is   *)
(* also half of a pair; price, hours, tags, category, subcategory, several *)
(* at once.                                                                *)

Rule(category, sub, universal, specific, price, openNow) ==
  [category |-> category, openNow |-> openNow,
   narrows |-> [s \in slices |-> CASE s = "subcategory" -> sub [] s = "universal" -> universal
                                   [] s = "specific" -> specific [] s = "price" -> price]]

MCLexicon ==
  <<"cheap">>           :> Rule(NoCategory, {}, {}, {}, {"$", "$$"}, FALSE) @@
  <<"fancy">>           :> Rule(NoCategory, {}, {"upscale"}, {}, {"$$$", "$$$$"}, FALSE) @@
  <<"tonight">>         :> Rule(NoCategory, {}, {}, {}, {}, TRUE) @@
  <<"late", "night">>   :> Rule(NoCategory, {}, {"late-night"}, {"late-night-food"}, {}, FALSE) @@
  <<"date", "night">>   :> Rule(NoCategory, {}, {"date-night"}, {}, {}, FALSE) @@
  <<"wedding">>         :> Rule("Events", {"Weddings", "Photography & Video", "DJ / Music",
                                           "Florist", "Catering"}, {}, {}, {}, FALSE) @@
  <<"photographer">>    :> Rule("Events", {"Photography & Video"}, {}, {}, {}, FALSE) @@
  <<"tow">>             :> Rule(NoCategory, {"Towing & Roadside"}, {}, {}, {}, FALSE) @@
  <<"spa">>             :> Rule(NoCategory, {"Spa"}, {}, {}, {}, FALSE) @@
  <<"nails">>           :> Rule(NoCategory, {"Nail Salon"}, {}, {}, {}, FALSE) @@
  <<"restaurant">>      :> Rule("Food & Drinks", {}, {}, {}, {}, FALSE) @@
  <<"sushi">>           :> Rule("Food & Drinks", {}, {}, {"sushi"}, {}, FALSE) @@
  <<"hungry">>          :> Rule("Food & Drinks", {}, {}, {}, {}, TRUE) @@
  <<"i'm", "hungry">>   :> Rule("Food & Drinks", {}, {}, {}, {}, TRUE)

MCTokens == UNION {{t[k] : k \in 1..Len(t)} : t \in DOMAIN MCLexicon} \cup {"joes"}
-----------------------------------------------------------------------------
(* Records of every raw category with every raw subcategory; of every      *)
(* price with tags; of every kind of place; without a valid id or a name.  *)

Plain ==
  [id |-> "a", name |-> "Joes", category |-> "Food & Drinks", subcategory |-> Null,
   address |-> "1 Ocean Dr, Miami, FL", latitude |-> Null, longitude |-> Null,
   price_range |-> Null, photos |-> <<" x ", "x", "">>, about |-> <<" ">>,
   universal_tags |-> Null, specific_tags |-> Null, is_claimed |-> TRUE]

RawCategories == {"FOOD & DRINKS", "Food & Drinks", " Beauty ", "Beauty", "Fitness", "Home Services",
                  "Activities & Experiences", "Grocery", "TimeSavers", "Auto", "Car/Auto", "Events",
                  "Pets", "CoWorking", "Other", "Restaurant", " ", "None"}

RawSubcategories == {Null, " ", " Nails ", "Hair", "Studio", "Spa", "Photography", "DJ", "Towing",
                     "Tires", "Vet", "Hot Desk", "Supermarket"}

ByTaxonomy == {[Plain EXCEPT !.category = c, !.subcategory = s] :
                 c \in RawCategories, s \in RawSubcategories}

Moderate == {"$", "$$", "Affordable", " mid-range "}
Dear     == {"$$$", "Premium", "luxury"}

Upscale   == {<<"upscale">>, <<"", " upscale ", "date-night">>}
DateNight == {<<"", " upscale ", "date-night">>}

ByPrice == {[Plain EXCEPT !.price_range = p, !.universal_tags = u, !.specific_tags = s] :
              p \in Moderate \cup Dear \cup {" ", "free", Null},
              u \in Upscale \cup {<<" ">>, Null}, s \in {<<" sushi ">>, <<>>, Null}}

ByPlace == {[Plain EXCEPT !.address = a, !.latitude = lat, !.longitude = lng] :
              a \in {"1 Ocean Dr, Miami, FL", "1 Main St, Springfield, IL", " ", Null},
              lat \in {Null, 2509, 2510, 2610}, lng \in {Null, -8095, -8005, -8004}}

Broken == {[Plain EXCEPT !.id = i, !.name = n] : i \in {"a", " b ", "?"}, n \in {"Joes", " "}}

MCRecords == ByTaxonomy \cup ByPrice \cup ByPlace \cup Broken

MCPadded == " " :> "" @@ " Beauty " :> "Beauty" @@ " Nails " :> "Nails" @@ " upscale " :> "upscale"
              @@ " sushi " :> "sushi" @@ " mid-range " :> "mid-range" @@ " b " :> "b" @@ " x " :> "x"

MCLowered ==
  "FOOD & DRINKS" :> "food & drinks" @@ "Food & Drinks" :> "food & drinks" @@ "Beauty" :> "beauty"
    @@ "Fitness" :> "fitness" @@ "Home Services" :> "home services"
    @@ "Activities & Experiences" :> "activities & experiences" @@ "Grocery" :> "grocery"
    @@ "TimeSavers" :> "timesavers" @@ "Auto" :> "auto" @@ "Car/Auto" :> "car/auto"
    @@ "Events" :> "events" @@ "Pets" :> "pets" @@ "CoWorking" :> "coworking" @@ "Other" :> "other"
    @@ "Restaurant" :> "restaurant" @@ "None" :> "none"
    @@ "Affordable" :> "affordable" @@ "Premium" :> "premium"

MCFlorida == {"1 Ocean Dr, Miami, FL"}

MCSeed == [is \in {"a", "b"} \X {":claimed", ":friends", ":friend_n"} |->
             IF is[1] = "a" THEN 10 ELSE 990]

\* In the words of the dump.  A leaked Google category is filed under Other, and its own name
\* does not find it.
MCMeans ==
  LET Of(categories, subs) == {r \in MCRecords : r.category \in categories /\ r.subcategory \in subs}
      Food == Of({"FOOD & DRINKS", "Food & Drinks"}, RawSubcategories)
      Tagged(tags) == {r \in MCRecords : r.universal_tags \in tags}
      Priced(prices) == {r \in MCRecords : r.price_range \in prices}
      Photos == Of({"Events"}, {"Photography"})
  IN <<"cheap">> :> Priced(Moderate) @@ <<"fancy">> :> Priced(Dear) \cap Tagged(Upscale)
       @@ <<"tonight">> :> MCRecords @@ <<"late", "night">> :> {}
       @@ <<"date", "night">> :> Tagged(DateNight)
       @@ <<"wedding">> :> Of({"Events"}, {"DJ", "Photography"}) @@ <<"photographer">> :> Photos
       @@ <<"tow">> :> Of({"Auto", "Car/Auto"}, {"Towing"})
       @@ <<"spa">> :> Of(RawCategories, {"Spa"}) \cup Of({" Beauty ", "Beauty"}, {"Studio"})
       @@ <<"nails">> :> Of({" Beauty ", "Beauty"}, {" Nails "})
       @@ <<"restaurant">> :> Food @@ <<"sushi">> :> {r \in Food : r.specific_tags = <<" sushi ">>}
       @@ <<"hungry">> :> Food @@ <<"i'm", "hungry">> :> Food
-----------------------------------------------------------------------------
(* Names of one to five words, with words repeated, and queries of words   *)
(* within and beyond the tolerance of either side.                         *)

MCWords == {"joes", "jos", "pizza", "cafe", "caffee"}

MCChars == "joes" :> 4 @@ "jos" :> 3 @@ "pizza" :> 5 @@ "cafe" :> 4 @@ "caffee" :> 6

MCLevenshtein ==
  [pair \in MCWords \X MCWords |->
     CASE pair[1] = pair[2] -> 0
       [] {pair[1], pair[2]} = {"joes", "jos"} -> 1
       [] {pair[1], pair[2]} = {"cafe", "caffee"} -> 2
       [] OTHER -> 5]

MCNames == {<<"pizza">>, <<"cafe">>, <<"joes", "cafe">>, <<"joes", "joes">>, <<"cafe", "joes", "pizza">>,
            <<"joes", "pizza", "cafe", "joes">>, <<"joes", "pizza", "joes", "pizza", "joes">>,
            <<"pizza", "cafe", "caffee", "joes", "cafe">>}
-----------------------------------------------------------------------------
(* Two days in half hours: every pair of eleven times on the first, a      *)
(* plain, an overnight or a closed second day; closed and missing days.    *)

Time(c, h, mi) == [clock |-> c, h |-> h, mi |-> mi]

Times == {Time("AM", 12, 0), Time("AM", 9, 0), Time("AM", 11, 1), Time("AM", 13, 0),
           Time("PM", 12, 0), Time("PM", 5, 1), Time("PM", 11, 1), Time("PM", 0, 0),
           Time("24", 0, 0), Time("24", 13, 1), Time("other", 0, 0)}

Entry(from, to) == [closed |-> FALSE, open |-> from, close |-> to]
ClosedAllDay == [closed |-> TRUE, open |-> Time("other", 0, 0), close |-> Time("other", 0, 0)]

FirstDays == {Entry(o, c) : o, c \in Times} \cup {ClosedAllDay, NULL}
SecondDays == {Entry(Time("AM", 9, 0), Time("PM", 5, 1)),
               Entry(Time("PM", 5, 1), Time("AM", 2, 0)), ClosedAllDay, NULL}

MCHours == {[d \in 0..1 |-> IF d = 0 THEN f ELSE s] : f \in FirstDays, s \in SecondDays} \cup {NULL}
-----------------------------------------------------------------------------
(* A pool of two and an over-fetch of two: rows found by an exact word, by *)
(* a similar name, by a prefix, by meaning only, by nothing; closed ones   *)
(* and ones of unknown hours; one the overlay drops.                       *)

Row(id, ts, sim, prefix, reviews, hrs) ==
  [id |-> id, ts |-> ts, sim |-> sim, prefix |-> prefix, reviews |-> reviews, dist |-> id,
   open |-> hrs, embedded |-> id # 2, passes |-> id # 9]

MCPool == {
  Row(1, 2, 6, TRUE, 1, "open"),      \* the name, typed out
  Row(2, 0, 4, FALSE, 2, "closed"),   \* a name with a typing error
  Row(3, 0, 1, TRUE, 1, "unknown"),   \* a long name that starts like the query
  Row(4, 1, 0, FALSE, 3, "closed"),   \* a word of the query in its tags
  Row(5, 0, 2, FALSE, 5, "open"),     \* nothing but its meaning
  Row(6, 0, 0, FALSE, 2, "closed"),
  Row(7, 1, 0, FALSE, 3, "closed"),
  Row(8, 0, 0, FALSE, 2, "open"),
  Row(9, 1, 3, TRUE, 9, "open")}

\* The words that ask for open businesses are long ones.
MCRequests == {r \in [text : {"short", "long"}, vec : BOOLEAN, requireOpen : BOOLEAN] :
                 r.requireOpen => r.text = "long"}
-----------------------------------------------------------------------------
lines == <<record, outcome, row>>
candidates == <<businesses, req, semantic_ids>>

MCInit ==
  /\ subject \in {"file", "query", "record", "name", "clock", "table"}
  /\ Init /\ QueryInit /\ ReadInit /\ NameInit /\ ClockInit /\ TableInit
  /\ subject # "record" => record = Plain
  /\ subject # "name" => name = <<"pizza">>
  /\ subject # "clock" => hours = NULL
  /\ subject # "table" => req = CHOOSE r \in Requests : TRUE

OnFile == subject = "file" /\ Next /\ UNCHANGED <<query, lines, name, typed, clock, candidates>>

OnQuery == subject = "query" /\ Type /\ UNCHANGED <<file, parser, lines, name, typed, clock, candidates>>

OnRecord ==
  /\ subject = "record"
  /\ \/ process /\ UNCHANGED query
     \/ row # Null /\ Len(query) < 2 /\ Type /\ UNCHANGED lines
  /\ UNCHANGED <<file, parser, name, typed, clock, candidates>>

OnName == subject = "name" /\ TypeWord /\ UNCHANGED <<file, parser, query, lines, clock, candidates>>

OnClock == subject = "clock" /\ Tick /\ UNCHANGED <<file, parser, query, lines, name, typed, candidates>>

OnTable ==
  /\ subject = "table" /\ (Load \/ Search)
  /\ UNCHANGED <<file, parser, query, lines, name, typed, clock>>

MCNext == (OnFile \/ OnQuery \/ OnRecord \/ OnName \/ OnClock \/ OnTable) /\ UNCHANGED subject

all == <<subject, file, parser, query, lines, name, typed, clock, candidates>>

\* Local time passes.
MCSpec == MCInit /\ [][MCNext]_all /\ WF_all(OnClock /\ UNCHANGED subject)
=============================================================================
