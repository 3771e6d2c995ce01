------------------------------ MODULE Transforms ------------------------------
(***************************************************************************)
(* process of the loader: the pure stages that turn a record of the dump   *)
(* into a row of the businesses table or drop it, and the text that is     *)
(* embedded for the row.                                                   *)
(*                                                                         *)
(* A record has the fields of rawRecord.  Coordinates are in hundredths of *)
(* a degree, seeds in thousandths, a text is the sequence of its           *)
(* paragraphs; the cap of EmbedText, which cuts the tail, is left out.     *)
(***************************************************************************)
EXTENDS Integers, SequencesExt

CONSTANTS
  Records,   \* records of the dump that are JSON objects of the right types
  Null,      \* null, or an absent field
  UUIDs,     \* strings that parse as an id
  Padded,    \* strings with blanks around them, to the string between them
  Lowered,   \* strings with capitals, to the string without
  Florida,   \* addresses that end in the name of the state
  Seed       \* seed01, of an id and a salt

VARIABLES
  record,
  outcome,   \* "read", then how process went
  row        \* the row sent to the loader

TrimSpace(s) == IF s \in DOMAIN Padded THEN Padded[s] ELSE s
ToLower(s)   == IF s \in DOMAIN Lowered THEN Lowered[s] ELSE s

ASSUME RecordAssumption ==
  \A r \in Records :
    /\ DOMAIN r = {"id", "name", "category", "subcategory", "address", "latitude", "longitude",
                   "price_range", "photos", "about", "universal_tags", "specific_tags",
                   "is_claimed"}
    /\ TrimSpace(r.name) # Null

-----------------------------------------------------------------------------
(* Sanitize *)

trimPtr(s) == IF s = Null \/ TrimSpace(s) = "" THEN Null ELSE TrimSpace(s)

tier(s) ==
  CASE s \in {"$", "affordable", "cheap", "budget"}      -> "$"
    [] s \in {"$$", "mid-range", "midrange", "moderate"} -> "$$"
    [] s \in {"$$$", "premium", "upscale"}               -> "$$$"
    [] s \in {"$$$$", "luxury", "expensive"}             -> "$$$$"
    [] OTHER                                             -> Null

\* Mutant of normalizePrice: the words of the dump are kept.
normalizePriceTrimmed(s) == trimPtr(s)

normalizePrice(s) == IF s = Null THEN Null ELSE tier(ToLower(TrimSpace(s)))

\* An absent list is null, and so is one of blanks only.
NonEmpty(list) == IF list = <<>> THEN Null ELSE list

trimEach(in) ==
  IF in = Null THEN Null
  ELSE NonEmpty(SelectSeq([k \in DOMAIN in |-> TrimSpace(in[k])], LAMBDA s : s # ""))

dedupeNonEmpty(in) ==
  LET KeepFirst(out, s) == IF s \in ToSet(out) THEN out ELSE Append(out, s)
  IN IF trimEach(in) = Null THEN Null ELSE FoldLeft(KeepFirst, <<>>, trimEach(in))

Parses(r) == TrimSpace(r.id) \in UUIDs /\ TrimSpace(r.name) # ""

\* Specialty and neighborhood go the way of the address; numbers and hours are carried through.
Sanitize(r) ==
  [r EXCEPT !.id = TrimSpace(@), !.name = TrimSpace(@), !.category = TrimSpace(@),
            !.subcategory = trimPtr(@), !.address = trimPtr(@), !.price_range = normalizePrice(@),
            !.photos = dedupeNonEmpty(@), !.about = trimEach(@),
            !.universal_tags = trimEach(@), !.specific_tags = trimEach(@)]
-----------------------------------------------------------------------------
(* GeoFilter *)

inMiamiBBox(lat, lng) == lat # Null /\ lng # Null /\ lat \in 2510..2610 /\ lng \in -8095..-8005

GeoFilter(lat, lng, address) ==
  CASE inMiamiBBox(lat, lng) \/ address \in Florida      -> "Keep"
    [] lat = Null /\ lng = Null /\ address = Null        -> "DropNoAddress"
    [] OTHER                                             -> "DropNonMiami"
-----------------------------------------------------------------------------
(* Normalize: a map of the code returns "" for a key it does not hold. *)

categoryVariants(raw) ==
  CASE raw = "food & drinks"                                 -> "Food & Drinks"
    [] raw = "beauty"                                        -> "Beauty"
    [] raw \in {"fitness", "fitness & wellness"}             -> "Fitness & Wellness"
    [] raw = "activities & experiences"                      -> "Activities & Experiences"
    [] raw \in {"home", "home services", "home improvement"} -> "Home Improvement"
    [] raw = "grocery"                                       -> "Grocery"
    [] raw \in {"timesavers", "time savers"}                 -> "Time Savers"
    [] raw \in {"car/auto", "auto", "car"}                   -> "Car"
    [] raw = "events"                                        -> "Events"
    [] raw = "pets"                                          -> "Pets"
    [] raw \in {"co-working", "coworking"}                   -> "Co-working"
    [] raw = "other"                                         -> "Other"
    [] OTHER                                                 -> ""

subcategoryVariants(category, sub) ==
  CASE category = "Beauty" /\ sub = "Nails"       -> "Nail Salon"
    [] category = "Beauty" /\ sub = "Hair"        -> "Hair Salon"
    [] category = "Beauty" /\ sub = "Studio"      -> "Spa"
    [] category = "Events" /\ sub = "Photography" -> "Photography & Video"
    [] category = "Events" /\ sub = "DJ"          -> "DJ / Music"
    [] category = "Car" /\ sub = "Towing"         -> "Towing & Roadside"
    [] OTHER                                      -> ""

categoryArchetype(category) ==
  CASE category \in {"Food & Drinks", "Other"}                -> "low_stakes_fast_nearby"
    [] category \in {"Beauty", "Fitness & Wellness", "Car"}   -> "medium_stakes_occasion"
    [] category \in {"Home Improvement", "Events"}            -> "high_stakes_one_time"
    [] category = "Activities & Experiences"                  -> "experiential"
    [] category \in {"Time Savers", "Pets", "Co-working"}     -> "recurring_service"
    [] category = "Grocery"                                   -> "utility_distance_dominant"
    [] OTHER                                                  -> ""

subcategoryArchetype(category, sub) ==
  CASE \/ category = "Pets" /\ sub \in {"Vet", "Training"}
       \/ category = "Car" /\ sub \in {"Repair", "Body & Paint"}   -> "medium_stakes_occasion"
    [] \/ category = "Car" /\ sub \in {"Tires", "Towing & Roadside", "Glass Repair"}
       \/ category = "Co-working" /\ sub \in {"Day Pass", "Meeting Room"}
       \/ category = "Grocery" /\ sub \in {"Supermarket", "Convenience Store"}
                                                                   -> "utility_distance_dominant"
    [] /\ category = "Co-working"
       /\ sub \in {"Hot Desk", "Private Office", "Virtual Office"} -> "recurring_service"
    [] \/ category = "Car" /\ sub = "Detailing"
       \/ /\ category = "Grocery"
          /\ sub \in {"Organic / Health Food", "International / Ethnic", "Butcher / Seafood",
                      "Farmers Market"}                            -> "low_stakes_fast_nearby"
    [] OTHER                                                       -> ""

OrElse(found, default) == IF found # "" THEN found ELSE default

normalizeSubcategory(category, sub) == OrElse(subcategoryVariants(category, sub), sub)

archetypeFor(category, sub) ==
  OrElse(subcategoryArchetype(category, sub), categoryArchetype(category))

Uncategorized(raw) == ToLower(raw) \in {"", "none"}

Bucketed(raw) == categoryVariants(ToLower(raw)) = ""

Normalize(raw, sub) ==
  IF Bucketed(raw)
  THEN [category |-> "Other", subcategory |-> sub, archetype |-> "low_stakes_fast_nearby"]
  ELSE LET category == categoryVariants(ToLower(raw))
           subcategory == normalizeSubcategory(category, sub)
       IN [category |-> category, subcategory |-> subcategory,
           archetype |-> archetypeFor(category, subcategory)]
-----------------------------------------------------------------------------
(* Synthesized signals *)

Claimed(id) == Seed[id, ":claimed"] < 200

FriendCount(id) ==
  IF Seed[id, ":friends"] >= 30 THEN 0 ELSE 1 + (5 * Seed[id, ":friend_n"]) \div 1000

\* The record's own is_claimed goes no further than here.
toBusiness(rb) ==
  LET tax == Normalize(rb.category, rb.subcategory)
  IN [id |-> rb.id, name |-> rb.name, category |-> tax.category, subcategory |-> tax.subcategory,
      archetype |-> tax.archetype, address |-> rb.address, latitude |-> rb.latitude,
      longitude |-> rb.longitude, price_range |-> rb.price_range, photos |-> rb.photos,
      about |-> rb.about, universal_tags |-> rb.universal_tags,
      specific_tags |-> rb.specific_tags, is_claimed |-> Claimed(rb.id),
      friend_count |-> FriendCount(rb.id)]
-----------------------------------------------------------------------------
ReadInit == record \in Records /\ outcome = "read" /\ row = Null

Located(rb) == GeoFilter(rb.latitude, rb.longitude, rb.address)

Decision(rb) ==
  CASE Located(rb) # "Keep"        -> Located(rb)
    [] Uncategorized(rb.category)  -> "TaxonomyDrop"
    [] Bucketed(rb.category)       -> "TaxonomyBucketed"
    [] OTHER                       -> "TaxonomyKeep"

Kept == {"TaxonomyBucketed", "TaxonomyKeep"}

process ==
  /\ outcome = "read"
  /\ outcome' = (IF Parses(record) THEN Decision(Sanitize(record)) ELSE "skipped")
  /\ row' = (IF outcome' \in Kept
             THEN toBusiness(Sanitize(record)) ELSE Null)
  /\ UNCHANGED record

\* The text that is embedded: the lines that are not blank, by their places.
EmbedText(b) ==
  LET line == <<b.name, b.category, b.subcategory, b.universal_tags, b.specific_tags, b.about>>
  IN [k \in {i \in DOMAIN line : line[i] # Null} |-> line[k]]
=============================================================================
