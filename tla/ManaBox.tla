------------------------------- MODULE ManaBox -------------------------------
(***************************************************************************)
(* The functions the ManaBox tools are made of: grades and languages of    *)
(* the two worlds, the Scryfall id of a blueprint, counting copies by      *)
(* match key, comparing a CSV with the inventory, exporting the inventory  *)
(* as a CSV, and planning the import of a CSV.                             *)
(*                                                                         *)
(* A CSV is a sequence of rows, the inventory a sequence of listings; the  *)
(* catalog maps a blueprint to its Scryfall, TCGPlayer and Cardmarket ids. *)
(***************************************************************************)
EXTENDS Naturals, Integers, Sequences, SequencesExt, FiniteSets, FiniteSetsExt

CONSTANT None   \* an absent id, grade or blueprint

-------------------------------------------------------------------------------
(***************************************************************************)
(* Vocabularies                                                            *)
(***************************************************************************)

\* The canonical grade of a ManaBox grade or a CardTrader one.
normalize_condition(c) ==
    CASE c \in {"mint", "near_mint", "Mint", "Near Mint"} -> "near mint"
      [] c \in {"excellent", "Slightly Played"} -> "slightly played"
      [] c \in {"good", "Moderately Played"} -> "moderately played"
      [] c \in {"light_played", "played", "Played", "Heavily Played"} -> "played"
      [] c \in {"poor", "Poor"} -> "damaged"
      [] OTHER -> c

\* Mutant: EU and US grades are taken to be the same words.
manabox_condition_to_ct_by_name(c) ==
    CASE c \in {"mint", "near_mint"} -> "Near Mint"
      [] c = "excellent" -> "Near Mint"
      [] c = "good" -> "Moderately Played"
      [] c \in {"light_played", "played"} -> "Played"
      [] c = "poor" -> "Poor"
      [] OTHER -> None

\* The grade a ManaBox row is listed with, None for an unknown one.
manabox_condition_to_ct(c) ==
    CASE c \in {"mint", "near_mint"} -> "Near Mint"
      [] c = "excellent" -> "Slightly Played"
      [] c = "good" -> "Moderately Played"
      [] c = "light_played" -> "Played"
      [] c = "played" -> "Heavily Played"
      [] c = "poor" -> "Poor"
      [] OTHER -> None

\* Mutant: a line of the table is off by one grade.
ct_condition_to_manabox_shifted(c) ==
    CASE normalize_condition(c) = "near mint" -> "near_mint"
      [] normalize_condition(c) = "slightly played" -> "good"
      [] normalize_condition(c) = "moderately played" -> "good"
      [] normalize_condition(c) = "played" -> "played"
      [] normalize_condition(c) = "" -> "near_mint"
      [] OTHER -> "poor"

\* The grade a canonical one is exported with; a listing without one is taken
\* for near mint.
ct_condition_to_manabox(c) ==
    CASE normalize_condition(c) = "near mint" -> "near_mint"
      [] normalize_condition(c) = "slightly played" -> "excellent"
      [] normalize_condition(c) = "moderately played" -> "good"
      [] normalize_condition(c) = "played" -> "played"
      [] normalize_condition(c) = "damaged" -> "poor"
      [] normalize_condition(c) = "" -> "near_mint"
      [] OTHER -> normalize_condition(c)

normalize_language(l) == IF l \in {"jp", "ja"} THEN "jp" ELSE l

\* The language of a row read from a CSV or written to one.
OrEnglish(l) == IF l = "" THEN "en" ELSE l

-------------------------------------------------------------------------------
(***************************************************************************)
(* The Scryfall id of a blueprint                                          *)
(***************************************************************************)

\* enrich_blueprint_scryfall: CardTrader's own id, else Scryfall's answer for
\* the TCGPlayer id, else for the first Cardmarket id it knows.  found maps
\* an id to Scryfall's answer, None when it has none or the request fails.
ScryfallOf(info, found) ==
    LET asked == <<info.tcg>> \o info.cms
        known == SelectSeq(asked, LAMBDA uid : uid # None /\ found[uid] # None)
    IN  CASE info.scryfall # None -> info.scryfall
          [] info.scryfall = None /\ known # <<>> -> found[known[1]]
          [] OTHER -> None

\* build_scryfall_blueprint_index
Blueprints(catalog, found, scryfall) ==
    {bp \in DOMAIN catalog : ScryfallOf(catalog[bp], found) = scryfall}

-------------------------------------------------------------------------------
(***************************************************************************)
(* Counting and comparing                                                  *)
(***************************************************************************)

\* make_key
MatchKey(scryfall, foil, language, condition, ignore_condition) ==
    <<scryfall, foil, normalize_language(language),
      IF ignore_condition THEN "" ELSE normalize_condition(condition)>>

CsvKey(row, ignore) ==
    MatchKey(row.scryfall, row.foil, OrEnglish(row.language), row.condition, ignore)
ListingKey(l, catalog, found, ignore) ==
    MatchKey(ScryfallOf(catalog[l.blueprint], found), l.foil, l.language, l.condition, ignore)

Copies(s, is(_)) ==
    SumFunctionOnSet([i \in DOMAIN s |-> s[i].quantity], {i \in DOMAIN s : is(s[i])})

\* load_manabox_csv: the copies of each key, and those without a Scryfall id.
\* Rows without copies have their key too.
CsvAggregate(csv, ignore) ==
    LET keyed == {i \in DOMAIN csv : csv[i].scryfall # None}
    IN  [qty |-> [k \in {CsvKey(csv[i], ignore) : i \in keyed} |->
                     Copies(csv, LAMBDA r : r.scryfall # None /\ CsvKey(r, ignore) = k)],
         missing |-> Copies(csv, LAMBDA r : r.scryfall = None)]

\* aggregate_ct_listings
CtAggregate(inventory, catalog, found, ignore) ==
    LET Resolved(l) == ScryfallOf(catalog[l.blueprint], found) # None
        Key(l) == ListingKey(l, catalog, found, ignore)
        keyed == {i \in DOMAIN inventory : Resolved(inventory[i])}
    IN  [qty |-> [k \in {Key(inventory[i]) : i \in keyed} |->
                     Copies(inventory, LAMBDA l : Resolved(l) /\ Key(l) = k)],
         missing |-> Copies(inventory, LAMBDA l : ~Resolved(l))]

\* compare_aggregates: quantities of the keys on both sides and on one.
compare_aggregates(csv, ct) ==
    LET both == DOMAIN csv.qty \cap DOMAIN ct.qty
    IN  [mismatch |-> {k \in both : csv.qty[k] # ct.qty[k]},
         only_in_csv |-> DOMAIN csv.qty \ DOMAIN ct.qty,
         only_on_ct |-> DOMAIN ct.qty \ DOMAIN csv.qty]

\* aggregate_ct_for_manabox_export and rows_from_ct_aggregate, without
\* ignore_condition: a row for each key with copies left.  An absent language
\* is written as English; keys that differ in that keep their rows.
ExportRows(inventory, catalog, found) ==
    LET stocked == Restrict(inventory, {i \in DOMAIN inventory : inventory[i].quantity > 0})
        qty == CtAggregate(stocked, catalog, found, FALSE).qty
        keys == SetToSeq(DOMAIN qty)
    IN  [i \in DOMAIN keys |->
            [scryfall |-> keys[i][1], foil |-> keys[i][2], language |-> OrEnglish(keys[i][3]),
             condition |-> ct_condition_to_manabox(keys[i][4]), quantity |-> qty[keys[i]]]]

-------------------------------------------------------------------------------
(***************************************************************************)
(* Planning an import                                                      *)
(***************************************************************************)

\* Mutant: languages are compared as they are spelt.
ProductKeyAsSpelt(blueprint, foil, language, condition) ==
    <<blueprint, foil, language, condition>>

\* What distinguishes one product of the seller from another.
ProductKey(blueprint, foil, language, condition) ==
    <<blueprint, foil, normalize_language(language), condition>>

\* inventory_product_keys
ExistingKeys(inventory) ==
    {ProductKey(l.blueprint, l.foil, l.language, l.condition) : l \in ToSet(inventory)}

\* plan_import, one row: what becomes of it and as what it is listed.
PlanRow(row, catalog, found, existing) ==
    LET matches == Blueprints(catalog, found, row.scryfall)
        condition == manabox_condition_to_ct(row.condition)
        blueprint == CHOOSE bp \in matches : TRUE
        Error(why) == [action |-> "skip_error", reason |-> why]
        Row(action) == [action |-> action, blueprint |-> blueprint, condition |-> condition]
        product == ProductKey(blueprint, row.foil, OrEnglish(row.language), condition)
    IN  CASE row.scryfall = None -> Error("missing_scryfall_id")
          [] row.scryfall # None /\ condition = None -> Error("unknown_condition")
          [] row.scryfall # None /\ condition # None /\ matches = {} ->
                 Error("blueprint_not_found")
          [] row.scryfall # None /\ condition # None /\ Cardinality(matches) > 1 ->
                 Error("ambiguous_blueprints")
          [] OTHER -> IF product \in existing THEN Row("skip_existing") ELSE Row("create")

plan_import(csv, catalog, found, existing) ==
    [i \in DOMAIN csv |-> PlanRow(csv[i], catalog, found, existing)]
==============================================================================
