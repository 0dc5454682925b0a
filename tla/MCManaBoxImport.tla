--------------------------- MODULE MCManaBoxImport ---------------------------
(***************************************************************************)
(* Four blueprints: one CardTrader knows the Scryfall id of, one that only *)
(* TCGPlayer's id leads to, and two that share a card.                     *)
(***************************************************************************)
EXTENDS ManaBoxImport

MCCatalog ==
    <<[scryfall |-> "s1", tcg |-> None, cms |-> <<>>],
      [scryfall |-> None, tcg |-> "t2", cms |-> <<"c2">>],
      [scryfall |-> "s3", tcg |-> None, cms |-> <<>>],
      [scryfall |-> None, tcg |-> "t4", cms |-> <<"c4", "c5">>]>>

MCFull == [t2 |-> "s2", c2 |-> None, t4 |-> None, c4 |-> None, c5 |-> "s3"]

\* Every request may fail; a failed lookup looks like an unknown id.
MCLookups == {MCFull, [MCFull EXCEPT !.t2 = None], [MCFull EXCEPT !.c5 = None]}

Row(scryfall, foil, language, condition, quantity) ==
    [scryfall |-> scryfall, foil |-> foil, language |-> language,
     condition |-> condition, quantity |-> quantity]

Listing(blueprint, language, condition, quantity) ==
    [blueprint |-> blueprint, foil |-> FALSE, language |-> language,
     condition |-> condition, quantity |-> quantity]

\* Two rows of one product and another language; grades on either side of the
\* tables; an ambiguous card; a row without id, an unknown grade, no copies, no
\* language.
MCCsvFiles ==
    {<<Row("s1", FALSE, "ja", "excellent", 1), Row("s1", FALSE, "jp", "excellent", 2),
       Row("s2", TRUE, "en", "light_played", 1)>>,
     <<Row("s1", FALSE, "", "played", 1), Row("s2", FALSE, "en", "mint", 1),
       Row("s1", FALSE, "en", "poor", 0)>>,
     <<Row("s1", FALSE, "en", "good", 1), Row("s3", FALSE, "en", "near_mint", 1)>>,
     <<Row("s1", FALSE, "en", "good", 1), Row(None, FALSE, "en", "near_mint", 1)>>,
     <<Row("s1", FALSE, "en", "bent", 1), Row("s2", FALSE, "en", "near_mint", 1)>>}

\* Listings of several grades and languages, sold out ones, and one without grade
\* and language, which comes back from a CSV as a card that is there too.
MCStocks ==
    {<<>>, <<Listing(1, "en", "Played", 2), Listing(2, "en", "Near Mint", 1),
             Listing(3, "jp", "Mint", 1), Listing(1, "en", "Poor", 0),
             Listing(2, "en", "Mint", 0), Listing(2, "", "", 1)>>}

\* What the theorems assume of Scryfall's answers holds of these.
ASSUME MCAnswers == OneBlueprint /\ SameCard
==============================================================================
