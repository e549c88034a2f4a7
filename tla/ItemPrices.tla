----------------------------- MODULE ItemPrices -----------------------------
(***************************************************************************)
(* The item and price structures every screen of the app shares            *)
(* (structs.swift) and the lookup of one colour's price on one platform    *)
(* (functions.swift, getColourPrice).                                      *)
(*                                                                         *)
(* The 56 optional fields of the Swift struct prices (pc_price,            *)
(* black_pc_price, ..., purple_xbox_price) are one function from a colour  *)
(* and a platform to a price range or NoPrice.  A platform stands for all  *)
(* its spellings ("Switch", "SWITCH"): every use of an investment's        *)
(* platform in the app compares platform.uppercased().                     *)
(***************************************************************************)
EXTENDS Integers, Sequences, FiniteSets

CONSTANTS
    ItemNames,      \* itemName of the catalogue's items
    Colours,        \* "Default", "Black", ..., "Purple"
    Platforms,      \* "PC", "PS4", "SWITCH", "XBOX"
    DefaultColour,  \* "Default"
    PriceRanges,    \* pairs <<lower bound, upper bound>> of credits
    NoPrice         \* nil: the item has no such colour on that platform

ASSUME PricesAssumption ==
    /\ DefaultColour \in Colours
    /\ \A p \in PriceRanges : p \in Nat \X Nat
    /\ NoPrice \notin PriceRanges

prices == [Colours \X Platforms -> PriceRanges \cup {NoPrice}]

decodingitem == [itemName : ItemNames, itemPriceRange : prices]

\* The two nested ladders of comparisons: nil unless both are recognised.
getColourPrice(item, colour, onPlatform) ==
    IF colour \in Colours /\ onPlatform \in Platforms
    THEN item.itemPriceRange[<<colour, onPlatform>>]
    ELSE NoPrice

\* The members of a finite set of positions, in order.
Ascending(S) ==
    CHOOSE p \in [1..Cardinality(S) -> S] :
        \A i, j \in 1..Cardinality(S) : i < j => p[i] < p[j]
=============================================================================
