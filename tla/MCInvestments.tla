--------------------------- MODULE MCInvestments ---------------------------
(***************************************************************************)
(* Instances of Investments for TLC: two item names, the second of which   *)
(* contains a space, one platform or two, and price lists in which every   *)
(* price is present, one is gone, or one name occurs twice, and one item   *)
(* that the chart finds no address for.                                    *)
(***************************************************************************)
EXTENDS Investments

CONSTANTS n1, n2, red

Low == <<1, 2>>
High == <<3, 4>>
MCPriceRanges == {Low, High}

MCSearchTexts == {"", " ", "n1"}
MCHits == [t \in MCSearchTexts |->
             CASE t = "" -> {} [] t = " " -> {n2} [] t = "n1" -> {n1}]

\* Two texts, " " found in no name.
TwoTexts == {"", " "}
NoHits == [t \in TwoTexts |-> {}]

\* An item with the same price in every colour and on every platform.
Item(name, price) ==
    [itemName |-> name, itemPriceRange |-> [c \in Colours \X Platforms |-> price]]

\* The same item, not available in colour red.
Unpainted(item) ==
    [item EXCEPT !.itemPriceRange =
        [c \in Colours \X Platforms |-> IF c[1] = red THEN NoPrice ELSE @[c]]]

OneCatalogue == {<<Item(n1, Low), Item(n2, Low)>>}

\* The second item, or the dearer one, has a url name that makes no URL.
Unlinked == {Item(n2, Low)}
UnlinkedHigh == {Item(n1, High)}

ShortCatalogue == {<<Item(n1, Low)>>}

\* Lists of one name: complete, with red gone, with dearer prices, and with
\* the name twice.
ManyCatalogues ==
    { <<Item(n1, Low)>>,
      <<Unpainted(Item(n1, Low))>>,
      <<Item(n1, High), Item(n1, Low)>>,
      <<>> }
=============================================================================
