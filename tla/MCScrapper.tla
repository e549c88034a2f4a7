---------------------------- MODULE MCScrapper ----------------------------
(***************************************************************************)
(* Instances of Scrapper for TLC: two platforms, two colours, two items.   *)
(***************************************************************************)
EXTENDS Scrapper

CONSTANTS n1, n2, i1, i2, white

MCPriceRanges == {<<1, 2>>, <<3, 4>>, <<5, 6>>}
MCFetchOrder == <<"PC", "PS4">>
MCColours == {"Default", white}

Line(id, name, default, painted) ==
    [id |-> id, itemName |-> name,
     prices |-> [c \in MCColours |-> IF c = white THEN painted ELSE default]]

Heading == Line(i1, NoName, NoPrice, NoPrice)

\* The items are listed in another order on the second platform; in the second
\* edition the first item is listed twice, its prices have changed and a price
\* of the second platform is gone.
MCSite ==
    [e \in 0..1 |->
        IF e = 0
        THEN "PC" :> <<Heading, Line(i1, n1, <<1, 2>>, <<3, 4>>)>> @@
             "PS4" :> <<Line(i2, n2, <<5, 6>>, NoPrice), Line(i1, n1, <<1, 2>>, <<1, 2>>)>>
        ELSE "PC" :> <<Line(i1, n1, <<1, 2>>, <<5, 6>>), Line(i1, n1, <<3, 4>>, <<1, 2>>)>> @@
             "PS4" :> <<Line(i1, n1, <<3, 4>>, NoPrice)>>]

\* What Complete and SamePrices suppose about the site.
ASSUME SiteAssumption == RowsAgree /\ OneID
=============================================================================
