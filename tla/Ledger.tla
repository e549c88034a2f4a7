------------------------------- MODULE Ledger -------------------------------
(***************************************************************************)
(* What the app promises about the portfolio a user keeps on the device:   *)
(* a ledger of entries under ids.  An entry is written once under an id    *)
(* above every id in use, and only when its item has a price; it stays     *)
(* until it is removed; nothing touches two entries at once except the     *)
(* daily price list, and that changes no entry but in its item's prices.   *)
(* Screens, searches, crashes and launches are no part of it.              *)
(***************************************************************************)
EXTENDS ItemPrices

VARIABLE book       \* the entries, by id

Priced(e) == getColourPrice(e.item, e.colour, e.platform) # NoPrice

Init == book = <<>>

\* A new entry, with a fresh id.
Enter ==
    \E id \in DOMAIN book' :
        /\ \A n \in DOMAIN book : n < id
        /\ book' = [n \in DOMAIN book \cup {id} |-> IF n = id THEN book'[id] ELSE book[n]]
        /\ Priced(book'[id])

Remove ==
    \E id \in DOMAIN book : book' = [n \in DOMAIN book \ {id} |-> book[n]]

\* One entry written anew, its price checked as for a new one.
Amend ==
    \E id \in DOMAIN book :
        /\ id \in DOMAIN book'
        /\ book' = [book EXCEPT ![id] = book'[id]]
        /\ Priced(book'[id])

\* One entry's quantity, nothing else of it.
SetQuantity ==
    \E id \in DOMAIN book :
        /\ id \in DOMAIN book'
        /\ book' = [book EXCEPT ![id].quantity = book'[id].quantity]

\* The items of any number of entries, each for one of the same name.
Reprice ==
    /\ DOMAIN book' = DOMAIN book
    /\ \A id \in DOMAIN book :
        /\ book'[id] = [book[id] EXCEPT !.item = book'[id].item]
        /\ book'[id].item.itemName = book[id].item.itemName

Next == Enter \/ Remove \/ Amend \/ SetQuantity \/ Reprice

Spec == Init /\ [][Next]_book
=============================================================================
