--------------------------- MODULE InventoryMirror ---------------------------
(***************************************************************************)
(* What the publication of stock promises.  A write brings the shop the    *)
(* state for a stock and an offer the warehouse really had: all of it, or  *)
(* without the quantity in stock, if the shop has the module for bulk      *)
(* updates; its stock and its policy apart from each other, and never the  *)
(* quantity in stock, if not.  Nothing is promised about the order of the  *)
(* writes, but once the warehouse stops changing the shop comes to show    *)
(* the present state.                                                      *)
(***************************************************************************)
EXTENDS Integers

CONSTANTS
    StockLevels,        \* values of currentStock
    SupplierOffers,     \* values of the wholesale mapping
    Show(_, _)          \* what a shop should show for a stock and an offer

VARIABLES
    own, offer,         \* the warehouse now
    ownSeen, offerSeen, \* every value they have had
    bulk,               \* the shop has the module
    shop                \* what the shop shows

mirrorVars == <<own, offer, ownSeen, offerSeen, bulk, shop>>

MirrorInit ==
    /\ own \in StockLevels /\ ownSeen = {own}
    /\ offer \in SupplierOffers /\ offerSeen = {offer}
    /\ bulk \in BOOLEAN
    /\ shop = (IF bulk THEN Show(own, offer) ELSE [Show(own, offer) EXCEPT !.inStock = 0])

WarehouseChanges ==
    /\ own' \in StockLevels /\ ownSeen' = ownSeen \cup {own'}
    /\ offer' \in SupplierOffers /\ offerSeen' = offerSeen \cup {offer'}
    /\ UNCHANGED <<bulk, shop>>

Brings(d) ==
    \/ bulk /\ shop' \in {d, [d EXCEPT !.inStock = shop.inStock]}
    \/ ~bulk /\ shop' = [shop EXCEPT !.qty = d.qty, !.outOfStock = d.outOfStock]
    \/ ~bulk /\ shop' = [shop EXCEPT !.policy = d.policy]

ShopShows ==
    /\ \E o \in ownSeen, f \in offerSeen : Brings(Show(o, f))
    /\ UNCHANGED <<own, offer, ownSeen, offerSeen, bulk>>

MirrorNext == WarehouseChanges \/ ShopShows

ShowsPresent ==
    LET d == Show(own, offer)
    IN /\ shop.qty = d.qty /\ shop.outOfStock = d.outOfStock /\ shop.policy = d.policy
       /\ bulk /\ d.inStock > 0 => shop.inStock = d.inStock
CatchesUp == <>[]ShowsPresent

MirrorSafety == MirrorInit /\ [][MirrorNext]_mirrorVars
MirrorSpec == MirrorSafety /\ CatchesUp
=============================================================================
