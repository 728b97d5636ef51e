------------------------------ MODULE Catalogue ------------------------------
(***************************************************************************)
(* The products of a business and how it sells one of them on the          *)
(* marketplace: its price groups, its listing with a ladder of prices, and *)
(* the buyer who looks at the catalog and orders.  Requests are READ       *)
(* COMMITTED transactions whose first write comes after their reads; the   *)
(* DELETE that empties a ladder removes what its own snapshot shows, so it *)
(* is a read of its own, as is the look for an UPDATE's rows.              *)
(***************************************************************************)
EXTENDS Requests

CONSTANTS
  Barcode,    \* barcodes; the code sees to it that SKUs differ like them
  CopyOf,     \* the barcode a copy of a product gets: its own, changed at the end
  Price,      \* prices of a listing
  Quantity,   \* quantities a buyer asks for
  Step        \* steps of a ladder: the least quantity and the price from there

NoGroup == "public"
GroupRow   == [default : BOOLEAN]
ListingRow == [by : Req \cup {None}, price : Nat, active : BOOLEAN]
Tier       == [group : Req \cup {NoGroup}, min : Nat, price : Nat, by : Req]

ASSUME CatalogueAssumption ==
  /\ CopyOf \in [Barcode -> Barcode] /\ Quantity \subseteq Nat
  /\ Price \subseteq Nat /\ \E p \in Price : \A q \in Price : q =< p
  /\ Step \subseteq [min : Nat, price : Nat]
  /\ None \notin GroupRow \cup ListingRow

VARIABLES
  product,   \* app.products: one per request that creates it
  group,     \* app.price_groups
  listing,   \* the listing of the product that is sold, or None
  ladder,    \* its app.listing_tiers, each with the request that wrote it
  buyer,     \* app.customers: the buyer as the seller knows it, or None
  overlaid   \* what two requests wrote at once (history variable)

catalogueVars == <<product, group, listing, ladder, buyer, overlaid>>

Groups == {g \in Req : group[g] # None}

CatalogueInit ==
  /\ product = [r \in Req |-> None]
  /\ group = [r \in Req |-> None]
  /\ listing = [by |-> None, price |-> Max(Price), active |-> TRUE]
  /\ ladder = {}
  /\ buyer = None
  /\ overlaid = {}

-----------------------------------------------------------------------------
(* resolveUnitPrice: of the steps of one scope that the quantity reaches,  *)
(* the highest; of the group's and the public one, the cheaper.  Two equal *)
(* steps leave the choice to the order of the rows.                        *)
Reached(tiers, g, q) == {t \in tiers : t.group = g /\ t.min =< q}
Best(tiers, g, q) == {t \in Reached(tiers, g, q) :
                        \A u \in Reached(tiers, g, q) : u.min =< t.min}
(* Seeded faults, here and below: definitions with a plausible bug, used   *)
(* only to show that the properties notice it.  Here: a group with a price *)
(* of its own never gets the public one.                                   *)
OwnScopes(tiers, g, q) ==
  {s \in {g, NoGroup} : Best(tiers, s, q) # {} /\ (s = g \/ Best(tiers, g, q) = {})}
Scopes(tiers, g, q) == {s \in {g, NoGroup} : Best(tiers, s, q) # {}}
UnitPrices(price, tiers, g, q) ==
  LET scopes == Scopes(tiers, g, q)
  IN  IF scopes = {} THEN {price}
      ELSE {Min({best[s].price : s \in scopes}) :
              best \in {f \in [scopes -> tiers] : \A s \in scopes : f[s] \in Best(tiers, s, q)}}

-----------------------------------------------------------------------------
Products == {p \in Req : product[p] # None}
LiveProducts == {p \in Products : product[p].live}
(* The check sees live products, the unique key also the deleted ones.     *)
HasConflict(code, but) == \E p \in LiveProducts \ {but} : product[p].code = code
CodeTaken(code, but)   == \E p \in Products \ {but} : product[p].code = code

CreateProduct(r) ==
  /\ Starts(r, "addProduct")
  /\ \E code \in Barcode :
       IF HasConflict(code, r) THEN End(r, "refused")
       ELSE Goto(r, "product", [op |-> "product", of |-> r, code |-> code])
  /\ UNCHANGED catalogueVars

UpdateProduct(r) ==
  /\ Starts(r, "editProduct")
  /\ \E p \in LiveProducts, code \in Barcode :
       IF HasConflict(code, p) THEN End(r, "refused")
       ELSE Goto(r, "product", [op |-> "product", of |-> p, code |-> code])
  /\ UNCHANGED catalogueVars

DuplicateProduct(r) ==
  /\ Starts(r, "duplicate")
  /\ \E p \in LiveProducts :
       Goto(r, "product", [op |-> "product", of |-> r, code |-> CopyOf[product[p].code]])
  /\ UNCHANGED catalogueVars

(* The INSERT or UPDATE, which the unique key may refuse.  An UPDATE finds *)
(* a product that was deleted meanwhile, and changes it.                   *)
WriteProduct(r) ==
  /\ stage[r] = "product"
  /\ LET p == job[r].of IN
     IF CodeTaken(job[r].code, p) THEN End(r, "refused") /\ UNCHANGED product
     ELSE /\ product' = [product EXCEPT ![p] =
               IF p = r THEN [code |-> job[r].code, live |-> TRUE]
               ELSE [@ EXCEPT !.code = job[r].code]]
          /\ End(r, "done")
  /\ UNCHANGED <<group, listing, ladder, buyer, overlaid>>

RemoveProduct(r) ==
  /\ Starts(r, "dropProduct")
  /\ \E p \in LiveProducts : product' = [product EXCEPT ![p].live = FALSE]
  /\ End(r, "done")
  /\ UNCHANGED <<group, listing, ladder, buyer, overlaid>>

-----------------------------------------------------------------------------
(* A new default clears the others first: it finds those that are there.   *)
DefaultGroups == {g \in Groups : group[g].default}
ClearNothing == {}
ClearDefaultGroups == DefaultGroups

CreatePriceGroup(r) ==
  /\ Starts(r, "createGroup")
  /\ \E d \in BOOLEAN :
       Goto(r, "group", [op |-> "createGroup", default |-> d,
                         clear |-> IF d THEN ClearDefaultGroups ELSE {}])
  /\ overlaid' = IF Doing("createGroup") # {} THEN overlaid \cup {"groups"} ELSE overlaid
  /\ UNCHANGED <<product, group, listing, ladder, buyer>>

InsertPriceGroup(r) ==
  /\ stage[r] = "group"
  /\ group' = [g \in Req |->
       IF g = r THEN [default |-> job[r].default]
       ELSE IF g \in job[r].clear \cap Groups THEN [default |-> FALSE] ELSE group[g]]
  /\ End(r, "done")
  /\ UNCHANGED <<product, listing, ladder, buyer, overlaid>>

(* The foreign keys: its tiers go with it, its customers lose their group. *)
DeletePriceGroup(r) ==
  /\ Starts(r, "deleteGroup")
  /\ \E g \in Groups :
       /\ group' = [group EXCEPT ![g] = None]
       /\ ladder' = {t \in ladder : t.group # g}
       /\ buyer' = IF buyer = None \/ buyer # [group |-> g] THEN buyer
                   ELSE [group |-> NoGroup]
  /\ End(r, "done")
  /\ UNCHANGED <<product, listing, overlaid>>

-----------------------------------------------------------------------------
(* A ladder has no two steps of one group at one quantity, and names only  *)
(* groups of the business.                                                 *)
Ladders(r) ==
  {ts \in SUBSET {[group |-> g, min |-> s.min, price |-> s.price, by |-> r] :
                    g \in Groups \cup {NoGroup}, s \in Step} :
     /\ Cardinality(ts) =< 2
     /\ \A t, u \in ts : t.group = u.group /\ t.min = u.min => t = u}

(* Of a ladder that is replaced.                                           *)
PublicSteps(tiers) == {t \in tiers : t.group = NoGroup}
AllSteps(tiers) == tiers
ReplaceTiers(r) ==
  /\ Starts(r, "replaceTiers") /\ listing # None
  /\ \E ts \in Ladders(r) :
       Goto(r, "delete", [op |-> "tiers", of |-> listing.by, new |-> ts, old |-> {}])
  /\ overlaid' = IF Doing("tiers") # {} THEN overlaid \cup {"tiers"} ELSE overlaid
  /\ UNCHANGED <<product, group, listing, ladder, buyer>>

DeleteTiers(r) ==
  /\ stage[r] = "delete"
  /\ Goto(r, "tiers", [job[r] EXCEPT !.old = AllSteps(ladder)])
  /\ UNCHANGED catalogueVars

(* The rows, and COMMIT.  A foreign key refuses a group or a listing that  *)
(* is gone, the unique key a step of a group that another edit wrote; the  *)
(* public steps have no group, and NULLs are never equal.                  *)
InsertTiers(r) ==
  /\ stage[r] = "tiers"
  /\ LET kept == ladder \ job[r].old
         new  == job[r].new
     IN  IF \/ listing = None
            \/ listing # None /\ listing.by # job[r].of
            \/ \E t \in new : t.group \notin Groups \cup {NoGroup}
            \/ \E t \in new, u \in kept : t.group = u.group /\ t.min = u.min /\ t.group # NoGroup
         THEN End(r, "refused") /\ UNCHANGED ladder
         ELSE ladder' = kept \cup new /\ End(r, "done")
  /\ UNCHANGED <<product, group, listing, buyer, overlaid>>

(* One UPDATE for a price and for the listing's being active.              *)
UpdateListing(r) ==
  /\ Starts(r, "updateListing") /\ listing # None
  /\ \E p \in Price, a \in BOOLEAN : listing' = [listing EXCEPT !.price = p, !.active = a]
  /\ End(r, "done")
  /\ UNCHANGED <<product, group, ladder, buyer, overlaid>>

(* The product is listed once: the unique key stands behind the look.      *)
CreateListing(r) ==
  /\ Starts(r, "createListing") /\ listing = None
  /\ \E p \in Price, ts \in Ladders(r) :
       /\ listing' = [by |-> r, price |-> p, active |-> TRUE]
       /\ ladder' = ts
  /\ End(r, "done")
  /\ UNCHANGED <<product, group, buyer, overlaid>>

DeleteListing(r) ==
  /\ Starts(r, "deleteListing") /\ listing # None
  /\ listing' = None /\ ladder' = {}
  /\ End(r, "done")
  /\ UNCHANGED <<product, group, buyer, overlaid>>

-----------------------------------------------------------------------------
GroupOfBuyer == IF buyer = None THEN NoGroup ELSE buyer.group

(* The catalog, where the buyer is priced as the customer it already is;   *)
(* the buyer then orders what it saw.  The seller's plan and its module    *)
(* are taken to be on.                                                     *)
Catalog(r) ==
  /\ Starts(r, "order") /\ status = "active" /\ listing # None /\ listing.active
  /\ \E q \in Quantity :
       \E p \in UnitPrices(listing.price, ladder, GroupOfBuyer, q) :
         Goto(r, "listings", [op |-> "order", qty |-> q, quoted |-> p,
                              listing |-> listing, ladder |-> ladder, asQuoted |-> TRUE,
                              group |-> GroupOfBuyer])
  /\ UNCHANGED catalogueVars

FindListings(r) ==
  /\ stage[r] = "listings"
  /\ IF listing = None \/ status # "active" THEN End(r, "refused")
     ELSE Goto(r, "customer", [job[r] EXCEPT !.listing = listing, !.ladder = ladder,
                 !.asQuoted = job[r].listing = listing /\ job[r].ladder = ladder])
  /\ UNCHANGED catalogueVars

(* A first order makes the buyer a customer of the default price group,    *)
(* even if it is then refused: for a listing that is not active, less than *)
(* the minimum of one, or because another first order inserted the row.    *)
EnsureCustomer(r) ==
  /\ stage[r] = "customer"
  /\ \E g \in IF DefaultGroups = {} THEN {NoGroup} ELSE DefaultGroups :
       buyer' = IF buyer = None THEN [group |-> g] ELSE buyer
  /\ \/ /\ job[r].listing.active
        /\ Goto(r, "price", [job[r] EXCEPT !.group = buyer'.group,
                  !.asQuoted = @ /\ job[r].group \in {NoGroup, buyer'.group}])
     \/ End(r, "refused")
  /\ UNCHANGED <<product, group, listing, ladder, overlaid>>

(* The price the order stores, from what it read.                          *)
Prices(r) == UnitPrices(job[r].listing.price, job[r].ladder, job[r].group, job[r].qty)
PlaceOrder(r) ==
  /\ stage[r] = "price"
  /\ End(r, "done")
  /\ UNCHANGED catalogueVars

CatalogueStep ==
  /\ \E r \in Req :
       \/ CreateProduct(r)    \/ UpdateProduct(r)    \/ DuplicateProduct(r) \/ WriteProduct(r)
       \/ RemoveProduct(r)    \/ CreatePriceGroup(r) \/ InsertPriceGroup(r) \/ DeletePriceGroup(r)
       \/ ReplaceTiers(r)     \/ DeleteTiers(r)      \/ InsertTiers(r)      \/ UpdateListing(r)
       \/ CreateListing(r)    \/ DeleteListing(r)    \/ Catalog(r)          \/ FindListings(r)
       \/ EnsureCustomer(r)   \/ PlaceOrder(r)
  /\ UNCHANGED status

-----------------------------------------------------------------------------
(* While every step of a ladder is a discount, a buyer who orders what the *)
(* catalog showed pays no more than it showed, though the order prices it  *)
(* anew and may have made it a customer of a price group in between;       *)
(* unless the seller changed the listing, or deleted the buyer's group, or *)
(* two edits of the ladder met.                                            *)
Discounts(r) == \A t \in job[r].ladder : t.price =< job[r].listing.price
OrderNeverDearer ==
  \A r \in Doing("order") :
    stage[r] = "price" /\ job[r].asQuoted /\ Discounts(r) /\ "tiers" \notin overlaid =>
      \A p \in Prices(r) : p =< job[r].quoted

LadderIsOneEdit == "tiers" \in overlaid \/ \A t, u \in ladder : t.by = u.by
OneDefaultGroup == "groups" \in overlaid \/ Cardinality(DefaultGroups) =< 1
=============================================================================
