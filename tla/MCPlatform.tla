----------------------------- MODULE MCPlatform ------------------------------
(***************************************************************************)
(* Three requests on one business: an owner, a cashier, a warehouse, one   *)
(* user and one product to go, and an administrator with two wrong codes.  *)
(* The mixes keep together what can meet.                                  *)
(***************************************************************************)
EXTENDS Platform

CONSTANTS r1, r2, r3, u1, u2, w1
MCReq == {r1, r2, r3}
MCPerson == {u1, u2}
MCRole0 == u1 :> "owner" @@ u2 :> "cashier"
MCCap == {"stock.out"}
MCNewRoles == {"owner", "cashier"}
MCSignups == {[email |-> "a", name |-> "x"], [email |-> "a", name |-> "y"],
              [email |-> "admin", name |-> "x"]}
MCWarehouse0 == {w1}
MCLimit0 == [res \in Resource |-> IF res = "warehouses" THEN 2 ELSE 1]
MCMixes ==
  {{"login", "refresh", "logout", "reset"},
   {"refresh", "revokeSession", "revokeAll", "crash"},
   {"impersonate", "patchRole", "patchOverrides", "changePassword"},
   {"impersonate", "patchRole", "update"}, {"create", "impersonate", "patchRole"},
   {"console", "update", "remove"}, {"console", "create"},
   {"approve", "reject", "suspend", "login"},
   {"extend", "suspend", "activate", "setMulti", "tick"},
   {"limit", "modules", "createUser", "createProduct", "createWarehouse", "crash"},
   {"createWarehouse", "updateWarehouse", "removeWarehouse", "stock"},
   {"createWarehouse", "removeWarehouse", "settings"}, {"setMulti", "createWarehouse"},
   {"verify", "challenge", "rotateKey"}, {"verify", "crash"},
   {"rows", "sweep"},
   {"checkIn", "checkOut", "togglePause", "hour"},
   {"checkIn", "checkOut", "autoCheckout", "hour", "crash"},
   {"scan", "createExpense", "updateExpense", "removeExpense", "crash"},
   {"createExpense", "addPhoto", "removePhoto", "removeExpense"},
   {"uploadImage", "removeImage", "crash"},
   {"createExpense", "updateExpense", "createCategory", "updateCategory", "removeCategory"},
   {"addProduct", "editProduct", "dropProduct", "duplicate"},
   {"createGroup", "deleteGroup", "replaceTiers", "order"},
   {"createListing", "updateListing", "deleteListing", "replaceTiers", "order"},
   {"move", "scan stock", "read"}, {"remind", "see owner"},
   {"register"}}
Keep == [role |-> "keep", active |-> "keep", modules |-> "keep"]
MCChange == {[Keep EXCEPT !.role = "owner"], [Keep EXCEPT !.role = "cashier"],
             [Keep EXCEPT !.active = "no"], [Keep EXCEPT !.modules = "list"],
             [Keep EXCEPT !.modules = "all"]}
Ask == [multi |-> None, tva |-> None, rates |-> None, standard |-> None]
MCSettings == {[Ask EXCEPT !.multi = "off"], [Ask EXCEPT !.multi = "on", !.tva = "off"],
               [Ask EXCEPT !.tva = "on", !.rates = {0, 7}],
               [Ask EXCEPT !.rates = {0, 7}, !.standard = 7]}
MCBusiness == {u1, u2, "stranger"}
Own(b) == [kind |-> "own", business |-> b, buyer |-> None, parent |-> None]
MCRow0 ==
  w1 :> Own(u1) @@ 1 :> Own(u2)
    @@ 2 :> [kind |-> "order", business |-> u1, buyer |-> u2, parent |-> None]
    @@ 3 :> [kind |-> "line",  business |-> u1, buyer |-> None, parent |-> 2]
MCConn == {"c1", "c2"}
MCExpense0 == "e"
MCKey == {"rent", "wages"}
MCBarcode == {"A", "A0", "B"}
MCCopyOf == [c \in MCBarcode |-> IF c = "A" THEN "A0" ELSE c]
MCStep == {[min |-> 1, price |-> 2], [min |-> 2, price |-> 1]}
Alike == Permutations(MCReq)
=============================================================================
