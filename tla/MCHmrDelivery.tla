--------------------------- MODULE MCHmrDelivery ---------------------------
(* A small application: the entry e imports a and import()s the route r.   *)
(* Edits make r or a import b, and b change from ESM to CommonJS.          *)
EXTENDS HmrDelivery, TLC
CONSTANTS e, r, a, b
Esm(imports) == [imports |-> imports, cjs |-> FALSE]
MCFirstImports == (e :> {a}) @@ (r :> {a}) @@ (a :> {}) @@ (b :> {})
MCShapes == (e :> {}) @@ (r :> {Esm({a, b})}) @@ (a :> {Esm({}), Esm({b})})
            @@ (b :> {[imports |-> {}, cjs |-> TRUE]})
=============================================================================
