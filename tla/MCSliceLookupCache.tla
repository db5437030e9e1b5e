------------------------- MODULE MCSliceLookupCache -------------------------
(***************************************************************************)
(* An instance of SliceLookupCache for TLC: two Clerks with the same       *)
(* target and address, one that differs from them in where the target ends *)
(* and the address begins, and one without the cache.                      *)
(***************************************************************************)
EXTENDS SliceLookupCache, TLC

CONSTANTS c1, c2, c3, c4

MCTargetOf ==
  (c1 :> <<"t">>) @@ (c2 :> <<"t">>) @@ (c3 :> <<"t", "h">>) @@ (c4 :> <<"t">>)

MCAddressOf ==
  (c1 :> <<"h", "i">>) @@ (c2 :> <<"h", "i">>) @@ (c3 :> <<"i">>) @@ (c4 :> <<"i">>)
=============================================================================
