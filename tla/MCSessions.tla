------------------------------ MODULE MCSessions ------------------------------
(***************************************************************************)
(* One tab with two calls, with and without a second tab, for TLC.         *)
(***************************************************************************)
EXTENDS Sessions, TLC

CONSTANTS b1, b2, c1, c2, c3

OneTab  == c1 :> b1 @@ c2 :> b1
TwoTabs == c1 :> b1 @@ c2 :> b1 @@ c3 :> b2
=============================================================================
