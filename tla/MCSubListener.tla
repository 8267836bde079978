---------------------------- MODULE MCSubListener ----------------------------
(* Finite instances of SubListener for TLC.                                *)
EXTENDS SubListener

CONSTANTS d1, d2, d3, u1, u2

\* A transfer of each kind and two runtime upgrades.
MCKind == (d1 :> "fungible") @@ (d2 :> "nonFungible") @@ (d3 :> "generic")
          @@ (u1 :> "codeUpdated") @@ (u2 :> "codeUpdated")
MCKindOneUpgrade == (d1 :> "fungible") @@ (d2 :> "generic") @@ (u1 :> "codeUpdated")
=============================================================================
