------------------------------ MODULE MCArchival ------------------------------
EXTENDS BlockchainDatabase, TLC

CONSTANTS g, a1, a2, b1, b2, b3, c2, outside

MCBlock == {g, a1, a2, b1, b2, b3, c2}
MCParent == g :> outside @@ a1 :> g @@ a2 :> a1 @@ b1 :> g @@ b2 :> b1 @@ b3 :> b2 @@ c2 :> a1
MCHeight == g :> 0 @@ a1 :> 1 @@ a2 :> 2 @@ b1 :> 1 @@ b2 :> 2 @@ b3 :> 3 @@ c2 :> 2
MCStrength == g :> 0 @@ a1 :> 1 @@ a2 :> 2 @@ b1 :> 1 @@ b2 :> 2 @@ b3 :> 3 @@ c2 :> 3
MCHeaderValid == MCBlock \ {c2}
MCBodyValid == MCBlock \ {b2}
=============================================================================
