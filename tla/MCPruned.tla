------------------------------ MODULE MCPruned ------------------------------
EXTENDS BlockchainDatabase, TLC

CONSTANTS g, a1, a2, a3, b1, outside

MCBlock == {g, a1, a2, a3, b1}
MCParent == g :> outside @@ a1 :> g @@ a2 :> a1 @@ a3 :> a2 @@ b1 :> g
MCHeight == g :> 0 @@ a1 :> 1 @@ a2 :> 2 @@ a3 :> 3 @@ b1 :> 1
MCStrength == g :> 0 @@ a1 :> 1 @@ a2 :> 2 @@ a3 :> 3 @@ b1 :> 5
MCHeaderValid == MCBlock
MCBodyValid == MCBlock
MCForkInvalid == MCBlock \ {b1}
=============================================================================
