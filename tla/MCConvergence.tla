--------------------------- MODULE MCConvergence ---------------------------
EXTENDS BlockchainDatabase, TLC

CONSTANTS g, a1, a2, a3, b2, b3, outside

MCBlock == {g, a1, a2, a3, b2, b3}
MCParent == g :> outside @@ a1 :> g @@ a2 :> a1 @@ b2 :> a1 @@ b3 :> b2 @@ a3 :> a2
MCHeight == g :> 0 @@ a1 :> 1 @@ a2 :> 2 @@ b2 :> 2 @@ b3 :> 3 @@ a3 :> 3
MCStrength == g :> 0 @@ a1 :> 1 @@ a2 :> 2  @@ b2 :> 2 @@ b3 :> 4 @@ a3 :> 3
MCHeaderValid == MCBlock
MCBodyValid == MCBlock
=============================================================================
