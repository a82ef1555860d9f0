--------------------------- MODULE MCWorkerManager ---------------------------
EXTENDS WorkerManager

CONSTANTS i1, i2, i3

MCInvokes == <<i1, i2, i3>>
MCInputOf == (i1 :> "valid") @@ (i2 :> "no_nul") @@ (i3 :> "valid")
=============================================================================
