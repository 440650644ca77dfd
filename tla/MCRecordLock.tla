---------------------------- MODULE MCRecordLock -----------------------------
EXTENDS RecordLock, TLC

CONSTANTS p1, p2, p3, p4, p5

MCMixed == (p1 :> "summer") @@ (p2 :> "editor") @@ (p3 :> "updater")
           @@ (p4 :> "upgrader") @@ (p5 :> "upgrader")
=============================================================================
