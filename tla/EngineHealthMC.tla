--------------------------- MODULE EngineHealthMC ---------------------------
(* EngineHealth with the values that BookSyncMC gives to the constants.    *)
EXTENDS EngineHealth, BookSyncMC
=============================================================================
