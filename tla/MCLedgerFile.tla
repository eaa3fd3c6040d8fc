--------------------------- MODULE MCLedgerFile ---------------------------
(* Instances of LedgerFile for TLC; the bounds are in the .cfg files. *)
EXTENDS LedgerFile
===========================================================================
