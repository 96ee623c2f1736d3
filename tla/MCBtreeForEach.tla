--------------------------- MODULE MCBtreeForEach ---------------------------
(* Values for the constants of BtreeForEach in TLC's runs.                  *)
EXTENDS BtreeForEach

WordValues == [{0} -> {0, 1}]
=============================================================================
