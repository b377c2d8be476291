---------------------------- MODULE MCBronzeTable ----------------------------
(* Small instances of BronzeTable; all bounds are in the configurations.     *)
EXTENDS BronzeTable
==============================================================================
