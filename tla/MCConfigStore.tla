---------------------------- MODULE MCConfigStore ----------------------------
(* Instances of ConfigStore for TLC.                                            *)
EXTENDS ConfigStore

CONSTANTS address1, address2, password1
=============================================================================
