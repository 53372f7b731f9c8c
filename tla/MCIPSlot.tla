------------------------------ MODULE MCIPSlot -------------------------------
(* Small instances of IPSlot for TLC.                                      *)
EXTENDS IPSlot
=============================================================================
