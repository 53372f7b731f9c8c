---------------------------- MODULE MCEnforceSync ----------------------------
(* Small instances of EnforceSync for TLC.                                 *)
EXTENDS EnforceSync
=============================================================================
