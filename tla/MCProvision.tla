----------------------------- MODULE MCProvision -----------------------------
(* Small instances of Provision for TLC.                                   *)
EXTENDS Provision
=============================================================================
