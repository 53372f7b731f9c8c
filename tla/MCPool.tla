-------------------------------- MODULE MCPool --------------------------------
(* Small instances of Pool for TLC.                                        *)
EXTENDS Pool
CONSTANT c1
=============================================================================
